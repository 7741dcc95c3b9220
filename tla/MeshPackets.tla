---------------------------- MODULE MeshPackets ----------------------------
(***************************************************************************)
(* The packets of the mesh and the tables by which a node recognises those *)
(* it has already worked on (mesh::Packet, SimpleMeshTables).  A frame is  *)
(* a route, the path field and a body; the body stands for the payload:    *)
(* two frames have the same packet hash exactly when their bodies are      *)
(* equal, whatever route and path they took.                               *)
(***************************************************************************)
EXTENDS Naturals, Sequences, SequencesExt

CONSTANTS
  NoAck,          \* a PATH packet without an ACK in it
  AttemptCodes,   \* 4: how many attempts have an ACK code of their own
  HashSlots,      \* MAX_PACKET_HASHES
  AckSlots        \* MAX_PACKET_ACKS

ASSUME PacketAssumption ==
  /\ AttemptCodes \in Nat \ {0}
  /\ HashSlots \in Nat \ {0}
  /\ AckSlots \in Nat \ {0}

(***************************************************************************)
(* The four bytes that acknowledge a text: a hash of its timestamp and     *)
(* text, of two bits of the attempt and of the sender's key.  The          *)
(* recipient is not in it.  (Mutant first: the text is not in it either.)  *)
(***************************************************************************)
AckCodeWithoutText(from, text, attempt) ==
  [from |-> from, code |-> attempt % AttemptCodes]

AckCode(from, text, attempt) ==
  [from |-> from, text |-> text, code |-> attempt % AttemptCodes]

Text(from, to, text, attempt) ==
  [type |-> "TXT", from |-> from, to |-> to, text |-> text,
   attempt |-> attempt]
GroupText(from, text) == [type |-> "GRP", from |-> from, text |-> text]
Ack(code) == [type |-> "ACK", code |-> code]
MultiAck(code, remaining) ==
  [type |-> "MULTI", code |-> code, remaining |-> remaining]
PathReturn(from, to, path, extra, blob) ==
  [type |-> "PATH", from |-> from, to |-> to, path |-> path,
   extra |-> extra, blob |-> blob]

AckCodeOf(body) == AckCode(body.from, body.text, body.attempt)

(* The ACK inside a MULTIPART packet, looked up under the outer type. *)
MultiPart(body) == MultiAck(body.code, 0)

Flood(body, path) == [route |-> "FLOOD", path |-> path, body |-> body]
Direct(body, path) == [route |-> "DIRECT", path |-> path, body |-> body]

isRouteFlood(f)  == f.route = "FLOOD"
isRouteDirect(f) == f.route = "DIRECT"
(* header = 0xFF also overwrites the route bits: no longer a flood. *)
markDoNotRetransmit(f) == [f EXCEPT !.route = "MARKED"]

----------------------------------------------------------------------------
(* The two tables of a node: the latest HashSlots packet hashes and, for   *)
(* plain ACKs, the latest AckSlots codes.                                  *)

EmptyTables == [hashes |-> <<>>, acks |-> <<>>]

(* A cyclic table, oldest entry first: a full one gives it up. *)
Cyclic(table, slots, x) ==
  Append(IF Len(table) < slots THEN table ELSE Tail(table), x)

hasSeen(t, body) ==
  IF body.type = "ACK" THEN body.code \in Range(t.acks)
                       ELSE body \in Range(t.hashes)

(* Mutant: _next_idx never advances. *)
SeenInOneSlot(t, body) ==
  IF hasSeen(t, body) THEN t
  ELSE IF body.type = "ACK" THEN [t EXCEPT !.acks = <<body.code>>]
                            ELSE [t EXCEPT !.hashes = <<body>>]

(* What hasSeen() leaves behind: a packet not seen before is entered. *)
Seen(t, body) ==
  IF hasSeen(t, body) THEN t
  ELSE IF body.type = "ACK"
       THEN [t EXCEPT !.acks = Cyclic(@, AckSlots, body.code)]
       ELSE [t EXCEPT !.hashes = Cyclic(@, HashSlots, body)]
============================================================================
