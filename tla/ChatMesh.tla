------------------------------ MODULE ChatMesh ------------------------------
(***************************************************************************)
(* A network of nodes running mesh::Mesh: repeaters that forward, and      *)
(* chat clients (BaseChatMesh, as the companion radio runs it) that write  *)
(* to each other.  A message floods until a path is known, the recipient   *)
(* returns the path and the acknowledgement, and the next message goes     *)
(* directly, hop by hop, along the path in its header.                     *)
(*                                                                         *)
(* One step is one call of onRecvPacket(), one transmission or one command *)
(* of the app.  Retransmissions wait for random times, so a node's frames  *)
(* leave in any order; what a receiver heard is worked on in any order.    *)
(***************************************************************************)
EXTENDS MeshPackets, FiniteSets, FiniteSetsExt

CONSTANTS
  Nodes,
  Clients,         \* nodes that run BaseChatMesh; each knows all others
  Repeaters,       \* nodes whose allowPacketForward() may be true
  Links,           \* <<a, b>>: b can hear a
  HashOf,          \* the one-byte hash of a node, by which paths name it
  MaxPath,         \* MAX_PATH_SIZE
  FloodMax,        \* _prefs.flood_max
  ExtraAcks,       \* getExtraAckTransmitCount()
  AckTableSize,    \* EXPECTED_ACK_TABLE_SIZE
  NoPath,          \* out_path_len < 0
  NoEntry,         \* an expected_ack_table entry that is cleared
  Messages,        \* the texts the apps send: [from, to, text]
  GroupMessages,   \* the texts the apps send to the channel: [from, text]
  MaxAttempts,     \* bound: how often an app sends the same text
  MaxTraffic,      \* bound: frames under way when an app gives a command
  MaxAir,          \* bound: receptions under way when a node transmits
  Lossy,           \* whether a node may miss a frame it could hear
  MaxResets,       \* bound: how often an app resets a path
  MayFail,         \* nodes that may lose power
  MaxOutages       \* bound: power losses in all

Hashes == {HashOf[n] : n \in Nodes}
Paths  == Seq(Hashes)

ASSUME NetworkAssumption ==
  /\ Clients \subseteq Nodes
  /\ Repeaters \subseteq Nodes
  /\ Clients \cap Repeaters = {}
  /\ Links \subseteq Nodes \X Nodes
  /\ HashOf \in [Nodes -> Hashes]
  /\ MaxPath \in Nat /\ FloodMax \in Nat
  /\ ExtraAcks \in Nat
  /\ AckTableSize \in Nat \ {0}
  /\ NoPath \notin Paths
  /\ \A m \in Messages : m.from \in Clients /\ m.to \in Clients
  /\ \A m \in Messages : m.from # m.to
  /\ \A m, o \in Messages :
       m.from = o.from /\ m.to = o.to /\ m.text = o.text => m = o
  /\ \A g \in GroupMessages : g.from \in Clients
  /\ \A g, o \in GroupMessages :
       g.from = o.from /\ g.text = o.text => g = o
  /\ MaxAttempts \in Nat /\ MaxTraffic \in Nat /\ MaxAir \in Nat
  /\ Lossy \in BOOLEAN
  /\ MaxResets \in Nat /\ MaxOutages \in Nat
  /\ MayFail \subseteq Nodes

VARIABLES
  tables,      \* SimpleMeshTables of a node
  outq,        \* frames a node has yet to transmit
  air,         \* <<n, f>>: n has heard f and not yet worked on it
  outPath,     \* out_path of each contact of a client
  saved,       \* the contacts file: out_path as last written
  expected,    \* expected_ack_table, a cyclic table; an entry stands for the
               \* text sent: its ACK code and its contact
  nextAck,     \* next_ack_idx
  inbox,       \* what a client handed to its app, in order
  confirmed,   \* the texts whose acknowledgement the app was told of
  attempts,    \* how often the app has sent a message
  posted,      \* the group messages sent
  blobs,       \* random blobs drawn to make a packet unique
  alive,       \* the nodes that have power
  resets,      \* paths reset (bound)
  outages      \* power losses so far (bound)

chatVars == <<outPath, saved, expected, nextAck, inbox, confirmed, blobs>>
appVars  == <<attempts, posted, resets>>
powerVars == <<alive, outages>>
vars == <<tables, outq, air, chatVars, appVars, powerVars>>

Slots == 1 .. AckTableSize
NoExpectations == [i \in Slots |-> NoEntry]
NoPaths == [c \in Clients |-> NoPath]

Init ==
  /\ tables = [n \in Nodes |-> EmptyTables]
  /\ outq = [n \in Nodes |-> {}]
  /\ air = {}
  /\ outPath = [n \in Clients |-> NoPaths]
  /\ saved = [n \in Clients |-> NoPaths]
  /\ expected = [n \in Clients |-> NoExpectations]
  /\ nextAck = [n \in Clients |-> 1]
  /\ inbox = [n \in Clients |-> <<>>]
  /\ confirmed = [n \in Clients |-> {}]
  /\ attempts = [m \in Messages |-> 0]
  /\ posted = {}
  /\ blobs = 0
  /\ alive = Nodes
  /\ resets = 0
  /\ outages = 0

----------------------------------------------------------------------------
(* What onRecvPacket() of a node works on, and the tables it leaves.       *)

Works(n, f) == n \in alive /\ <<n, f>> \in air /\ air' = air \ {<<n, f>>}

NewTables(n, t) == tables' = [tables EXCEPT ![n] = t]
Enqueue(n, frames) == outq' = [outq EXCEPT ![n] = @ \cup frames]

allowPacketForward(n, f) ==
  /\ n \in Repeaters
  /\ isRouteFlood(f) => Len(f.path) < FloodMax

(* Mutant: one hop too few (< for <=). *)
routeRecvPacketShort(n, f) ==
  IF /\ isRouteFlood(f)
     /\ Len(f.path) + 1 < MaxPath
     /\ allowPacketForward(n, f)
  THEN {[f EXCEPT !.path = Append(@, HashOf[n])]}
  ELSE {}

(* The flood copy to retransmit, with this node's hash at its end. *)
routeRecvPacket(n, f) ==
  IF /\ isRouteFlood(f)
     /\ Len(f.path) + 1 <= MaxPath
     /\ allowPacketForward(n, f)
  THEN {[f EXCEPT !.path = Append(@, HashOf[n])]}
  ELSE {}

----------------------------------------------------------------------------
(* Direct packets on their way: the next hop takes itself off the path and *)
(* passes the packet on, unless it has done so before.                     *)

IsNextHop(n, f) == HashOf[n] = Head(f.path) /\ allowPacketForward(n, f)
OnTheWay(f) == isRouteDirect(f) /\ f.path # <<>>

(* Mutant: the last hop is taken off instead of this one. *)
removeLastFromPath(path) == SubSeq(path, 1, Len(path) - 1)

removeSelfFromPath(path) == Tail(path)

routeDirectRecvAcks(code, path) ==
  {Direct(MultiAck(code, k), path) : k \in 1 .. ExtraAcks}
    \cup {Direct(Ack(code), path)}

Forwarded(f) ==
  IF f.body.type \in {"ACK", "MULTI"}
  THEN routeDirectRecvAcks(f.body.code, removeSelfFromPath(f.path))
  ELSE {[f EXCEPT !.path = removeSelfFromPath(@)]}

(* What the tables know a direct packet by. *)
DirectKey(body) == IF body.type = "MULTI" THEN MultiPart(body) ELSE body

ForwardDirect(n, f) ==
  /\ OnTheWay(f)
  /\ Works(n, f)
  /\ IF IsNextHop(n, f) /\ ~hasSeen(tables[n], DirectKey(f.body))
     THEN /\ NewTables(n, Seen(tables[n], DirectKey(f.body)))
          /\ Enqueue(n, Forwarded(f))
     ELSE UNCHANGED <<tables, outq>>
  /\ UNCHANGED <<chatVars, appVars, powerVars>>

----------------------------------------------------------------------------
(* Packets that have arrived: floods, and direct ones with no hop left.    *)

IgnoreSeen(n, f) ==
  /\ ~OnTheWay(f)
  /\ Works(n, f)
  /\ hasSeen(tables[n], DirectKey(f.body))
  /\ UNCHANGED <<tables, outq, chatVars, appVars, powerVars>>

Arrives(n, f, type) ==
  /\ ~OnTheWay(f)
  /\ f.body.type = type
  /\ Works(n, f)
  /\ ~hasSeen(tables[n], DirectKey(f.body))

(* A text or path for somebody else: passed on, if it is a flood. *)
PassOn(n, f) ==
  /\ \/ Arrives(n, f, "TXT")
     \/ Arrives(n, f, "PATH")
  /\ f.body.to # n
  /\ NewTables(n, Seen(tables[n], f.body))
  /\ Enqueue(n, routeRecvPacket(n, f))
  /\ UNCHANGED <<chatVars, appVars, powerVars>>

GroupTextArrives(n, f) ==
  /\ Arrives(n, f, "GRP")
  /\ NewTables(n, Seen(tables[n], f.body))
  /\ Enqueue(n, routeRecvPacket(n, f))
  /\ IF n \in Clients
     THEN inbox' = [inbox EXCEPT ![n] = Append(@, f.body)]
     ELSE UNCHANGED inbox
  /\ UNCHANGED <<outPath, saved, expected, nextAck, confirmed, blobs,
                 appVars, powerVars>>

(***************************************************************************)
(* onMessageRecv() and the answer: to a flood, a flood with the path it    *)
(* took and the ACK in it; to a direct text, sendAckTo().                  *)
(***************************************************************************)
(* Mutant: the ACK is left out of the return path. *)
PathWithoutAck(f) == PathReturn(f.body.to, f.body.from, f.path, NoAck, 0)

PathWithAck(f) ==
  PathReturn(f.body.to, f.body.from, f.path, AckCodeOf(f.body), 0)

AcksTo(path, code) ==
  IF path = NoPath THEN {Flood(Ack(code), <<>>)}
  ELSE {Direct(Ack(code), path)}
         \cup {Direct(MultiAck(code, 1), path) : k \in 1 .. ExtraAcks}

SeenAcksTo(t, path, code) ==
  IF path = NoPath \/ ExtraAcks = 0 THEN Seen(t, Ack(code))
  ELSE Seen(Seen(t, MultiAck(code, 1)), Ack(code))

TextForMe(n, f) ==
  LET t    == Seen(tables[n], f.body)
      path == outPath[n][f.body.from]
  IN /\ Arrives(n, f, "TXT")
     /\ f.body.to = n
     /\ inbox' = [inbox EXCEPT ![n] = Append(@, f.body)]
     /\ IF isRouteFlood(f)
        THEN /\ NewTables(n, Seen(t, PathWithAck(f)))
             /\ Enqueue(n, {Flood(PathWithAck(f), <<>>)})
        ELSE /\ NewTables(n, SeenAcksTo(t, path, AckCodeOf(f.body)))
             /\ Enqueue(n, AcksTo(path, AckCodeOf(f.body)))
     /\ UNCHANGED <<outPath, saved, expected, nextAck, confirmed, blobs,
                    appVars, powerVars>>

(***************************************************************************)
(* processAck(): the first entry with this code is cleared and its contact *)
(* taken to have confirmed.                                                *)
(***************************************************************************)
Matching(n, code) ==
  {i \in Slots : expected[n][i] # NoEntry /\ AckCodeOf(expected[n][i]) = code}

FirstOf(S) == CHOOSE i \in S : \A j \in S : i <= j

ProcessAck(n, code) ==
  IF code # NoAck /\ Matching(n, code) # {}
  THEN LET i == FirstOf(Matching(n, code))
       IN /\ confirmed' = [confirmed EXCEPT ![n] = @ \cup {expected[n][i]}]
          /\ expected' = [expected EXCEPT ![n][i] = NoEntry]
  ELSE UNCHANGED <<confirmed, expected>>

(***************************************************************************)
(* onContactPathRecv(): the path is kept, the ACK in the packet processed; *)
(* to a flood, the path it took goes back directly, with a random blob.    *)
(***************************************************************************)
(* Mutant: the path the packet came by, not the one it brings. *)
InPathOf(f) == f.path

OutPathIn(f) == f.body.path

Reciprocal(f) ==
  PathReturn(f.body.to, f.body.from, f.path, NoAck, blobs + 1)

PathForMe(n, f) ==
  LET t == Seen(tables[n], f.body)
  IN /\ Arrives(n, f, "PATH")
     /\ f.body.to = n
     /\ outPath' = [outPath EXCEPT ![n][f.body.from] = OutPathIn(f)]
     /\ ProcessAck(n, f.body.extra)
     /\ IF isRouteFlood(f)
        THEN /\ NewTables(n, Seen(t, Reciprocal(f)))
             /\ Enqueue(n, {Direct(Reciprocal(f), OutPathIn(f))})
             /\ blobs' = blobs + 1
        ELSE /\ NewTables(n, t)
             /\ UNCHANGED <<outq, blobs>>
     /\ UNCHANGED <<saved, nextAck, inbox, appVars, powerVars>>

(***************************************************************************)
(* onAckRecv().  An ACK that was expected is marked before the route is    *)
(* looked at: it is no flood any more, so it is not passed on and the      *)
(* return path is not sent again.                                          *)
(***************************************************************************)
ReturnPathRetry(n, f, contact) ==
  IF isRouteFlood(f) /\ outPath[n][contact] # NoPath
  THEN {Direct(PathReturn(n, contact, f.path, NoAck, blobs + 1),
               outPath[n][contact])}
  ELSE {}

ExpectedAck(n, f) ==
  LET marked == markDoNotRetransmit(f)
      first  == FirstOf(Matching(n, f.body.code))
      retry  == ReturnPathRetry(n, marked, expected[n][first].to)
  IN /\ n \in Clients
     /\ Matching(n, f.body.code) # {}
     /\ ProcessAck(n, f.body.code)
     /\ Enqueue(n, retry \cup routeRecvPacket(n, marked))
     /\ blobs' = blobs + Cardinality(retry)

UnexpectedAck(n, f) ==
  /\ n \in Clients => Matching(n, f.body.code) = {}
  /\ Enqueue(n, routeRecvPacket(n, f))
  /\ UNCHANGED <<expected, confirmed, blobs>>

AckArrives(n, f) ==
  /\ \/ Arrives(n, f, "ACK")
     \/ Arrives(n, f, "MULTI")
  /\ NewTables(n, Seen(tables[n], DirectKey(f.body)))
  /\ ExpectedAck(n, f) \/ UnexpectedAck(n, f)
  /\ UNCHANGED <<outPath, saved, nextAck, inbox, appVars, powerVars>>

Receive(n) ==
  \E f \in {h[2] : h \in {a \in air : a[1] = n}} :
    \/ ForwardDirect(n, f)
    \/ IgnoreSeen(n, f)
    \/ PassOn(n, f)
    \/ GroupTextArrives(n, f)
    \/ TextForMe(n, f)
    \/ PathForMe(n, f)
    \/ AckArrives(n, f)

----------------------------------------------------------------------------
(* Commands of the app.                                                    *)

TextOf(m, k) == Text(m.from, m.to, m.text, k)
IsConfirmed(m) ==
  \E k \in 0 .. attempts[m] - 1 : TextOf(m, k) \in confirmed[m.from]

(* Mutant: the index does not wrap. *)
NextSlotNoWrap(i) == i + 1

NextSlot(i) == (i % AckTableSize) + 1

Traffic == Cardinality(air) + MapThenSumSet(LAMBDA n : Cardinality(outq[n]), Nodes)

SendMessage(m) ==
  LET n    == m.from
      body == TextOf(m, attempts[m])
      path == outPath[n][m.to]
      f    == IF path = NoPath THEN Flood(body, <<>>) ELSE Direct(body, path)
  IN /\ n \in alive
     /\ attempts[m] < MaxAttempts
     /\ ~IsConfirmed(m)
     /\ Traffic <= MaxTraffic
     /\ NewTables(n, Seen(tables[n], body))
     /\ Enqueue(n, {f})
     /\ attempts' = [attempts EXCEPT ![m] = @ + 1]
     /\ expected' = [expected EXCEPT ![n][nextAck[n]] = body]
     /\ nextAck' = [nextAck EXCEPT ![n] = NextSlot(@)]
     /\ UNCHANGED <<air, outPath, saved, inbox, confirmed, blobs, posted,
                    resets, powerVars>>

SendGroupMessage(g) ==
  LET body == GroupText(g.from, g.text)
  IN /\ g.from \in alive
     /\ g \notin posted
     /\ Traffic <= MaxTraffic
     /\ posted' = posted \cup {g}
     /\ NewTables(g.from, Seen(tables[g.from], body))
     /\ Enqueue(g.from, {Flood(body, <<>>)})
     /\ UNCHANGED <<air, chatVars, attempts, resets, powerVars>>

(* CMD_RESET_PATH. *)
ResetPathTo(n, c) ==
  /\ n \in alive
  /\ outPath[n][c] # NoPath
  /\ resets < MaxResets
  /\ Traffic <= MaxTraffic
  /\ resets' = resets + 1
  /\ outPath' = [outPath EXCEPT ![n][c] = NoPath]
  /\ UNCHANGED <<tables, outq, air, saved, expected, nextAck, inbox,
                 confirmed, blobs, attempts, posted, powerVars>>

----------------------------------------------------------------------------
(* The radio and the power supply.                                         *)

Hearers(n) == {r \in alive : <<n, r>> \in Links}

Transmit(n) ==
  \E f \in outq[n] :
    /\ n \in alive
    /\ Cardinality(air) <= MaxAir
    /\ outq' = [outq EXCEPT ![n] = @ \ {f}]
    /\ air' = air \cup {<<r, f>> : r \in Hearers(n)}
    /\ UNCHANGED <<tables, chatVars, appVars, powerVars>>

(* Collisions, noise, distance: the radio never delivers the frame. *)
Miss(n) ==
  \E h \in air :
    /\ Lossy
    /\ h[1] = n
    /\ air' = air \ {h}
    /\ UNCHANGED <<tables, outq, chatVars, appVars, powerVars>>

(* The lazy write of the contacts (kept only where power may fail). *)
SaveContacts(n) ==
  /\ n \in alive /\ n \in MayFail
  /\ saved[n] # outPath[n]
  /\ saved' = [saved EXCEPT ![n] = outPath[n]]
  /\ UNCHANGED <<tables, outq, air, outPath, expected, nextAck, inbox,
                 confirmed, blobs, appVars, powerVars>>

PowerLoss(n) ==
  /\ n \in MayFail /\ n \in alive
  /\ outages < MaxOutages
  /\ outages' = outages + 1
  /\ alive' = alive \ {n}
  /\ air' = {h \in air : h[1] # n}
  /\ outq' = [outq EXCEPT ![n] = {}]
  /\ UNCHANGED <<tables, chatVars, appVars>>

(* begin(): empty tables, the contacts from the file. *)
Boot(n) ==
  /\ n \notin alive
  /\ alive' = alive \cup {n}
  /\ tables' = [tables EXCEPT ![n] = EmptyTables]
  /\ IF n \in Clients
     THEN /\ outPath' = [outPath EXCEPT ![n] = saved[n]]
          /\ expected' = [expected EXCEPT ![n] = NoExpectations]
          /\ nextAck' = [nextAck EXCEPT ![n] = 1]
     ELSE UNCHANGED <<outPath, expected, nextAck>>
  /\ UNCHANGED <<outq, air, saved, inbox, confirmed, blobs, appVars,
                 outages>>

----------------------------------------------------------------------------
App ==
  \/ \E m \in Messages : SendMessage(m)
  \/ \E g \in GroupMessages : SendGroupMessage(g)
  \/ \E n, c \in Clients : ResetPathTo(n, c)

Power ==
  \/ \E n \in Clients : SaveContacts(n)
  \/ \E n \in Nodes : PowerLoss(n) \/ Boot(n)

Next ==
  \/ App
  \/ Power
  \/ \E n \in Nodes : Receive(n) \/ Transmit(n) \/ Miss(n)

Spec == Init /\ [][Next]_vars

Scheduling == \A n \in Nodes : WF_vars(Receive(n)) /\ WF_vars(Transmit(n))
FairSpec == Spec /\ Scheduling

----------------------------------------------------------------------------
(* Properties.                                                             *)

Texts == {TextOf(m, k) : m \in Messages, k \in 0 .. MaxAttempts}
Codes == {AckCodeOf(b) : b \in Texts}
Bodies ==
  Texts
    \cup {GroupText(g.from, g.text) : g \in GroupMessages}
    \cup {Ack(c) : c \in Codes}
    \cup {MultiAck(c, k) : c \in Codes, k \in 0 .. ExtraAcks}
    \cup [type : {"PATH"}, from : Clients, to : Clients, path : Paths,
          extra : Codes \cup {NoAck}, blob : Nat]
Frames == [route : {"FLOOD", "DIRECT"}, path : Paths, body : Bodies]

(***************************************************************************)
(* The type invariant: nothing but frames in the air, no table longer than *)
(* its array.                                                              *)
(***************************************************************************)
TypeOK ==
  /\ tables \in [Nodes -> [hashes : Seq(Bodies), acks : Seq(Codes)]]
  /\ \A n \in Nodes : /\ Len(tables[n].hashes) <= HashSlots
                      /\ Len(tables[n].acks) <= AckSlots
  /\ outq \in [Nodes -> SUBSET Frames]
  /\ air \subseteq Nodes \X Frames
  /\ outPath \in [Clients -> [Clients -> Paths \cup {NoPath}]]
  /\ saved \in [Clients -> [Clients -> Paths \cup {NoPath}]]
  /\ expected \in [Clients -> [Slots -> Texts \cup {NoEntry}]]
  /\ nextAck \in [Clients -> Slots]
  /\ inbox \in [Clients -> Seq(Bodies)]
  /\ confirmed \in [Clients -> SUBSET Texts]
  /\ attempts \in [Messages -> 0 .. MaxAttempts]
  /\ posted \subseteq GroupMessages
  /\ blobs \in Nat
  /\ alive \subseteq Nodes
  /\ resets \in 0 .. MaxResets
  /\ outages \in 0 .. MaxOutages

(* A path field names a walk through repeaters from one node to another.   *)
Walks(a, path, b) ==
  \E hops \in [1 .. Len(path) -> Repeaters] :
    /\ \A i \in 1 .. Len(path) : HashOf[hops[i]] = path[i]
    /\ \A i \in 1 .. Len(path) - 1 : <<hops[i], hops[i + 1]>> \in Links
    /\ path = <<>> => <<a, b>> \in Links
    /\ path # <<>> => /\ <<a, hops[1]>> \in Links
                      /\ <<hops[Len(path)], b>> \in Links

(***************************************************************************)
(* Every out_path a client keeps, in memory or in its file, names a walk   *)
(* through repeaters that its packets can really take to the contact, in   *)
(* that direction, although it was learnt from packets that came the other *)
(* way (onContactPathRecv, Mesh::onRecvPacket).                            *)
(***************************************************************************)
OutPathsLead ==
  \A n, c \in Clients : \A p \in {outPath[n][c], saved[n][c]} :
    p # NoPath => Walks(n, p, c)

(***************************************************************************)
(* A direct text or return path waiting in a node's queue can be heard,    *)
(* hop by hop, by its addressee: taking oneself off the path never leaves  *)
(* the route (removeSelfFromPath).  Where no two hashes are equal.         *)
(***************************************************************************)
DirectStaysOnRoute ==
  \A n \in Nodes : \A f \in outq[n] :
    isRouteDirect(f) /\ f.body.type \in {"TXT", "PATH"}
      => Walks(n, f.path, f.body.to)

(***************************************************************************)
(* No client gives its app the same packet twice, however many copies      *)
(* reach it by however many ways (hasSeen).                                *)
(***************************************************************************)
DeliveredOnce == \A n \in Clients : IsInjective(inbox[n])

(***************************************************************************)
(* No flood goes round in a circle: a node that has passed a flood on does *)
(* not pass on a copy of it again, unless it lost its tables in between    *)
(* (hasSeen before routeRecvPacket).                                       *)
(***************************************************************************)
Passes(n, path) == Cardinality({i \in DOMAIN path : path[i] = HashOf[n]})
LivesOf(n) == IF n \in MayFail THEN 1 + outages ELSE 1

FloodsDoNotCircle ==
  \A h \in air : isRouteFlood(h[2]) =>
    \A n \in Repeaters : Passes(n, h[2].path) <= LivesOf(n)

(***************************************************************************)
(* When the app is told that a text is confirmed, somebody that text was   *)
(* written to has given it to its app (processAck, onPeerDataRecv).        *)
(***************************************************************************)
AckProvesReceipt ==
  \A n \in Clients : \A e \in confirmed[n] :
    \E c \in Clients : \E b \in Range(inbox[c]) :
      b.type = "TXT" /\ b.from = n /\ b.text = e.text

(***************************************************************************)
(* Once no more power fails and no frame is missed, a text that goes out   *)
(* as a flood is confirmed: the flood reaches the recipient, and the       *)
(* return path with its ACK comes back (docs/faq.md 5.4).                  *)
(***************************************************************************)
Flooding(n, text) ==
  /\ outages = MaxOutages
  /\ \E f \in outq[n] : isRouteFlood(f) /\ f.body.type \in {"TXT", "GRP"}
                                       /\ f.body.text = text
FloodsAreConfirmed ==
  \A m \in Messages : Flooding(m.from, m.text) ~> IsConfirmed(m)

(***************************************************************************)
(* And it leaves both sides with a path to each other, so that the next    *)
(* text goes directly (onPeerPathRecv and the reciprocal path).            *)
(***************************************************************************)
PathsAreLearnt ==
  \A m \in Messages :
    Flooding(m.from, m.text) ~> outPath[m.from][m.to] # NoPath
                                  /\ outPath[m.to][m.from] # NoPath

(* And a group text that goes out reaches every other client.              *)
GroupReachesAll ==
  \A g \in GroupMessages :
    Flooding(g.from, g.text) ~>
      \A c \in Clients \ {g.from} :
        GroupText(g.from, g.text) \in Range(inbox[c])
=============================================================================
