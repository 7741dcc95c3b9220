---------------------------- MODULE PacketQueue -----------------------------
(***************************************************************************)
(* PacketQueue of StaticPoolPacketManager: three parallel arrays (packet,  *)
(* priority, scheduled time) kept as one sequence of entries.              *)
(***************************************************************************)
EXTENDS Integers, Sequences, FiniteSets, SequencesExt

CONSTANTS Packets,     \* the Packet objects made by the constructor
          LowestPri    \* 0xFF, the value 'min_pri' starts from in get()

ASSUME PacketsAssumption == IsFiniteSet(Packets) /\ Packets # {}
ASSUME LowestPriAssumption == LowestPri \in Nat

PoolSize == Cardinality(Packets)

Entry(p, priority, scheduled) ==
  [pkt |-> p, pri |-> priority, at |-> scheduled]

(* add(): a full queue drops the packet without telling anyone. *)
Add(q, e) == IF Len(q) = PoolSize THEN q ELSE Append(q, e)

(* The entries that are not scheduled for the future.  The comparison is   *)
(* the plain unsigned one, not that of millisHasNowPassed.                 *)
Due(q, now) == {i \in DOMAIN q : q[i].at <= now}

CountBefore(q, now) == Cardinality(Due(q, now))

(* get(): among the due entries the most important one, the oldest of      *)
(* equals; an entry whose priority is LowestPri is never chosen.           *)
Eligible(q, now) == {i \in Due(q, now) : q[i].pri < LowestPri}

Best(q, now) ==
  CHOOSE i \in Eligible(q, now) :
    \A j \in Eligible(q, now) :
      \/ q[i].pri < q[j].pri
      \/ q[i].pri = q[j].pri /\ i <= j

(* removeByIdx(), also the shift at the end of get(). *)
RemoveByIdx(q, i) == RemoveAt(q, i)

(* The packets in a queue of entries. *)
InQueue(q) == {q[i].pkt : i \in DOMAIN q}

(* No packet is twice in a queue of entries. *)
Distinct(q) == \A i, j \in DOMAIN q : q[i].pkt = q[j].pkt => i = j

=============================================================================
