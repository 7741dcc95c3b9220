-------------------------- MODULE DispatcherProofs --------------------------
(***************************************************************************)
(* Proofs about Dispatcher for every pool, every set of delays, airtimes   *)
(* and priorities, and every clock width: first what the operations of a   *)
(* PacketQueue do to the packets in it, then who owns a packet, then the   *)
(* times that are kept.                                                    *)
(***************************************************************************)
EXTENDS Dispatcher, FiniteSetTheorems, SequenceTheorems, TLAPS

(* What the queues hold; the times are left open. *)
EntriesOver(T) == [pkt : Packets, pri : Nat, at : T]

------------------------------------------------------------------------------
(* A sequence of packets without repetition that misses a packet is shorter*)
(* than the pool: there is room for one more.                              *)
LEMMA PoolRoom ==
  ASSUME NEW s \in Seq(Packets), IsInjective(s),
         NEW p \in Packets, p \notin ToSet(s)
  PROVE  Len(s) < PoolSize
<1> DEFINE Rest == Packets \ {p}
<1>1. IsFiniteSet(Rest) /\ Cardinality(Rest) = PoolSize - 1
  BY PacketsAssumption, FS_RemoveElement DEF PoolSize
<1>2. PoolSize \in Nat
  BY PacketsAssumption, FS_CardinalityType DEF PoolSize
<1>3. Len(s) \in Nat /\ DOMAIN s = 1 .. Len(s) /\ s \in [1 .. Len(s) -> Packets]
  BY LenProperties
<1>4. s \in [1 .. Len(s) -> Rest]
  BY <1>3 DEF ToSet
<1>5. s \in Injection(1 .. Len(s), Rest)
  BY <1>4 DEF Injection
<1>6. Cardinality(1 .. Len(s)) <= Cardinality(Rest)
  BY <1>1, <1>5, FS_Injection
<1>7. Cardinality(1 .. Len(s)) = Len(s)
  BY <1>3, FS_Interval
<1> QED
  BY <1>1, <1>2, <1>3, <1>6, <1>7

(* The same of a queue of entries. *)
LEMMA QueueRoom ==
  ASSUME NEW T, NEW q \in Seq(EntriesOver(T)), Distinct(q),
         NEW p \in Packets, p \notin InQueue(q)
  PROVE  Len(q) < PoolSize
<1> DEFINE s == [i \in 1 .. Len(q) |-> q[i].pkt]
<1>1. Len(q) \in Nat /\ DOMAIN q = 1 .. Len(q)
  BY LenProperties
<1>2. \A i \in 1 .. Len(q) : q[i] \in EntriesOver(T)
  BY ElementOfSeq
<1>3. s \in Seq(Packets) /\ Len(s) = Len(q) /\ DOMAIN s = DOMAIN q
  BY <1>1, <1>2 DEF EntriesOver
<1>4. IsInjective(s)
  BY <1>1 DEF IsInjective, Distinct
<1>5. p \notin ToSet(s)
  BY <1>1 DEF ToSet, InQueue
<1> QED
  BY <1>3, <1>4, <1>5, PoolRoom

------------------------------------------------------------------------------
(* A packet that is not in the pool is put at its end. *)
LEMMA AppendToPool ==
  ASSUME NEW s \in Seq(Packets), IsInjective(s),
         NEW p \in Packets, p \notin ToSet(s)
  PROVE  /\ Append(s, p) \in Seq(Packets)
         /\ IsInjective(Append(s, p))
         /\ ToSet(Append(s, p)) = ToSet(s) \cup {p}
         /\ Len(s) # PoolSize
<1>1. /\ Append(s, p) \in Seq(Packets)
      /\ Len(Append(s, p)) = Len(s) + 1
      /\ \A i \in 1 .. Len(s) : Append(s, p)[i] = s[i]
      /\ Append(s, p)[Len(s) + 1] = p
  BY AppendProperties
<1>2. /\ Len(s) \in Nat /\ DOMAIN s = 1 .. Len(s)
      /\ DOMAIN Append(s, p) = 1 .. (Len(s) + 1)
  BY <1>1, LenProperties
<1>3. ToSet(Append(s, p)) = ToSet(s) \cup {p}
  BY <1>1, <1>2 DEF ToSet
<1>4. IsInjective(Append(s, p))
  BY <1>1, <1>2 DEF ToSet, IsInjective
<1>5. Len(s) # PoolSize
  <2>1. PoolSize \in Nat
    BY PacketsAssumption, FS_CardinalityType DEF PoolSize
  <2>2. Len(s) < PoolSize /\ Len(s) \in Nat
    BY <1>2, PoolRoom
  <2> HIDE DEF PoolSize
  <2> QED
    BY <2>1, <2>2
<1> QED
  BY <1>1, <1>3, <1>4, <1>5

(* The head of the pool is taken. *)
LEMMA TakeFromPool ==
  ASSUME NEW s \in Seq(Packets), IsInjective(s), s # <<>>
  PROVE  /\ Tail(s) \in Seq(Packets)
         /\ IsInjective(Tail(s))
         /\ Head(s) \in ToSet(s)
         /\ Head(s) \in Packets
         /\ ToSet(Tail(s)) = ToSet(s) \ {Head(s)}
<1>1. /\ Head(s) \in Packets
      /\ Tail(s) \in Seq(Packets)
      /\ Len(Tail(s)) = Len(s) - 1
      /\ \A i \in 1 .. Len(Tail(s)) : Tail(s)[i] = s[i + 1]
  BY HeadTailProperties
<1>2. /\ Len(s) \in Nat \ {0} /\ DOMAIN s = 1 .. Len(s)
      /\ DOMAIN Tail(s) = 1 .. (Len(s) - 1)
  BY <1>1, LenProperties, EmptySeq
<1>3. Head(s) = s[1]
  OBVIOUS
<1>4. IsInjective(Tail(s))
  BY <1>1, <1>2 DEF IsInjective
<1>5. Head(s) \in ToSet(s)
  BY <1>2, <1>3 DEF ToSet
<1>6. ToSet(Tail(s)) = ToSet(s) \ {Head(s)}
  <2>1. ToSet(Tail(s)) \subseteq ToSet(s) \ {Head(s)}
    BY <1>1, <1>2, <1>3 DEF ToSet, IsInjective
  <2>2. ASSUME NEW i \in DOMAIN s, s[i] # Head(s)
        PROVE  s[i] \in ToSet(Tail(s))
    <3>1. i - 1 \in DOMAIN Tail(s)
      BY <1>2, <1>3, <2>2
    <3>2. Tail(s)[i - 1] = s[i]
      BY <1>1, <1>2, <3>1
    <3> QED
      BY <3>1, <3>2 DEF ToSet
  <2> QED
    BY <2>1, <2>2 DEF ToSet
<1> QED
  BY <1>1, <1>4, <1>5, <1>6

------------------------------------------------------------------------------
(* add() of a packet that is not in the queue: there is room for it.       *)
LEMMA AddToQueue ==
  ASSUME NEW T, NEW q \in Seq(EntriesOver(T)), Distinct(q),
         NEW e \in EntriesOver(T), e.pkt \notin InQueue(q)
  PROVE  /\ Add(q, e) = Append(q, e)
         /\ Add(q, e) \in Seq(EntriesOver(T))
         /\ Distinct(Add(q, e))
         /\ InQueue(Add(q, e)) = InQueue(q) \cup {e.pkt}
<1>1. e.pkt \in Packets
  BY DEF EntriesOver
<1>2. Len(q) # PoolSize
  <2>1. PoolSize \in Nat /\ Len(q) \in Nat
    BY PacketsAssumption, FS_CardinalityType, LenProperties DEF PoolSize
  <2> QED
    BY <1>1, <2>1, QueueRoom
<1>3. Add(q, e) = Append(q, e)
  BY <1>2 DEF Add
<1>4. /\ Append(q, e) \in Seq(EntriesOver(T))
      /\ Len(Append(q, e)) = Len(q) + 1
      /\ \A i \in 1 .. Len(q) : Append(q, e)[i] = q[i]
      /\ Append(q, e)[Len(q) + 1] = e
  BY AppendProperties
<1>5. /\ Len(q) \in Nat /\ DOMAIN q = 1 .. Len(q)
      /\ DOMAIN Append(q, e) = 1 .. (Len(q) + 1)
  BY <1>4, LenProperties
<1>6. Distinct(Append(q, e))
  BY <1>4, <1>5 DEF Distinct, InQueue
<1>7. InQueue(Append(q, e)) = InQueue(q) \cup {e.pkt}
  BY <1>4, <1>5 DEF InQueue
<1> QED
  BY <1>3, <1>4, <1>6, <1>7

(* removeByIdx() takes out the packet at that place and no other. *)
LEMMA RemoveFromQueue ==
  ASSUME NEW T, NEW q \in Seq(EntriesOver(T)), Distinct(q), NEW i \in DOMAIN q
  PROVE  /\ RemoveByIdx(q, i) \in Seq(EntriesOver(T))
         /\ Distinct(RemoveByIdx(q, i))
         /\ InQueue(RemoveByIdx(q, i)) = InQueue(q) \ {q[i].pkt}
         /\ q[i].pkt \in InQueue(q)
         /\ q[i].pkt \in Packets
<1> DEFINE E == EntriesOver(T)
           l == SubSeq(q, 1, i - 1)
           r == SubSeq(q, i + 1, Len(q))
<1>1. /\ Len(q) \in Nat /\ DOMAIN q = 1 .. Len(q) /\ i \in 1 .. Len(q)
      /\ \A k \in 1 .. Len(q) : q[k] \in E
  BY LenProperties, ElementOfSeq
<1>2. /\ l \in Seq(E) /\ Len(l) = i - 1
      /\ \A k \in 1 .. i - 1 : l[k] = q[k]
  <2>1. \A k \in 1 .. i - 1 : q[k] \in E
    BY <1>1
  <2>2. /\ l \in Seq(E)
        /\ Len(l) = IF 1 <= i - 1 THEN i - 1 - 1 + 1 ELSE 0
        /\ \A k \in 1 .. i - 1 - 1 + 1 : l[k] = q[1 + k - 1]
    BY <1>1, <2>1, SubSeqProperties
  <2> QED
    BY <1>1, <2>2
<1>3. /\ r \in Seq(E) /\ Len(r) = Len(q) - i
      /\ \A k \in 1 .. Len(q) - i : r[k] = q[i + k]
  <2>1. \A k \in i + 1 .. Len(q) : q[k] \in E
    BY <1>1
  <2>2. /\ r \in Seq(E)
        /\ Len(r) = IF i + 1 <= Len(q) THEN Len(q) - (i + 1) + 1 ELSE 0
        /\ \A k \in 1 .. Len(q) - (i + 1) + 1 : r[k] = q[i + 1 + k - 1]
    BY <1>1, <2>1, SubSeqProperties
  <2> HIDE DEF r, E
  <2>3. Len(r) = Len(q) - i
    BY <1>1, <2>2
  <2>4. ASSUME NEW k \in 1 .. Len(q) - i
        PROVE  r[k] = q[i + k]
    <3>1. k \in 1 .. Len(q) - (i + 1) + 1 /\ i + 1 + k - 1 = i + k
      BY <1>1
    <3> QED
      BY <2>2, <3>1
  <2> QED
    BY <2>2, <2>3, <2>4
<1> DEFINE s == l \o r
<1> HIDE DEF l, r, E
<1>4. /\ s \in Seq(E) /\ Len(s) = Len(q) - 1
      /\ \A k \in 1 .. Len(q) - 1 : s[k] = IF k <= i - 1 THEN l[k] ELSE r[k - (i - 1)]
  <2>1. /\ s \in Seq(E) /\ Len(s) = Len(l) + Len(r)
        /\ \A k \in 1 .. Len(l) + Len(r) :
             s[k] = IF k <= Len(l) THEN l[k] ELSE r[k - Len(l)]
    BY <1>2, <1>3, ConcatProperties
  <2>2. Len(l) + Len(r) = Len(q) - 1
    BY <1>1, <1>2, <1>3
  <2> HIDE DEF s
  <2> QED
    BY <1>2, <2>1, <2>2
<1> HIDE DEF s
<1>5. \A k \in 1 .. Len(q) - 1 : s[k] = IF k < i THEN q[k] ELSE q[k + 1]
  <2> SUFFICES ASSUME NEW k \in 1 .. Len(q) - 1
               PROVE  s[k] = IF k < i THEN q[k] ELSE q[k + 1]
    OBVIOUS
  <2>1. CASE k < i
    BY <1>1, <1>2, <1>4, <2>1
  <2>2. CASE ~(k < i)
    <3>1. k - (i - 1) \in 1 .. Len(q) - i /\ i + (k - (i - 1)) = k + 1
      BY <1>1, <2>2
    <3>2. r[k - (i - 1)] = q[k + 1]
      BY <1>3, <3>1
    <3>3. ~(k <= i - 1)
      BY <1>1, <2>2
    <3> QED
      BY <1>4, <2>2, <3>2, <3>3
  <2> QED
    BY <2>1, <2>2
<1>6. DOMAIN s = 1 .. Len(q) - 1
  BY <1>4, LenProperties
<1>7. Distinct(s)
  <2>1. ASSUME NEW a \in DOMAIN s, NEW b \in DOMAIN s, s[a].pkt = s[b].pkt
        PROVE  a = b
    <3> DEFINE from(k) == IF k < i THEN k ELSE k + 1
    <3>1. /\ from(a) \in DOMAIN q /\ s[a] = q[from(a)]
          /\ from(b) \in DOMAIN q /\ s[b] = q[from(b)]
      BY <1>1, <1>5, <1>6
    <3>2. from(a) = from(b)
      BY <2>1, <3>1 DEF Distinct
    <3> QED
      BY <1>1, <1>6, <3>2
  <2> QED
    BY <2>1 DEF Distinct
<1>8. InQueue(s) = InQueue(q) \ {q[i].pkt}
  <2>1. ASSUME NEW k \in DOMAIN s
        PROVE  s[k].pkt \in InQueue(q) \ {q[i].pkt}
    BY <1>1, <1>5, <1>6 DEF Distinct, InQueue
  <2>2. ASSUME NEW k \in DOMAIN q, k # i
        PROVE  q[k].pkt \in InQueue(s)
    <3>1. CASE k < i
      <4>1. k \in DOMAIN s /\ s[k] = q[k]
        BY <1>1, <1>5, <1>6, <3>1
      <4> QED
        BY <4>1 DEF InQueue
    <3>2. CASE k > i
      <4>1. k - 1 \in DOMAIN s /\ s[k - 1] = q[k]
        BY <1>1, <1>5, <1>6, <3>2
      <4> QED
        BY <4>1 DEF InQueue
    <3> QED
      BY <1>1, <2>2, <3>1, <3>2
  <2> QED
    BY <2>1, <2>2 DEF InQueue
<1>9. RemoveByIdx(q, i) = s
  BY DEF RemoveByIdx, RemoveAt, s, l, r
<1>10. q[i].pkt \in InQueue(q) /\ q[i].pkt \in Packets
  BY <1>1 DEF InQueue, E, EntriesOver
<1> QED
  BY <1>4, <1>7, <1>8, <1>9, <1>10 DEF E

------------------------------------------------------------------------------
(* Every set of natural numbers with an element has a least one. *)
LEMMA LeastNatural ==
  ASSUME NEW S \in SUBSET Nat, S # {}
  PROVE  \E m \in S : \A k \in S : m <= k
<1>1. PICK m \in S : \A k \in S : ~(<<k, m>> \in OpToRel(<, Nat))
  BY NatLessThanWellFounded, WFMin
<1>2. ASSUME NEW k \in S
      PROVE  m <= k
  <2>1. <<k, m>> \in Nat \X Nat /\ ~(<<k, m>> \in OpToRel(<, Nat))
    BY <1>1
  <2>2. ~(k < m)
    BY <2>1 DEF OpToRel
  <2> QED
    BY <2>2
<1> QED
  BY <1>2

(* When some due entry is eligible, get() finds one, and it is one of the  *)
(* most important of them.                                                 *)
LEMMA BestIsEligible ==
  ASSUME NEW T, NEW q \in Seq(EntriesOver(T)), NEW t, Eligible(q, t) # {}
  PROVE  /\ Best(q, t) \in Eligible(q, t)
         /\ Best(q, t) \in DOMAIN q
         /\ \A j \in Eligible(q, t) : q[Best(q, t)].pri <= q[j].pri
<1> DEFINE El == Eligible(q, t)
           Pris == {q[i].pri : i \in El}
<1>1. /\ DOMAIN q = 1 .. Len(q) /\ Len(q) \in Nat
      /\ \A k \in DOMAIN q : q[k].pri \in Nat
  <2>1. DOMAIN q = 1 .. Len(q) /\ Len(q) \in Nat
    BY LenProperties
  <2>2. \A k \in 1 .. Len(q) : q[k] \in EntriesOver(T)
    BY ElementOfSeq
  <2> QED
    BY <2>1, <2>2 DEF EntriesOver
<1>2. El \subseteq DOMAIN q
  BY DEF Eligible, Due
<1> HIDE DEF El
<1>3. Pris \in SUBSET Nat /\ Pris # {}
  BY <1>1, <1>2 DEF El
<1>4. PICK m \in Pris : \A k \in Pris : m <= k
  BY <1>3, LeastNatural
<1> DEFINE Top == {i \in El : q[i].pri = m}
<1>5. Top \in SUBSET Nat /\ Top # {}
  BY <1>1, <1>2
<1>6. PICK i \in Top : \A j \in Top : i <= j
  BY <1>5, LeastNatural
<1>7. i \in El /\ \A j \in El : q[i].pri < q[j].pri \/ (q[i].pri = q[j].pri /\ i <= j)
  <2>1. i \in El /\ q[i].pri = m
    OBVIOUS
  <2>2. ASSUME NEW j \in El, ~(m < q[j].pri)
        PROVE  q[j].pri = m /\ i <= j
    <3>1. m <= q[j].pri /\ m \in Nat /\ q[j].pri \in Nat
      BY <1>1, <1>2, <1>3, <1>4
    <3>2. q[j].pri = m
      BY <2>2, <3>1
    <3> QED
      BY <1>6, <3>2
  <2> QED
    BY <2>1, <2>2
<1>8. /\ Best(q, t) \in El
      /\ \A j \in El : \/ q[Best(q, t)].pri < q[j].pri
                       \/ q[Best(q, t)].pri = q[j].pri /\ Best(q, t) <= j
  BY <1>7 DEF Best, El
<1> QED
  BY <1>1, <1>2, <1>8 DEF El

------------------------------------------------------------------------------
(* Where the loop is, and what it then holds: a packet is in               *)
(* onRecvPacket() exactly while it runs, and while one is outbound the     *)
(* loop returns before it comes to the phases that receive or send.        *)
PhaseInv ==
  /\ current # None <=> pc = "handle"
  /\ pc = "arm" => outbound # None
  /\ outbound # None => pc \in {"app", "arm"}

(* Inductive: Ownership alone does not know that the packet in             *)
(* onRecvPacket() is a packet when it is freed, nor that outbound is NULL  *)
(* when checkSend() overwrites it.                                         *)
IInv == TypeOK /\ Ownership /\ PhaseInv /\ OutboundOwnsRadio

------------------------------------------------------------------------------
(* The arithmetic of the clock stays within a word. *)
LEMMA PlusInTime ==
  ASSUME NEW a \in Time, NEW d \in Nat
  PROVE  Plus(a, d) \in Time
<1>1. Word \in Nat \ {0}
  BY HalfAssumption DEF Word
<1>2. CASE a + d < Word
  BY <1>1, <1>2 DEF Plus, Time
<1>3. CASE ~(a + d < Word)
  <2>1. (a + d) % Word \in 0 .. (Word - 1)
    BY <1>1 DEF Time
  <2> QED
    BY <1>3, <2>1 DEF Plus, Time
<1> QED
  BY <1>2, <1>3

LEMMA MinusInTime ==
  ASSUME NEW a \in Time, NEW b \in Time
  PROVE  Minus(a, b) \in Time
BY HalfAssumption DEF Minus, Time, Word

LEMMA FutureInTime ==
  ASSUME TypeOK, NEW d \in Nat
  PROVE  futureMillis(d) \in Time
BY PlusInTime DEF TypeOK, futureMillis

(* The entries of the queues, in the words of the lemmas about queues.     *)
LEMMA QueuesTyped ==
  ASSUME TypeOK
  PROVE  /\ QueueEntries = EntriesOver(Time)
         /\ sendQueue \in Seq(EntriesOver(Time))
         /\ rxQueue \in Seq(EntriesOver(Time))
BY DEF TypeOK, QueueEntries, EntriesOver

(* free() of a packet that is not in the pool. *)
LEMMA FreedPool ==
  ASSUME TypeOK, OneOwner, NEW p \in Packets, p \notin Pool
  PROVE  /\ Freed(p) \in Seq(Packets)
         /\ IsInjective(Freed(p))
         /\ ToSet(Freed(p)) = Pool \cup {p}
BY AppendToPool DEF TypeOK, OneOwner, Pool, Freed

(* A packet goes to the send queue: there is room. *)
LEMMA QueuedOutbound ==
  ASSUME TypeOK, OneOwner, NEW p \in Packets, p \notin InQueue(sendQueue),
         NEW pri \in Priorities, NEW d \in SendDelays, queueOutbound(p, pri, d)
  PROVE  /\ sendQueue' \in Seq(QueueEntries)
         /\ Distinct(sendQueue')
         /\ InQueue(sendQueue') = InQueue(sendQueue) \cup {p}
<1> DEFINE e == Entry(p, pri, futureMillis(d))
<1>1. pri \in Nat /\ d \in Nat
  BY DispatcherAssumption
<1>2. futureMillis(d) \in Time
  BY <1>1, FutureInTime
<1>3. e \in EntriesOver(Time) /\ e.pkt = p
  BY <1>1, <1>2 DEF Entry, EntriesOver
<1>4. sendQueue' = Add(sendQueue, e)
  BY DEF queueOutbound
<1>5. Distinct(sendQueue)
  BY DEF OneOwner
<1> HIDE DEF e
<1> QED
  BY <1>3, <1>4, <1>5, QueuesTyped, AddToQueue

(* A packet goes to the queue of delayed receptions: there is room. *)
LEMMA QueuedInbound ==
  ASSUME TypeOK, OneOwner, NEW p \in Packets, p \notin InQueue(rxQueue),
         NEW d \in Nat, queueInbound(p, d)
  PROVE  /\ rxQueue' \in Seq(QueueEntries)
         /\ Distinct(rxQueue')
         /\ InQueue(rxQueue') = InQueue(rxQueue) \cup {p}
<1> DEFINE e == Entry(p, 0, futureMillis(d))
<1>1. futureMillis(d) \in Time
  BY FutureInTime
<1>2. e \in EntriesOver(Time) /\ e.pkt = p
  BY <1>1 DEF Entry, EntriesOver
<1>3. rxQueue' = Add(rxQueue, e)
  BY DEF queueInbound
<1>4. Distinct(rxQueue)
  BY DEF OneOwner
<1> HIDE DEF e
<1> QED
  BY <1>2, <1>3, <1>4, QueuesTyped, AddToQueue

(* get(): the chosen packet leaves the queue. *)
LEMMA TakenFromQueue ==
  ASSUME TypeOK, NEW q \in {sendQueue, rxQueue}, Distinct(q),
         Eligible(q, now) # {}
  PROVE  LET i == Best(q, now) IN
         /\ RemoveByIdx(q, i) \in Seq(QueueEntries)
         /\ Distinct(RemoveByIdx(q, i))
         /\ InQueue(RemoveByIdx(q, i)) = InQueue(q) \ {q[i].pkt}
         /\ q[i].pkt \in InQueue(q)
         /\ q[i].pkt \in Packets
<1>1. q \in Seq(EntriesOver(Time)) /\ QueueEntries = EntriesOver(Time)
  BY QueuesTyped
<1>2. Best(q, now) \in DOMAIN q
  BY <1>1, BestIsEligible
<1> QED
  BY <1>1, <1>2, RemoveFromQueue

------------------------------------------------------------------------------
(* The initial states. *)
LEMMA InitIInv == Init => IInv
<1> SUFFICES ASSUME Init
             PROVE  IInv
  OBVIOUS
<1> USE DEF Init, RadioInit
<1>1. /\ unused \in [1 .. PoolSize -> Packets] /\ PoolSize \in Nat
      /\ \A i, j \in 1 .. PoolSize : i # j => unused[i] # unused[j]
  BY PacketsAssumption, FS_CardinalityType DEF SetToSeqs, PoolSize
<1>2. unused \in Seq(Packets) /\ IsInjective(unused)
  BY <1>1 DEF IsInjective
<1>3. 0 \in Time
  BY HalfAssumption DEF Time, Word
<1>4. TypeOK
  <2>1. prevRecv \in BOOLEAN
    BY Zenon DEF isInRecvMode
  <2>2. sendQueue \in Seq(QueueEntries) /\ rxQueue \in Seq(QueueEntries)
    OBVIOUS
  <2>3. airTime \in 0 .. AirCap
    BY DispatcherAssumption
  <2>4. RadioTypeOK
    BY DEF RadioTypeOK, Modes, ChipStates
  <2> QED
    BY <1>2, <1>3, <2>1, <2>2, <2>3, <2>4 DEF TypeOK, Phases, Frames
<1>5. InQueue(<<>>) = {} /\ Distinct(<<>>)
  BY DEF InQueue, Distinct
<1>6. Pool = Packets
  <2>1. unused \in Injection(1 .. PoolSize, Packets)
    BY <1>1, <1>2 DEF Injection
  <2>2. Cardinality(1 .. PoolSize) = Cardinality(Packets)
    BY <1>1, FS_Interval DEF PoolSize
  <2>3. unused \in Surjection(1 .. PoolSize, Packets)
    BY <2>1, <2>2, PacketsAssumption, FS_Injection
  <2> QED
    BY <1>1, <2>3 DEF Pool, ToSet, Surjection
<1>7. OneOwner
  BY <1>2, <1>5, <1>6, DispatcherAssumption DEF OneOwner
<1>8. NothingLeaks
  BY <1>5, <1>6 DEF NothingLeaks
<1>9. PhaseInv /\ OutboundOwnsRadio
  BY DispatcherAssumption DEF PhaseInv, OutboundOwnsRadio
<1> QED
  BY <1>4, <1>7, <1>8, <1>9 DEF IInv, Ownership

------------------------------------------------------------------------------
(* Every action preserves the invariant. *)

(* Of the state of the pool, only these matter to Ownership. *)
LEMMA OwnershipFrame ==
  ASSUME Ownership, UNCHANGED poolVars
  PROVE  Ownership'
BY DEF Ownership, OneOwner, NothingLeaks, Pool, poolVars

LEMMA ObtainStep ==
  ASSUME IInv, ObtainNewPacket
  PROVE  IInv'
<1> USE DEF IInv, ObtainNewPacket
<1>1. PhaseInv' /\ OutboundOwnsRadio'
  BY DEF PhaseInv, OutboundOwnsRadio, radioVars
<1>2. CASE unused = <<>>
  <2>1. TypeOK'
    BY <1>2 DEF TypeOK, RadioTypeOK, Errors, timerVars, radioVars
  <2> QED
    BY <1>1, <1>2, <2>1, OwnershipFrame DEF poolVars
<1>3. CASE unused # <<>>
  <2> DEFINE p == Head(unused)
  <2>1. unused' = Tail(unused) /\ held' = held \cup {p} /\ UNCHANGED errFlags
    BY <1>3
  <2>2. /\ unused' \in Seq(Packets) /\ IsInjective(unused')
        /\ p \in Pool /\ p \in Packets /\ Pool' = Pool \ {p}
    BY <1>3, <2>1, TakeFromPool DEF TypeOK, Ownership, OneOwner, Pool
  <2> HIDE DEF p
  <2>3. TypeOK'
    BY <2>1, <2>2 DEF TypeOK, RadioTypeOK, timerVars, radioVars
  <2>4. OneOwner'
    BY <2>1, <2>2 DEF Ownership, OneOwner
  <2>5. NothingLeaks'
    BY <2>1, <2>2 DEF Ownership, NothingLeaks
  <2> QED
    BY <1>1, <2>3, <2>4, <2>5 DEF Ownership
<1> QED
  BY <1>2, <1>3

LEMMA SendPacketStep ==
  ASSUME IInv, NEW p \in Packets, SendPacket(p)
  PROVE  IInv'
<1> USE DEF IInv, SendPacket
<1>1. PhaseInv' /\ OutboundOwnsRadio'
  BY DEF PhaseInv, OutboundOwnsRadio, radioVars
<1>2. p \notin InQueue(sendQueue)
  BY DEF Ownership, OneOwner
<1>3. /\ sendQueue' \in Seq(QueueEntries)
      /\ Distinct(sendQueue')
      /\ InQueue(sendQueue') = InQueue(sendQueue) \cup {p}
  BY <1>2, QueuedOutbound DEF Ownership
<1>4. TypeOK'
  BY <1>3 DEF TypeOK, RadioTypeOK, timerVars, watchVars, radioVars
<1>5. Pool' = Pool
  BY DEF Pool
<1>6. OneOwner' /\ NothingLeaks'
  BY <1>3, <1>5 DEF Ownership, OneOwner, NothingLeaks
<1> QED
  BY <1>1, <1>4, <1>6 DEF Ownership

LEMMA ReleasePacketStep ==
  ASSUME IInv, NEW p \in Packets, ReleasePacket(p)
  PROVE  IInv'
<1> USE DEF IInv, ReleasePacket
<1>1. PhaseInv' /\ OutboundOwnsRadio'
  BY DEF PhaseInv, OutboundOwnsRadio, radioVars
<1>2. p \notin Pool
  BY DEF Ownership, OneOwner
<1>3. unused' \in Seq(Packets) /\ IsInjective(unused') /\ Pool' = Pool \cup {p}
  BY <1>2, FreedPool DEF Ownership, Pool
<1>4. TypeOK'
  BY <1>3 DEF TypeOK, RadioTypeOK, timerVars, watchVars, radioVars
<1>5. OneOwner' /\ NothingLeaks'
  BY <1>3 DEF Ownership, OneOwner, NothingLeaks
<1> QED
  BY <1>1, <1>4, <1>5 DEF Ownership

(* The start of loop(): what all its branches do to the watch of the radio.*)
LEMMA WatchTyped ==
  ASSUME TypeOK, WatchRecvMode
  PROVE  prevRecv' \in BOOLEAN /\ nonRxStart' \in Time /\ errFlags' \subseteq Errors
<1>1. 0 \in Time
  BY HalfAssumption DEF Time, Word
<1>2. prevRecv' \in BOOLEAN
  BY Zenon DEF WatchRecvMode, isInRecvMode
<1>3. nonRxStart' \in Time
  <2>1. nonRxStart' = 0 \/ nonRxStart' = now \/ nonRxStart' = nonRxStart
    BY Zenon DEF WatchRecvMode
  <2> QED
    BY <1>1, <2>1 DEF TypeOK
<1>4. errFlags' \subseteq Errors
  <2>1. errFlags' = errFlags \cup {"STARTRX_TIMEOUT"} \/ errFlags' = errFlags
    BY Zenon DEF WatchRecvMode
  <2> QED
    BY <2>1 DEF TypeOK, Errors
<1> QED
  BY <1>2, <1>3, <1>4

(* A send that ends gives its packet back to the pool. *)
LEMMA ReleaseOutboundStep ==
  ASSUME IInv, outbound # None, ReleaseOutbound,
         UNCHANGED <<sendQueue, rxQueue, current, held>>
  PROVE  /\ unused' \in Seq(Packets)
         /\ Ownership'
         /\ outbound' = None /\ outStart' = 0 /\ outExpiry' = 0
         /\ RadioTypeOK' /\ chip' = "standby"
<1>1. outbound \in Packets /\ outbound \notin Pool
  BY DEF IInv, TypeOK, Ownership, OneOwner
<1>2. unused' \in Seq(Packets) /\ IsInjective(unused') /\ Pool' = Pool \cup {outbound}
  BY <1>1, FreedPool DEF ReleaseOutbound, IInv, Ownership, Pool
<1>3. outbound' = None /\ current = None
  BY DEF ReleaseOutbound, IInv, PhaseInv
<1>4. OneOwner'
  BY <1>1, <1>2, <1>3, DispatcherAssumption DEF IInv, Ownership, OneOwner
<1>5. NothingLeaks'
  BY <1>2, <1>3 DEF IInv, Ownership, NothingLeaks
<1> QED
  BY <1>2, <1>3, <1>4, <1>5
     DEF Ownership, ReleaseOutbound, onSendFinished, RadioTypeOK, Modes, ChipStates

LEMMA LoopTopStep ==
  ASSUME IInv, LoopTop
  PROVE  IInv'
<1> USE DEF IInv, LoopTop
<1>1. prevRecv' \in BOOLEAN /\ nonRxStart' \in Time /\ errFlags' \subseteq Errors
  BY WatchTyped
<1>2. current = None
  BY DEF PhaseInv
<1>3. 0 \in Time
  BY HalfAssumption DEF Time, Word
<1>4. CASE SendCompleted
  <2>1. outbound # None /\ ReleaseOutbound /\ pc' = "inbound" /\ ticked' = FALSE
    BY <1>4 DEF SendCompleted, Goto
  <2>2. nextTx' \in Time /\ airTime' \in 0 .. AirCap
    <3> DEFINE t == Minus(now, outStart)
    <3>1. t \in Nat
      BY MinusInTime DEF TypeOK, Time
    <3> HIDE DEF t
    <3>2. t * BudgetFactor \in Nat
      BY <3>1, DispatcherAssumption
    <3>3. nextTx' = futureMillis(t * BudgetFactor)
      BY <1>4 DEF SendCompleted, t
    <3>4. airTime' = IF airTime + t <= AirCap THEN airTime + t ELSE AirCap
      BY <1>4 DEF SendCompleted, t
    <3> QED
      BY <3>1, <3>2, <3>3, <3>4, FutureInTime, DispatcherAssumption DEF TypeOK
  <2>3. /\ unused' \in Seq(Packets) /\ Ownership' /\ RadioTypeOK'
        /\ outbound' = None /\ outStart' = 0 /\ outExpiry' = 0 /\ chip' = "standby"
    BY <2>1, ReleaseOutboundStep
  <2>4. TypeOK'
    BY <1>1, <1>3, <2>1, <2>2, <2>3 DEF TypeOK, Phases
  <2>5. PhaseInv' /\ OutboundOwnsRadio'
    BY <1>2, <2>1, <2>3 DEF PhaseInv, OutboundOwnsRadio
  <2> QED
    BY <2>3, <2>4, <2>5
<1>5. CASE SendTimedOut
  <2>1. /\ outbound # None /\ ReleaseOutbound /\ pc' = "inbound" /\ ticked' = FALSE
        /\ UNCHANGED <<airTime, nextTx>>
    BY <1>5 DEF SendTimedOut, Goto
  <2>2. /\ unused' \in Seq(Packets) /\ Ownership' /\ RadioTypeOK'
        /\ outbound' = None /\ outStart' = 0 /\ outExpiry' = 0 /\ chip' = "standby"
    BY <2>1, ReleaseOutboundStep
  <2>3. TypeOK'
    BY <1>1, <1>3, <2>1, <2>2 DEF TypeOK, Phases
  <2>4. PhaseInv' /\ OutboundOwnsRadio'
    BY <1>2, <2>1, <2>2 DEF PhaseInv, OutboundOwnsRadio
  <2> QED
    BY <2>2, <2>3, <2>4
<1>6. CASE SendPending
  <2>1. /\ pc' = "app" /\ ticked' = FALSE /\ UNCHANGED poolVars
        /\ UNCHANGED <<airTime, nextTx, outStart, outExpiry, radioVars>>
    BY <1>6 DEF SendPending, Goto, poolVars
  <2>2. TypeOK'
    BY <1>1, <2>1 DEF TypeOK, Phases, RadioTypeOK, radioVars, poolVars
  <2>3. PhaseInv' /\ OutboundOwnsRadio'
    BY <1>2, <2>1 DEF PhaseInv, OutboundOwnsRadio, radioVars, poolVars
  <2> QED
    BY <2>1, <2>2, <2>3, OwnershipFrame
<1>7. CASE NothingOutbound
  <2>1. /\ outbound = None
        /\ pc' = "inbound" /\ ticked' = FALSE /\ UNCHANGED poolVars
        /\ UNCHANGED <<airTime, nextTx, outStart, outExpiry>>
        /\ UNCHANGED chip /\ RadioTypeOK'
    BY <1>7 DEF NothingOutbound, Goto, poolVars, radioVars, resetAGC,
                RadioTypeOK, TypeOK, Modes
  <2>2. TypeOK'
    BY <1>1, <2>1 DEF TypeOK, Phases, poolVars
  <2>3. PhaseInv' /\ OutboundOwnsRadio'
    BY <1>2, <2>1 DEF PhaseInv, OutboundOwnsRadio, poolVars
  <2> QED
    BY <2>1, <2>2, <2>3, OwnershipFrame
<1> QED
  BY <1>4, <1>5, <1>6, <1>7


LEMMA CheckInboundStep ==
  ASSUME IInv, CheckInbound
  PROVE  IInv'
<1> USE DEF IInv, CheckInbound
<1>1. current = None /\ outbound = None
  BY DEF PhaseInv
<1>2. OutboundOwnsRadio'
  BY DEF OutboundOwnsRadio, radioVars
<1>3. Pool' = Pool
  BY DEF Pool
<1>4. CASE Eligible(rxQueue, now) = {}
  <2>1. UNCHANGED <<current, rxQueue, resume>> /\ pc' = "recv" /\ ticked' = FALSE
    BY <1>4 DEF Goto
  <2>2. TypeOK'
    BY <2>1 DEF TypeOK, RadioTypeOK, Phases, timerVars, watchVars, radioVars
  <2>3. PhaseInv'
    BY <1>1, <2>1 DEF PhaseInv
  <2> QED
    BY <1>2, <2>1, <2>2, <2>3, OwnershipFrame DEF poolVars
<1>5. CASE Eligible(rxQueue, now) # {}
  <2> DEFINE i == Best(rxQueue, now)
             p == rxQueue[i].pkt
  <2>1. /\ current' = p /\ rxQueue' = RemoveByIdx(rxQueue, i)
        /\ resume' = "recv" /\ pc' = "handle" /\ ticked' = FALSE
    BY <1>5 DEF Goto
  <2>2. /\ RemoveByIdx(rxQueue, i) \in Seq(QueueEntries)
        /\ Distinct(RemoveByIdx(rxQueue, i))
        /\ InQueue(RemoveByIdx(rxQueue, i)) = InQueue(rxQueue) \ {p}
        /\ p \in InQueue(rxQueue) /\ p \in Packets
    BY <1>5, TakenFromQueue DEF Ownership, OneOwner
  <2> HIDE DEF i, p
  <2>3. TypeOK'
    BY <2>1, <2>2
       DEF TypeOK, RadioTypeOK, Phases, timerVars, watchVars, radioVars
  <2>4. PhaseInv'
    BY <1>1, <2>1, <2>2, DispatcherAssumption DEF PhaseInv
  <2>5. OneOwner' /\ NothingLeaks'
    BY <1>1, <1>3, <2>1, <2>2, DispatcherAssumption
       DEF Ownership, OneOwner, NothingLeaks
  <2> QED
    BY <1>2, <2>3, <2>4, <2>5 DEF Ownership
<1> QED
  BY <1>4, <1>5

LEMMA RecvRawStep ==
  ASSUME IInv, RecvRaw
  PROVE  IInv'
<1> USE DEF IInv, RecvRaw
<1>1. current = None /\ outbound = None /\ chip \notin {"sending", "sent"}
  BY DEF PhaseInv, OutboundOwnsRadio
<1>2. pc' = "checkRecv" /\ ticked' = FALSE
  BY DEF Goto
<1>3. raw' \in Frames
  BY DispatcherAssumption DEF Frames
<1>4. RadioTypeOK' /\ chip' \notin {"sending", "sent"}
  BY <1>1 DEF TypeOK, RadioTypeOK, recvCommand, radioVars, Modes, ChipStates
<1>5. TypeOK'
  BY <1>2, <1>3, <1>4 DEF TypeOK, Phases, poolVars, timerVars, watchVars
<1>6. PhaseInv' /\ OutboundOwnsRadio'
  BY <1>1, <1>2, <1>4 DEF PhaseInv, OutboundOwnsRadio, poolVars
<1> QED
  BY <1>5, <1>6, OwnershipFrame

LEMMA CheckRecvStep ==
  ASSUME IInv, CheckRecv
  PROVE  IInv'
<1> USE DEF IInv, CheckRecv
<1>1. current = None /\ outbound = None /\ chip \notin {"sending", "sent"}
  BY DEF PhaseInv, OutboundOwnsRadio
<1>2. RadioTypeOK' /\ chip' = chip
  BY DEF TypeOK, RadioTypeOK, recvStore, Modes
<1>3. OutboundOwnsRadio'
  BY <1>2 DEF OutboundOwnsRadio
<1>4. CASE raw = "none" \/ unused = <<>>
  <2>1. UNCHANGED <<unused, rxQueue, current, resume>> /\ pc' = "send" /\ ticked' = FALSE
    BY <1>4 DEF Goto
  <2>2. TypeOK'
    BY <1>2, <2>1 DEF TypeOK, Phases, Frames, timerVars, watchVars
  <2>3. PhaseInv'
    BY <1>1, <2>1 DEF PhaseInv
  <2> QED
    BY <1>3, <2>1, <2>2, <2>3, OwnershipFrame DEF poolVars
<1> DEFINE p == Head(unused)
<1>5. CASE unused # <<>> /\ DropMalformed
  <2>1. /\ unused' = Append(Tail(unused), p)
        /\ UNCHANGED <<rxQueue, current, resume>> /\ pc' = "send" /\ ticked' = FALSE
    BY <1>5 DEF Goto, DropMalformed
  <2>2. /\ Tail(unused) \in Seq(Packets) /\ IsInjective(Tail(unused))
        /\ p \in Pool /\ p \in Packets /\ ToSet(Tail(unused)) = Pool \ {p}
    BY <1>5, TakeFromPool DEF TypeOK, Ownership, OneOwner, Pool
  <2> HIDE DEF p
  <2>3. unused' \in Seq(Packets) /\ IsInjective(unused') /\ Pool' = Pool
    <3>1. p \notin ToSet(Tail(unused))
      BY <2>2
    <3>2. /\ unused' \in Seq(Packets) /\ IsInjective(unused')
          /\ ToSet(unused') = ToSet(Tail(unused)) \cup {p}
      BY <2>1, <2>2, <3>1, AppendToPool
    <3> QED
      BY <2>2, <3>2 DEF Pool
  <2>4. TypeOK'
    BY <1>2, <2>1, <2>3 DEF TypeOK, Phases, Frames, timerVars, watchVars
  <2>5. PhaseInv'
    BY <1>1, <2>1 DEF PhaseInv
  <2>6. OneOwner' /\ NothingLeaks'
    BY <2>1, <2>3 DEF Ownership, OneOwner, NothingLeaks
  <2> QED
    BY <1>3, <2>4, <2>5, <2>6 DEF Ownership
<1>6. CASE unused # <<>> /\ AcceptFrame(p)
  <2>1. /\ unused' \in Seq(Packets) /\ IsInjective(unused')
        /\ p \in Pool /\ p \in Packets /\ Pool' = Pool \ {p}
    BY <1>6, TakeFromPool DEF TypeOK, Ownership, OneOwner, Pool, AcceptFrame
  <2>2. CASE current' = p /\ resume' = "send" /\ UNCHANGED rxQueue /\ Goto("handle")
    <3> HIDE DEF p
    <3>1. TypeOK'
      BY <1>2, <2>1, <2>2 DEF TypeOK, Phases, Frames, timerVars, watchVars, Goto
    <3>2. PhaseInv'
      BY <1>1, <2>1, <2>2, DispatcherAssumption DEF PhaseInv, Goto
    <3>3. OneOwner' /\ NothingLeaks'
      BY <1>1, <2>1, <2>2, DispatcherAssumption DEF Ownership, OneOwner, NothingLeaks
    <3> QED
      BY <1>3, <3>1, <3>2, <3>3 DEF Ownership
  <2>3. CASE \E d \in RxDelays :
               /\ queueInbound(p, IF d > MaxRxDelay THEN MaxRxDelay ELSE d)
               /\ UNCHANGED <<current, resume>> /\ Goto("send")
    <3>1. PICK d \in Nat : /\ queueInbound(p, d)
                           /\ UNCHANGED <<current, resume>> /\ Goto("send")
      BY <2>3, DispatcherAssumption
    <3>2. p \notin InQueue(rxQueue)
      BY <2>1 DEF Ownership, OneOwner
    <3> HIDE DEF p
    <3>3. /\ rxQueue' \in Seq(QueueEntries) /\ Distinct(rxQueue')
          /\ InQueue(rxQueue') = InQueue(rxQueue) \cup {p}
      BY <2>1, <3>1, <3>2, QueuedInbound DEF Ownership
    <3>4. TypeOK'
      BY <1>2, <2>1, <3>1, <3>3 DEF TypeOK, Phases, Frames, timerVars, watchVars, Goto
    <3>5. PhaseInv'
      BY <1>1, <3>1 DEF PhaseInv, Goto
    <3>6. OneOwner' /\ NothingLeaks'
      BY <2>1, <3>1, <3>3 DEF Ownership, OneOwner, NothingLeaks
    <3> QED
      BY <1>3, <3>4, <3>5, <3>6 DEF Ownership
  <2> QED
    BY <1>6, <2>2, <2>3 DEF AcceptFrame
<1> QED
  BY <1>4, <1>5, <1>6


LEMMA ProcessRecvPacketStep ==
  ASSUME IInv, ProcessRecvPacket
  PROVE  IInv'
<1> USE DEF IInv, ProcessRecvPacket
<1>1. /\ current # None /\ current \in Packets /\ outbound = None
      /\ current' = None /\ pc' = resume /\ resume \in {"recv", "send"}
      /\ ticked' = FALSE
  BY DEF PhaseInv, TypeOK, Goto
<1>2. PhaseInv' /\ OutboundOwnsRadio'
  BY <1>1 DEF PhaseInv, OutboundOwnsRadio, radioVars
<1>3. /\ current \notin Pool /\ current \notin InQueue(sendQueue)
      /\ current \notin InQueue(rxQueue) /\ current \notin held
  BY DEF Ownership, OneOwner
<1>4. CASE ActionRelease
  <2>1. unused' \in Seq(Packets) /\ IsInjective(unused') /\ Pool' = Pool \cup {current}
    BY <1>1, <1>3, <1>4, FreedPool DEF Ownership, Pool, ActionRelease
  <2>2. TypeOK'
    BY <1>1, <1>4, <2>1
       DEF TypeOK, RadioTypeOK, Phases, timerVars, watchVars, radioVars, ActionRelease
  <2>3. OneOwner' /\ NothingLeaks'
    BY <1>1, <1>4, <2>1 DEF Ownership, OneOwner, NothingLeaks, ActionRelease
  <2> QED
    BY <1>2, <2>2, <2>3 DEF Ownership
<1>5. CASE ActionManualHold
  <2>1. UNCHANGED <<unused, sendQueue>> /\ held' = held \cup {current} /\ Pool' = Pool
    BY <1>5 DEF ActionManualHold, Pool
  <2>2. TypeOK'
    BY <1>1, <2>1 DEF TypeOK, RadioTypeOK, Phases, timerVars, watchVars, radioVars
  <2>3. OneOwner' /\ NothingLeaks'
    BY <1>1, <1>3, <2>1 DEF Ownership, OneOwner, NothingLeaks
  <2> QED
    BY <1>2, <2>2, <2>3 DEF Ownership
<1>6. CASE ActionRetransmit
  <2>1. PICK pri \in Priorities, d \in SendDelays : queueOutbound(current, pri, d)
    BY <1>6 DEF ActionRetransmit
  <2>2. /\ sendQueue' \in Seq(QueueEntries) /\ Distinct(sendQueue')
        /\ InQueue(sendQueue') = InQueue(sendQueue) \cup {current}
    BY <1>1, <1>3, <2>1, QueuedOutbound DEF Ownership
  <2>3. UNCHANGED <<unused, held>> /\ Pool' = Pool
    BY <1>6 DEF ActionRetransmit, Pool
  <2>4. TypeOK'
    BY <1>1, <2>2, <2>3
       DEF TypeOK, RadioTypeOK, Phases, timerVars, watchVars, radioVars
  <2>5. OneOwner' /\ NothingLeaks'
    BY <1>1, <1>3, <2>2, <2>3 DEF Ownership, OneOwner, NothingLeaks
  <2> QED
    BY <1>2, <2>4, <2>5 DEF Ownership
<1> QED
  BY <1>4, <1>5, <1>6

LEMMA CheckSendStep ==
  ASSUME IInv, CheckSend
  PROVE  IInv'
<1> USE DEF IInv, CheckSend
<1>1. current = None /\ outbound = None /\ chip \notin {"sending", "sent"}
  BY DEF PhaseInv, OutboundOwnsRadio
<1>2. CASE NothingToSend
  <2>1. /\ UNCHANGED <<poolVars, busyStart, nextTx, outStart, errFlags, radioVars>>
        /\ pc' = "app" /\ ticked' = FALSE
    BY <1>2 DEF NothingToSend, Goto
  <2>2. TypeOK'
    BY <2>1 DEF TypeOK, RadioTypeOK, Phases, poolVars, radioVars
  <2>3. PhaseInv' /\ OutboundOwnsRadio'
    BY <1>1, <2>1 DEF PhaseInv, OutboundOwnsRadio, poolVars, radioVars
  <2> QED
    BY <2>1, <2>2, <2>3, OwnershipFrame
<1>3. CASE ChannelBusy
  <2>1. /\ UNCHANGED <<poolVars, outStart, errFlags, radioVars>>
        /\ pc' = "app" /\ ticked' = FALSE
    BY <1>3 DEF ChannelBusy, Goto
  <2>2. busyStart' \in Time
    BY <1>3 DEF ChannelBusy, BusySince, TypeOK
  <2>3. nextTx' \in Time
    <3>1. PICK d \in CadRetryDelays : nextTx' = futureMillis(d)
      BY <1>3 DEF ChannelBusy
    <3> QED
      BY <3>1, DispatcherAssumption, FutureInTime
  <2>4. TypeOK'
    BY <2>1, <2>2, <2>3 DEF TypeOK, RadioTypeOK, Phases, poolVars, radioVars
  <2>5. PhaseInv' /\ OutboundOwnsRadio'
    BY <1>1, <2>1 DEF PhaseInv, OutboundOwnsRadio, poolVars, radioVars
  <2> QED
    BY <2>1, <2>4, <2>5, OwnershipFrame
<1>4. CASE StartSend
  <2>1. /\ errFlags' \subseteq Errors /\ busyStart' \in Time
        /\ UNCHANGED <<nextTx, rxQueue, current, held>>
    <3>1. /\ errFlags' = errFlags \/ errFlags' = errFlags \cup {"CAD_TIMEOUT"}
          /\ busyStart' = 0
          /\ UNCHANGED <<nextTx, rxQueue, current, held>>
      BY <1>4, Zenon DEF StartSend
    <3>2. 0 \in Time
      BY HalfAssumption DEF Time, Word
    <3> QED
      BY <3>1, <3>2 DEF TypeOK, Errors
  <2>2. CASE Eligible(sendQueue, now) = {}
    <3>1. /\ UNCHANGED <<unused, sendQueue, outbound, outStart, radioVars>>
          /\ pc' = "app" /\ ticked' = FALSE
      BY <1>4, <2>2 DEF StartSend, Goto
    <3>2. TypeOK'
      BY <2>1, <3>1 DEF TypeOK, RadioTypeOK, Phases, radioVars
    <3>3. PhaseInv' /\ OutboundOwnsRadio'
      BY <1>1, <2>1, <3>1 DEF PhaseInv, OutboundOwnsRadio, radioVars
    <3> QED
      BY <2>1, <3>1, <3>2, <3>3, OwnershipFrame DEF poolVars
  <2>3. CASE Eligible(sendQueue, now) # {}
    <3> DEFINE i == Best(sendQueue, now)
               p == sendQueue[i].pkt
    <3>1. sendQueue' = RemoveByIdx(sendQueue, i)
      BY <1>4, <2>3 DEF StartSend
    <3>2. /\ RemoveByIdx(sendQueue, i) \in Seq(QueueEntries)
          /\ Distinct(RemoveByIdx(sendQueue, i))
          /\ InQueue(RemoveByIdx(sendQueue, i)) = InQueue(sendQueue) \ {p}
          /\ p \in InQueue(sendQueue) /\ p \in Packets
      BY <2>3, TakenFromQueue DEF Ownership, OneOwner
    <3>3. CASE /\ sendCommand /\ outbound' = p /\ outStart' = now
               /\ UNCHANGED unused /\ Goto("arm")
      <4> HIDE DEF i, p
      <4>1. Pool' = Pool
        BY <3>3 DEF Pool
      <4>2. TypeOK'
        BY <2>1, <3>1, <3>2, <3>3
           DEF TypeOK, RadioTypeOK, Phases, ChipStates, Goto, sendCommand
      <4>3. PhaseInv' /\ OutboundOwnsRadio'
        BY <1>1, <2>1, <3>2, <3>3, DispatcherAssumption
           DEF PhaseInv, OutboundOwnsRadio, Goto, sendCommand
      <4>4. OneOwner' /\ NothingLeaks'
        BY <1>1, <2>1, <3>1, <3>2, <3>3, <4>1, DispatcherAssumption
           DEF Ownership, OneOwner, NothingLeaks
      <4> QED
        BY <4>2, <4>3, <4>4 DEF Ownership
    <3>4. CASE /\ sendRefused /\ unused' = Freed(p)
               /\ UNCHANGED <<outbound, outStart>> /\ Goto("app")
      <4> HIDE DEF i, p
      <4>1. p \notin Pool
        BY <3>2 DEF Ownership, OneOwner
      <4>2. unused' \in Seq(Packets) /\ IsInjective(unused') /\ Pool' = Pool \cup {p}
        BY <3>2, <3>4, <4>1, FreedPool DEF Ownership, Pool
      <4>3. TypeOK'
        BY <2>1, <3>1, <3>2, <3>4, <4>2
           DEF TypeOK, RadioTypeOK, Phases, Modes, ChipStates, Goto, sendRefused
      <4>4. PhaseInv' /\ OutboundOwnsRadio'
        BY <1>1, <2>1, <3>4 DEF PhaseInv, OutboundOwnsRadio, Goto, sendRefused
      <4>5. OneOwner' /\ NothingLeaks'
        BY <1>1, <2>1, <3>1, <3>2, <3>4, <4>2, DispatcherAssumption
           DEF Ownership, OneOwner, NothingLeaks
      <4> QED
        BY <4>3, <4>4, <4>5 DEF Ownership
    <3> QED
      BY <1>4, <2>3, <3>3, <3>4 DEF StartSend
  <2> QED
    BY <2>2, <2>3
<1> QED
  BY <1>2, <1>3, <1>4

LEMMA ArmExpiryStep ==
  ASSUME IInv, ArmExpiry
  PROVE  IInv'
<1> USE DEF IInv, ArmExpiry
<1>1. outExpiry' \in Time
  <2>1. PICK a \in AirTimes : outExpiry' = futureMillis((a * 3) \div 2)
    OBVIOUS
  <2>2. (a * 3) \div 2 \in Nat
    BY DispatcherAssumption
  <2> QED
    BY <2>1, <2>2, FutureInTime
<1>2. TypeOK'
  BY <1>1 DEF TypeOK, RadioTypeOK, Phases, Modes, Goto, sendStore, poolVars, watchVars
<1>3. PhaseInv' /\ OutboundOwnsRadio'
  BY DEF PhaseInv, OutboundOwnsRadio, Goto, sendStore, poolVars
<1> QED
  BY <1>2, <1>3, OwnershipFrame

LEMMA WorldStep ==
  ASSUME IInv, Tick \/ Interrupt
  PROVE  IInv'
<1> USE DEF IInv
<1>1. now' \in Time /\ ticked' \in BOOLEAN
  BY PlusInTime DEF Tick, Interrupt, TypeOK
<1>2. RadioTypeOK' /\ (chip' \in {"sending", "sent"} <=> chip \in {"sending", "sent"})
  BY DEF Tick, Interrupt, TypeOK, RadioTypeOK, RxDone, TxDone, radioVars, ChipStates
<1>3. UNCHANGED <<pc, resume, raw, poolVars, timerVars, watchVars>>
  BY DEF Tick, Interrupt
<1>4. TypeOK'
  BY <1>1, <1>2, <1>3 DEF TypeOK, poolVars, timerVars, watchVars
<1>5. PhaseInv' /\ OutboundOwnsRadio'
  BY <1>2, <1>3 DEF PhaseInv, OutboundOwnsRadio, poolVars
<1> QED
  BY <1>3, <1>4, <1>5, OwnershipFrame

LEMMA StutterStep ==
  ASSUME IInv, UNCHANGED vars
  PROVE  IInv'
<1> USE DEF IInv, vars
<1>1. TypeOK'
  BY DEF TypeOK, RadioTypeOK, poolVars, timerVars, watchVars, radioVars
<1>2. PhaseInv' /\ OutboundOwnsRadio'
  BY DEF PhaseInv, OutboundOwnsRadio, poolVars, radioVars
<1> QED
  BY <1>1, <1>2, OwnershipFrame

LEMMA NextIInv == IInv /\ [Next]_vars => IInv'
BY ObtainStep, SendPacketStep, ReleasePacketStep, LoopTopStep, CheckInboundStep,
   RecvRawStep, CheckRecvStep, ProcessRecvPacketStep, CheckSendStep,
   ArmExpiryStep, WorldStep, StutterStep
   DEF Next, LoopStep, SubclassStep

LEMMA Invariance == Spec => []IInv
BY InitIInv, NextIInv, PTL DEF Spec

------------------------------------------------------------------------------
(* The state of the dispatcher stays well typed: times within a word, the  *)
(* queues sequences of entries of the pool's packets.                      *)
THEOREM TypeCorrect == Spec => []TypeOK
<1>1. IInv => TypeOK
  BY DEF IInv
<1> QED
  BY <1>1, Invariance, PTL

(* However the packets of a pool of any size move, each has exactly one    *)
(* owner: no loop() and no subclass can leak one or free one twice, and    *)
(* PacketQueue::add() never meets a full queue.                            *)
THEOREM PoolOwnership == Spec => []Ownership
<1>1. IInv => Ownership
  BY DEF IInv
<1> QED
  BY <1>1, Invariance, PTL

(* A packet is outbound exactly while the chip works on its buffer.        *)
THEOREM RadioOwnership == Spec => []OutboundOwnsRadio
<1>1. IInv => OutboundOwnsRadio
  BY DEF IInv
<1> QED
  BY <1>1, Invariance, PTL

------------------------------------------------------------------------------
(* The refinement of PacketLifecycle. *)

(* In a state of the invariant every owner is where OwnerOf finds it. *)
LEMMA OwnerNow ==
  ASSUME Ownership, NEW p \in Packets
  PROVE  /\ p \in Pool               <=> OwnerOf(p) = "pool"
         /\ p \in InQueue(sendQueue) <=> OwnerOf(p) = "sendQueue"
         /\ p \in InQueue(rxQueue)   <=> OwnerOf(p) = "rxQueue"
         /\ p \in held               <=> OwnerOf(p) = "subclass"
         /\ p = outbound             <=> OwnerOf(p) = "outbound"
         /\ p = current              <=> OwnerOf(p) = "current"
BY DispatcherAssumption DEF Ownership, OneOwner, NothingLeaks, OwnerOf

LEMMA OwnerNext ==
  ASSUME Ownership', NEW p \in Packets
  PROVE  /\ p \in Pool'               <=> OwnerOf(p)' = "pool"
         /\ p \in InQueue(sendQueue') <=> OwnerOf(p)' = "sendQueue"
         /\ p \in InQueue(rxQueue')   <=> OwnerOf(p)' = "rxQueue"
         /\ p \in held'               <=> OwnerOf(p)' = "subclass"
         /\ p = outbound'             <=> OwnerOf(p)' = "outbound"
         /\ p = current'              <=> OwnerOf(p)' = "current"
BY DispatcherAssumption DEF Ownership, OneOwner, NothingLeaks, OwnerOf

(* The packet is where it was. *)
Stays(p) ==
  /\ p \in Pool'               <=> p \in Pool
  /\ p \in InQueue(sendQueue') <=> p \in InQueue(sendQueue)
  /\ p \in InQueue(rxQueue')   <=> p \in InQueue(rxQueue)
  /\ p \in held'               <=> p \in held
  /\ p = outbound'             <=> p = outbound
  /\ p = current'              <=> p = current

LEMMA StaysSameOwner ==
  ASSUME NEW p, Stays(p)
  PROVE  OwnerOf(p)' = OwnerOf(p)
BY DEF Stays, OwnerOf

LEMMA AllStay ==
  ASSUME \A p \in Packets : Stays(p)
  PROVE  UNCHANGED [p \in Packets |-> OwnerOf(p)]
BY StaysSameOwner

(* One packet moves along an edge, every other one stays. *)
LEMMA OneMoves ==
  ASSUME Ownership, Ownership', NEW p \in Packets,
         \A q \in Packets \ {p} : Stays(q),
         <<OwnerOf(p), OwnerOf(p)'>> \in Lifecycle!Edges,
         OwnerOf(p)' = "current" => current = None,
         OwnerOf(p)' = "outbound" => outbound = None
  PROVE  Lifecycle!Next
<1> DEFINE to == OwnerOf(p)'
           own == [q \in Packets |-> OwnerOf(q)]
<1>1. to \in Lifecycle!Owners
  BY DEF Lifecycle!Owners, Lifecycle!Edges
<1>2. own' = [own EXCEPT ![p] = to]
  BY StaysSameOwner
<1>3. to \in Lifecycle!Single => \A q \in Packets : own[q] # to
  <2> SUFFICES ASSUME to \in Lifecycle!Single, NEW q \in Packets
               PROVE  OwnerOf(q) # to
    OBVIOUS
  <2>1. (OwnerOf(q) = "current" => q = current) /\ (OwnerOf(q) = "outbound" => q = outbound)
    BY OwnerNow
  <2> QED
    BY <2>1, DispatcherAssumption DEF Lifecycle!Single
<1>4. Lifecycle!Move(p, to)
  BY <1>2, <1>3 DEF Lifecycle!Move
<1> QED
  BY <1>1, <1>4 DEF Lifecycle!Next

Own == [p \in Packets |-> OwnerOf(p)]

(* A step of the abstract specification, or none. *)
LifecycleStep == Lifecycle!Next \/ UNCHANGED Own

LEMMA FrameLifecycle ==
  ASSUME UNCHANGED poolVars
  PROVE  LifecycleStep
<1>1. \A p \in Packets : Stays(p)
  BY DEF Stays, Pool, poolVars
<1> QED
  BY <1>1, AllStay DEF LifecycleStep, Own

LEMMA SubclassLifecycle ==
  ASSUME IInv, IInv', SubclassStep
  PROVE  LifecycleStep
<1> USE DEF IInv
<1>1. CASE ObtainNewPacket /\ unused = <<>>
  BY <1>1, FrameLifecycle DEF ObtainNewPacket, poolVars
<1>2. CASE ObtainNewPacket /\ unused # <<>>
  <2> PICK p \in Packets : p = Head(unused)
    BY <1>2, TakeFromPool DEF TypeOK, Ownership, OneOwner
  <2>1. /\ unused' = Tail(unused) /\ held' = held \cup {p}
        /\ UNCHANGED <<sendQueue, rxQueue, outbound, current>>
    BY <1>2 DEF ObtainNewPacket
  <2>2. p \in Pool /\ Pool' = Pool \ {p}
    BY <1>2, <2>1, TakeFromPool DEF TypeOK, Ownership, OneOwner, Pool
  <2>3. \A q \in Packets \ {p} : Stays(q)
    BY <2>1, <2>2 DEF Stays
  <2>4. OwnerOf(p) = "pool" /\ OwnerOf(p)' = "subclass"
    BY <2>1, <2>2, OwnerNow, OwnerNext
  <2> QED
    BY <2>2, <2>3, <2>4, OneMoves DEF Lifecycle!Edges, LifecycleStep
<1>3. ASSUME NEW p \in Packets, SendPacket(p)
      PROVE  LifecycleStep
  <2>1. /\ p \in held /\ held' = held \ {p}
        /\ UNCHANGED <<unused, rxQueue, outbound, current>>
    BY <1>3 DEF SendPacket
  <2>2. p \notin InQueue(sendQueue)
    BY <2>1 DEF Ownership, OneOwner
  <2>3. InQueue(sendQueue') = InQueue(sendQueue) \cup {p}
    BY <1>3, <2>2, QueuedOutbound DEF Ownership, SendPacket
  <2>4. Pool' = Pool
    BY <2>1 DEF Pool
  <2>5. \A q \in Packets \ {p} : Stays(q)
    BY <2>1, <2>3, <2>4 DEF Stays
  <2>6. OwnerOf(p) = "subclass" /\ OwnerOf(p)' = "sendQueue"
    BY <2>1, <2>3, OwnerNow, OwnerNext
  <2> QED
    BY <2>5, <2>6, OneMoves DEF Lifecycle!Edges, LifecycleStep
<1>4. ASSUME NEW p \in Packets, ReleasePacket(p)
      PROVE  LifecycleStep
  <2>1. /\ p \in held /\ held' = held \ {p} /\ unused' = Freed(p)
        /\ UNCHANGED <<sendQueue, rxQueue, outbound, current>>
    BY <1>4 DEF ReleasePacket
  <2>2. p \notin Pool
    BY <2>1 DEF Ownership, OneOwner
  <2>3. Pool' = Pool \cup {p}
    BY <2>1, <2>2, FreedPool DEF Ownership, Pool
  <2>4. \A q \in Packets \ {p} : Stays(q)
    BY <2>1, <2>3 DEF Stays
  <2>5. OwnerOf(p) = "subclass" /\ OwnerOf(p)' = "pool"
    BY <2>1, <2>3, OwnerNow, OwnerNext
  <2> QED
    BY <2>4, <2>5, OneMoves DEF Lifecycle!Edges, LifecycleStep
<1> QED
  BY <1>1, <1>2, <1>3, <1>4 DEF SubclassStep

LEMMA LoopTopLifecycle ==
  ASSUME IInv, IInv', LoopTop
  PROVE  LifecycleStep
<1> USE DEF IInv
<1>1. CASE SendPending \/ NothingOutbound
  BY <1>1, FrameLifecycle DEF LoopTop, SendPending, NothingOutbound, poolVars
<1>2. CASE SendCompleted \/ SendTimedOut
  <2>1. /\ outbound # None /\ ReleaseOutbound
        /\ UNCHANGED <<sendQueue, rxQueue, current, held>>
    BY <1>2 DEF LoopTop, SendCompleted, SendTimedOut
  <2>2. /\ outbound \in Packets /\ outbound' = None /\ unused' = Freed(outbound)
        /\ current = None
    BY <2>1 DEF TypeOK, ReleaseOutbound, PhaseInv
  <2>3. outbound \notin Pool
    BY DEF Ownership, OneOwner
  <2>4. Pool' = Pool \cup {outbound}
    BY <2>2, <2>3, FreedPool DEF Ownership, Pool
  <2>5. \A q \in Packets \ {outbound} : Stays(q)
    BY <2>1, <2>2, <2>4, DispatcherAssumption DEF Stays
  <2>6. PICK p \in Packets : p = outbound
    BY <2>2
  <2>7. OwnerOf(p) = "outbound" /\ OwnerOf(p)' = "pool"
    BY <2>4, <2>6, OwnerNow, OwnerNext
  <2> QED
    BY <2>5, <2>6, <2>7, OneMoves DEF Lifecycle!Edges, LifecycleStep
<1> QED
  BY <1>1, <1>2 DEF LoopTop

LEMMA CheckInboundLifecycle ==
  ASSUME IInv, IInv', CheckInbound
  PROVE  LifecycleStep
<1> USE DEF IInv
<1>1. current = None /\ UNCHANGED <<unused, sendQueue, outbound, held>> /\ Pool' = Pool
  BY DEF CheckInbound, PhaseInv, Pool
<1>2. CASE Eligible(rxQueue, now) = {}
  BY <1>1, <1>2, FrameLifecycle DEF CheckInbound, poolVars
<1>3. CASE Eligible(rxQueue, now) # {}
  <2> DEFINE i == Best(rxQueue, now)
  <2>1. PICK p \in Packets : p = rxQueue[i].pkt
    BY <1>3, TakenFromQueue DEF Ownership, OneOwner
  <2>2. current' = p /\ rxQueue' = RemoveByIdx(rxQueue, i)
    BY <1>3, <2>1 DEF CheckInbound
  <2>3. p \in InQueue(rxQueue) /\ InQueue(rxQueue') = InQueue(rxQueue) \ {p}
    BY <1>3, <2>1, <2>2, TakenFromQueue DEF Ownership, OneOwner
  <2> HIDE DEF i
  <2>4. \A q \in Packets \ {p} : Stays(q)
    BY <1>1, <2>2, <2>3, DispatcherAssumption DEF Stays
  <2>5. OwnerOf(p) = "rxQueue" /\ OwnerOf(p)' = "current"
    BY <2>2, <2>3, OwnerNow, OwnerNext
  <2> QED
    BY <1>1, <2>4, <2>5, OneMoves DEF Lifecycle!Edges, LifecycleStep
<1> QED
  BY <1>2, <1>3

LEMMA CheckRecvLifecycle ==
  ASSUME IInv, IInv', CheckRecv
  PROVE  LifecycleStep
<1> USE DEF IInv
<1>1. current = None /\ UNCHANGED <<sendQueue, outbound, held>>
  BY DEF CheckRecv, PhaseInv
<1>2. CASE raw = "none" \/ unused = <<>>
  BY <1>1, <1>2, FrameLifecycle DEF CheckRecv, poolVars
<1>3. CASE unused # <<>>
  <2>1. PICK p \in Packets : p = Head(unused)
    BY <1>3, TakeFromPool DEF TypeOK, Ownership, OneOwner
  <2>2. /\ Tail(unused) \in Seq(Packets) /\ IsInjective(Tail(unused))
        /\ p \in Pool /\ ToSet(Tail(unused)) = Pool \ {p}
    BY <1>3, <2>1, TakeFromPool DEF TypeOK, Ownership, OneOwner, Pool
  <2>3. CASE DropMalformed
    <3>1. p \notin ToSet(Tail(unused))
      BY <2>2
    <3>2. unused' = Append(Tail(unused), p) /\ UNCHANGED <<rxQueue, current>>
      BY <2>1, <2>3 DEF DropMalformed
    <3>3. ToSet(unused') = ToSet(Tail(unused)) \cup {p}
      BY <2>2, <3>1, <3>2, AppendToPool
    <3>4. Pool' = Pool
      BY <2>2, <3>3 DEF Pool
    <3>5. \A q \in Packets : Stays(q)
      BY <1>1, <3>2, <3>4 DEF Stays
    <3> QED
      BY <3>5, AllStay DEF LifecycleStep, Own
  <2>4. CASE AcceptFrame(p)
    <3>1. Pool' = Pool \ {p}
      BY <2>2, <2>4 DEF AcceptFrame, Pool
    <3>2. CASE current' = p /\ UNCHANGED rxQueue
      <4>1. \A q \in Packets \ {p} : Stays(q)
        BY <1>1, <3>1, <3>2, DispatcherAssumption DEF Stays
      <4>2. OwnerOf(p) = "pool" /\ OwnerOf(p)' = "current"
        BY <2>2, <3>2, OwnerNow, OwnerNext
      <4> QED
        BY <1>1, <4>1, <4>2, OneMoves DEF Lifecycle!Edges, LifecycleStep
    <3>3. CASE \E d \in RxDelays :
                 /\ queueInbound(p, IF d > MaxRxDelay THEN MaxRxDelay ELSE d)
                 /\ UNCHANGED current
      <4>1. PICK d \in Nat : queueInbound(p, d) /\ UNCHANGED current
        BY <3>3, DispatcherAssumption
      <4>2. p \notin InQueue(rxQueue)
        BY <2>2 DEF Ownership, OneOwner
      <4>3. InQueue(rxQueue') = InQueue(rxQueue) \cup {p}
        BY <4>1, <4>2, QueuedInbound DEF Ownership
      <4>4. \A q \in Packets \ {p} : Stays(q)
        BY <1>1, <3>1, <4>1, <4>3 DEF Stays
      <4>5. OwnerOf(p) = "pool" /\ OwnerOf(p)' = "rxQueue"
        BY <2>2, <4>3, OwnerNow, OwnerNext
      <4> QED
        BY <4>4, <4>5, OneMoves DEF Lifecycle!Edges, LifecycleStep
    <3> QED
      BY <2>4, <3>2, <3>3 DEF AcceptFrame
  <2> QED
    BY <1>2, <1>3, <2>1, <2>3, <2>4 DEF CheckRecv
<1> QED
  BY <1>2, <1>3

LEMMA ProcessRecvPacketLifecycle ==
  ASSUME IInv, IInv', ProcessRecvPacket
  PROVE  LifecycleStep
<1> USE DEF IInv
<1>1. /\ current # None /\ outbound = None /\ current' = None
      /\ UNCHANGED <<rxQueue, outbound>>
  BY DEF ProcessRecvPacket, PhaseInv
<1>2. PICK p \in Packets : p = current
  BY <1>1 DEF TypeOK
<1>3. p \notin Pool /\ p \notin InQueue(sendQueue) /\ p \notin held
  BY <1>2 DEF Ownership, OneOwner
<1>4. OwnerOf(p) = "current"
  BY <1>2, OwnerNow
<1>5. CASE ActionRelease
  <2>1. unused' = Freed(p) /\ UNCHANGED <<sendQueue, held>>
    BY <1>2, <1>5 DEF ActionRelease
  <2>2. Pool' = Pool \cup {p}
    BY <1>3, <2>1, FreedPool DEF Ownership, Pool
  <2>3. \A q \in Packets \ {p} : Stays(q)
    BY <1>1, <1>2, <2>1, <2>2, DispatcherAssumption DEF Stays
  <2>4. OwnerOf(p)' = "pool"
    BY <2>2, OwnerNext
  <2> QED
    BY <1>4, <2>3, <2>4, OneMoves DEF Lifecycle!Edges, LifecycleStep
<1>6. CASE ActionManualHold
  <2>1. UNCHANGED <<unused, sendQueue>> /\ held' = held \cup {p} /\ Pool' = Pool
    BY <1>2, <1>6 DEF ActionManualHold, Pool
  <2>2. \A q \in Packets \ {p} : Stays(q)
    BY <1>1, <1>2, <2>1, DispatcherAssumption DEF Stays
  <2>3. OwnerOf(p)' = "subclass"
    BY <2>1, OwnerNext
  <2> QED
    BY <1>4, <2>2, <2>3, OneMoves DEF Lifecycle!Edges, LifecycleStep
<1>7. CASE ActionRetransmit
  <2>1. PICK pri \in Priorities, d \in SendDelays : queueOutbound(p, pri, d)
    BY <1>2, <1>7 DEF ActionRetransmit
  <2>2. InQueue(sendQueue') = InQueue(sendQueue) \cup {p}
    BY <1>3, <2>1, QueuedOutbound DEF Ownership
  <2>3. UNCHANGED <<unused, held>> /\ Pool' = Pool
    BY <1>7 DEF ActionRetransmit, Pool
  <2>4. \A q \in Packets \ {p} : Stays(q)
    BY <1>1, <1>2, <2>2, <2>3, DispatcherAssumption DEF Stays
  <2>5. OwnerOf(p)' = "sendQueue"
    BY <2>2, OwnerNext
  <2> QED
    BY <1>4, <2>4, <2>5, OneMoves DEF Lifecycle!Edges, LifecycleStep
<1> QED
  BY <1>5, <1>6, <1>7 DEF ProcessRecvPacket

LEMMA CheckSendLifecycle ==
  ASSUME IInv, IInv', CheckSend
  PROVE  LifecycleStep
<1> USE DEF IInv
<1>1. current = None /\ outbound = None
  BY DEF CheckSend, PhaseInv
<1>2. CASE NothingToSend \/ ChannelBusy
  BY <1>2, FrameLifecycle DEF NothingToSend, ChannelBusy
<1>3. CASE StartSend /\ Eligible(sendQueue, now) = {}
  BY <1>3, FrameLifecycle DEF StartSend, poolVars
<1>4. CASE StartSend /\ Eligible(sendQueue, now) # {}
  <2> DEFINE i == Best(sendQueue, now)
  <2>1. PICK p \in Packets : p = sendQueue[i].pkt
    BY <1>4, TakenFromQueue DEF Ownership, OneOwner
  <2>2. /\ sendQueue' = RemoveByIdx(sendQueue, i)
        /\ UNCHANGED <<rxQueue, current, held>>
        /\ \/ outbound' = p /\ UNCHANGED unused
           \/ unused' = Freed(p) /\ UNCHANGED outbound
    BY <1>4, <2>1 DEF StartSend
  <2>3. p \in InQueue(sendQueue) /\ InQueue(sendQueue') = InQueue(sendQueue) \ {p}
    BY <1>4, <2>1, <2>2, TakenFromQueue DEF Ownership, OneOwner
  <2> HIDE DEF i
  <2>4. p \notin Pool
    BY <2>3 DEF Ownership, OneOwner
  <2>5. OwnerOf(p) = "sendQueue"
    BY <2>3, OwnerNow
  <2>6. CASE outbound' = p /\ UNCHANGED unused
    <3>1. Pool' = Pool
      BY <2>6 DEF Pool
    <3>2. \A q \in Packets \ {p} : Stays(q)
      BY <1>1, <2>2, <2>3, <2>6, <3>1, DispatcherAssumption DEF Stays
    <3>3. OwnerOf(p)' = "outbound"
      BY <2>6, OwnerNext
    <3> QED
      BY <1>1, <2>5, <3>2, <3>3, OneMoves DEF Lifecycle!Edges, LifecycleStep
  <2>7. CASE unused' = Freed(p) /\ UNCHANGED outbound
    <3>1. Pool' = Pool \cup {p}
      BY <2>4, <2>7, FreedPool DEF Ownership, Pool
    <3>2. \A q \in Packets \ {p} : Stays(q)
      BY <2>2, <2>3, <2>7, <3>1 DEF Stays
    <3>3. OwnerOf(p)' = "pool"
      BY <3>1, OwnerNext
    <3> QED
      BY <2>5, <3>2, <3>3, OneMoves DEF Lifecycle!Edges, LifecycleStep
  <2> QED
    BY <2>2, <2>6, <2>7
<1> QED
  BY <1>2, <1>3, <1>4 DEF CheckSend

LEMMA NextLifecycle == IInv /\ IInv' /\ [Next]_vars => LifecycleStep
<1> SUFFICES ASSUME IInv, IInv', [Next]_vars
             PROVE  LifecycleStep
  OBVIOUS
<1>1. CASE LoopStep
  BY <1>1, LoopTopLifecycle, CheckInboundLifecycle, CheckRecvLifecycle,
     ProcessRecvPacketLifecycle, CheckSendLifecycle, FrameLifecycle
     DEF LoopStep, RecvRaw, ArmExpiry
<1>2. CASE SubclassStep
  BY <1>2, SubclassLifecycle
<1>3. CASE Tick \/ Interrupt \/ UNCHANGED vars
  BY <1>3, FrameLifecycle DEF Tick, Interrupt, vars
<1> QED
  BY <1>1, <1>2, <1>3 DEF Next

(* The dispatcher implements the abstract life cycle of its packets: every *)
(* step moves at most one packet, along one of the edges.                  *)
THEOREM ImplementsLifecycle == Spec => LifecycleSpec
<1>1. IInv /\ Init => Lifecycle!Init
  <2> SUFFICES ASSUME IInv, Init, NEW p \in Packets
               PROVE  OwnerOf(p) = "pool"
    BY DEF Lifecycle!Init
  <2>1. InQueue(<<>>) = {}
    BY DEF InQueue
  <2>2. p \in Pool
    BY <2>1, DispatcherAssumption DEF IInv, Ownership, NothingLeaks, Init
  <2> QED
    BY <2>2, OwnerNow DEF IInv
<1>2. IInv /\ IInv' /\ [Next]_vars => [Lifecycle!Next]_Own
  BY NextLifecycle DEF LifecycleStep
<1> QED
  BY <1>1, <1>2, Invariance, InitIInv, PTL DEF Spec, LifecycleSpec, Lifecycle!Spec, Own

------------------------------------------------------------------------------
(* Unsigned sums and differences. *)

(* A sum that leaves the word once comes back by one word. *)
LEMMA WrapsOnce ==
  ASSUME NEW x \in Word .. (2 * Word - 1)
  PROVE  x % Word = x - Word
BY HalfAssumption DEF Word

(* A sum below the word is what it is in Nat, seen from any origin. *)
LEMMA PlusThenMinus ==
  ASSUME NEW a \in Time, NEW s \in Time, NEW d \in Nat, Minus(a, s) + d < Word
  PROVE  Minus(Plus(a, d), s) = Minus(a, s) + d
<1>1. Word \in Nat /\ a \in 0 .. (Word - 1) /\ s \in 0 .. (Word - 1)
  BY HalfAssumption DEF Word, Time
<1>2. CASE a + d < Word
  BY <1>1, <1>2 DEF Plus, Minus
<1>3. CASE a + d >= Word
  <2>1. d < Word
    BY <1>1 DEF Minus
  <2>2. Plus(a, d) = a + d - Word
    <3>1. a + d \in Word .. (2 * Word - 1)
      BY <1>1, <1>3, <2>1
    <3> QED
      BY <1>1, <1>3, <3>1, WrapsOnce DEF Plus
  <2> QED
    BY <1>1, <1>3, <2>1, <2>2 DEF Minus
<1> QED
  BY <1>1, <1>2, <1>3

(* One tick takes the clock at most one further from any origin. *)
LEMMA TickThenMinus ==
  ASSUME NEW a \in Time, NEW s \in Time
  PROVE  Minus(Plus(a, 1), s) <= Minus(a, s) + 1
<1>1. Word \in Nat /\ a \in 0 .. (Word - 1) /\ s \in 0 .. (Word - 1)
  BY HalfAssumption DEF Word, Time
<1>2. Minus(a, s) \in 0 .. (Word - 1) /\ Plus(a, 1) \in 0 .. (Word - 1)
  BY MinusInTime, PlusInTime DEF Time
<1>3. Minus(Plus(a, 1), s) \in 0 .. (Word - 1)
  BY <1>2, MinusInTime DEF Time
<1>4. CASE Minus(a, s) + 1 < Word
  BY <1>1, <1>2, <1>4, PlusThenMinus
<1>5. CASE Minus(a, s) + 1 >= Word
  BY <1>1, <1>2, <1>3, <1>5
<1> QED
  BY <1>1, <1>2, <1>4, <1>5

(* Two times that are one apart as seen from an origin. *)
LEMMA OneLater ==
  ASSUME NEW a \in Time, NEW b \in Time, NEW s \in Time,
         Minus(a, s) = Minus(b, s) + 1
  PROVE  Minus(a, b) = 1
BY HalfAssumption DEF Minus, Time, Word

------------------------------------------------------------------------------
(* How long a send may hold the radio. *)

(* The clock has moved since this phase began. *)
Late == IF ticked THEN 1 ELSE 0

Held == Minus(now, outStart)     \* the age of the send

(* The expiry lies at most one tick beyond 3/2 of some estimated airtime   *)
(* from the start, and LoopTop has not let the send outlive it; or the     *)
(* estimate is as long as the clock can tell.                              *)
ExpiresWithin(a) ==
  LET e == Minus(outExpiry, outStart) IN
  \/ (a * 3) \div 2 + 2 >= Word - 1
  \/ e <= (a * 3) \div 2 + 1 /\ Held <= e + Late

(* Inductive, given IInv: the send is at most a tick old when its expiry   *)
(* is set, and then it is bounded by the expiry.                           *)
HeldInv ==
  outbound # None =>
    /\ pc = "arm" => Held <= Late
    /\ pc = "app" => \E a \in AirTimes : ExpiresWithin(a)

LEMMA HeldStart == Init => HeldInv
BY DEF Init, HeldInv

(* A step that touches neither the clock nor the send. *)
LEMMA HeldFrame ==
  ASSUME HeldInv, UNCHANGED <<pc, now, ticked, outbound, outStart, outExpiry>>
  PROVE  HeldInv'
<1>1. Held' = Held /\ Late' = Late
  BY DEF Held, Late
<1>2. \A a \in AirTimes : ExpiresWithin(a)' <=> ExpiresWithin(a)
  BY <1>1 DEF ExpiresWithin
<1> QED
  BY <1>1, <1>2 DEF HeldInv

LEMMA HeldTick ==
  ASSUME IInv, HeldInv, Tick
  PROVE  HeldInv'
<1>1. /\ UNCHANGED <<pc, outbound, outStart, outExpiry>>
      /\ now \in Time /\ outStart \in Time /\ outExpiry \in Time
      /\ now' = Plus(now, 1) /\ ~ticked /\ ticked'
  BY DEF Tick, poolVars, timerVars, IInv, TypeOK
<1>2. /\ Held' <= Held + 1 /\ Held \in Int /\ Held' \in Int
      /\ Late = 0 /\ Late' = 1
  BY <1>1, TickThenMinus, MinusInTime, PlusInTime DEF Held, Late, Time
<1>3. \A a \in AirTimes : ExpiresWithin(a) => ExpiresWithin(a)'
  <2> TAKE a \in AirTimes
  <2>1. Minus(outExpiry, outStart)' = Minus(outExpiry, outStart)
        /\ Minus(outExpiry, outStart) \in Int
    BY <1>1, MinusInTime DEF Time
  <2> QED
    BY <1>2, <2>1 DEF ExpiresWithin
<1> QED
  BY <1>1, <1>2, <1>3 DEF HeldInv

LEMMA HeldArm ==
  ASSUME IInv, HeldInv, ArmExpiry
  PROVE  HeldInv'
<1>1. PICK a \in AirTimes : outExpiry' = Plus(now, (a * 3) \div 2)
  BY DEF ArmExpiry, futureMillis
<1> DEFINE d == (a * 3) \div 2
<1>2. d \in Nat /\ Word \in Nat
  BY DispatcherAssumption, HalfAssumption DEF Word
<1>3. /\ UNCHANGED <<now, outbound, outStart>> /\ pc' = "app" /\ ~ticked'
      /\ now \in Time /\ outStart \in Time /\ outbound # None /\ pc = "arm"
  BY DEF ArmExpiry, Goto, poolVars, IInv, TypeOK, PhaseInv
<1>4. Held <= 1 /\ Held \in 0 .. (Word - 1) /\ Held' = Held /\ Late' = 0
  BY <1>3, MinusInTime DEF HeldInv, Held, Late, Time
<1> HIDE DEF d
<1>5. ExpiresWithin(a)'
  <2>1. CASE d + 2 >= Word - 1
    BY <2>1 DEF ExpiresWithin, d
  <2>2. CASE d + 2 < Word - 1
    <3>1. Held + d < Word
      BY <1>2, <1>4, <2>2
    <3>2. Minus(outExpiry', outStart') = Held + d
      BY <1>1, <1>2, <1>3, <3>1, PlusThenMinus DEF Held, d
    <3> QED
      BY <1>2, <1>4, <3>2 DEF ExpiresWithin, d
  <2> QED
    BY <1>2, <2>1, <2>2
<1> QED
  BY <1>3, <1>5 DEF HeldInv

LEMMA HeldLoopTop ==
  ASSUME IInv, HeldInv, LoopTop
  PROVE  HeldInv'
<1>1. CASE SendCompleted \/ SendTimedOut \/ NothingOutbound
  BY <1>1 DEF LoopTop, SendCompleted, SendTimedOut, NothingOutbound, ReleaseOutbound,
              HeldInv
<1>2. CASE SendPending
  <2>1. /\ UNCHANGED <<now, outbound, outStart, outExpiry>> /\ pc' = "app" /\ pc = "app"
        /\ ~ticked' /\ now \in Time /\ outStart \in Time /\ outExpiry \in Time
        /\ outbound # None /\ ~HasPassed(now, outExpiry)
    BY <1>2 DEF LoopTop, SendPending, Goto, millisHasNowPassed, IInv, TypeOK
  <2>2. PICK a \in AirTimes : ExpiresWithin(a)
    BY <2>1 DEF HeldInv
  <2> DEFINE e == Minus(outExpiry, outStart)
             d == (a * 3) \div 2
  <2>3. /\ Held \in 0 .. (Word - 1) /\ e \in 0 .. (Word - 1) /\ Held' = Held
        /\ Minus(outExpiry, outStart)' = e /\ Late' = 0 /\ Late \in {0, 1}
    BY <2>1, MinusInTime DEF Held, Late, Time
  <2>4. d \in Nat /\ Half \in Nat \ {0} /\ Word = 2 * Half
    BY DispatcherAssumption, HalfAssumption DEF Word
  <2>5. d + 2 >= Word - 1 \/ (e <= d + 1 /\ Held <= e + Late)
    BY <2>2 DEF ExpiresWithin
  <2>6. Held = e + 1 => Minus(now, outExpiry) = 1
    BY <2>1, OneLater DEF Held
  <2> HIDE DEF d, e
  <2>7. d + 2 >= Word - 1 \/ (e <= d + 1 /\ Held <= e)
    BY <2>1, <2>3, <2>4, <2>5, <2>6 DEF HasPassed
  <2>8. ExpiresWithin(a)'
    BY <2>3, <2>7 DEF ExpiresWithin, d, e
  <2> QED
    BY <2>1, <2>8 DEF HeldInv
<1> QED
  BY <1>1, <1>2 DEF LoopTop

LEMMA HeldCheckSend ==
  ASSUME IInv, HeldInv, CheckSend
  PROVE  HeldInv'
<1>1. outbound = None /\ now' = now /\ now \in Time /\ Late' \in {0, 1}
  BY DEF CheckSend, IInv, PhaseInv, TypeOK, Late
<1>2. \/ outbound' = None
      \/ outStart' = now /\ pc' = "arm"
  BY <1>1 DEF CheckSend, NothingToSend, ChannelBusy, StartSend, poolVars, Goto
<1>3. outStart' = now => Held' <= Late'
  BY <1>1 DEF Held, Minus, Time
<1> QED
  BY <1>2, <1>3 DEF HeldInv

LEMMA HeldStep == IInv /\ HeldInv /\ [Next]_vars => HeldInv'
<1> SUFFICES ASSUME IInv, HeldInv, [Next]_vars
             PROVE  HeldInv'
  OBVIOUS
<1>1. CASE CheckInbound \/ RecvRaw \/ CheckRecv \/ ProcessRecvPacket
  <2>1. outbound' = outbound /\ outbound = None
    BY <1>1 DEF IInv, PhaseInv, CheckInbound, RecvRaw, CheckRecv,
                ProcessRecvPacket, poolVars
  <2> QED
    BY <2>1 DEF HeldInv
<1>2. CASE SubclassStep
  BY <1>2, HeldFrame DEF SubclassStep, ObtainNewPacket, SendPacket, ReleasePacket,
                         timerVars
<1>3. CASE Interrupt \/ UNCHANGED vars
  BY <1>3, HeldFrame DEF Interrupt, vars, poolVars, timerVars
<1> QED
  BY <1>1, <1>2, <1>3, HeldTick, HeldArm, HeldLoopTop, HeldCheckSend
     DEF Next, LoopStep

(* Whatever the radio answers and wherever the clock wraps, a packet is    *)
(* outbound for at most 3/2 of an estimated airtime and two ticks: loop()  *)
(* does not wait for a send that the chip never reports.                   *)
THEOREM SendsAreCutShort == Spec => []RadioHeldBounded
<1>1. IInv /\ HeldInv => RadioHeldBounded
  <2> SUFFICES ASSUME IInv, HeldInv, outbound # None
               PROVE  \E a \in AirTimes : Held <= (a * 3) \div 2 + 2
    BY DEF RadioHeldBounded, Held
  <2>1. Held \in 0 .. (Word - 1) /\ Word \in Nat /\ Late \in {0, 1}
    <3>1. now \in Time /\ outStart \in Time
      BY DEF IInv, TypeOK
    <3>2. Held \in Time
      BY <3>1, MinusInTime DEF Held
    <3> QED
      BY <3>2, HalfAssumption DEF Late, Time, Word
  <2>2. \A a \in AirTimes : (a * 3) \div 2 \in Nat
    BY DispatcherAssumption
  <2>3. CASE pc = "arm"
    <3>1. PICK a \in AirTimes : TRUE
      BY DispatcherAssumption
    <3> QED
      BY <2>1, <2>2, <2>3, <3>1 DEF HeldInv
  <2>4. CASE pc = "app"
    <3>1. PICK a \in AirTimes : ExpiresWithin(a)
      BY <2>4 DEF HeldInv
    <3>2. Minus(outExpiry, outStart) \in Int /\ (a * 3) \div 2 \in Nat
      BY <2>2, MinusInTime DEF IInv, TypeOK, Time
    <3> QED
      BY <2>1, <3>1, <3>2 DEF ExpiresWithin
  <2> QED
    BY <2>3, <2>4 DEF IInv, PhaseInv
<1> QED
  BY <1>1, HeldStart, HeldStep, Invariance, PTL DEF Spec

------------------------------------------------------------------------------
(* The airtime budget and the wait for the channel, for as long as the     *)
(* clock has not wrapped.                                                  *)

(* An uptime for which none of the sums made with the clock leaves the     *)
(* half of the word in which the signed comparison is the one of Nat.      *)
WithoutWrap(uptime) ==
  /\ uptime * (1 + BudgetFactor) < Half
  /\ \A d \in CadRetryDelays : uptime + d < Half

(* The completed sends, with the silence that each earns, fit before the   *)
(* time of the next one; and a send began after that time.                 *)
BudgetInv ==
  /\ nextTx < Half
  /\ airTime * (1 + BudgetFactor) <= nextTx
  /\ outbound # None =>
       airTime * (1 + BudgetFactor) < outStart /\ outStart <= now

LEMMA ProductOfNaturals ==
  ASSUME NEW x \in Nat, NEW n \in Nat
  PROVE  x * n \in Nat
OBVIOUS

(* A product grows with its factor. *)
LEMMA ProductGrows ==
  ASSUME NEW x \in Nat, NEW y \in Nat, x <= y, NEW n \in Nat
  PROVE  x * n <= y * n /\ x * n \in Nat
<1>1. PICK z \in Nat : y = x + z
  <2>1. y - x \in Nat /\ y = x + (y - x)
    OBVIOUS
  <2> QED
    BY <2>1
<1>2. y * n = x * n + z * n /\ x * n \in Nat /\ z * n \in Nat
  BY <1>1
<1> QED
  BY <1>2

LEMMA BudgetStart == Init => BudgetInv
<1> SUFFICES ASSUME Init
             PROVE  BudgetInv
  OBVIOUS
<1>1. airTime = 0 /\ nextTx = 0 /\ outbound = None
  BY DEF Init
<1>2. 0 * (1 + BudgetFactor) = 0
  BY DispatcherAssumption
<1> QED
  BY <1>1, <1>2, HalfAssumption DEF BudgetInv

(* The signed comparison of two times in the lower half of the word. *)
LEMMA PassedInOrder ==
  ASSUME NEW a \in Time, NEW t \in Time, a < Half, t < Half
  PROVE  HasPassed(a, t) <=> t < a
BY HalfAssumption DEF HasPassed, Minus, Time, Word

(* A sum in the lower half of the word is the one of Nat. *)
LEMMA SumInOrder ==
  ASSUME NEW a \in Time, NEW d \in Nat, a + d < Half
  PROVE  Plus(a, d) = a + d
BY HalfAssumption DEF Plus, Time, Word

(* What a step under a short uptime may take for granted. *)
LEMMA ShortUptime ==
  ASSUME IInv, NEW U \in Nat, WithoutWrap(U), now <= U
  PROVE  /\ now < Half /\ U < Half
         /\ {now, nextTx, outStart, busyStart} \subseteq Time /\ airTime \in Nat
         /\ Time \subseteq Nat /\ Half \in Nat /\ BudgetFactor \in Nat
<1>1. U <= U * (1 + BudgetFactor)
  <2>1. U * (1 + BudgetFactor) = U + U * BudgetFactor /\ U * BudgetFactor \in Nat
    BY DispatcherAssumption
  <2> QED
    BY <2>1
<1>2. U * (1 + BudgetFactor) \in Nat
  BY DispatcherAssumption
<1>3. now \in Time /\ Time \subseteq Nat
  BY HalfAssumption DEF IInv, TypeOK, Time, Word
<1>4. airTime \in Nat
  BY DispatcherAssumption DEF IInv, TypeOK
<1> QED
  BY <1>1, <1>2, <1>3, <1>4, HalfAssumption, DispatcherAssumption
     DEF WithoutWrap, IInv, TypeOK

LEMMA BudgetSendCompleted ==
  ASSUME IInv, BudgetInv, NEW U \in Nat, WithoutWrap(U), now <= U,
         LoopTop, SendCompleted
  PROVE  BudgetInv'
<1> DEFINE t == now - outStart
           F == BudgetFactor
<1>1. /\ outbound # None /\ outbound' = None
      /\ airTime' = IF airTime + Minus(now, outStart) <= AirCap
                      THEN airTime + Minus(now, outStart) ELSE AirCap
      /\ nextTx' = Plus(now, Minus(now, outStart) * F)
  BY DEF SendCompleted, ReleaseOutbound, futureMillis
<1>2. /\ airTime \in Nat /\ F \in Nat /\ now \in Time /\ outStart \in Time
      /\ Time \subseteq Nat /\ now < Half /\ Half \in Nat /\ AirCap \in Nat
  BY ShortUptime, DispatcherAssumption
<1>3. airTime * (1 + F) < outStart /\ outStart <= now
  BY <1>1 DEF BudgetInv
<1>4. Minus(now, outStart) = t /\ t \in Nat
  BY <1>2, <1>3 DEF Minus
<1>5. airTime' <= airTime + t /\ airTime' \in Nat
  BY <1>1, <1>2, <1>4
<1>6. t * F <= U * F /\ t * F \in Nat /\ U * F \in Nat
  BY <1>2, <1>3, <1>4
<1>7. now + t * F < Half
  <2>1. U * (1 + F) = U + U * F
    BY <1>2
  <2> QED
    BY <1>2, <1>6, <2>1 DEF WithoutWrap
<1>8. nextTx' = now + t * F
  BY <1>1, <1>2, <1>4, <1>6, <1>7, SumInOrder
<1>9. airTime' * (1 + F) <= now + t * F
  <2>0. 1 + F \in Nat /\ airTime + t \in Nat
    BY <1>2, <1>4
  <2>1. airTime' * (1 + F) <= (airTime + t) * (1 + F)
    BY <1>5, <2>0, ProductGrows
  <2>2. (airTime + t) * (1 + F) = airTime * (1 + F) + t + t * F
    BY <1>2, <1>4
  <2>3. airTime * (1 + F) \in Nat /\ airTime' * (1 + F) \in Nat
        /\ (airTime + t) * (1 + F) \in Nat
    BY <1>2, <1>5, <2>0, ProductOfNaturals
  <2> HIDE DEF t
  <2>4. airTime * (1 + F) + t <= now
    BY <1>2, <1>3, <2>3 DEF t
  <2> QED
    BY <1>2, <1>4, <1>6, <2>1, <2>2, <2>3, <2>4
<1> QED
  BY <1>1, <1>7, <1>8, <1>9 DEF BudgetInv

LEMMA BudgetCheckSend ==
  ASSUME IInv, BudgetInv, NEW U \in Nat, WithoutWrap(U), now <= U, CheckSend
  PROVE  BudgetInv'
<1>1. /\ now < Half /\ now \in Time /\ nextTx \in Time /\ Time \subseteq Nat
      /\ airTime * (1 + BudgetFactor) \in Nat /\ Half \in Nat
  <2>1. airTime \in Nat /\ 1 + BudgetFactor \in Nat
    BY ShortUptime
  <2> QED
    BY <2>1, ShortUptime, ProductOfNaturals
<1>2. airTime' = airTime /\ now' = now /\ outbound = None
  BY DEF CheckSend, IInv, PhaseInv
<1>3. MaySend => nextTx < now
  BY <1>1, PassedInOrder DEF MaySend, millisHasNowPassed, BudgetInv
<1>4. CASE NothingToSend
  BY <1>2, <1>4 DEF NothingToSend, poolVars, BudgetInv
<1>5. CASE ChannelBusy
  <2>1. PICK d \in CadRetryDelays : nextTx' = Plus(now, d)
    BY <1>5 DEF ChannelBusy, futureMillis
  <2>2. now + d < Half /\ d \in Nat
    BY <1>1, DispatcherAssumption DEF WithoutWrap
  <2>3. nextTx' = now + d
    BY <1>1, <2>1, <2>2, SumInOrder
  <2>4. outbound' = None /\ nextTx < now
    BY <1>2, <1>3, <1>5 DEF ChannelBusy, poolVars
  <2> QED
    BY <1>1, <1>2, <2>2, <2>3, <2>4 DEF BudgetInv
<1>6. CASE StartSend
  <2>1. nextTx' = nextTx /\ nextTx < now
    BY <1>3, <1>6 DEF StartSend
  <2>2. outbound' = None \/ outStart' = now
    BY <1>2, <1>6 DEF StartSend
  <2> QED
    BY <1>1, <1>2, <2>1, <2>2 DEF BudgetInv
<1> QED
  BY <1>4, <1>5, <1>6 DEF CheckSend

LEMMA BudgetTick ==
  ASSUME IInv, BudgetInv, NEW U \in Nat, WithoutWrap(U), now <= U, Tick
  PROVE  BudgetInv'
<1>1. now < Half /\ now \in Time /\ outStart \in Time /\ Time \subseteq Nat
  BY ShortUptime
<1>2. UNCHANGED <<nextTx, airTime, outbound, outStart>> /\ now' = Plus(now, 1)
  BY DEF Tick, poolVars, timerVars
<1>3. now' >= now /\ now' \in Nat
  BY <1>1, <1>2, HalfAssumption DEF Plus, Word
<1> QED
  BY <1>1, <1>2, <1>3 DEF BudgetInv

LEMMA BudgetFrame ==
  ASSUME BudgetInv, UNCHANGED <<nextTx, airTime, now>>,
         outbound' = None \/ UNCHANGED <<outbound, outStart>>
  PROVE  BudgetInv'
BY DEF BudgetInv

LEMMA BudgetStep ==
  ASSUME IInv, BudgetInv, NEW U \in Nat, WithoutWrap(U), now <= U, [Next]_vars
  PROVE  BudgetInv'
<1>1. CASE CheckInbound \/ RecvRaw \/ CheckRecv \/ ProcessRecvPacket \/ ArmExpiry
  BY <1>1, BudgetFrame DEF CheckInbound, RecvRaw, CheckRecv, ProcessRecvPacket,
                           ArmExpiry, poolVars, timerVars
<1>2. CASE SubclassStep
  BY <1>2, BudgetFrame DEF SubclassStep, ObtainNewPacket, SendPacket, ReleasePacket,
                           timerVars
<1>3. CASE Interrupt \/ UNCHANGED vars
  BY <1>3, BudgetFrame DEF Interrupt, vars, poolVars, timerVars
<1>4. CASE LoopTop /\ ~SendCompleted
  BY <1>4, BudgetFrame DEF LoopTop, SendTimedOut, SendPending, NothingOutbound,
                           ReleaseOutbound
<1> QED
  BY <1>1, <1>2, <1>3, <1>4, BudgetSendCompleted, BudgetCheckSend, BudgetTick
     DEF Next, LoopStep

(* While the clock has not wrapped, whatever the radio, the channel and    *)
(* the subclass do: whenever a send may start, the completed sends took at *)
(* most one part in 1 + BudgetFactor of the uptime.                        *)
THEOREM AirtimeBudget ==
  ASSUME NEW U \in Nat, WithoutWrap(U)
  PROVE  Spec /\ [](now <= U) => []DutyCycle
<1>1. IInv /\ BudgetInv /\ now <= U => DutyCycle
  <2> SUFFICES ASSUME IInv, BudgetInv, now <= U, HasPassed(now, nextTx)
               PROVE  airTime * (1 + BudgetFactor) < now
    BY DEF DutyCycle, millisHasNowPassed
  <2>1. now < Half /\ {now, nextTx} \subseteq Time /\ Time \subseteq Nat
        /\ nextTx < Half
    BY ShortUptime DEF BudgetInv
  <2>2. nextTx < now
    BY <2>1, PassedInOrder DEF BudgetInv
  <2>3. airTime * (1 + BudgetFactor) \in Nat /\ now \in Nat /\ nextTx \in Nat
    <3>1. airTime \in Nat /\ 1 + BudgetFactor \in Nat
      BY ShortUptime
    <3> QED
      BY <2>1, <3>1, ProductOfNaturals
  <2> QED
    BY <2>2, <2>3 DEF BudgetInv
<1>2. IInv /\ now <= U /\ BudgetInv /\ [Next]_vars => BudgetInv'
  BY BudgetStep
<1> QED
  BY <1>1, <1>2, BudgetStart, Invariance, PTL DEF Spec

------------------------------------------------------------------------------
(* The wait for a free channel. *)

(* The ticks that a phase may take, and those that a pass of loop() may    *)
(* have taken before it comes to a phase.                                  *)
Ticks(phase) == IF phase \in TickPoints THEN 1 ELSE 0

Spent ==
  CASE pc = "app"       -> 0
    [] pc = "inbound"   -> Ticks("app")
    [] pc = "handle"    -> Ticks("app") + Ticks("inbound") +
                           (IF resume = "send" THEN Ticks("handle") + Ticks("recv")
                                                    + Ticks("checkRecv")
                            ELSE 0)
    [] pc = "recv"      -> Ticks("app") + Ticks("inbound") + Ticks("handle")
    [] pc = "checkRecv" -> Ticks("app") + Ticks("inbound") + Ticks("handle")
                           + Ticks("recv")
    [] OTHER            -> Ticks("app") + Ticks("inbound") + 2 * Ticks("handle")
                           + Ticks("recv") + Ticks("checkRecv")

(* The ticks since the last checkSend(). *)
Passed == Spent + Late

HasDue(q) == \E i \in DOMAIN q : q[i].at <= now

(* Inductive, given IInv and BudgetInv: while the channel is busy a packet *)
(* stays due, so every checkSend() looks again once the retry delay is     *)
(* over, and the clock is past that time by the ticks of one pass only.    *)
WaitInv ==
  /\ ticked => pc \in TickPoints
  /\ busyStart # 0 =>
       /\ outbound = None
       /\ busyStart <= now
       /\ HasDue(sendQueue)
       /\ now <= nextTx + Passed
       /\ \E d \in CadRetryDelays : nextTx <= busyStart + CadMaxDuration + d

LEMMA WaitStart == Init => WaitInv
BY DEF Init, WaitInv

LEMMA SpentTyped == Spent \in Nat /\ Late \in {0, 1} /\ Passed \in Nat /\ Passed' \in Nat
BY DEF Passed, Spent, Late, Ticks

(* A set without an element has one element less. *)
LEMMA CountedApart ==
  ASSUME NEW S, IsFiniteSet(S), NEW x
  PROVE  /\ IsFiniteSet(S \ {x})
         /\ Cardinality(S) = Cardinality(S \ {x}) + (IF x \in S THEN 1 ELSE 0)
         /\ Cardinality(S \ {x}) \in Nat
<1>1. /\ IsFiniteSet(S \ {x})
      /\ Cardinality(S \ {x}) = IF x \in S THEN Cardinality(S) - 1 ELSE Cardinality(S)
  BY FS_RemoveElement
<1>2. Cardinality(S) \in Nat /\ Cardinality(S \ {x}) \in Nat
  BY <1>1, FS_CardinalityType
<1> QED
  BY <1>1, <1>2

LEMMA PassTimeIs ==
  PassTime = Ticks("app") + Ticks("inbound") + 2 * Ticks("handle") + Ticks("recv")
             + Ticks("checkRecv") + Ticks("send")
<1> DEFINE S1 == TickPoints \ {"arm"}
           S2 == S1 \ {"app"}
           S3 == S2 \ {"inbound"}
           S4 == S3 \ {"handle"}
           S5 == S4 \ {"recv"}
           S6 == S5 \ {"checkRecv"}
           S7 == S6 \ {"send"}
<1>1. S7 = {}
  BY TickPointsAssumption DEF Phases
<1>2. Cardinality(S7) = 0
  BY <1>1, FS_EmptySet
<1>3. IsFiniteSet(S1)
  <2>1. IsFiniteSet(Phases)
    <3>1. Phases = {"app"} \cup {"inbound"} \cup {"recv"} \cup {"checkRecv"}
                   \cup {"handle"} \cup {"send"} \cup {"arm"}
      BY DEF Phases
    <3> QED
      BY <3>1, FS_Singleton, FS_Union
  <2> QED
    BY <2>1, TickPointsAssumption, FS_Subset
<1>4. /\ "app" \in S1 <=> "app" \in TickPoints
      /\ "inbound" \in S2 <=> "inbound" \in TickPoints
      /\ "handle" \in S3 <=> "handle" \in TickPoints
      /\ "recv" \in S4 <=> "recv" \in TickPoints
      /\ "checkRecv" \in S5 <=> "checkRecv" \in TickPoints
      /\ "send" \in S6 <=> "send" \in TickPoints
  OBVIOUS
<1> HIDE DEF S1, S2, S3, S4, S5, S6, S7
<1>5. IsFiniteSet(S2) /\ Cardinality(S1) = Cardinality(S2) + Ticks("app")
  BY <1>3, <1>4, CountedApart DEF S2, Ticks
<1>6. IsFiniteSet(S3) /\ Cardinality(S2) = Cardinality(S3) + Ticks("inbound")
  BY <1>4, <1>5, CountedApart DEF S3, Ticks
<1>7. IsFiniteSet(S4) /\ Cardinality(S3) = Cardinality(S4) + Ticks("handle")
  BY <1>4, <1>6, CountedApart DEF S4, Ticks
<1>8. IsFiniteSet(S5) /\ Cardinality(S4) = Cardinality(S5) + Ticks("recv")
  BY <1>4, <1>7, CountedApart DEF S5, Ticks
<1>9. IsFiniteSet(S6) /\ Cardinality(S5) = Cardinality(S6) + Ticks("checkRecv")
  BY <1>4, <1>8, CountedApart DEF S6, Ticks
<1>10. Cardinality(S6) = Cardinality(S7) + Ticks("send")
  BY <1>4, <1>9, CountedApart DEF S7, Ticks
<1>11. PassTime = Cardinality(S1) + Ticks("handle")
  BY DEF PassTime, Ticks, S1
<1>12. \A ph \in Phases : Ticks(ph) \in Nat
  BY DEF Ticks
<1> QED
  BY <1>2, <1>5, <1>6, <1>7, <1>8, <1>9, <1>10, <1>11, <1>12 DEF Phases

(* The entries of a queue are due when one of them is. *)
LEMMA DueCounted ==
  ASSUME IInv
  PROVE  CountBefore(sendQueue, now) # 0 <=> HasDue(sendQueue)
<1>1. DOMAIN sendQueue = 1 .. Len(sendQueue) /\ Len(sendQueue) \in Nat
  BY DEF IInv, TypeOK
<1>2. IsFiniteSet(Due(sendQueue, now))
  <2>1. IsFiniteSet(1 .. Len(sendQueue))
    BY <1>1, FS_Interval
  <2>2. Due(sendQueue, now) \in SUBSET (1 .. Len(sendQueue))
    BY <1>1 DEF Due
  <2> QED
    BY <2>1, <2>2, FS_Subset
<1>3. CountBefore(sendQueue, now) = 0 <=> Due(sendQueue, now) = {}
  BY <1>2, FS_EmptySet DEF CountBefore
<1> QED
  BY <1>3 DEF Due, HasDue

LEMMA DueStays ==
  ASSUME IInv, HasDue(sendQueue), now' = now,
         sendQueue' = sendQueue \/ \E e : sendQueue' = Add(sendQueue, e)
  PROVE  HasDue(sendQueue)'
<1>1. PICK i \in DOMAIN sendQueue : sendQueue[i].at <= now
  BY DEF HasDue
<1>2. i \in DOMAIN sendQueue' /\ sendQueue'[i] = sendQueue[i]
  BY DEF Add, IInv, TypeOK
<1> QED
  BY <1>1, <1>2 DEF HasDue

(* A step inside a phase, and a step from a phase to the next one: the     *)
(* ticks of the phase are spent.                                           *)
LEMMA WaitGoesOn ==
  ASSUME IInv, WaitInv, UNCHANGED <<now, busyStart, nextTx>>,
         busyStart # 0 => outbound' = None,
         sendQueue' = sendQueue \/ \E e : sendQueue' = Add(sendQueue, e),
         \/ UNCHANGED <<pc, resume, ticked>>
         \/ ~ticked' /\ Passed' >= Spent + Ticks(pc)
  PROVE  WaitInv'
<1>1. ticked' => pc' \in TickPoints
  BY DEF WaitInv
<1>2. Passed <= Passed'
  <2>1. CASE UNCHANGED <<pc, resume, ticked>>
    <3>1. Passed' = Passed
      BY <2>1 DEF Passed, Spent, Late
    <3> QED
      BY <3>1, SpentTyped
  <2>2. CASE ~ticked' /\ Passed' >= Spent + Ticks(pc)
    <3>1. Late <= Ticks(pc) /\ Late \in Nat /\ Ticks(pc) \in Nat
      BY DEF WaitInv, Late, Ticks
    <3>2. PICK s \in Nat, t \in Nat : s = Spent /\ t = Ticks(pc)
      BY <3>1, SpentTyped
    <3>3. Passed <= s + t
      BY <3>1, <3>2 DEF Passed
    <3> QED
      BY <2>2, <3>2, <3>3, SpentTyped
  <2> QED
    BY <2>1, <2>2
<1>5. now \in Nat /\ nextTx \in Nat
  BY HalfAssumption DEF IInv, TypeOK, Time, Word
<1>6. SUFFICES ASSUME busyStart # 0
               PROVE  WaitInv'
  BY <1>1 DEF WaitInv
<1>7. HasDue(sendQueue)'
  BY <1>6, DueStays DEF WaitInv
<1>8. (now <= nextTx + Passed)'
  <2>1. PICK p \in Nat, q \in Nat : p = Passed /\ q = Passed'
    BY SpentTyped
  <2>2. now <= nextTx + p /\ p <= q
    BY <1>2, <1>6, <2>1 DEF WaitInv
  <2>3. now <= nextTx + q
    BY <1>5, <2>2
  <2> QED
    BY <2>1, <2>3
<1> QED
  BY <1>1, <1>6, <1>7, <1>8 DEF WaitInv

LEMMA WaitTick ==
  ASSUME IInv, WaitInv, NEW U \in Nat, WithoutWrap(U), now <= U, Tick
  PROVE  WaitInv'
<1>1. /\ UNCHANGED <<pc, resume, busyStart, nextTx, outbound, sendQueue>>
      /\ now' = Plus(now, 1) /\ ~ticked /\ ticked' /\ pc \in TickPoints
  BY DEF Tick, poolVars, timerVars
<1>2. now \in Nat /\ now < Half /\ nextTx \in Nat /\ busyStart \in Nat
  BY ShortUptime
<1>3. now' = now + 1
  BY <1>1, <1>2, HalfAssumption DEF Plus, Word
<1>4. Passed' = Passed + 1 /\ Passed \in Nat
  BY <1>1, SpentTyped DEF Passed, Spent, Late, Ticks
<1>5. HasDue(sendQueue) => HasDue(sendQueue)'
  <2>1. \A i \in DOMAIN sendQueue : sendQueue[i].at \in Int
    <3>1. \A i \in DOMAIN sendQueue : sendQueue[i] \in QueueEntries
      BY DEF IInv, TypeOK
    <3> QED
      BY <3>1, HalfAssumption DEF QueueEntries, Time, Word
  <2> QED
    BY <1>1, <1>2, <1>3, <2>1 DEF HasDue
<1> QED
  BY <1>1, <1>2, <1>3, <1>4, <1>5 DEF WaitInv

LEMMA WaitCheckSend ==
  ASSUME IInv, BudgetInv, WaitInv, NEW U \in Nat, WithoutWrap(U), now <= U, CheckSend
  PROVE  WaitInv'
<1>1. /\ now \in Nat /\ now < Half /\ nextTx \in Nat /\ busyStart \in Nat
      /\ now \in Time /\ nextTx \in Time /\ nextTx < Half
  BY ShortUptime DEF BudgetInv
<1>2. now' = now /\ outbound = None
  BY DEF CheckSend, IInv, PhaseInv
<1>3. CASE NothingToSend
  <2>1. /\ UNCHANGED <<busyStart, nextTx, outbound, sendQueue>>
        /\ pc' = "app" /\ ~ticked' /\ ~MaySend
    BY <1>3 DEF NothingToSend, Goto, poolVars
  <2>2. busyStart # 0 => now <= nextTx
    BY <1>1, <2>1, DueCounted, PassedInOrder DEF WaitInv, MaySend, millisHasNowPassed
  <2>3. Passed' = 0
    BY <2>1 DEF Passed, Spent, Late
  <2> QED
    BY <1>1, <1>2, <2>1, <2>2, <2>3, DueStays DEF WaitInv
<1>4. CASE ChannelBusy
  <2>1. /\ UNCHANGED <<outbound, sendQueue>> /\ pc' = "app" /\ ~ticked'
        /\ MaySend /\ ~BusyTooLong /\ busyStart' = BusySince
    BY <1>4 DEF ChannelBusy, Goto, poolVars
  <2>2. PICK d \in CadRetryDelays : nextTx' = Plus(now, d)
    BY <1>4 DEF ChannelBusy, futureMillis
  <2>3. nextTx' = now + d /\ d \in Nat
    <3>1. U + d < Half /\ d \in Nat
      BY DispatcherAssumption DEF WithoutWrap
    <3>2. now + d < Half
      BY <1>1, <3>1, HalfAssumption
    <3> QED
      BY <1>1, <2>2, <3>1, <3>2, SumInOrder
  <2>4. BusySince <= now /\ BusySince \in Nat
    BY <1>1 DEF WaitInv, BusySince
  <2>5. now <= BusySince + CadMaxDuration
    BY <1>1, <2>1, <2>4, DispatcherAssumption DEF BusyTooLong, Minus
  <2>6. HasDue(sendQueue)
    BY <2>1, DueCounted DEF MaySend
  <2>7. Passed' = 0
    BY <2>1 DEF Passed, Spent, Late
  <2>8. nextTx' <= busyStart' + CadMaxDuration + d
    BY <1>1, <2>1, <2>3, <2>4, <2>5, DispatcherAssumption
  <2>9. now' <= nextTx' + Passed'
    BY <1>1, <1>2, <2>3, <2>7
  <2> QED
    BY <1>2, <2>1, <2>4, <2>6, <2>8, <2>9, DueStays DEF WaitInv
<1>5. CASE StartSend
  <2>1. busyStart' = 0 /\ ~ticked'
    BY <1>5 DEF StartSend, Goto
  <2> QED
    BY <2>1 DEF WaitInv
<1> QED
  BY <1>3, <1>4, <1>5 DEF CheckSend

LEMMA WaitLoopTop ==
  ASSUME IInv, WaitInv, LoopTop
  PROVE  WaitInv'
<1>1. CASE busyStart = 0
  BY <1>1 DEF WaitInv, LoopTop, SendCompleted, SendTimedOut, SendPending,
              NothingOutbound, Goto
<1>2. CASE busyStart # 0
  <2>1. NothingOutbound
    BY <1>2 DEF WaitInv, LoopTop, SendCompleted, SendTimedOut, SendPending
  <2>2. /\ UNCHANGED <<now, busyStart, nextTx, outbound, sendQueue>>
        /\ pc = "app" /\ pc' = "inbound" /\ ~ticked'
    BY <2>1 DEF LoopTop, NothingOutbound, Goto
  <2>3. Passed' >= Spent + Ticks(pc)
    BY <2>2 DEF Passed, Late, Spent, Ticks
  <2> QED
    BY <1>2, <2>2, <2>3, WaitGoesOn DEF WaitInv
<1> QED
  BY <1>1, <1>2

LEMMA WaitReceive ==
  ASSUME IInv, WaitInv, CheckInbound \/ RecvRaw \/ CheckRecv \/ ProcessRecvPacket
  PROVE  WaitInv'
<1>1. /\ UNCHANGED <<now, busyStart, nextTx, outbound>> /\ ~ticked' /\ outbound = None
  BY DEF CheckInbound, RecvRaw, CheckRecv, ProcessRecvPacket, AcceptFrame, DropMalformed,
         Goto, poolVars, timerVars, IInv, PhaseInv
<1>2. Passed' >= Spent + Ticks(pc)
  <2>1. CASE CheckInbound
    <3>1. pc = "inbound" /\ (pc' = "recv" \/ (pc' = "handle" /\ resume' = "recv"))
      BY <2>1 DEF CheckInbound, Goto
    <3> QED
      BY <1>1, <3>1 DEF Passed, Late, Spent, Ticks
  <2>2. CASE RecvRaw
    <3>1. pc = "recv" /\ pc' = "checkRecv"
      BY <2>2 DEF RecvRaw, Goto
    <3> QED
      BY <1>1, <3>1 DEF Passed, Late, Spent, Ticks
  <2>3. CASE CheckRecv
    <3>1. pc = "checkRecv" /\ (pc' = "send" \/ (pc' = "handle" /\ resume' = "send"))
      BY <2>3 DEF CheckRecv, AcceptFrame, DropMalformed, Goto
    <3> QED
      BY <1>1, <3>1 DEF Passed, Late, Spent, Ticks
  <2>4. CASE ProcessRecvPacket
    <3>1. pc = "handle" /\ pc' = resume /\ resume \in {"recv", "send"}
      BY <2>4 DEF ProcessRecvPacket, Goto, IInv, TypeOK
    <3> QED
      BY <1>1, <3>1 DEF Passed, Late, Spent, Ticks
  <2> QED
    BY <2>1, <2>2, <2>3, <2>4
<1>3. sendQueue' = sendQueue \/ \E e : sendQueue' = Add(sendQueue, e)
  BY DEF CheckInbound, RecvRaw, CheckRecv, ProcessRecvPacket, ActionRelease,
         ActionManualHold, ActionRetransmit, queueOutbound, poolVars
<1> QED
  BY <1>1, <1>2, <1>3, WaitGoesOn

LEMMA WaitStep ==
  ASSUME IInv, BudgetInv, WaitInv, NEW U \in Nat, WithoutWrap(U), now <= U, [Next]_vars
  PROVE  WaitInv'
<1>1. CASE ArmExpiry
  <2>1. busyStart' = busyStart /\ outbound # None /\ ~ticked'
    BY <1>1 DEF ArmExpiry, IInv, PhaseInv, Goto
  <2> QED
    BY <2>1 DEF WaitInv
<1>2. CASE SubclassStep
  <2>1. /\ UNCHANGED <<now, busyStart, nextTx, outbound, pc, resume, ticked>>
        /\ sendQueue' = sendQueue \/ \E e : sendQueue' = Add(sendQueue, e)
    BY <1>2 DEF SubclassStep, ObtainNewPacket, SendPacket, ReleasePacket, timerVars,
                queueOutbound
  <2> QED
    BY <2>1, WaitGoesOn DEF WaitInv
<1>3. CASE Interrupt \/ UNCHANGED vars
  <2>1. UNCHANGED <<now, busyStart, nextTx, outbound, pc, resume, ticked, sendQueue>>
    BY <1>3 DEF Interrupt, vars, poolVars, timerVars
  <2> QED
    BY <2>1, WaitGoesOn DEF WaitInv
<1> QED
  BY <1>1, <1>2, <1>3, WaitTick, WaitCheckSend, WaitLoopTop, WaitReceive
     DEF Next, LoopStep

(* While the clock has not wrapped: a channel that is busy for ever holds  *)
(* a due packet back for the maximum CAD duration, one retry delay and one *)
(* pass of loop(), however the frames that come in prolong that pass.      *)
THEOREM BusyChannelGivesIn ==
  ASSUME NEW U \in Nat, WithoutWrap(U)
  PROVE  Spec /\ [](now <= U) => []CadWaitBounded
<1>1. IInv /\ WaitInv => CadWaitBounded
  <2> SUFFICES ASSUME IInv, WaitInv, busyStart # 0
               PROVE  \E d \in CadRetryDelays :
                        Minus(now, busyStart) <= CadMaxDuration + d + PassTime
    BY DEF CadWaitBounded
  <2>1. PICK d \in CadRetryDelays : nextTx <= busyStart + CadMaxDuration + d
    BY DEF WaitInv
  <2>2. now \in Nat /\ nextTx \in Nat /\ busyStart \in Nat /\ d \in Nat
        /\ CadMaxDuration \in Nat
    BY HalfAssumption, DispatcherAssumption DEF IInv, TypeOK, Time, Word
  <2>3. Passed <= PassTime /\ PassTime \in Nat /\ Passed \in Nat
    <3>1. Late <= Ticks(pc) /\ Late \in Nat
      BY DEF WaitInv, Late, Ticks
    <3>2. pc \in Phases \ {"arm"}
      BY DEF IInv, TypeOK, PhaseInv, WaitInv
    <3> QED
      BY <3>1, <3>2, PassTimeIs DEF Passed, Spent, Ticks, Phases
  <2>4. Minus(now, busyStart) = now - busyStart
    BY <2>2 DEF WaitInv, Minus
  <2>5. now <= nextTx + Passed
    BY DEF WaitInv
  <2> QED
    BY <2>1, <2>2, <2>3, <2>4, <2>5
<1>2. IInv /\ now <= U /\ BudgetInv /\ [Next]_vars => BudgetInv'
  BY BudgetStep
<1>3. IInv /\ now <= U /\ BudgetInv /\ WaitInv /\ [Next]_vars => WaitInv'
  BY WaitStep
<1> QED
  BY <1>1, <1>2, <1>3, BudgetStart, WaitStart, Invariance, PTL DEF Spec

=============================================================================
