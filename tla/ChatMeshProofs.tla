--------------------------- MODULE ChatMeshProofs ---------------------------
(***************************************************************************)
(* Proofs about ChatMesh for every network: any nodes, links and hashes,   *)
(* any messages, tables of any size, any number of losses and outages.     *)
(* The types first; then what is under way and what the tables of seen     *)
(* packets know of it; and then paths: what a flood collects on its way is *)
(* a route back, what a client keeps of it leads to the contact, no hop of *)
(* a direct packet leaves the route, and no flood goes round in a circle;  *)
(* at last deliveries: each only once, and before it is acknowledged.      *)
(***************************************************************************)
EXTENDS ChatMesh, SequenceTheorems, WellFoundedInduction,
        FiniteSetTheorems, TLAPS

(* The tables of one node, as TypeOK has them. *)
NodeTables ==
  {t \in [hashes : Seq(Bodies), acks : Seq(Codes)] :
     Len(t.hashes) <= HashSlots /\ Len(t.acks) <= AckSlots}

------------------------------------------------------------------------------
(* What a body of a given type is made of. *)
LEMMA TextIsText ==
  ASSUME NEW b \in Bodies, b.type = "TXT"
  PROVE  /\ b \in Texts
         /\ b.from \in Clients /\ b.to \in Clients
         /\ AckCodeOf(b) \in Codes
<1>1. b \in Texts
  BY DEF Bodies, GroupText, Ack, MultiAck
<1>2. PICK m \in Messages, k \in 0 .. MaxAttempts : b = TextOf(m, k)
  BY <1>1 DEF Texts
<1> QED
  BY <1>1, <1>2, NetworkAssumption DEF TextOf, Text, Codes

LEMMA AckHasCode ==
  ASSUME NEW b \in Bodies, b.type \in {"ACK", "MULTI"}
  PROVE  /\ b.code \in Codes
         /\ b.type = "ACK" => b = Ack(b.code)
<1>1. \A t \in Texts : t.type = "TXT"
  BY DEF Texts, TextOf, Text
<1> QED
  BY <1>1 DEF Bodies, GroupText, Ack, MultiAck

LEMMA PathHasParts ==
  ASSUME NEW b \in Bodies, b.type = "PATH"
  PROVE  /\ b.from \in Clients /\ b.to \in Clients
         /\ b.path \in Paths
         /\ b.extra \in Codes \cup {NoAck}
<1>1. \A t \in Texts : t.type = "TXT"
  BY DEF Texts, TextOf, Text
<1> QED
  BY <1>1 DEF Bodies, GroupText, Ack, MultiAck

LEMMA BodiesMade ==
  /\ \A c \in Codes : Ack(c) \in Bodies
  /\ \A c \in Codes, k \in 0 .. ExtraAcks : MultiAck(c, k) \in Bodies
  /\ \A from, to \in Clients, p \in Paths, x \in Codes \cup {NoAck}, i \in Nat :
       PathReturn(from, to, p, x, i) \in Bodies
  /\ \A g \in GroupMessages : GroupText(g.from, g.text) \in Bodies
  /\ \A m \in Messages, k \in 0 .. MaxAttempts : TextOf(m, k) \in Texts
  /\ Texts \subseteq Bodies
BY DEF Bodies, PathReturn, Texts

LEMMA EmptyPath == <<>> \in Paths
BY DEF Paths

LEMMA FramesMade ==
  ASSUME NEW b \in Bodies, NEW p \in Paths
  PROVE  Flood(b, p) \in Frames /\ Direct(b, p) \in Frames
BY DEF Frames, Flood, Direct

------------------------------------------------------------------------------
(* The tables of seen packets. *)
LEMMA CyclicTyped ==
  ASSUME NEW S, NEW table \in Seq(S), NEW slots \in Nat \ {0},
         Len(table) <= slots, NEW x \in S
  PROVE  /\ Cyclic(table, slots, x) \in Seq(S)
         /\ Len(Cyclic(table, slots, x)) <= slots
<1>1. CASE Len(table) < slots
  BY <1>1 DEF Cyclic
<1>2. CASE ~(Len(table) < slots)
  BY <1>2 DEF Cyclic
<1> QED
  BY <1>1, <1>2

LEMMA SeenTyped ==
  ASSUME NEW t \in NodeTables, NEW b \in Bodies
  PROVE  Seen(t, b) \in NodeTables
<1> USE PacketAssumption
<1>1. CASE hasSeen(t, b)
  BY <1>1 DEF Seen
<1>2. CASE ~hasSeen(t, b) /\ b.type = "ACK"
  <2>1. Seen(t, b) = [hashes |-> t.hashes, acks |-> Cyclic(t.acks, AckSlots, b.code)]
    BY <1>2 DEF Seen, NodeTables
  <2> QED
    BY <1>2, <2>1, AckHasCode, CyclicTyped DEF NodeTables
<1>3. CASE ~hasSeen(t, b) /\ b.type # "ACK"
  <2>1. Seen(t, b) = [hashes |-> Cyclic(t.hashes, HashSlots, b), acks |-> t.acks]
    BY <1>3 DEF Seen, NodeTables
  <2> QED
    BY <1>3, <2>1, CyclicTyped DEF NodeTables
<1> QED
  BY <1>1, <1>2, <1>3

LEMMA TablesTyped ==
  TypeOK => tables \in [Nodes -> NodeTables]
BY DEF TypeOK, NodeTables

LEMMA NewTablesTyped ==
  ASSUME TypeOK, NEW n \in Nodes, NEW t \in NodeTables, NewTables(n, t)
  PROVE  tables' \in [Nodes -> NodeTables]
BY TablesTyped DEF NewTables

LEMMA EnqueueTyped ==
  ASSUME TypeOK, NEW n \in Nodes, NEW F, F \subseteq Frames, Enqueue(n, F)
  PROVE  outq' \in [Nodes -> SUBSET Frames]
BY DEF Enqueue, TypeOK

(* TypeOK, as it is put together again after a step. *)
LEMMA TypedFromParts ==
  /\ tables \in [Nodes -> NodeTables]
  /\ outq \in [Nodes -> SUBSET Frames] /\ air \subseteq Nodes \X Frames
  /\ outPath \in [Clients -> [Clients -> Paths \cup {NoPath}]]
  /\ saved \in [Clients -> [Clients -> Paths \cup {NoPath}]]
  /\ expected \in [Clients -> [Slots -> Texts \cup {NoEntry}]]
  /\ nextAck \in [Clients -> Slots]
  /\ inbox \in [Clients -> Seq(Bodies)]
  /\ confirmed \in [Clients -> SUBSET Texts]
  /\ attempts \in [Messages -> 0 .. MaxAttempts] /\ posted \subseteq GroupMessages
  /\ blobs \in Nat /\ alive \subseteq Nodes
  /\ resets \in 0 .. MaxResets /\ outages \in 0 .. MaxOutages
  => TypeOK
BY DEF TypeOK, NodeTables

------------------------------------------------------------------------------
(* Type correctness. *)
LEMMA InitTyped == Init => TypeOK
<1> SUFFICES ASSUME Init PROVE TypeOK
  OBVIOUS
<1> USE NetworkAssumption, PacketAssumption
<1>1. EmptyTables \in NodeTables
  BY DEF EmptyTables, NodeTables
<1>2. 1 \in Slots
  BY DEF Slots
<1> QED
  BY <1>1, <1>2, TypedFromParts DEF Init, NoPaths, NoExpectations

(* What a node works on is a frame of the air. *)
LEMMA WorksTyped ==
  ASSUME TypeOK, NEW n \in Nodes, NEW f, Works(n, f)
  PROVE  /\ f \in Frames /\ f.body \in Bodies /\ f.path \in Paths
         /\ <<n, f>> \in air /\ air' \subseteq air
         /\ air' \subseteq Nodes \X Frames
         /\ tables[n] \in NodeTables
         /\ isRouteFlood(f) <=> ~isRouteDirect(f)
BY TablesTyped DEF Works, TypeOK, Frames, isRouteFlood, isRouteDirect

LEMMA DirectKeyTyped ==
  ASSUME NEW b \in Bodies
  PROVE  DirectKey(b) \in Bodies
BY AckHasCode, BodiesMade, NetworkAssumption DEF DirectKey, MultiPart

LEMMA RouteTyped ==
  ASSUME NEW f \in Frames, NEW n \in Nodes
  PROVE  routeRecvPacket(n, f) \subseteq Frames
<1>1. HashOf[n] \in Hashes
  BY DEF Hashes
<1>2. Append(f.path, HashOf[n]) \in Paths
  BY <1>1 DEF Paths, Frames
<1>3. [f EXCEPT !.path = Append(@, HashOf[n])] \in Frames
  BY <1>2 DEF Frames
<1> QED
  BY <1>3 DEF routeRecvPacket

LEMMA TailTyped ==
  ASSUME NEW f \in Frames, OnTheWay(f)
  PROVE  removeSelfFromPath(f.path) \in Paths
BY DEF OnTheWay, Frames, Paths, removeSelfFromPath

LEMMA AcksTyped ==
  ASSUME NEW c \in Codes, NEW p \in Paths
  PROVE  routeDirectRecvAcks(c, p) \subseteq Frames
BY BodiesMade, FramesMade, NetworkAssumption DEF routeDirectRecvAcks

LEMMA ForwardedTyped ==
  ASSUME NEW f \in Frames, OnTheWay(f)
  PROVE  Forwarded(f) \subseteq Frames
<1>1. CASE f.body.type \in {"ACK", "MULTI"}
  BY <1>1, TailTyped, AckHasCode, AcksTyped DEF Forwarded, Frames
<1>2. CASE f.body.type \notin {"ACK", "MULTI"}
  <2>1. [f EXCEPT !.path = removeSelfFromPath(@)] \in Frames
    BY TailTyped DEF Frames
  <2> QED
    BY <1>2, <2>1 DEF Forwarded
<1> QED
  BY <1>1, <1>2

LEMMA ForwardDirectTyped ==
  ASSUME TypeOK, NEW n \in Nodes, NEW f, ForwardDirect(n, f)
  PROVE  TypeOK'
<1>1. f \in Frames /\ OnTheWay(f) /\ air' \subseteq Nodes \X Frames
  BY WorksTyped DEF ForwardDirect
<1>2. Seen(tables[n], DirectKey(f.body)) \in NodeTables
  BY WorksTyped, DirectKeyTyped, SeenTyped DEF ForwardDirect
<1>3. tables' \in [Nodes -> NodeTables]
  BY <1>2, NewTablesTyped, TablesTyped DEF ForwardDirect
<1>4. outq' \in [Nodes -> SUBSET Frames]
  BY <1>1, ForwardedTyped, EnqueueTyped DEF ForwardDirect, TypeOK
<1> QED
  BY <1>1, <1>3, <1>4
     DEF ForwardDirect, TypeOK, NodeTables, chatVars, appVars, powerVars

LEMMA InboxTyped ==
  ASSUME TypeOK, NEW n \in Clients, NEW b \in Bodies
  PROVE  [inbox EXCEPT ![n] = Append(@, b)] \in [Clients -> Seq(Bodies)]
<1>1. inbox \in [Clients -> Seq(Bodies)]
  BY DEF TypeOK
<1>2. inbox[n] \in Seq(Bodies)
  BY <1>1
<1>3. Append(inbox[n], b) \in Seq(Bodies)
  BY <1>2, AppendProperties
<1> QED
  BY <1>1, <1>3

LEMMA IgnoreSeenTyped ==
  ASSUME TypeOK, NEW n \in Nodes, NEW f, IgnoreSeen(n, f)
  PROVE  TypeOK'
<1>1. air' \subseteq Nodes \X Frames
  BY WorksTyped DEF IgnoreSeen
<1> QED
  BY <1>1 DEF IgnoreSeen, TypeOK, chatVars, appVars, powerVars

LEMMA PassOnTyped ==
  ASSUME TypeOK, NEW n \in Nodes, NEW f, PassOn(n, f)
  PROVE  TypeOK'
<1>1. Works(n, f)
  BY DEF PassOn, Arrives
<1>2. f \in Frames /\ f.body \in Bodies /\ air' \subseteq Nodes \X Frames
  BY <1>1, WorksTyped
<1>3. tables' \in [Nodes -> NodeTables]
  BY <1>1, WorksTyped, SeenTyped, NewTablesTyped DEF PassOn
<1>4. outq' \in [Nodes -> SUBSET Frames]
  BY <1>2, RouteTyped, EnqueueTyped DEF PassOn
<1> QED
  BY <1>2, <1>3, <1>4
     DEF PassOn, TypeOK, NodeTables, chatVars, appVars, powerVars

LEMMA GroupTextTyped ==
  ASSUME TypeOK, NEW n \in Nodes, NEW f, GroupTextArrives(n, f)
  PROVE  TypeOK'
<1>1. Works(n, f)
  BY DEF GroupTextArrives, Arrives
<1>2. f \in Frames /\ f.body \in Bodies /\ air' \subseteq Nodes \X Frames
  BY <1>1, WorksTyped
<1>3. tables' \in [Nodes -> NodeTables]
  BY <1>1, WorksTyped, SeenTyped, NewTablesTyped DEF GroupTextArrives
<1>4. outq' \in [Nodes -> SUBSET Frames]
  BY <1>2, RouteTyped, EnqueueTyped DEF GroupTextArrives
<1>5. inbox' \in [Clients -> Seq(Bodies)]
  <2>1. CASE n \in Clients
    <3>1. inbox' = [inbox EXCEPT ![n] = Append(@, f.body)]
      BY <2>1 DEF GroupTextArrives
    <3> QED
      BY <1>2, <2>1, <3>1, InboxTyped
  <2>2. CASE n \notin Clients
    BY <2>2 DEF GroupTextArrives, TypeOK
  <2> QED
    BY <2>1, <2>2
<1> QED
  BY <1>2, <1>3, <1>4, <1>5
     DEF GroupTextArrives, TypeOK, NodeTables, appVars, powerVars

LEMMA AcksToTyped ==
  ASSUME NEW c \in Codes, NEW p \in Paths \cup {NoPath}
  PROVE  AcksTo(p, c) \subseteq Frames
<1>1. Ack(c) \in Bodies
  BY BodiesMade
<1>2. \A k \in 1 .. ExtraAcks : MultiAck(c, 1) \in Bodies
  BY BodiesMade, NetworkAssumption
<1>3. CASE p = NoPath
  <2>1. Flood(Ack(c), <<>>) \in Frames
    BY <1>1, FramesMade, EmptyPath
  <2> QED
    BY <1>3, <2>1 DEF AcksTo
<1>4. CASE p # NoPath
  BY <1>1, <1>2, <1>4, FramesMade DEF AcksTo
<1> QED
  BY <1>3, <1>4

LEMMA SeenAcksToTyped ==
  ASSUME NEW t \in NodeTables, NEW c \in Codes, NEW p
  PROVE  SeenAcksTo(t, p, c) \in NodeTables
<1>1. Ack(c) \in Bodies
  BY BodiesMade
<1>2. CASE p = NoPath \/ ExtraAcks = 0
  BY <1>1, <1>2, SeenTyped DEF SeenAcksTo
<1>3. CASE ~(p = NoPath \/ ExtraAcks = 0)
  <2>1. MultiAck(c, 1) \in Bodies
    BY <1>3, BodiesMade, NetworkAssumption
  <2>2. Seen(t, MultiAck(c, 1)) \in NodeTables
    BY <2>1, SeenTyped
  <2> QED
    BY <1>1, <1>3, <2>2, SeenTyped DEF SeenAcksTo
<1> QED
  BY <1>2, <1>3

LEMMA TextForMeTyped ==
  ASSUME TypeOK, NEW n \in Nodes, NEW f, TextForMe(n, f)
  PROVE  TypeOK'
<1> DEFINE t    == Seen(tables[n], f.body)
           path == outPath[n][f.body.from]
           code == AckCodeOf(f.body)
<1>1. Works(n, f) /\ f.body.type = "TXT" /\ f.body.to = n
  BY DEF TextForMe, Arrives
<1>2. f \in Frames /\ f.body \in Bodies /\ f.path \in Paths
      /\ air' \subseteq Nodes \X Frames /\ t \in NodeTables
  BY <1>1, WorksTyped, SeenTyped
<1>3. f.body.from \in Clients /\ n \in Clients /\ code \in Codes
  BY <1>1, <1>2, TextIsText
<1>4. path \in Paths \cup {NoPath}
  BY <1>3 DEF TypeOK
<1>5. PathWithAck(f) \in Bodies
  <2>1. PathReturn(f.body.to, f.body.from, f.path, code, 0) \in Bodies
    BY <1>1, <1>2, <1>3, BodiesMade
  <2> QED
    BY <2>1 DEF PathWithAck
<1>6. tables' \in [Nodes -> NodeTables] /\ outq' \in [Nodes -> SUBSET Frames]
  <2>1. CASE isRouteFlood(f)
    <3>1. NewTables(n, Seen(t, PathWithAck(f)))
          /\ Enqueue(n, {Flood(PathWithAck(f), <<>>)})
      BY <2>1 DEF TextForMe
    <3>2. Seen(t, PathWithAck(f)) \in NodeTables
      BY <1>2, <1>5, SeenTyped
    <3>3. {Flood(PathWithAck(f), <<>>)} \subseteq Frames
      BY <1>5, FramesMade, EmptyPath
    <3> QED
      BY <3>1, <3>2, <3>3, NewTablesTyped, EnqueueTyped
  <2>2. CASE ~isRouteFlood(f)
    <3>1. NewTables(n, SeenAcksTo(t, path, code)) /\ Enqueue(n, AcksTo(path, code))
      BY <2>2 DEF TextForMe
    <3>2. SeenAcksTo(t, path, code) \in NodeTables
      BY <1>2, <1>3, SeenAcksToTyped
    <3> QED
      BY <1>3, <1>4, <3>1, <3>2, AcksToTyped, NewTablesTyped, EnqueueTyped
  <2> QED
    BY <2>1, <2>2
<1>7. inbox' \in [Clients -> Seq(Bodies)]
  BY <1>2, <1>3, InboxTyped DEF TextForMe
<1> QED
  BY <1>2, <1>6, <1>7
     DEF TextForMe, TypeOK, NodeTables, appVars, powerVars

(* A set of naturals has a least member. *)
LEMMA LeastMember ==
  ASSUME NEW S \in SUBSET Nat, S # {}
  PROVE  FirstOf(S) \in S /\ \A j \in S : FirstOf(S) <= j
<1> DEFINE R == OpToRel(<, Nat)
<1>1. \A x, y \in Nat : <<x, y>> \in R <=> x < y
  BY DEF OpToRel
<1>2. IsWellFoundedOn(R, Nat)
  BY NatLessThanWellFounded
<1> HIDE DEF R
<1>3. PICK i \in S : \A j \in S : <<j, i>> \notin R
  BY <1>2, WFMin
<1>4. \A j \in S : ~(j < i)
  BY <1>1, <1>3
<1>5. \A j \in S : i <= j
  BY <1>4
<1> QED
  BY <1>5 DEF FirstOf

(* The first entry with a code is one of them. *)
LEMMA FirstIsMatching ==
  ASSUME NEW n, NEW c, Matching(n, c) # {}
  PROVE  /\ FirstOf(Matching(n, c)) \in Slots
         /\ expected[n][FirstOf(Matching(n, c))] # NoEntry
         /\ AckCodeOf(expected[n][FirstOf(Matching(n, c))]) = c
<1>1. Matching(n, c) \in SUBSET Nat
  BY NetworkAssumption DEF Matching, Slots
<1>2. FirstOf(Matching(n, c)) \in Matching(n, c)
  BY <1>1, LeastMember
<1> QED
  BY <1>2 DEF Matching

LEMMA ProcessAckTyped ==
  ASSUME TypeOK, NEW n \in Clients, NEW c, ProcessAck(n, c)
  PROVE  /\ confirmed' \in [Clients -> SUBSET Texts]
         /\ expected' \in [Clients -> [Slots -> Texts \cup {NoEntry}]]
<1>1. CASE c # NoAck /\ Matching(n, c) # {}
  <2> DEFINE i == FirstOf(Matching(n, c))
  <2>1. i \in Slots /\ expected[n][i] # NoEntry
    BY <1>1, FirstIsMatching
  <2>2. confirmed' = [confirmed EXCEPT ![n] = @ \cup {expected[n][i]}]
        /\ expected' = [expected EXCEPT ![n][i] = NoEntry]
    BY <1>1 DEF ProcessAck
  <2>3. confirmed \in [Clients -> SUBSET Texts]
        /\ expected \in [Clients -> [Slots -> Texts \cup {NoEntry}]]
    BY DEF TypeOK
  <2> HIDE DEF i
  <2>4. expected[n][i] \in Texts
    BY <2>1, <2>3
  <2> QED
    BY <2>1, <2>2, <2>3, <2>4
<1>2. CASE ~(c # NoAck /\ Matching(n, c) # {})
  BY <1>2 DEF ProcessAck, TypeOK
<1> QED
  BY <1>1, <1>2

LEMMA PathForMeTyped ==
  ASSUME TypeOK, NEW n \in Nodes, NEW f, PathForMe(n, f)
  PROVE  TypeOK'
<1> DEFINE t    == Seen(tables[n], f.body)
           back == Reciprocal(f)
<1>1. Works(n, f) /\ f.body.type = "PATH" /\ f.body.to = n
  BY DEF PathForMe, Arrives
<1>2. f \in Frames /\ f.body \in Bodies /\ f.path \in Paths
      /\ air' \subseteq Nodes \X Frames /\ t \in NodeTables
  BY <1>1, WorksTyped, SeenTyped
<1>3. f.body.from \in Clients /\ n \in Clients /\ OutPathIn(f) \in Paths
  BY <1>1, <1>2, PathHasParts DEF OutPathIn
<1>4. back \in Bodies
  <2>1. blobs + 1 \in Nat
    BY DEF TypeOK
  <2> QED
    BY <1>1, <1>2, <1>3, <2>1, BodiesMade DEF Reciprocal
<1> HIDE DEF t, back
<1>5. /\ tables' \in [Nodes -> NodeTables]
      /\ outq' \in [Nodes -> SUBSET Frames]
      /\ blobs' \in Nat
  <2>1. CASE isRouteFlood(f)
    <3>1. /\ NewTables(n, Seen(t, back))
          /\ Enqueue(n, {Direct(back, OutPathIn(f))})
          /\ blobs' = blobs + 1
      BY <2>1 DEF PathForMe, t, back
    <3>2. {Direct(back, OutPathIn(f))} \subseteq Frames
      BY <1>3, <1>4, FramesMade
    <3>3. Seen(t, back) \in NodeTables
      BY <1>2, <1>4, SeenTyped
    <3>4. blobs' \in Nat
      BY <3>1 DEF TypeOK
    <3> QED
      BY <3>1, <3>2, <3>3, <3>4, NewTablesTyped, EnqueueTyped
  <2>2. CASE ~isRouteFlood(f)
    <3>1. NewTables(n, t) /\ UNCHANGED <<outq, blobs>>
      BY <2>2 DEF PathForMe, t
    <3> QED
      BY <1>2, <3>1, NewTablesTyped DEF TypeOK
  <2> QED
    BY <2>1, <2>2
<1>6. outPath' \in [Clients -> [Clients -> Paths \cup {NoPath}]]
  <2>1. outPath' = [outPath EXCEPT ![n][f.body.from] = OutPathIn(f)]
    BY DEF PathForMe
  <2>2. outPath \in [Clients -> [Clients -> Paths \cup {NoPath}]]
    BY DEF TypeOK
  <2> QED
    BY <1>3, <2>1, <2>2
<1>7. /\ confirmed' \in [Clients -> SUBSET Texts]
      /\ expected' \in [Clients -> [Slots -> Texts \cup {NoEntry}]]
  BY <1>3, ProcessAckTyped DEF PathForMe
<1> QED
  BY <1>2, <1>5, <1>6, <1>7
     DEF PathForMe, TypeOK, NodeTables, appVars, powerVars

(* An acknowledgement that was expected goes no further. *)
LEMMA MarkedGoesNowhere ==
  ASSUME NEW n, NEW f, NEW c
  PROVE  /\ routeRecvPacket(n, markDoNotRetransmit(f)) = {}
         /\ ReturnPathRetry(n, markDoNotRetransmit(f), c) = {}
<1>1. ~isRouteFlood(markDoNotRetransmit(f))
  BY DEF isRouteFlood, markDoNotRetransmit
<1> QED
  BY <1>1 DEF routeRecvPacket, ReturnPathRetry

LEMMA ExpectedAckSendsNothing ==
  ASSUME TypeOK, NEW n, NEW f, ExpectedAck(n, f)
  PROVE  n \in Clients /\ UNCHANGED <<outq, blobs>> /\ ProcessAck(n, f.body.code)
<1> DEFINE first == FirstOf(Matching(n, f.body.code))
           retry == ReturnPathRetry(n, markDoNotRetransmit(f), expected[n][first].to)
<1>1. retry = {} /\ routeRecvPacket(n, markDoNotRetransmit(f)) = {}
  BY MarkedGoesNowhere
<1>2. /\ Enqueue(n, retry \cup routeRecvPacket(n, markDoNotRetransmit(f)))
      /\ blobs' = blobs + Cardinality(retry)
  BY DEF ExpectedAck
<1> HIDE DEF retry, first
<1>3. Enqueue(n, {}) /\ blobs' = blobs + 0
  BY <1>1, <1>2, FS_EmptySet
<1>4. UNCHANGED blobs
  BY <1>3 DEF TypeOK
<1>5. UNCHANGED outq
  BY <1>3 DEF TypeOK, Enqueue
<1> QED
  BY <1>4, <1>5 DEF ExpectedAck

LEMMA AckArrivesTyped ==
  ASSUME TypeOK, NEW n \in Nodes, NEW f, AckArrives(n, f)
  PROVE  TypeOK'
<1>1. Works(n, f) /\ f.body.type \in {"ACK", "MULTI"}
  BY DEF AckArrives, Arrives
<1>2. f \in Frames /\ f.body \in Bodies /\ air' \subseteq Nodes \X Frames
  BY <1>1, WorksTyped
<1>3. tables' \in [Nodes -> NodeTables]
  BY <1>1, <1>2, WorksTyped, DirectKeyTyped, SeenTyped, NewTablesTyped
     DEF AckArrives
<1>4. /\ outq' \in [Nodes -> SUBSET Frames]
      /\ blobs' \in Nat
      /\ confirmed' \in [Clients -> SUBSET Texts]
      /\ expected' \in [Clients -> [Slots -> Texts \cup {NoEntry}]]
  <2>1. CASE ExpectedAck(n, f)
    BY <2>1, ExpectedAckSendsNothing, ProcessAckTyped DEF TypeOK
  <2>2. CASE UnexpectedAck(n, f)
    BY <1>2, <2>2, RouteTyped, EnqueueTyped DEF UnexpectedAck, TypeOK
  <2> QED
    BY <2>1, <2>2 DEF AckArrives
<1> QED
  BY <1>2, <1>3, <1>4 DEF AckArrives, TypeOK, NodeTables, appVars, powerVars

LEMMA ReceiveTyped ==
  ASSUME TypeOK, NEW n \in Nodes, Receive(n)
  PROVE  TypeOK'
BY ForwardDirectTyped, IgnoreSeenTyped, PassOnTyped, GroupTextTyped,
   TextForMeTyped, PathForMeTyped, AckArrivesTyped DEF Receive

LEMMA SlotsGoRound ==
  ASSUME NEW i \in Slots
  PROVE  NextSlot(i) \in Slots
BY NetworkAssumption DEF NextSlot, Slots

LEMMA SendMessageTyped ==
  ASSUME TypeOK, NEW m \in Messages, SendMessage(m)
  PROVE  TypeOK'
<1> DEFINE n    == m.from
           body == TextOf(m, attempts[m])
           path == outPath[n][m.to]
<1>1. n \in Clients /\ n \in Nodes /\ m.to \in Clients
  BY NetworkAssumption
<1>2. attempts[m] \in 0 .. MaxAttempts /\ attempts[m] + 1 \in 0 .. MaxAttempts
  BY NetworkAssumption DEF SendMessage, TypeOK
<1>3. body \in Texts /\ body \in Bodies
  BY <1>2, BodiesMade
<1>4. path \in Paths \cup {NoPath}
  BY <1>1 DEF TypeOK
<1>5. {IF path = NoPath THEN Flood(body, <<>>) ELSE Direct(body, path)} \subseteq Frames
  <2> HIDE DEF body, path
  <2> QED
    BY <1>3, <1>4, FramesMade, EmptyPath
<1>6. Seen(tables[n], body) \in NodeTables
  BY <1>1, <1>3, TablesTyped, SeenTyped
<1>7. /\ NewTables(n, Seen(tables[n], body))
      /\ Enqueue(n, {IF path = NoPath THEN Flood(body, <<>>) ELSE Direct(body, path)})
      /\ attempts' = [attempts EXCEPT ![m] = @ + 1]
      /\ expected' = [expected EXCEPT ![n][nextAck[n]] = body]
      /\ nextAck' = [nextAck EXCEPT ![n] = NextSlot(@)]
  BY DEF SendMessage
<1> HIDE DEF n, body, path
<1>8. tables' \in [Nodes -> NodeTables] /\ outq' \in [Nodes -> SUBSET Frames]
  BY <1>1, <1>5, <1>6, <1>7, NewTablesTyped, EnqueueTyped
<1>9. attempts' \in [Messages -> 0 .. MaxAttempts]
  BY <1>2, <1>7 DEF TypeOK
<1>10. /\ expected' \in [Clients -> [Slots -> Texts \cup {NoEntry}]]
       /\ nextAck' \in [Clients -> Slots]
  BY <1>1, <1>3, <1>7, SlotsGoRound DEF TypeOK
<1> QED
  BY <1>8, <1>9, <1>10 DEF SendMessage, TypeOK, NodeTables, powerVars

LEMMA SendGroupMessageTyped ==
  ASSUME TypeOK, NEW g \in GroupMessages, SendGroupMessage(g)
  PROVE  TypeOK'
<1> DEFINE body == GroupText(g.from, g.text)
<1>1. g.from \in Nodes /\ body \in Bodies
  BY NetworkAssumption, BodiesMade
<1>2. Seen(tables[g.from], body) \in NodeTables
  BY <1>1, TablesTyped, SeenTyped
<1>3. {Flood(body, <<>>)} \subseteq Frames
  BY <1>1, FramesMade, EmptyPath
<1>4. NewTables(g.from, Seen(tables[g.from], body)) /\ Enqueue(g.from, {Flood(body, <<>>)})
  BY DEF SendGroupMessage
<1>5. tables' \in [Nodes -> NodeTables] /\ outq' \in [Nodes -> SUBSET Frames]
  BY <1>1, <1>2, <1>3, <1>4, NewTablesTyped, EnqueueTyped
<1> QED
  BY <1>5 DEF SendGroupMessage, TypeOK, NodeTables, chatVars, powerVars

LEMMA ResetPathTyped ==
  ASSUME TypeOK, NEW n \in Clients, NEW c \in Clients, ResetPathTo(n, c)
  PROVE  TypeOK'
<1>1. resets' \in 0 .. MaxResets
  BY NetworkAssumption DEF ResetPathTo, TypeOK
<1>2. outPath' \in [Clients -> [Clients -> Paths \cup {NoPath}]]
  BY DEF ResetPathTo, TypeOK
<1> QED
  BY <1>1, <1>2 DEF ResetPathTo, TypeOK, powerVars

LEMMA TransmitTyped ==
  ASSUME TypeOK, NEW n \in Nodes, Transmit(n)
  PROVE  TypeOK'
<1>1. PICK f \in outq[n] :
        /\ outq' = [outq EXCEPT ![n] = @ \ {f}]
        /\ air' = air \cup {<<r, f>> : r \in Hearers(n)}
        /\ UNCHANGED <<tables, chatVars, appVars, powerVars>>
  BY DEF Transmit
<1>2. f \in Frames /\ Hearers(n) \subseteq Nodes
  BY DEF TypeOK, Hearers
<1>3. outq' \in [Nodes -> SUBSET Frames] /\ air' \subseteq Nodes \X Frames
  BY <1>1, <1>2 DEF TypeOK
<1> QED
  BY <1>1, <1>3 DEF TypeOK, chatVars, appVars, powerVars

LEMMA PowerTyped ==
  ASSUME TypeOK, Power
  PROVE  TypeOK'
<1>1. ASSUME NEW n \in Clients, SaveContacts(n) PROVE TypeOK'
  <2>1. saved' \in [Clients -> [Clients -> Paths \cup {NoPath}]]
    BY <1>1 DEF SaveContacts, TypeOK
  <2> QED
    BY <1>1, <2>1 DEF SaveContacts, TypeOK, appVars, powerVars
<1>2. ASSUME NEW n \in Nodes, PowerLoss(n) PROVE TypeOK'
  <2>1. outages' \in 0 .. MaxOutages
    BY <1>2, NetworkAssumption DEF PowerLoss, TypeOK
  <2>2. /\ air' \subseteq Nodes \X Frames /\ alive' \subseteq Nodes
        /\ outq' \in [Nodes -> SUBSET Frames]
    BY <1>2 DEF PowerLoss, TypeOK
  <2> QED
    BY <1>2, <2>1, <2>2 DEF PowerLoss, TypeOK, chatVars, appVars
<1>3. ASSUME NEW n \in Nodes, Boot(n) PROVE TypeOK'
  <2>1. EmptyTables \in NodeTables
    BY PacketAssumption DEF EmptyTables, NodeTables
  <2>2. tables' \in [Nodes -> NodeTables] /\ alive' \subseteq Nodes
    BY <1>3, <2>1, TablesTyped DEF Boot, TypeOK
  <2>3. NoExpectations \in [Slots -> Texts \cup {NoEntry}] /\ 1 \in Slots
    BY NetworkAssumption DEF NoExpectations, Slots
  <2>4. /\ outPath' \in [Clients -> [Clients -> Paths \cup {NoPath}]]
        /\ expected' \in [Clients -> [Slots -> Texts \cup {NoEntry}]]
        /\ nextAck' \in [Clients -> Slots]
    <3>1. CASE n \in Clients
      <4>1. /\ outPath' = [outPath EXCEPT ![n] = saved[n]]
            /\ expected' = [expected EXCEPT ![n] = NoExpectations]
            /\ nextAck' = [nextAck EXCEPT ![n] = 1]
        BY <1>3, <3>1 DEF Boot
      <4>2. saved[n] \in [Clients -> Paths \cup {NoPath}]
        BY <3>1 DEF TypeOK
      <4> QED
        BY <2>3, <4>1, <4>2 DEF TypeOK
    <3>2. CASE n \notin Clients
      BY <1>3, <3>2 DEF Boot, TypeOK
    <3> QED
      BY <3>1, <3>2
  <2> QED
    BY <1>3, <2>2, <2>4 DEF Boot, TypeOK, NodeTables, appVars
<1> QED
  BY <1>1, <1>2, <1>3 DEF Power

LEMMA StepTyped == TypeOK /\ [Next]_vars => TypeOK'
<1> SUFFICES ASSUME TypeOK, [Next]_vars PROVE TypeOK'
  OBVIOUS
<1>1. CASE App
  BY <1>1, SendMessageTyped, SendGroupMessageTyped, ResetPathTyped DEF App
<1>2. CASE Power
  BY <1>2, PowerTyped
<1>3. ASSUME NEW n \in Nodes, Receive(n) PROVE TypeOK'
  BY <1>3, ReceiveTyped
<1>4. ASSUME NEW n \in Nodes, Transmit(n) PROVE TypeOK'
  BY <1>4, TransmitTyped
<1>5. ASSUME NEW n \in Nodes, Miss(n) PROVE TypeOK'
  BY <1>5 DEF Miss, TypeOK, chatVars, appVars, powerVars
<1>6. CASE UNCHANGED vars
  BY <1>6 DEF vars, TypeOK, chatVars, appVars, powerVars
<1> QED
  BY <1>1, <1>2, <1>3, <1>4, <1>5, <1>6 DEF Next

(***************************************************************************)
(* Nothing but well-formed frames is ever queued or heard, the two tables  *)
(* of a node never outgrow their arrays, and no index leaves its table     *)
(* (SimpleMeshTables, expected_ack_table), whatever the network.           *)
(***************************************************************************)
THEOREM TypeCorrect == Spec => []TypeOK
BY InitTyped, StepTyped, PTL DEF Spec

------------------------------------------------------------------------------
(* Packets under way, and what the tables know of them. *)
FramesUnderWay == {h[2] : h \in air} \cup UNION {outq[n] : n \in Nodes}
UnderWay == {f.body : f \in FramesUnderWay}

(***************************************************************************)
(* A step in which a node forgets no packet of which there is still a copy *)
(* under way.  What makes it forget one is a restart, or so many other     *)
(* packets that the cyclic table gives the entry up (SimpleMeshTables).    *)
(***************************************************************************)
StillKnown(n) ==
  \A b \in UnderWay' :
    hasSeen(tables[n], DirectKey(b)) => hasSeen(tables'[n], DirectKey(b))

LEMMA RangeOfAppend ==
  ASSUME NEW S, NEW s \in Seq(S), NEW x \in S
  PROVE  Range(Append(s, x)) = Range(s) \cup {x}
<1>1. /\ DOMAIN s = 1 .. Len(s) /\ Len(s) \in Nat
      /\ DOMAIN Append(s, x) = 1 .. Len(s) + 1
  BY AppendProperties, LenProperties
<1>2. \A i \in 1 .. Len(s) : Append(s, x)[i] = s[i]
  BY AppendProperties
<1>3. Append(s, x)[Len(s) + 1] = x
  BY AppendProperties
<1>4. \A i \in 1 .. Len(s) + 1 : i \in 1 .. Len(s) \/ i = Len(s) + 1
  BY <1>1
<1> QED
  BY <1>1, <1>2, <1>3, <1>4 DEF Range

(* A table that is entered into holds the newest entry, and those before   *)
(* it but for the oldest.                                                  *)
LEMMA CyclicKeepsNewest ==
  ASSUME NEW S, NEW table \in Seq(S), NEW slots \in Nat \ {0}, NEW x \in S
  PROVE  x \in Range(Cyclic(table, slots, x))
<1> DEFINE rest == IF Len(table) < slots THEN table ELSE Tail(table)
<1>1. rest \in Seq(S)
  <2>1. CASE Len(table) < slots
    BY <2>1
  <2>2. CASE ~(Len(table) < slots)
    <3>1. table # <<>>
      BY <2>2
    <3> QED
      BY <2>2, <3>1
  <2> QED
    BY <2>1, <2>2
<1> HIDE DEF rest
<1>2. x \in Range(Append(rest, x))
  BY <1>1, RangeOfAppend
<1> QED
  BY <1>2 DEF Cyclic, rest

LEMMA CyclicKeepsSecond ==
  ASSUME NEW S, NEW table \in Seq(S), NEW slots \in Nat, slots >= 2, NEW x \in S,
         NEW y \in S
  PROVE  x \in Range(Cyclic(Append(table, x), slots, y))
<1> DEFINE q    == Append(table, x)
           rest == IF Len(q) < slots THEN q ELSE Tail(q)
<1>1. /\ q \in Seq(S) /\ Len(q) = Len(table) + 1 /\ q[Len(q)] = x
      /\ Len(table) \in Nat /\ q # <<>>
  BY AppendProperties, LenProperties
<1>2. rest \in Seq(S) /\ x \in Range(rest)
  <2>1. CASE Len(q) < slots
    BY <1>1, <2>1, RangeOfAppend
  <2>2. CASE ~(Len(q) < slots)
    <3>1. Len(q) - 1 >= 1 /\ Len(q) - 1 \in Nat
      BY <1>1, <2>2
    <3>2. /\ Tail(q) \in Seq(S) /\ Len(Tail(q)) = Len(q) - 1
          /\ \A i \in 1 .. Len(Tail(q)) : Tail(q)[i] = q[i + 1]
      BY <1>1, HeadTailProperties
    <3>3. Len(q) - 1 \in 1 .. Len(Tail(q)) /\ (Len(q) - 1) + 1 = Len(q)
      BY <3>1, <3>2
    <3>4. Tail(q)[Len(q) - 1] = x
      BY <1>1, <3>2, <3>3
    <3>5. x \in Range(Tail(q))
      BY <3>2, <3>3, <3>4, LenProperties DEF Range
    <3> QED
      BY <2>2, <3>2, <3>5
  <2> QED
    BY <2>1, <2>2
<1> HIDE DEF rest
<1>3. x \in Range(Append(rest, y))
  BY <1>2, RangeOfAppend
<1> QED
  BY <1>3 DEF Cyclic, rest

(* What has been entered is known, and still known after one entry more. *)
LEMMA SeenIsKnown ==
  ASSUME NEW t \in NodeTables, NEW b \in Bodies
  PROVE  hasSeen(Seen(t, b), b)
<1>1. CASE hasSeen(t, b)
  BY <1>1 DEF Seen
<1>2. CASE ~hasSeen(t, b) /\ b.type = "ACK"
  <2>1. Seen(t, b).acks = Cyclic(t.acks, AckSlots, b.code)
    BY <1>2 DEF Seen, NodeTables
  <2>2. b.code \in Range(Cyclic(t.acks, AckSlots, b.code))
    BY <1>2, AckHasCode, CyclicKeepsNewest, PacketAssumption DEF NodeTables
  <2> QED
    BY <1>2, <2>1, <2>2 DEF hasSeen
<1>3. CASE ~hasSeen(t, b) /\ b.type # "ACK"
  <2>1. Seen(t, b).hashes = Cyclic(t.hashes, HashSlots, b)
    BY <1>3 DEF Seen, NodeTables
  <2>2. b \in Range(Cyclic(t.hashes, HashSlots, b))
    BY CyclicKeepsNewest, PacketAssumption DEF NodeTables
  <2> QED
    BY <1>3, <2>1, <2>2 DEF hasSeen
<1> QED
  BY <1>1, <1>2, <1>3

LEMMA SeenKeepsLast ==
  ASSUME HashSlots >= 2, NEW t \in NodeTables, NEW b \in Bodies, NEW c \in Bodies,
         b.type # "ACK", ~hasSeen(t, b)
  PROVE  hasSeen(Seen(Seen(t, b), c), b)
<1> DEFINE u == Seen(t, b)
           rest == IF Len(t.hashes) < HashSlots THEN t.hashes ELSE Tail(t.hashes)
<1>1. u.hashes = Append(rest, b) /\ u \in NodeTables /\ hasSeen(u, b)
  <2>1. u.hashes = Cyclic(t.hashes, HashSlots, b)
    BY DEF Seen, NodeTables
  <2> QED
    BY <2>1, SeenTyped, SeenIsKnown DEF Cyclic
<1>2. rest \in Seq(Bodies)
  <2>1. CASE Len(t.hashes) < HashSlots
    BY <2>1 DEF NodeTables
  <2>2. CASE ~(Len(t.hashes) < HashSlots)
    <3>1. t.hashes \in Seq(Bodies) /\ t.hashes # <<>>
      BY <2>2, PacketAssumption DEF NodeTables
    <3> QED
      BY <2>2, <3>1
  <2> QED
    BY <2>1, <2>2
<1> HIDE DEF u, rest
<1>3. CASE hasSeen(u, c)
  BY <1>1, <1>3 DEF Seen, u
<1>4. CASE ~hasSeen(u, c) /\ c.type = "ACK"
  <2>1. Seen(u, c).hashes = u.hashes
    BY <1>1, <1>4 DEF Seen, NodeTables
  <2> QED
    BY <1>1, <2>1 DEF hasSeen, u
<1>5. CASE ~hasSeen(u, c) /\ c.type # "ACK"
  <2>1. Seen(u, c).hashes = Cyclic(Append(rest, b), HashSlots, c)
    BY <1>1, <1>5 DEF Seen, NodeTables
  <2>2. b \in Range(Cyclic(Append(rest, b), HashSlots, c))
    BY <1>2, CyclicKeepsSecond, PacketAssumption
  <2> QED
    BY <2>1, <2>2 DEF hasSeen, u
<1> QED
  BY <1>3, <1>4, <1>5

LEMMA AckLeavesHashes ==
  ASSUME NEW t \in NodeTables, NEW c, NEW b, b.type # "ACK", hasSeen(t, b)
  PROVE  hasSeen(Seen(t, Ack(c)), b)
<1>1. Ack(c).type = "ACK"
  BY DEF Ack
<1>2. Seen(t, Ack(c)).hashes = t.hashes
  BY <1>1 DEF Seen, NodeTables
<1> QED
  BY <1>2 DEF hasSeen

------------------------------------------------------------------------------
(* What a step sends and what it leaves under way. *)
LEMMA HeardIsUnderWay ==
  ASSUME NEW n, NEW f, Works(n, f)
  PROVE  f \in FramesUnderWay /\ f.body \in UnderWay
<1>1. <<n, f>> \in air /\ <<n, f>>[2] = f
  BY DEF Works
<1> QED
  BY <1>1 DEF FramesUnderWay, UnderWay

LEMMA WorkSends ==
  ASSUME TypeOK, NEW n \in Nodes, NEW F, air' \subseteq air, Enqueue(n, F),
         NEW g \in FramesUnderWay'
  PROVE  g \in FramesUnderWay \/ g \in F
<1>1. \A m \in Nodes : \A h \in outq'[m] : h \in outq[m] \/ h \in F
  BY DEF Enqueue, TypeOK
<1>2. \/ \E h \in air' : g = h[2]
      \/ \E m \in Nodes : g \in outq'[m]
  BY DEF FramesUnderWay
<1> QED
  BY <1>1, <1>2 DEF FramesUnderWay

LEMMA IdleSends ==
  ASSUME air' \subseteq air, \A m \in Nodes : outq'[m] \subseteq outq[m]
  PROVE  FramesUnderWay' \subseteq FramesUnderWay
BY DEF FramesUnderWay

LEMMA TransmitMoves ==
  ASSUME TypeOK, NEW n \in Nodes, Transmit(n)
  PROVE  FramesUnderWay' \subseteq FramesUnderWay
<1>1. PICK f \in outq[n] :
        /\ outq' = [outq EXCEPT ![n] = @ \ {f}]
        /\ air' = air \cup {<<r, f>> : r \in Hearers(n)}
  BY DEF Transmit
<1>2. \A h \in air' : h \in air \/ h[2] = f
  BY <1>1
<1>3. \A m \in Nodes : outq'[m] \subseteq outq[m]
  BY <1>1 DEF TypeOK
<1>4. \A g \in FramesUnderWay' : \/ \E h \in air' : g = h[2]
                              \/ \E m \in Nodes : g \in outq'[m]
  BY DEF FramesUnderWay
<1> QED
  BY <1>2, <1>3, <1>4 DEF FramesUnderWay

LEMMA PowerMovesNothing ==
  ASSUME TypeOK, Power
  PROVE  FramesUnderWay' \subseteq FramesUnderWay
<1>1. air' \subseteq air /\ \A m \in Nodes : outq'[m] \subseteq outq[m]
  BY DEF Power, SaveContacts, PowerLoss, Boot, TypeOK
<1> QED
  BY <1>1, IdleSends

------------------------------------------------------------------------------
(***************************************************************************)
(* Nothing is forgotten before a table is full: until then the cyclic      *)
(* table gives up no entry, and only a restart empties it.                 *)
(***************************************************************************)
HasRoom(t) == Len(t.hashes) < HashSlots /\ Len(t.acks) < AckSlots
NoTableFull == \A n \in Nodes : HasRoom(tables[n])

(* What a step makes of a table: up to three packets are entered.          *)
Enters(t, u) == u = t \/ \E b \in Bodies : u = Seen(t, b)
Learns(t, u) == \E v, w : Enters(t, v) /\ Enters(v, w) /\ Enters(w, u)

Knows(t, u) == \A b : hasSeen(t, b) => hasSeen(u, b)

LEMMA CyclicGrows ==
  ASSUME NEW S, NEW table \in Seq(S), NEW slots \in Nat, Len(table) <= slots, NEW x \in S,
         Len(Cyclic(table, slots, x)) < slots
  PROVE  /\ Len(table) < slots
         /\ Range(table) \subseteq Range(Cyclic(table, slots, x))
<1>1. Len(table) < slots
  <2>1. SUFFICES ASSUME ~(Len(table) < slots) PROVE FALSE
    OBVIOUS
  <2>2. /\ Len(table) = slots /\ Len(table) \in Nat
    BY <2>1, LenProperties
  <2>3. Cyclic(table, slots, x) = Append(Tail(table), x)
    BY <2>1 DEF Cyclic
  <2>4. CASE table = <<>>
    <3>1. slots = 0
      BY <2>2, <2>4
    <3>2. Len(Cyclic(table, slots, x)) \in Nat
      <4>1. Tail(table) = <<>> 
        BY <2>4
      <4> QED
        BY <2>3, <4>1
    <3> QED
      BY <3>1, <3>2
  <2>5. CASE table # <<>>
    <3>1. Tail(table) \in Seq(S) /\ Len(Tail(table)) = Len(table) - 1
      BY <2>5, HeadTailProperties
    <3>2. Len(Append(Tail(table), x)) = Len(table) - 1 + 1
      BY <3>1, AppendProperties
    <3> QED
      BY <2>2, <2>3, <3>2
  <2> QED
    BY <2>4, <2>5
<1>2. Cyclic(table, slots, x) = Append(table, x)
  BY <1>1 DEF Cyclic
<1> QED
  BY <1>1, <1>2, RangeOfAppend

LEMMA SeenGrows ==
  ASSUME NEW t \in NodeTables, NEW b \in Bodies, HasRoom(Seen(t, b))
  PROVE  HasRoom(t) /\ Knows(t, Seen(t, b))
<1>1. CASE hasSeen(t, b)
  BY <1>1 DEF Seen, Knows
<1>2. CASE ~hasSeen(t, b) /\ b.type = "ACK"
  <2>1. /\ Seen(t, b).acks = Cyclic(t.acks, AckSlots, b.code)
        /\ Seen(t, b).hashes = t.hashes
    BY <1>2 DEF Seen, NodeTables
  <2>2. /\ t.acks \in Seq(Codes) /\ Len(t.acks) <= AckSlots /\ b.code \in Codes
        /\ AckSlots \in Nat
    BY <1>2, AckHasCode, PacketAssumption DEF NodeTables
  <2>3. Len(Cyclic(t.acks, AckSlots, b.code)) < AckSlots
    BY <2>1 DEF HasRoom
  <2>4. /\ Len(t.acks) < AckSlots
        /\ Range(t.acks) \subseteq Range(Seen(t, b).acks)
    BY <2>1, <2>2, <2>3, CyclicGrows
  <2> QED
    BY <2>1, <2>4 DEF HasRoom, Knows, hasSeen
<1>3. CASE ~hasSeen(t, b) /\ b.type # "ACK"
  <2>1. /\ Seen(t, b).hashes = Cyclic(t.hashes, HashSlots, b)
        /\ Seen(t, b).acks = t.acks
    BY <1>3 DEF Seen, NodeTables
  <2>2. /\ t.hashes \in Seq(Bodies) /\ Len(t.hashes) <= HashSlots
        /\ HashSlots \in Nat
    BY PacketAssumption DEF NodeTables
  <2>3. Len(Cyclic(t.hashes, HashSlots, b)) < HashSlots
    BY <2>1 DEF HasRoom
  <2>4. /\ Len(t.hashes) < HashSlots
        /\ Range(t.hashes) \subseteq Range(Seen(t, b).hashes)
    BY <2>1, <2>2, <2>3, CyclicGrows
  <2> QED
    BY <2>1, <2>4 DEF HasRoom, Knows, hasSeen
<1> QED
  BY <1>1, <1>2, <1>3

LEMMA EnteringForgetsNothing ==
  ASSUME NEW t \in NodeTables, NEW u, Enters(t, u)
  PROVE  u \in NodeTables /\ (HasRoom(u) => HasRoom(t) /\ Knows(t, u))
<1>1. CASE u = t
  BY <1>1 DEF Knows
<1>2. ASSUME NEW b \in Bodies, u = Seen(t, b)
      PROVE  u \in NodeTables /\ (HasRoom(u) => HasRoom(t) /\ Knows(t, u))
  BY <1>2, SeenTyped, SeenGrows
<1> QED
  BY <1>1, <1>2 DEF Enters

LEMMA LearningForgetsNothing ==
  ASSUME NEW t \in NodeTables, NEW u, Learns(t, u), HasRoom(u)
  PROVE  Knows(t, u)
<1>1. PICK v, w : Enters(t, v) /\ Enters(v, w) /\ Enters(w, u)
  BY DEF Learns
<1>2. v \in NodeTables /\ w \in NodeTables
  BY <1>1, EnteringForgetsNothing
<1>3. HasRoom(w) /\ HasRoom(v) /\ Knows(t, v) /\ Knows(v, w) /\ Knows(w, u)
  BY <1>1, <1>2, EnteringForgetsNothing
<1> QED
  BY <1>3 DEF Knows

LEMMA ReceiveLearns ==
  ASSUME TypeOK, NEW n \in Nodes, Receive(n)
  PROVE  \E t : NewTables(n, t) /\ Learns(tables[n], t)
<1>1. PICK f :
        \/ ForwardDirect(n, f) \/ IgnoreSeen(n, f) \/ PassOn(n, f)
        \/ GroupTextArrives(n, f) \/ TextForMe(n, f) \/ PathForMe(n, f)
        \/ AckArrives(n, f)
  BY DEF Receive
<1>2. Works(n, f)
  BY <1>1 DEF ForwardDirect, IgnoreSeen, PassOn, GroupTextArrives, TextForMe,
              PathForMe, AckArrives, Arrives
<1>3. f.body \in Bodies /\ f.path \in Paths /\ DirectKey(f.body) \in Bodies
  BY <1>2, WorksTyped, DirectKeyTyped
<1>4. ASSUME UNCHANGED tables PROVE NewTables(n, tables[n]) /\ Learns(tables[n], tables[n])
  BY <1>4, TablesTyped DEF NewTables, Learns, Enters
<1>5. CASE ForwardDirect(n, f) \/ IgnoreSeen(n, f) \/ PassOn(n, f)
             \/ GroupTextArrives(n, f) \/ AckArrives(n, f)
  <2>1. \/ UNCHANGED tables
        \/ NewTables(n, Seen(tables[n], f.body))
        \/ NewTables(n, Seen(tables[n], DirectKey(f.body)))
    BY <1>5 DEF ForwardDirect, IgnoreSeen, PassOn, GroupTextArrives, AckArrives
  <2> QED
    BY <1>3, <1>4, <2>1 DEF Learns, Enters
<1>6. CASE TextForMe(n, f)
  <2> DEFINE t    == Seen(tables[n], f.body)
             path == outPath[n][f.body.from]
             code == AckCodeOf(f.body)
  <2>1. f.body.type = "TXT" /\ f.body.to = n
    BY <1>6 DEF TextForMe, Arrives
  <2>2. n \in Clients /\ f.body.from \in Clients /\ code \in Codes
    BY <1>3, <2>1, TextIsText
  <2>3. CASE isRouteFlood(f)
    <3>1. PathWithAck(f) \in Bodies
      <4>1. PathReturn(f.body.to, f.body.from, f.path, code, 0) \in Bodies
        BY <1>3, <2>1, <2>2, BodiesMade
      <4> QED
        BY <4>1 DEF PathWithAck
    <3>2. NewTables(n, Seen(t, PathWithAck(f)))
      BY <1>6, <2>3 DEF TextForMe
    <3> QED
      BY <1>3, <3>1, <3>2 DEF Learns, Enters
  <2>4. CASE ~isRouteFlood(f)
    <3>1. NewTables(n, SeenAcksTo(t, path, code))
      BY <1>6, <2>4 DEF TextForMe
    <3>2. Ack(code) \in Bodies
      BY <2>2, BodiesMade
    <3>3. CASE path = NoPath \/ ExtraAcks = 0
      <4>1. SeenAcksTo(t, path, code) = Seen(t, Ack(code))
        BY <3>3 DEF SeenAcksTo
      <4> QED
        BY <1>3, <3>1, <3>2, <4>1 DEF Learns, Enters
    <3>4. CASE ~(path = NoPath \/ ExtraAcks = 0)
      <4>1. SeenAcksTo(t, path, code) = Seen(Seen(t, MultiAck(code, 1)), Ack(code))
        BY <3>4 DEF SeenAcksTo
      <4>2. MultiAck(code, 1) \in Bodies
        BY <2>2, <3>4, BodiesMade, NetworkAssumption
      <4> QED
        BY <1>3, <3>1, <3>2, <4>1, <4>2 DEF Learns, Enters
    <3> QED
      BY <3>3, <3>4
  <2> QED
    BY <2>3, <2>4
<1>7. CASE PathForMe(n, f)
  <2> DEFINE t == Seen(tables[n], f.body)
  <2>1. f.body.type = "PATH" /\ f.body.to = n
    BY <1>7 DEF PathForMe, Arrives
  <2>2. n \in Clients /\ f.body.from \in Clients
    BY <1>3, <2>1, PathHasParts
  <2>3. Reciprocal(f) \in Bodies
    <3>1. blobs + 1 \in Nat
      BY DEF TypeOK
    <3> QED
      BY <1>3, <2>1, <2>2, <3>1, BodiesMade DEF Reciprocal
  <2>4. NewTables(n, Seen(t, Reciprocal(f))) \/ NewTables(n, t)
    BY <1>7 DEF PathForMe
  <2> QED
    BY <1>3, <2>3, <2>4 DEF Learns, Enters
<1> QED
  BY <1>1, <1>5, <1>6, <1>7

(* Nodes that cannot lose power have it. *)
PoweredStay == Nodes \ MayFail \subseteq alive

LEMMA StepKeepsPower ==
  ASSUME PoweredStay, [Next]_vars
  PROVE  PoweredStay'
<1>1. CASE alive' = alive
  BY <1>1 DEF PoweredStay
<1>2. ASSUME NEW n \in Nodes, PowerLoss(n) PROVE PoweredStay'
  BY <1>2 DEF PowerLoss, PoweredStay
<1>3. ASSUME NEW n \in Nodes, Boot(n) PROVE PoweredStay'
  BY <1>3 DEF Boot, PoweredStay
<1>4. ASSUME NEW n \in Nodes, Receive(n) PROVE alive' = alive
  BY <1>4 DEF Receive, ForwardDirect, IgnoreSeen, PassOn, GroupTextArrives, TextForMe,
              PathForMe, AckArrives, powerVars
<1>5. App => alive' = alive
  BY DEF App, SendMessage, SendGroupMessage, ResetPathTo, powerVars
<1> QED
  BY <1>1, <1>2, <1>3, <1>4, <1>5
     DEF Next, Power, SaveContacts, Transmit, Miss, vars, powerVars

LEMMA RoomMeansStillKnown ==
  ASSUME TypeOK, [Next]_vars, NoTableFull', NEW n \in alive
  PROVE  StillKnown(n)
<1>1. tables \in [Nodes -> NodeTables] /\ n \in Nodes
  BY TablesTyped DEF TypeOK
<1>2. ASSUME Knows(tables[n], tables'[n]) PROVE StillKnown(n)
  BY <1>2 DEF Knows, StillKnown
<1>3. ASSUME NEW m \in Nodes, NEW t, NewTables(m, t), Learns(tables[m], t)
      PROVE  StillKnown(n)
  <2>1. tables'[n] = IF m = n THEN t ELSE tables[n]
    BY <1>1, <1>3 DEF NewTables
  <2>2. HasRoom(tables'[n])
    BY <1>1 DEF NoTableFull
  <2>3. CASE m = n
    BY <1>1, <1>2, <1>3, <2>1, <2>2, <2>3, LearningForgetsNothing
  <2>4. CASE m # n
    BY <1>2, <2>1, <2>4 DEF Knows
  <2> QED
    BY <2>3, <2>4
<1>4. CASE UNCHANGED tables
  BY <1>2, <1>4 DEF Knows
<1>5. ASSUME NEW m \in Nodes, Receive(m) PROVE StillKnown(n)
  BY <1>3, <1>5, ReceiveLearns
<1>6. ASSUME NEW m \in Messages, SendMessage(m) PROVE StillKnown(n)
  <2> DEFINE body == TextOf(m, attempts[m])
  <2>1. NewTables(m.from, Seen(tables[m.from], body)) /\ m.from \in Nodes
    BY <1>6, NetworkAssumption DEF SendMessage
  <2>2. body \in Bodies
    <3>1. attempts[m] \in 0 .. MaxAttempts
      BY DEF TypeOK
    <3> QED
      BY <3>1, BodiesMade
  <2> HIDE DEF body
  <2>3. Learns(tables[m.from], Seen(tables[m.from], body))
    BY <2>2 DEF Learns, Enters
  <2> QED
    BY <1>3, <2>1, <2>3
<1>7. ASSUME NEW g \in GroupMessages, SendGroupMessage(g) PROVE StillKnown(n)
  <2> DEFINE body == GroupText(g.from, g.text)
  <2>1. NewTables(g.from, Seen(tables[g.from], body)) /\ g.from \in Nodes
    BY <1>7, NetworkAssumption DEF SendGroupMessage
  <2>2. body \in Bodies
    BY BodiesMade
  <2> HIDE DEF body
  <2>3. Learns(tables[g.from], Seen(tables[g.from], body))
    BY <2>2 DEF Learns, Enters
  <2> QED
    BY <1>3, <2>1, <2>3
<1>8. ASSUME NEW m \in Nodes, Boot(m) PROVE StillKnown(n)
  <2>1. m # n /\ tables' = [tables EXCEPT ![m] = EmptyTables]
    BY <1>8 DEF Boot
  <2> QED
    BY <1>1, <1>2, <2>1 DEF Knows
<1>9. App => StillKnown(n)
  BY <1>4, <1>6, <1>7 DEF App, ResetPathTo
<1>10. Power => StillKnown(n)
  BY <1>4, <1>8 DEF Power, SaveContacts, PowerLoss
<1> QED
  BY <1>4, <1>5, <1>9, <1>10 DEF Next, Transmit, Miss, vars

------------------------------------------------------------------------------
(* Paths *)

(* No two nodes have the same hash. *)
HashesDiffer == \A m, n \in Nodes : HashOf[m] = HashOf[n] => m = n

IsAddressed(f) == f.body.type \in {"TXT", "PATH"}

(* The path that a return path brings is one from its addressee. *)
BringsTruePath(f) ==
  f.body.type = "PATH" => Walks(f.body.to, f.body.path, f.body.from)

(* The path field of a flood leads from its origin to r. *)
TracesOrigin(f, r) ==
  isRouteFlood(f) /\ IsAddressed(f) => Walks(f.body.from, f.path, r)

(* The path field of a direct packet leads from s to its addressee. *)
LeadsOn(s, f) ==
  HashesDiffer /\ isRouteDirect(f) /\ IsAddressed(f)
    => Walks(s, f.path, f.body.to)

(* What is true of every frame in a queue, and of every frame heard. *)
Sendable(n, f) ==
  /\ BringsTruePath(f)
  /\ \A r \in Nodes : <<n, r>> \in Links => TracesOrigin(f, r)
  /\ LeadsOn(n, f)

Audible(r, f) ==
  /\ BringsTruePath(f)
  /\ TracesOrigin(f, r)
  /\ \E s \in Nodes : LeadsOn(s, f)

FramesTellTheWay ==
  /\ \A n \in Nodes : \A f \in outq[n] : Sendable(n, f)
  /\ \A h \in air : Audible(h[1], h[2])

(***************************************************************************)
(* The inductive invariant: OutPathsLead holds only because the frames on  *)
(* their way tell true paths.                                              *)
(***************************************************************************)
PathInv == TypeOK /\ FramesTellTheWay /\ OutPathsLead

------------------------------------------------------------------------------
(* Walks. *)
LEMMA WalkOfNoHop ==
  ASSUME NEW a, NEW b, <<a, b>> \in Links
  PROVE  Walks(a, <<>>, b)
<1> DEFINE hops == [i \in 1 .. Len(<<>>) |-> CHOOSE r \in Repeaters : TRUE]
<1>1. Len(<<>>) = 0
  BY EmptySeq
<1>2. 1 .. Len(<<>>) = {} /\ 1 .. Len(<<>>) - 1 = {}
  BY <1>1
<1>3. hops \in [1 .. Len(<<>>) -> Repeaters]
  BY <1>2
<1> HIDE DEF hops
<1> QED
  BY <1>2, <1>3 DEF Walks

(* A walk to a repeater goes on to whoever hears it. *)
LEMMA WalkGoesOn ==
  ASSUME NEW a, NEW p \in Paths, NEW n \in Repeaters, NEW b,
         Walks(a, p, n), <<n, b>> \in Links
  PROVE  Walks(a, Append(p, HashOf[n]), b)
<1> DEFINE q == Append(p, HashOf[n])
<1>1. p \in Seq(Hashes) /\ HashOf[n] \in Hashes
  BY NetworkAssumption DEF Paths, Hashes
<1>2. /\ Len(p) \in Nat /\ Len(q) = Len(p) + 1
      /\ \A i \in 1 .. Len(p) : q[i] = p[i]
      /\ q[Len(p) + 1] = HashOf[n]
  BY <1>1, AppendProperties, LenProperties
<1>3. PICK hops \in [1 .. Len(p) -> Repeaters] :
        /\ \A i \in 1 .. Len(p) : HashOf[hops[i]] = p[i]
        /\ \A i \in 1 .. Len(p) - 1 : <<hops[i], hops[i + 1]>> \in Links
        /\ p = <<>> => <<a, n>> \in Links
        /\ p # <<>> => <<a, hops[1]>> \in Links /\ <<hops[Len(p)], n>> \in Links
  BY DEF Walks
<1> DEFINE more == [i \in 1 .. Len(q) |-> IF i = Len(q) THEN n ELSE hops[i]]
<1> HIDE DEF q
<1>4. /\ more \in [1 .. Len(q) -> Repeaters]
      /\ more[Len(q)] = n
      /\ \A i \in 1 .. Len(p) : more[i] = hops[i]
  BY <1>2, <1>3
<1> HIDE DEF more
<1>5. \A i \in 1 .. Len(q) : HashOf[more[i]] = q[i]
  BY <1>2, <1>3, <1>4
<1>6. \A i \in 1 .. Len(q) - 1 : <<more[i], more[i + 1]>> \in Links
  <2> SUFFICES ASSUME NEW i \in 1 .. Len(q) - 1
               PROVE  <<more[i], more[i + 1]>> \in Links
    OBVIOUS
  <2>1. CASE i = Len(p)
    <3>1. p # <<>> /\ more[i] = hops[Len(p)] /\ more[i + 1] = n
      BY <1>2, <1>4, <2>1
    <3> QED
      BY <1>3, <3>1
  <2>2. CASE i # Len(p)
    <3>1. i \in 1 .. Len(p) - 1 /\ more[i] = hops[i] /\ more[i + 1] = hops[i + 1]
      BY <1>2, <1>4, <2>2
    <3> QED
      BY <1>3, <3>1
  <2> QED
    BY <2>1, <2>2
<1>7. q # <<>> /\ <<more[Len(q)], b>> \in Links
  BY <1>2, <1>4
<1>8. <<a, more[1]>> \in Links
  <2>1. CASE p = <<>>
    BY <1>2, <1>3, <1>4, <2>1
  <2>2. CASE p # <<>>
    <3>1. 1 \in 1 .. Len(p)
      BY <1>1, <2>2, EmptySeq, LenProperties
    <3> QED
      BY <1>3, <1>4, <2>2, <3>1
  <2> QED
    BY <2>1, <2>2
<1>9. Walks(a, q, b)
  BY <1>4, <1>5, <1>6, <1>7, <1>8 DEF Walks
<1> QED
  BY <1>9 DEF q

(* Where hashes differ, the hop a walk begins with can take it from there. *)
LEMMA WalkFromFirstHop ==
  ASSUME NEW a, NEW p \in Paths, NEW n \in Nodes, NEW b,
         HashesDiffer, p # <<>>, HashOf[n] = Head(p), Walks(a, p, b)
  PROVE  Walks(n, Tail(p), b)
<1> DEFINE q == Tail(p)
<1>1. p \in Seq(Hashes)
  BY DEF Paths
<1>2. /\ Len(p) \in Nat \ {0} /\ Len(q) = Len(p) - 1
      /\ \A i \in 1 .. Len(q) : q[i] = p[i + 1]
      /\ Head(p) = p[1]
  BY <1>1, EmptySeq, LenProperties, HeadTailProperties
<1>3. PICK hops \in [1 .. Len(p) -> Repeaters] :
        /\ \A i \in 1 .. Len(p) : HashOf[hops[i]] = p[i]
        /\ \A i \in 1 .. Len(p) - 1 : <<hops[i], hops[i + 1]>> \in Links
        /\ p # <<>> => <<a, hops[1]>> \in Links /\ <<hops[Len(p)], b>> \in Links
  BY DEF Walks
<1>4. hops[1] = n
  BY <1>2, <1>3, NetworkAssumption DEF HashesDiffer
<1> DEFINE rest == [i \in 1 .. Len(q) |-> hops[i + 1]]
<1>5. q = <<>> => Len(q) = 0
  BY EmptySeq
<1>6. q # <<>> => Len(q) > 0
  <2>1. q \in Seq(Hashes)
    BY <1>1, HeadTailProperties
  <2> QED
    BY <1>2, <2>1, EmptySeq
<1> HIDE DEF q
<1>7. rest \in [1 .. Len(q) -> Repeaters] /\ \A i \in 1 .. Len(q) : rest[i] = hops[i + 1]
  BY <1>2, <1>3
<1> HIDE DEF rest
<1>8. \A i \in 1 .. Len(q) : HashOf[rest[i]] = q[i]
  BY <1>2, <1>3, <1>7
<1>9. \A i \in 1 .. Len(q) - 1 : <<rest[i], rest[i + 1]>> \in Links
  <2> SUFFICES ASSUME NEW i \in 1 .. Len(q) - 1
               PROVE  <<rest[i], rest[i + 1]>> \in Links
    OBVIOUS
  <2>1. /\ i + 1 \in 1 .. Len(p) - 1 /\ i \in 1 .. Len(q) /\ i + 1 \in 1 .. Len(q)
    BY <1>2
  <2> QED
    BY <1>3, <1>7, <2>1
<1>10. q = <<>> => <<n, b>> \in Links
  BY <1>2, <1>3, <1>4, <1>5
<1>11. q # <<>> => <<n, rest[1]>> \in Links /\ <<rest[Len(q)], b>> \in Links
  <2> SUFFICES ASSUME q # <<>>
               PROVE  <<n, rest[1]>> \in Links /\ <<rest[Len(q)], b>> \in Links
    OBVIOUS
  <2>1. /\ 1 \in 1 .. Len(q) /\ Len(q) \in 1 .. Len(q)
        /\ Len(q) + 1 = Len(p) /\ 1 \in 1 .. Len(p) - 1
    BY <1>2, <1>6
  <2>2. rest[1] = hops[1 + 1] /\ rest[Len(q)] = hops[Len(p)]
    BY <1>7, <2>1
  <2> QED
    BY <1>3, <1>4, <2>1, <2>2
<1>12. Walks(n, q, b)
  BY <1>7, <1>8, <1>9, <1>10, <1>11 DEF Walks
<1> QED
  BY <1>12 DEF q

------------------------------------------------------------------------------
(* From hearing to sending and back. *)
LEMMA PassedOn ==
  ASSUME NEW n \in Nodes, NEW f \in Frames, Audible(n, f),
         NEW g \in routeRecvPacket(n, f)
  PROVE  Sendable(n, g)
<1>1. /\ isRouteFlood(f) /\ n \in Repeaters
      /\ g = [f EXCEPT !.path = Append(@, HashOf[n])]
  BY DEF routeRecvPacket, allowPacketForward
<1>2. g.route = f.route /\ g.body = f.body /\ g.path = Append(f.path, HashOf[n])
  BY <1>1 DEF Frames
<1>3. f.path \in Paths
  BY DEF Frames
<1>4. ASSUME IsAddressed(f), NEW r \in Nodes, <<n, r>> \in Links
      PROVE  Walks(f.body.from, g.path, r)
  <2>1. Walks(f.body.from, f.path, n)
    BY <1>1, <1>4 DEF Audible, TracesOrigin
  <2> QED
    BY <1>1, <1>2, <1>3, <1>4, <2>1, WalkGoesOn
<1>5. BringsTruePath(g)
  BY <1>2 DEF Audible, BringsTruePath
<1>6. \A r \in Nodes : <<n, r>> \in Links => TracesOrigin(g, r)
  BY <1>2, <1>4 DEF TracesOrigin, IsAddressed
<1>7. LeadsOn(n, g)
  BY <1>1, <1>2 DEF LeadsOn, isRouteFlood, isRouteDirect
<1> QED
  BY <1>5, <1>6, <1>7 DEF Sendable

(* A frame with an acknowledgement as its body tells no way at all. *)
LEMMA AcksAreSendable ==
  ASSUME NEW n, NEW f, f.body.type \in {"ACK", "MULTI", "GRP"}
  PROVE  Sendable(n, f)
BY DEF Sendable, BringsTruePath, TracesOrigin, LeadsOn, IsAddressed

LEMMA ForwardedIsSendable ==
  ASSUME NEW n \in Nodes, NEW f \in Frames, Audible(n, f),
         OnTheWay(f), IsNextHop(n, f), NEW g \in Forwarded(f)
  PROVE  Sendable(n, g)
<1>1. CASE f.body.type \in {"ACK", "MULTI"}
  <2>1. g.body.type \in {"ACK", "MULTI"}
    BY <1>1 DEF Forwarded, routeDirectRecvAcks, Direct, Ack, MultiAck
  <2> QED
    BY <2>1, AcksAreSendable
<1>2. CASE f.body.type \notin {"ACK", "MULTI"}
  <2>1. g = [f EXCEPT !.path = Tail(@)]
    BY <1>2 DEF Forwarded, removeSelfFromPath
  <2>2. g.route = f.route /\ g.body = f.body /\ g.path = Tail(f.path)
    BY <2>1 DEF Frames
  <2>3. f.path \in Paths
    BY DEF Frames
  <2>4. BringsTruePath(g)
    BY <2>2 DEF Audible, BringsTruePath
  <2>5. \A r \in Nodes : TracesOrigin(g, r)
    BY <2>2 DEF OnTheWay, TracesOrigin, isRouteFlood, isRouteDirect
  <2>6. LeadsOn(n, g)
    <3> SUFFICES ASSUME HashesDiffer, isRouteDirect(g), IsAddressed(g)
                 PROVE  Walks(n, g.path, g.body.to)
      BY DEF LeadsOn
    <3>1. PICK s \in Nodes : Walks(s, f.path, f.body.to)
      BY <2>2 DEF Audible, LeadsOn, IsAddressed, isRouteDirect
    <3> QED
      BY <2>2, <2>3, <3>1, WalkFromFirstHop DEF OnTheWay, IsNextHop
  <2> QED
    BY <2>4, <2>5, <2>6 DEF Sendable
<1> QED
  BY <1>1, <1>2

(* What a node sends, its neighbours hear. *)
LEMMA SentIsAudible ==
  ASSUME NEW n \in Nodes, NEW r \in Nodes, NEW f,
         <<n, r>> \in Links, Sendable(n, f)
  PROVE  Audible(r, f)
BY DEF Sendable, Audible

(* A node that works on a frame and queues sendable ones keeps the rule. *)
LEMMA WorkKeepsFrames ==
  ASSUME TypeOK, FramesTellTheWay, NEW n \in Nodes, NEW f, Works(n, f),
         NEW F, Enqueue(n, F), \A g \in F : Sendable(n, g)
  PROVE  FramesTellTheWay'
<1>1. air' \subseteq air
  BY DEF Works
<1>2. \A m \in Nodes : \A g \in outq'[m] : g \in outq[m] \/ (m = n /\ g \in F)
  BY DEF Enqueue, TypeOK
<1> QED
  BY <1>1, <1>2 DEF FramesTellTheWay

LEMMA IdleKeepsFrames ==
  ASSUME FramesTellTheWay, UNCHANGED outq, air' \subseteq air
  PROVE  FramesTellTheWay'
BY DEF FramesTellTheWay

------------------------------------------------------------------------------
(* One lemma per step: the frames go on telling the way, and the out_paths *)
(* go on leading to their contacts.                                        *)
LEMMA HeardIsAudible ==
  ASSUME TypeOK, FramesTellTheWay, NEW n \in Nodes, NEW f, Works(n, f)
  PROVE  Audible(n, f) /\ f \in Frames /\ f.body \in Bodies /\ f.path \in Paths
<1>1. <<n, f>> \in air
  BY DEF Works
<1> QED
  BY <1>1, WorksTyped DEF FramesTellTheWay

LEMMA PathsKept ==
  ASSUME OutPathsLead, UNCHANGED <<outPath, saved>>
  PROVE  OutPathsLead'
BY DEF OutPathsLead

LEMMA ForwardDirectKeepsPaths ==
  ASSUME PathInv, NEW n \in Nodes, NEW f, ForwardDirect(n, f)
  PROVE  FramesTellTheWay' /\ OutPathsLead'
<1>1. Works(n, f) /\ OnTheWay(f) /\ UNCHANGED <<outPath, saved>>
  BY DEF ForwardDirect, chatVars
<1>2. Audible(n, f) /\ f \in Frames
  BY <1>1, HeardIsAudible DEF PathInv
<1>3. CASE IsNextHop(n, f) /\ ~hasSeen(tables[n], DirectKey(f.body))
  <2>1. Enqueue(n, Forwarded(f))
    BY <1>3 DEF ForwardDirect
  <2>2. \A g \in Forwarded(f) : Sendable(n, g)
    BY <1>1, <1>2, <1>3, ForwardedIsSendable
  <2> QED
    BY <1>1, <2>1, <2>2, WorkKeepsFrames, PathsKept DEF PathInv
<1>4. CASE ~(IsNextHop(n, f) /\ ~hasSeen(tables[n], DirectKey(f.body)))
  <2>1. UNCHANGED outq /\ air' \subseteq air
    BY <1>1, <1>4 DEF ForwardDirect, Works
  <2> QED
    BY <1>1, <2>1, IdleKeepsFrames, PathsKept DEF PathInv
<1> QED
  BY <1>3, <1>4

LEMMA PassOnKeepsPaths ==
  ASSUME PathInv, NEW n \in Nodes, NEW f,
         Works(n, f), Enqueue(n, routeRecvPacket(n, f)), UNCHANGED <<outPath, saved>>
  PROVE  FramesTellTheWay' /\ OutPathsLead'
<1>1. Audible(n, f) /\ f \in Frames
  BY HeardIsAudible DEF PathInv
<1>2. \A g \in routeRecvPacket(n, f) : Sendable(n, g)
  BY <1>1, PassedOn
<1> QED
  BY <1>2, WorkKeepsFrames, PathsKept DEF PathInv

LEMMA TextForMeKeepsPaths ==
  ASSUME PathInv, NEW n \in Nodes, NEW f, TextForMe(n, f)
  PROVE  FramesTellTheWay' /\ OutPathsLead'
<1> DEFINE path == outPath[n][f.body.from]
           code == AckCodeOf(f.body)
           answer == Flood(PathWithAck(f), <<>>)
<1>1. Works(n, f) /\ f.body.type = "TXT" /\ f.body.to = n /\ UNCHANGED <<outPath, saved>>
  BY DEF TextForMe, Arrives
<1>2. Audible(n, f) /\ f \in Frames
  BY <1>1, HeardIsAudible DEF PathInv
<1>3. CASE isRouteFlood(f)
  <2>1. Enqueue(n, {answer})
    BY <1>3 DEF TextForMe
  <2>2. /\ isRouteFlood(answer) /\ ~isRouteDirect(answer) /\ answer.path = <<>>
        /\ answer.body.type = "PATH" /\ answer.body.from = n
        /\ answer.body.to = f.body.from /\ answer.body.path = f.path
    BY <1>1 DEF Flood, PathWithAck, PathReturn, isRouteFlood, isRouteDirect
  <2> HIDE DEF answer
  <2>3. BringsTruePath(answer)
    <3>1. Walks(f.body.from, f.path, n)
      BY <1>1, <1>2, <1>3 DEF Audible, TracesOrigin, IsAddressed
    <3> QED
      BY <2>2, <3>1 DEF BringsTruePath
  <2>4. \A r \in Nodes : <<n, r>> \in Links => TracesOrigin(answer, r)
    BY <2>2, WalkOfNoHop DEF TracesOrigin
  <2>5. Sendable(n, answer)
    BY <2>2, <2>3, <2>4 DEF Sendable, LeadsOn
  <2> QED
    BY <1>1, <2>1, <2>5, WorkKeepsFrames, PathsKept DEF PathInv
<1>4. CASE ~isRouteFlood(f)
  <2>1. Enqueue(n, AcksTo(path, code))
    BY <1>4 DEF TextForMe
  <2>2. \A g \in AcksTo(path, code) : g.body.type \in {"ACK", "MULTI"}
    BY DEF AcksTo, Flood, Direct, Ack, MultiAck
  <2>3. \A g \in AcksTo(path, code) : Sendable(n, g)
    BY <2>2, AcksAreSendable
  <2> QED
    BY <1>1, <2>1, <2>3, WorkKeepsFrames, PathsKept DEF PathInv
<1> QED
  BY <1>3, <1>4

LEMMA PathForMeKeepsPaths ==
  ASSUME PathInv, NEW n \in Nodes, NEW f, PathForMe(n, f)
  PROVE  FramesTellTheWay' /\ OutPathsLead'
<1> DEFINE answer == Direct(Reciprocal(f), OutPathIn(f))
<1>1. Works(n, f) /\ f.body.type = "PATH" /\ f.body.to = n /\ UNCHANGED saved
  BY DEF PathForMe, Arrives
<1>2. Audible(n, f) /\ f \in Frames /\ f.body \in Bodies
  BY <1>1, HeardIsAudible DEF PathInv
<1>3. Walks(n, f.body.path, f.body.from) /\ n \in Clients /\ f.body.from \in Clients
  BY <1>1, <1>2, PathHasParts DEF Audible, BringsTruePath
<1>4. OutPathsLead'
  <2>1. outPath' = [outPath EXCEPT ![n][f.body.from] = f.body.path]
    BY DEF PathForMe, OutPathIn
  <2>2. outPath \in [Clients -> [Clients -> Paths \cup {NoPath}]]
    BY DEF PathInv, TypeOK
  <2>3. \A m, c \in Clients :
          \/ outPath'[m][c] = outPath[m][c]
          \/ m = n /\ c = f.body.from /\ outPath'[m][c] = f.body.path
    BY <1>3, <2>1, <2>2
  <2>4. ASSUME NEW m \in Clients, NEW c \in Clients
        PROVE  /\ outPath'[m][c] # NoPath => Walks(m, outPath'[m][c], c)
               /\ saved'[m][c] # NoPath => Walks(m, saved'[m][c], c)
    BY <1>1, <1>3, <2>3 DEF PathInv, OutPathsLead
  <2> QED
    BY <2>4 DEF OutPathsLead
<1>5. CASE isRouteFlood(f)
  <2>1. Enqueue(n, {answer})
    BY <1>5 DEF PathForMe
  <2>2. /\ isRouteDirect(answer) /\ ~isRouteFlood(answer)
        /\ answer.path = f.body.path
        /\ answer.body.type = "PATH" /\ answer.body.from = n
        /\ answer.body.to = f.body.from /\ answer.body.path = f.path
    BY <1>1 DEF Direct, Reciprocal, PathReturn, OutPathIn, isRouteFlood, isRouteDirect
  <2> HIDE DEF answer
  <2>3. BringsTruePath(answer)
    <3>1. Walks(f.body.from, f.path, n)
      BY <1>1, <1>2, <1>5 DEF Audible, TracesOrigin, IsAddressed
    <3> QED
      BY <2>2, <3>1 DEF BringsTruePath
  <2>4. Sendable(n, answer)
    BY <1>3, <2>2, <2>3 DEF Sendable, TracesOrigin, LeadsOn
  <2> QED
    BY <1>1, <1>4, <2>1, <2>4, WorkKeepsFrames DEF PathInv
<1>6. CASE ~isRouteFlood(f)
  <2>1. UNCHANGED outq /\ air' \subseteq air
    BY <1>1, <1>6 DEF PathForMe, Works
  <2> QED
    BY <1>4, <2>1, IdleKeepsFrames DEF PathInv
<1> QED
  BY <1>5, <1>6

LEMMA AckKeepsPaths ==
  ASSUME PathInv, NEW n \in Nodes, NEW f, AckArrives(n, f)
  PROVE  FramesTellTheWay' /\ OutPathsLead'
<1>1. Works(n, f) /\ UNCHANGED <<outPath, saved>>
  BY DEF AckArrives, Arrives
<1>2. CASE ExpectedAck(n, f)
  <2>1. UNCHANGED outq /\ air' \subseteq air
    BY <1>1, <1>2, ExpectedAckSendsNothing DEF PathInv, Works
  <2> QED
    BY <1>1, <2>1, IdleKeepsFrames, PathsKept DEF PathInv
<1>3. CASE UnexpectedAck(n, f)
  BY <1>1, <1>3, PassOnKeepsPaths DEF UnexpectedAck
<1> QED
  BY <1>2, <1>3 DEF AckArrives

LEMMA ReceiveKeepsPaths ==
  ASSUME PathInv, NEW n \in Nodes, Receive(n)
  PROVE  FramesTellTheWay' /\ OutPathsLead'
<1>1. PICK f :
        \/ ForwardDirect(n, f) \/ IgnoreSeen(n, f) \/ PassOn(n, f)
        \/ GroupTextArrives(n, f) \/ TextForMe(n, f) \/ PathForMe(n, f)
        \/ AckArrives(n, f)
  BY DEF Receive
<1>2. CASE IgnoreSeen(n, f)
  <2>1. UNCHANGED <<outq, outPath, saved>> /\ air' \subseteq air
    BY <1>2 DEF IgnoreSeen, Works, chatVars
  <2> QED
    BY <2>1, IdleKeepsFrames, PathsKept DEF PathInv
<1>3. CASE PassOn(n, f)
  BY <1>3, PassOnKeepsPaths DEF PassOn, Arrives, chatVars
<1>4. CASE GroupTextArrives(n, f)
  BY <1>4, PassOnKeepsPaths DEF GroupTextArrives, Arrives
<1> QED
  BY <1>1, <1>2, <1>3, <1>4, ForwardDirectKeepsPaths, TextForMeKeepsPaths,
     PathForMeKeepsPaths, AckKeepsPaths

LEMMA QueuedKeepsFrames ==
  ASSUME TypeOK, FramesTellTheWay, NEW n \in Nodes, NEW f,
         UNCHANGED air, Enqueue(n, {f}), Sendable(n, f)
  PROVE  FramesTellTheWay'
<1>1. \A m \in Nodes : \A g \in outq'[m] : g \in outq[m] \/ (m = n /\ g = f)
  BY DEF Enqueue, TypeOK
<1> QED
  BY <1>1 DEF FramesTellTheWay

LEMMA AppKeepsPaths ==
  ASSUME PathInv, App
  PROVE  FramesTellTheWay' /\ OutPathsLead'
<1>1. ASSUME NEW m \in Messages, SendMessage(m)
      PROVE  FramesTellTheWay' /\ OutPathsLead'
  <2> DEFINE n    == m.from
             body == TextOf(m, attempts[m])
             path == outPath[n][m.to]
             f    == IF path = NoPath THEN Flood(body, <<>>) ELSE Direct(body, path)
  <2>1. n \in Clients /\ n \in Nodes /\ m.to \in Clients
    BY NetworkAssumption
  <2>2. Enqueue(n, {f}) /\ UNCHANGED <<air, outPath, saved>>
    BY <1>1 DEF SendMessage
  <2>3. f.body.type = "TXT" /\ f.body.from = n /\ f.body.to = m.to
    BY DEF Flood, Direct, TextOf, Text
  <2>4. isRouteFlood(f) => f.path = <<>>
    BY DEF Flood, Direct, isRouteFlood
  <2>5. isRouteDirect(f) => f.path = path /\ path # NoPath
    BY DEF Flood, Direct, isRouteDirect
  <2>6. path # NoPath => Walks(n, path, m.to)
    BY <2>1 DEF PathInv, OutPathsLead
  <2> HIDE DEF f, path
  <2>7. Sendable(n, f)
    BY <2>3, <2>4, <2>5, <2>6, WalkOfNoHop
       DEF Sendable, BringsTruePath, TracesOrigin, LeadsOn
  <2> QED
    BY <2>1, <2>2, <2>7, QueuedKeepsFrames, PathsKept DEF PathInv
<1>2. ASSUME NEW g \in GroupMessages, SendGroupMessage(g)
      PROVE  FramesTellTheWay' /\ OutPathsLead'
  <2> DEFINE f == Flood(GroupText(g.from, g.text), <<>>)
  <2>1. /\ Enqueue(g.from, {f}) /\ UNCHANGED <<air, outPath, saved>>
        /\ g.from \in Nodes
    BY <1>2, NetworkAssumption DEF SendGroupMessage, chatVars
  <2>2. Sendable(g.from, f)
    BY AcksAreSendable DEF Flood, GroupText
  <2> QED
    BY <2>1, <2>2, QueuedKeepsFrames, PathsKept DEF PathInv
<1>3. ASSUME NEW n \in Clients, NEW c \in Clients, ResetPathTo(n, c)
      PROVE  FramesTellTheWay' /\ OutPathsLead'
  <2>1. UNCHANGED <<outq, air, saved>> /\ outPath' = [outPath EXCEPT ![n][c] = NoPath]
    BY <1>3 DEF ResetPathTo
  <2>2. \A m, d \in Clients : outPath'[m][d] \in {outPath[m][d], NoPath}
    BY <2>1 DEF PathInv, TypeOK
  <2>3. OutPathsLead'
    BY <2>1, <2>2 DEF PathInv, OutPathsLead
  <2> QED
    BY <2>1, <2>3, IdleKeepsFrames DEF PathInv
<1> QED
  BY <1>1, <1>2, <1>3 DEF App

LEMMA TransmitKeepsPaths ==
  ASSUME PathInv, NEW n \in Nodes, Transmit(n)
  PROVE  FramesTellTheWay' /\ OutPathsLead'
<1>1. PICK f \in outq[n] :
        /\ outq' = [outq EXCEPT ![n] = @ \ {f}]
        /\ air' = air \cup {<<r, f>> : r \in Hearers(n)}
        /\ UNCHANGED <<outPath, saved>>
  BY DEF Transmit, chatVars
<1>2. Sendable(n, f)
  BY DEF PathInv, FramesTellTheWay
<1>3. \A r \in Hearers(n) : Audible(r, f)
  BY <1>2, SentIsAudible DEF PathInv, TypeOK, Hearers
<1>4. \A h \in air' : Audible(h[1], h[2])
  BY <1>1, <1>3 DEF PathInv, FramesTellTheWay
<1>5. \A m \in Nodes : outq'[m] \subseteq outq[m]
  BY <1>1 DEF PathInv, TypeOK
<1>6. FramesTellTheWay'
  BY <1>4, <1>5 DEF PathInv, FramesTellTheWay
<1> QED
  BY <1>1, <1>6, PathsKept DEF PathInv

LEMMA PowerKeepsPaths ==
  ASSUME PathInv, Power
  PROVE  FramesTellTheWay' /\ OutPathsLead'
<1>1. ASSUME NEW n \in Clients, SaveContacts(n)
      PROVE  FramesTellTheWay' /\ OutPathsLead'
  <2>1. /\ UNCHANGED <<outq, air, outPath>>
        /\ saved' = [saved EXCEPT ![n] = outPath[n]]
    BY <1>1 DEF SaveContacts
  <2>2. \A m, c \in Clients : saved'[m][c] \in {saved[m][c], outPath[m][c]}
    BY <2>1 DEF PathInv, TypeOK
  <2>3. OutPathsLead'
    BY <2>1, <2>2 DEF PathInv, OutPathsLead
  <2> QED
    BY <2>1, <2>3, IdleKeepsFrames DEF PathInv
<1>2. ASSUME NEW n \in Nodes, PowerLoss(n)
      PROVE  FramesTellTheWay' /\ OutPathsLead'
  <2>1. /\ air' \subseteq air /\ UNCHANGED <<outPath, saved>>
        /\ outq' = [outq EXCEPT ![n] = {}]
    BY <1>2 DEF PowerLoss, chatVars
  <2>2. \A m \in Nodes : outq'[m] \subseteq outq[m]
    BY <2>1 DEF PathInv, TypeOK
  <2>3. FramesTellTheWay'
    BY <2>1, <2>2 DEF PathInv, FramesTellTheWay
  <2> QED
    BY <2>1, <2>3, PathsKept DEF PathInv
<1>3. ASSUME NEW n \in Nodes, Boot(n)
      PROVE  FramesTellTheWay' /\ OutPathsLead'
  <2>1. UNCHANGED <<outq, air, saved>>
    BY <1>3 DEF Boot
  <2>2. \A m, c \in Clients : outPath'[m][c] \in {saved[m][c], outPath[m][c]}
    <3>1. CASE n \in Clients
      <4>1. outPath' = [outPath EXCEPT ![n] = saved[n]]
        BY <1>3, <3>1 DEF Boot
      <4> QED
        BY <4>1 DEF PathInv, TypeOK
    <3>2. CASE n \notin Clients
      BY <1>3, <3>2 DEF Boot
    <3> QED
      BY <3>1, <3>2
  <2>3. OutPathsLead'
    BY <2>1, <2>2 DEF PathInv, OutPathsLead
  <2> QED
    BY <2>1, <2>3, IdleKeepsFrames DEF PathInv
<1> QED
  BY <1>1, <1>2, <1>3 DEF Power

------------------------------------------------------------------------------
(* The theorems. *)
LEMMA InitTellsTheWay == Init => PathInv
<1> SUFFICES ASSUME Init PROVE FramesTellTheWay /\ OutPathsLead
  BY InitTyped DEF PathInv
<1>1. FramesTellTheWay
  BY DEF Init, FramesTellTheWay
<1>2. \A n, c \in Clients : outPath[n][c] = NoPath /\ saved[n][c] = NoPath
  BY DEF Init, NoPaths
<1> QED
  BY <1>1, <1>2 DEF OutPathsLead

LEMMA StepTellsTheWay == PathInv /\ [Next]_vars => PathInv'
<1> SUFFICES ASSUME PathInv, [Next]_vars
             PROVE  FramesTellTheWay' /\ OutPathsLead'
  BY StepTyped DEF PathInv
<1>1. ASSUME NEW n \in Nodes, Miss(n)
      PROVE  FramesTellTheWay' /\ OutPathsLead'
  <2>1. UNCHANGED <<outq, outPath, saved>> /\ air' \subseteq air
    BY <1>1 DEF Miss, chatVars
  <2> QED
    BY <2>1, IdleKeepsFrames, PathsKept DEF PathInv
<1>2. CASE UNCHANGED vars
  <2>1. UNCHANGED <<outq, outPath, saved>> /\ air' \subseteq air
    BY <1>2 DEF vars, chatVars
  <2> QED
    BY <2>1, IdleKeepsFrames, PathsKept DEF PathInv
<1> QED
  BY <1>1, <1>2, AppKeepsPaths, PowerKeepsPaths, ReceiveKeepsPaths,
     TransmitKeepsPaths DEF Next

THEOREM FramesAlwaysTellTheWay == Spec => []PathInv
BY InitTellsTheWay, StepTellsTheWay, PTL DEF Spec

(***************************************************************************)
(* Every out_path a client holds or has saved is a walk to the contact, in *)
(* every network and after any losses, resets and outages: nothing but the *)
(* hashes a flood collected ever becomes a path (onContactPathRecv).       *)
(***************************************************************************)
THEOREM OutPathsAlwaysLead == Spec => []OutPathsLead
<1>1. PathInv => OutPathsLead
  BY DEF PathInv
<1> QED
  BY <1>1, FramesAlwaysTellTheWay, PTL

(***************************************************************************)
(* Where no two nodes have the same hash, taking oneself off the path      *)
(* never leaves the route: what waits in any queue along the way still     *)
(* leads to the addressee (removeSelfFromPath).                            *)
(***************************************************************************)
THEOREM DirectAlwaysOnRoute ==
  ASSUME HashesDiffer
  PROVE  Spec => []DirectStaysOnRoute
<1>1. PathInv => DirectStaysOnRoute
  BY DEF PathInv, FramesTellTheWay, Sendable, LeadsOn, IsAddressed,
         DirectStaysOnRoute
<1> QED
  BY <1>1, FramesAlwaysTellTheWay, PTL

------------------------------------------------------------------------------
(* Floods do not go round in circles. *)
RepeatersDiffer == \A m, n \in Repeaters : HashOf[m] = HashOf[n] => m = n

(* What a repeater has passed on it knows, or knew before it lost power.   *)
KnowsNow(n, b) == n \in alive /\ hasSeen(tables[n], DirectKey(b))
Lives(n, b) ==
  (IF n \in MayFail THEN outages ELSE 0) + (IF KnowsNow(n, b) THEN 1 ELSE 0)
PassesAccounted(f) ==
  isRouteFlood(f) =>
    \A n \in Repeaters : Passes(n, f.path) <= Lives(n, f.body)

(***************************************************************************)
(* The inductive invariant: every hash of a repeater in the path of a      *)
(* flood, in a queue or in the air, is accounted for by an entry in that   *)
(* repeater's table or by an outage in which the entry was lost.           *)
(***************************************************************************)
CircleInv == TypeOK /\ \A f \in FramesUnderWay : PassesAccounted(f)

(* A step that extends a flood enters it into the table of the node.       *)
ExtendedBy(n, g, f) ==
  /\ n \in alive'
  /\ isRouteFlood(g) /\ f.body = g.body /\ f.path = Append(g.path, HashOf[n])
  /\ ~hasSeen(tables[n], DirectKey(g.body))
  /\ hasSeen(tables'[n], DirectKey(g.body))

FloodsGrow ==
  \A f \in FramesUnderWay' :
    isRouteFlood(f) =>
      \/ f \in FramesUnderWay
      \/ f.path = <<>>
      \/ \E n \in Repeaters : \E g \in FramesUnderWay : ExtendedBy(n, g, f)

LivesGrow ==
  /\ outages <= outages'
  /\ \A n \in Repeaters : \A b \in UnderWay' :
       Lives(n, b) <= Lives(n, b)'

LEMMA PassesAppended ==
  ASSUME NEW n, NEW p \in Paths, NEW h \in Hashes
  PROVE  /\ Passes(n, p) \in Nat
         /\ Passes(n, Append(p, h)) =
              IF h = HashOf[n] THEN Passes(n, p) + 1 ELSE Passes(n, p)
<1> DEFINE S == {i \in DOMAIN p : p[i] = HashOf[n]}
           q == Append(p, h)
           T == {i \in DOMAIN q : q[i] = HashOf[n]}
           l == Len(p) + 1
<1>1. /\ DOMAIN p = 1 .. Len(p) /\ Len(p) \in Nat /\ DOMAIN q = 1 .. l
      /\ \A i \in 1 .. Len(p) : q[i] = p[i]
      /\ q[l] = h
  BY AppendProperties, LenProperties DEF Paths
<1>2. IsFiniteSet(S)
  <2>1. IsFiniteSet(1 .. Len(p))
    BY <1>1, FS_Interval
  <2>2. S \subseteq 1 .. Len(p)
    BY <1>1
  <2> QED
    BY <2>1, <2>2, FS_Subset
<1>3. Cardinality(S) \in Nat
  BY <1>2, FS_CardinalityType
<1>4. l \notin S
  BY <1>1
<1>5. T = IF h = HashOf[n] THEN S \cup {l} ELSE S
  <2>1. \A i \in 1 .. l : i \in 1 .. Len(p) \/ i = l
    BY <1>1
  <2>2. \A i \in 1 .. Len(p) : i \in 1 .. l
    BY <1>1
  <2>3. \A i : i \in T <=> i \in S \/ (i = l /\ h = HashOf[n])
    BY <1>1, <2>1, <2>2
  <2> QED
    BY <2>3
<1>6. Cardinality(S \cup {l}) = Cardinality(S) + 1
  BY <1>2, <1>4, FS_AddElement
<1>7. Passes(n, p) = Cardinality(S) /\ Passes(n, q) = Cardinality(T)
  BY DEF Passes
<1> HIDE DEF S, T, l
<1> QED
  BY <1>3, <1>5, <1>6, <1>7

LEMMA NoPasses == \A n : Passes(n, <<>>) = 0
<1>1. \A n : {i \in DOMAIN <<>> : <<>>[i] = HashOf[n]} = {}
  OBVIOUS
<1> QED
  BY <1>1, FS_EmptySet DEF Passes

LEMMA LivesAreNaturals ==
  ASSUME TypeOK, NEW n, NEW b
  PROVE  Lives(n, b) \in Nat
<1>1. outages \in Nat
  BY NetworkAssumption DEF TypeOK
<1> QED
  BY <1>1 DEF Lives

LEMMA FramesTyped ==
  ASSUME TypeOK, NEW f \in FramesUnderWay
  PROVE  f \in Frames /\ f.path \in Paths /\ f.body \in UnderWay
<1>1. f \in Frames
  BY DEF TypeOK, FramesUnderWay
<1> QED
  BY <1>1 DEF Frames, UnderWay

LEMMA CircleKept ==
  ASSUME RepeatersDiffer, CircleInv, TypeOK', FloodsGrow, LivesGrow
  PROVE  CircleInv'
<1> SUFFICES ASSUME NEW f \in FramesUnderWay', isRouteFlood(f), NEW n \in Repeaters
             PROVE  Passes(n, f.path) <= Lives(n, f.body)'
  BY DEF CircleInv, PassesAccounted
<1>1. f.body \in UnderWay'
  BY DEF UnderWay
<1>2. PICK before, after : before = Lives(n, f.body) /\ after = Lives(n, f.body)'
  OBVIOUS
<1>3. before \in Nat /\ after \in Nat /\ before <= after
  <2>1. before \in Nat
    BY <1>2, LivesAreNaturals DEF CircleInv
  <2>2. after \in Nat
    <3>1. PICK o : o = outages'
      OBVIOUS
    <3>2. o \in Nat
      BY <3>1, NetworkAssumption DEF TypeOK
    <3>3. after = (IF n \in MayFail THEN o ELSE 0)
                    + (IF KnowsNow(n, f.body)' THEN 1 ELSE 0)
      BY <1>2, <3>1 DEF Lives
    <3>4. CASE KnowsNow(n, f.body)'
      BY <3>2, <3>3, <3>4
    <3>5. CASE ~KnowsNow(n, f.body)'
      BY <3>2, <3>3, <3>5
    <3> QED
      BY <3>4, <3>5
  <2>3. before <= after
    BY <1>1, <1>2 DEF LivesGrow
  <2> QED
    BY <2>1, <2>2, <2>3
<1>4. CASE f \in FramesUnderWay
  <2>1. Passes(n, f.path) \in Nat /\ Passes(n, f.path) <= before
    <3>1. f.path \in Paths
      BY <1>4, FramesTyped DEF CircleInv
    <3>2. HashOf[n] \in Hashes
      BY NetworkAssumption DEF Hashes
    <3> QED
      BY <1>2, <1>4, <3>1, <3>2, PassesAppended DEF CircleInv, PassesAccounted
  <2>2. Passes(n, f.path) <= after
    BY <1>3, <2>1
  <2> QED
    BY <1>2, <2>2
<1>5. CASE f.path = <<>>
  <2>1. Passes(n, f.path) = 0
    BY <1>5, NoPasses
  <2>2. Passes(n, f.path) <= after
    BY <1>3, <2>1
  <2> QED
    BY <1>2, <2>2
<1>6. ASSUME NEW r \in Repeaters, NEW g \in FramesUnderWay, ExtendedBy(r, g, f)
      PROVE  Passes(n, f.path) <= Lives(n, f.body)'
  <2>1. g.path \in Paths /\ HashOf[r] \in Hashes /\ HashOf[n] \in Hashes
    BY FramesTyped, NetworkAssumption DEF CircleInv, Hashes
  <2>2. /\ Passes(n, g.path) \in Nat
        /\ Passes(n, f.path) =
             IF HashOf[r] = HashOf[n] THEN Passes(n, g.path) + 1 ELSE Passes(n, g.path)
    BY <1>6, <2>1, PassesAppended DEF ExtendedBy
  <2>3. Passes(n, g.path) <= before
    BY <1>2, <1>6 DEF CircleInv, PassesAccounted, ExtendedBy
  <2>4. CASE r # n
    <3>1. HashOf[r] # HashOf[n]
      BY <2>4 DEF RepeatersDiffer
    <3>2. Passes(n, f.path) <= after
      BY <1>3, <2>2, <2>3, <3>1
    <3> QED
      BY <1>2, <3>2
  <2>5. CASE r = n
    <3>1. ~KnowsNow(n, f.body) /\ KnowsNow(n, f.body)'
      BY <1>6, <2>5 DEF ExtendedBy, KnowsNow
    <3>2. before + 1 <= after
      <4>1. PICK o, p : o = outages /\ p = outages'
        OBVIOUS
      <4>2. o \in Nat /\ p \in Nat /\ o <= p
        <5>1. o \in Nat
          BY <4>1, NetworkAssumption DEF CircleInv, TypeOK
        <5>2. p \in Nat
          BY <4>1, NetworkAssumption DEF TypeOK
        <5> QED
          BY <4>1, <5>1, <5>2 DEF LivesGrow
      <4>3. before = (IF n \in MayFail THEN o ELSE 0) + 0
        BY <1>2, <3>1, <4>1 DEF Lives
      <4>4. after = (IF n \in MayFail THEN p ELSE 0) + 1
        BY <1>2, <3>1, <4>1 DEF Lives
      <4> QED
        BY <4>2, <4>3, <4>4
    <3>3. Passes(n, f.path) <= after
      BY <1>3, <2>2, <2>3, <3>2
    <3> QED
      BY <1>2, <3>3
  <2> QED
    BY <2>4, <2>5
<1> QED
  BY <1>4, <1>5, <1>6 DEF FloodsGrow

------------------------------------------------------------------------------
(* One lemma per step. *)

(* Only a power loss ends a life, and only a boot begins one.              *)
LEMMA LivesGoOn ==
  ASSUME TypeOK, [Next]_vars, \A n \in Repeaters \cap alive : StillKnown(n)
  PROVE  LivesGrow
<1>1. outages \in Nat /\ Repeaters \subseteq Nodes
  BY NetworkAssumption DEF TypeOK
<1>2. CASE UNCHANGED powerVars
  <2>1. ASSUME NEW n \in Repeaters, NEW b \in UnderWay'
        PROVE  KnowsNow(n, b) => KnowsNow(n, b)'
    BY <1>2, <2>1 DEF KnowsNow, StillKnown, powerVars
  <2>2. outages' = outages
    BY <1>2 DEF powerVars
  <2>3. ASSUME NEW n \in Repeaters, NEW b \in UnderWay'
        PROVE  Lives(n, b) <= Lives(n, b)'
    BY <1>1, <2>1, <2>2, <2>3 DEF Lives
  <2> QED
    BY <1>1, <2>2, <2>3 DEF LivesGrow
<1>3. ASSUME NEW m \in Nodes, PowerLoss(m) PROVE LivesGrow
  <2>1. /\ m \in MayFail /\ alive' = alive \ {m} /\ outages' = outages + 1
        /\ UNCHANGED tables
    BY <1>3 DEF PowerLoss
  <2>2. ASSUME NEW n \in Repeaters, NEW b \in UnderWay'
        PROVE  Lives(n, b) <= Lives(n, b)'
    <3>1. CASE n = m
      BY <1>1, <2>1, <3>1 DEF Lives
    <3>2. CASE n # m
      <4>1. KnowsNow(n, b) => KnowsNow(n, b)'
        BY <2>1, <3>2 DEF KnowsNow
      <4> QED
        BY <1>1, <2>1, <4>1 DEF Lives
    <3> QED
      BY <3>1, <3>2
  <2> QED
    BY <1>1, <2>1, <2>2 DEF LivesGrow
<1>4. ASSUME NEW m \in Nodes, Boot(m) PROVE LivesGrow
  <2>1. /\ m \notin alive /\ alive' = alive \cup {m} /\ outages' = outages
        /\ tables' = [tables EXCEPT ![m] = EmptyTables]
    BY <1>4 DEF Boot
  <2>2. ASSUME NEW n \in Repeaters, NEW b \in UnderWay'
        PROVE  Lives(n, b) <= Lives(n, b)'
    <3>1. n # m => tables'[n] = tables[n]
      BY <1>1, <2>1 DEF TypeOK
    <3>2. KnowsNow(n, b) => KnowsNow(n, b)'
      BY <2>1, <3>1 DEF KnowsNow
    <3> QED
      BY <1>1, <2>1, <3>2 DEF Lives
  <2> QED
    BY <1>1, <2>1, <2>2 DEF LivesGrow
<1>5. ASSUME NEW n \in Nodes, Receive(n) PROVE UNCHANGED powerVars
  BY <1>5 DEF Receive, ForwardDirect, IgnoreSeen, PassOn, GroupTextArrives, TextForMe,
              PathForMe, AckArrives
<1>6. App => UNCHANGED powerVars
  BY DEF App, SendMessage, SendGroupMessage, ResetPathTo
<1> QED
  BY <1>2, <1>3, <1>4, <1>5, <1>6 DEF Next, Power, SaveContacts, Transmit, Miss, vars

LEMMA FloodsRest ==
  ASSUME FramesUnderWay' \subseteq FramesUnderWay
  PROVE  FloodsGrow
BY DEF FloodsGrow

(* New floods have not been passed on by anybody; direct frames are none.  *)
LEMMA FloodsBegin ==
  ASSUME TypeOK, NEW n \in Nodes, NEW F, air' \subseteq air, Enqueue(n, F),
         \A g \in F : isRouteFlood(g) => g.path = <<>>
  PROVE  FloodsGrow
<1>1. \A f \in FramesUnderWay' : f \in FramesUnderWay \/ f \in F
  BY WorkSends
<1> QED
  BY <1>1 DEF FloodsGrow

LEMMA FloodsArePassedOn ==
  ASSUME TypeOK, NEW n \in Nodes, NEW f, Works(n, f), alive' = alive,
         ~hasSeen(tables[n], DirectKey(f.body)),
         NewTables(n, Seen(tables[n], DirectKey(f.body))),
         Enqueue(n, routeRecvPacket(n, f))
  PROVE  FloodsGrow
<1>1. /\ f \in Frames /\ f.body \in Bodies /\ f \in FramesUnderWay
      /\ tables \in [Nodes -> NodeTables] /\ air' \subseteq air /\ n \in alive
  BY WorksTyped, HeardIsUnderWay, TablesTyped DEF Works
<1>2. hasSeen(tables'[n], DirectKey(f.body))
  <2>1. tables'[n] = Seen(tables[n], DirectKey(f.body))
    BY <1>1 DEF NewTables
  <2> QED
    BY <1>1, <2>1, DirectKeyTyped, SeenIsKnown
<1>3. ASSUME NEW g \in routeRecvPacket(n, f)
      PROVE  n \in Repeaters /\ ExtendedBy(n, f, g)
  <2>1. /\ isRouteFlood(f) /\ n \in Repeaters
        /\ g = [f EXCEPT !.path = Append(@, HashOf[n])]
    BY <1>3 DEF routeRecvPacket, allowPacketForward
  <2>2. g.body = f.body /\ g.path = Append(f.path, HashOf[n])
    BY <1>1, <2>1 DEF Frames
  <2> QED
    BY <1>1, <1>2, <2>1, <2>2 DEF ExtendedBy
<1>4. \A g \in FramesUnderWay' : g \in FramesUnderWay \/ g \in routeRecvPacket(n, f)
  BY <1>1, WorkSends
<1> QED
  BY <1>1, <1>3, <1>4 DEF FloodsGrow

LEMMA ForwardedAreDirect ==
  ASSUME NEW f \in Frames, isRouteDirect(f), NEW g \in Forwarded(f)
  PROVE  ~isRouteFlood(g)
<1>1. CASE f.body.type \in {"ACK", "MULTI"}
  BY <1>1 DEF Forwarded, routeDirectRecvAcks, Direct, isRouteFlood
<1>2. CASE f.body.type \notin {"ACK", "MULTI"}
  BY <1>2 DEF Forwarded, Frames, isRouteFlood, isRouteDirect
<1> QED
  BY <1>1, <1>2

LEMMA ReceiveGrowsFloods ==
  ASSUME TypeOK, NEW n \in Nodes, Receive(n)
  PROVE  FloodsGrow
<1>1. PICK f :
        \/ ForwardDirect(n, f) \/ IgnoreSeen(n, f) \/ PassOn(n, f)
        \/ GroupTextArrives(n, f) \/ TextForMe(n, f) \/ PathForMe(n, f)
        \/ AckArrives(n, f)
  BY DEF Receive
<1>2. Works(n, f) /\ alive' = alive
  BY <1>1 DEF ForwardDirect, IgnoreSeen, PassOn, GroupTextArrives, TextForMe,
              PathForMe, AckArrives, Arrives, powerVars
<1>3. f \in Frames /\ air' \subseteq air
  BY <1>2, WorksTyped
<1>4. ASSUME UNCHANGED outq PROVE FloodsGrow
  BY <1>3, <1>4, IdleSends, FloodsRest
<1>5. CASE ForwardDirect(n, f)
  <2>1. UNCHANGED outq \/ Enqueue(n, Forwarded(f))
    BY <1>5 DEF ForwardDirect
  <2>2. isRouteDirect(f)
    BY <1>5 DEF ForwardDirect, OnTheWay
  <2> QED
    BY <1>3, <1>4, <2>1, <2>2, ForwardedAreDirect, FloodsBegin
<1>6. CASE IgnoreSeen(n, f)
  BY <1>4, <1>6 DEF IgnoreSeen
<1>7. CASE PassOn(n, f) \/ GroupTextArrives(n, f)
  <2>1. /\ f.body.type # "MULTI" /\ ~hasSeen(tables[n], DirectKey(f.body))
        /\ NewTables(n, Seen(tables[n], f.body))
        /\ Enqueue(n, routeRecvPacket(n, f))
    BY <1>7 DEF PassOn, GroupTextArrives, Arrives
  <2>2. DirectKey(f.body) = f.body
    BY <2>1 DEF DirectKey
  <2> QED
    BY <1>2, <2>1, <2>2, FloodsArePassedOn
<1>8. CASE AckArrives(n, f)
  <2>1. /\ ~hasSeen(tables[n], DirectKey(f.body))
        /\ NewTables(n, Seen(tables[n], DirectKey(f.body)))
    BY <1>8 DEF AckArrives, Arrives
  <2>2. UNCHANGED outq \/ Enqueue(n, routeRecvPacket(n, f))
    BY <1>8, ExpectedAckSendsNothing DEF AckArrives, UnexpectedAck
  <2> QED
    BY <1>2, <1>4, <2>1, <2>2, FloodsArePassedOn
<1>9. CASE TextForMe(n, f)
  <2> DEFINE path == outPath[n][f.body.from]
             code == AckCodeOf(f.body)
             answer == Flood(PathWithAck(f), <<>>)
  <2>1. Enqueue(n, {answer}) \/ Enqueue(n, AcksTo(path, code))
    BY <1>9 DEF TextForMe
  <2>2. answer.path = <<>>
    BY DEF Flood
  <2>3. \A g \in AcksTo(path, code) : isRouteFlood(g) => g.path = <<>>
    BY DEF AcksTo, Flood, Direct, isRouteFlood
  <2> HIDE DEF path, code, answer
  <2> QED
    BY <1>3, <2>1, <2>2, <2>3, FloodsBegin
<1>10. CASE PathForMe(n, f)
  <2> DEFINE answer == Direct(Reciprocal(f), OutPathIn(f))
  <2>1. Enqueue(n, {answer}) \/ UNCHANGED outq
    BY <1>10 DEF PathForMe
  <2>2. ~isRouteFlood(answer)
    BY DEF Direct, isRouteFlood
  <2> HIDE DEF answer
  <2> QED
    BY <1>3, <1>4, <2>1, <2>2, FloodsBegin
<1> QED
  BY <1>1, <1>5, <1>6, <1>7, <1>8, <1>9, <1>10

LEMMA StepGrowsFloods ==
  ASSUME TypeOK, [Next]_vars
  PROVE  FloodsGrow
<1>1. ASSUME NEW m \in Messages, SendMessage(m) PROVE FloodsGrow
  <2> DEFINE body == TextOf(m, attempts[m])
             path == outPath[m.from][m.to]
             f    == IF path = NoPath THEN Flood(body, <<>>) ELSE Direct(body, path)
  <2>1. Enqueue(m.from, {f}) /\ UNCHANGED air /\ m.from \in Nodes
    BY <1>1, NetworkAssumption DEF SendMessage
  <2>2. isRouteFlood(f) => f.path = <<>>
    BY DEF Flood, Direct, isRouteFlood
  <2> HIDE DEF body, path, f
  <2> QED
    BY <2>1, <2>2, FloodsBegin
<1>2. ASSUME NEW g \in GroupMessages, SendGroupMessage(g) PROVE FloodsGrow
  <2> DEFINE f == Flood(GroupText(g.from, g.text), <<>>)
  <2>1. Enqueue(g.from, {f}) /\ UNCHANGED air /\ g.from \in Nodes
    BY <1>2, NetworkAssumption DEF SendGroupMessage
  <2>2. f.path = <<>>
    BY DEF Flood
  <2> HIDE DEF f
  <2> QED
    BY <2>1, <2>2, FloodsBegin
<1>3. ASSUME UNCHANGED outq, air' \subseteq air PROVE FloodsGrow
  BY <1>3, IdleSends, FloodsRest
<1>4. ASSUME NEW n \in Nodes, Miss(n) PROVE FloodsGrow
  BY <1>3, <1>4 DEF Miss
<1>5. App => FloodsGrow
  BY <1>1, <1>2, <1>3 DEF App, ResetPathTo
<1>6. CASE UNCHANGED vars
  BY <1>3, <1>6 DEF vars
<1> QED
  BY <1>4, <1>5, <1>6, ReceiveGrowsFloods, TransmitMoves, PowerMovesNothing,
     FloodsRest DEF Next

LEMMA InitCircle == Init => CircleInv
<1> SUFFICES ASSUME Init PROVE FramesUnderWay = {}
  BY InitTyped DEF CircleInv
<1> QED
  BY DEF Init, FramesUnderWay

(***************************************************************************)
(* No repeater passes the same flood on twice in one life, so that floods  *)
(* do not go round in circles - where no two repeaters have the same hash, *)
(* and as long as no repeater that has power forgets a packet of which a   *)
(* copy is still under way (hasSeen before routeRecvPacket).               *)
(***************************************************************************)
THEOREM FloodsNeverCircle ==
  ASSUME RepeatersDiffer
  PROVE  Spec /\ [][\A n \in Repeaters \cap alive : StillKnown(n)]_vars
           => []FloodsDoNotCircle
<1>1. /\ CircleInv /\ [Next]_vars
      /\ [\A n \in Repeaters \cap alive : StillKnown(n)]_vars
      => CircleInv'
  <2> SUFFICES ASSUME CircleInv, [Next]_vars,
                      [\A n \in Repeaters \cap alive : StillKnown(n)]_vars
               PROVE  CircleInv'
    OBVIOUS
  <2>1. \A n \in Repeaters \cap alive : StillKnown(n)
    <3>1. UNCHANGED vars => UNCHANGED tables
      BY DEF vars
    <3> QED
      BY <3>1 DEF StillKnown
  <2> QED
    BY <2>1, StepTyped, StepGrowsFloods, LivesGoOn, CircleKept DEF CircleInv
<1>2. CircleInv => FloodsDoNotCircle
  <2> SUFFICES ASSUME CircleInv, NEW h \in air, isRouteFlood(h[2]), NEW n \in Repeaters
               PROVE  Passes(n, h[2].path) <= LivesOf(n)
    BY DEF FloodsDoNotCircle
  <2>1. h[2] \in FramesUnderWay
    BY DEF FramesUnderWay
  <2>2. Passes(n, h[2].path) <= Lives(n, h[2].body)
    BY <2>1 DEF CircleInv, PassesAccounted
  <2>3. outages \in Nat /\ h[2].path \in Paths /\ HashOf[n] \in Hashes
    <3>1. outages \in Nat
      BY NetworkAssumption DEF CircleInv, TypeOK
    <3>2. h[2].path \in Paths
      BY <2>1, FramesTyped DEF CircleInv
    <3>3. HashOf[n] \in Hashes
      BY NetworkAssumption DEF Hashes
    <3> QED
      BY <3>1, <3>2, <3>3
  <2>4. Passes(n, h[2].path) \in Nat
    BY <2>3, PassesAppended
  <2>5. Lives(n, h[2].body) \in Nat /\ LivesOf(n) \in Nat
        /\ Lives(n, h[2].body) <= LivesOf(n)
    BY <2>3 DEF Lives, LivesOf
  <2> QED
    BY <2>2, <2>4, <2>5
<1> QED
  BY <1>1, <1>2, InitCircle, PTL DEF Spec

(***************************************************************************)
(* And floods do not go round in circles while no table is full, whatever  *)
(* nodes fail.                                                             *)
(***************************************************************************)
THEOREM FloodsNeverCircleUntilFull ==
  ASSUME RepeatersDiffer
  PROVE  Spec /\ []NoTableFull => []FloodsDoNotCircle
<1>1. TypeOK /\ [Next]_vars /\ NoTableFull'
        => [\A n \in Repeaters \cap alive : StillKnown(n)]_vars
  BY RoomMeansStillKnown
<1>2. Spec /\ [][\A n \in Repeaters \cap alive : StillKnown(n)]_vars
        => []FloodsDoNotCircle
  BY FloodsNeverCircle
<1> QED
  BY <1>1, <1>2, InitTyped, StepTyped, PTL DEF Spec

------------------------------------------------------------------------------
(***************************************************************************)
(* Deliveries and their acknowledgements: an ACK code is made only where   *)
(* the text has been delivered, and it is passed on, wrapped and unwrapped *)
(* without ever becoming another one; and the app is given each packet     *)
(* only once.                                                              *)
(***************************************************************************)
(* A client has given its app a text that this code acknowledges. *)
Delivered(from, text) ==
  \E c \in Clients : \E b \in Range(inbox[c]) :
    b.type = "TXT" /\ b.from = from /\ b.text = text

(* No body carries a code before that. *)
IsEarned(b) ==
  /\ b.type \in {"ACK", "MULTI"} => Delivered(b.code.from, b.code.text)
  /\ b.type = "PATH" /\ b.extra # NoAck
       => Delivered(b.extra.from, b.extra.text)

CodesAreEarned ==
  /\ \A n \in Nodes : \A f \in outq[n] : IsEarned(f.body)
  /\ \A h \in air : IsEarned(h[2].body)

ExpectsItsOwn ==
  \A n \in Clients : \A i \in Slots :
    expected[n][i] # NoEntry => expected[n][i].from = n

(***************************************************************************)
(* The inductive invariant: AckProvesReceipt holds only because no code is *)
(* under way that was not earned, and a client expects only its own texts. *)
(***************************************************************************)
AckInv == TypeOK /\ CodesAreEarned /\ ExpectsItsOwn /\ AckProvesReceipt

InboxesGrow == \A c \in Clients : Range(inbox[c]) \subseteq Range(inbox'[c])

------------------------------------------------------------------------------
(* What has been delivered stays delivered. *)
LEMMA RangeGrows ==
  ASSUME NEW S, NEW s \in Seq(S), NEW x \in S
  PROVE  Range(s) \subseteq Range(Append(s, x)) /\ x \in Range(Append(s, x))
<1>1. /\ \A i \in DOMAIN s : i \in DOMAIN Append(s, x) /\ Append(s, x)[i] = s[i]
      /\ Len(s) + 1 \in DOMAIN Append(s, x) /\ Append(s, x)[Len(s) + 1] = x
  BY AppendProperties, LenProperties
<1> QED
  BY <1>1 DEF Range

LEMMA InboxAppended ==
  ASSUME TypeOK, NEW n \in Clients, NEW b \in Bodies,
         inbox' = [inbox EXCEPT ![n] = Append(@, b)]
  PROVE  InboxesGrow /\ b \in Range(inbox'[n])
<1>1. inbox \in [Clients -> Seq(Bodies)]
  BY DEF TypeOK
<1>2. Range(inbox[n]) \subseteq Range(Append(inbox[n], b))
      /\ b \in Range(Append(inbox[n], b))
  BY <1>1, RangeGrows
<1>3. \A c \in Clients : c # n => inbox'[c] = inbox[c]
  BY <1>1
<1>4. inbox'[n] = Append(inbox[n], b)
  BY <1>1
<1> QED
  BY <1>2, <1>3, <1>4 DEF InboxesGrow

LEMMA InboxKept == ASSUME UNCHANGED inbox PROVE InboxesGrow
BY DEF InboxesGrow

LEMMA DeliveredStays ==
  ASSUME InboxesGrow, NEW from, NEW text, Delivered(from, text)
  PROVE  Delivered(from, text)'
BY DEF InboxesGrow, Delivered

LEMMA EarnedStays ==
  ASSUME InboxesGrow, NEW b, IsEarned(b)
  PROVE  IsEarned(b)'
BY DeliveredStays DEF IsEarned

LEMMA ReceiptStays ==
  ASSUME AckProvesReceipt, InboxesGrow, UNCHANGED confirmed
  PROVE  AckProvesReceipt'
<1>1. \A n \in Clients : \A e \in confirmed[n] : Delivered(n, e.text)
  BY DEF AckProvesReceipt, Delivered
<1>2. \A n \in Clients : \A e \in confirmed'[n] : Delivered(n, e.text)'
  BY <1>1, DeliveredStays
<1> QED
  BY <1>2 DEF AckProvesReceipt, Delivered

LEMMA ExpectationsStay ==
  ASSUME ExpectsItsOwn, UNCHANGED expected
  PROVE  ExpectsItsOwn'
BY DEF ExpectsItsOwn

------------------------------------------------------------------------------
(* Frames in queues and in the air. *)
LEMMA QueuedStaysEarned ==
  ASSUME TypeOK, CodesAreEarned, InboxesGrow, NEW n \in Nodes, NEW F,
         air' \subseteq air, Enqueue(n, F), \A g \in F : IsEarned(g.body)'
  PROVE  CodesAreEarned'
<1>1. \A m \in Nodes : \A g \in outq'[m] : g \in outq[m] \/ g \in F
  BY DEF Enqueue, TypeOK
<1>2. \A m \in Nodes : \A g \in outq'[m] : IsEarned(g.body)'
  BY <1>1, EarnedStays DEF CodesAreEarned
<1>3. \A h \in air' : IsEarned(h[2].body)'
  BY EarnedStays DEF CodesAreEarned
<1> QED
  BY <1>2, <1>3 DEF CodesAreEarned

LEMMA IdleStaysEarned ==
  ASSUME CodesAreEarned, InboxesGrow, air' \subseteq air,
         \A m \in Nodes : outq'[m] \subseteq outq[m]
  PROVE  CodesAreEarned'
<1>1. \A m \in Nodes : \A g \in outq'[m] : IsEarned(g.body)'
  BY EarnedStays DEF CodesAreEarned
<1>2. \A h \in air' : IsEarned(h[2].body)'
  BY EarnedStays DEF CodesAreEarned
<1> QED
  BY <1>1, <1>2 DEF CodesAreEarned

LEMMA HeardIsEarned ==
  ASSUME TypeOK, CodesAreEarned, NEW n \in Nodes, NEW f, Works(n, f)
  PROVE  IsEarned(f.body) /\ f \in Frames /\ f.body \in Bodies /\ air' \subseteq air
<1>1. <<n, f>> \in air
  BY DEF Works
<1> QED
  BY <1>1, WorksTyped DEF CodesAreEarned

(* Passing a flood on, or a direct packet, changes no code. *)
LEMMA PassedOnIsEarned ==
  ASSUME NEW n, NEW f \in Frames, IsEarned(f.body), InboxesGrow,
         NEW g \in routeRecvPacket(n, f)
  PROVE  IsEarned(g.body)'
<1>1. g.body = f.body
  BY DEF routeRecvPacket, Frames
<1> QED
  BY <1>1, EarnedStays

LEMMA ForwardedIsEarned ==
  ASSUME NEW f \in Frames, IsEarned(f.body), InboxesGrow, NEW g \in Forwarded(f)
  PROVE  IsEarned(g.body)'
<1>1. CASE f.body.type \in {"ACK", "MULTI"}
  <2>1. g.body.type \in {"ACK", "MULTI"} /\ g.body.code = f.body.code
    BY <1>1 DEF Forwarded, routeDirectRecvAcks, Direct, Ack, MultiAck
  <2>2. Delivered(f.body.code.from, f.body.code.text)
    BY <1>1 DEF IsEarned
  <2>3. IsEarned(g.body)
    BY <2>1, <2>2 DEF IsEarned
  <2> QED
    BY <2>3, EarnedStays
<1>2. CASE f.body.type \notin {"ACK", "MULTI"}
  <2>1. g.body = f.body
    BY <1>2 DEF Forwarded, Frames
  <2> QED
    BY <2>1, EarnedStays
<1> QED
  BY <1>1, <1>2

(***************************************************************************)
(* processAck(): the text that is taken to be confirmed is the client's    *)
(* own, and has been delivered.                                            *)
(***************************************************************************)
LEMMA ProcessAckProves ==
  ASSUME AckInv, InboxesGrow, NEW n \in Clients, NEW c, ProcessAck(n, c),
         c # NoAck => Delivered(c.from, c.text)
  PROVE  AckProvesReceipt' /\ ExpectsItsOwn'
<1>1. CASE c # NoAck /\ Matching(n, c) # {}
  <2> DEFINE i == FirstOf(Matching(n, c))
             e == expected[n][i]
  <2>1. i \in Slots /\ e # NoEntry /\ AckCodeOf(e) = c
    BY <1>1, FirstIsMatching
  <2>2. /\ confirmed' = [confirmed EXCEPT ![n] = @ \cup {e}]
        /\ expected' = [expected EXCEPT ![n][i] = NoEntry]
    BY <1>1 DEF ProcessAck
  <2> HIDE DEF i
  <2>3. e.from = n /\ c.from = e.from /\ c.text = e.text
    BY <2>1 DEF AckInv, ExpectsItsOwn, AckCodeOf, AckCode
  <2> HIDE DEF e
  <2>4. Delivered(n, e.text)
    BY <1>1, <2>3
  <2>5. \A m \in Clients : \A d \in confirmed'[m] : d \in confirmed[m] \/ (m = n /\ d = e)
    BY <2>2 DEF AckInv, TypeOK
  <2>6. \A m \in Clients : \A d \in confirmed[m] : Delivered(m, d.text)
    BY DEF AckInv, AckProvesReceipt, Delivered
  <2>7. \A m \in Clients : \A d \in confirmed'[m] : Delivered(m, d.text)'
    BY <2>4, <2>5, <2>6, DeliveredStays
  <2>8. AckProvesReceipt'
    BY <2>7 DEF AckProvesReceipt, Delivered
  <2>9. \A m \in Clients : \A j \in Slots :
          expected'[m][j] \in {expected[m][j], NoEntry}
    BY <2>1, <2>2 DEF AckInv, TypeOK
  <2>10. ExpectsItsOwn'
    BY <2>9 DEF AckInv, ExpectsItsOwn
  <2> QED
    BY <2>8, <2>10
<1>2. CASE ~(c # NoAck /\ Matching(n, c) # {})
  <2>1. UNCHANGED <<confirmed, expected>>
    BY <1>2 DEF ProcessAck
  <2> QED
    BY <2>1, ReceiptStays, ExpectationsStay DEF AckInv
<1> QED
  BY <1>1, <1>2

------------------------------------------------------------------------------
(* One lemma per step. *)
LEMMA PassingOnKeepsAcks ==
  ASSUME AckInv, InboxesGrow, NEW n \in Nodes, NEW f,
         Works(n, f), Enqueue(n, routeRecvPacket(n, f)),
         UNCHANGED <<expected, confirmed>>
  PROVE  CodesAreEarned' /\ ExpectsItsOwn' /\ AckProvesReceipt'
<1>1. IsEarned(f.body) /\ f \in Frames /\ air' \subseteq air
  BY HeardIsEarned DEF AckInv
<1>2. \A g \in routeRecvPacket(n, f) : IsEarned(g.body)'
  BY <1>1, PassedOnIsEarned
<1> QED
  BY <1>1, <1>2, QueuedStaysEarned, ReceiptStays, ExpectationsStay DEF AckInv

LEMMA ForwardDirectKeepsAcks ==
  ASSUME AckInv, NEW n \in Nodes, NEW f, ForwardDirect(n, f)
  PROVE  CodesAreEarned' /\ ExpectsItsOwn' /\ AckProvesReceipt'
<1>1. Works(n, f) /\ UNCHANGED <<expected, confirmed>> /\ InboxesGrow
  BY InboxKept DEF ForwardDirect, chatVars
<1>2. IsEarned(f.body) /\ f \in Frames /\ air' \subseteq air
  BY <1>1, HeardIsEarned DEF AckInv
<1>3. CASE IsNextHop(n, f) /\ ~hasSeen(tables[n], DirectKey(f.body))
  <2>1. Enqueue(n, Forwarded(f))
    BY <1>3 DEF ForwardDirect
  <2>2. \A g \in Forwarded(f) : IsEarned(g.body)'
    BY <1>1, <1>2, ForwardedIsEarned
  <2> QED
    BY <1>1, <1>2, <2>1, <2>2, QueuedStaysEarned, ReceiptStays,
       ExpectationsStay DEF AckInv
<1>4. CASE ~(IsNextHop(n, f) /\ ~hasSeen(tables[n], DirectKey(f.body)))
  <2>1. \A m \in Nodes : outq'[m] \subseteq outq[m]
    BY <1>4 DEF ForwardDirect
  <2> QED
    BY <1>1, <1>2, <2>1, IdleStaysEarned, ReceiptStays, ExpectationsStay
       DEF AckInv
<1> QED
  BY <1>3, <1>4

LEMMA GroupTextKeepsAcks ==
  ASSUME AckInv, NEW n \in Nodes, NEW f, GroupTextArrives(n, f)
  PROVE  CodesAreEarned' /\ ExpectsItsOwn' /\ AckProvesReceipt'
<1>1. Works(n, f) /\ Enqueue(n, routeRecvPacket(n, f)) /\ UNCHANGED <<expected, confirmed>>
  BY DEF GroupTextArrives, Arrives
<1>2. f.body \in Bodies
  BY <1>1, HeardIsEarned DEF AckInv
<1>3. InboxesGrow
  <2>1. CASE n \in Clients
    <3>1. inbox' = [inbox EXCEPT ![n] = Append(@, f.body)]
      BY <2>1 DEF GroupTextArrives
    <3> QED
      BY <1>2, <2>1, <3>1, InboxAppended DEF AckInv
  <2>2. CASE n \notin Clients
    BY <2>2, InboxKept DEF GroupTextArrives
  <2> QED
    BY <2>1, <2>2
<1> QED
  BY <1>1, <1>3, PassingOnKeepsAcks

LEMMA TextForMeKeepsAcks ==
  ASSUME AckInv, NEW n \in Nodes, NEW f, TextForMe(n, f)
  PROVE  CodesAreEarned' /\ ExpectsItsOwn' /\ AckProvesReceipt'
<1> DEFINE path == outPath[n][f.body.from]
           code == AckCodeOf(f.body)
<1>1. /\ Works(n, f) /\ f.body.type = "TXT" /\ f.body.to = n
      /\ UNCHANGED <<expected, confirmed>>
      /\ inbox' = [inbox EXCEPT ![n] = Append(@, f.body)]
  BY DEF TextForMe, Arrives
<1>2. f.body \in Bodies /\ air' \subseteq air
  BY <1>1, HeardIsEarned DEF AckInv
<1>3. n \in Clients
  BY <1>1, <1>2, TextIsText
<1>4. InboxesGrow /\ f.body \in Range(inbox'[n])
  BY <1>1, <1>2, <1>3, InboxAppended DEF AckInv
<1>5. Delivered(f.body.from, f.body.text)'
  BY <1>1, <1>3, <1>4 DEF Delivered
<1>6. code.from = f.body.from /\ code.text = f.body.text
  BY DEF AckCodeOf, AckCode
<1> HIDE DEF code
<1>7. PICK F : Enqueue(n, F) /\ \A g \in F : IsEarned(g.body)'
  <2>1. CASE isRouteFlood(f)
    <3> DEFINE answer == Flood(PathWithAck(f), <<>>)
    <3>1. Enqueue(n, {answer})
      BY <2>1 DEF TextForMe
    <3>2. answer.body.type = "PATH" /\ answer.body.extra = code
      BY DEF Flood, PathWithAck, PathReturn, code
    <3> HIDE DEF answer
    <3>3. IsEarned(answer.body)'
      BY <1>5, <1>6, <3>2 DEF IsEarned
    <3> QED
      BY <3>1, <3>3
  <2>2. CASE ~isRouteFlood(f)
    <3>1. Enqueue(n, AcksTo(path, code))
      BY <2>2 DEF TextForMe, code
    <3>2. \A g \in AcksTo(path, code) :
            g.body.type \in {"ACK", "MULTI"} /\ g.body.code = code
      BY DEF AcksTo, Flood, Direct, Ack, MultiAck
    <3>3. \A g \in AcksTo(path, code) : IsEarned(g.body)'
      BY <1>5, <1>6, <3>2 DEF IsEarned
    <3> QED
      BY <3>1, <3>3
  <2> QED
    BY <2>1, <2>2
<1> QED
  BY <1>1, <1>2, <1>4, <1>7, QueuedStaysEarned, ReceiptStays, ExpectationsStay
     DEF AckInv

LEMMA PathForMeKeepsAcks ==
  ASSUME AckInv, NEW n \in Nodes, NEW f, PathForMe(n, f)
  PROVE  CodesAreEarned' /\ ExpectsItsOwn' /\ AckProvesReceipt'
<1> DEFINE answer == Direct(Reciprocal(f), OutPathIn(f))
<1>1. /\ Works(n, f) /\ f.body.type = "PATH" /\ f.body.to = n
      /\ ProcessAck(n, f.body.extra) /\ InboxesGrow
  BY InboxKept DEF PathForMe, Arrives
<1>2. IsEarned(f.body) /\ f.body \in Bodies /\ air' \subseteq air
  BY <1>1, HeardIsEarned DEF AckInv
<1>3. n \in Clients
  BY <1>1, <1>2, PathHasParts
<1>4. f.body.extra # NoAck => Delivered(f.body.extra.from, f.body.extra.text)
  BY <1>1, <1>2 DEF IsEarned
<1>5. AckProvesReceipt' /\ ExpectsItsOwn'
  BY <1>1, <1>3, <1>4, ProcessAckProves
<1>6. CASE isRouteFlood(f)
  <2>1. PICK g : g = answer
    OBVIOUS
  <2>2. Enqueue(n, {g})
    BY <1>6, <2>1 DEF PathForMe
  <2>3. IsEarned(g.body)'
    BY <2>1 DEF IsEarned, Direct, Reciprocal, PathReturn
  <2> QED
    BY <1>1, <1>2, <1>5, <2>2, <2>3, QueuedStaysEarned DEF AckInv
<1>7. CASE ~isRouteFlood(f)
  <2>1. \A m \in Nodes : outq'[m] \subseteq outq[m]
    BY <1>7 DEF PathForMe
  <2> QED
    BY <1>1, <1>2, <1>5, <2>1, IdleStaysEarned DEF AckInv
<1> QED
  BY <1>6, <1>7

LEMMA AckArrivesKeepsAcks ==
  ASSUME AckInv, NEW n \in Nodes, NEW f, AckArrives(n, f)
  PROVE  CodesAreEarned' /\ ExpectsItsOwn' /\ AckProvesReceipt'
<1>1. Works(n, f) /\ f.body.type \in {"ACK", "MULTI"} /\ InboxesGrow
  BY InboxKept DEF AckArrives, Arrives
<1>2. CASE ExpectedAck(n, f)
  <2>1. n \in Clients /\ UNCHANGED outq /\ ProcessAck(n, f.body.code)
    BY <1>2, ExpectedAckSendsNothing DEF AckInv
  <2>2. IsEarned(f.body) /\ air' \subseteq air
    BY <1>1, HeardIsEarned DEF AckInv
  <2>3. Delivered(f.body.code.from, f.body.code.text)
    BY <1>1, <2>2 DEF IsEarned
  <2>4. \A m \in Nodes : outq'[m] \subseteq outq[m]
    BY <2>1
  <2> QED
    BY <1>1, <2>1, <2>2, <2>3, <2>4, ProcessAckProves, IdleStaysEarned
       DEF AckInv
<1>3. CASE UnexpectedAck(n, f)
  BY <1>1, <1>3, PassingOnKeepsAcks DEF UnexpectedAck
<1> QED
  BY <1>2, <1>3 DEF AckArrives

LEMMA ReceiveKeepsAcks ==
  ASSUME AckInv, NEW n \in Nodes, Receive(n)
  PROVE  CodesAreEarned' /\ ExpectsItsOwn' /\ AckProvesReceipt'
<1>1. PICK f :
        \/ ForwardDirect(n, f) \/ IgnoreSeen(n, f) \/ PassOn(n, f)
        \/ GroupTextArrives(n, f) \/ TextForMe(n, f) \/ PathForMe(n, f)
        \/ AckArrives(n, f)
  BY DEF Receive
<1>2. CASE IgnoreSeen(n, f)
  <2>1. UNCHANGED <<outq, expected, confirmed, inbox>> /\ air' \subseteq air
    BY <1>2 DEF IgnoreSeen, Works, chatVars
  <2>2. \A m \in Nodes : outq'[m] \subseteq outq[m]
    BY <2>1
  <2> QED
    BY <2>1, <2>2, InboxKept, IdleStaysEarned, ReceiptStays, ExpectationsStay
       DEF AckInv
<1>3. CASE PassOn(n, f)
  BY <1>3, InboxKept, PassingOnKeepsAcks DEF PassOn, Arrives, chatVars
<1> QED
  BY <1>1, <1>2, <1>3, ForwardDirectKeepsAcks, GroupTextKeepsAcks,
     TextForMeKeepsAcks, PathForMeKeepsAcks, AckArrivesKeepsAcks

LEMMA AppKeepsAcks ==
  ASSUME AckInv, App
  PROVE  CodesAreEarned' /\ ExpectsItsOwn' /\ AckProvesReceipt'
<1>1. ASSUME NEW m \in Messages, SendMessage(m)
      PROVE  CodesAreEarned' /\ ExpectsItsOwn' /\ AckProvesReceipt'
  <2> DEFINE n    == m.from
             body == TextOf(m, attempts[m])
             path == outPath[n][m.to]
             f    == IF path = NoPath THEN Flood(body, <<>>) ELSE Direct(body, path)
  <2>1. PICK g, text : g = f /\ text = body
    OBVIOUS
  <2>2. /\ Enqueue(n, {g}) /\ UNCHANGED <<air, inbox, confirmed>>
        /\ expected' = [expected EXCEPT ![n][nextAck[n]] = text]
    BY <1>1, <2>1 DEF SendMessage
  <2>3. n \in Nodes /\ text.from = n /\ g.body.type = "TXT"
    BY <2>1, NetworkAssumption DEF Flood, Direct, TextOf, Text
  <2>4. IsEarned(g.body)'
    BY <2>3 DEF IsEarned
  <2>5. \A k \in Clients : \A i \in Slots :
          expected'[k][i] = expected[k][i] \/ (k = n /\ expected'[k][i] = text)
    BY <2>2 DEF AckInv, TypeOK
  <2>6. ExpectsItsOwn'
    BY <2>3, <2>5 DEF AckInv, ExpectsItsOwn
  <2> QED
    BY <2>2, <2>3, <2>4, <2>6, InboxKept, QueuedStaysEarned, ReceiptStays
       DEF AckInv
<1>2. ASSUME NEW g \in GroupMessages, SendGroupMessage(g)
      PROVE  CodesAreEarned' /\ ExpectsItsOwn' /\ AckProvesReceipt'
  <2> DEFINE f == Flood(GroupText(g.from, g.text), <<>>)
  <2>1. Enqueue(g.from, {f}) /\ UNCHANGED <<air, inbox, confirmed, expected>>
    BY <1>2 DEF SendGroupMessage, chatVars
  <2>2. g.from \in Nodes /\ f.body.type = "GRP"
    BY NetworkAssumption DEF Flood, GroupText
  <2> HIDE DEF f
  <2>3. IsEarned(f.body)'
    BY <2>2 DEF IsEarned
  <2> QED
    BY <2>1, <2>2, <2>3, InboxKept, QueuedStaysEarned, ReceiptStays,
       ExpectationsStay DEF AckInv
<1>3. ASSUME NEW n \in Clients, NEW c \in Clients, ResetPathTo(n, c)
      PROVE  CodesAreEarned' /\ ExpectsItsOwn' /\ AckProvesReceipt'
  <2>1. UNCHANGED <<outq, air, inbox, confirmed, expected>>
    BY <1>3 DEF ResetPathTo
  <2> QED
    BY <2>1, InboxKept, IdleStaysEarned, ReceiptStays, ExpectationsStay
       DEF AckInv
<1> QED
  BY <1>1, <1>2, <1>3 DEF App

LEMMA TransmitKeepsAcks ==
  ASSUME AckInv, NEW n \in Nodes, Transmit(n)
  PROVE  CodesAreEarned' /\ ExpectsItsOwn' /\ AckProvesReceipt'
<1>1. PICK f \in outq[n] :
        /\ outq' = [outq EXCEPT ![n] = @ \ {f}]
        /\ air' = air \cup {<<r, f>> : r \in Hearers(n)}
        /\ UNCHANGED <<inbox, confirmed, expected>>
  BY DEF Transmit, chatVars
<1>2. InboxesGrow
  BY <1>1, InboxKept
<1>3. \A h \in air' : IsEarned(h[2].body)
  BY <1>1 DEF AckInv, CodesAreEarned
<1>4. \A m \in Nodes : \A g \in outq'[m] : IsEarned(g.body)
  <2>1. \A m \in Nodes : outq'[m] \subseteq outq[m]
    BY <1>1 DEF AckInv, TypeOK
  <2> QED
    BY <2>1 DEF AckInv, CodesAreEarned
<1>5. CodesAreEarned'
  BY <1>2, <1>3, <1>4, EarnedStays DEF CodesAreEarned
<1> QED
  BY <1>1, <1>2, <1>5, ReceiptStays, ExpectationsStay DEF AckInv

LEMMA PowerKeepsAcks ==
  ASSUME AckInv, Power
  PROVE  CodesAreEarned' /\ ExpectsItsOwn' /\ AckProvesReceipt'
<1>1. /\ InboxesGrow /\ UNCHANGED confirmed
  BY InboxKept DEF Power, SaveContacts, PowerLoss, Boot, chatVars
<1>2. CodesAreEarned'
  <2>1. air' \subseteq air /\ \A m \in Nodes : outq'[m] \subseteq outq[m]
    BY DEF Power, SaveContacts, PowerLoss, Boot, AckInv, TypeOK
  <2> QED
    BY <1>1, <2>1, IdleStaysEarned DEF AckInv
<1>3. ExpectsItsOwn'
  <2>1. \A k \in Clients : \A i \in Slots :
          expected'[k][i] \in {expected[k][i], NoEntry}
    <3>1. ASSUME NEW n \in Nodes, Boot(n)
          PROVE  \A k \in Clients : \A i \in Slots :
                   expected'[k][i] \in {expected[k][i], NoEntry}
      <4>1. \/ expected' = [expected EXCEPT ![n] = NoExpectations]
            \/ UNCHANGED expected
        BY <3>1 DEF Boot
      <4>2. \A k \in Clients : expected'[k] \in {expected[k], NoExpectations}
        BY <4>1 DEF AckInv, TypeOK
      <4> QED
        BY <4>2 DEF NoExpectations
    <3>2. Power => UNCHANGED expected \/ \E n \in Nodes : Boot(n)
      BY DEF Power, SaveContacts, PowerLoss, chatVars
    <3> QED
      BY <3>1, <3>2
  <2> QED
    BY <2>1 DEF AckInv, ExpectsItsOwn
<1> QED
  BY <1>1, <1>2, <1>3, ReceiptStays DEF AckInv

------------------------------------------------------------------------------
(* The theorem. *)
LEMMA InitEarned == Init => AckInv
<1> SUFFICES ASSUME Init PROVE CodesAreEarned /\ ExpectsItsOwn /\ AckProvesReceipt
  BY InitTyped DEF AckInv
<1> QED
  BY DEF Init, CodesAreEarned, ExpectsItsOwn, AckProvesReceipt, NoExpectations

LEMMA StepEarned == AckInv /\ [Next]_vars => AckInv'
<1> SUFFICES ASSUME AckInv, [Next]_vars
             PROVE  CodesAreEarned' /\ ExpectsItsOwn' /\ AckProvesReceipt'
  BY StepTyped DEF AckInv
<1>1. ASSUME UNCHANGED <<outq, inbox, confirmed, expected>>, air' \subseteq air
      PROVE  CodesAreEarned' /\ ExpectsItsOwn' /\ AckProvesReceipt'
  <2>1. \A m \in Nodes : outq'[m] \subseteq outq[m]
    BY <1>1
  <2> QED
    BY <1>1, <2>1, InboxKept, IdleStaysEarned, ReceiptStays, ExpectationsStay
       DEF AckInv
<1>2. ASSUME NEW n \in Nodes, Miss(n)
      PROVE  CodesAreEarned' /\ ExpectsItsOwn' /\ AckProvesReceipt'
  BY <1>1, <1>2 DEF Miss, chatVars
<1>3. CASE UNCHANGED vars
  BY <1>1, <1>3 DEF vars, chatVars
<1> QED
  BY <1>2, <1>3, AppKeepsAcks, PowerKeepsAcks, ReceiveKeepsAcks,
     TransmitKeepsAcks DEF Next

THEOREM CodesAlwaysEarned == Spec => []AckInv
BY InitEarned, StepEarned, PTL DEF Spec

(***************************************************************************)
(* The app is told that a text is confirmed only after somebody has given  *)
(* that text to its app, however ACKs are lost, repeated, wrapped or late  *)
(* (processAck).                                                           *)
(***************************************************************************)
THEOREM AckAlwaysProvesReceipt == Spec => []AckProvesReceipt
<1>1. AckInv => AckProvesReceipt
  BY DEF AckInv
<1> QED
  BY <1>1, CodesAlwaysEarned, PTL

------------------------------------------------------------------------------
(***************************************************************************)
(* Working on a frame sends copies of it, answers that are no texts, and   *)
(* nothing else.                                                           *)
(***************************************************************************)
IsLetter(b) == b.type \in {"TXT", "GRP"}

CopiesOrAnswers(f, F) == \A g \in F : g.body = f.body \/ ~IsLetter(g.body)

LEMMA RouteCopies ==
  ASSUME NEW n, NEW f \in Frames
  PROVE  CopiesOrAnswers(f, routeRecvPacket(n, f))
BY DEF CopiesOrAnswers, routeRecvPacket, Frames

LEMMA ForwardCopies ==
  ASSUME NEW f \in Frames
  PROVE  CopiesOrAnswers(f, Forwarded(f))
<1>1. CASE f.body.type \in {"ACK", "MULTI"}
  <2>1. \A g \in Forwarded(f) : g.body.type \in {"ACK", "MULTI"}
    BY <1>1 DEF Forwarded, routeDirectRecvAcks, Direct, Ack, MultiAck
  <2> QED
    BY <2>1 DEF CopiesOrAnswers, IsLetter
<1>2. CASE f.body.type \notin {"ACK", "MULTI"}
  BY <1>2 DEF Forwarded, Frames, CopiesOrAnswers
<1> QED
  BY <1>1, <1>2

LEMMA TextForMeAnswers ==
  ASSUME NEW n, NEW f, TextForMe(n, f)
  PROVE  \E F : Enqueue(n, F) /\ CopiesOrAnswers(f, F)
<1> DEFINE path == outPath[n][f.body.from]
           code == AckCodeOf(f.body)
<1>1. CASE isRouteFlood(f)
  <2> DEFINE answer == Flood(PathWithAck(f), <<>>)
  <2>1. Enqueue(n, {answer})
    BY <1>1 DEF TextForMe
  <2>2. answer.body.type = "PATH"
    BY DEF Flood, PathWithAck, PathReturn
  <2> HIDE DEF answer
  <2> QED
    BY <2>1, <2>2 DEF CopiesOrAnswers, IsLetter
<1>2. CASE ~isRouteFlood(f)
  <2>1. Enqueue(n, AcksTo(path, code))
    BY <1>2 DEF TextForMe
  <2>2. \A g \in AcksTo(path, code) : g.body.type \in {"ACK", "MULTI"}
    BY DEF AcksTo, Flood, Direct, Ack, MultiAck
  <2> HIDE DEF path, code
  <2> QED
    BY <2>1, <2>2 DEF CopiesOrAnswers, IsLetter
<1> QED
  BY <1>1, <1>2

LEMMA PathForMeAnswers ==
  ASSUME TypeOK, NEW n, NEW f, PathForMe(n, f)
  PROVE  \E F : Enqueue(n, F) /\ CopiesOrAnswers(f, F)
<1>1. CASE isRouteFlood(f)
  <2> DEFINE answer == Direct(Reciprocal(f), OutPathIn(f))
  <2>1. Enqueue(n, {answer})
    BY <1>1 DEF PathForMe
  <2>2. answer.body.type = "PATH"
    BY DEF Direct, Reciprocal, PathReturn
  <2> HIDE DEF answer
  <2> QED
    BY <2>1, <2>2 DEF CopiesOrAnswers, IsLetter
<1>2. CASE ~isRouteFlood(f)
  <2>1. UNCHANGED outq
    BY <1>2 DEF PathForMe
  <2>2. Enqueue(n, {})
    BY <2>1 DEF Enqueue, TypeOK
  <2> QED
    BY <2>2 DEF CopiesOrAnswers
<1> QED
  BY <1>1, <1>2

LEMMA ReceiveCopiesOrAnswers ==
  ASSUME TypeOK, NEW n \in Nodes, Receive(n)
  PROVE  \E f, F : Works(n, f) /\ Enqueue(n, F) /\ CopiesOrAnswers(f, F)
<1>1. PICK f :
        \/ ForwardDirect(n, f) \/ IgnoreSeen(n, f) \/ PassOn(n, f)
        \/ GroupTextArrives(n, f) \/ TextForMe(n, f) \/ PathForMe(n, f)
        \/ AckArrives(n, f)
  BY DEF Receive
<1>2. Works(n, f)
  BY <1>1 DEF ForwardDirect, IgnoreSeen, PassOn, GroupTextArrives, TextForMe,
              PathForMe, AckArrives, Arrives
<1>3. f \in Frames
  BY <1>2, WorksTyped
<1>4. ASSUME UNCHANGED outq
      PROVE  Enqueue(n, {}) /\ CopiesOrAnswers(f, {})
  BY <1>4 DEF Enqueue, TypeOK, CopiesOrAnswers
<1>5. CASE ForwardDirect(n, f)
  <2>1. UNCHANGED outq \/ Enqueue(n, Forwarded(f))
    BY <1>5 DEF ForwardDirect
  <2> QED
    BY <1>2, <1>3, <1>4, <2>1, ForwardCopies
<1>6. CASE IgnoreSeen(n, f)
  <2>1. UNCHANGED outq
    BY <1>6 DEF IgnoreSeen
  <2> QED
    BY <1>2, <1>4, <2>1
<1>7. CASE PassOn(n, f) \/ GroupTextArrives(n, f)
  <2>1. Enqueue(n, routeRecvPacket(n, f))
    BY <1>7 DEF PassOn, GroupTextArrives
  <2> QED
    BY <1>2, <1>3, <2>1, RouteCopies
<1>8. CASE AckArrives(n, f)
  <2>1. UNCHANGED outq \/ Enqueue(n, routeRecvPacket(n, f))
    BY <1>8, ExpectedAckSendsNothing DEF AckArrives, UnexpectedAck
  <2> QED
    BY <1>2, <1>3, <1>4, <2>1, RouteCopies
<1> QED
  BY <1>1, <1>2, <1>5, <1>6, <1>7, <1>8, TextForMeAnswers, PathForMeAnswers

------------------------------------------------------------------------------
(* Delivered once. *)

(* The texts that no app has sent yet. *)
Unsent ==
  {b \in Bodies :
     \/ \E m \in Messages : \E k \in 0 .. MaxAttempts :
          attempts[m] <= k /\ b = TextOf(m, k)
     \/ \E g \in GroupMessages \ posted : b = GroupText(g.from, g.text)}

NothingAhead ==
  /\ Unsent \cap UnderWay = {}
  /\ \A n \in Clients : Unsent \cap Range(inbox[n]) = {}

ReceivedAreKnown ==
  \A n \in Clients : \A b \in Range(inbox[n]) :
    IsLetter(b) /\ (b \in UnderWay => hasSeen(tables[n], b))

(***************************************************************************)
(* The inductive invariant: what a client has given its app it knows as    *)
(* long as there is a copy under way, and no text comes back once the last *)
(* copy is gone, because no app sends the same packet twice.               *)
(***************************************************************************)
OnceInv == TypeOK /\ NothingAhead /\ ReceivedAreKnown /\ DeliveredOnce

(* What a step may do to the texts under way, and to an inbox. *)
LettersComeFromApps ==
  /\ Unsent' \subseteq Unsent
  /\ \A b \in UnderWay' : IsLetter(b) => b \in UnderWay \cup (Unsent \ Unsent')

InboxTakes(n) ==
  \/ inbox'[n] = inbox[n]
  \/ \E b \in UnderWay :
       /\ IsLetter(b) /\ b \in Bodies
       /\ inbox'[n] = Append(inbox[n], b)
       /\ ~hasSeen(tables[n], b) /\ hasSeen(tables'[n], b)

LEMMA UnsentAreLetters == \A b \in Unsent : IsLetter(b)
BY DEF Unsent, IsLetter, TextOf, Text, GroupText

LEMMA LetterKey ==
  ASSUME NEW b, IsLetter(b)
  PROVE  DirectKey(b) = b
BY DEF IsLetter, DirectKey

LEMMA InjectiveAppended ==
  ASSUME NEW S, NEW s \in Seq(S), NEW x \in S, IsInjective(s), x \notin Range(s)
  PROVE  IsInjective(Append(s, x))
<1>1. /\ DOMAIN s = 1 .. Len(s) /\ Len(s) \in Nat
      /\ DOMAIN Append(s, x) = 1 .. Len(s) + 1
  BY AppendProperties, LenProperties
<1>2. /\ \A i \in 1 .. Len(s) : Append(s, x)[i] = s[i] /\ s[i] # x
      /\ Append(s, x)[Len(s) + 1] = x
  BY <1>1, AppendProperties DEF Range
<1>3. \A i \in 1 .. Len(s) + 1 : i \in 1 .. Len(s) \/ i = Len(s) + 1
  BY <1>1
<1> QED
  BY <1>1, <1>2, <1>3 DEF IsInjective

LEMMA OnceKept ==
  ASSUME OnceInv, LettersComeFromApps, \A n \in Clients : InboxTakes(n),
         \A n \in Clients : StillKnown(n)
  PROVE  NothingAhead' /\ ReceivedAreKnown' /\ DeliveredOnce'
<1>1. Unsent' \cap UnderWay' = {}
  <2>1. ASSUME NEW b \in UnderWay', b \in Unsent' PROVE FALSE
    <3>1. b \in Unsent
      BY <2>1 DEF LettersComeFromApps
    <3>2. IsLetter(b)
      BY <3>1, UnsentAreLetters
    <3>3. b \in UnderWay
      BY <2>1, <3>2 DEF LettersComeFromApps
    <3> QED
      BY <3>1, <3>3 DEF OnceInv, NothingAhead
  <2> QED
    BY <2>1
<1>2. ASSUME NEW n \in Clients
      PROVE  /\ Unsent' \cap Range(inbox'[n]) = {}
             /\ IsInjective(inbox'[n])
             /\ \A b \in Range(inbox'[n]) :
                  IsLetter(b) /\ (b \in UnderWay' => hasSeen(tables'[n], b))
  <2>1. inbox[n] \in Seq(Bodies) /\ IsInjective(inbox[n])
    BY DEF OnceInv, TypeOK, DeliveredOnce
  <2>2. \A b \in Range(inbox[n]) :
          /\ IsLetter(b) /\ b \notin Unsent'
          /\ b \in UnderWay' => hasSeen(tables'[n], b)
    <3> SUFFICES ASSUME NEW b \in Range(inbox[n])
                 PROVE  /\ IsLetter(b) /\ b \notin Unsent'
                        /\ b \in UnderWay' => hasSeen(tables'[n], b)
      OBVIOUS
    <3>1. IsLetter(b) /\ b \notin Unsent /\ b \notin Unsent'
      BY DEF OnceInv, ReceivedAreKnown, NothingAhead, LettersComeFromApps
    <3>2. ASSUME b \in UnderWay' PROVE hasSeen(tables'[n], b)
      <4>1. b \in UnderWay
        BY <3>1, <3>2 DEF LettersComeFromApps
      <4>2. hasSeen(tables[n], b)
        BY <4>1 DEF OnceInv, ReceivedAreKnown
      <4> QED
        BY <3>1, <3>2, <4>2, LetterKey DEF StillKnown
    <3> QED
      BY <3>1, <3>2
  <2>3. CASE inbox'[n] = inbox[n]
    BY <2>1, <2>2, <2>3
  <2>4. CASE \E b \in UnderWay :
               /\ IsLetter(b) /\ b \in Bodies
               /\ inbox'[n] = Append(inbox[n], b)
               /\ ~hasSeen(tables[n], b) /\ hasSeen(tables'[n], b)
    <3>1. PICK b \in UnderWay :
            /\ IsLetter(b) /\ b \in Bodies
            /\ inbox'[n] = Append(inbox[n], b)
            /\ ~hasSeen(tables[n], b) /\ hasSeen(tables'[n], b)
      BY <2>4
    <3>2. b \notin Range(inbox[n])
      BY <3>1 DEF OnceInv, ReceivedAreKnown
    <3>3. b \notin Unsent'
      BY <3>1 DEF OnceInv, NothingAhead, LettersComeFromApps
    <3>4. Range(inbox'[n]) = Range(inbox[n]) \cup {b}
      BY <2>1, <3>1, RangeOfAppend
    <3>5. IsInjective(inbox'[n])
      BY <2>1, <3>1, <3>2, InjectiveAppended
    <3> QED
      BY <2>2, <3>1, <3>3, <3>4, <3>5
  <2> QED
    BY <2>3, <2>4 DEF InboxTakes
<1> QED
  BY <1>1, <1>2 DEF NothingAhead, ReceivedAreKnown, DeliveredOnce

------------------------------------------------------------------------------
(* One lemma per step. *)
LEMMA AppsIdle ==
  ASSUME UNCHANGED <<attempts, posted>>, FramesUnderWay' \subseteq FramesUnderWay
  PROVE  LettersComeFromApps
<1>1. Unsent' = Unsent
  BY DEF Unsent
<1>2. UnderWay' \subseteq UnderWay
  BY DEF UnderWay
<1> QED
  BY <1>1, <1>2 DEF LettersComeFromApps

LEMMA ReceiveSendsNoLetter ==
  ASSUME TypeOK, NEW n \in Nodes, Receive(n)
  PROVE  LettersComeFromApps
<1>1. PICK f, F : Works(n, f) /\ Enqueue(n, F) /\ CopiesOrAnswers(f, F)
  BY ReceiveCopiesOrAnswers
<1>2. UNCHANGED <<attempts, posted>>
  BY DEF Receive, ForwardDirect, IgnoreSeen, PassOn, GroupTextArrives, TextForMe,
         PathForMe, AckArrives, appVars
<1>3. Unsent' = Unsent
  BY <1>2 DEF Unsent
<1>4. ASSUME NEW b \in UnderWay', IsLetter(b) PROVE b \in UnderWay
  <2>1. PICK g \in FramesUnderWay' : b = g.body
    BY <1>4 DEF UnderWay
  <2>2. g \in FramesUnderWay \/ g \in F
    BY <1>1, WorkSends DEF Works
  <2>3. f.body \in UnderWay
    BY <1>1, HeardIsUnderWay
  <2> QED
    BY <1>1, <1>4, <2>1, <2>2, <2>3 DEF UnderWay, CopiesOrAnswers
<1> QED
  BY <1>3, <1>4 DEF LettersComeFromApps

LEMMA TextForMeRemembers ==
  ASSUME HashSlots >= 2, TypeOK, NEW n \in Nodes, NEW f, TextForMe(n, f)
  PROVE  hasSeen(tables'[n], f.body)
<1> DEFINE t    == Seen(tables[n], f.body)
           path == outPath[n][f.body.from]
           code == AckCodeOf(f.body)
<1>1. /\ Works(n, f) /\ f.body.type = "TXT" /\ f.body.to = n
      /\ ~hasSeen(tables[n], DirectKey(f.body))
  BY DEF TextForMe, Arrives
<1>2. /\ f.body \in Bodies /\ tables[n] \in NodeTables /\ f.path \in Paths
      /\ tables \in [Nodes -> NodeTables]
  BY <1>1, WorksTyped, TablesTyped
<1>3. ~hasSeen(tables[n], f.body) /\ t \in NodeTables /\ hasSeen(t, f.body)
  BY <1>1, <1>2, SeenTyped, SeenIsKnown DEF DirectKey
<1>4. n \in Clients /\ f.body.from \in Clients /\ code \in Codes
  BY <1>1, <1>2, TextIsText
<1>5. CASE isRouteFlood(f)
  <2>1. PathWithAck(f) \in Bodies
    <3>1. PathReturn(f.body.to, f.body.from, f.path, code, 0) \in Bodies
      BY <1>1, <1>2, <1>4, BodiesMade
    <3> QED
      BY <3>1 DEF PathWithAck
  <2>2. hasSeen(Seen(t, PathWithAck(f)), f.body)
    BY <1>1, <1>2, <1>3, <2>1, SeenKeepsLast
  <2>3. tables' = [tables EXCEPT ![n] = Seen(t, PathWithAck(f))]
    BY <1>5 DEF TextForMe, NewTables
  <2>4. tables'[n] = Seen(t, PathWithAck(f))
    BY <1>2, <2>3
  <2> QED
    BY <2>2, <2>4
<1>6. CASE ~isRouteFlood(f)
  <2>1. NewTables(n, SeenAcksTo(t, path, code))
    BY <1>6 DEF TextForMe
  <2> HIDE DEF path, code
  <2>2. tables'[n] = SeenAcksTo(t, path, code)
    BY <1>2, <2>1 DEF NewTables
  <2>3. CASE path = NoPath \/ ExtraAcks = 0
    <3>1. SeenAcksTo(t, path, code) = Seen(t, Ack(code))
      BY <2>3 DEF SeenAcksTo
    <3> QED
      BY <1>1, <1>3, <2>2, <3>1, AckLeavesHashes
  <2>4. CASE ~(path = NoPath \/ ExtraAcks = 0)
    <3>1. SeenAcksTo(t, path, code) = Seen(Seen(t, MultiAck(code, 1)), Ack(code))
      BY <2>4 DEF SeenAcksTo
    <3>2. MultiAck(code, 1) \in Bodies
      BY <1>4, <2>4, BodiesMade, NetworkAssumption
    <3>3. hasSeen(Seen(t, MultiAck(code, 1)), f.body)
      BY <1>1, <1>2, <1>3, <3>2, SeenKeepsLast
    <3>4. Seen(t, MultiAck(code, 1)) \in NodeTables
      BY <1>3, <3>2, SeenTyped
    <3> QED
      BY <1>1, <2>2, <3>1, <3>3, <3>4, AckLeavesHashes
  <2> QED
    BY <2>3, <2>4
<1> QED
  BY <1>5, <1>6

LEMMA ReceiveDelivers ==
  ASSUME HashSlots >= 2, TypeOK, NEW n \in Nodes, Receive(n), NEW c \in Clients
  PROVE  InboxTakes(c)
<1>1. PICK f :
        \/ ForwardDirect(n, f) \/ IgnoreSeen(n, f) \/ PassOn(n, f)
        \/ GroupTextArrives(n, f) \/ TextForMe(n, f) \/ PathForMe(n, f)
        \/ AckArrives(n, f)
  BY DEF Receive
<1>2. CASE UNCHANGED inbox
  BY <1>2 DEF InboxTakes
<1>3. CASE GroupTextArrives(n, f) /\ n \in Clients
  <2>1. /\ Works(n, f) /\ f.body.type = "GRP" /\ ~hasSeen(tables[n], DirectKey(f.body))
        /\ tables' = [tables EXCEPT ![n] = Seen(tables[n], f.body)]
        /\ inbox' = [inbox EXCEPT ![n] = Append(@, f.body)]
    BY <1>3 DEF GroupTextArrives, Arrives, NewTables
  <2>2. /\ f.body \in Bodies /\ f.body \in UnderWay /\ tables[n] \in NodeTables
        /\ tables \in [Nodes -> NodeTables]
    BY <2>1, WorksTyped, HeardIsUnderWay, TablesTyped
  <2>3. ~hasSeen(tables[n], f.body) /\ hasSeen(tables'[n], f.body)
    BY <2>1, <2>2, SeenIsKnown DEF DirectKey
  <2>4. inbox'[c] = IF c = n THEN Append(inbox[n], f.body) ELSE inbox[c]
    BY <2>1 DEF TypeOK
  <2> QED
    BY <2>1, <2>2, <2>3, <2>4 DEF InboxTakes, IsLetter
<1>4. CASE TextForMe(n, f)
  <2>1. /\ Works(n, f) /\ f.body.type = "TXT" /\ ~hasSeen(tables[n], DirectKey(f.body))
        /\ inbox' = [inbox EXCEPT ![n] = Append(@, f.body)]
    BY <1>4 DEF TextForMe, Arrives
  <2>2. f.body \in Bodies /\ f.body \in UnderWay
    BY <2>1, WorksTyped, HeardIsUnderWay
  <2>3. ~hasSeen(tables[n], f.body) /\ hasSeen(tables'[n], f.body)
    BY <1>4, <2>1, TextForMeRemembers DEF DirectKey
  <2>4. inbox'[c] = IF c = n THEN Append(inbox[n], f.body) ELSE inbox[c]
    BY <2>1 DEF TypeOK
  <2> QED
    BY <2>1, <2>2, <2>3, <2>4 DEF InboxTakes, IsLetter
<1> QED
  BY <1>1, <1>2, <1>3, <1>4 DEF ForwardDirect, IgnoreSeen, PassOn, GroupTextArrives,
     PathForMe, AckArrives, chatVars

LEMMA SendingIsProper ==
  ASSUME TypeOK, NEW n \in Nodes, NEW f, Enqueue(n, {f}), UNCHANGED <<air, inbox>>,
         Unsent' \subseteq Unsent, f.body \in Unsent, f.body \notin Unsent'
  PROVE  LettersComeFromApps /\ \A c \in Clients : InboxTakes(c)
<1>1. ASSUME NEW b \in UnderWay' PROVE b \in UnderWay \cup {f.body}
  <2>1. PICK g \in FramesUnderWay' : b = g.body
    BY <1>1 DEF UnderWay
  <2>2. g \in FramesUnderWay \/ g \in {f}
    BY WorkSends
  <2> QED
    BY <2>1, <2>2 DEF UnderWay
<1> QED
  BY <1>1 DEF LettersComeFromApps, InboxTakes

LEMMA AppIsProper ==
  ASSUME TypeOK, App
  PROVE  LettersComeFromApps /\ \A c \in Clients : InboxTakes(c)
<1>1. ASSUME NEW m \in Messages, SendMessage(m)
      PROVE  LettersComeFromApps /\ \A c \in Clients : InboxTakes(c)
  <2> DEFINE n    == m.from
             body == TextOf(m, attempts[m])
             path == outPath[n][m.to]
             f    == IF path = NoPath THEN Flood(body, <<>>) ELSE Direct(body, path)
  <2>1. /\ Enqueue(n, {f}) /\ UNCHANGED <<air, inbox, posted>>
        /\ attempts' = [attempts EXCEPT ![m] = @ + 1]
        /\ attempts[m] < MaxAttempts
    BY <1>1 DEF SendMessage
  <2>2. n \in Nodes /\ f.body = body
    BY NetworkAssumption DEF Flood, Direct
  <2>3. /\ attempts \in [Messages -> Nat] /\ attempts[m] \in 0 .. MaxAttempts
        /\ MaxAttempts \in Nat
    BY NetworkAssumption DEF TypeOK
  <2>4. \A o \in Messages : /\ attempts[o] <= attempts'[o]
                            /\ attempts[o] \in Nat /\ attempts'[o] \in Nat
    BY <2>1, <2>3
  <2>5. body \in Unsent
    <3>1. body \in Bodies
      BY <2>3, BodiesMade
    <3> QED
      BY <2>3, <3>1 DEF Unsent
  <2>6. Unsent' \subseteq Unsent
    BY <2>1, <2>4 DEF Unsent
  <2>7. body \notin Unsent'
    <3>1. ASSUME NEW o \in Messages, NEW k \in 0 .. MaxAttempts,
                 attempts'[o] <= k, body = TextOf(o, k)
          PROVE  FALSE
      <4>1. /\ m.from = o.from /\ m.to = o.to /\ m.text = o.text
            /\ attempts[m] = k
        BY <3>1 DEF TextOf, Text
      <4>2. m = o
        BY <4>1, NetworkAssumption
      <4> QED
        BY <2>1, <2>3, <3>1, <4>1, <4>2
    <3>2. \A g \in GroupMessages : body # GroupText(g.from, g.text)
      BY DEF TextOf, Text, GroupText
    <3> QED
      BY <3>1, <3>2 DEF Unsent
  <2> HIDE DEF n, body, path, f
  <2> QED
    BY <2>1, <2>2, <2>5, <2>6, <2>7, SendingIsProper
<1>2. ASSUME NEW g \in GroupMessages, SendGroupMessage(g)
      PROVE  LettersComeFromApps /\ \A c \in Clients : InboxTakes(c)
  <2> DEFINE body == GroupText(g.from, g.text)
             f    == Flood(body, <<>>)
  <2>1. /\ Enqueue(g.from, {f}) /\ UNCHANGED <<air, inbox, attempts>>
        /\ posted' = posted \cup {g} /\ g \notin posted
    BY <1>2 DEF SendGroupMessage, chatVars
  <2>2. g.from \in Nodes /\ f.body = body
    BY NetworkAssumption DEF Flood
  <2>3. body \in Unsent
    BY <2>1, BodiesMade DEF Unsent
  <2>4. Unsent' \subseteq Unsent
    BY <2>1 DEF Unsent
  <2>5. body \notin Unsent'
    <3>1. \A m \in Messages, k \in 0 .. MaxAttempts : body # TextOf(m, k)
      BY DEF TextOf, Text, GroupText
    <3>2. ASSUME NEW o \in GroupMessages, body = GroupText(o.from, o.text)
          PROVE  o \in posted'
      <4>1. g.from = o.from /\ g.text = o.text
        BY <3>2 DEF GroupText
      <4>2. g = o
        BY <4>1, NetworkAssumption
      <4> QED
        BY <2>1, <4>2
    <3> QED
      BY <3>1, <3>2 DEF Unsent
  <2> HIDE DEF body, f
  <2> QED
    BY <2>1, <2>2, <2>3, <2>4, <2>5, SendingIsProper
<1>3. ASSUME NEW n \in Clients, NEW c \in Clients, ResetPathTo(n, c)
      PROVE  LettersComeFromApps /\ \A d \in Clients : InboxTakes(d)
  <2>1. UNCHANGED <<outq, air, inbox, attempts, posted>>
    BY <1>3 DEF ResetPathTo
  <2>2. FramesUnderWay' \subseteq FramesUnderWay
    BY <2>1, IdleSends
  <2> QED
    BY <2>1, <2>2, AppsIdle DEF InboxTakes
<1> QED
  BY <1>1, <1>2, <1>3 DEF App

LEMMA StepIsProper ==
  ASSUME HashSlots >= 2, TypeOK, [Next]_vars
  PROVE  LettersComeFromApps /\ \A c \in Clients : InboxTakes(c)
<1>1. CASE App
  BY <1>1, AppIsProper
<1>2. CASE Power
  <2>1. UNCHANGED <<attempts, posted, inbox>>
    BY <1>2 DEF Power, SaveContacts, PowerLoss, Boot, appVars, chatVars
  <2> QED
    BY <1>2, <2>1, PowerMovesNothing, AppsIdle DEF InboxTakes
<1>3. ASSUME NEW n \in Nodes, Receive(n)
      PROVE  LettersComeFromApps /\ \A c \in Clients : InboxTakes(c)
  BY <1>3, ReceiveSendsNoLetter, ReceiveDelivers
<1>4. ASSUME NEW n \in Nodes, Transmit(n)
      PROVE  LettersComeFromApps /\ \A c \in Clients : InboxTakes(c)
  <2>1. UNCHANGED <<attempts, posted, inbox>>
    BY <1>4 DEF Transmit, appVars, chatVars
  <2> QED
    BY <1>4, <2>1, TransmitMoves, AppsIdle DEF InboxTakes
<1>5. ASSUME NEW n \in Nodes, Miss(n)
      PROVE  LettersComeFromApps /\ \A c \in Clients : InboxTakes(c)
  <2>1. UNCHANGED <<attempts, posted, inbox, outq>> /\ air' \subseteq air
    BY <1>5 DEF Miss, appVars, chatVars
  <2>2. FramesUnderWay' \subseteq FramesUnderWay
    BY <2>1, IdleSends
  <2> QED
    BY <2>1, <2>2, AppsIdle DEF InboxTakes
<1>6. CASE UNCHANGED vars
  <2>1. UNCHANGED <<attempts, posted, inbox, outq, air>>
    BY <1>6 DEF vars, appVars, chatVars
  <2>2. FramesUnderWay' \subseteq FramesUnderWay
    BY <2>1, IdleSends
  <2> QED
    BY <2>1, <2>2, AppsIdle DEF InboxTakes
<1> QED
  BY <1>1, <1>2, <1>3, <1>4, <1>5, <1>6 DEF Next

LEMMA InitOnce == Init => OnceInv
<1> SUFFICES ASSUME Init PROVE NothingAhead /\ ReceivedAreKnown /\ DeliveredOnce
  BY InitTyped DEF OnceInv
<1>1. FramesUnderWay = {} /\ UnderWay = {}
  BY DEF Init, FramesUnderWay, UnderWay
<1>2. \A n \in Clients : inbox[n] = <<>>
  BY DEF Init
<1>3. DOMAIN <<>> = {}
  OBVIOUS
<1> QED
  BY <1>1, <1>2, <1>3
     DEF NothingAhead, ReceivedAreKnown, DeliveredOnce, IsInjective, Range

(***************************************************************************)
(* However many copies of a packet reach a client by however many ways, it *)
(* gives its app each only once - as long as no client forgets a packet of *)
(* which a copy is still under way, and the table has a slot for the       *)
(* answer beside the text (hasSeen; MAX_PACKET_HASHES is 128).             *)
(***************************************************************************)
THEOREM DeliveredOnlyOnce ==
  ASSUME HashSlots >= 2
  PROVE  Spec /\ [][\A n \in Clients : StillKnown(n)]_vars => []DeliveredOnce
<1>1. OnceInv /\ [Next]_vars /\ [\A n \in Clients : StillKnown(n)]_vars => OnceInv'
  <2> SUFFICES ASSUME OnceInv, [Next]_vars, [\A n \in Clients : StillKnown(n)]_vars
               PROVE  OnceInv'
    OBVIOUS
  <2>1. LettersComeFromApps /\ \A c \in Clients : InboxTakes(c)
    BY StepIsProper DEF OnceInv
  <2>2. \A n \in Clients : StillKnown(n)
    <3>1. UNCHANGED vars => UNCHANGED tables
      BY DEF vars
    <3> QED
      BY <3>1 DEF StillKnown
  <2> QED
    BY <2>1, <2>2, OnceKept, StepTyped DEF OnceInv
<1>2. OnceInv => DeliveredOnce
  BY DEF OnceInv
<1> QED
  BY <1>1, <1>2, InitOnce, PTL DEF Spec

(***************************************************************************)
(* So a client that stays on gives its app no packet twice while no table  *)
(* is full (MAX_PACKET_HASHES, MAX_PACKET_ACKS).                           *)
(***************************************************************************)
THEOREM DeliveredOnceUntilFull ==
  ASSUME HashSlots >= 2, Clients \cap MayFail = {}
  PROVE  Spec /\ []NoTableFull => []DeliveredOnce
<1>1. Init => TypeOK /\ PoweredStay
  BY InitTyped DEF Init, PoweredStay
<1>2. TypeOK /\ PoweredStay /\ [Next]_vars => TypeOK' /\ PoweredStay'
  BY StepTyped, StepKeepsPower
<1>3. TypeOK /\ PoweredStay /\ [Next]_vars /\ NoTableFull'
        => [\A n \in Clients : StillKnown(n)]_vars
  <2> SUFFICES ASSUME TypeOK, PoweredStay, [Next]_vars, NoTableFull', NEW n \in Clients
               PROVE  StillKnown(n)
    OBVIOUS
  <2>1. n \in alive
    BY NetworkAssumption DEF PoweredStay
  <2> QED
    BY <2>1, RoomMeansStillKnown
<1>4. Spec /\ [][\A n \in Clients : StillKnown(n)]_vars => []DeliveredOnce
  BY DeliveredOnlyOnce
<1> QED
  BY <1>1, <1>2, <1>3, <1>4, PTL DEF Spec
=============================================================================
