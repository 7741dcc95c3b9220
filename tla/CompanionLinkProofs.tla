------------------------- MODULE CompanionLinkProofs -------------------------
(***************************************************************************)
(* Proofs about CompanionLink for queues of any lengths, any contacts, any *)
(* time and any budgets.                                                   *)
(***************************************************************************)
EXTENDS CompanionLink, FiniteSetTheorems, SequenceTheorems, WellFoundedInduction, TLAPS

(* The least of some numbers is one of them. *)
LEMMA MinIsLeast ==
  ASSUME NEW S \in SUBSET Nat, S # {}
  PROVE  Min(S) \in S /\ \A m \in S : Min(S) <= m
<1>1. PICK n \in S : \A m \in S : ~(<<m, n>> \in OpToRel(<, Nat))
  BY NatLessThanWellFounded, WFMin
<1>2. ASSUME NEW m \in S
      PROVE  n <= m
  <2>1. <<m, n>> \in Nat \X Nat /\ ~(<<m, n>> \in OpToRel(<, Nat))
    BY <1>1
  <2>2. ~(m < n)
    BY <2>1 DEF OpToRel
  <2> QED
    BY <2>2
<1> QED
  BY <1>2 DEF Min

(* A sequence without its k-th element. *)
LEMMA Removed ==
  ASSUME NEW T, NEW s \in Seq(T), NEW k \in 1 .. Len(s)
  PROVE  /\ RemoveAt(s, k) \in Seq(T)
         /\ Len(RemoveAt(s, k)) = Len(s) - 1
         /\ \A i \in 1 .. Len(s) - 1 :
              RemoveAt(s, k)[i] = IF i < k THEN s[i] ELSE s[i + 1]
<1> DEFINE l == SubSeq(s, 1, k - 1)
           r == SubSeq(s, k + 1, Len(s))
<1>0. Len(s) \in Nat
  BY LenProperties
<1>1. /\ l \in Seq(T) /\ Len(l) = k - 1
      /\ \A i \in 1 .. k - 1 : l[i] = s[i]
  <2>1. CASE k = 1
    BY <1>0, <2>1, SubSeqProperties
  <2>2. CASE k # 1
    BY <1>0, <2>2, SubSeqProperties
  <2> QED
    BY <2>1, <2>2
<1>2. /\ r \in Seq(T) /\ Len(r) = Len(s) - k
      /\ \A i \in 1 .. Len(s) - k : r[i] = s[k + i]
  <2>1. CASE k = Len(s)
    BY <1>0, <2>1, SubSeqProperties
  <2>2. CASE k # Len(s)
    BY <1>0, <2>2, SubSeqProperties
  <2> QED
    BY <2>1, <2>2
<1>3. RemoveAt(s, k) = l \o r
  BY DEF RemoveAt
<1> HIDE DEF l, r
<1>4. /\ l \o r \in Seq(T) /\ Len(l \o r) = Len(s) - 1
      /\ \A i \in 1 .. Len(s) - 1 : (l \o r)[i] = IF i <= k - 1 THEN l[i] ELSE r[i - (k - 1)]
  <2>1. l \o r \in Seq(T) /\ Len(l \o r) = Len(l) + Len(r)
    BY <1>1, <1>2, ConcatProperties
  <2>2. Len(l) + Len(r) = Len(s) - 1
    BY <1>0, <1>1, <1>2
  <2>3. \A i \in 1 .. Len(l) + Len(r) : (l \o r)[i] = IF i <= Len(l) THEN l[i] ELSE r[i - Len(l)]
    BY <1>1, <1>2, ConcatProperties
  <2> QED
    BY <1>1, <2>1, <2>2, <2>3
<1>5. \A i \in 1 .. Len(s) - 1 : (l \o r)[i] = IF i < k THEN s[i] ELSE s[i + 1]
  <2> TAKE i \in 1 .. Len(s) - 1
  <2>1. CASE i < k
    BY <1>0, <1>1, <1>4, <2>1
  <2>2. CASE ~(i < k)
    <3>1. i - (k - 1) \in 1 .. Len(s) - k /\ k + (i - (k - 1)) = i + 1
      BY <1>0, <2>2
    <3> QED
      BY <1>0, <1>2, <1>4, <2>2, <3>1
  <2> QED
    BY <2>1, <2>2
<1> QED
  BY <1>3, <1>4, <1>5

------------------------------------------------------------------------------
(* What addToOfflineQueue() makes of the queue: there is room; the oldest  *)
(* channel message goes; the new one goes.                                 *)
LEMMA Added ==
  ASSUME offline_queue \in Seq(Message), Len(offline_queue) <= OfflineQueueSize,
         NEW m \in Message
  PROVE  LET q   == offline_queue
             new == addToOfflineQueue(m)
         IN  /\ new \in Seq(Message) /\ Len(new) <= OfflineQueueSize
             /\ \/ /\ new = Append(q, m)
                   /\ Len(q) < OfflineQueueSize
                \/ /\ Len(q) = OfflineQueueSize /\ Len(new) = Len(q) /\ new[Len(q)] = m
                   /\ \E k \in 1 .. Len(q) :
                        /\ ~q[k].private
                        /\ \A i \in 1 .. k - 1 : q[i].private
                        /\ \A i \in 1 .. Len(q) - 1 : new[i] = IF i < k THEN q[i] ELSE q[i + 1]
                \/ /\ new = q /\ Len(q) = OfflineQueueSize
                   /\ \A i \in 1 .. Len(q) : q[i].private
<1> DEFINE q   == offline_queue
           new == addToOfflineQueue(m)
           I   == {i \in 1 .. Len(q) : ~q[i].private}
<1>0. Len(q) \in Nat /\ OfflineQueueSize \in Nat \ {0} /\ Len(q) <= OfflineQueueSize
  BY LenProperties, LinkAssumption
<1>1. OldestChannelMsg = IF I # {} THEN Min(I) ELSE 0
  BY DEF OldestChannelMsg, SelectInSeq
<1>2. CASE Len(q) < OfflineQueueSize
  <2>1. new = Append(q, m)
    BY <1>2 DEF addToOfflineQueue
  <2> QED
    BY <1>0, <1>2, <2>1, AppendProperties
<1>3. CASE ~(Len(q) < OfflineQueueSize) /\ I # {}
  <2> DEFINE k == OldestChannelMsg
  <2>1. k \in I /\ \A i \in I : k <= i
    <3>1. I \subseteq Nat
      BY <1>0
    <3> HIDE DEF I
    <3> QED
      BY <1>1, <1>3, <3>1, MinIsLeast
  <2>2. k \in 1 .. Len(q) /\ ~q[k].private /\ k # 0
    BY <1>0, <2>1
  <2>3. \A i \in 1 .. k - 1 : q[i].private
    BY <1>0, <2>1
  <2>4. new = Append(RemoveAt(q, k), m)
    BY <1>3, <2>2 DEF addToOfflineQueue
  <2> DEFINE r == RemoveAt(q, k)
  <2>5. /\ r \in Seq(Message) /\ Len(r) = Len(q) - 1
        /\ \A i \in 1 .. Len(q) - 1 : r[i] = IF i < k THEN q[i] ELSE q[i + 1]
    BY <2>2, Removed
  <2> HIDE DEF r, k
  <2>6. /\ new \in Seq(Message) /\ Len(new) = Len(q) /\ new[Len(q)] = m
        /\ \A i \in 1 .. Len(q) - 1 : new[i] = r[i]
    <3>1. new = Append(r, m)
      BY <2>4 DEF r
    <3> QED
      BY <1>0, <2>5, <3>1, AppendProperties
  <2>7. Len(q) = OfflineQueueSize
    BY <1>0, <1>3
  <2>8. \A i \in 1 .. Len(q) - 1 : new[i] = IF i < k THEN q[i] ELSE q[i + 1]
    BY <2>5, <2>6
  <2> QED
    BY <1>0, <2>2, <2>3, <2>6, <2>7, <2>8
<1>4. CASE ~(Len(q) < OfflineQueueSize) /\ I = {}
  <2>1. new = q
    BY <1>1, <1>4 DEF addToOfflineQueue
  <2>2. \A i \in 1 .. Len(q) : q[i].private
    BY <1>4
  <2> QED
    BY <1>0, <1>4, <2>1, <2>2
<1> QED
  BY <1>2, <1>3, <1>4

------------------------------------------------------------------------------
(* Types *)

LEMMA FramesTyped ==
  /\ \A type \in FrameTypes : Frame(type) \in Frames /\ Frame(type).type = type
  /\ \A type \in FrameTypes, n \in Nat : Numbered(type, n) \in Frames
                                         /\ Numbered(type, n).type = type
  /\ \A c \in Contact : ContactFrame(c) \in Frames /\ ContactFrame(c).type = "contact"
<1>1. /\ \A type \in FrameTypes : Frame(type) \in Frames /\ Frame(type).type = type
      /\ \A type \in FrameTypes, n \in Nat : Numbered(type, n) \in Frames
                                             /\ Numbered(type, n).type = type
  BY DEF Frame, Numbered, Frames
<1>2. "contact" \in FrameTypes
  BY DEF FrameTypes
<1>3. \A c \in Contact : ContactFrame(c) \in Frames /\ ContactFrame(c).type = "contact"
  BY <1>2 DEF ContactFrame, Contact, Frames
<1> QED
  BY <1>1, <1>3

(* A frame is queued, or known to be lost. *)
LEMMA Wrote ==
  ASSUME TypeOK, NEW f \in Frames, writeFrame(f)
  PROVE  /\ send_queue' \in Seq(Frames) /\ Len(send_queue') <= FrameQueueSize
         /\ lost' \subseteq FrameTypes
         /\ \/ send_queue' = Append(send_queue, f) /\ lost' = lost
            \/ send_queue' = send_queue /\ lost' = lost \cup {f.type}
<1>0. /\ send_queue \in Seq(Frames) /\ Len(send_queue) \in Nat
      /\ Len(send_queue) <= FrameQueueSize /\ FrameQueueSize \in Nat
  BY LenProperties, LinkAssumption DEF TypeOK
<1>1. CASE Fits
  <2>1. send_queue' = Append(send_queue, f) /\ lost' = lost
    BY <1>1 DEF writeFrame
  <2>2. Len(Append(send_queue, f)) <= FrameQueueSize /\ Append(send_queue, f) \in Seq(Frames)
    BY <1>0, <1>1, AppendProperties DEF Fits
  <2> QED
    BY <2>1, <2>2 DEF TypeOK
<1>2. CASE ~Fits
  <2>1. send_queue' = send_queue /\ lost' = lost \cup {f.type} /\ f.type \in FrameTypes
    BY <1>2 DEF writeFrame, Frames
  <2> QED
    BY <1>0, <2>1 DEF TypeOK
<1> QED
  BY <1>1, <1>2

LEMMA Notified ==
  ASSUME TypeOK, NEW f \in Frames, Notify(f)
  PROVE  /\ send_queue' \in Seq(Frames) /\ Len(send_queue') <= FrameQueueSize
         /\ lost' \subseteq FrameTypes
         /\ \/ send_queue' = Append(send_queue, f) /\ lost' = lost
            \/ send_queue' = send_queue /\ (lost' = lost \/ lost' = lost \cup {f.type})
<1>1. CASE deviceConnected
  BY <1>1, Wrote DEF Notify
<1>2. CASE ~deviceConnected
  BY <1>2 DEF Notify, TypeOK
<1> QED
  BY <1>1, <1>2

LEMMA TakenTyped ==
  ASSUME TypeOK, NEW f \in Frames
  PROVE  /\ AppTakes(f) \in AppState
         /\ AppTakes(f).waiting = IF f.type \in ReplyTypes THEN "none" ELSE app.waiting
<1> DEFINE answered == IF f.type \in ReplyTypes THEN [app EXCEPT !.waiting = "none"] ELSE app
<1>1. /\ app \in AppState /\ f.n \in Nat /\ f.type \in FrameTypes
      /\ app.since \in Nat /\ app.book \in [Contacts -> Nat] /\ app.ready \in BOOLEAN
  BY DEF TypeOK, Frames, AppState
<1>2. /\ answered \in AppState
      /\ answered.waiting = IF f.type \in ReplyTypes THEN "none" ELSE app.waiting
  BY <1>1 DEF AppState
<1> HIDE DEF answered
<1>3. CASE f.type = "self"
  BY <1>2, <1>3 DEF AppTakes, AppState, answered
<1>4. CASE f.type = "msg"
  BY <1>2, <1>4 DEF AppTakes, answered
<1>5. CASE f.type = "nomore"
  BY <1>2, <1>5 DEF AppTakes, AppState, answered
<1>6. CASE f.type = "tickle"
  BY <1>2, <1>6 DEF AppTakes, AppState, answered
<1>7. CASE f.type = "count"
  <2>1. AppTakes(f) = [answered EXCEPT !.listing = app.ready]
    BY <1>7 DEF AppTakes, answered
  <2> QED
    BY <1>1, <1>2, <2>1 DEF AppState
<1>8. CASE f.type = "contact"
  <2>1. AppTakes(f) = [answered EXCEPT !.book[f.id] = f.n]
    BY <1>8 DEF AppTakes, answered
  <2>2. [answered.book EXCEPT ![f.id] = f.n] \in [Contacts -> Nat]
    BY <1>1, <1>2 DEF AppState
  <2> QED
    BY <1>2, <2>1, <2>2 DEF AppState
<1>9. CASE f.type = "end"
  <2>1. \/ AppTakes(f) = answered
        \/ AppTakes(f) = [answered EXCEPT !.listing = FALSE,
                                          !.since = IF f.n > answered.since THEN f.n
                                                    ELSE answered.since]
    BY <1>9 DEF AppTakes, answered
  <2>2. (IF f.n > answered.since THEN f.n ELSE answered.since) \in Nat
    BY <1>1, <1>2 DEF AppState
  <2> QED
    BY <1>2, <2>1, <2>2 DEF AppState
<1>10. CASE f.type = "err" \/ f.type = "push"
  BY <1>2, <1>10 DEF AppTakes, answered
<1> QED
  BY <1>1, <1>3, <1>4, <1>5, <1>6, <1>7, <1>8, <1>9, <1>10 DEF FrameTypes, ReplyTypes

(* One frame leaves the queue: it reaches the app or is known to be lost.  *)
LEMMA Sent ==
  ASSUME TypeOK, SendOne
  PROVE  /\ send_queue' \in Seq(Frames) /\ Len(send_queue') <= FrameQueueSize
         /\ busy' \in BOOLEAN /\ app' \in AppState /\ got' \in Seq(Nat)
         /\ lost' \subseteq FrameTypes
         /\ \/ UNCHANGED <<send_queue, app, got, lost>>
            \/ /\ send_queue # <<>> /\ send_queue' = Tail(send_queue)
               /\ Head(send_queue) \in Frames
               /\ \/ /\ peer /\ app' = AppTakes(Head(send_queue)) /\ lost' = lost
                     /\ got' = IF Head(send_queue).type = "msg"
                               THEN Append(got, Head(send_queue).n) ELSE got
                  \/ /\ ~peer /\ app' = app /\ got' = got
                     /\ lost' = lost \cup {Head(send_queue).type}
<1>0. /\ send_queue \in Seq(Frames) /\ Len(send_queue) <= FrameQueueSize /\ FrameQueueSize \in Nat
      /\ Len(send_queue) \in Nat /\ got \in Seq(Nat) /\ app \in AppState
  BY LenProperties, LinkAssumption DEF TypeOK
<1>1. CASE UNCHANGED <<send_queue, busy, app, got, lost>>
  BY <1>1 DEF TypeOK
<1>2. CASE send_queue # <<>> /\ Deliver(Head(send_queue))
  <2> DEFINE f == Head(send_queue)
  <2>1. f \in Frames /\ Tail(send_queue) \in Seq(Frames) /\ Len(Tail(send_queue)) <= FrameQueueSize
    BY <1>0, <1>2, HeadTailProperties
  <2>2. f.n \in Nat /\ f.type \in FrameTypes
    BY <2>1 DEF Frames
  <2>3. AppTakes(f) \in AppState
    BY <2>1, TakenTyped
  <2>4. Append(got, f.n) \in Seq(Nat)
    BY <1>0, <2>2, AppendProperties
  <2>5. busy' \in BOOLEAN
    BY <1>2 DEF Deliver
  <2>6. /\ send_queue' = Tail(send_queue) /\ app' = IF peer THEN AppTakes(f) ELSE app
        /\ got' = IF peer /\ f.type = "msg" THEN Append(got, f.n) ELSE got
        /\ lost' = IF peer THEN lost ELSE lost \cup {f.type}
    BY <1>2 DEF Deliver
  <2> HIDE DEF f
  <2>7. CASE peer
    BY <1>0, <1>2, <2>1, <2>3, <2>4, <2>5, <2>6, <2>7 DEF TypeOK, f
  <2>8. CASE ~peer
    BY <1>0, <1>2, <2>1, <2>2, <2>5, <2>6, <2>8 DEF TypeOK, f
  <2> QED
    BY <2>7, <2>8
<1> QED
  BY <1>1, <1>2 DEF SendOne

(* Nothing but these changes. *)
LEMMA BudgetTyped ==
  ASSUME TypeOK, NEW kind \in Kinds, Input(kind)
  PROVE  left' \in [Kinds -> Nat]
<1>1. left \in [Kinds -> Nat] /\ left[kind] \in Nat /\ left[kind] - 1 \in Nat
  BY DEF TypeOK, Input
<1> QED
  BY <1>1 DEF Input

LEMMA MessageTyped ==
  ASSUME TypeOK, NEW private \in BOOLEAN, MessageArrives(private)
  PROVE  TypeOK'
<1>1. arrived' = Append(arrived, private) /\ arrived \in Seq(BOOLEAN)
  BY DEF MessageArrives, TypeOK
<1>2. arrived' \in Seq(BOOLEAN) /\ Len(arrived') \in Nat
  BY <1>1, AppendProperties, LenProperties
<1>3. [n |-> Len(arrived'), private |-> private] \in Message
  BY <1>2 DEF Message
<1>4. offline_queue' \in Seq(Message) /\ Len(offline_queue') <= OfflineQueueSize
  <2> DEFINE m == [n |-> Len(arrived'), private |-> private]
  <2>1. offline_queue' = addToOfflineQueue(m)
    BY DEF MessageArrives
  <2>2. PICK x \in Message : x = m
    BY <1>3
  <2>3. addToOfflineQueue(x) \in Seq(Message) /\ Len(addToOfflineQueue(x)) <= OfflineQueueSize
    BY Added DEF TypeOK
  <2> QED
    BY <2>1, <2>2, <2>3
<1>5. /\ send_queue' \in Seq(Frames) /\ Len(send_queue') <= FrameQueueSize
      /\ lost' \subseteq FrameTypes
  <2>1. Frame("tickle") \in Frames
    BY FramesTyped DEF FrameTypes
  <2> QED
    BY <2>1, Notified DEF MessageArrives
<1>6. left' \in [Kinds -> Nat]
  BY BudgetTyped DEF MessageArrives, Kinds
<1> QED
  BY <1>2, <1>4, <1>5, <1>6 DEF TypeOK, MessageArrives, loopAt, client

LEMMA PushTyped ==
  ASSUME TypeOK, Push
  PROVE  TypeOK'
<1>1. /\ send_queue' \in Seq(Frames) /\ Len(send_queue') <= FrameQueueSize
      /\ lost' \subseteq FrameTypes
  <2>1. Frame("push") \in Frames
    BY FramesTyped DEF FrameTypes
  <2> QED
    BY <2>1, Notified DEF Push
<1>2. left' \in [Kinds -> Nat]
  BY BudgetTyped DEF Push, Kinds
<1> QED
  BY <1>1, <1>2 DEF TypeOK, Push, device, loopAt, client

LEMMA ChangeTyped ==
  ASSUME TypeOK, NEW id \in Contacts, ContactChanges(id)
  PROVE  TypeOK'
<1> DEFINE c  == [id |-> id, lastmod |-> now]
           at == PositionOf(id)
<1>1. c \in Contact /\ contacts \in Seq(Contact)
  BY DEF Contact, TypeOK
<1>2. at # 0 => at \in 1 .. Len(contacts)
  <2> DEFINE I == {i \in 1 .. Len(contacts) : contacts[i].id = id}
  <2>1. at = IF I # {} THEN Min(I) ELSE 0
    BY DEF PositionOf, SelectInSeq
  <2>2. I \subseteq Nat
    BY <1>1, LenProperties
  <2>3. I # {} => Min(I) \in I
    <3> HIDE DEF I
    <3> QED
      BY <2>2, MinIsLeast
  <2> QED
    BY <2>1, <2>3
<1>3. contacts' = IF at # 0 THEN [contacts EXCEPT ![at] = c] ELSE Append(contacts, c)
  BY DEF ContactChanges
<1> HIDE DEF c, at
<1>4. contacts' \in Seq(Contact)
  BY <1>1, <1>2, <1>3, ExceptSeq, AppendProperties
<1>5. left' \in [Kinds -> Nat]
  BY BudgetTyped DEF ContactChanges, Kinds
<1>6. disturbed' \in BOOLEAN
  BY DEF ContactChanges
<1> QED
  BY <1>4, <1>5, <1>6 DEF TypeOK, ContactChanges, loopAt, ble, client

LEMMA TickTyped ==
  ASSUME TypeOK, Tick
  PROVE  TypeOK'
BY DEF TypeOK, Tick, loopAt, ble, client, past

LEMMA ConnectTyped ==
  ASSUME TypeOK, Connect
  PROVE  TypeOK'
<1>1. left' \in [Kinds -> Nat]
  BY BudgetTyped DEF Connect, Kinds
<1>2. app' \in AppState
  BY DEF TypeOK, Connect, Connecting, AppState
<1>3. peer' \in BOOLEAN /\ deviceConnected' \in BOOLEAN /\ lost' \subseteq FrameTypes
  BY DEF TypeOK, Connect, FrameTypes, ReplyTypes
<1>4. disturbed' \in BOOLEAN
  BY DEF TypeOK, Connect
<1> QED
  BY <1>1, <1>2, <1>3, <1>4 DEF TypeOK, Connect, device, loopAt

LEMMA DisconnectTyped ==
  ASSUME TypeOK, Disconnect
  PROVE  TypeOK'
<1>1. peer' \in BOOLEAN /\ cut' \in BOOLEAN
  BY DEF Disconnect
<1> QED
  BY <1>1 DEF TypeOK, Disconnect, device, loopAt, ble

(* A command is queued. *)
LEMMA Queues ==
  ASSUME TypeOK, NEW cmd \in Commands, onWrite(cmd)
  PROVE  /\ recv' \in [Slots -> Commands] /\ recv_len' \in 1 .. FrameQueueSize
         /\ recv_len' = IF recv_len = FrameQueueSize THEN recv_len ELSE recv_len + 1
<1> DEFINE full == recv_len = FrameQueueSize
           kept == IF full THEN [i \in Slots |-> IF i + 1 \in Slots THEN recv[i + 1] ELSE recv[i]]
                   ELSE recv
           at   == IF full THEN recv_len - 1 ELSE recv_len
<1>1. recv' = [kept EXCEPT ![at] = cmd] /\ recv_len' = at + 1
  BY DEF onWrite
<1>2. recv \in [Slots -> Commands] /\ recv_len \in 0 .. FrameQueueSize /\ FrameQueueSize \in Nat \ {0}
  BY LinkAssumption DEF TypeOK
<1>3. kept \in [Slots -> Commands]
  BY <1>2
<1>4. /\ at + 1 \in 1 .. FrameQueueSize
      /\ at + 1 = IF recv_len = FrameQueueSize THEN recv_len ELSE recv_len + 1
  BY <1>2
<1> HIDE DEF kept, at
<1>5. [kept EXCEPT ![at] = cmd] \in [Slots -> Commands]
  BY <1>3
<1> QED
  BY <1>1, <1>4, <1>5

LEMMA AppTyped ==
  ASSUME TypeOK, AppStep
  PROVE  TypeOK'
<1>1. PICK cmd \in Commands : cmd.type \in CommandTypes /\ AppSends(cmd)
  <2>1. \A n \in Nat : \A type \in CommandTypes : Command(type, n) \in Commands
                                                /\ Command(type, n).type = type
    BY DEF Command, Commands, CommandTypes
  <2>2. app.since \in Nat
    BY DEF TypeOK, AppState
  <2> QED
    BY <2>1, <2>2 DEF AppStep, AppStarts, AppFetches, AppLists, CommandTypes
<1>2. app' \in AppState
  BY <1>1 DEF TypeOK, AppState, AppSends
<1>3. recv' \in [Slots -> Commands] /\ recv_len' \in 0 .. FrameQueueSize
  BY <1>1, Queues DEF AppSends
<1>4. left' \in [Kinds -> Nat]
  <2>1. left' = left \/ Input("list")
    BY DEF AppStep, AppStarts, AppFetches, AppLists
  <2> QED
    BY <2>1, BudgetTyped DEF TypeOK, Kinds
<1> QED
  BY <1>1, <1>2, <1>3, <1>4 DEF TypeOK, AppSends, device, loopAt, past

LEMMA LoopStartsTyped ==
  ASSUME TypeOK, LoopStarts
  PROVE  TypeOK'
<1>1. recv \in [Slots -> Commands] /\ recv_len \in 0 .. FrameQueueSize /\ FrameQueueSize \in Nat \ {0}
  BY LinkAssumption DEF TypeOK
<1>2. /\ recv_len' \in 0 .. FrameQueueSize /\ taken' \in Commands
      /\ pc' \in {"loop", "shift", "count"} /\ connections' \in {0, 1}
  <2>1. CASE TakeFrame
    <3>1. recv[0] \in Commands
      BY <1>1 DEF Slots
    <3> QED
      BY <1>1, <2>1, <3>1 DEF TakeFrame, TypeOK
  <2>2. CASE ReadConnections
    BY <2>2 DEF ReadConnections, TypeOK
  <2> QED
    BY <2>1, <2>2 DEF LoopStarts
<1>3. SendOne
  BY DEF LoopStarts
<1> QED
  BY <1>2, <1>3, Sent DEF TypeOK, LoopStarts, device

(* What handleCmdFrame() writes: one answer. *)
LEMMA Handled ==
  ASSUME TypeOK, NEW cmd \in Commands, Handle(cmd)
  PROVE  /\ \E f \in Frames : f.type \in ReplyTypes /\ writeFrame(f)
         /\ iter' \in [started: BOOLEAN, next: Nat \ {0}, since: Nat, recent: Nat]
         /\ \/ UNCHANGED offline_queue /\ \E f \in Frames : f.type \in ReplyTypes \ {"msg"} /\ writeFrame(f)
            \/ /\ offline_queue # <<>> /\ offline_queue' = Tail(offline_queue)
               /\ Head(offline_queue) \in Message
               /\ Numbered("msg", Head(offline_queue).n) \in Frames
               /\ writeFrame(Numbered("msg", Head(offline_queue).n))
<1>0. /\ iter \in [started: BOOLEAN, next: Nat \ {0}, since: Nat, recent: Nat]
      /\ cmd.n \in Nat /\ offline_queue \in Seq(Message)
  BY DEF TypeOK, Commands
<1>1. \A type \in {"self", "nomore", "count", "err"} :
        /\ type \in ReplyTypes \ {"msg"}
        /\ Frame(type) \in Frames /\ Frame(type).type = type
  BY FramesTyped DEF FrameTypes, ReplyTypes
<1>2. CASE cmd.type = "start"
  <2>1. iter' = [iter EXCEPT !.started = FALSE] /\ writeFrame(Frame("self")) /\ UNCHANGED offline_queue
    BY <1>2 DEF Handle
  <2> QED
    BY <1>0, <1>1, <2>1
<1>3. CASE cmd.type = "sync"
  <2>1. CASE offline_queue = <<>>
    <3>1. writeFrame(Frame("nomore")) /\ UNCHANGED <<offline_queue, iter>>
      BY <1>3, <2>1 DEF Handle
    <3> QED
      BY <1>0, <1>1, <3>1
  <2>2. CASE offline_queue # <<>>
    <3> DEFINE f == Numbered("msg", Head(offline_queue).n)
    <3>1. /\ writeFrame(f) /\ offline_queue' = Tail(offline_queue) /\ UNCHANGED iter
      BY <1>3, <2>2 DEF Handle
    <3>2. Head(offline_queue) \in Message
      BY <1>0, <2>2, HeadTailProperties
    <3>3. f \in Frames /\ f.type = "msg" /\ "msg" \in ReplyTypes
      BY <3>2, FramesTyped DEF FrameTypes, ReplyTypes, Message
    <3> HIDE DEF f
    <3> QED
      BY <1>0, <2>2, <3>1, <3>2, <3>3 DEF f
  <2> QED
    BY <2>1, <2>2
<1>4. CASE cmd.type = "list"
  <2>1. CASE iter.started
    <3>1. writeFrame(Frame("err")) /\ UNCHANGED <<offline_queue, iter>>
      BY <1>4, <2>1 DEF Handle
    <3> QED
      BY <1>0, <1>1, <3>1
  <2>2. CASE ~iter.started
    <3>1. writeFrame(Frame("count")) /\ UNCHANGED offline_queue /\ iter' = ListAnew(cmd.n)
      BY <1>4, <2>2 DEF Handle
    <3>2. ListAnew(cmd.n) \in [started: BOOLEAN, next: Nat \ {0}, since: Nat, recent: Nat]
      BY <1>0 DEF ListAnew
    <3> QED
      BY <1>1, <3>1, <3>2
  <2> QED
    BY <2>1, <2>2
<1>5. CASE cmd.type \notin {"start", "sync", "list"}
  <2>1. writeFrame(Frame("err")) /\ UNCHANGED <<iter, offline_queue>>
    BY <1>5 DEF Handle
  <2> QED
    BY <1>0, <1>1, <2>1
<1> QED
  BY <1>2, <1>3, <1>4, <1>5

LEMMA ShiftTyped ==
  ASSUME TypeOK, ShiftAndHandle
  PROVE  TypeOK'
<1>1. taken \in Commands /\ Handle(taken) /\ recv' = MovedUp
  BY DEF TypeOK, ShiftAndHandle
<1>2. /\ iter' \in [started: BOOLEAN, next: Nat \ {0}, since: Nat, recent: Nat]
      /\ \E f \in Frames : writeFrame(f)
      /\ offline_queue' \in {offline_queue, Tail(offline_queue)}
      /\ offline_queue' # offline_queue => offline_queue # <<>>
  BY <1>1, Handled
<1>3. /\ send_queue' \in Seq(Frames) /\ Len(send_queue') <= FrameQueueSize
      /\ lost' \subseteq FrameTypes
  BY <1>2, Wrote
<1>4. offline_queue' \in Seq(Message) /\ Len(offline_queue') <= OfflineQueueSize
  <2>1. offline_queue \in Seq(Message) /\ Len(offline_queue) <= OfflineQueueSize
        /\ OfflineQueueSize \in Nat /\ Len(offline_queue) \in Nat
    BY LinkAssumption, LenProperties DEF TypeOK
  <2>2. CASE offline_queue' = offline_queue
    BY <2>1, <2>2
  <2>3. CASE offline_queue' # offline_queue
    <3>1. offline_queue' = Tail(offline_queue) /\ offline_queue # <<>>
      BY <1>2, <2>3
    <3>2. Tail(offline_queue) \in Seq(Message) /\ Len(Tail(offline_queue)) = Len(offline_queue) - 1
      BY <2>1, <3>1, HeadTailProperties
    <3>3. Len(Tail(offline_queue)) <= OfflineQueueSize
      <4> DEFINE a == Len(Tail(offline_queue))
                 b == Len(offline_queue)
      <4>1. a = b - 1 /\ b \in Nat /\ b <= OfflineQueueSize /\ OfflineQueueSize \in Nat
        BY <2>1, <3>2
      <4> HIDE DEF a, b
      <4>2. a <= OfflineQueueSize
        BY <4>1
      <4> QED
        BY <4>2 DEF a
    <3> QED
      BY <3>1, <3>2, <3>3
  <2> QED
    BY <2>2, <2>3
<1>5. recv' \in [Slots -> Commands]
  BY <1>1 DEF TypeOK, MovedUp
<1>6. taken' \in Commands /\ pc' = "loop"
  BY DEF ShiftAndHandle, NoCommand, Command, Commands
<1> QED
  BY <1>2, <1>3, <1>4, <1>5, <1>6 DEF TypeOK, ShiftAndHandle, client

(* What the listing writes. *)
LEMMA ListingTyped ==
  ASSUME TypeOK
  PROVE  /\ Written \subseteq Frames /\ \A f \in Written : f.type \in {"contact", "end"}
         /\ MayList => ListStep \in [started: BOOLEAN, next: Nat \ {0}, since: Nat, recent: Nat]
<1>0. /\ iter \in [started: BOOLEAN, next: Nat \ {0}, since: Nat, recent: Nat]
      /\ contacts \in Seq(Contact) /\ Len(contacts) \in Nat
  BY LenProperties DEF TypeOK
<1>1. CASE iter.next > Len(contacts)
  <2>1. ListFrames = {Numbered("end", iter.recent)} /\ ListStep = [iter EXCEPT !.started = FALSE]
    BY <1>1 DEF ListFrames, ListStep
  <2>2. "end" \in FrameTypes
    BY DEF FrameTypes
  <2>3. iter.recent \in Nat
    BY <1>0
  <2>4. Numbered("end", iter.recent) \in Frames /\ Numbered("end", iter.recent).type = "end"
    BY <2>2, <2>3 DEF Numbered, Frames
  <2>5. Written \subseteq {Numbered("end", iter.recent)}
    BY <2>1 DEF Written
  <2>6. ListStep \in [started: BOOLEAN, next: Nat \ {0}, since: Nat, recent: Nat]
    BY <1>0, <2>1
  <2> QED
    BY <2>4, <2>5, <2>6
<1>2. CASE ~(iter.next > Len(contacts))
  <2> DEFINE t == contacts[iter.next].lastmod
             r == IF t > iter.since /\ t > iter.recent THEN t ELSE iter.recent
  <2>1. contacts[iter.next] \in Contact
    BY <1>0, <1>2, ElementOfSeq
  <2>2. r \in Nat
    BY <1>0, <2>1 DEF Contact
  <2>3. ListStep = [iter EXCEPT !.next = iter.next + 1, !.recent = r]
    BY <1>0, <1>2 DEF ListStep
  <2>4. iter.next + 1 \in Nat \ {0}
    BY <1>0
  <2> HIDE DEF r
  <2>5. ListStep \in [started: BOOLEAN, next: Nat \ {0}, since: Nat, recent: Nat]
    BY <1>0, <2>2, <2>3, <2>4
  <2>6. \A f \in ListFrames : \E c \in Contact : f = ContactFrame(c)
    BY <1>2, <2>1 DEF ListFrames
  <2> QED
    BY <2>5, <2>6, FramesTyped DEF Written
<1> QED
  BY <1>1, <1>2

(* Nobody connected: what is in the queues goes. *)
LEMMA NoFrameWrote ==
  ASSUME TypeOK, NoFrame
  PROVE  /\ send_queue' \in Seq(Frames) /\ Len(send_queue') <= FrameQueueSize
         /\ lost' \subseteq FrameTypes
         /\ \/ UNCHANGED <<send_queue, lost, recv_len>>
            \/ /\ UNCHANGED recv_len
               /\ \E f \in Frames : f.type \in {"contact", "end"} /\ writeFrame(f)
            \/ /\ ~Connected /\ UNCHANGED <<send_queue, recv_len>> /\ ~oldDeviceConnected
               /\ \E T \in SUBSET {"contact", "end"} : lost' = lost \cup T
            \/ /\ ~Connected /\ oldDeviceConnected /\ send_queue' = <<>> /\ recv_len' = 0
               /\ lost \cup {send_queue[i].type : i \in 1 .. Len(send_queue)} \subseteq lost'
<1>0. /\ send_queue \in Seq(Frames) /\ Len(send_queue) \in Nat /\ Len(send_queue) <= FrameQueueSize
      /\ lost \subseteq FrameTypes /\ FrameQueueSize \in Nat
  BY LenProperties, LinkAssumption DEF TypeOK
<1>1. CASE Connected
  <2>1. recv_len' = recv_len /\ (\/ UNCHANGED <<send_queue, lost>>
                                 \/ \E f \in Written : writeFrame(f))
    BY <1>1 DEF NoFrame
  <2>2. CASE UNCHANGED <<send_queue, lost>>
    BY <1>0, <2>1, <2>2
  <2>3. CASE \E f \in Written : writeFrame(f)
    BY <2>1, <2>3, ListingTyped, Wrote
  <2> QED
    BY <2>1, <2>2, <2>3
<1>2. CASE ~Connected
  <2> DEFINE W == {f.type : f \in Written}
             C == {f.type : f \in Cleared}
  <2>1. /\ recv_len' = IF oldDeviceConnected THEN 0 ELSE recv_len
        /\ send_queue' = IF oldDeviceConnected THEN <<>> ELSE send_queue
        /\ lost' = lost \cup (C \cup W)
    BY <1>2 DEF NoFrame
  <2>2. W \in SUBSET {"contact", "end"}
    BY ListingTyped
  <2>3. W \subseteq FrameTypes
    BY <2>2 DEF FrameTypes
  <2>4. CASE ~oldDeviceConnected
    <3>1. C = {}
      BY <2>4 DEF Cleared
    <3> HIDE DEF C, W
    <3> QED
      BY <1>0, <1>2, <2>1, <2>2, <2>3, <2>4, <3>1
  <2>5. CASE oldDeviceConnected
    <3>1. C = {send_queue[i].type : i \in 1 .. Len(send_queue)}
      BY <1>0, <2>5, RangeOfSeq, LenProperties DEF Cleared, Range
    <3>2. \A i \in 1 .. Len(send_queue) : send_queue[i].type \in FrameTypes
      <4>1. \A i \in 1 .. Len(send_queue) : send_queue[i] \in Frames
        BY <1>0, ElementOfSeq
      <4>2. \A f \in Frames : f.type \in FrameTypes
        BY DEF Frames
      <4> QED
        BY <4>1, <4>2
    <3>3. C \subseteq FrameTypes
      BY <3>1, <3>2
    <3> HIDE DEF C, W
    <3>4. <<>> \in Seq(Frames) /\ Len(<<>>) = 0
      BY EmptySeq
    <3> QED
      BY <1>0, <1>2, <2>1, <2>3, <2>5, <3>1, <3>3, <3>4
  <2> QED
    BY <2>4, <2>5
<1> QED
  BY <1>1, <1>2

LEMMA NoFrameTyped ==
  ASSUME TypeOK, NoFrame
  PROVE  TypeOK'
<1>1. /\ send_queue' \in Seq(Frames) /\ Len(send_queue') <= FrameQueueSize
      /\ lost' \subseteq FrameTypes
  BY NoFrameWrote
<1>2. recv_len' \in 0 .. FrameQueueSize
  BY LinkAssumption DEF TypeOK, NoFrame
<1>3. iter' \in [started: BOOLEAN, next: Nat \ {0}, since: Nat, recent: Nat]
  BY ListingTyped DEF TypeOK, NoFrame
<1>4. /\ deviceConnected' \in BOOLEAN /\ oldDeviceConnected' \in BOOLEAN
  <2>1. Connected \in BOOLEAN
    BY DEF Connected, TypeOK
  <2> QED
    BY <2>1 DEF NoFrame
<1>5. disturbed' \in BOOLEAN
  <2>1. (disturbed \/ (Connected /\ ~Fits /\ \E f \in Written : f.type = "contact")) \in BOOLEAN
    BY Zenon
  <2> QED
    BY <2>1 DEF NoFrame
<1>6. pc' = "loop" /\ connections' = 0
  BY DEF NoFrame
<1> QED
  BY <1>1, <1>2, <1>3, <1>4, <1>5, <1>6 DEF TypeOK, NoFrame, client

LEMMA ReadyTyped ==
  ASSUME TypeOK, Ready
  PROVE  TypeOK'
BY DEF TypeOK, Ready, device, loopAt, client, past

LEMMA NextTyped ==
  ASSUME TypeOK, [Next]_vars
  PROVE  TypeOK'
<1>1. CASE Next
  BY <1>1, MessageTyped, PushTyped, ChangeTyped, TickTyped, ConnectTyped, DisconnectTyped,
     AppTyped, LoopStartsTyped, ShiftTyped, NoFrameTyped, ReadyTyped DEF Next, LoopStep
<1>2. CASE UNCHANGED vars
  BY <1>2 DEF TypeOK, vars, device, loopAt, ble, client, past
<1> QED
  BY <1>1, <1>2

LEMMA InitTyped ==
  ASSUME Init
  PROVE  TypeOK
<1>1. FrameQueueSize \in Nat /\ OfflineQueueSize \in Nat /\ left \in [Kinds -> Nat]
  BY LinkAssumption DEF Init
<1>2. NoCommand \in Commands /\ iter \in [started: BOOLEAN, next: Nat \ {0}, since: Nat, recent: Nat]
  BY DEF NoCommand, Command, Commands, Init, NewIter
<1>3. app \in AppState
  BY DEF Init, AppState
<1>4. recv \in [Slots -> Commands]
  BY <1>2 DEF Init
<1>5. /\ offline_queue = <<>> /\ offline_queue \in Seq(Message)
      /\ contacts \in Seq(Contact)
      /\ send_queue = <<>> /\ send_queue \in Seq(Frames)
      /\ got \in Seq(Nat) /\ arrived \in Seq(BOOLEAN)
  BY EmptySeq DEF Init
<1>6. Len(offline_queue) <= OfflineQueueSize /\ Len(send_queue) <= FrameQueueSize
  <2>1. Len(offline_queue) = 0 /\ Len(send_queue) = 0
    BY <1>5, EmptySeq
  <2> QED
    BY <1>1, <2>1
<1>7. /\ deviceConnected \in BOOLEAN /\ oldDeviceConnected \in BOOLEAN
      /\ busy \in BOOLEAN /\ peer \in BOOLEAN /\ cut \in BOOLEAN /\ disturbed \in BOOLEAN
  BY DEF Init
<1>8. /\ now \in Nat /\ pc \in {"loop", "shift", "count"} /\ connections \in {0, 1}
      /\ recv_len \in 0 .. FrameQueueSize /\ lost \subseteq FrameTypes /\ taken \in Commands
  BY <1>1, <1>2 DEF Init
<1> QED
  BY <1>1, <1>2, <1>3, <1>4, <1>5, <1>6, <1>7, <1>8 DEF TypeOK

(* Types of the state of device, interface and app. *)
THEOREM TypeCorrect == Spec => []TypeOK
BY InitTyped, NextTyped, PTL DEF Spec

------------------------------------------------------------------------------
(* The order of messages *)

Increasing(s)  == \A i, j \in 1 .. Len(s) : i < j => s[i] < s[j]
MsgsOrdered(s) == \A i, j \in 1 .. Len(s) :
                    i < j /\ s[i].type = "msg" /\ s[j].type = "msg" => s[i].n < s[j].n
MsgsOf(s)      == {s[i].n : i \in {j \in 1 .. Len(s) : s[j].type = "msg"}}
NumbersOf(q)   == {q[i].n : i \in 1 .. Len(q)}

(* The inductive invariant: besides the order, there is no message that did *)
(* not come in.                                                            *)
OrderInv ==
  /\ Increasing(got) /\ MsgsOrdered(send_queue) /\ Ordered(offline_queue)
  /\ Before(Range(got), MsgsOf(send_queue))
  /\ Before(Range(got) \cup MsgsOf(send_queue), NumbersOf(offline_queue))
  /\ Range(got) \cup MsgsOf(send_queue) \cup NumbersOf(offline_queue) \subseteq 1 .. Len(arrived)

(* A frame that is not a message is appended. *)
LEMMA OtherAppended ==
  ASSUME NEW s \in Seq(Frames), NEW f \in Frames, f.type # "msg"
  PROVE  MsgsOf(Append(s, f)) = MsgsOf(s) /\ (MsgsOrdered(s) => MsgsOrdered(Append(s, f)))
<1> DEFINE t == Append(s, f)
<1>1. /\ Len(s) \in Nat /\ Len(t) = Len(s) + 1 /\ t[Len(s) + 1] = f
      /\ \A i \in 1 .. Len(s) : t[i] = s[i]
  BY AppendProperties, LenProperties
<1> HIDE DEF t
<1>2. {j \in 1 .. Len(t) : t[j].type = "msg"} = {j \in 1 .. Len(s) : s[j].type = "msg"}
  BY <1>1
<1>3. MsgsOf(t) = MsgsOf(s)
  BY <1>1, <1>2 DEF MsgsOf
<1>4. ASSUME MsgsOrdered(s)
      PROVE  MsgsOrdered(t)
  BY <1>1, <1>2, <1>4 DEF MsgsOrdered
<1> QED
  BY <1>3, <1>4 DEF t

(* A message later than all others is appended. *)
LEMMA MsgAppended ==
  ASSUME NEW s \in Seq(Frames), NEW f \in Frames, f.type = "msg",
         MsgsOrdered(s), \A n \in MsgsOf(s) : n < f.n
  PROVE  MsgsOf(Append(s, f)) = MsgsOf(s) \cup {f.n} /\ MsgsOrdered(Append(s, f))
<1> DEFINE t == Append(s, f)
<1>1. /\ Len(s) \in Nat /\ Len(t) = Len(s) + 1 /\ t[Len(s) + 1] = f
      /\ \A i \in 1 .. Len(s) : t[i] = s[i]
  BY AppendProperties, LenProperties
<1> HIDE DEF t
<1>2. MsgsOf(t) = MsgsOf(s) \cup {f.n}
  <2>1. {j \in 1 .. Len(t) : t[j].type = "msg"}
          = {j \in 1 .. Len(s) : s[j].type = "msg"} \cup {Len(s) + 1}
    BY <1>1
  <2> QED
    BY <1>1, <2>1 DEF MsgsOf
<1>3. MsgsOrdered(t)
  <2> SUFFICES ASSUME NEW i \in 1 .. Len(t), NEW j \in 1 .. Len(t),
                      i < j, t[i].type = "msg", t[j].type = "msg"
               PROVE  t[i].n < t[j].n
    BY DEF MsgsOrdered
  <2>1. i \in 1 .. Len(s) /\ t[i] = s[i]
    BY <1>1
  <2>2. CASE j \in 1 .. Len(s)
    BY <1>1, <2>1, <2>2 DEF MsgsOrdered
  <2>3. CASE j = Len(s) + 1
    <3>1. s[i].n \in MsgsOf(s)
      BY <2>1 DEF MsgsOf
    <3> QED
      BY <1>1, <2>1, <2>3, <3>1
  <2> QED
    BY <1>1, <2>2, <2>3
<1> QED
  BY <1>2, <1>3 DEF t

(* The first frame leaves. *)
LEMMA MsgLeaves ==
  ASSUME NEW s \in Seq(Frames), s # <<>>, MsgsOrdered(s)
  PROVE  /\ MsgsOf(Tail(s)) \subseteq MsgsOf(s) /\ MsgsOrdered(Tail(s))
         /\ Head(s).type = "msg" => /\ Head(s).n \in MsgsOf(s)
                                    /\ \A n \in MsgsOf(Tail(s)) : Head(s).n < n
<1> DEFINE t == Tail(s)
           h == Head(s)
<1>1. /\ Len(s) \in Nat \ {0} /\ Len(t) = Len(s) - 1 /\ h = s[1]
      /\ \A i \in 1 .. Len(t) : t[i] = s[i + 1]
  BY HeadTailProperties, LenProperties, EmptySeq
<1> HIDE DEF t, h
<1>2. \A i \in 1 .. Len(t) : i + 1 \in 1 .. Len(s) /\ 1 < i + 1 /\ t[i] = s[i + 1]
  BY <1>1
<1>3. MsgsOf(t) \subseteq MsgsOf(s)
  BY <1>2 DEF MsgsOf
<1>4. MsgsOrdered(t)
  <2> SUFFICES ASSUME NEW i \in 1 .. Len(t), NEW j \in 1 .. Len(t),
                      i < j, t[i].type = "msg", t[j].type = "msg"
               PROVE  t[i].n < t[j].n
    BY DEF MsgsOrdered
  <2>1. i + 1 < j + 1
    BY <1>1
  <2> QED
    BY <1>2, <2>1 DEF MsgsOrdered
<1>5. ASSUME h.type = "msg"
      PROVE  h.n \in MsgsOf(s) /\ \A n \in MsgsOf(t) : h.n < n
  <2>1. 1 \in 1 .. Len(s)
    BY <1>1
  <2> QED
    BY <1>1, <1>2, <1>5, <2>1 DEF MsgsOf, MsgsOrdered
<1> QED
  BY <1>3, <1>4, <1>5 DEF t, h

(* The same of the queue of messages. *)
LEMMA QueueLeaves ==
  ASSUME NEW q \in Seq(Message), q # <<>>, Ordered(q)
  PROVE  /\ NumbersOf(Tail(q)) \subseteq NumbersOf(q) /\ Ordered(Tail(q))
         /\ Head(q).n \in NumbersOf(q) /\ \A n \in NumbersOf(Tail(q)) : Head(q).n < n
<1> DEFINE t == Tail(q)
           h == Head(q)
<1>1. /\ Len(q) \in Nat \ {0} /\ Len(t) = Len(q) - 1 /\ h = q[1]
      /\ \A i \in 1 .. Len(t) : t[i] = q[i + 1]
  BY HeadTailProperties, LenProperties, EmptySeq
<1> HIDE DEF t, h
<1>2. \A i \in 1 .. Len(t) : i + 1 \in 1 .. Len(q) /\ 1 < i + 1 /\ t[i] = q[i + 1]
  BY <1>1
<1>3. NumbersOf(t) \subseteq NumbersOf(q)
  BY <1>2 DEF NumbersOf
<1>4. Ordered(t)
  <2> SUFFICES ASSUME NEW i \in 1 .. Len(t), NEW j \in 1 .. Len(t), i < j
               PROVE  t[i].n < t[j].n
    BY DEF Ordered
  <2>1. i + 1 < j + 1
    BY <1>1
  <2> QED
    BY <1>2, <2>1 DEF Ordered
<1>5. h.n \in NumbersOf(q) /\ \A n \in NumbersOf(t) : h.n < n
  <2>1. 1 \in 1 .. Len(q)
    BY <1>1
  <2> QED
    BY <1>1, <1>2, <2>1 DEF NumbersOf, Ordered
<1> QED
  BY <1>3, <1>4, <1>5 DEF t, h

(* A message that is later than all others comes in. *)
LEMMA QueueGrows ==
  ASSUME offline_queue \in Seq(Message), Len(offline_queue) <= OfflineQueueSize,
         NEW m \in Message, Ordered(offline_queue), \A n \in NumbersOf(offline_queue) : n < m.n
  PROVE  LET new == addToOfflineQueue(m)
         IN  Ordered(new) /\ NumbersOf(new) \subseteq NumbersOf(offline_queue) \cup {m.n}
<1> DEFINE q   == offline_queue
           new == addToOfflineQueue(m)
<1>0. Len(q) \in Nat /\ OfflineQueueSize \in Nat \ {0}
  BY LenProperties, LinkAssumption
<1>1. /\ new \in Seq(Message)
      /\ \/ new = Append(q, m)
         \/ /\ Len(q) = OfflineQueueSize /\ Len(new) = Len(q) /\ new[Len(q)] = m
            /\ \E k \in 1 .. Len(q) :
                 \A i \in 1 .. Len(q) - 1 : new[i] = IF i < k THEN q[i] ELSE q[i + 1]
         \/ new = q
  BY Added
<1> HIDE DEF new
<1>2. \A i \in 1 .. Len(q) : q[i].n < m.n
  BY DEF NumbersOf
<1>3. CASE new = Append(q, m)
  <2>1. Len(new) = Len(q) + 1 /\ new[Len(q) + 1] = m /\ \A i \in 1 .. Len(q) : new[i] = q[i]
    BY <1>3, AppendProperties
  <2>2. \A i \in 1 .. Len(new) : i \in 1 .. Len(q) \/ i = Len(q) + 1
    BY <1>0, <2>1
  <2>3. NumbersOf(new) \subseteq NumbersOf(q) \cup {m.n}
    BY <2>1, <2>2 DEF NumbersOf
  <2>4. Ordered(new)
    <3> SUFFICES ASSUME NEW i \in 1 .. Len(new), NEW j \in 1 .. Len(new), i < j
                 PROVE  new[i].n < new[j].n
      BY DEF Ordered
    <3>1. i \in 1 .. Len(q)
      BY <1>0, <2>1
    <3> QED
      BY <1>2, <2>1, <2>2, <3>1 DEF Ordered
  <2> QED
    BY <2>3, <2>4 DEF new
<1>4. CASE /\ Len(q) = OfflineQueueSize /\ Len(new) = Len(q) /\ new[Len(q)] = m
           /\ \E k \in 1 .. Len(q) :
                \A i \in 1 .. Len(q) - 1 : new[i] = IF i < k THEN q[i] ELSE q[i + 1]
  <2>1. PICK k \in 1 .. Len(q) : \A i \in 1 .. Len(q) - 1 : new[i] = IF i < k THEN q[i] ELSE q[i + 1]
    BY <1>4
  <2> DEFINE at(i) == IF i < k THEN i ELSE i + 1
  <2>2. \A i \in 1 .. Len(q) - 1 : at(i) \in 1 .. Len(q) /\ new[i] = q[at(i)]
    BY <1>0, <2>1
  <2>3. \A i, j \in 1 .. Len(q) - 1 : i < j => at(i) < at(j)
    BY <1>0, <2>1
  <2> HIDE DEF at
  <2>4. \A i \in 1 .. Len(new) : i \in 1 .. Len(q) - 1 \/ i = Len(q)
    BY <1>0, <1>4
  <2>5. NumbersOf(new) \subseteq NumbersOf(q) \cup {m.n}
    BY <1>4, <2>2, <2>4 DEF NumbersOf
  <2>6. Ordered(new)
    <3> SUFFICES ASSUME NEW i \in 1 .. Len(new), NEW j \in 1 .. Len(new), i < j
                 PROVE  new[i].n < new[j].n
      BY DEF Ordered
    <3>1. i \in 1 .. Len(q) - 1
      BY <1>0, <1>4
    <3>2. CASE j \in 1 .. Len(q) - 1
      BY <2>2, <2>3, <3>1, <3>2 DEF Ordered
    <3>3. CASE j = Len(q)
      BY <1>2, <1>4, <2>2, <3>1, <3>3
    <3> QED
      BY <2>4, <3>2, <3>3
  <2> QED
    BY <2>5, <2>6 DEF new
<1>5. CASE new = q
  BY <1>5 DEF new
<1> QED
  BY <1>1, <1>3, <1>4, <1>5

(* A later message is received. *)
LEMMA GotGrows ==
  ASSUME NEW g \in Seq(Nat), NEW n \in Nat, Increasing(g), \A m \in Range(g) : m < n
  PROVE  Increasing(Append(g, n)) /\ Range(Append(g, n)) = Range(g) \cup {n}
<1> DEFINE t == Append(g, n)
<1>1. /\ t \in Seq(Nat) /\ Len(g) \in Nat /\ Len(t) = Len(g) + 1 /\ t[Len(g) + 1] = n
      /\ \A i \in 1 .. Len(g) : t[i] = g[i]
  BY AppendProperties, LenProperties
<1>2. Range(g) = {g[i] : i \in 1 .. Len(g)} /\ Range(t) = {t[i] : i \in 1 .. Len(t)}
  BY <1>1, RangeEquality
<1> HIDE DEF t
<1>3. \A i \in 1 .. Len(t) : i \in 1 .. Len(g) \/ i = Len(g) + 1
  BY <1>1
<1>4. Range(t) = Range(g) \cup {n}
  <2>1. 1 .. Len(t) = (1 .. Len(g)) \cup {Len(g) + 1}
    BY <1>1
  <2> QED
    BY <1>1, <1>2, <2>1
<1>5. Increasing(t)
  <2> SUFFICES ASSUME NEW i \in 1 .. Len(t), NEW j \in 1 .. Len(t), i < j
               PROVE  t[i] < t[j]
    BY DEF Increasing
  <2>1. i \in 1 .. Len(g)
    BY <1>1
  <2>2. g[i] < n
    BY <1>2, <2>1
  <2> QED
    BY <1>1, <1>3, <2>1, <2>2 DEF Increasing
<1> QED
  BY <1>4, <1>5 DEF t

(* The numbers of messages are natural numbers. *)
LEMMA NumbersTyped ==
  ASSUME TypeOK
  PROVE  /\ Range(got) \subseteq Nat /\ MsgsOf(send_queue) \subseteq Nat
         /\ NumbersOf(offline_queue) \subseteq Nat
         /\ Len(arrived) \in Nat
<1>1. got \in Seq(Nat) /\ send_queue \in Seq(Frames) /\ offline_queue \in Seq(Message)
      /\ arrived \in Seq(BOOLEAN)
  BY DEF TypeOK
<1>2. Range(got) \subseteq Nat /\ Len(arrived) \in Nat
  BY <1>1, RangeOfSeq, LenProperties
<1>3. MsgsOf(send_queue) \subseteq Nat
  <2>1. \A i \in 1 .. Len(send_queue) : send_queue[i] \in Frames
    BY <1>1, ElementOfSeq
  <2> QED
    BY <2>1 DEF MsgsOf, Frames
<1>4. NumbersOf(offline_queue) \subseteq Nat
  <2>1. \A i \in 1 .. Len(offline_queue) : offline_queue[i] \in Message
    BY <1>1, ElementOfSeq
  <2> QED
    BY <2>1 DEF NumbersOf, Message
<1> QED
  BY <1>2, <1>3, <1>4

(* Steps that move no message. *)
LEMMA QuietKeepsOrder ==
  ASSUME OrderInv, UNCHANGED <<got, offline_queue, arrived>>,
         MsgsOrdered(send_queue'), MsgsOf(send_queue') \subseteq MsgsOf(send_queue)
  PROVE  OrderInv'
BY DEF OrderInv, Before

LEMMA SameKeepsOrder ==
  ASSUME OrderInv, UNCHANGED <<got, offline_queue, arrived, send_queue>>
  PROVE  OrderInv'
BY DEF OrderInv, Before

(* What is written is not a message, or does not fit. *)
LEMMA OtherWritten ==
  ASSUME TypeOK, MsgsOrdered(send_queue), NEW f \in Frames, f.type # "msg",
         send_queue' = Append(send_queue, f) \/ send_queue' = send_queue
  PROVE  MsgsOrdered(send_queue') /\ MsgsOf(send_queue') = MsgsOf(send_queue)
<1>1. send_queue \in Seq(Frames)
  BY DEF TypeOK
<1>2. CASE send_queue' = Append(send_queue, f)
  BY <1>1, <1>2, OtherAppended
<1>3. CASE send_queue' = send_queue
  BY <1>3
<1> QED
  BY <1>2, <1>3

LEMMA MessageKeepsOrder ==
  ASSUME TypeOK, OrderInv, NEW private \in BOOLEAN, MessageArrives(private)
  PROVE  OrderInv'
<1> DEFINE N == Len(arrived)
           m == [n |-> Len(arrived'), private |-> private]
<1>1. arrived' = Append(arrived, private) /\ got' = got /\ offline_queue' = addToOfflineQueue(m)
      /\ Notify(Frame("tickle"))
  BY DEF MessageArrives, client
<1>2. N \in Nat /\ Len(arrived') = N + 1
  <2>1. arrived \in Seq(BOOLEAN)
    BY DEF TypeOK
  <2> QED
    BY <1>1, <2>1, AppendProperties, LenProperties
<1>3. Ordered(offline_queue') /\ NumbersOf(offline_queue') \subseteq NumbersOf(offline_queue) \cup {N + 1}
  <2>1. m.n = N + 1 /\ m \in Message
    BY <1>2 DEF Message
  <2> HIDE DEF m
  <2>2. \A n \in NumbersOf(offline_queue) : n < m.n
    BY <1>2, <2>1 DEF OrderInv
  <2>3. PICK x \in Message : x = m
    BY <2>1
  <2>4. Ordered(addToOfflineQueue(x))
        /\ NumbersOf(addToOfflineQueue(x)) \subseteq NumbersOf(offline_queue) \cup {x.n}
    BY <2>2, <2>3, QueueGrows DEF TypeOK, OrderInv
  <2> QED
    BY <1>1, <2>1, <2>3, <2>4
<1>4. MsgsOrdered(send_queue') /\ MsgsOf(send_queue') = MsgsOf(send_queue)
  <2>1. Frame("tickle") \in Frames /\ Frame("tickle").type = "tickle"
    BY FramesTyped DEF FrameTypes
  <2>2. send_queue' = Append(send_queue, Frame("tickle")) \/ send_queue' = send_queue
    BY <1>1, <2>1, Notified
  <2> QED
    BY <2>1, <2>2, OtherWritten DEF OrderInv
<1>5. Range(got) \cup MsgsOf(send_queue) \cup NumbersOf(offline_queue) \subseteq 1 .. N
  BY DEF OrderInv
<1> HIDE DEF N, m
<1>6. Before(Range(got) \cup MsgsOf(send_queue), NumbersOf(offline_queue'))
  <2>1. \A k \in 1 .. N : k < N + 1
    BY <1>2
  <2> QED
    BY <1>3, <1>5, <2>1 DEF OrderInv, Before
<1>7. Range(got) \cup MsgsOf(send_queue) \cup NumbersOf(offline_queue') \subseteq 1 .. N + 1
  <2>1. 1 .. N \subseteq 1 .. N + 1 /\ N + 1 \in 1 .. N + 1
    BY <1>2
  <2> QED
    BY <1>3, <1>5, <2>1
<1> QED
  BY <1>1, <1>2, <1>3, <1>4, <1>6, <1>7 DEF OrderInv, N

LEMMA PushKeepsOrder ==
  ASSUME TypeOK, OrderInv, Push
  PROVE  OrderInv'
<1>1. Frame("push") \in Frames /\ Frame("push").type = "push"
  BY FramesTyped DEF FrameTypes
<1>2. send_queue' = Append(send_queue, Frame("push")) \/ send_queue' = send_queue
  BY <1>1, Notified DEF Push
<1>3. MsgsOrdered(send_queue') /\ MsgsOf(send_queue') = MsgsOf(send_queue)
  BY <1>1, <1>2, OtherWritten DEF OrderInv
<1> QED
  BY <1>3, QuietKeepsOrder DEF Push, device, client

(* A frame leaves: a message among them is the latest the app has. *)
LEMMA LoopStartsKeepsOrder ==
  ASSUME TypeOK, OrderInv, LoopStarts
  PROVE  OrderInv'
<1>1. UNCHANGED <<offline_queue, arrived>> /\ SendOne
  BY DEF LoopStarts, device
<1>2. CASE UNCHANGED <<send_queue, got>>
  BY <1>1, <1>2, SameKeepsOrder
<1>3. CASE /\ send_queue # <<>> /\ send_queue' = Tail(send_queue)
           /\ got' = got
  <2>1. MsgsOrdered(send_queue') /\ MsgsOf(send_queue') \subseteq MsgsOf(send_queue)
    BY <1>3, MsgLeaves DEF TypeOK, OrderInv
  <2> QED
    BY <1>1, <1>3, <2>1, QuietKeepsOrder
<1>4. CASE /\ send_queue # <<>> /\ send_queue' = Tail(send_queue)
           /\ Head(send_queue).type = "msg" /\ got' = Append(got, Head(send_queue).n)
  <2>1. /\ MsgsOf(send_queue') \subseteq MsgsOf(send_queue) /\ MsgsOrdered(send_queue')
        /\ Head(send_queue).n \in MsgsOf(send_queue)
        /\ \A k \in MsgsOf(send_queue') : Head(send_queue).n < k
    BY <1>4, MsgLeaves DEF TypeOK, OrderInv
  <2>2. PICK n \in Nat : n = Head(send_queue).n
    BY <2>1, NumbersTyped
  <2>3. Increasing(got') /\ Range(got') = Range(got) \cup {n}
    <3>1. got \in Seq(Nat) /\ Increasing(got) /\ \A k \in Range(got) : k < n
      BY <2>1, <2>2 DEF TypeOK, OrderInv, Before
    <3> QED
      BY <1>4, <2>2, <3>1, GotGrows
  <2> QED
    BY <1>1, <2>1, <2>2, <2>3 DEF OrderInv, Before
<1> QED
  BY <1>1, <1>2, <1>3, <1>4, Sent

(* A command is handled: the first message of the one queue becomes the    *)
(* last of the other, or is lost.                                          *)
LEMMA ShiftKeepsOrder ==
  ASSUME TypeOK, OrderInv, ShiftAndHandle
  PROVE  OrderInv'
<1>1. taken \in Commands /\ Handle(taken) /\ UNCHANGED <<got, arrived>>
  BY DEF TypeOK, ShiftAndHandle, client
<1>2. CASE UNCHANGED offline_queue /\ \E f \in Frames : f.type \in ReplyTypes \ {"msg"} /\ writeFrame(f)
  <2>1. PICK f \in Frames : f.type # "msg" /\ writeFrame(f)
    BY <1>2
  <2>2. send_queue' = Append(send_queue, f) \/ send_queue' = send_queue
    BY <2>1, Wrote
  <2>3. MsgsOrdered(send_queue') /\ MsgsOf(send_queue') = MsgsOf(send_queue)
    BY <2>1, <2>2, OtherWritten DEF OrderInv
  <2> QED
    BY <1>1, <1>2, <2>3, QuietKeepsOrder
<1>3. CASE /\ offline_queue # <<>> /\ offline_queue' = Tail(offline_queue)
           /\ Head(offline_queue) \in Message
           /\ Numbered("msg", Head(offline_queue).n) \in Frames
           /\ writeFrame(Numbered("msg", Head(offline_queue).n))
  <2>1. /\ NumbersOf(offline_queue') \subseteq NumbersOf(offline_queue) /\ Ordered(offline_queue')
        /\ Head(offline_queue).n \in NumbersOf(offline_queue)
        /\ \A k \in NumbersOf(offline_queue') : Head(offline_queue).n < k
    BY <1>3, QueueLeaves DEF TypeOK, OrderInv
  <2>2. PICK n \in Nat : n = Head(offline_queue).n
    BY <2>1, NumbersTyped
  <2>3. PICK f \in Frames : f = Numbered("msg", n)
    BY <1>3, <2>2
  <2>4. f.type = "msg" /\ f.n = n
    BY <2>3 DEF Numbered
  <2>5. send_queue' = Append(send_queue, f) \/ send_queue' = send_queue
    BY <1>3, <2>2, <2>3, Wrote
  <2>6. MsgsOrdered(send_queue') /\ MsgsOf(send_queue') \subseteq MsgsOf(send_queue) \cup {n}
    <3>1. send_queue \in Seq(Frames) /\ MsgsOrdered(send_queue)
          /\ \A k \in MsgsOf(send_queue) : k < n
      BY <2>1, <2>2 DEF TypeOK, OrderInv, Before
    <3> QED
      BY <2>4, <2>5, <3>1, MsgAppended
  <2>7. Before(Range(got), MsgsOf(send_queue'))
    BY <2>1, <2>2, <2>6 DEF OrderInv, Before
  <2>8. Before(Range(got) \cup MsgsOf(send_queue'), NumbersOf(offline_queue'))
    BY <2>1, <2>2, <2>6 DEF OrderInv, Before
  <2> QED
    BY <1>1, <2>1, <2>2, <2>6, <2>7, <2>8 DEF OrderInv
<1> QED
  BY <1>1, <1>2, <1>3, Handled

LEMMA NoFrameKeepsOrder ==
  ASSUME TypeOK, OrderInv, NoFrame
  PROVE  OrderInv'
<1>1. UNCHANGED <<got, offline_queue, arrived>>
  BY DEF NoFrame, client
<1>2. CASE UNCHANGED send_queue
  BY <1>1, <1>2, SameKeepsOrder
<1>3. CASE \E f \in Frames : f.type \in {"contact", "end"} /\ writeFrame(f)
  <2>1. PICK f \in Frames : f.type # "msg" /\ writeFrame(f)
    BY <1>3
  <2>2. send_queue' = Append(send_queue, f) \/ send_queue' = send_queue
    BY <2>1, Wrote
  <2>3. MsgsOrdered(send_queue') /\ MsgsOf(send_queue') = MsgsOf(send_queue)
    BY <2>1, <2>2, OtherWritten DEF OrderInv
  <2> QED
    BY <1>1, <2>3, QuietKeepsOrder
<1>4. CASE send_queue' = <<>>
  <2>1. MsgsOf(<<>>) = {} /\ MsgsOrdered(<<>>)
    BY EmptySeq DEF MsgsOf, MsgsOrdered
  <2> QED
    BY <1>1, <1>4, <2>1, QuietKeepsOrder
<1> QED
  BY <1>2, <1>3, <1>4, NoFrameWrote

LEMMA NextKeepsOrder ==
  ASSUME TypeOK, OrderInv, [Next]_vars
  PROVE  OrderInv'
<1>1. CASE \E private \in BOOLEAN : MessageArrives(private)
  BY <1>1, MessageKeepsOrder
<1>2. CASE Push
  BY <1>2, PushKeepsOrder
<1>3. CASE \E id \in Contacts : ContactChanges(id)
  BY <1>3, SameKeepsOrder DEF ContactChanges, ble, client
<1>4. CASE Tick \/ Connect \/ Disconnect \/ Ready \/ UNCHANGED vars
  BY <1>4, SameKeepsOrder DEF Tick, Connect, Disconnect, Ready, vars, device, ble, client, past
<1>5. CASE AppStep
  BY <1>5, SameKeepsOrder
     DEF AppStep, AppStarts, AppFetches, AppLists, AppSends, device, past
<1>6. CASE LoopStep
  BY <1>6, LoopStartsKeepsOrder, ShiftKeepsOrder, NoFrameKeepsOrder DEF LoopStep
<1> QED
  BY <1>1, <1>2, <1>3, <1>4, <1>5, <1>6 DEF Next

LEMMA InitOrdered ==
  ASSUME Init
  PROVE  OrderInv
<1>1. Len(<<>>) = 0 /\ Range(<<>>) = {}
  BY EmptySeq DEF Range
<1>2. got = <<>> /\ send_queue = <<>> /\ offline_queue = <<>>
  BY DEF Init
<1> QED
  BY <1>1, <1>2 DEF OrderInv, Increasing, MsgsOrdered, Ordered, Before, MsgsOf, NumbersOf

(* Messages reach the app in the order in which they came in, through a    *)
(* queue that gives up some in its middle, frames that are thrown away and *)
(* connections that break (addToOfflineQueue, getFromOfflineQueue).        *)
THEOREM MessagesStayInOrder == Spec => []MessagesInOrder
<1>1. OrderInv => MessagesInOrder
  BY DEF OrderInv, MessagesInOrder, Increasing, MsgsOrdered, MsgsOf, NumbersOf, Sending, Queued
<1> QED
  BY <1>1, TypeCorrect, InitOrdered, NextKeepsOrder, PTL DEF Spec

------------------------------------------------------------------------------
(* Private messages stay *)

Placed == NumbersOf(offline_queue) \cup MsgsOf(send_queue) \cup Range(got)
Gone   == (1 .. Len(arrived)) \ Placed

(* The queue knows which messages are private. *)
KindsKept ==
  \A i \in 1 .. Len(offline_queue) : offline_queue[i].private = arrived[offline_queue[i].n]

OnlyChannelsGone ==
  /\ Cardinality(Private) <= OfflineQueueSize => Private \cap Gone = {}
  /\ \A g \in Gone \ Private, n \in NumbersOf(offline_queue) \ Private : g < n

(* The inductive invariant, with OrderInv. *)
KeepInv == KindsKept /\ ("msg" \notin lost => OnlyChannelsGone)

(* What the first of the frames, or of the messages, takes away. *)
LEMMA MsgsOfTail ==
  ASSUME NEW s \in Seq(Frames), s # <<>>
  PROVE  /\ Head(s).type = "msg" => MsgsOf(s) = MsgsOf(Tail(s)) \cup {Head(s).n}
         /\ Head(s).type # "msg" => MsgsOf(s) = MsgsOf(Tail(s))
<1> DEFINE t == Tail(s)
           h == Head(s)
<1>1. /\ Len(s) \in Nat \ {0} /\ Len(t) = Len(s) - 1 /\ h = s[1]
      /\ \A i \in 1 .. Len(t) : t[i] = s[i + 1]
  BY HeadTailProperties, LenProperties, EmptySeq
<1> HIDE DEF t, h
<1>2. \A i \in 1 .. Len(t) : i + 1 \in 1 .. Len(s) /\ t[i] = s[i + 1]
  BY <1>1
<1>3. \A i \in 1 .. Len(s) : i = 1 \/ (i - 1 \in 1 .. Len(t) /\ t[i - 1] = s[i])
  BY <1>1
<1>4. MsgsOf(t) \subseteq MsgsOf(s)
  BY <1>2 DEF MsgsOf
<1>5. \A n \in MsgsOf(s) : n \in MsgsOf(t) \/ (h.type = "msg" /\ n = h.n)
  BY <1>1, <1>3 DEF MsgsOf
<1>6. h.type = "msg" => h.n \in MsgsOf(s)
  BY <1>1 DEF MsgsOf
<1> QED
  BY <1>4, <1>5, <1>6 DEF t, h

LEMMA NumbersOfTail ==
  ASSUME NEW q \in Seq(Message), q # <<>>
  PROVE  /\ NumbersOf(q) = NumbersOf(Tail(q)) \cup {Head(q).n}
         /\ \A i \in 1 .. Len(Tail(q)) : i + 1 \in 1 .. Len(q) /\ Tail(q)[i] = q[i + 1]
<1> DEFINE t == Tail(q)
           h == Head(q)
<1>1. /\ Len(q) \in Nat \ {0} /\ Len(t) = Len(q) - 1 /\ h = q[1]
      /\ \A i \in 1 .. Len(t) : t[i] = q[i + 1]
  BY HeadTailProperties, LenProperties, EmptySeq
<1> HIDE DEF t, h
<1>2. \A i \in 1 .. Len(t) : i + 1 \in 1 .. Len(q) /\ t[i] = q[i + 1]
  BY <1>1
<1>3. \A i \in 1 .. Len(q) : i = 1 \/ (i - 1 \in 1 .. Len(t) /\ t[i - 1] = q[i])
  BY <1>1
<1>4. NumbersOf(t) \subseteq NumbersOf(q) /\ h.n \in NumbersOf(q)
  BY <1>1, <1>2 DEF NumbersOf
<1>5. \A n \in NumbersOf(q) : n \in NumbersOf(t) \/ n = h.n
  BY <1>1, <1>3 DEF NumbersOf
<1> QED
  BY <1>2, <1>4, <1>5 DEF t, h

(* The numbers in an ordered queue are as many as its messages. *)
LEMMA NumbersCounted ==
  ASSUME NEW q \in Seq(Message), Ordered(q)
  PROVE  IsFiniteSet(NumbersOf(q)) /\ Cardinality(NumbersOf(q)) = Len(q)
<1> DEFINE I == 1 .. Len(q)
           f == [i \in I |-> q[i].n]
<1>1. Len(q) \in Nat /\ \A i \in I : q[i].n \in Nat
  <2>1. Len(q) \in Nat /\ \A i \in I : q[i] \in Message
    BY LenProperties, ElementOfSeq
  <2> HIDE DEF I
  <2> QED
    BY <2>1 DEF Message
<1>2. \A i, j \in I : f[i] = f[j] => i = j
  <2> SUFFICES ASSUME NEW i \in I, NEW j \in I, i # j
               PROVE  q[i].n # q[j].n
    OBVIOUS
  <2>1. i < j \/ j < i
    BY <1>1
  <2> QED
    BY <1>1, <2>1 DEF Ordered
<1>3. f \in Bijection(I, NumbersOf(q))
  <2>1. f \in [I -> NumbersOf(q)] /\ \A t \in NumbersOf(q) : \E i \in I : f[i] = t
    BY DEF NumbersOf
  <2>2. f \in Injection(I, NumbersOf(q)) /\ f \in Surjection(I, NumbersOf(q))
    BY <1>2, <2>1 DEF Injection, Surjection, IsInjective
  <2> QED
    BY <2>2 DEF Bijection
<1>4. IsFiniteSet(I) /\ Cardinality(I) = Len(q)
  <2>1. IsFiniteSet(I) /\ Cardinality(I) = IF 1 > Len(q) THEN 0 ELSE Len(q) - 1 + 1
    BY <1>1, FS_Interval
  <2> HIDE DEF I
  <2>2. (IF 1 > Len(q) THEN 0 ELSE Len(q) - 1 + 1) = Len(q)
    BY <1>1
  <2> QED
    BY <2>1, <2>2
<1> HIDE DEF I, f
<1> QED
  BY <1>3, <1>4, FS_Bijection DEF ExistsBijection

(* Steps that move no message, or move one that is lost or received. *)
LEMMA QuietKeeps ==
  ASSUME KeepInv, UNCHANGED arrived,
         NumbersOf(offline_queue') \subseteq NumbersOf(offline_queue),
         KindsKept',
         "msg" \notin lost' => "msg" \notin lost /\ Placed' = Placed
  PROVE  KeepInv'
BY DEF KeepInv, OnlyChannelsGone, Private, Gone

LEMMA SameKeeps ==
  ASSUME KeepInv, UNCHANGED <<arrived, offline_queue, send_queue, got>>,
         "msg" \in lost => "msg" \in lost'
  PROVE  KeepInv'
<1>1. KindsKept' /\ Placed' = Placed
  BY DEF KeepInv, KindsKept, Placed
<1> QED
  BY <1>1, QuietKeeps

(* A frame that is no message is written. *)
LEMMA WritingKeeps ==
  ASSUME TypeOK, KeepInv, UNCHANGED <<arrived, offline_queue, got>>,
         NEW f \in Frames, f.type # "msg",
         \/ send_queue' = Append(send_queue, f) /\ lost' = lost
         \/ send_queue' = send_queue /\ (lost' = lost \/ lost' = lost \cup {f.type})
  PROVE  KeepInv'
<1>1. MsgsOf(send_queue') = MsgsOf(send_queue)
  BY OtherAppended DEF TypeOK
<1>2. KindsKept' /\ Placed' = Placed
  BY <1>1 DEF KeepInv, KindsKept, Placed
<1> QED
  BY <1>2, QuietKeeps

LEMMA PushKeeps ==
  ASSUME TypeOK, KeepInv, Push
  PROVE  KeepInv'
<1>1. Frame("push") \in Frames /\ Frame("push").type = "push" /\ Notify(Frame("push"))
  BY FramesTyped DEF FrameTypes, Push
<1> QED
  BY <1>1, Notified, WritingKeeps DEF Push, device, client

LEMMA NoFrameKeeps ==
  ASSUME TypeOK, KeepInv, NoFrame
  PROVE  KeepInv'
<1>1. UNCHANGED <<got, offline_queue, arrived>>
  BY DEF NoFrame, client
<1>2. CASE UNCHANGED send_queue /\ lost \subseteq lost'
  BY <1>1, <1>2, SameKeeps
<1>3. CASE \E f \in Frames : f.type \in {"contact", "end"} /\ writeFrame(f)
  <2>1. PICK f \in Frames : f.type # "msg" /\ writeFrame(f)
    BY <1>3
  <2> QED
    BY <1>1, <2>1, Wrote, WritingKeeps
<1>4. CASE /\ send_queue' = <<>>
           /\ lost \cup {send_queue[i].type : i \in 1 .. Len(send_queue)} \subseteq lost'
  <2>1. MsgsOf(<<>>) = {}
    BY EmptySeq DEF MsgsOf
  <2>2. "msg" \notin lost' => MsgsOf(send_queue) = {}
    BY <1>4 DEF MsgsOf
  <2>3. KindsKept'
    BY <1>1 DEF KeepInv, KindsKept
  <2>4. "msg" \notin lost' => "msg" \notin lost /\ Placed' = Placed
    BY <1>1, <1>4, <2>1, <2>2 DEF Placed
  <2> QED
    BY <1>1, <2>3, <2>4, QuietKeeps
<1> QED
  BY <1>2, <1>3, <1>4, NoFrameWrote

(* A frame leaves: to the app, or it is known to be lost. *)
LEMMA LoopStartsKeeps ==
  ASSUME TypeOK, OrderInv, KeepInv, LoopStarts
  PROVE  KeepInv'
<1>1. UNCHANGED <<offline_queue, arrived>> /\ SendOne
  BY DEF LoopStarts, device
<1>2. CASE UNCHANGED <<send_queue, got, lost>>
  BY <1>1, <1>2, SameKeeps
<1>3. CASE send_queue # <<>> /\ send_queue' = Tail(send_queue) /\ Head(send_queue) \in Frames
  <2>0. KindsKept'
    BY <1>1 DEF KeepInv, KindsKept
  <2>1. /\ Head(send_queue).type = "msg" =>
             MsgsOf(send_queue) = MsgsOf(send_queue') \cup {Head(send_queue).n}
        /\ Head(send_queue).type # "msg" => MsgsOf(send_queue) = MsgsOf(send_queue')
    BY <1>3, MsgsOfTail DEF TypeOK
  <2>2. CASE got' = got /\ (Head(send_queue).type = "msg" => "msg" \in lost') /\ lost \subseteq lost'
    <3>1. "msg" \notin lost' => "msg" \notin lost /\ Placed' = Placed
      BY <1>1, <2>1, <2>2 DEF Placed
    <3> QED
      BY <1>1, <2>0, <3>1, QuietKeeps
  <2>3. CASE /\ Head(send_queue).type = "msg" /\ got' = Append(got, Head(send_queue).n)
             /\ lost' = lost
    <3>1. PICK n \in Nat : n = Head(send_queue).n
      BY <1>3 DEF Frames
    <3>2. Range(got') = Range(got) \cup {n}
      <4>1. got \in Seq(Nat) /\ Increasing(got) /\ \A k \in Range(got) : k < n
        BY <2>1, <2>3, <3>1 DEF TypeOK, OrderInv, Before
      <4> QED
        BY <2>3, <3>1, <4>1, GotGrows
    <3>3. Placed' = Placed
      BY <1>1, <2>1, <2>3, <3>1, <3>2 DEF Placed
    <3> QED
      BY <1>1, <2>0, <2>3, <3>3, QuietKeeps
  <2>4. \/ got' = got /\ (Head(send_queue).type = "msg" => "msg" \in lost') /\ lost \subseteq lost'
        \/ /\ Head(send_queue).type = "msg" /\ got' = Append(got, Head(send_queue).n)
           /\ lost' = lost
        \/ UNCHANGED <<send_queue, got, lost>>
    <3>1. \/ /\ lost' = lost
             /\ got' = IF Head(send_queue).type = "msg"
                       THEN Append(got, Head(send_queue).n) ELSE got
          \/ UNCHANGED <<send_queue, got, lost>>
          \/ got' = got /\ lost' = lost \cup {Head(send_queue).type}
      BY <1>1, Sent
    <3> QED
      BY <3>1
  <2> QED
    BY <1>2, <2>2, <2>3, <2>4
<1> QED
  BY <1>1, <1>2, <1>3, Sent

(* A command is handled: a message goes from one queue to the other, or is *)
(* known to be lost.                                                       *)
LEMMA ShiftKeeps ==
  ASSUME TypeOK, OrderInv, KeepInv, ShiftAndHandle
  PROVE  KeepInv'
<1>1. taken \in Commands /\ Handle(taken) /\ UNCHANGED <<got, arrived>>
  BY DEF TypeOK, ShiftAndHandle, client
<1>2. CASE UNCHANGED offline_queue /\ \E f \in Frames : f.type \in ReplyTypes \ {"msg"} /\ writeFrame(f)
  <2>1. PICK f \in Frames : f.type # "msg" /\ writeFrame(f)
    BY <1>2
  <2> QED
    BY <1>1, <1>2, <2>1, Wrote, WritingKeeps
<1>3. CASE /\ offline_queue # <<>> /\ offline_queue' = Tail(offline_queue)
           /\ Head(offline_queue) \in Message
           /\ Numbered("msg", Head(offline_queue).n) \in Frames
           /\ writeFrame(Numbered("msg", Head(offline_queue).n))
  <2>1. /\ NumbersOf(offline_queue) = NumbersOf(offline_queue') \cup {Head(offline_queue).n}
        /\ \A i \in 1 .. Len(offline_queue') :
             i + 1 \in 1 .. Len(offline_queue) /\ offline_queue'[i] = offline_queue[i + 1]
    BY <1>3, NumbersOfTail DEF TypeOK
  <2>2. KindsKept'
    BY <1>1, <2>1 DEF KeepInv, KindsKept
  <2>3. PICK f \in Frames : f = Numbered("msg", Head(offline_queue).n)
    BY <1>3
  <2>4. f.type = "msg" /\ f.n = Head(offline_queue).n
    BY <2>3 DEF Numbered
  <2>5. \/ send_queue' = Append(send_queue, f) /\ lost' = lost
        \/ lost' = lost \cup {f.type}
    BY <1>3, <2>3, Wrote
  <2>6. CASE send_queue' = Append(send_queue, f) /\ lost' = lost
    <3>1. send_queue \in Seq(Frames) /\ MsgsOrdered(send_queue)
          /\ \A k \in MsgsOf(send_queue) : k < f.n
      BY <2>1, <2>4 DEF TypeOK, OrderInv, Before
    <3>2. MsgsOf(send_queue') = MsgsOf(send_queue) \cup {f.n}
      BY <2>4, <2>6, <3>1, MsgAppended
    <3>3. Placed' = Placed
      BY <1>1, <2>1, <2>4, <3>2 DEF Placed
    <3> QED
      BY <1>1, <2>1, <2>2, <2>6, <3>3, QuietKeeps
  <2>7. CASE lost' = lost \cup {f.type}
    BY <1>1, <2>1, <2>2, <2>4, <2>7, QuietKeeps
  <2> QED
    BY <2>5, <2>6, <2>7
<1> QED
  BY <1>1, <1>2, <1>3, Handled

(* What a new message does to the numbers in the queue. *)
LEMMA NumbersAdded ==
  ASSUME TypeOK, NEW m \in Message
  PROVE  LET q   == offline_queue
             new == addToOfflineQueue(m)
         IN  /\ new \in Seq(Message)
             /\ \A i \in 1 .. Len(new) : new[i] = m \/ \E j \in 1 .. Len(q) : new[i] = q[j]
             /\ \/ NumbersOf(new) = NumbersOf(q) \cup {m.n}
                \/ \E k \in 1 .. Len(q) :
                     /\ ~q[k].private /\ \A i \in 1 .. k - 1 : q[i].private
                     /\ NumbersOf(new) = {q[j].n : j \in (1 .. Len(q)) \ {k}} \cup {m.n}
                \/ new = q /\ Len(q) = OfflineQueueSize /\ \A i \in 1 .. Len(q) : q[i].private
<1> DEFINE q   == offline_queue
           new == addToOfflineQueue(m)
<1>0. Len(q) \in Nat /\ OfflineQueueSize \in Nat \ {0} /\ q \in Seq(Message)
  BY LenProperties, LinkAssumption DEF TypeOK
<1>1. /\ new \in Seq(Message)
      /\ \/ new = Append(q, m)
         \/ /\ Len(q) = OfflineQueueSize /\ Len(new) = Len(q) /\ new[Len(q)] = m
            /\ \E k \in 1 .. Len(q) :
                 /\ ~q[k].private
                 /\ \A i \in 1 .. k - 1 : q[i].private
                 /\ \A i \in 1 .. Len(q) - 1 : new[i] = IF i < k THEN q[i] ELSE q[i + 1]
         \/ /\ new = q /\ Len(q) = OfflineQueueSize
            /\ \A i \in 1 .. Len(q) : q[i].private
  BY Added DEF TypeOK
<1> HIDE DEF new
<1>2. CASE new = Append(q, m)
  <2>1. Len(new) = Len(q) + 1 /\ new[Len(q) + 1] = m /\ \A i \in 1 .. Len(q) : new[i] = q[i]
    BY <1>0, <1>2, AppendProperties
  <2>2. 1 .. Len(new) = (1 .. Len(q)) \cup {Len(q) + 1}
    BY <1>0, <2>1
  <2>3. NumbersOf(new) = NumbersOf(q) \cup {m.n}
    BY <2>1, <2>2 DEF NumbersOf
  <2> QED
    BY <1>1, <2>1, <2>2, <2>3 DEF new
<1>3. CASE /\ Len(q) = OfflineQueueSize /\ Len(new) = Len(q) /\ new[Len(q)] = m
           /\ \E k \in 1 .. Len(q) :
                /\ ~q[k].private
                /\ \A i \in 1 .. k - 1 : q[i].private
                /\ \A i \in 1 .. Len(q) - 1 : new[i] = IF i < k THEN q[i] ELSE q[i + 1]
  <2>1. PICK k \in 1 .. Len(q) :
          /\ ~q[k].private
          /\ \A i \in 1 .. k - 1 : q[i].private
          /\ \A i \in 1 .. Len(q) - 1 : new[i] = IF i < k THEN q[i] ELSE q[i + 1]
    BY <1>3
  <2> DEFINE J == (1 .. Len(q)) \ {k}
  <2>2. \A i \in 1 .. Len(q) - 1 : \E j \in J : new[i] = q[j]
    <3> TAKE i \in 1 .. Len(q) - 1
    <3>1. CASE i < k
      BY <1>0, <2>1, <3>1
    <3>2. CASE ~(i < k)
      <4>1. i + 1 \in J
        BY <1>0, <3>2
      <4> QED
        BY <2>1, <3>2, <4>1
    <3> QED
      BY <3>1, <3>2
  <2>3. \A j \in J : \E i \in 1 .. Len(q) - 1 : new[i] = q[j]
    <3> TAKE j \in J
    <3>1. CASE j < k
      <4>1. j \in 1 .. Len(q) - 1
        BY <1>0, <3>1
      <4> QED
        BY <2>1, <3>1, <4>1
    <3>2. CASE ~(j < k)
      <4>1. j - 1 \in 1 .. Len(q) - 1 /\ ~(j - 1 < k) /\ j - 1 + 1 = j
        BY <1>0, <3>2
      <4> QED
        BY <2>1, <4>1
    <3> QED
      BY <3>1, <3>2
  <2>4. 1 .. Len(new) = (1 .. Len(q) - 1) \cup {Len(q)}
    BY <1>0, <1>3
  <2> HIDE DEF J
  <2>5. NumbersOf(new) = {q[j].n : j \in J} \cup {m.n}
    <3>1. \A n \in NumbersOf(new) : n \in {q[j].n : j \in J} \cup {m.n}
      BY <1>3, <2>2, <2>4 DEF NumbersOf
    <3>2. \A j \in J : q[j].n \in NumbersOf(new)
      BY <2>3, <2>4 DEF NumbersOf
    <3>3. m.n \in NumbersOf(new)
      BY <1>3, <2>4 DEF NumbersOf
    <3> QED
      BY <3>1, <3>2, <3>3
  <2>6. \A i \in 1 .. Len(new) : new[i] = m \/ \E j \in 1 .. Len(q) : new[i] = q[j]
    BY <1>3, <2>2, <2>4 DEF J
  <2> QED
    BY <1>1, <2>1, <2>5, <2>6 DEF new, J
<1>4. CASE /\ new = q /\ Len(q) = OfflineQueueSize
           /\ \A i \in 1 .. Len(q) : q[i].private
  BY <1>1, <1>4 DEF new
<1> QED
  BY <1>1, <1>2, <1>3, <1>4

(* A message comes in: what is given up for it is the oldest channel       *)
(* message, or itself in a queue full of private ones.                     *)
LEMMA MessageKeeps ==
  ASSUME TypeOK, OrderInv, KeepInv, NEW private \in BOOLEAN, MessageArrives(private)
  PROVE  KeepInv'
<1> DEFINE N == Len(arrived)
           q == offline_queue
           S == MsgsOf(send_queue)
           G == Range(got)
<1>0. N \in Nat /\ Len(q) \in Nat /\ OfflineQueueSize \in Nat /\ q \in Seq(Message)
      /\ arrived \in Seq(BOOLEAN)
  BY LenProperties, LinkAssumption DEF TypeOK
<1>1. /\ arrived' = Append(arrived, private) /\ got' = got
      /\ offline_queue' = addToOfflineQueue([n |-> Len(arrived'), private |-> private])
      /\ Notify(Frame("tickle"))
  BY DEF MessageArrives, client
<1>2. /\ Len(arrived') = N + 1 /\ arrived'[N + 1] = private
      /\ \A n \in 1 .. N : arrived'[n] = arrived[n]
  BY <1>0, <1>1, AppendProperties
<1>3. PICK m \in Message : m = [n |-> N + 1, private |-> private]
  <2>1. N + 1 \in Nat
    BY <1>0
  <2> HIDE DEF N
  <2> QED
    BY <2>1 DEF Message
<1>4. offline_queue' = addToOfflineQueue(m) /\ m.n = N + 1 /\ m.private = private
  BY <1>1, <1>2, <1>3
<1>5. MsgsOf(send_queue') = S /\ ("msg" \notin lost' => "msg" \notin lost)
  <2>1. Frame("tickle") \in Frames /\ Frame("tickle").type = "tickle"
    BY FramesTyped DEF FrameTypes
  <2> QED
    BY <1>1, <2>1, Notified, OtherWritten DEF OrderInv
<1>6. /\ \A i \in 1 .. Len(offline_queue') :
           offline_queue'[i] = m \/ \E j \in 1 .. Len(q) : offline_queue'[i] = q[j]
      /\ \/ NumbersOf(offline_queue') = NumbersOf(q) \cup {m.n}
         \/ \E k \in 1 .. Len(q) :
              /\ ~q[k].private /\ \A i \in 1 .. k - 1 : q[i].private
              /\ NumbersOf(offline_queue') = {q[j].n : j \in (1 .. Len(q)) \ {k}} \cup {m.n}
         \/ /\ offline_queue' = q /\ Len(q) = OfflineQueueSize
            /\ \A i \in 1 .. Len(q) : q[i].private
  BY <1>4, NumbersAdded
<1>7. NumbersOf(q) \cup S \cup G \subseteq 1 .. N /\ Ordered(q)
  BY DEF OrderInv
<1>8. 1 .. Len(arrived') = (1 .. N) \cup {N + 1} /\ \A n \in 1 .. N : n < N + 1
  BY <1>0, <1>2
<1>9. Private' = IF private THEN Private \cup {N + 1} ELSE Private
  BY <1>2, <1>8 DEF Private
<1>10. /\ Placed' = NumbersOf(offline_queue') \cup S \cup G
       /\ Placed = NumbersOf(q) \cup S \cup G
       /\ Gone' = (1 .. Len(arrived')) \ Placed' /\ Gone = (1 .. N) \ Placed
  BY <1>1, <1>5 DEF Placed, Gone
<1>11. /\ \A j \in 1 .. Len(q) : q[j].n \in NumbersOf(q) /\ q[j].private = arrived[q[j].n]
       /\ \A n \in NumbersOf(q) : \E j \in 1 .. Len(q) : n = q[j].n
  BY DEF NumbersOf, KeepInv, KindsKept
<1>12. Private \subseteq 1 .. N /\ \A n \in 1 .. N : n \in Private <=> arrived[n]
  BY DEF Private
<1>13. KindsKept'
  <2> SUFFICES ASSUME NEW i \in 1 .. Len(offline_queue')
               PROVE  offline_queue'[i].private = arrived'[offline_queue'[i].n]
    BY DEF KindsKept
  <2>1. CASE offline_queue'[i] = m
    BY <1>2, <1>4, <2>1
  <2>2. CASE \E j \in 1 .. Len(q) : offline_queue'[i] = q[j]
    BY <1>2, <1>7, <1>11, <2>2
  <2> QED
    BY <1>6, <2>1, <2>2
<1>14. Cardinality(Private') <= OfflineQueueSize => Cardinality(Private) <= OfflineQueueSize
  <2>1. IsFiniteSet(Private)
    <3>1. IsFiniteSet(1 .. N)
      BY <1>0, FS_Interval
    <3> QED
      BY <1>12, <3>1, FS_Subset
  <2>2. IsFiniteSet(Private') /\ Private \subseteq Private'
    <3>1. IsFiniteSet(Private \cup {N + 1})
      BY <2>1, FS_AddElement
    <3> QED
      BY <1>9, <2>1, <3>1
  <2>3. PICK P : P = Private'
    OBVIOUS
  <2>4. Cardinality(Private) <= Cardinality(P)
    BY <2>2, <2>3, FS_Subset
  <2>5. Cardinality(Private) \in Nat /\ Cardinality(P) \in Nat
    BY <2>1, <2>2, <2>3, FS_CardinalityType
  <2> QED
    BY <1>0, <2>3, <2>4, <2>5
<1> HIDE DEF N, q, S, G
<1>15. ASSUME OnlyChannelsGone
       PROVE  OnlyChannelsGone'
  <2>0. /\ Cardinality(Private) <= OfflineQueueSize => Private \cap Gone = {}
        /\ \A g \in Gone \ Private, n \in NumbersOf(q) \ Private : g < n
    BY <1>15 DEF OnlyChannelsGone, q
  <2>a. SUFFICES /\ Cardinality(Private') <= OfflineQueueSize => Private' \cap Gone' = {}
                 /\ \A g \in Gone' \ Private', n \in NumbersOf(offline_queue') \ Private' : g < n
    BY DEF OnlyChannelsGone
  <2>b. N + 1 \notin 1 .. N
    BY <1>0
  <2>1. CASE NumbersOf(offline_queue') = NumbersOf(q) \cup {m.n}
    <3>1. Gone' = Gone
      BY <1>4, <1>7, <1>8, <1>10, <2>1, <2>b
    <3>2. Gone \subseteq 1 .. N
      BY <1>10
    <3> QED
      BY <1>4, <1>8, <1>9, <1>14, <2>0, <2>1, <2>b, <3>1, <3>2
  <2>2. CASE \E k \in 1 .. Len(q) :
               /\ ~q[k].private /\ \A i \in 1 .. k - 1 : q[i].private
               /\ NumbersOf(offline_queue') = {q[j].n : j \in (1 .. Len(q)) \ {k}} \cup {m.n}
    <3>1. PICK k \in 1 .. Len(q) :
            /\ ~q[k].private /\ \A i \in 1 .. k - 1 : q[i].private
            /\ NumbersOf(offline_queue') = {q[j].n : j \in (1 .. Len(q)) \ {k}} \cup {m.n}
      BY <2>2
    <3>2. Gone' \subseteq Gone \cup {q[k].n}
      BY <1>4, <1>8, <1>10, <1>11, <3>1
    <3>3. q[k].n \in 1 .. N /\ q[k].n \notin Private /\ q[k].n \notin Private'
      BY <1>7, <1>9, <1>11, <1>12, <2>b, <3>1
    <3>4. Gone \subseteq 1 .. N
      BY <1>10
    <3>5. \A n \in NumbersOf(offline_queue') : n = N + 1 \/ n \in NumbersOf(q)
      BY <1>4, <1>11, <3>1
    <3>6. \A n \in NumbersOf(offline_queue') \ Private' : q[k].n < n
      <4> SUFFICES ASSUME NEW n \in NumbersOf(offline_queue') \ Private', n # N + 1
                   PROVE  q[k].n < n
        BY <1>8, <3>3
      <4>1. PICK j \in (1 .. Len(q)) \ {k} : n = q[j].n
        BY <1>4, <3>1
      <4>2. ~q[j].private
        <5>1. n \in 1 .. N /\ n \notin Private
          BY <1>7, <1>9, <1>11, <4>1
        <5>2. ~arrived[n]
          BY <1>12, <5>1
        <5>3. q[j].private = arrived[q[j].n]
          BY <1>11
        <5> QED
          BY <4>1, <5>2, <5>3
      <4>3. k < j
        <5>1. ~(j \in 1 .. k - 1)
          BY <3>1, <4>2
        <5> QED
          BY <1>0, <5>1
      <4> QED
        BY <1>7, <4>1, <4>3 DEF Ordered
    <3>7. \A g \in Gone \ Private', n \in NumbersOf(offline_queue') \ Private' : g < n
      BY <1>8, <1>9, <2>0, <2>b, <3>4, <3>5
    <3> QED
      BY <1>9, <1>14, <2>0, <2>b, <3>2, <3>3, <3>4, <3>6, <3>7
  <2>3. CASE /\ offline_queue' = q /\ Len(q) = OfflineQueueSize
             /\ \A i \in 1 .. Len(q) : q[i].private
    <3>1. NumbersOf(q) \subseteq Private
      BY <1>7, <1>11, <1>12, <2>3
    <3>2. NumbersOf(offline_queue') \ Private' = {}
      BY <1>9, <2>3, <3>1
    <3>3. Gone' = Gone \cup {N + 1}
      BY <1>7, <1>8, <1>10, <2>3, <2>b
    <3>4. CASE private
      <4>1. IsFiniteSet(NumbersOf(q)) /\ Cardinality(NumbersOf(q)) = Len(q)
        BY <1>0, <1>7, NumbersCounted
      <4>2. /\ IsFiniteSet(NumbersOf(q) \cup {N + 1})
            /\ Cardinality(NumbersOf(q) \cup {N + 1}) = Len(q) + 1
        <5>1. N + 1 \notin NumbersOf(q)
          BY <1>7, <2>b
        <5> QED
          BY <4>1, <5>1, FS_AddElement
      <4>3. PICK P : P = Private'
        OBVIOUS
      <4>4. NumbersOf(q) \cup {N + 1} \subseteq P
        BY <1>9, <3>1, <3>4, <4>3
      <4>5. IsFiniteSet(P)
        <5>1. IsFiniteSet((1 .. N) \cup {N + 1})
          <6>1. IsFiniteSet(1 .. N)
            BY <1>0, FS_Interval
          <6> QED
            BY <6>1, FS_AddElement
        <5>2. P \subseteq (1 .. N) \cup {N + 1}
          BY <1>9, <1>12, <4>3
        <5> QED
          BY <5>1, <5>2, FS_Subset
      <4>6. Len(q) + 1 <= Cardinality(P) /\ Cardinality(P) \in Nat
        BY <4>2, <4>4, <4>5, FS_Subset, FS_CardinalityType
      <4>7. ~(Cardinality(P) <= OfflineQueueSize)
        BY <1>0, <2>3, <4>6
      <4> QED
        BY <3>2, <4>3, <4>7
    <3>5. CASE ~private
      <4>1. Private' = Private /\ N + 1 \notin Private
        BY <1>9, <1>12, <2>b, <3>5
      <4> QED
        BY <1>14, <2>0, <3>2, <3>3, <4>1
    <3> QED
      BY <3>4, <3>5
  <2> QED
    BY <1>6, <2>1, <2>2, <2>3
<1> QED
  BY <1>5, <1>13, <1>15 DEF KeepInv

LEMMA NextKeeps ==
  ASSUME TypeOK, OrderInv, KeepInv, [Next]_vars
  PROVE  KeepInv'
<1>1. CASE \E private \in BOOLEAN : MessageArrives(private)
  BY <1>1, MessageKeeps
<1>2. CASE Push
  BY <1>2, PushKeeps
<1>3. CASE \E id \in Contacts : ContactChanges(id)
  BY <1>3, SameKeeps DEF ContactChanges, ble, client
<1>4. CASE Tick \/ Connect \/ Disconnect \/ Ready \/ UNCHANGED vars
  BY <1>4, SameKeeps DEF Tick, Connect, Disconnect, Ready, vars, device, ble, client, past
<1>5. CASE AppStep
  BY <1>5, SameKeeps DEF AppStep, AppStarts, AppFetches, AppLists, AppSends, device, past
<1>6. CASE LoopStep
  BY <1>6, LoopStartsKeeps, ShiftKeeps, NoFrameKeeps DEF LoopStep
<1> QED
  BY <1>1, <1>2, <1>3, <1>4, <1>5, <1>6 DEF Next

LEMMA InitKeeps ==
  ASSUME Init
  PROVE  KeepInv
<1>1. offline_queue = <<>> /\ arrived = <<>> /\ Len(<<>>) = 0 /\ 1 .. 0 = {}
  BY EmptySeq DEF Init
<1> QED
  BY <1>1 DEF KeepInv, KindsKept, OnlyChannelsGone, Gone, Private

(* The queue gives up no private message before it is full of private      *)
(* ones, and of the channel messages it gives up the oldest                *)
(* (addToOfflineQueue).  What is lost later is lost on the way.            *)
THEOREM PrivateMessagesAreKept == Spec => []PrivateMessagesStay
<1>1. KeepInv => PrivateMessagesStay
  <2>1. GivenUp = Gone /\ Queued = NumbersOf(offline_queue)
    BY DEF GivenUp, Gone, Placed, Queued, Sending, NumbersOf, MsgsOf
  <2> QED
    BY <2>1 DEF KeepInv, OnlyChannelsGone, PrivateMessagesStay
<1> QED
  BY <1>1, TypeCorrect, InitTyped, NextTyped, InitOrdered, NextKeepsOrder, InitKeeps, NextKeeps, PTL
     DEF Spec

------------------------------------------------------------------------------
(* One answer for each command *)

RepliesAt(s) == {i \in 1 .. Len(s) : s[i].type \in ReplyTypes}
Replies(s)   == Cardinality(RepliesAt(s))
Shifting == IF pc = "shift" THEN 1 ELSE 0
Waiting  == IF app.waiting = "none" THEN 0 ELSE 1
Balance  == recv_len + Shifting + Replies(send_queue) = Waiting

(* The inductive invariant.  Before the first connection there is nothing  *)
(* to answer; once the loop has seen it, the interface is not taken for    *)
(* unconnected again; in between a race may lose the answers, and says so. *)
AnswerInv ==
  ~cut => /\ oldDeviceConnected => peer /\ deviceConnected /\ (pc = "count" => connections = 1)
          /\ connections = 1 => peer
          /\ ~peer => /\ recv_len = 0 /\ pc # "shift" /\ app.waiting = "none"
                      /\ Replies(send_queue) = 0
          /\ lost = {} => Balance

LEMMA RepliesTyped ==
  ASSUME NEW s \in Seq(Frames)
  PROVE  IsFiniteSet(RepliesAt(s)) /\ Replies(s) \in Nat
<1>1. Len(s) \in Nat
  BY LenProperties
<1>2. IsFiniteSet(1 .. Len(s))
  BY <1>1, FS_Interval
<1>3. RepliesAt(s) \in SUBSET (1 .. Len(s))
  BY DEF RepliesAt
<1>4. IsFiniteSet(RepliesAt(s))
  BY <1>2, <1>3, FS_Subset
<1> QED
  BY <1>4, FS_CardinalityType DEF Replies

LEMMA ReplyAppended ==
  ASSUME NEW s \in Seq(Frames), NEW f \in Frames
  PROVE  Replies(Append(s, f)) = Replies(s) + (IF f.type \in ReplyTypes THEN 1 ELSE 0)
<1> DEFINE t == Append(s, f)
<1>1. /\ Len(s) \in Nat /\ Len(t) = Len(s) + 1 /\ t[Len(s) + 1] = f
      /\ \A i \in 1 .. Len(s) : t[i] = s[i]
  BY AppendProperties, LenProperties
<1> HIDE DEF t
<1>2. IsFiniteSet(RepliesAt(s)) /\ Replies(s) \in Nat
  BY RepliesTyped
<1>3. 1 .. Len(t) = (1 .. Len(s)) \cup {Len(s) + 1} /\ Len(s) + 1 \notin 1 .. Len(s)
  BY <1>1
<1>4. CASE f.type \in ReplyTypes
  <2>1. RepliesAt(t) = RepliesAt(s) \cup {Len(s) + 1} /\ Len(s) + 1 \notin RepliesAt(s)
    BY <1>1, <1>3, <1>4 DEF RepliesAt
  <2>2. Cardinality(RepliesAt(t)) = Cardinality(RepliesAt(s)) + 1
    BY <1>2, <2>1, FS_AddElement
  <2> QED
    BY <1>4, <2>2 DEF Replies, t
<1>5. CASE f.type \notin ReplyTypes
  <2>1. RepliesAt(t) = RepliesAt(s)
    BY <1>1, <1>3, <1>5 DEF RepliesAt
  <2> QED
    BY <1>2, <1>5, <2>1 DEF Replies, t
<1> QED
  BY <1>4, <1>5

LEMMA ReplyLeaves ==
  ASSUME NEW s \in Seq(Frames), s # <<>>
  PROVE  Replies(s) = Replies(Tail(s)) + (IF Head(s).type \in ReplyTypes THEN 1 ELSE 0)
<1> DEFINE t == Tail(s)
           h == Head(s)
           A == RepliesAt(t)
           B == {i \in 2 .. Len(s) : s[i].type \in ReplyTypes}
           f == [i \in A |-> i + 1]
<1>1. /\ Len(s) \in Nat \ {0} /\ t \in Seq(Frames) /\ Len(t) = Len(s) - 1 /\ h = s[1]
      /\ \A i \in 1 .. Len(t) : t[i] = s[i + 1]
  BY HeadTailProperties, LenProperties, EmptySeq
<1> HIDE DEF t, h
<1>2. IsFiniteSet(A) /\ Replies(t) \in Nat
  BY <1>1, RepliesTyped
<1>3. f \in Bijection(A, B)
  <2>1. \A i \in A : i \in 1 .. Len(t) /\ i \in Nat /\ i + 1 \in B
    BY <1>1 DEF RepliesAt
  <2>2. \A j \in B : j - 1 \in A /\ (j - 1) + 1 = j
    BY <1>1 DEF RepliesAt
  <2> HIDE DEF A, B
  <2>3. f \in [A -> B] /\ (\A i, j \in A : f[i] = f[j] => i = j) /\ \A j \in B : \E i \in A : f[i] = j
    BY <2>1, <2>2
  <2>4. f \in Injection(A, B) /\ f \in Surjection(A, B)
    BY <2>3 DEF Injection, Surjection, IsInjective
  <2> QED
    BY <2>4 DEF Bijection
<1>4. IsFiniteSet(B) /\ Cardinality(B) = Cardinality(A)
  <2> HIDE DEF f, A, B
  <2> QED
    BY <1>2, <1>3, FS_Bijection DEF ExistsBijection
<1>5. 1 .. Len(s) = (2 .. Len(s)) \cup {1} /\ 1 \notin 2 .. Len(s)
  BY <1>1
<1>6. CASE h.type \in ReplyTypes
  <2>1. RepliesAt(s) = B \cup {1} /\ 1 \notin B
    BY <1>1, <1>5, <1>6 DEF RepliesAt
  <2> HIDE DEF A, B
  <2>2. Cardinality(RepliesAt(s)) = Cardinality(A) + 1
    BY <1>4, <2>1, FS_AddElement
  <2> QED
    BY <1>6, <2>2 DEF Replies, t, h, A
<1>7. CASE h.type \notin ReplyTypes
  <2>1. RepliesAt(s) = B
    BY <1>1, <1>5, <1>7 DEF RepliesAt
  <2> HIDE DEF B
  <2> QED
    BY <1>2, <1>4, <1>7, <2>1 DEF Replies, t, h
<1> QED
  BY <1>6, <1>7

(* A frame that is no answer is written, or lost. *)
LEMMA NoReplyWritten ==
  ASSUME TypeOK, NEW f \in Frames, f.type \notin ReplyTypes,
         send_queue' = Append(send_queue, f) \/ send_queue' = send_queue
  PROVE  Replies(send_queue') = Replies(send_queue)
<1>1. send_queue \in Seq(Frames)
  BY DEF TypeOK
<1>2. CASE send_queue' = Append(send_queue, f)
  <2>1. Replies(send_queue') = Replies(send_queue) + 0
    BY <1>1, <1>2, ReplyAppended
  <2> QED
    BY <1>1, <2>1, RepliesTyped
<1>3. CASE send_queue' = send_queue
  BY <1>3
<1> QED
  BY <1>2, <1>3

(* Steps that touch neither commands nor answers. *)
LEMMA QuietBalances ==
  ASSUME AnswerInv,
         UNCHANGED <<oldDeviceConnected, deviceConnected, pc, connections, peer, recv_len, cut>>,
         app'.waiting = app.waiting, Replies(send_queue') = Replies(send_queue),
         lost' = {} => lost = {}
  PROVE  AnswerInv'
BY DEF AnswerInv, Balance, Shifting, Waiting

LEMMA PushesBalance ==
  ASSUME TypeOK, AnswerInv, Push \/ \E private \in BOOLEAN : MessageArrives(private)
  PROVE  AnswerInv'
<1>1. PICK f \in Frames : f.type \notin ReplyTypes /\ Notify(f)
  <2>1. /\ Frame("push") \in Frames /\ Frame("push").type \notin ReplyTypes
        /\ Frame("tickle") \in Frames /\ Frame("tickle").type \notin ReplyTypes
    BY FramesTyped DEF FrameTypes, ReplyTypes
  <2> QED
    BY <2>1 DEF Push, MessageArrives
<1>2. Replies(send_queue') = Replies(send_queue) /\ (lost' = {} => lost = {})
  BY <1>1, Notified, NoReplyWritten
<1>3. UNCHANGED <<oldDeviceConnected, deviceConnected, pc, connections, peer, recv_len, cut, app>>
  BY DEF Push, MessageArrives, loopAt, client
<1> QED
  BY <1>2, <1>3, QuietBalances

LEMMA ConnectBalances ==
  ASSUME TypeOK, AnswerInv, Connect
  PROVE  AnswerInv'
<1>1. app'.waiting = "none"
  BY DEF TypeOK, AppState, Connect, Connecting
<1>2. /\ ~peer /\ peer' /\ deviceConnected'
      /\ UNCHANGED <<oldDeviceConnected, pc, connections, recv_len, send_queue, cut>>
  BY DEF Connect, loopAt
<1> QED
  BY <1>1, <1>2 DEF AnswerInv, Balance, Shifting, Waiting

(* An app that waits for nothing has no command and no answer on the way.  *)
LEMMA AppBalances ==
  ASSUME TypeOK, AnswerInv, AppStep
  PROVE  AnswerInv'
<1>1. PICK cmd \in Commands : cmd.type \in CommandTypes /\ AppSends(cmd)
  <2>1. \A n \in Nat : \A type \in CommandTypes : Command(type, n) \in Commands
                                                /\ Command(type, n).type = type
    BY DEF Command, Commands, CommandTypes
  <2>2. app.since \in Nat
    BY DEF TypeOK, AppState
  <2> QED
    BY <2>1, <2>2 DEF AppStep, AppStarts, AppFetches, AppLists, CommandTypes
<1>2. /\ peer /\ app.waiting = "none" /\ app'.waiting # "none"
      /\ UNCHANGED <<oldDeviceConnected, deviceConnected, pc, connections, peer, send_queue,
                     cut, lost>>
  BY <1>1 DEF AppSends, TypeOK, AppState, CommandTypes, loopAt, past
<1>3. recv_len' = IF recv_len = FrameQueueSize THEN recv_len ELSE recv_len + 1
  BY <1>1, Queues DEF AppSends
<1>4. recv_len \in Nat /\ FrameQueueSize \in Nat \ {0} /\ Replies(send_queue) \in Nat
  BY RepliesTyped, LinkAssumption DEF TypeOK
<1>5. Balance => Balance'
  <2> SUFFICES ASSUME Balance
               PROVE  Balance'
    OBVIOUS
  <2>1. recv_len + Shifting + Replies(send_queue) = 0 /\ Shifting \in {0, 1}
    BY <1>2 DEF Balance, Waiting, Shifting
  <2>2. recv_len = 0 /\ Shifting = 0 /\ Replies(send_queue) = 0
    BY <1>4, <2>1
  <2> QED
    BY <1>2, <1>3, <1>4, <2>2 DEF Balance, Waiting, Shifting
<1> QED
  BY <1>2, <1>5 DEF AnswerInv

(* A frame leaves, and a command is copied or the connections are read. *)
LEMMA LoopStartsBalances ==
  ASSUME TypeOK, AnswerInv, LoopStarts
  PROVE  AnswerInv'
<1> DEFINE r == IF Head(send_queue).type \in ReplyTypes THEN 1 ELSE 0
<1>1. /\ pc = "loop" /\ SendOne
      /\ UNCHANGED <<deviceConnected, oldDeviceConnected, peer, cut>>
  BY DEF LoopStarts
<1>2. recv_len \in Nat /\ Replies(send_queue) \in Nat /\ Replies(send_queue') \in Nat
      /\ send_queue \in Seq(Frames)
  <2>1. send_queue' \in Seq(Frames) /\ send_queue \in Seq(Frames)
    BY <1>1, Sent DEF TypeOK
  <2> QED
    BY <2>1, RepliesTyped, LinkAssumption DEF TypeOK
<1>3. \/ /\ pc' = "shift" /\ recv_len > 0 /\ recv_len' = recv_len - 1 /\ UNCHANGED connections
      \/ /\ pc' = "count" /\ recv_len' = recv_len /\ connections' = IF peer THEN 1 ELSE 0
  BY DEF LoopStarts, TakeFrame, ReadConnections
<1>4. recv_len' + Shifting' = recv_len + Shifting
  BY <1>1, <1>2, <1>3 DEF Shifting
<1>5. \/ UNCHANGED <<send_queue, app, lost>>
      \/ peer /\ lost' = lost
           /\ Replies(send_queue) = Replies(send_queue') + r
           /\ app'.waiting = IF r = 1 THEN "none" ELSE app.waiting
      \/ ~peer /\ app' = app /\ lost' # {} /\ Replies(send_queue) = Replies(send_queue') + r
  <2>1. CASE UNCHANGED <<send_queue, app, lost>>
    BY <2>1
  <2>2. CASE /\ send_queue # <<>> /\ send_queue' = Tail(send_queue)
             /\ Head(send_queue) \in Frames
             /\ \/ peer /\ app' = AppTakes(Head(send_queue)) /\ lost' = lost
                \/ ~peer /\ app' = app /\ lost' = lost \cup {Head(send_queue).type}
    <3>1. Replies(send_queue) = Replies(send_queue') + r
      BY <1>2, <2>2, ReplyLeaves
    <3>2. PICK f \in Frames : f = Head(send_queue)
      BY <2>2
    <3>3. AppTakes(f).waiting = IF f.type \in ReplyTypes THEN "none" ELSE app.waiting
      BY TakenTyped
    <3>4. (r = 1 /\ f.type \in ReplyTypes) \/ (r = 0 /\ f.type \notin ReplyTypes)
      BY <3>2
    <3> HIDE DEF r
    <3>5. CASE peer /\ app' = AppTakes(Head(send_queue)) /\ lost' = lost
      <4>1. app' = AppTakes(f)
        BY <3>2, <3>5
      <4>2. app'.waiting = IF r = 1 THEN "none" ELSE app.waiting
        BY <3>3, <3>4, <4>1
      <4> QED
        BY <3>1, <3>5, <4>2
    <3>6. CASE ~peer /\ app' = app /\ lost' = lost \cup {Head(send_queue).type}
      BY <3>1, <3>6
    <3> QED
      BY <2>2, <3>5, <3>6
  <2> QED
    BY <1>1, <2>1, <2>2, Sent
<1>6. r \in {0, 1}
  OBVIOUS
<1> HIDE DEF r
<1>7. CASE ~cut /\ ~peer
  <2>1. recv_len = 0 /\ app.waiting = "none" /\ Replies(send_queue) = 0
    BY <1>7 DEF AnswerInv
  <2>2. Replies(send_queue') = 0 /\ app' = app /\ recv_len' = 0 /\ pc' = "count" /\ connections' = 0
    BY <1>2, <1>3, <1>5, <1>6, <1>7, <2>1
  <2>3. Balance'
    BY <2>1, <2>2 DEF Balance, Shifting, Waiting
  <2> QED
    BY <1>1, <1>7, <2>1, <2>2, <2>3 DEF AnswerInv
<1>8. CASE ~cut /\ peer
  <2>1. ASSUME lost' = {}
        PROVE  Balance'
    <3>1. lost = {} /\ Balance
      BY <1>5, <1>8, <2>1 DEF AnswerInv
    <3>2. recv_len' + Shifting' + Replies(send_queue) = Waiting
      BY <1>4, <3>1 DEF Balance
    <3>3. Shifting' \in {0, 1} /\ recv_len' \in Nat
      BY <1>2, <1>3 DEF Shifting
    <3>4. CASE UNCHANGED <<send_queue, app>>
      BY <3>2, <3>4 DEF Balance, Waiting
    <3>5. CASE /\ Replies(send_queue) = Replies(send_queue') + r
               /\ app'.waiting = IF r = 1 THEN "none" ELSE app.waiting
      <4>1. CASE r = 0
        BY <1>2, <3>2, <3>5, <4>1 DEF Balance, Waiting
      <4>2. CASE r = 1
        <5>1. Waiting' = 0 /\ Waiting \in {0, 1}
          BY <3>5, <4>2 DEF Waiting
        <5>2. recv_len' + Shifting' + Replies(send_queue') = 0
          BY <1>2, <3>2, <3>3, <3>5, <4>2, <5>1
        <5> QED
          BY <5>1, <5>2 DEF Balance
      <4> QED
        BY <1>6, <4>1, <4>2
    <3> QED
      BY <1>5, <1>8, <3>4, <3>5
  <2> QED
    BY <1>1, <1>3, <1>8, <2>1 DEF AnswerInv
<1> QED
  BY <1>1, <1>7, <1>8 DEF AnswerInv

(* The command is answered, unless the answer is known to be lost. *)
LEMMA ShiftBalances ==
  ASSUME TypeOK, AnswerInv, ShiftAndHandle
  PROVE  AnswerInv'
<1>1. /\ pc = "shift" /\ pc' = "loop" /\ taken \in Commands /\ Handle(taken)
      /\ UNCHANGED <<connections, recv_len, deviceConnected, oldDeviceConnected, peer, app, cut>>
  BY DEF ShiftAndHandle, TypeOK, client
<1>2. PICK f \in Frames : f.type \in ReplyTypes /\ writeFrame(f)
  BY <1>1, Handled
<1>3. \/ send_queue' = Append(send_queue, f) /\ lost' = lost
      \/ lost' # {}
  BY <1>2, Wrote
<1>4. recv_len \in Nat /\ Replies(send_queue) \in Nat /\ send_queue \in Seq(Frames)
  BY RepliesTyped, LinkAssumption DEF TypeOK
<1>5. ASSUME lost' = {}, ~cut
      PROVE  Balance'
  <2>1. Replies(send_queue') = Replies(send_queue) + 1
    BY <1>2, <1>3, <1>4, <1>5, ReplyAppended
  <2>2. Balance
    BY <1>3, <1>5 DEF AnswerInv
  <2>3. recv_len + 1 + Replies(send_queue) = Waiting /\ Shifting' = 0 /\ Waiting' = Waiting
    BY <1>1, <2>2 DEF Balance, Shifting, Waiting
  <2> QED
    BY <1>1, <1>4, <2>1, <2>3 DEF Balance
<1> QED
  BY <1>1, <1>5 DEF AnswerInv

LEMMA NoFrameBalances ==
  ASSUME TypeOK, AnswerInv, NoFrame
  PROVE  AnswerInv'
<1>1. /\ pc = "count" /\ pc' = "loop" /\ connections' = 0 /\ UNCHANGED <<peer, app, cut>>
      /\ deviceConnected' = Connected /\ oldDeviceConnected' = Connected
  BY DEF NoFrame, client
<1>2. /\ connections \in {0, 1}
      /\ deviceConnected \in BOOLEAN
  BY DEF TypeOK
<1>3. ASSUME ~cut
      PROVE  /\ UNCHANGED recv_len /\ Replies(send_queue') = Replies(send_queue)
             /\ lost' = {} => lost = {}
  <2>1. CASE UNCHANGED <<send_queue, recv_len>> /\ lost \subseteq lost'
    BY <2>1
  <2>2. CASE UNCHANGED recv_len /\ \E f \in Frames : f.type \in {"contact", "end"} /\ writeFrame(f)
    <3>1. PICK f \in Frames : f.type \notin ReplyTypes /\ writeFrame(f)
      BY <2>2 DEF ReplyTypes
    <3> QED
      BY <2>2, <3>1, Wrote, NoReplyWritten
  <2>3. CASE ~Connected /\ oldDeviceConnected
    BY <1>1, <1>3, <2>3 DEF AnswerInv, Connected
  <2> QED
    BY <2>1, <2>2, <2>3, NoFrameWrote
<1>4. Connected => connections = 1
  BY <1>2 DEF Connected
<1> QED
  BY <1>1, <1>3, <1>4 DEF AnswerInv, Balance, Shifting, Waiting

LEMMA NextBalances ==
  ASSUME TypeOK, AnswerInv, [Next]_vars
  PROVE  AnswerInv'
<1>1. CASE Push \/ \E private \in BOOLEAN : MessageArrives(private)
  BY <1>1, PushesBalance
<1>2. CASE \E id \in Contacts : ContactChanges(id)
  BY <1>2, QuietBalances DEF ContactChanges, ble, client, loopAt
<1>3. CASE Tick \/ Ready \/ UNCHANGED vars
  BY <1>3, QuietBalances DEF Tick, Ready, vars, device, ble, client, past, loopAt
<1>4. CASE Disconnect
  BY <1>4 DEF Disconnect, AnswerInv
<1>5. CASE LoopStep
  BY <1>5, LoopStartsBalances, ShiftBalances, NoFrameBalances DEF LoopStep
<1> QED
  BY <1>1, <1>2, <1>3, <1>4, <1>5, ConnectBalances, AppBalances DEF Next

LEMMA InitBalances ==
  ASSUME Init
  PROVE  AnswerInv
<1>1. Replies(<<>>) = 0
  <2>1. RepliesAt(<<>>) = {}
    BY EmptySeq DEF RepliesAt
  <2> QED
    BY <2>1, FS_EmptySet DEF Replies
<1>2. /\ ~oldDeviceConnected /\ connections = 0 /\ recv_len = 0 /\ pc = "loop"
      /\ app.waiting = "none" /\ send_queue = <<>>
  BY DEF Init
<1> QED
  BY <1>1, <1>2 DEF AnswerInv, Balance, Shifting, Waiting

(* While nothing is lost and no connection broke, a command of the app is  *)
(* queued, worked on or answered, and all of this once (onWrite,           *)
(* checkRecvFrame).                                                        *)
THEOREM OneAnswerForEach == Spec => []OneAnswerEach
<1>1. AnswerInv => OneAnswerEach
  <2>1. Cardinality({x \in {"taken"} : pc = "shift"}) = Shifting
    <3>1. CASE pc = "shift"
      <4>1. {x \in {"taken"} : pc = "shift"} = {"taken"}
        BY <3>1
      <4> QED
        BY <3>1, <4>1, FS_Singleton DEF Shifting
    <3>2. CASE pc # "shift"
      <4>1. {x \in {"taken"} : pc = "shift"} = {}
        BY <3>2
      <4> QED
        BY <3>2, <4>1, FS_EmptySet DEF Shifting
    <3> QED
      BY <3>1, <3>2
  <2>2. Cardinality({x \in {"none"} : app.waiting # x}) = Waiting
    <3>1. CASE app.waiting # "none"
      <4>1. {x \in {"none"} : app.waiting # x} = {"none"}
        BY <3>1
      <4> QED
        BY <3>1, <4>1, FS_Singleton DEF Waiting
    <3>2. CASE app.waiting = "none"
      <4>1. {x \in {"none"} : app.waiting # x} = {}
        BY <3>2
      <4> QED
        BY <3>2, <4>1, FS_EmptySet DEF Waiting
    <3> QED
      BY <3>1, <3>2
  <2> QED
    BY <2>1, <2>2 DEF AnswerInv, Balance, OneAnswerEach, Replies, RepliesAt
<1> QED
  BY <1>1, TypeCorrect, InitBalances, NextBalances, PTL DEF Spec

------------------------------------------------------------------------------
(* What an app knows of the messages that wait. *)

(* Frames move by one place when the first is sent, and stay when another  *)
(* is appended.                                                            *)
LEMMA FrameAppended ==
  ASSUME NEW s \in Seq(Frames), NEW f \in Frames
  PROVE  /\ Len(s) \in Nat /\ Len(Append(s, f)) = Len(s) + 1 /\ Append(s, f)[Len(s) + 1] = f
         /\ \A i \in 1 .. Len(s) : Append(s, f)[i] = s[i]
BY AppendProperties, LenProperties

LEMMA FrameLeaves ==
  ASSUME NEW s \in Seq(Frames), s # <<>>
  PROVE  /\ Len(s) \in Nat \ {0} /\ Len(Tail(s)) = Len(s) - 1 /\ Head(s) = s[1]
         /\ \A i \in 1 .. Len(Tail(s)) : i + 1 \in 1 .. Len(s) /\ Tail(s)[i] = s[i + 1]
<1>1. /\ Len(s) \in Nat \ {0} /\ Len(Tail(s)) = Len(s) - 1 /\ Head(s) = s[1]
      /\ \A i \in 1 .. Len(Tail(s)) : Tail(s)[i] = s[i + 1]
  BY HeadTailProperties, EmptySeq, LenProperties
<1>2. \A i \in 1 .. Len(Tail(s)) : i + 1 \in 1 .. Len(s)
  BY <1>1
<1> QED
  BY <1>1, <1>2

(* handleCmdFrame() by the command. *)
LEMMA HandledEach ==
  ASSUME TypeOK, NEW cmd \in Commands, Handle(cmd)
  PROVE  \/ /\ writeFrame(Frame("self")) /\ UNCHANGED offline_queue
            /\ iter' = [iter EXCEPT !.started = FALSE]
         \/ writeFrame(Frame("nomore")) /\ UNCHANGED <<iter, offline_queue>> /\ offline_queue = <<>>
         \/ /\ offline_queue # <<>> /\ offline_queue' = Tail(offline_queue) /\ UNCHANGED iter
            /\ writeFrame(Numbered("msg", Head(offline_queue).n))
            /\ Head(offline_queue).n \in Nat
         \/ writeFrame(Frame("err")) /\ UNCHANGED <<iter, offline_queue>>
         \/ writeFrame(Frame("count")) /\ UNCHANGED offline_queue /\ iter' = ListAnew(cmd.n)
<1>1. CASE cmd.type = "start"
  BY <1>1 DEF Handle
<1>2. CASE cmd.type = "sync"
  <2>1. CASE offline_queue = <<>>
    BY <1>2, <2>1 DEF Handle
  <2>2. CASE offline_queue # <<>>
    <3>1. Head(offline_queue) \in Message
      BY <2>2, HeadTailProperties DEF TypeOK
    <3>2. Head(offline_queue).n \in Nat
      BY <3>1 DEF Message
    <3> QED
      BY <1>2, <2>2, <3>2 DEF Handle
  <2> QED
    BY <2>1, <2>2
<1>3. CASE cmd.type = "list"
  BY <1>3 DEF Handle
<1>4. CASE cmd.type \notin {"start", "sync", "list"}
  BY <1>4 DEF Handle
<1> QED
  BY <1>1, <1>2, <1>3, <1>4

(* A tickle is queued, at p or behind it. *)
Tickles(s, p) == \E j \in p .. Len(s) : s[j].type = "tickle"

(* Inductive: an app that does not want to fetch knows of all that waits,  *)
(* and so it will when it gets the answer that there is no more.           *)
KnownInv ==
  deviceConnected /\ lost \subseteq {"msg"} /\ peer =>
    /\ app.wants \/ offline_queue = <<>> \/ Tickles(send_queue, 1)
    /\ \A p \in 1 .. Len(send_queue) :
         send_queue[p].type = "nomore" => offline_queue = <<>> \/ Tickles(send_queue, p)

(* Something is written, or does not fit. *)
LEMMA WritingKeepsKnown ==
  ASSUME TypeOK, KnownInv, UNCHANGED <<deviceConnected, peer, app>>, NEW f \in Frames,
         \/ send_queue' = Append(send_queue, f) /\ lost' = lost
         \/ send_queue' = send_queue /\ lost \subseteq lost',
         offline_queue = <<>> => offline_queue' = <<>>,
         f.type = "nomore" => offline_queue' = <<>>
  PROVE  KnownInv'
<1> SUFFICES ASSUME deviceConnected, lost' \subseteq {"msg"}, peer
             PROVE  /\ app.wants \/ offline_queue' = <<>> \/ Tickles(send_queue', 1)
                    /\ \A p \in 1 .. Len(send_queue') : send_queue'[p].type = "nomore" =>
                         offline_queue' = <<>> \/ Tickles(send_queue', p)
  BY DEF KnownInv
<1>1. lost \subseteq {"msg"}
  OBVIOUS
<1>2. /\ app.wants \/ offline_queue = <<>> \/ Tickles(send_queue, 1)
      /\ \A p \in 1 .. Len(send_queue) :
           send_queue[p].type = "nomore" => offline_queue = <<>> \/ Tickles(send_queue, p)
  BY <1>1 DEF KnownInv
<1>3. CASE send_queue' = send_queue
  BY <1>2, <1>3
<1>4. CASE send_queue' = Append(send_queue, f)
  <2>1. /\ Len(send_queue) \in Nat /\ Len(send_queue') = Len(send_queue) + 1
        /\ send_queue'[Len(send_queue) + 1] = f
        /\ \A i \in 1 .. Len(send_queue) : send_queue'[i] = send_queue[i]
    BY <1>4, FrameAppended DEF TypeOK
  <2>2. \A p \in 1 .. Len(send_queue) + 1 : Tickles(send_queue, p) => Tickles(send_queue', p)
    BY <2>1 DEF Tickles
  <2>3. ASSUME NEW p \in 1 .. Len(send_queue'), send_queue'[p].type = "nomore"
        PROVE  offline_queue' = <<>> \/ Tickles(send_queue', p)
    <3>1. CASE p \in 1 .. Len(send_queue)
      BY <1>2, <2>1, <2>2, <2>3, <3>1
    <3>2. CASE p = Len(send_queue) + 1
      BY <2>1, <2>3, <3>2
    <3> QED
      BY <2>1, <3>1, <3>2
  <2> QED
    BY <1>2, <2>1, <2>2, <2>3
<1> QED
  BY <1>3, <1>4

LEMMA MessageKeepsKnown ==
  ASSUME TypeOK, KnownInv, NEW private \in BOOLEAN, MessageArrives(private)
  PROVE  KnownInv'
<1> DEFINE f == Frame("tickle")
<1>1. f \in Frames /\ f.type = "tickle"
  BY FramesTyped DEF FrameTypes
<1>2. Notify(f) /\ UNCHANGED <<deviceConnected, peer, app>>
  BY DEF MessageArrives, client
<1> HIDE DEF f
<1>3. CASE ~deviceConnected
  BY <1>2, <1>3 DEF KnownInv
<1>4. CASE deviceConnected
  <2>1. \/ send_queue' = Append(send_queue, f) /\ lost' = lost
        \/ lost' = lost \cup {"tickle"}
    BY <1>1, <1>2, <1>4, Wrote DEF Notify
  <2>2. CASE send_queue' = Append(send_queue, f) /\ lost' = lost
    <3>1. /\ Len(send_queue) \in Nat /\ Len(send_queue') = Len(send_queue) + 1
          /\ send_queue'[Len(send_queue) + 1] = f
      BY <2>2, FrameAppended, <1>1 DEF TypeOK
    <3>2. \A p \in 1 .. Len(send_queue') : Tickles(send_queue', p)
      BY <1>1, <3>1 DEF Tickles
    <3>3. Tickles(send_queue', 1)
      BY <3>1, <3>2
    <3> QED
      BY <3>2, <3>3 DEF KnownInv
  <2>3. CASE lost' = lost \cup {"tickle"}
    BY <2>3 DEF KnownInv
  <2> QED
    BY <2>1, <2>2, <2>3
<1> QED
  BY <1>3, <1>4

LEMMA LoopStartsKeepsKnown ==
  ASSUME TypeOK, KnownInv, LoopStarts
  PROVE  KnownInv'
<1> DEFINE h == Head(send_queue)
           t == Tail(send_queue)
<1>1. SendOne /\ UNCHANGED <<deviceConnected, peer, offline_queue>>
  BY DEF LoopStarts, device
<1>2. \/ UNCHANGED <<send_queue, app, lost>>
      \/ /\ send_queue # <<>> /\ send_queue' = t /\ h \in Frames
         /\ \/ peer /\ app' = AppTakes(h) /\ lost' = lost
            \/ ~peer
  BY <1>1, Sent
<1>3. CASE UNCHANGED <<send_queue, app, lost>>
  BY <1>1, <1>3 DEF KnownInv
<1>4. CASE ~peer
  BY <1>1, <1>4 DEF KnownInv
<1>5. CASE send_queue # <<>> /\ send_queue' = t /\ h \in Frames /\ app' = AppTakes(h) /\ lost' = lost
  <2>1. /\ Len(send_queue) \in Nat \ {0} /\ Len(t) = Len(send_queue) - 1 /\ h = send_queue[1]
        /\ \A i \in 1 .. Len(t) : i + 1 \in 1 .. Len(send_queue) /\ t[i] = send_queue[i + 1]
    BY <1>5, FrameLeaves DEF TypeOK
  <2>2. app'.wants = IF h.type = "nomore" THEN FALSE
                     ELSE IF h.type = "tickle" THEN TRUE ELSE app.wants
    <3>1. app \in AppState /\ h.type \in FrameTypes
      BY <1>5 DEF TypeOK, Frames
    <3> HIDE DEF h
    <3> QED
      BY <1>5, <3>1, Zenon DEF AppTakes, AppState, FrameTypes, ReplyTypes
  <2> HIDE DEF h, t
  <2>3. ASSUME NEW p \in 1 .. Len(send_queue), Tickles(send_queue, p), send_queue[p].type # "tickle"
        PROVE  Tickles(t, p)
    <3>1. PICK j \in p .. Len(send_queue) : send_queue[j].type = "tickle"
      BY <2>3 DEF Tickles
    <3>2. j # p /\ j \in Nat /\ p \in Nat
      BY <2>1, <2>3, <3>1
    <3>3. j - 1 \in p .. Len(t) /\ j - 1 \in 1 .. Len(t) /\ (j - 1) + 1 = j
      BY <2>1, <3>1, <3>2
    <3>4. t[j - 1] = send_queue[j]
      BY <2>1, <3>3
    <3> QED
      BY <3>1, <3>3, <3>4 DEF Tickles
  <2>4. ASSUME NEW p \in 1 .. Len(t), Tickles(send_queue, p + 1)
        PROVE  Tickles(t, p)
    <3>1. PICK j \in p + 1 .. Len(send_queue) : send_queue[j].type = "tickle"
      BY <2>4 DEF Tickles
    <3>3. j - 1 \in p .. Len(t) /\ j - 1 \in 1 .. Len(t) /\ (j - 1) + 1 = j
      BY <2>1, <3>1
    <3>4. t[j - 1] = send_queue[j]
      BY <2>1, <3>3
    <3> QED
      BY <3>1, <3>3, <3>4 DEF Tickles
  <2>5. ASSUME deviceConnected, lost \subseteq {"msg"}, peer
        PROVE  /\ app'.wants \/ offline_queue = <<>> \/ Tickles(t, 1)
               /\ \A p \in 1 .. Len(t) :
                    t[p].type = "nomore" => offline_queue = <<>> \/ Tickles(t, p)
    <3>1. /\ app.wants \/ offline_queue = <<>> \/ Tickles(send_queue, 1)
          /\ \A p \in 1 .. Len(send_queue) :
               send_queue[p].type = "nomore" => offline_queue = <<>> \/ Tickles(send_queue, p)
      BY <2>5 DEF KnownInv
    <3>2. 1 \in 1 .. Len(send_queue)
      BY <2>1
    <3>3. app'.wants \/ offline_queue = <<>> \/ Tickles(t, 1)
      <4>1. CASE h.type = "nomore"
        BY <2>1, <2>3, <3>1, <3>2, <4>1
      <4>2. CASE h.type = "tickle"
        BY <2>2, <4>2
      <4>3. CASE h.type # "nomore" /\ h.type # "tickle"
        BY <2>1, <2>2, <2>3, <3>1, <3>2, <4>3
      <4> QED
        BY <4>1, <4>2, <4>3
    <3> QED
      BY <2>1, <2>4, <3>1, <3>3
  <2> QED
    BY <1>1, <1>5, <2>5 DEF KnownInv
<1> QED
  BY <1>2, <1>3, <1>4, <1>5

LEMMA ShiftKeepsKnown ==
  ASSUME TypeOK, KnownInv, ShiftAndHandle
  PROVE  KnownInv'
<1>1. taken \in Commands /\ Handle(taken) /\ UNCHANGED <<deviceConnected, peer, app>>
  BY DEF TypeOK, ShiftAndHandle, client
<1>2. PICK f \in Frames : /\ writeFrame(f)
                          /\ offline_queue = <<>> => offline_queue' = <<>>
                          /\ f.type = "nomore" => offline_queue' = <<>>
  <2>1. \A type \in {"self", "nomore", "err", "count"} : Frame(type) \in Frames /\ Frame(type).type = type
    BY FramesTyped DEF FrameTypes, ReplyTypes
  <2>2. \A n \in Nat : Numbered("msg", n) \in Frames /\ Numbered("msg", n).type = "msg"
    BY FramesTyped DEF FrameTypes, ReplyTypes
  <2> QED
    BY <1>1, <2>1, <2>2, HandledEach
<1> QED
  BY <1>1, <1>2, Wrote, WritingKeepsKnown

LEMMA NoFrameKeepsKnown ==
  ASSUME TypeOK, KnownInv, NoFrame
  PROVE  KnownInv'
<1>1. deviceConnected' = Connected /\ UNCHANGED <<peer, app, offline_queue>>
  BY DEF NoFrame, client
<1>2. CASE ~Connected
  BY <1>1, <1>2 DEF KnownInv
<1>3. CASE Connected
  <2>1. deviceConnected' = deviceConnected
    BY <1>1, <1>3 DEF Connected, TypeOK
  <2>2. CASE UNCHANGED <<send_queue, lost>>
    BY <1>1, <2>1, <2>2 DEF KnownInv
  <2>3. ASSUME NEW f \in Frames, f.type \in {"contact", "end"}, writeFrame(f)
        PROVE  KnownInv'
    BY <1>1, <2>1, <2>3, Wrote, WritingKeepsKnown
  <2> QED
    BY <1>3, <2>2, <2>3, NoFrameWrote
<1> QED
  BY <1>2, <1>3

(* A new app wants to fetch, and finds no answer for the one before. *)
LEMMA ConnectKeepsKnown ==
  ASSUME TypeOK, Connect
  PROVE  KnownInv'
<1>1. /\ app' = Connecting(app) /\ send_queue' = send_queue /\ lost' = (lost \cap {"msg"}) \cup (Found \cap {"nomore"})
  BY DEF Connect
<1>2. app'.wants = TRUE
  BY <1>1 DEF Connecting, TypeOK, AppState
<1>3. ASSUME NEW p \in 1 .. Len(send_queue), send_queue[p].type = "nomore"
      PROVE  "nomore" \in lost'
  <2>1. send_queue[p] \in Range(send_queue)
    BY RangeOfSeq, LenProperties DEF TypeOK, Range
  <2> QED
    BY <1>1, <1>3, <2>1 DEF Found
<1> QED
  BY <1>1, <1>2, <1>3 DEF KnownInv

LEMMA NextKeepsKnown ==
  ASSUME TypeOK, KnownInv, [Next]_vars
  PROVE  KnownInv'
<1>1. CASE \E private \in BOOLEAN : MessageArrives(private)
  BY <1>1, MessageKeepsKnown
<1>2. CASE Push
  <2>1. Frame("push") \in Frames /\ Frame("push").type = "push"
    BY FramesTyped DEF FrameTypes
  <2>2. /\ Notify(Frame("push")) /\ UNCHANGED <<offline_queue, deviceConnected, peer, app>>
    BY <1>2 DEF Push, device, client
  <2> QED
    BY <2>1, <2>2, Notified, WritingKeepsKnown
<1>3. CASE LoopStarts
  BY <1>3, LoopStartsKeepsKnown
<1>4. CASE ShiftAndHandle
  BY <1>4, ShiftKeepsKnown
<1>5. CASE NoFrame
  BY <1>5, NoFrameKeepsKnown
<1>6. CASE Connect
  BY <1>6, ConnectKeepsKnown
<1>7. CASE Disconnect
  BY <1>7 DEF Disconnect, KnownInv
<1>8. CASE AppStep
  <2>1. PICK cmd : AppSends(cmd)
    BY <1>8 DEF AppStep, AppStarts, AppFetches, AppLists
  <2>2. app'.wants = app.wants
    BY <2>1 DEF AppSends, TypeOK, AppState
  <2>3. UNCHANGED <<offline_queue, send_queue, deviceConnected, peer, lost>>
    BY <2>1 DEF AppSends, device, past
  <2> QED
    BY <2>2, <2>3 DEF KnownInv
<1>9. CASE (\E id \in Contacts : ContactChanges(id)) \/ Tick \/ Ready \/ UNCHANGED vars
  BY <1>9 DEF ContactChanges, Tick, Ready, vars, device, ble, client, past, KnownInv
<1> QED
  BY <1>1, <1>2, <1>3, <1>4, <1>5, <1>6, <1>7, <1>8, <1>9 DEF Next, LoopStep

(* An app that waits for nothing knows of every message, in whatever order *)
(* tickles and the answers that there are no more are queued, sent and     *)
(* taken (queueMessage, CMD_SYNC_NEXT_MESSAGE).                            *)
THEOREM WaitingIsAlwaysKnown == Spec => []WaitingMessagesAreKnown
<1>1. Init => KnownInv
  BY DEF Init, KnownInv
<1>2. TypeOK /\ KnownInv => WaitingMessagesAreKnown
  <2> SUFFICES ASSUME TypeOK, Tickles(send_queue, 1)
               PROVE  \E f \in Range(send_queue) : f.type = "tickle"
    BY DEF KnownInv, WaitingMessagesAreKnown
  <2>1. PICK j \in 1 .. Len(send_queue) : send_queue[j].type = "tickle"
    BY DEF Tickles
  <2>2. send_queue[j] \in Range(send_queue)
    BY RangeOfSeq, LenProperties DEF TypeOK, Range
  <2> QED
    BY <2>1, <2>2
<1> QED
  BY <1>1, <1>2, TypeCorrect, NextKeepsKnown, PTL DEF Spec

------------------------------------------------------------------------------
(* Listings of the contacts. *)

(* What the app makes of a frame, for its listing. *)
LEMMA TakenEach ==
  ASSUME TypeOK, NEW f \in Frames
  PROVE  /\ AppTakes(f).ready = (app.ready \/ f.type = "self")
         /\ AppTakes(f).listing = IF f.type = "count" THEN app.ready
                                  ELSE IF f.type = "end" THEN FALSE ELSE app.listing
         /\ AppTakes(f).since = IF f.type = "end" /\ app.listing /\ f.n > app.since
                                THEN f.n ELSE app.since
         /\ AppTakes(f).book = IF f.type = "contact" THEN [app.book EXCEPT ![f.id] = f.n]
                               ELSE app.book
<1> DEFINE answered == IF f.type \in ReplyTypes THEN [app EXCEPT !.waiting = "none"] ELSE app
<1>0. app \in AppState /\ f.type \in FrameTypes
  BY DEF TypeOK, Frames
<1>1. /\ answered \in AppState /\ answered.ready = app.ready /\ answered.listing = app.listing
      /\ answered.since = app.since /\ answered.book = app.book
  BY <1>0 DEF AppState
<1>2. AppTakes(f) =
        CASE f.type = "self"    -> [answered EXCEPT !.ready = TRUE]
          [] f.type = "msg"     -> answered
          [] f.type = "nomore"  -> [answered EXCEPT !.wants = FALSE]
          [] f.type = "tickle"  -> [answered EXCEPT !.wants = TRUE]
          [] f.type = "count"   -> [answered EXCEPT !.listing = app.ready]
          [] f.type = "contact" -> [answered EXCEPT !.book[f.id] = f.n]
          [] f.type = "end"     ->
               IF app.listing
               THEN [answered EXCEPT !.listing = FALSE,
                                     !.since = IF f.n > @ THEN f.n ELSE @]
               ELSE answered
          [] OTHER -> answered
  BY DEF AppTakes
<1> HIDE DEF answered
<1>3. CASE f.type = "self"
  BY <1>1, <1>2, <1>3 DEF AppState
<1>4. CASE f.type = "nomore"
  BY <1>1, <1>2, <1>4 DEF AppState
<1>5. CASE f.type = "tickle"
  BY <1>1, <1>2, <1>5 DEF AppState
<1>6. CASE f.type = "count"
  BY <1>1, <1>2, <1>6 DEF AppState
<1>7. CASE f.type = "contact"
  <2>1. AppTakes(f) = [answered EXCEPT !.book = [answered.book EXCEPT ![f.id] = f.n]]
    BY <1>1, <1>2, <1>7 DEF AppState
  <2> QED
    BY <1>1, <1>7, <2>1 DEF AppState
<1>8. CASE f.type = "end"
  <2>1. CASE app.listing
    <3>1. AppTakes(f) = [answered EXCEPT !.listing = FALSE,
                           !.since = IF f.n > answered.since THEN f.n ELSE answered.since]
      BY <1>2, <1>8, <2>1
    <3> DEFINE s == IF f.n > answered.since THEN f.n ELSE answered.since
    <3>2. s = IF f.n > app.since THEN f.n ELSE app.since
      BY <1>1
    <3> HIDE DEF s
    <3>3. AppTakes(f) = [answered EXCEPT !.listing = FALSE, !.since = s]
      BY <3>1 DEF s
    <3>4. /\ AppTakes(f).ready = answered.ready /\ AppTakes(f).listing = FALSE
          /\ AppTakes(f).since = s /\ AppTakes(f).book = answered.book
      BY <1>1, <3>3 DEF AppState
    <3>5. app.ready \in BOOLEAN
      BY <1>0 DEF AppState
    <3>6. AppTakes(f).ready = (app.ready \/ f.type = "self")
      BY <1>1, <1>8, <3>4, <3>5
    <3>7. AppTakes(f).since = IF f.type = "end" /\ app.listing /\ f.n > app.since
                              THEN f.n ELSE app.since
      BY <1>8, <2>1, <3>2, <3>4
    <3>8. AppTakes(f).listing = IF f.type = "count" THEN app.ready
                                ELSE IF f.type = "end" THEN FALSE ELSE app.listing
      BY <1>8, <3>4
    <3>9. AppTakes(f).book = IF f.type = "contact" THEN [app.book EXCEPT ![f.id] = f.n]
                             ELSE app.book
      BY <1>1, <1>8, <3>4
    <3> QED
      BY <3>6, <3>7, <3>8, <3>9
  <2>2. CASE ~app.listing
    <3>1. AppTakes(f) = answered
      BY <1>2, <1>8, <2>2
    <3>2. app.listing = FALSE /\ app.ready \in BOOLEAN
      BY <1>0, <2>2 DEF AppState
    <3>3. AppTakes(f).since = IF f.type = "end" /\ app.listing /\ f.n > app.since
                              THEN f.n ELSE app.since
      BY <1>1, <2>2, <3>1
    <3> QED
      BY <1>1, <1>8, <3>1, <3>2, <3>3
  <2> QED
    BY <2>1, <2>2
<1>9. CASE f.type \in {"msg", "err", "push"}
  <2>1. AppTakes(f) = answered
    BY <1>2, <1>9
  <2>2. AppTakes(f).ready = (app.ready \/ f.type = "self")
    BY <1>0, <1>1, <1>9, <2>1 DEF AppState
  <2>3. AppTakes(f).listing = IF f.type = "count" THEN app.ready
                              ELSE IF f.type = "end" THEN FALSE ELSE app.listing
    BY <1>1, <1>9, <2>1
  <2> QED
    BY <1>1, <1>9, <2>1, <2>2, <2>3
<1> QED
  BY <1>0, <1>3, <1>4, <1>5, <1>6, <1>7, <1>8, <1>9 DEF FrameTypes, ReplyTypes

(* No version of a contact is newer than the one the device has, neither   *)
(* the app's nor one under way, and those under way are in their order.    *)
OnDevice ==
  /\ \A i, j \in 1 .. Len(contacts) : contacts[i].id = contacts[j].id => i = j
  /\ \A i \in 1 .. Len(contacts) :
       contacts[i].lastmod <= now /\ app.book[contacts[i].id] <= contacts[i].lastmod
  /\ \A id \in Contacts : app.book[id] <= now

UnderWay ==
  \A p \in 1 .. Len(send_queue) : send_queue[p].type = "contact" =>
    /\ app.book[send_queue[p].id] <= send_queue[p].n
    /\ \E i \in 1 .. Len(contacts) :
         contacts[i].id = send_queue[p].id /\ send_queue[p].n <= contacts[i].lastmod

InOrder ==
  \A p, q \in 1 .. Len(send_queue) :
    (p < q /\ send_queue[p].type = "contact" /\ send_queue[q].type = "contact"
     /\ send_queue[p].id = send_queue[q].id)
      => send_queue[p].n <= send_queue[q].n

Versions == OnDevice /\ UnderWay /\ InOrder

(* Listings ask for no time that the app has not been told. *)
Sinces ==
  /\ \A i \in Slots : recv[i].n <= app.since
  /\ taken.n <= app.since /\ iter.since <= app.since
  /\ app.listing => app.ready

(* Whether the app counts a frame at p as one for it: it has the answer to *)
(* its start, or will have it by then.                                     *)
Counts(p) == app.ready \/ \E r \in 1 .. p - 1 : send_queue[r].type = "self"

(* The app has contact c, or will have it when frame p comes. *)
Shown(c, p) ==
  \/ app.book[c.id] = c.lastmod
  \/ \E q \in 1 .. p - 1 : send_queue[q] = ContactFrame(c)

Told == \A k \in 1 .. Len(contacts) :
          contacts[k].lastmod <= app.since => app.book[contacts[k].id] = contacts[k].lastmod

EndsFine ==
  peer => \A p \in 1 .. Len(send_queue) : send_queue[p].type = "end" /\ Counts(p) =>
    \A k \in 1 .. Len(contacts) :
      contacts[k].lastmod <= send_queue[p].n => Shown(contacts[k], p)

IterFine ==
  peer /\ deviceConnected /\ iter.started /\ Counts(Len(send_queue) + 1) =>
    \A k \in 1 .. Len(contacts) : k < iter.next =>
      contacts[k].lastmod <= iter.since \/ Shown(contacts[k], Len(send_queue) + 1)

(* Inductive, with Versions and Sinces: when an end comes that counts, the *)
(* app has all up to it, because the part of the listing that is done has  *)
(* been sent to this very app.                                             *)
ListInv == ~disturbed => Told /\ EndsFine /\ IterFine

LEMMA DataTyped ==
  ASSUME TypeOK
  PROVE  /\ Len(contacts) \in Nat /\ Len(send_queue) \in Nat /\ now \in Nat
         /\ \A i \in 1 .. Len(contacts) : contacts[i].id \in Contacts /\ contacts[i].lastmod \in Nat
         /\ \A p \in 1 .. Len(send_queue) : send_queue[p] \in Frames /\ send_queue[p].n \in Nat
         /\ app.book \in [Contacts -> Nat] /\ app.since \in Nat
<1>1. contacts \in Seq(Contact) /\ send_queue \in Seq(Frames) /\ now \in Nat /\ app \in AppState
  BY DEF TypeOK
<1>2. \A i \in 1 .. Len(contacts) : contacts[i] \in Contact
  BY <1>1, ElementOfSeq
<1>3. \A p \in 1 .. Len(send_queue) : send_queue[p] \in Frames
  BY <1>1, ElementOfSeq
<1> QED
  BY <1>1, <1>2, <1>3, LenProperties DEF Contact, Frames, AppState

------------------------------------------------------------------------------
(* Versions *)

(* The queue loses its frames, or gets one that is no contact. *)
LEMMA QuietKeepsVersions ==
  ASSUME TypeOK, Versions, UNCHANGED contacts, now' \in Nat, now <= now', app'.book = app.book,
         NEW f \in Frames,
         \/ send_queue' = send_queue
         \/ send_queue' = <<>>
         \/ send_queue' = Append(send_queue, f) /\ f.type # "contact"
  PROVE  Versions'
<1> DEFINE C == contacts
           B == app.book
<1>0. /\ Len(C) \in Nat /\ now \in Nat /\ B \in [Contacts -> Nat]
      /\ \A i \in 1 .. Len(C) : C[i].id \in Contacts /\ C[i].lastmod \in Nat
  BY DataTyped
<1>1. /\ \A i, j \in 1 .. Len(C) : C[i].id = C[j].id => i = j
      /\ \A i \in 1 .. Len(C) : C[i].lastmod <= now /\ B[C[i].id] <= C[i].lastmod
      /\ \A id \in Contacts : B[id] <= now
  BY DEF Versions, OnDevice
<1>3. OnDevice'
  <2>1. C' = C /\ B' = B
    OBVIOUS
  <2> SUFFICES /\ \A i, j \in 1 .. Len(C') : C'[i].id = C'[j].id => i = j
               /\ \A i \in 1 .. Len(C') : C'[i].lastmod <= now' /\ B'[C'[i].id] <= C'[i].lastmod
               /\ \A id \in Contacts : B'[id] <= now'
    BY DEF OnDevice
  <2> HIDE DEF C, B
  <2>2. \A i \in 1 .. Len(C) : C[i].lastmod <= now'
    BY <1>0, <1>1
  <2>3. \A id \in Contacts : B[id] <= now'
    BY <1>0, <1>1
  <2> QED
    BY <1>1, <2>1, <2>2, <2>3
<1>2. \A p \in 1 .. Len(send_queue') : send_queue'[p].type = "contact" =>
        p \in 1 .. Len(send_queue) /\ send_queue'[p] = send_queue[p]
  <2>1. CASE send_queue' = Append(send_queue, f) /\ f.type # "contact"
    <3>1. /\ Len(send_queue) \in Nat /\ Len(send_queue') = Len(send_queue) + 1
          /\ send_queue'[Len(send_queue) + 1] = f
          /\ \A i \in 1 .. Len(send_queue) : send_queue'[i] = send_queue[i]
      BY <2>1, FrameAppended DEF TypeOK
    <3> QED
      BY <2>1, <3>1
  <2>2. CASE send_queue' = <<>>
    BY <2>2, EmptySeq
  <2> QED
    BY <2>1, <2>2
<1>4. UnderWay'
  BY <1>2 DEF Versions, UnderWay
<1>5. InOrder'
  <2>1. \A p, q \in 1 .. Len(send_queue) :
          (p < q /\ send_queue[p].type = "contact" /\ send_queue[q].type = "contact"
 /\ send_queue[p].id = send_queue[q].id)
  => send_queue[p].n <= send_queue[q].n
    BY DEF Versions, InOrder
  <2>2. \A p, q \in 1 .. Len(send_queue') :
          (p < q /\ send_queue'[p].type = "contact" /\ send_queue'[q].type = "contact"
 /\ send_queue'[p].id = send_queue'[q].id)
  => send_queue'[p].n <= send_queue'[q].n
    BY <1>2, <2>1
  <2> QED
    BY <2>2 DEF InOrder
<1> QED
  BY <1>3, <1>4, <1>5 DEF Versions

(* A contact is written as it is. *)
LEMMA WritingKeepsVersions ==
  ASSUME TypeOK, Versions, UNCHANGED <<contacts, now>>, app'.book = app.book,
         NEW m \in 1 .. Len(contacts), send_queue' = Append(send_queue, ContactFrame(contacts[m]))
  PROVE  Versions'
<1> DEFINE f == ContactFrame(contacts[m])
           L == Len(send_queue)
<1>1. f.type = "contact" /\ f.id = contacts[m].id /\ f.n = contacts[m].lastmod /\ f \in Frames
  <2>1. contacts[m] \in Contact
    BY ElementOfSeq DEF TypeOK
  <2> QED
    BY <2>1, FramesTyped DEF ContactFrame
<1>2. /\ L \in Nat /\ Len(send_queue') = L + 1 /\ send_queue'[L + 1] = f
      /\ \A i \in 1 .. L : send_queue'[i] = send_queue[i]
  BY <1>1, FrameAppended DEF TypeOK
<1> HIDE DEF f, L
<1>3. /\ \A i, j \in 1 .. Len(contacts') : contacts'[i].id = contacts'[j].id => i = j
      /\ \A i \in 1 .. Len(contacts') :
           contacts'[i].lastmod <= now' /\ app'.book[contacts'[i].id] <= contacts'[i].lastmod
      /\ \A id \in Contacts : app'.book[id] <= now'
  BY DEF Versions, OnDevice, UnderWay, InOrder
<1>4. ASSUME NEW p \in 1 .. Len(send_queue'), send_queue'[p].type = "contact"
      PROVE  /\ app'.book[send_queue'[p].id] <= send_queue'[p].n
             /\ \E i \in 1 .. Len(contacts') :
                  contacts'[i].id = send_queue'[p].id /\ send_queue'[p].n <= contacts'[i].lastmod
  <2>1. CASE p \in 1 .. L
    BY <1>2, <1>4, <2>1 DEF Versions, OnDevice, UnderWay, InOrder, L
  <2>2. CASE p = L + 1
    BY <1>1, <1>2, <2>2, DataTyped DEF Versions, OnDevice, UnderWay, InOrder
  <2> QED
    BY <1>2, <2>1, <2>2
<1>5. ASSUME NEW p \in 1 .. L, send_queue[p].type = "contact", send_queue[p].id = f.id
      PROVE  send_queue[p].n <= f.n
  BY <1>1, <1>5 DEF Versions, OnDevice, UnderWay, InOrder, L
<1>6. ASSUME NEW p \in 1 .. Len(send_queue'), NEW q \in 1 .. Len(send_queue'), p < q,
             send_queue'[p].type = "contact", send_queue'[q].type = "contact",
             send_queue'[p].id = send_queue'[q].id
      PROVE  send_queue'[p].n <= send_queue'[q].n
  <2>1. p \in 1 .. L
    BY <1>2, <1>6
  <2>2. CASE q \in 1 .. L
    <3>1. \A a, b \in 1 .. L :
            (a < b /\ send_queue[a].type = "contact" /\ send_queue[b].type = "contact"
 /\ send_queue[a].id = send_queue[b].id)
  => send_queue[a].n <= send_queue[b].n
      BY DEF Versions, OnDevice, UnderWay, InOrder, L
    <3> QED
      BY <1>2, <1>6, <2>1, <2>2, <3>1
  <2>3. CASE q = L + 1
    BY <1>2, <1>5, <1>6, <2>1, <2>3
  <2> QED
    BY <1>2, <2>2, <2>3
<1>7. OnDevice'
  BY <1>3 DEF OnDevice
<1>8. UnderWay'
  BY <1>4 DEF UnderWay
<1>9. InOrder'
  <2>1. \A p, q \in 1 .. Len(send_queue') :
          (p < q /\ send_queue'[p].type = "contact" /\ send_queue'[q].type = "contact"
 /\ send_queue'[p].id = send_queue'[q].id)
  => send_queue'[p].n <= send_queue'[q].n
    BY <1>6
  <2> QED
    BY <2>1 DEF InOrder
<1> QED
  BY <1>7, <1>8, <1>9 DEF Versions

(* The first frame goes out. *)
LEMMA SendingKeepsVersions ==
  ASSUME TypeOK, Versions, UNCHANGED <<contacts, now>>, send_queue # <<>>,
         send_queue' = Tail(send_queue), Head(send_queue) \in Frames,
         \/ app'.book = app.book
         \/ /\ Head(send_queue).type = "contact"
            /\ app'.book = [app.book EXCEPT ![Head(send_queue).id] = Head(send_queue).n]
  PROVE  Versions'
<1> DEFINE h == Head(send_queue)
           L == Len(send_queue')
<1>1. /\ L \in Nat /\ Len(send_queue) = L + 1 /\ h = send_queue[1]
      /\ \A p \in 1 .. L : p + 1 \in 1 .. Len(send_queue) /\ send_queue'[p] = send_queue[p + 1]
  BY FrameLeaves DEF TypeOK
<1>2. /\ app.book \in [Contacts -> Nat] /\ Len(contacts) \in Nat /\ h.n \in Nat
      /\ \A i \in 1 .. Len(contacts) : contacts[i].id \in Contacts /\ contacts[i].lastmod \in Nat
      /\ now \in Nat
  BY DataTyped DEF Frames
<1>3. \A p, q \in 1 .. L :
        (p < q /\ send_queue'[p].type = "contact" /\ send_queue'[q].type = "contact"
 /\ send_queue'[p].id = send_queue'[q].id)
  => send_queue'[p].n <= send_queue'[q].n
  BY <1>1 DEF Versions, OnDevice, UnderWay, InOrder
<1>4. ASSUME NEW p \in 1 .. L, send_queue'[p].type = "contact"
      PROVE  /\ app.book[send_queue'[p].id] <= send_queue'[p].n
             /\ \E i \in 1 .. Len(contacts) :
                  contacts[i].id = send_queue'[p].id /\ send_queue'[p].n <= contacts[i].lastmod
  BY <1>1, <1>4 DEF Versions, OnDevice, UnderWay, InOrder
<1>5. ASSUME h.type = "contact", NEW p \in 1 .. L, send_queue'[p].type = "contact",
             send_queue'[p].id = h.id
      PROVE  h.n <= send_queue'[p].n
  <2>1. /\ 1 \in 1 .. Len(send_queue) /\ p + 1 \in 1 .. Len(send_queue) /\ 1 < p + 1
        /\ send_queue[p + 1] = send_queue'[p]
    BY <1>1
  <2> QED
    BY <1>1, <1>5, <2>1 DEF Versions, OnDevice, UnderWay, InOrder
<1>6. h.type = "contact" => \E i \in 1 .. Len(contacts) :
                              contacts[i].id = h.id /\ h.n <= contacts[i].lastmod
  <2>1. 1 \in 1 .. Len(send_queue)
    BY <1>1
  <2> QED
    BY <1>1, <2>1 DEF Versions, OnDevice, UnderWay, InOrder
<1>7. CASE app'.book = app.book
  <2>1. OnDevice'
    BY <1>7 DEF Versions, OnDevice
  <2>2. UnderWay'
    BY <1>4, <1>7 DEF UnderWay
  <2>3. InOrder'
    BY <1>3 DEF InOrder
  <2> QED
    BY <2>1, <2>2, <2>3 DEF Versions
<1>8. CASE h.type = "contact" /\ app'.book = [app.book EXCEPT ![h.id] = h.n]
  <2>1. PICK m \in 1 .. Len(contacts) : contacts[m].id = h.id /\ h.n <= contacts[m].lastmod
    BY <1>6, <1>8
  <2>2. h.id \in Contacts /\ h.n <= now
    BY <1>2, <2>1 DEF Versions, OnDevice, UnderWay, InOrder
  <2> HIDE DEF h, L
  <2>3. app'.book[h.id] = h.n /\ \A id \in Contacts : id # h.id => app'.book[id] = app.book[id]
    BY <1>2, <1>8, <2>2
  <2>4. \A i \in 1 .. Len(contacts) :
          contacts[i].lastmod <= now /\ app'.book[contacts[i].id] <= contacts[i].lastmod
    <3> TAKE i \in 1 .. Len(contacts)
    <3>1. CASE contacts[i].id = h.id
      BY <2>1, <2>3, <3>1 DEF Versions, OnDevice, UnderWay, InOrder
    <3>2. CASE contacts[i].id # h.id
      BY <1>2, <2>3, <3>2 DEF Versions, OnDevice, UnderWay, InOrder
    <3> QED
      BY <3>1, <3>2
  <2>5. \A id \in Contacts : app'.book[id] <= now
    BY <2>2, <2>3 DEF Versions, OnDevice, UnderWay, InOrder
  <2>6. ASSUME NEW p \in 1 .. L, send_queue'[p].type = "contact"
        PROVE  app'.book[send_queue'[p].id] <= send_queue'[p].n
    <3>1. send_queue'[p].id \in Contacts
      BY <1>2, <1>4, <2>6
    <3>2. CASE send_queue'[p].id = h.id
      BY <1>5, <1>8, <2>3, <2>6, <3>2
    <3>3. CASE send_queue'[p].id # h.id
      BY <1>4, <2>3, <2>6, <3>1, <3>3
    <3> QED
      BY <3>2, <3>3
  <2>7. \A i, j \in 1 .. Len(contacts) : contacts[i].id = contacts[j].id => i = j
    BY DEF Versions, OnDevice, UnderWay, InOrder
  <2>8. OnDevice'
    BY <2>4, <2>5, <2>7 DEF OnDevice
  <2>9. UnderWay'
    BY <1>4, <2>6 DEF UnderWay, L
  <2>10. InOrder'
    BY <1>3 DEF InOrder, L
  <2> QED
    BY <2>8, <2>9, <2>10 DEF Versions
<1> QED
  BY <1>7, <1>8


(* A contact that changes is one of the array, or comes at its end. *)
LEMMA ChangedContact ==
  ASSUME TypeOK, NEW id \in Contacts, ContactChanges(id)
  PROVE  \E m \in 1 .. Len(contacts') :
           /\ contacts'[m].id = id /\ contacts'[m].lastmod = now
           /\ \A i \in 1 .. Len(contacts') :
                i # m => i \in 1 .. Len(contacts) /\ contacts'[i] = contacts[i]
           /\ \A i \in 1 .. Len(contacts) : i \in 1 .. Len(contacts')
           /\ \/ m \in 1 .. Len(contacts) /\ contacts[m].id = id
              \/ \A i \in 1 .. Len(contacts) : i # m /\ contacts[i].id # id
<1> DEFINE c  == [id |-> id, lastmod |-> now]
           at == PositionOf(id)
           I  == {i \in 1 .. Len(contacts) : contacts[i].id = id}
<1>1. c \in Contact /\ contacts \in Seq(Contact) /\ Len(contacts) \in Nat
  BY LenProperties DEF Contact, TypeOK
<1>2. at = IF I # {} THEN Min(I) ELSE 0
  BY DEF PositionOf, SelectInSeq
<1>3. contacts' = IF at # 0 THEN [contacts EXCEPT ![at] = c] ELSE Append(contacts, c)
  BY DEF ContactChanges
<1>4. c.id = id /\ c.lastmod = now
  OBVIOUS
<1> HIDE DEF c, at
<1>5. CASE I # {}
  <2>1. at \in I
    <3>1. I \subseteq Nat
      OBVIOUS
    <3> HIDE DEF I
    <3> QED
      BY <1>2, <1>5, <3>1, MinIsLeast
  <2>2. at \in 1 .. Len(contacts) /\ contacts[at].id = id /\ at # 0
    BY <2>1
  <2>3. /\ Len(contacts') = Len(contacts) /\ contacts'[at] = c
        /\ \A i \in 1 .. Len(contacts) : i # at => contacts'[i] = contacts[i]
    BY <1>1, <1>3, <2>2, ExceptSeq
  <2> QED
    BY <1>4, <2>2, <2>3
<1>6. CASE I = {}
  <2>1. contacts' = Append(contacts, c)
    BY <1>2, <1>3, <1>6
  <2>2. /\ Len(contacts') = Len(contacts) + 1 /\ contacts'[Len(contacts) + 1] = c
        /\ \A i \in 1 .. Len(contacts) : contacts'[i] = contacts[i]
    BY <1>1, <2>1, AppendProperties
  <2>3. \A i \in 1 .. Len(contacts) : contacts[i].id # id
    BY <1>6
  <2> HIDE DEF I
  <2> DEFINE m == Len(contacts) + 1
  <2>4. m \in 1 .. Len(contacts') /\ contacts'[m].id = id /\ contacts'[m].lastmod = now
    BY <1>1, <1>4, <2>2
  <2>5. \A i \in 1 .. Len(contacts') :
          i # m => i \in 1 .. Len(contacts) /\ contacts'[i] = contacts[i]
    BY <1>1, <2>2
  <2>6. \A i \in 1 .. Len(contacts) : i \in 1 .. Len(contacts') /\ i # m
    BY <1>1, <2>2
  <2> HIDE DEF m
  <2> QED
    BY <2>3, <2>4, <2>5, <2>6
<1> QED
  BY <1>5, <1>6

LEMMA ChangeKeepsVersions ==
  ASSUME TypeOK, Versions, NEW id \in Contacts, ContactChanges(id)
  PROVE  Versions'
<1>1. PICK m \in 1 .. Len(contacts') :
        /\ contacts'[m].id = id /\ contacts'[m].lastmod = now
        /\ \A i \in 1 .. Len(contacts') :
             i # m => i \in 1 .. Len(contacts) /\ contacts'[i] = contacts[i]
        /\ \A i \in 1 .. Len(contacts) : i \in 1 .. Len(contacts')
        /\ \/ m \in 1 .. Len(contacts) /\ contacts[m].id = id
           \/ \A i \in 1 .. Len(contacts) : i # m /\ contacts[i].id # id
  BY ChangedContact
<1>2. UNCHANGED <<app, now, send_queue>>
  BY DEF ContactChanges, ble, client
<1>3. /\ Len(contacts) \in Nat /\ now \in Nat /\ app.book \in [Contacts -> Nat]
      /\ \A i \in 1 .. Len(contacts) : contacts[i].id \in Contacts /\ contacts[i].lastmod \in Nat
      /\ \A p \in 1 .. Len(send_queue) : send_queue[p].n \in Nat
  BY DataTyped
<1>4. /\ \A i, j \in 1 .. Len(contacts) : contacts[i].id = contacts[j].id => i = j
      /\ \A i \in 1 .. Len(contacts) :
           contacts[i].lastmod <= now /\ app.book[contacts[i].id] <= contacts[i].lastmod
      /\ \A c \in Contacts : app.book[c] <= now
  BY DEF Versions, OnDevice
<1>5. \A i, j \in 1 .. Len(contacts') : contacts'[i].id = contacts'[j].id => i = j
  <2> SUFFICES ASSUME NEW i \in 1 .. Len(contacts'), NEW j \in 1 .. Len(contacts'),
                      contacts'[i].id = contacts'[j].id, i # j
               PROVE  FALSE
    OBVIOUS
  <2>1. CASE i = m
    BY <1>1, <1>4, <2>1
  <2>2. CASE j = m
    BY <1>1, <1>4, <2>2
  <2>3. CASE i # m /\ j # m
    BY <1>1, <1>4, <2>3
  <2> QED
    BY <2>1, <2>2, <2>3
<1>6. \A i \in 1 .. Len(contacts') :
        contacts'[i].lastmod <= now /\ app.book[contacts'[i].id] <= contacts'[i].lastmod
  <2> TAKE i \in 1 .. Len(contacts')
  <2>1. CASE i = m
    BY <1>1, <1>3, <1>4, <2>1
  <2>2. CASE i # m
    BY <1>1, <1>4, <2>2
  <2> QED
    BY <2>1, <2>2
<1>7. OnDevice'
  BY <1>2, <1>4, <1>5, <1>6 DEF OnDevice
<1>8. ASSUME NEW p \in 1 .. Len(send_queue), send_queue[p].type = "contact"
      PROVE  /\ app.book[send_queue[p].id] <= send_queue[p].n
             /\ \E i \in 1 .. Len(contacts') :
                  contacts'[i].id = send_queue[p].id /\ send_queue[p].n <= contacts'[i].lastmod
  <2>1. PICK i \in 1 .. Len(contacts) :
          contacts[i].id = send_queue[p].id /\ send_queue[p].n <= contacts[i].lastmod
    BY <1>8 DEF Versions, UnderWay
  <2>2. app.book[send_queue[p].id] <= send_queue[p].n
    BY <1>8 DEF Versions, UnderWay
  <2>3. CASE i = m
    <3>1. contacts'[m].id = send_queue[p].id
      BY <1>1, <2>1, <2>3
    <3>2. send_queue[p].n <= contacts'[m].lastmod
      BY <1>1, <1>3, <1>4, <2>1, <2>3
    <3> QED
      BY <2>2, <3>1, <3>2
  <2>4. CASE i # m
    BY <1>1, <2>1, <2>2, <2>4
  <2> QED
    BY <2>3, <2>4
<1>9. UnderWay'
  BY <1>2, <1>8 DEF UnderWay
<1>10. InOrder'
  BY <1>2 DEF Versions, InOrder
<1> QED
  BY <1>7, <1>9, <1>10 DEF Versions

(* What the listing does next. *)
LEMMA ListedEach ==
  ASSUME TypeOK, MayList
  PROVE  \/ /\ iter.next > Len(contacts) /\ Written = {Numbered("end", iter.recent)}
            /\ ListStep.started = FALSE /\ ListStep.since = iter.since
         \/ /\ iter.next \in 1 .. Len(contacts)
            /\ ListStep.next = iter.next + 1 /\ ListStep.since = iter.since
            /\ \/ Written = {ContactFrame(contacts[iter.next])}
               \/ Written = {} /\ contacts[iter.next].lastmod <= iter.since
<1>0. /\ iter \in [started: BOOLEAN, next: Nat \ {0}, since: Nat, recent: Nat]
      /\ contacts \in Seq(Contact) /\ Len(contacts) \in Nat
  BY LenProperties DEF TypeOK
<1>1. CASE iter.next > Len(contacts)
  <2>1. Written = {Numbered("end", iter.recent)} /\ ListStep = [iter EXCEPT !.started = FALSE]
    BY <1>1 DEF ListFrames, ListStep, Written
  <2> QED
    BY <1>0, <1>1, <2>1
<1>2. CASE ~(iter.next > Len(contacts))
  <2> DEFINE t == contacts[iter.next].lastmod
             r == IF t > iter.since /\ t > iter.recent THEN t ELSE iter.recent
  <2>1. iter.next \in 1 .. Len(contacts) /\ t \in Nat
    BY <1>0, <1>2, DataTyped
  <2>2. ListStep = [iter EXCEPT !.next = iter.next + 1, !.recent = r]
    BY <1>0, <1>2 DEF ListStep
  <2>3. ListStep.next = iter.next + 1 /\ ListStep.since = iter.since
    <3> HIDE DEF r
    <3> QED
      BY <1>0, <2>2
  <2>4. Written = {ContactFrame(c) : c \in {d \in {contacts[iter.next]} : d.lastmod > iter.since}}
    BY <1>2 DEF Written, ListFrames
  <2>5. CASE t > iter.since
    <3>1. Written = {ContactFrame(contacts[iter.next])}
      BY <2>4, <2>5
    <3> QED
      BY <2>1, <2>3, <3>1
  <2>6. CASE ~(t > iter.since)
    <3>1. Written = {}
      BY <2>4, <2>6
    <3>2. t <= iter.since
      BY <1>0, <2>1, <2>6
    <3> QED
      BY <2>1, <2>3, <3>1, <3>2
  <2> QED
    BY <2>5, <2>6
<1> QED
  BY <1>1, <1>2

(* handleCmdFrame() writes one frame, and no contact. *)
LEMMA HandledOnce ==
  ASSUME TypeOK, NEW cmd \in Commands, Handle(cmd)
  PROVE  \E f \in Frames :
           /\ writeFrame(f) /\ f.type \notin {"contact", "end"}
           /\ \/ iter' = iter /\ f.type # "self"
              \/ iter' = [iter EXCEPT !.started = FALSE]
              \/ iter' = ListAnew(cmd.n)
<1>1. \A type \in {"self", "nomore", "err", "count"} : Frame(type) \in Frames /\ Frame(type).type = type
  BY FramesTyped DEF FrameTypes, ReplyTypes
<1>2. \A n \in Nat : Numbered("msg", n) \in Frames /\ Numbered("msg", n).type = "msg"
  BY FramesTyped DEF FrameTypes, ReplyTypes
<1> QED
  BY <1>1, <1>2, HandledEach

LEMMA NextKeepsVersions ==
  ASSUME TypeOK, Versions, [Next]_vars
  PROVE  Versions'
<1>0. Frame("tickle") \in Frames /\ Frame("push") \in Frames /\ now \in Nat
      /\ Frame("tickle").type = "tickle" /\ Frame("push").type = "push"
  BY FramesTyped DEF FrameTypes, TypeOK
<1>1. CASE (\E private \in BOOLEAN : MessageArrives(private)) \/ Push
  <2>1. PICK f \in Frames : f.type # "contact" /\ Notify(f)
    BY <1>0, <1>1 DEF MessageArrives, Push
  <2>2. UNCHANGED <<contacts, now, app>>
    BY <1>1 DEF MessageArrives, Push, device, client
  <2> QED
    BY <1>0, <2>1, <2>2, Notified, QuietKeepsVersions
<1>2. CASE \E id \in Contacts : ContactChanges(id)
  BY <1>2, ChangeKeepsVersions
<1>3. CASE Tick \/ Connect \/ Disconnect \/ AppStep \/ Ready \/ UNCHANGED vars
  <2>1. UNCHANGED <<contacts, send_queue>> /\ now' \in Nat /\ now <= now'
    BY <1>0, <1>3 DEF Tick, Connect, Disconnect, AppStep, AppStarts, AppFetches, AppLists,
                      AppSends, Ready, vars, device, ble
  <2>2. app'.book = app.book
    <3>1. app \in AppState
      BY DEF TypeOK
    <3> QED
      BY <1>3, <3>1 DEF Tick, Connect, Connecting, Disconnect, AppStep, AppStarts, AppFetches,
                        AppLists, AppSends, Ready, vars, client, AppState
  <2> QED
    BY <1>0, <2>1, <2>2, QuietKeepsVersions
<1>4. CASE LoopStarts
  <2>1. SendOne /\ UNCHANGED <<contacts, now>>
    BY <1>4 DEF LoopStarts, device
  <2>2. CASE UNCHANGED <<send_queue, app>>
    BY <1>0, <2>1, <2>2, QuietKeepsVersions
  <2>3. CASE /\ send_queue # <<>> /\ send_queue' = Tail(send_queue)
             /\ Head(send_queue) \in Frames
             /\ app' = AppTakes(Head(send_queue)) \/ app' = app
    <3>1. \/ app'.book = app.book
          \/ /\ Head(send_queue).type = "contact"
             /\ app'.book = [app.book EXCEPT ![Head(send_queue).id] = Head(send_queue).n]
      BY <2>3, TakenEach
    <3> QED
      BY <2>1, <2>3, <3>1, SendingKeepsVersions
  <2> QED
    BY <2>1, <2>2, <2>3, Sent
<1>5. CASE ShiftAndHandle
  <2>1. taken \in Commands /\ Handle(taken) /\ UNCHANGED <<contacts, now, app>>
    BY <1>5 DEF ShiftAndHandle, client, TypeOK
  <2>2. PICK f \in Frames : writeFrame(f) /\ f.type # "contact"
    BY <2>1, HandledOnce
  <2> QED
    BY <1>0, <2>1, <2>2, Wrote, QuietKeepsVersions
<1>6. CASE NoFrame
  <2>1. UNCHANGED <<contacts, now, app>>
    BY <1>6 DEF NoFrame, client
  <2>2. CASE send_queue' = send_queue \/ send_queue' = <<>>
    BY <1>0, <2>1, <2>2, QuietKeepsVersions
  <2>3. CASE ~(send_queue' = send_queue \/ send_queue' = <<>>)
    <3>1. PICK f \in Written : writeFrame(f)
      BY <1>6, <2>3 DEF NoFrame
    <3>2. f \in Frames /\ send_queue' = Append(send_queue, f)
      BY <2>3, <3>1, ListingTyped, Wrote
    <3>3. MayList
      BY <3>1 DEF Written
    <3>4. CASE f.type # "contact"
      BY <1>0, <2>1, <3>2, <3>4, QuietKeepsVersions
    <3>5. CASE f.type = "contact"
      <4>1. Numbered("end", iter.recent).type = "end"
        BY DEF Numbered
      <4>2. iter.next \in 1 .. Len(contacts) /\ f = ContactFrame(contacts[iter.next])
        BY <3>1, <3>3, <3>5, <4>1, ListedEach
      <4> QED
        BY <2>1, <3>2, <4>2, WritingKeepsVersions
    <3> QED
      BY <3>4, <3>5
  <2> QED
    BY <2>2, <2>3
<1> QED
  BY <1>1, <1>2, <1>3, <1>4, <1>5, <1>6 DEF Next, LoopStep

------------------------------------------------------------------------------
(* Times asked for *)

(* The app is told later times only, and asks for none later than told. *)
LEMMA NextKeepsSinces ==
  ASSUME TypeOK, Sinces, [Next]_vars
  PROVE  Sinces'
<1>0. /\ FrameQueueSize \in Nat \ {0} /\ recv \in [Slots -> Commands] /\ taken \in Commands
      /\ recv_len \in 0 .. FrameQueueSize
      /\ app \in AppState /\ app.since \in Nat /\ app.ready \in BOOLEAN
      /\ iter \in [started: BOOLEAN, next: Nat \ {0}, since: Nat, recent: Nat]
      /\ \A cmd \in Commands : cmd.n \in Nat
  BY LinkAssumption DEF TypeOK, AppState, Commands
<1>1. /\ \A i \in Slots : recv[i].n <= app.since
      /\ taken.n <= app.since /\ iter.since <= app.since
      /\ app.listing => app.ready
  BY DEF Sinces
<1>2. CASE UNCHANGED <<recv, taken, iter, app>>
  BY <1>2 DEF Sinces
<1>3. CASE Connect
  <2>1. UNCHANGED <<recv, taken, iter>> /\ app' = Connecting(app)
    BY <1>3 DEF Connect, device, loopAt
  <2>2. app'.since = app.since /\ app'.listing = FALSE
    BY <1>0, <2>1 DEF Connecting, AppState
  <2> QED
    BY <1>1, <2>1, <2>2 DEF Sinces
<1>4. CASE AppStep
  <2>1. PICK cmd \in Commands : AppSends(cmd) /\ (cmd.n = 0 \/ cmd.n = app.since)
    <3>1. \A n \in Nat : \A type \in CommandTypes : Command(type, n) \in Commands
                                                  /\ Command(type, n).n = n
      BY DEF Command, Commands, CommandTypes
    <3> QED
      BY <1>0, <1>4, <3>1 DEF AppStep, AppStarts, AppFetches, AppLists, CommandTypes
  <2>2. /\ UNCHANGED <<taken, iter>> /\ app' = [app EXCEPT !.waiting = cmd.type] /\ onWrite(cmd)
    BY <2>1 DEF AppSends, device, loopAt
  <2>3. app'.since = app.since /\ app'.listing = app.listing /\ app'.ready = app.ready
    BY <1>0, <2>2 DEF AppState
  <2> DEFINE full == recv_len = FrameQueueSize
             kept == IF full THEN [i \in Slots |-> IF i + 1 \in Slots THEN recv[i + 1] ELSE recv[i]]
                     ELSE recv
             at   == IF full THEN recv_len - 1 ELSE recv_len
  <2>4. recv' = [kept EXCEPT ![at] = cmd]
    BY <2>2 DEF onWrite
  <2>5. kept \in [Slots -> Commands] /\ \A i \in Slots : kept[i].n <= app.since
    BY <1>0, <1>1
  <2>6. cmd.n <= app.since
    BY <1>0, <2>1
  <2> HIDE DEF kept, at
  <2>7. \A i \in Slots : recv'[i] = cmd \/ recv'[i] = kept[i]
    BY <2>4, <2>5
  <2>8. \A i \in Slots : recv'[i].n <= app'.since
    BY <2>3, <2>5, <2>6, <2>7
  <2> QED
    BY <1>1, <2>2, <2>3, <2>8 DEF Sinces
<1>5. CASE LoopStarts
  <2>1. UNCHANGED <<recv, iter>> /\ SendOne /\ (taken' = taken \/ taken' = recv[0])
    BY <1>5 DEF LoopStarts, TakeFrame, ReadConnections, device
  <2>2. taken'.n <= app.since /\ taken' \in Commands
    <3>1. 0 \in Slots
      BY <1>0 DEF Slots
    <3> QED
      BY <1>0, <1>1, <2>1, <3>1
  <2>3. /\ app'.since \in Nat /\ app.since <= app'.since
        /\ app'.listing => app'.ready
    <3>1. CASE app' = app
      BY <1>0, <1>1, <3>1
    <3>2. CASE Head(send_queue) \in Frames /\ app' = AppTakes(Head(send_queue))
      <4> DEFINE h == Head(send_queue)
      <4>1. h.n \in Nat
        BY <3>2 DEF Frames
      <4>2. app'.since = IF h.type = "end" /\ app.listing /\ h.n > app.since
                         THEN h.n ELSE app.since
        BY <3>2, TakenEach
      <4>3. /\ app'.ready = (app.ready \/ h.type = "self")
            /\ app'.listing = IF h.type = "count" THEN app.ready
                              ELSE IF h.type = "end" THEN FALSE ELSE app.listing
        BY <3>2, TakenEach
      <4> HIDE DEF h
      <4>4. app'.since \in Nat /\ app.since <= app'.since
        BY <1>0, <4>1, <4>2
      <4>5. app'.listing => app'.ready
        BY <1>1, <4>3
      <4> QED
        BY <4>4, <4>5
    <3> QED
      BY <2>1, <3>1, <3>2, Sent
  <2>4. iter.since \in Nat /\ \A i \in Slots : recv[i].n \in Nat
    BY <1>0
  <2> DEFINE t == app'.since
  <2>5. \A i \in Slots : recv[i].n <= t
    BY <1>0, <1>1, <2>3, <2>4
  <2>6. taken'.n \in Nat
    BY <1>0, <2>2
  <2>7. taken'.n <= t /\ iter.since <= t
    BY <1>0, <1>1, <2>2, <2>3, <2>4, <2>6
  <2> QED
    BY <2>1, <2>3, <2>5, <2>7 DEF Sinces
<1>6. CASE ShiftAndHandle
  <2>1. Handle(taken) /\ recv' = MovedUp /\ taken' = NoCommand /\ UNCHANGED app
    BY <1>6 DEF ShiftAndHandle, client
  <2>2. \/ iter' = iter
        \/ iter' = [iter EXCEPT !.started = FALSE]
        \/ iter' = ListAnew(taken.n)
    BY <1>0, <2>1, HandledOnce
  <2>3. iter'.since <= app.since
    BY <1>0, <1>1, <2>2 DEF ListAnew
  <2>4. taken'.n <= app.since
    BY <1>0, <2>1 DEF NoCommand, Command
  <2>5. \A i \in Slots : recv'[i].n <= app.since
    BY <1>1, <2>1 DEF MovedUp
  <2> QED
    BY <1>1, <2>1, <2>3, <2>4, <2>5 DEF Sinces
<1>7. CASE NoFrame
  <2>1. UNCHANGED <<recv, taken, app>> /\ iter' = IF MayList THEN ListStep ELSE iter
    BY <1>7 DEF NoFrame, client
  <2>2. iter'.since = iter.since
    BY <2>1, ListedEach
  <2> QED
    BY <1>1, <2>1, <2>2 DEF Sinces
<1> QED
  <2>1. CASE (\E private \in BOOLEAN : MessageArrives(private)) \/ Push
    BY <1>2, <2>1 DEF MessageArrives, Push, device, loopAt, client
  <2>2. CASE (\E id \in Contacts : ContactChanges(id)) \/ Tick \/ Disconnect \/ Ready \/ UNCHANGED vars
    BY <1>2, <2>2 DEF ContactChanges, Tick, Disconnect, Ready, vars, device, loopAt, ble, client
  <2> QED
    BY <1>3, <1>4, <1>5, <1>6, <1>7, <2>1, <2>2 DEF Next, LoopStep

------------------------------------------------------------------------------
(* Listings *)

(* What is shown, and what counts, when a frame is written. *)
LEMMA WritingShows ==
  ASSUME TypeOK, UNCHANGED <<contacts, app>>, NEW f \in Frames,
         send_queue' = Append(send_queue, f), NEW L, L = Len(send_queue)
  PROVE  /\ L \in Nat /\ Len(send_queue') = L + 1
         /\ send_queue'[L + 1] = f
         /\ \A i \in 1 .. L : send_queue'[i] = send_queue[i]
         /\ \A p \in 1 .. L + 1 : Counts(p)' => Counts(p)
         /\ Counts(L + 2)' => Counts(L + 1) \/ f.type = "self"
         /\ \A k \in 1 .. Len(contacts), p \in 1 .. L + 1 :
              /\ Shown(contacts[k], p) => Shown(contacts[k], p)'
              /\ Shown(contacts[k], p) => Shown(contacts[k], L + 2)'
         /\ \A k \in 1 .. Len(contacts) :
              f = ContactFrame(contacts[k]) => Shown(contacts[k], L + 2)'
<1>1. /\ L \in Nat /\ Len(send_queue') = L + 1 /\ send_queue'[L + 1] = f
      /\ \A i \in 1 .. L : send_queue'[i] = send_queue[i]
  BY FrameAppended DEF TypeOK
<1>2. \A p \in 1 .. L + 1 : Counts(p)' => Counts(p)
  BY <1>1 DEF Counts
<1>3. Counts(L + 2)' => Counts(L + 1) \/ f.type = "self"
  <2> SUFFICES ASSUME app.ready \/ \E r \in 1 .. (L + 2) - 1 : send_queue'[r].type = "self"
               PROVE  app.ready \/ f.type = "self" \/ \E r \in 1 .. (L + 1) - 1 : send_queue[r].type = "self"
    BY <1>1 DEF Counts
  <2>1. ASSUME NEW r \in 1 .. (L + 2) - 1, send_queue'[r].type = "self"
        PROVE  f.type = "self" \/ \E q \in 1 .. (L + 1) - 1 : send_queue[q].type = "self"
    <3>1. r = L + 1 \/ r \in 1 .. (L + 1) - 1
      BY <1>1, <2>1
    <3> QED
      BY <1>1, <2>1, <3>1
  <2> QED
    BY <2>1
<1>4. ASSUME NEW k \in 1 .. Len(contacts), NEW p \in 1 .. L + 1, Shown(contacts[k], p)
      PROVE  Shown(contacts[k], p)' /\ Shown(contacts[k], L + 2)'
  BY <1>1, <1>4 DEF Shown
<1>5. ASSUME NEW k \in 1 .. Len(contacts), f = ContactFrame(contacts[k])
      PROVE  Shown(contacts[k], L + 2)'
  <2>1. L + 1 \in 1 .. (L + 2) - 1 /\ send_queue'[L + 1] = ContactFrame(contacts'[k])
    BY <1>1, <1>5
  <2> QED
    BY <1>1, <2>1 DEF Shown
<1> QED
  BY <1>1, <1>2, <1>3, <1>4, <1>5

LEMMA SameKeepsLists ==
  ASSUME ListInv, UNCHANGED <<contacts, send_queue, iter, peer, deviceConnected>>,
         app'.ready = app.ready, app'.since = app.since, app'.book = app.book,
         disturbed => disturbed'
  PROVE  ListInv'
<1> SUFFICES ASSUME ~disturbed' PROVE Told' /\ EndsFine' /\ IterFine'
  BY DEF ListInv
<1>1. Told /\ EndsFine /\ IterFine
  BY DEF ListInv
<1>2. Told'
  BY <1>1 DEF Told
<1>3. EndsFine'
  BY <1>1 DEF EndsFine, Counts, Shown
<1>4. IterFine'
  BY <1>1 DEF IterFine, Counts, Shown
<1> QED
  BY <1>2, <1>3, <1>4

(* A frame is written, or lost. *)
LEMMA WritingKeepsEnds ==
  ASSUME TypeOK, Told, EndsFine, UNCHANGED <<contacts, app, peer>>,
         NEW f \in Frames, send_queue' = send_queue \/ send_queue' = Append(send_queue, f),
         f.type = "end" /\ peer /\ Counts(Len(send_queue) + 1) =>
           \A k \in 1 .. Len(contacts) :
             contacts[k].lastmod <= f.n => Shown(contacts[k], Len(send_queue) + 1)
  PROVE  Told' /\ EndsFine'
<1>1. Told'
  BY DEF Told
<1>2. CASE send_queue' = send_queue
  BY <1>1, <1>2 DEF EndsFine, Counts, Shown
<1>3. CASE send_queue' = Append(send_queue, f)
  <2>1. PICK L : L = Len(send_queue)
    OBVIOUS
  <2>2. /\ L \in Nat /\ Len(send_queue') = L + 1 /\ send_queue'[L + 1] = f
        /\ \A i \in 1 .. L : send_queue'[i] = send_queue[i]
        /\ \A p \in 1 .. L + 1 : Counts(p)' => Counts(p)
        /\ \A k \in 1 .. Len(contacts), p \in 1 .. L + 1 :
             Shown(contacts[k], p) => Shown(contacts[k], p)'
    BY <1>3, <2>1, WritingShows
  <2>3. ASSUME peer, NEW p \in 1 .. Len(send_queue'), send_queue'[p].type = "end", Counts(p)',
               NEW k \in 1 .. Len(contacts), contacts[k].lastmod <= send_queue'[p].n
        PROVE  Shown(contacts[k], p)'
    <3>1. Counts(p) /\ (Shown(contacts[k], p) => Shown(contacts[k], p)')
      BY <2>2, <2>3
    <3>2. CASE p \in 1 .. L
      BY <2>1, <2>2, <2>3, <3>1, <3>2 DEF EndsFine
    <3>3. CASE p = L + 1
      BY <2>1, <2>2, <2>3, <3>1, <3>3
    <3> QED
      BY <2>2, <3>2, <3>3
  <2>4. EndsFine'
    BY <2>3 DEF EndsFine
  <2> QED
    BY <1>1, <2>4
<1> QED
  BY <1>2, <1>3

LEMMA WritingKeepsIter ==
  ASSUME TypeOK, IterFine, UNCHANGED <<contacts, app, peer>>, deviceConnected' => deviceConnected,
         NEW f \in Frames, send_queue' = send_queue \/ send_queue' = Append(send_queue, f),
         \/ ~iter'.started
         \/ iter'.next = 1
         \/ iter' = iter /\ f.type # "self"
  PROVE  IterFine'
<1>1. CASE ~iter'.started
  BY <1>1 DEF IterFine
<1>2. CASE iter'.next = 1
  <2>1. \A k \in 1 .. Len(contacts) : ~(k < iter'.next)
    BY <1>2
  <2> QED
    BY <2>1 DEF IterFine
<1>3. CASE iter' = iter /\ send_queue' = send_queue
  BY <1>3 DEF IterFine, Counts, Shown
<1>4. CASE iter' = iter /\ f.type # "self" /\ send_queue' = Append(send_queue, f)
  <2>1. PICK L : L = Len(send_queue)
    OBVIOUS
  <2>2. /\ L \in Nat /\ Len(send_queue') = L + 1
        /\ Counts(L + 2)' => Counts(L + 1)
        /\ \A k \in 1 .. Len(contacts), p \in 1 .. L + 1 :
             Shown(contacts[k], p) => Shown(contacts[k], L + 2)'
    BY <1>4, <2>1, WritingShows
  <2>3. (L + 1) + 1 = L + 2 /\ L + 1 \in 1 .. L + 1
    BY <2>2
  <2>4. ASSUME peer, deviceConnected', iter.started, Counts(L + 2)',
               NEW k \in 1 .. Len(contacts), k < iter.next
        PROVE  contacts[k].lastmod <= iter.since \/ Shown(contacts[k], L + 2)'
    BY <2>1, <2>2, <2>3, <2>4 DEF IterFine
  <2>5. \A n : n = Len(send_queue') + 1 => n = L + 2
    BY <2>2, <2>3
  <2> QED
    BY <1>4, <2>1, <2>2, <2>3, <2>4, <2>5 DEF IterFine
<1> QED
  BY <1>1, <1>2, <1>3, <1>4

(* The first frame is sent to the app. *)
LEMMA SendingKeepsLists ==
  ASSUME TypeOK, Versions, Sinces, Told, EndsFine, IterFine, peer,
         UNCHANGED <<contacts, peer, deviceConnected, iter>>, send_queue # <<>>,
         send_queue' = Tail(send_queue), Head(send_queue) \in Frames,
         app' = AppTakes(Head(send_queue))
  PROVE  Told' /\ EndsFine' /\ IterFine'
<1> DEFINE h == Head(send_queue)
<1>1. PICK L : L = Len(send_queue')
  OBVIOUS
<1>2. /\ L \in Nat /\ Len(send_queue) = L + 1 /\ h = send_queue[1]
      /\ \A p \in 1 .. L : p + 1 \in 1 .. Len(send_queue) /\ send_queue'[p] = send_queue[p + 1]
  BY <1>1, FrameLeaves DEF TypeOK
<1>3. /\ app.book \in [Contacts -> Nat] /\ h.n \in Nat /\ app.since \in Nat
      /\ \A k \in 1 .. Len(contacts) : contacts[k].id \in Contacts /\ contacts[k].lastmod \in Nat
  BY DataTyped DEF Frames
<1>4. /\ app'.ready = (app.ready \/ h.type = "self")
      /\ app'.since = IF h.type = "end" /\ app.listing /\ h.n > app.since
                      THEN h.n ELSE app.since
      /\ app'.book = IF h.type = "contact" THEN [app.book EXCEPT ![h.id] = h.n] ELSE app.book
  BY TakenEach
<1>5. h.type = "contact" =>
        /\ app.book[h.id] <= h.n
        /\ \E i \in 1 .. Len(contacts) : contacts[i].id = h.id /\ h.n <= contacts[i].lastmod
  <2>1. 1 \in 1 .. Len(send_queue)
    BY <1>2
  <2> QED
    BY <1>2, <2>1 DEF Versions, UnderWay
<1>6. \A i, j \in 1 .. Len(contacts) : contacts[i].id = contacts[j].id => i = j
  BY DEF Versions, OnDevice
<1>7. \A k \in 1 .. Len(contacts) : app.book[contacts[k].id] <= contacts[k].lastmod
  BY DEF Versions, OnDevice
<1> HIDE DEF h
<1>8. ASSUME NEW k \in 1 .. Len(contacts), app.book[contacts[k].id] = contacts[k].lastmod
      PROVE  app'.book[contacts[k].id] = contacts[k].lastmod
  <2>1. CASE h.type = "contact" /\ contacts[k].id = h.id
    <3>1. h.n = contacts[k].lastmod
      BY <1>3, <1>5, <1>6, <1>8, <2>1
    <3> QED
      BY <1>3, <1>4, <2>1, <3>1
  <2>2. CASE ~(h.type = "contact" /\ contacts[k].id = h.id)
    BY <1>3, <1>4, <1>8, <2>2
  <2> QED
    BY <2>1, <2>2
<1>9. ASSUME NEW k \in 1 .. Len(contacts), h = ContactFrame(contacts[k])
      PROVE  app'.book[contacts[k].id] = contacts[k].lastmod
  <2>1. h.type = "contact" /\ h.id = contacts[k].id /\ h.n = contacts[k].lastmod
    BY <1>9 DEF ContactFrame
  <2> QED
    BY <1>3, <1>4, <2>1
<1>10. ASSUME NEW k \in 1 .. Len(contacts), NEW p \in 1 .. L + 1, Shown(contacts[k], p + 1)
       PROVE  Shown(contacts[k], p)'
  <2>1. CASE app.book[contacts[k].id] = contacts[k].lastmod
    BY <1>8, <2>1 DEF Shown
  <2>2. ASSUME NEW q \in 1 .. (p + 1) - 1, send_queue[q] = ContactFrame(contacts[k])
        PROVE  Shown(contacts[k], p)'
    <3>1. CASE q = 1
      BY <1>2, <1>9, <2>2, <3>1 DEF Shown
    <3>2. CASE q # 1
      <4>1. q - 1 \in 1 .. p - 1 /\ q - 1 \in 1 .. L /\ (q - 1) + 1 = q
        BY <1>2, <2>2, <3>2
      <4>2. send_queue'[q - 1] = ContactFrame(contacts'[k])
        BY <1>2, <2>2, <4>1
      <4> QED
        BY <4>1, <4>2 DEF Shown
    <3> QED
      BY <3>1, <3>2
  <2> QED
    BY <1>10, <2>1, <2>2 DEF Shown
<1>11. ASSUME NEW p \in 1 .. L + 1, Counts(p)'
       PROVE  Counts(p + 1)
  <2>1. CASE app.ready
    BY <2>1 DEF Counts
  <2>2. CASE h.type = "self"
    <3>1. 1 \in 1 .. (p + 1) - 1
      BY <1>2
    <3> QED
      BY <1>2, <2>2, <3>1 DEF Counts
  <2>3. ASSUME NEW r \in 1 .. p - 1, send_queue'[r].type = "self"
        PROVE  Counts(p + 1)
    <3>1. r + 1 \in 1 .. (p + 1) - 1 /\ r \in 1 .. L
      BY <1>2, <2>3
    <3>2. send_queue[r + 1].type = "self"
      BY <1>2, <2>3, <3>1
    <3> QED
      BY <3>1, <3>2 DEF Counts
  <2> QED
    BY <1>4, <1>11, <2>1, <2>2, <2>3 DEF Counts
<1>12. Told'
  <2> SUFFICES ASSUME NEW k \in 1 .. Len(contacts), contacts[k].lastmod <= app'.since
               PROVE  app'.book[contacts[k].id] = contacts[k].lastmod
    BY DEF Told
  <2>1. CASE contacts[k].lastmod <= app.since
    BY <1>8, <2>1 DEF Told
  <2>2. CASE h.type = "end" /\ app.listing /\ contacts[k].lastmod <= h.n
    <3>1. 1 \in 1 .. Len(send_queue) /\ Counts(1)
      BY <1>2, <2>2 DEF Sinces, Counts
    <3>2. Shown(contacts[k], 1)
      BY <1>2, <2>2, <3>1 DEF EndsFine
    <3>3. app.book[contacts[k].id] = contacts[k].lastmod
      BY <3>2 DEF Shown
    <3> QED
      BY <1>8, <3>3
  <2> QED
    BY <1>4, <2>1, <2>2
<1>13. EndsFine'
  <2>1. ASSUME NEW p \in 1 .. Len(send_queue'), send_queue'[p].type = "end", Counts(p)',
               NEW k \in 1 .. Len(contacts), contacts[k].lastmod <= send_queue'[p].n
        PROVE  Shown(contacts[k], p)'
    <3>1. p \in 1 .. L /\ p \in 1 .. L + 1
      BY <1>1, <1>2
    <3>2. p + 1 \in 1 .. Len(send_queue) /\ send_queue'[p] = send_queue[p + 1]
      BY <1>2, <3>1
    <3>3. Counts(p + 1)
      BY <1>11, <2>1, <3>1
    <3>4. Shown(contacts[k], p + 1)
      BY <2>1, <3>2, <3>3 DEF EndsFine
    <3> QED
      BY <1>10, <3>1, <3>4
  <2> QED
    BY <2>1 DEF EndsFine
<1>14. IterFine'
  <2>1. ASSUME deviceConnected, iter.started, Counts(L + 1)',
               NEW k \in 1 .. Len(contacts), k < iter.next
        PROVE  contacts[k].lastmod <= iter.since \/ Shown(contacts[k], L + 1)'
    <3>1. L + 1 \in 1 .. L + 1 /\ (L + 1) + 1 = Len(send_queue) + 1
      BY <1>2
    <3>2. Counts(Len(send_queue) + 1)
      BY <1>11, <2>1, <3>1
    <3>3. contacts[k].lastmod <= iter.since \/ Shown(contacts[k], Len(send_queue) + 1)
      BY <2>1, <3>2 DEF IterFine
    <3> QED
      BY <1>10, <3>1, <3>3
  <2> QED
    BY <1>1, <2>1 DEF IterFine
<1> QED
  BY <1>12, <1>13, <1>14

LEMMA LoopStartsKeepsLists ==
  ASSUME TypeOK, Versions, Sinces, ListInv, LoopStarts
  PROVE  ListInv'
<1>1. SendOne /\ UNCHANGED <<contacts, iter, peer, deviceConnected, disturbed>>
  BY DEF LoopStarts, device
<1>2. CASE UNCHANGED <<send_queue, app>>
  BY <1>1, <1>2, SameKeepsLists
<1>3. CASE /\ send_queue # <<>> /\ send_queue' = Tail(send_queue) /\ Head(send_queue) \in Frames
           /\ peer /\ app' = AppTakes(Head(send_queue))
  <2> SUFFICES ASSUME ~disturbed PROVE Told' /\ EndsFine' /\ IterFine'
    BY <1>1 DEF ListInv
  <2> QED
    BY <1>1, <1>3, SendingKeepsLists DEF ListInv
<1>4. CASE ~peer /\ app' = app
  BY <1>1, <1>4 DEF ListInv, Told, EndsFine, IterFine
<1> QED
  BY <1>1, <1>2, <1>3, <1>4, Sent

(* The listing goes on, or ends. *)
LEMMA NoFrameKeepsLists ==
  ASSUME TypeOK, Sinces, ListInv, NoFrame
  PROVE  ListInv'
<1> SUFFICES ASSUME ~disturbed' PROVE Told' /\ EndsFine' /\ IterFine'
  BY DEF ListInv
<1>1. /\ UNCHANGED <<contacts, app, peer>> /\ deviceConnected' = Connected
      /\ iter' = IF MayList THEN ListStep ELSE iter
      /\ ~disturbed /\ ~(Connected /\ ~Fits /\ \E f \in Written : f.type = "contact")
  BY DEF NoFrame, client
<1>2. Told /\ EndsFine /\ IterFine
  BY <1>1 DEF ListInv
<1>3. Frame("push") \in Frames /\ Frame("push").type = "push"
  BY FramesTyped DEF FrameTypes
<1>4. CASE ~Connected
  <2>1. IterFine'
    BY <1>1, <1>4 DEF IterFine
  <2>2. CASE oldDeviceConnected
    <3>1. send_queue' = <<>> /\ Len(<<>>) = 0
      BY <1>4, <2>2, EmptySeq DEF NoFrame
    <3>2. EndsFine'
      BY <3>1 DEF EndsFine
    <3>3. Told'
      BY <1>1, <1>2 DEF Told
    <3> QED
      BY <2>1, <3>2, <3>3
  <2>3. CASE ~oldDeviceConnected
    <3>1. send_queue' = send_queue
      BY <1>4, <2>3 DEF NoFrame
    <3> QED
      BY <1>1, <1>2, <1>3, <2>1, <3>1, WritingKeepsEnds
  <2> QED
    BY <2>2, <2>3
<1>5. CASE Connected /\ Written = {}
  <2>1. send_queue' = send_queue /\ deviceConnected' = deviceConnected
    BY <1>1, <1>5 DEF NoFrame, Connected, TypeOK
  <2>2. Told' /\ EndsFine'
    BY <1>1, <1>2, <1>3, <2>1, WritingKeepsEnds
  <2>3. CASE ~MayList
    BY <1>1, <1>2, <1>3, <2>1, <2>2, <2>3, WritingKeepsIter
  <2>4. CASE MayList
    <3>1. /\ iter.next \in 1 .. Len(contacts) /\ iter'.next = iter.next + 1
          /\ iter'.since = iter.since /\ contacts[iter.next].lastmod <= iter.since
          /\ iter.started
      <4>1. Numbered("end", iter.recent) \notin Written
        BY <1>5
      <4>2. \A k : ContactFrame(contacts[k]) \notin Written
        BY <1>5
      <4> QED
        BY <1>1, <2>4, <4>1, <4>2, ListedEach DEF MayList
    <3>2. \A k \in 1 .. Len(contacts) : k < iter.next + 1 => k < iter.next \/ k = iter.next
      BY <3>1
    <3>3. ASSUME peer, deviceConnected, Counts(Len(send_queue) + 1),
                 NEW k \in 1 .. Len(contacts), k < iter.next + 1
          PROVE  contacts[k].lastmod <= iter.since \/ Shown(contacts[k], Len(send_queue) + 1)
      BY <1>2, <3>1, <3>2, <3>3 DEF IterFine
    <3>4. IterFine'
      BY <1>1, <2>1, <3>1, <3>3 DEF IterFine, Counts, Shown
    <3> QED
      BY <2>2, <3>4
  <2> QED
    BY <2>3, <2>4
<1>6. CASE Connected /\ Written # {}
  <2>1. PICK f \in Written : writeFrame(f)
    BY <1>6 DEF NoFrame
  <2>2. MayList /\ iter' = ListStep /\ iter.started
    BY <1>1, <2>1 DEF Written, MayList
  <2>3. f \in Frames /\ (send_queue' = send_queue \/ send_queue' = Append(send_queue, f))
    BY <2>1, ListingTyped, Wrote
  <2>4. deviceConnected
    BY <1>6 DEF Connected
  <2>5. CASE iter.next > Len(contacts) /\ f = Numbered("end", iter.recent) /\ ~iter'.started
    <3>1. ASSUME peer, Counts(Len(send_queue) + 1), NEW k \in 1 .. Len(contacts)
          PROVE  Shown(contacts[k], Len(send_queue) + 1)
      <4>1. k < iter.next
        BY <2>5, DataTyped DEF TypeOK
      <4>2. CASE contacts[k].lastmod <= iter.since
        <5>1. iter.since <= app.since /\ iter.since \in Nat /\ app.since \in Nat
              /\ contacts[k].lastmod \in Nat
          BY DataTyped DEF Sinces, TypeOK
        <5>2. contacts[k].lastmod <= app.since
          BY <4>2, <5>1
        <5> QED
          BY <1>2, <5>2 DEF Told, Shown
      <4>3. CASE Shown(contacts[k], Len(send_queue) + 1)
        BY <4>3
      <4> QED
        BY <1>2, <2>2, <2>4, <3>1, <4>1, <4>2, <4>3 DEF IterFine
    <3>2. Told' /\ EndsFine'
      BY <1>1, <1>2, <2>3, <3>1, WritingKeepsEnds
    <3>3. IterFine'
      BY <2>5 DEF IterFine
    <3> QED
      BY <3>2, <3>3
  <2>6. CASE /\ iter.next \in 1 .. Len(contacts) /\ f = ContactFrame(contacts[iter.next])
             /\ iter'.next = iter.next + 1 /\ iter'.since = iter.since
    <3>1. f.type = "contact"
      BY <2>6 DEF ContactFrame
    <3>2. Told' /\ EndsFine'
      BY <1>1, <1>2, <2>3, <3>1, WritingKeepsEnds
    <3>3. send_queue' = Append(send_queue, f)
      BY <1>1, <1>6, <2>1, <3>1 DEF writeFrame
    <3>4. PICK L : L = Len(send_queue)
      OBVIOUS
    <3>5. /\ L \in Nat /\ Len(send_queue') = L + 1 /\ (L + 1) + 1 = L + 2
          /\ Counts(L + 2)' => Counts(L + 1)
          /\ \A k \in 1 .. Len(contacts), p \in 1 .. L + 1 :
               Shown(contacts[k], p) => Shown(contacts[k], L + 2)'
          /\ \A k \in 1 .. Len(contacts) :
               f = ContactFrame(contacts[k]) => Shown(contacts[k], L + 2)'
          /\ L + 1 \in 1 .. L + 1
      BY <1>1, <2>3, <3>1, <3>3, <3>4, WritingShows
    <3>6. ASSUME peer, Counts(L + 2)', NEW k \in 1 .. Len(contacts), k < iter.next + 1
          PROVE  contacts[k].lastmod <= iter.since \/ Shown(contacts[k], L + 2)'
      <4>1. CASE k = iter.next
        BY <2>6, <3>5, <4>1
      <4>2. CASE k < iter.next
        BY <1>2, <2>2, <2>4, <3>4, <3>5, <3>6, <4>2 DEF IterFine
      <4> QED
        BY <2>6, <3>6, <4>1, <4>2
    <3>7. IterFine'
      BY <1>1, <2>6, <3>5, <3>6 DEF IterFine
    <3> QED
      BY <3>2, <3>7
  <2> QED
    BY <2>1, <2>2, <2>5, <2>6, ListedEach
<1> QED
  BY <1>4, <1>5, <1>6

LEMMA NextKeepsLists ==
  ASSUME TypeOK, Versions, Sinces, ListInv, [Next]_vars
  PROVE  ListInv'
<1>1. CASE (\E private \in BOOLEAN : MessageArrives(private)) \/ Push
  <2>1. PICK f \in Frames : f.type \notin {"end", "self"} /\ Notify(f)
    <3>1. /\ Frame("tickle") \in Frames /\ Frame("push") \in Frames
          /\ Frame("tickle").type = "tickle" /\ Frame("push").type = "push"
      BY FramesTyped DEF FrameTypes
    <3> QED
      BY <1>1, <3>1 DEF MessageArrives, Push
  <2>2. UNCHANGED <<contacts, iter, app, peer, deviceConnected, disturbed>>
    BY <1>1 DEF MessageArrives, Push, device, client
  <2> QED
    BY <2>1, <2>2, Notified, WritingKeepsEnds, WritingKeepsIter DEF ListInv
<1>2. ASSUME NEW id \in Contacts, ContactChanges(id)
      PROVE  ListInv'
  <2> SUFFICES ASSUME ~disturbed' PROVE Told' /\ EndsFine' /\ IterFine'
    BY DEF ListInv
  <2>1. /\ UNCHANGED <<send_queue, app, iter, peer, deviceConnected>>
        /\ ~disturbed /\ ~iter.started /\ ~(now <= app.since) /\ ~(\E f \in Ends : now <= f.n)
    BY <1>2 DEF ContactChanges, ble, client
  <2>2. Told /\ EndsFine /\ IterFine
    BY <2>1 DEF ListInv
  <2>3. PICK m \in 1 .. Len(contacts') :
          /\ contacts'[m].id = id /\ contacts'[m].lastmod = now
          /\ \A i \in 1 .. Len(contacts') :
               i # m => i \in 1 .. Len(contacts) /\ contacts'[i] = contacts[i]
    BY <1>2, ChangedContact
  <2>4. Told'
    BY <2>1, <2>2, <2>3 DEF Told
  <2>5. \A p \in 1 .. Len(send_queue) : send_queue[p].type = "end" => ~(now <= send_queue[p].n)
    <3>1. \A p \in 1 .. Len(send_queue) : send_queue[p] \in Range(send_queue)
      BY RangeOfSeq, LenProperties DEF TypeOK, Range
    <3> QED
      BY <2>1, <3>1 DEF Ends
  <2>6. EndsFine'
    BY <2>1, <2>2, <2>3, <2>5 DEF EndsFine, Counts, Shown
  <2>7. IterFine'
    BY <2>1 DEF IterFine
  <2> QED
    BY <2>4, <2>6, <2>7
<1>3. CASE Connect
  <2> SUFFICES ASSUME ~disturbed' PROVE Told' /\ EndsFine' /\ IterFine'
    BY DEF ListInv
  <2>1. /\ UNCHANGED <<contacts, send_queue, iter>> /\ app' = Connecting(app)
        /\ ~disturbed /\ "self" \notin Found
    BY <1>3 DEF Connect, device
  <2>2. app'.ready = FALSE /\ app'.since = app.since /\ app'.book = app.book
    BY <2>1 DEF Connecting, TypeOK, AppState
  <2>3. \A p \in 1 .. Len(send_queue) : send_queue[p].type # "self"
    <3>1. \A p \in 1 .. Len(send_queue) : send_queue[p] \in Range(send_queue)
      BY RangeOfSeq, LenProperties DEF TypeOK, Range
    <3> QED
      BY <2>1, <3>1 DEF Found
  <2>4. Len(send_queue) \in Nat
    BY DataTyped
  <2>5. \A p \in 1 .. Len(send_queue) + 1 : ~Counts(p)'
    BY <2>1, <2>2, <2>3, <2>4 DEF Counts
  <2>6. Told'
    BY <2>1, <2>2 DEF ListInv, Told
  <2>7. EndsFine'
    BY <2>1, <2>4, <2>5 DEF EndsFine
  <2>8. IterFine'
    BY <2>1, <2>4, <2>5 DEF IterFine
  <2> QED
    BY <2>6, <2>7, <2>8
<1>4. CASE Disconnect
  <2>1. UNCHANGED <<contacts, app, disturbed>> /\ peer' = FALSE
    BY <1>4 DEF Disconnect, device
  <2> QED
    BY <2>1 DEF ListInv, Told, EndsFine, IterFine
<1>5. CASE AppStep \/ Tick \/ Ready \/ UNCHANGED vars
  <2>1. UNCHANGED <<contacts, send_queue, iter, peer, deviceConnected, disturbed>>
    BY <1>5 DEF AppStep, AppStarts, AppFetches, AppLists, AppSends, Tick, Ready, vars,
                device, ble, client, past
  <2>2. app'.ready = app.ready /\ app'.since = app.since /\ app'.book = app.book
    <3>1. app \in AppState
      BY DEF TypeOK
    <3> QED
      BY <1>5, <3>1 DEF AppStep, AppStarts, AppFetches, AppLists, AppSends, Tick, Ready, vars,
                        client, AppState
  <2> QED
    BY <2>1, <2>2, SameKeepsLists
<1>6. CASE LoopStarts
  BY <1>6, LoopStartsKeepsLists
<1>7. CASE ShiftAndHandle
  <2>1. /\ taken \in Commands /\ Handle(taken)
        /\ UNCHANGED <<contacts, app, peer, deviceConnected, disturbed>>
    BY <1>7 DEF ShiftAndHandle, client, TypeOK
  <2>2. PICK f \in Frames :
          /\ writeFrame(f) /\ f.type # "end"
          /\ \/ iter' = iter /\ f.type # "self"
             \/ ~iter'.started
             \/ iter'.next = 1
    <3>1. iter' = [iter EXCEPT !.started = FALSE] => ~iter'.started
      BY DEF TypeOK
    <3>2. iter' = ListAnew(taken.n) => iter'.next = 1
      BY DEF ListAnew
    <3> QED
      BY <2>1, <3>1, <3>2, HandledOnce
  <2> QED
    BY <2>1, <2>2, Wrote, WritingKeepsEnds, WritingKeepsIter DEF ListInv
<1>8. CASE NoFrame
  BY <1>8, NoFrameKeepsLists
<1> QED
  BY <1>1, <1>2, <1>3, <1>4, <1>5, <1>6, <1>7, <1>8 DEF Next, LoopStep

(* An app that asks for the contacts since the time it was told last has   *)
(* every contact changed until then, over connections that break anywhere  *)
(* in a listing and frames that come late (CMD_GET_CONTACTS, the listing   *)
(* in checkSerialInterface).                                               *)
THEOREM ToldMeansListed == Spec => []ListingsAreComplete
<1> DEFINE Inv == TypeOK /\ Versions /\ Sinces /\ ListInv
<1>1. Init => Versions /\ Sinces /\ ListInv
  <2> SUFFICES ASSUME Init PROVE Versions /\ Sinces /\ ListInv
    OBVIOUS
  <2>1. /\ contacts = <<>> /\ Len(contacts) = 0 /\ send_queue = <<>> /\ Len(send_queue) = 0
        /\ now = 1 /\ app.since = 0 /\ app.listing = FALSE /\ app.book = [c \in Contacts |-> 0]
        /\ iter = NewIter /\ taken.n = 0 /\ \A i \in Slots : recv[i].n = 0
    BY EmptySeq DEF Init, NoCommand, Command
  <2>2. Versions
    BY <2>1 DEF Versions, OnDevice, UnderWay, InOrder
  <2>3. Sinces
    BY <2>1 DEF Sinces, NewIter
  <2>4. ListInv
    BY <2>1 DEF ListInv, Told, EndsFine, IterFine, NewIter
  <2> QED
    BY <2>2, <2>3, <2>4
<1>2. TypeOK /\ ListInv => ListingsAreComplete
  <2> SUFFICES ASSUME TypeOK, Told, NEW c \in Range(contacts), c.lastmod <= app.since
               PROVE  app.book[c.id] = c.lastmod
    BY DEF ListInv, ListingsAreComplete
  <2>1. PICK k \in 1 .. Len(contacts) : c = contacts[k]
    <3>1. DOMAIN contacts = 1 .. Len(contacts)
      BY LenProperties DEF TypeOK
    <3> QED
      BY <3>1 DEF Range
  <2> QED
    BY <2>1 DEF Told
<1> QED
  BY <1>1, <1>2, TypeCorrect, NextKeepsVersions, NextKeepsSinces, NextKeepsLists, PTL DEF Spec

=============================================================================
