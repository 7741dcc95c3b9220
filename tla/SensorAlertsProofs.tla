-------------------------- MODULE SensorAlertsProofs --------------------------
(***************************************************************************)
(* Proofs about SensorAlerts, for any contacts and alerts, a queue and an  *)
(* access list of any length, any number of attempts, any readings and any *)
(* commands.                                                               *)
(***************************************************************************)
EXTENDS SensorAlerts, ClientACLProofs

------------------------------------------------------------------------------
(* Queues *)

(* A sequence without its k-th element. *)
LEMMA Removed ==
  ASSUME NEW T, NEW s \in Seq(T), NEW k \in 1 .. Len(s)
  PROVE  /\ RemoveAt(s, k) \in Seq(T)
         /\ Len(RemoveAt(s, k)) = Len(s) - 1
         /\ \A i \in 1 .. Len(s) - 1 :
              RemoveAt(s, k)[i] = IF i < k THEN s[i] ELSE s[i + 1]
<1> DEFINE l == SubSeq(s, 1, k - 1)
           r == SubSeq(s, k + 1, Len(s))
<1>0. Len(s) \in Nat
  BY LenProperties
<1>1. /\ l \in Seq(T) /\ Len(l) = k - 1
      /\ \A i \in 1 .. k - 1 : l[i] = s[i]
  <2>1. CASE k = 1
    BY <1>0, <2>1, SubSeqProperties
  <2>2. CASE k # 1
    BY <1>0, <2>2, SubSeqProperties
  <2> QED
    BY <2>1, <2>2
<1>2. /\ r \in Seq(T) /\ Len(r) = Len(s) - k
      /\ \A i \in 1 .. Len(s) - k : r[i] = s[k + i]
  <2>1. CASE k = Len(s)
    BY <1>0, <2>1, SubSeqProperties
  <2>2. CASE k # Len(s)
    BY <1>0, <2>2, SubSeqProperties
  <2> QED
    BY <2>1, <2>2
<1>3. RemoveAt(s, k) = l \o r
  BY DEF RemoveAt
<1> HIDE DEF l, r
<1>4. /\ l \o r \in Seq(T) /\ Len(l \o r) = Len(s) - 1
      /\ \A i \in 1 .. Len(s) - 1 : (l \o r)[i] = IF i <= k - 1 THEN l[i] ELSE r[i - (k - 1)]
  <2>1. l \o r \in Seq(T) /\ Len(l \o r) = Len(l) + Len(r)
    BY <1>1, <1>2, ConcatProperties
  <2>2. Len(l) + Len(r) = Len(s) - 1
    BY <1>0, <1>1, <1>2
  <2>3. \A i \in 1 .. Len(l) + Len(r) : (l \o r)[i] = IF i <= Len(l) THEN l[i] ELSE r[i - Len(l)]
    BY <1>1, <1>2, ConcatProperties
  <2> QED
    BY <1>1, <2>1, <2>2, <2>3
<1>5. \A i \in 1 .. Len(s) - 1 : (l \o r)[i] = IF i < k THEN s[i] ELSE s[i + 1]
  <2> TAKE i \in 1 .. Len(s) - 1
  <2>1. CASE i < k
    BY <1>0, <1>1, <1>4, <2>1
  <2>2. CASE ~(i < k)
    <3>1. i - (k - 1) \in 1 .. Len(s) - k /\ k + (i - (k - 1)) = i + 1
      BY <1>0, <2>2
    <3> QED
      BY <1>0, <1>2, <1>4, <2>2, <3>1
  <2> QED
    BY <2>1, <2>2
<1> QED
  BY <1>3, <1>4, <1>5

(* A queue without doubles, with one alert more, one less, or its head     *)
(* taken off.                                                              *)
LEMMA QueueAppended ==
  ASSUME NEW T, NEW s \in Seq(T), IsInjective(s), NEW e \in T, e \notin Range(s)
  PROVE  /\ Append(s, e) \in Seq(T) /\ Len(Append(s, e)) = Len(s) + 1
         /\ IsInjective(Append(s, e)) /\ Range(Append(s, e)) = Range(s) \cup {e}
<1> DEFINE a == Append(s, e)
<1>1. /\ a \in Seq(T) /\ Len(a) = Len(s) + 1 /\ Len(s) \in Nat
      /\ \A i \in 1 .. Len(s) : a[i] = s[i]
      /\ a[Len(s) + 1] = e
  BY AppendProperties, LenProperties
<1>2. DOMAIN a = 1 .. Len(s) + 1 /\ DOMAIN s = 1 .. Len(s)
  BY <1>1, LenProperties
<1> HIDE DEF a
<1>3. \A i \in 1 .. Len(s) : s[i] \in Range(s) /\ s[i] # e
  BY <1>2 DEF Range
<1>4. \A i \in 1 .. Len(s) + 1 : i \in 1 .. Len(s) \/ i = Len(s) + 1
  BY <1>1
<1>5. IsInjective(a)
  BY <1>1, <1>2, <1>3, <1>4 DEF IsInjective
<1>6. Range(a) \subseteq Range(s) \cup {e}
  BY <1>1, <1>2, <1>3, <1>4 DEF Range
<1>7. Range(s) \cup {e} \subseteq Range(a)
  <2>1. Len(s) + 1 \in 1 .. Len(s) + 1 /\ \A i \in 1 .. Len(s) : i \in 1 .. Len(s) + 1
    BY <1>1
  <2> QED
    BY <1>1, <1>2, <2>1 DEF Range
<1> QED
  BY <1>1, <1>5, <1>6, <1>7 DEF a

LEMMA QueueWithout ==
  ASSUME NEW T, NEW s \in Seq(T), IsInjective(s), NEW k \in 1 .. Len(s)
  PROVE  /\ RemoveAt(s, k) \in Seq(T) /\ Len(RemoveAt(s, k)) <= Len(s)
         /\ IsInjective(RemoveAt(s, k)) /\ Range(RemoveAt(s, k)) = Range(s) \ {s[k]}
<1> DEFINE r == RemoveAt(s, k)
           From(i) == IF i < k THEN i ELSE i + 1
<1>1. /\ r \in Seq(T) /\ Len(r) = Len(s) - 1 /\ Len(s) \in Nat
      /\ \A i \in 1 .. Len(s) - 1 : r[i] = s[From(i)]
  BY Removed, LenProperties
<1>2. DOMAIN r = 1 .. Len(s) - 1 /\ DOMAIN s = 1 .. Len(s)
  BY <1>1, LenProperties
<1> HIDE DEF r
<1>3. /\ \A i \in 1 .. Len(s) - 1 : From(i) \in 1 .. Len(s) /\ From(i) # k
      /\ \A i, j \in 1 .. Len(s) - 1 : From(i) = From(j) => i = j
  BY <1>1
<1>4. \A j \in 1 .. Len(s) : j # k => \E i \in 1 .. Len(s) - 1 : From(i) = j
  <2> TAKE j \in 1 .. Len(s)
  <2>1. CASE j < k
    BY <1>1, <2>1
  <2>2. CASE j > k
    <3>1. j - 1 \in 1 .. Len(s) - 1 /\ From(j - 1) = j
      BY <1>1, <2>2
    <3> QED
      BY <3>1
  <2> QED
    BY <2>1, <2>2
<1> HIDE DEF From
<1>5. IsInjective(r)
  BY SMTT(30), <1>1, <1>2, <1>3 DEF IsInjective
<1>6. Range(r) = Range(s) \ {s[k]}
  <2>1. Range(r) = {s[From(i)] : i \in 1 .. Len(s) - 1}
    BY <1>1, <1>2 DEF Range
  <2>2. \A i \in 1 .. Len(s) - 1 : s[From(i)] \in Range(s) /\ s[From(i)] # s[k]
    BY <1>2, <1>3 DEF IsInjective, Range
  <2>3. Range(s) = {s[j] : j \in 1 .. Len(s)}
    BY <1>2 DEF Range
  <2>4. \A j \in 1 .. Len(s) : s[j] # s[k] => s[j] \in Range(r)
    BY <1>4, <2>1
  <2> QED
    BY <2>1, <2>2, <2>3, <2>4
<1> QED
  BY <1>1, <1>5, <1>6 DEF r

LEMMA QueueRemoved ==
  ASSUME NEW T, NEW s \in Seq(T), IsInjective(s), NEW e
  PROVE  /\ RemoveFirst(s, e) \in Seq(T) /\ Len(RemoveFirst(s, e)) <= Len(s)
         /\ IsInjective(RemoveFirst(s, e)) /\ Range(RemoveFirst(s, e)) = Range(s) \ {e}
<1>0. DOMAIN s = 1 .. Len(s) /\ Len(s) \in Nat
  BY LenProperties
<1>1. CASE e \in Range(s)
  <2> DEFINE S == {i \in 1 .. Len(s) : s[i] = e}
  <2>1. S # {} /\ S \subseteq Nat
    BY <1>0, <1>1 DEF Range
  <2>2. RemoveFirst(s, e) = RemoveAt(s, Min(S))
    BY <2>1 DEF RemoveFirst, SelectInSeq
  <2>3. Min(S) \in S
    <3> HIDE DEF S
    <3>1. Least(S) \in S /\ \A m \in S : Least(S) <= m
      BY <2>1, LeastIsLeast
    <3> QED
      BY <3>1 DEF Min
  <2>4. Min(S) \in 1 .. Len(s) /\ s[Min(S)] = e
    BY <2>3
  <2> HIDE DEF S
  <2> QED
    BY <2>2, <2>4, QueueWithout
<1>2. CASE e \notin Range(s)
  <2>1. RemoveFirst(s, e) = s
    BY <1>0, <1>2 DEF RemoveFirst, Range
  <2> QED
    BY <1>0, <1>2, <2>1
<1> QED
  BY <1>1, <1>2

LEMMA QueueTail ==
  ASSUME NEW T, NEW s \in Seq(T), IsInjective(s), s # <<>>
  PROVE  /\ Head(s) \in Range(s)
         /\ Tail(s) \in Seq(T) /\ Len(Tail(s)) <= Len(s)
         /\ IsInjective(Tail(s)) /\ Range(Tail(s)) = Range(s) \ {Head(s)}
<1>0. DOMAIN s = 1 .. Len(s) /\ Len(s) \in Nat \ {0} /\ Head(s) = s[1]
  BY LenProperties, EmptySeq
<1>1. /\ Tail(s) \in Seq(T) /\ Len(Tail(s)) = Len(s) - 1
      /\ \A i \in 1 .. Len(s) - 1 : Tail(s)[i] = s[i + 1]
  BY HeadTailProperties
<1>2. DOMAIN Tail(s) = 1 .. Len(s) - 1
  BY <1>0, <1>1, LenProperties
<1>3. \A i \in 1 .. Len(s) - 1 : i + 1 \in 1 .. Len(s) /\ i + 1 # 1
  BY <1>0
<1>4. \A i, j \in 1 .. Len(s) - 1 : i + 1 = j + 1 => i = j
  OBVIOUS
<1>5. \A j \in 1 .. Len(s) : j = 1 \/ \E i \in 1 .. Len(s) - 1 : i + 1 = j
  <2> TAKE j \in 1 .. Len(s)
  <2>1. CASE j # 1
    <3>1. j - 1 \in 1 .. Len(s) - 1 /\ j - 1 + 1 = j
      BY <1>0, <2>1
    <3> QED
      BY <3>1
  <2> QED
    BY <2>1
<1>6. IsInjective(Tail(s))
  BY <1>0, <1>1, <1>2, <1>3, <1>4 DEF IsInjective
<1>7. Range(Tail(s)) = Range(s) \ {Head(s)}
  <2>1. Range(Tail(s)) = {s[i + 1] : i \in 1 .. Len(s) - 1}
    BY <1>1, <1>2 DEF Range
  <2>2. \A i \in 1 .. Len(s) - 1 : s[i + 1] \in Range(s) /\ s[i + 1] # s[1]
    BY <1>0, <1>3 DEF IsInjective, Range
  <2>3. Range(s) = {s[j] : j \in 1 .. Len(s)}
    BY <1>0 DEF Range
  <2>4. \A j \in 1 .. Len(s) : s[j] # s[1] => s[j] \in Range(Tail(s))
    BY <1>5, <2>1
  <2> QED
    BY <1>0, <2>1, <2>2, <2>3, <2>4
<1>8. Head(s) \in Range(s)
  <2>1. 1 \in 1 .. Len(s)
    BY <1>0
  <2> QED
    BY <1>0, <2>1 DEF Range
<1> QED
  BY <1>0, <1>1, <1>6, <1>7, <1>8

------------------------------------------------------------------------------
(* Readings *)

(* What alerts were raised and called off in a reading, as far as it got.  *)
Follows(s, reading) ==
  /\ s = [tasks |-> s.tasks, trigger |-> s.trigger]
  /\ s.tasks \in Seq(Alerts) /\ Len(s.tasks) <= MaxAlerts /\ IsInjective(s.tasks)
  /\ s.trigger \in [Alerts -> Trigger]
  /\ \A t \in Range(s.tasks) : s.trigger[t].text
  /\ \A t \in Alerts :
       \/ /\ s.trigger[t] = trigger[t]
          /\ t \in Range(s.tasks) <=> t \in Range(alert_tasks)
       \/ /\ t \in reading /\ t \notin Range(alert_tasks) /\ t \in Range(s.tasks)
          /\ s.trigger[t] = Raised(trigger[t])
       \/ /\ t \notin reading /\ t \notin Range(s.tasks)
          /\ s.trigger[t] = [trigger[t] EXCEPT !.text = FALSE]

(* The queue of alerts holds alerts that are raised, each of them once. *)
Queued ==
  /\ IsInjective(alert_tasks)
  /\ \A t \in Range(alert_tasks) : trigger[t].text

(* Triggers with a field changed. *)
LEMMA FieldsTyped ==
  ASSUME NEW tr \in Trigger
  PROVE  /\ \A b \in BOOLEAN : [tr EXCEPT !.text = b] \in Trigger
         /\ \A n \in Nat : [tr EXCEPT !.timestamp = n] \in Trigger
         /\ \A n \in Int : [tr EXCEPT !.curr_contact_idx = n] \in Trigger
         /\ \A n \in 0 .. MaxAttempts : [tr EXCEPT !.attempt = n] \in Trigger
         /\ \A e \in Time : [tr EXCEPT !.send_expiry = e] \in Trigger
         /\ \A i \in Attempts, k \in AckIds : [tr EXCEPT !.expected_acks[i] = k] \in Trigger
<1>1. \A b \in BOOLEAN : [tr EXCEPT !.text = b] \in Trigger
  BY DEF Trigger
<1>2. \A n \in Nat : [tr EXCEPT !.timestamp = n] \in Trigger
  BY DEF Trigger
<1>3. \A n \in Int : [tr EXCEPT !.curr_contact_idx = n] \in Trigger
  BY DEF Trigger
<1>4. \A n \in 0 .. MaxAttempts : [tr EXCEPT !.attempt = n] \in Trigger
  BY DEF Trigger
<1>5. \A e \in Time : [tr EXCEPT !.send_expiry = e] \in Trigger
  BY DEF Trigger
<1>6. \A i \in Attempts, k \in AckIds : [tr EXCEPT !.expected_acks[i] = k] \in Trigger
  <2> TAKE i \in Attempts, k \in AckIds
  <2>1. tr.expected_acks \in [Attempts -> AckIds \cup {NoAck}]
    BY DEF Trigger
  <2>2. [tr.expected_acks EXCEPT ![i] = k] \in [Attempts -> AckIds \cup {NoAck}]
    BY <2>1
  <2>3. \A acks \in [Attempts -> AckIds \cup {NoAck}] : [tr EXCEPT !.expected_acks = acks] \in Trigger
    BY DEF Trigger
  <2>4. [tr EXCEPT !.expected_acks[i] = k]
          = [tr EXCEPT !.expected_acks = [tr.expected_acks EXCEPT ![i] = k]]
    BY DEF Trigger
  <2> QED
    BY <2>2, <2>3, <2>4
<1> QED
  BY <1>1, <1>2, <1>3, <1>4, <1>5, <1>6

LEMMA TriggersTyped ==
  ASSUME NEW tr \in Trigger
  PROVE  /\ Raised(tr) \in Trigger /\ Raised(tr).text
         /\ [tr EXCEPT !.text = FALSE] \in Trigger
         /\ tr.text \in BOOLEAN
<1>1. MaxAttempts \in 0 .. MaxAttempts /\ -1 \in Int
  BY AlertAssumption
<1>2. 0 \in Time
  BY HalfAssumption DEF Time, Word
<1>3. Raised(tr) = [[[[tr EXCEPT !.text = TRUE] EXCEPT !.send_expiry = 0]
                       EXCEPT !.attempt = MaxAttempts] EXCEPT !.curr_contact_idx = -1]
  BY DEF Raised
<1>4. Raised(tr) \in Trigger
  <2> DEFINE a == [tr EXCEPT !.text = TRUE]
             b == [a EXCEPT !.send_expiry = 0]
             c == [b EXCEPT !.attempt = MaxAttempts]
  <2>1. a \in Trigger
    BY FieldsTyped
  <2> HIDE DEF a
  <2>2. b \in Trigger
    BY <1>2, <2>1, FieldsTyped
  <2> HIDE DEF b
  <2>3. c \in Trigger
    BY <1>1, <2>2, FieldsTyped
  <2>4. [c EXCEPT !.curr_contact_idx = -1] \in Trigger
    <3> HIDE DEF c
    <3> QED
      BY <1>1, <2>3, FieldsTyped
  <2> QED
    BY <1>3, <2>4 DEF a, b
<1>5. Raised(tr).text
  BY DEF Raised, Trigger
<1> QED
  BY <1>4, <1>5, FieldsTyped DEF Trigger

LEMMA UnreadFollows ==
  ASSUME TypeOK, Queued, NEW reading
  PROVE  Follows(Unread, reading)
BY DEF TypeOK, Queued, Follows, Unread

LEMMA AlertIfFollows ==
  ASSUME TypeOK, NEW reading, NEW s, Follows(s, reading), NEW t \in Alerts
  PROVE  Follows(alertIf(s, t, t \in reading), reading)
<1> DEFINE new == alertIf(s, t, t \in reading)
<1>1. /\ s = [tasks |-> s.tasks, trigger |-> s.trigger]
      /\ s.tasks \in Seq(Alerts) /\ Len(s.tasks) <= MaxAlerts /\ IsInjective(s.tasks)
      /\ s.trigger \in [Alerts -> Trigger]
      /\ \A u \in Range(s.tasks) : s.trigger[u].text
  BY DEF Follows
<1>2. \A u \in Alerts :
       \/ /\ s.trigger[u] = trigger[u]
          /\ u \in Range(s.tasks) <=> u \in Range(alert_tasks)
       \/ /\ u \in reading /\ u \notin Range(alert_tasks) /\ u \in Range(s.tasks)
          /\ s.trigger[u] = Raised(trigger[u])
       \/ /\ u \notin reading /\ u \notin Range(s.tasks)
          /\ s.trigger[u] = [trigger[u] EXCEPT !.text = FALSE]
  BY DEF Follows
<1>3. trigger[t] \in Trigger /\ s.trigger[t] \in Trigger
  BY <1>1 DEF TypeOK
<1>4. MaxAlerts \in Nat /\ Len(s.tasks) \in Nat
  BY <1>1, AlertAssumption, LenProperties
<1>5. CASE t \in reading /\ ~s.trigger[t].text /\ HasRoom(s)
  <2> DEFINE tasks == Append(s.tasks, t)
             tr    == [s.trigger EXCEPT ![t] = Raised(@)]
  <2>1. new = [tasks |-> tasks, trigger |-> tr]
    BY <1>5 DEF alertIf
  <2>2. t \notin Range(s.tasks)
    BY <1>1, <1>5
  <2>3. s.trigger[t] = trigger[t] /\ t \notin Range(alert_tasks)
    BY <1>2, <1>5, <2>2
  <2>4. /\ tasks \in Seq(Alerts) /\ Len(tasks) = Len(s.tasks) + 1 /\ IsInjective(tasks)
        /\ Range(tasks) = Range(s.tasks) \cup {t}
    BY <1>1, <2>2, QueueAppended
  <2>5. tr \in [Alerts -> Trigger] /\ tr[t] = Raised(trigger[t]) /\ tr[t].text
        /\ \A u \in Alerts : u # t => tr[u] = s.trigger[u]
    BY <1>1, <1>3, <2>3, TriggersTyped
  <2>6. Range(s.tasks) \subseteq Alerts
    BY <1>1, LenProperties DEF Range
  <2> HIDE DEF tasks, tr
  <2>7. Len(tasks) <= MaxAlerts
    BY <1>4, <1>5, <2>4 DEF HasRoom
  <2>8. \A u \in Range(tasks) : tr[u].text
    BY <1>1, <2>4, <2>5, <2>6
  <2>9. \A u \in Alerts :
       \/ /\ tr[u] = trigger[u]
          /\ u \in Range(tasks) <=> u \in Range(alert_tasks)
       \/ /\ u \in reading /\ u \notin Range(alert_tasks) /\ u \in Range(tasks)
          /\ tr[u] = Raised(trigger[u])
       \/ /\ u \notin reading /\ u \notin Range(tasks)
          /\ tr[u] = [trigger[u] EXCEPT !.text = FALSE]
    <3> TAKE u \in Alerts
    <3>1. CASE u = t
      BY <1>5, <2>3, <2>4, <2>5, <3>1
    <3>2. CASE u # t
      BY <1>2, <2>4, <2>5, <3>2
    <3> QED
      BY <3>1, <3>2
  <2>10. new.tasks = tasks /\ new.trigger = tr /\ new = [tasks |-> new.tasks, trigger |-> new.trigger]
    BY <2>1
  <2> HIDE DEF new
  <2>11. Follows(new, reading)
    BY <2>4, <2>5, <2>7, <2>8, <2>9, <2>10 DEF Follows
  <2> QED
    BY <2>11 DEF new
<1>6. CASE t \notin reading /\ s.trigger[t].text
  <2> DEFINE tasks == RemoveFirst(s.tasks, t)
             tr    == [s.trigger EXCEPT ![t].text = FALSE]
  <2>1. new = [tasks |-> tasks, trigger |-> tr]
    BY <1>6 DEF alertIf
  <2>2. s.trigger[t] = trigger[t]
    <3>1. [trigger[t] EXCEPT !.text = FALSE].text = FALSE
      BY <1>3 DEF Trigger
    <3> QED
      BY <1>2, <1>6, <3>1
  <2>4. /\ tasks \in Seq(Alerts) /\ Len(tasks) <= Len(s.tasks) /\ IsInjective(tasks)
        /\ Range(tasks) = Range(s.tasks) \ {t}
    BY <1>1, QueueRemoved
  <2>5. tr \in [Alerts -> Trigger] /\ tr[t] = [trigger[t] EXCEPT !.text = FALSE]
        /\ \A u \in Alerts : u # t => tr[u] = s.trigger[u]
    BY <1>1, <1>3, <2>2, TriggersTyped
  <2>6. Range(s.tasks) \subseteq Alerts
    BY <1>1, LenProperties DEF Range
  <2> HIDE DEF tasks, tr
  <2>7. Len(tasks) <= MaxAlerts
    <3>1. Len(tasks) \in Nat
      BY <2>4, LenProperties
    <3> QED
      BY <1>1, <1>4, <2>4, <3>1
  <2>8. \A u \in Range(tasks) : tr[u].text
    BY <1>1, <2>4, <2>5, <2>6
  <2>9. \A u \in Alerts :
       \/ /\ tr[u] = trigger[u]
          /\ u \in Range(tasks) <=> u \in Range(alert_tasks)
       \/ /\ u \in reading /\ u \notin Range(alert_tasks) /\ u \in Range(tasks)
          /\ tr[u] = Raised(trigger[u])
       \/ /\ u \notin reading /\ u \notin Range(tasks)
          /\ tr[u] = [trigger[u] EXCEPT !.text = FALSE]
    <3> TAKE u \in Alerts
    <3>1. CASE u = t
      BY <1>6, <2>4, <2>5, <3>1
    <3>2. CASE u # t
      BY <1>2, <2>4, <2>5, <3>2
    <3> QED
      BY <3>1, <3>2
  <2>10. new.tasks = tasks /\ new.trigger = tr /\ new = [tasks |-> new.tasks, trigger |-> new.trigger]
    BY <2>1
  <2> HIDE DEF new
  <2>11. Follows(new, reading)
    BY <2>4, <2>5, <2>7, <2>8, <2>9, <2>10 DEF Follows
  <2> QED
    BY <2>11 DEF new
<1>7. CASE /\ ~(t \in reading /\ ~s.trigger[t].text /\ HasRoom(s))
           /\ ~(t \notin reading /\ s.trigger[t].text)
  <2>1. new = s
    BY <1>7 DEF alertIf
  <2> QED
    BY <2>1
<1> QED
  BY <1>5, <1>6, <1>7

(* onSensorDataRead, one alertIf after the other. *)
LEMMA ReadFollows ==
  ASSUME TypeOK, Queued, NEW reading
  PROVE  Follows(Read(reading), reading)
<1> DEFINE Step(f, k)  == IF k = 0 THEN Unread
                          ELSE alertIf(f[k - 1], Order[k], Order[k] \in reading)
           IsRead(f, n) == f = [k \in 0 .. n |-> Step(f, k)]
           Missing      == {n \in Nat : ~ \E f : IsRead(f, n)}
<1>1. ASSUME Missing # {}
      PROVE  FALSE
  <2> DEFINE m == Least(Missing)
  <2>1. m \in Missing /\ \A n \in Missing : m <= n
    <3>1. Missing \subseteq Nat
      OBVIOUS
    <3> HIDE DEF Missing
    <3> QED
      BY <1>1, <3>1, LeastIsLeast
  <2>2. m \in Nat /\ ~ \E f : IsRead(f, m)
    BY <2>1
  <2> HIDE DEF m
  <2>3. CASE m = 0
    <3> DEFINE f == [k \in 0 .. 0 |-> Unread]
    <3>1. f = [k \in 0 .. 0 |-> Step(f, k)]
      <4>1. \A k \in 0 .. 0 : Step(f, k) = Unread
        OBVIOUS
      <4> HIDE DEF Step
      <4> QED
        BY <4>1
    <3> HIDE DEF f, Step
    <3> QED
      BY <2>2, <2>3, <3>1
  <2>4. CASE m # 0
    <3>1. m - 1 \in Nat /\ m - 1 \notin Missing
      BY SMTT(30), <2>1, <2>2, <2>4
    <3>2. PICK f : IsRead(f, m - 1)
      BY <3>1
    <3> DEFINE g == [k \in 0 .. m |-> IF k = m THEN alertIf(f[m - 1], Order[m], Order[m] \in reading)
                                      ELSE f[k]]
    <3>3. \A k \in 0 .. m - 1 : f[k] = Step(f, k)
      <4> HIDE DEF Step
      <4> QED
        BY <3>2
    <3>4. \A k \in 0 .. m : g[k] = Step(g, k)
      <4> TAKE k \in 0 .. m
      <4>1. CASE k = m
        <5>1. m - 1 \in 0 .. m /\ m - 1 # m
          BY <2>2, <2>4
        <5> QED
          BY <2>4, <4>1, <5>1
      <4>2. CASE k # m
        <5>1. k \in 0 .. m - 1 /\ (k # 0 => k - 1 \in 0 .. m /\ k - 1 # m)
          BY <2>2, <4>2
        <5> QED
          BY <3>3, <4>2, <5>1
      <4> QED
        BY <4>1, <4>2
    <3>5. g = [k \in 0 .. m |-> g[k]]
      OBVIOUS
    <3> HIDE DEF g, Step
    <3>6. IsRead(g, m)
      BY <3>4, <3>5
    <3> QED
      BY <2>2, <3>6
  <2> QED
    BY <2>3, <2>4
<1>2. Len(Order) \in Nat /\ \A k \in 1 .. Len(Order) : Order[k] \in Alerts
  BY AlertAssumption, LenProperties DEF Alerts, Range
<1> DEFINE after == CHOOSE f : IsRead(f, Len(Order))
<1>3. IsRead(after, Len(Order))
  <2>1. \E f : IsRead(f, Len(Order))
    BY <1>1, <1>2
  <2> HIDE DEF IsRead
  <2> QED
    BY <2>1
<1>4. Read(reading) = after[Len(Order)]
  BY DEF Read
<1> HIDE DEF after
<1>5. \A k \in 0 .. Len(Order) : after[k] = Step(after, k)
  <2> HIDE DEF Step
  <2> QED
    BY <1>3
<1> DEFINE Wrong == {k \in 0 .. Len(Order) : ~Follows(after[k], reading)}
<1>6. ASSUME Wrong # {}
      PROVE  FALSE
  <2> DEFINE m == Least(Wrong)
  <2>1. m \in Wrong /\ \A n \in Wrong : m <= n
    <3>1. Wrong \subseteq Nat
      BY <1>2
    <3> HIDE DEF Wrong
    <3> QED
      BY <1>6, <3>1, LeastIsLeast
  <2>2. m \in 0 .. Len(Order) /\ ~Follows(after[m], reading)
    BY <2>1
  <2> HIDE DEF m
  <2>3. CASE m = 0
    BY <1>5, <2>2, <2>3, UnreadFollows
  <2>4. CASE m # 0
    <3>1. m - 1 \in 0 .. Len(Order) /\ m - 1 \notin Wrong /\ m \in 1 .. Len(Order)
      BY <1>2, <2>1, <2>2, <2>4
    <3>2. Follows(after[m - 1], reading)
      BY <3>1
    <3>3. after[m] = alertIf(after[m - 1], Order[m], Order[m] \in reading)
      BY <1>5, <2>2, <2>4
    <3> QED
      BY <1>2, <2>2, <3>1, <3>2, <3>3, AlertIfFollows
  <2> QED
    BY <2>3, <2>4
<1>7. Len(Order) \in 0 .. Len(Order)
  BY <1>2
<1> QED
  BY <1>4, <1>6, <1>7

------------------------------------------------------------------------------
(* The invariant.                                                          *)
(*                                                                         *)
(* The contact a trigger is at, and those it has come to.                  *)
To(tr)         == acl.clients[tr.curr_contact_idx].id
Behind(tr, i)  == i <= tr.curr_contact_idx
IsNext(tr, tr0) == tr.curr_contact_idx = tr0.curr_contact_idx + 1
Passed(tr, id) == \E j \in Used(acl) : Behind(tr, j) /\ acl.clients[j].id = id

(* The ACKs that count are those of texts to this contact. *)
Asked(tr, tolds) ==
  \A i \in Attempts : i < tr.attempt =>
     \/ tr.expected_acks[i] = NoAck
     \/ \E x \in tolds : x.to = To(tr) /\ x.ack = tr.expected_acks[i]

(* If an ACK comes now, then the contact has received a text, or was sent  *)
(* none.                                                                   *)
MayAnswer(tr, tolds) ==
  \/ \E x \in tolds \cap heard : x.to = To(tr)
  \/ \A x \in tolds : x.to # To(tr)
  \/ Asked(tr, tolds)

(* An alert on its way through a list that has only grown: who was told or *)
(* has answered is behind it, and all behind it that want it were told.    *)
OnCourse(t, tr, tolds, confs) ==
  /\ \A x \in tolds : Passed(tr, x.to)
  /\ \A id \in confs : Passed(tr, id)
  /\ tr.curr_contact_idx \in Used(acl) => MayAnswer(tr, tolds)
  /\ tr.attempt < MaxAttempts =>
       tr.curr_contact_idx \in Used(acl) /\ Asked(tr, tolds) /\ To(tr) \notin confs
  /\ tr.curr_contact_idx < acl.num
  /\ \A i \in Used(acl) : Behind(tr, i) /\ Wants(i, t) =>
       \E x \in tolds : x.to = acl.clients[i].id

(* What a trigger will send next has not been sent.  Alerts of low         *)
(* priority have a single attempt, the last.                               *)
Stamp(t, tr, sent, clock) ==
  /\ tr.timestamp <= clock
  /\ tr.curr_contact_idx >= -1
  /\ \A x \in sent : x.ack[1] = tr.timestamp => x.ack[2] < tr.attempt
  /\ t \notin High => \A i \in Attempts : i < MaxAttempts - 1 => tr.expected_acks[i] = NoAck

UnderWay(t, tr) ==
  tr.attempt < MaxAttempts => t \in High /\ tr.timestamp # 0 /\ tr.curr_contact_idx >= 0

(* Time stamps are those of one alert, and ACKs of one text. *)
StampsDiffer(tr) ==
  \A t, u \in Alerts : tr[t].timestamp = tr[u].timestamp => t = u \/ tr[t].timestamp = 0
AcksDiffer(sent, clock) ==
  /\ \A x \in sent : x.ack[1] \in 1 .. clock
  /\ \A x, y \in sent : x.ack = y.ack => x = y

AclFine == acl \in Lists(ClientInfo({})) /\ Distinct(acl)

Stamped ==
  /\ \A t \in Alerts : Stamp(t, trigger[t], texts, rtc) /\ told[t] \subseteq texts
  /\ \A t \in Range(alert_tasks) : UnderWay(t, trigger[t])
  /\ StampsDiffer(trigger)
  /\ AcksDiffer(texts, rtc)

Courses ==
  \A t \in Range(alert_tasks) : steady[t] => OnCourse(t, trigger[t], told[t], confirmed[t])

AlertsInv == TypeOK /\ AclFine /\ Queued /\ Stamped /\ Courses /\ AcksProveReceipt

(* Texts and what they have for an ACK. *)
LEMMA TextsTyped ==
  ASSUME TypeOK, NEW x \in texts
  PROVE  /\ x.alert \in Alerts /\ x.to \in Ids /\ x.ack \in AckIds /\ x.ack # NoAck
         /\ x.ack[1] \in Nat /\ x.ack[2] \in Nat /\ x.ack[2] < MaxAttempts
<1>1. x.alert \in Alerts /\ x.to \in Ids /\ x.ack \in Nat \X Attempts
  BY DEF TypeOK, Text, AckIds
<1>2. x.ack # NoAck
  BY <1>1, AlertAssumption DEF Attempts
<1> QED
  BY <1>1, <1>2, AlertAssumption DEF AckIds, Attempts

(* The list in its types. *)
LEMMA ListTyped ==
  ASSUME AclFine
  PROVE  /\ acl \in AccessLists({})
         /\ Used(acl) \subseteq Slots /\ Slots \subseteq Nat
         /\ acl.num \in Nat /\ acl.num <= MaxClients /\ MaxClients \in Nat
         /\ \A i \in Used(acl) : i < acl.num /\ acl.clients[i].id \in Ids
         /\ \A i \in Nat : i < acl.num => i \in Used(acl)
<1>1. acl \in AccessLists({}) /\ \A i \in Used(acl) : acl.clients[i].id \in Ids
  BY DEF AclFine, Lists, AccessLists
<1>2. /\ Used(acl) \subseteq Slots /\ Slots \subseteq Nat
      /\ acl.num \in Nat /\ acl.num <= MaxClients /\ MaxClients \in Nat
  BY SlotsAreNumbers DEF AclFine
<1> QED
  BY <1>1, <1>2 DEF Used, Slots

(* Triggers in their types. *)
LEMMA FieldsOf ==
  ASSUME NEW tr \in Trigger
  PROVE  /\ tr.timestamp \in Nat /\ tr.curr_contact_idx \in Int
         /\ tr.attempt \in Nat /\ tr.attempt <= MaxAttempts
         /\ tr.expected_acks \in [Attempts -> AckIds \cup {NoAck}]
         /\ tr.send_expiry \in Time
         /\ MaxAttempts \in Nat \ {0}
BY AlertAssumption DEF Trigger

(* A raised alert is fine: nobody was told, and nobody has answered. *)
LEMMA RaisedFields ==
  ASSUME NEW tr \in Trigger
  PROVE  /\ Raised(tr).attempt = MaxAttempts /\ Raised(tr).curr_contact_idx = -1
         /\ Raised(tr).timestamp = tr.timestamp
         /\ Raised(tr).expected_acks = tr.expected_acks
BY DEF Raised, Trigger

LEMMA RaisedOnCourse ==
  ASSUME AclFine, NEW t, NEW tr \in Trigger
  PROVE  OnCourse(t, Raised(tr), {}, {}) /\ UnderWay(t, Raised(tr))
<1>1. /\ Raised(tr).attempt = MaxAttempts /\ Raised(tr).curr_contact_idx = -1
      /\ MaxAttempts \in Nat
  BY RaisedFields, FieldsOf
<1>2. \A i \in Used(acl) : i \in Nat /\ ~(i <= -1) /\ i # -1
  BY ListTyped
<1>3. -1 < acl.num
  BY ListTyped
<1>4. ~(MaxAttempts < MaxAttempts)
  BY <1>1
<1> QED
  BY <1>1, <1>2, <1>3, <1>4 DEF OnCourse, UnderWay, Behind

------------------------------------------------------------------------------
(* What a reading leaves of who was told, who has answered, and what is    *)
(* steady.                                                                 *)
IsRaised(s, t) == t \notin Range(alert_tasks) /\ t \in Range(s.tasks)
ToldIn(s)      == [t \in Alerts |-> IF IsRaised(s, t) THEN {} ELSE told[t]]
ConfirmedIn(s) == [t \in Alerts |-> IF IsRaised(s, t) THEN {} ELSE confirmed[t]]
SteadyIn(s)    == [t \in Alerts |-> IsRaised(s, t) \/ steady[t]]

ReadInv(s) ==
  /\ \A t \in Alerts : /\ Stamp(t, s.trigger[t], texts, rtc)
                       /\ ToldIn(s)[t] \subseteq texts
                       /\ ConfirmedIn(s)[t] \subseteq Ids
                       /\ SteadyIn(s)[t] \in BOOLEAN
  /\ \A t \in Range(s.tasks) :
       /\ t \in Alerts /\ UnderWay(t, s.trigger[t])
       /\ SteadyIn(s)[t] => OnCourse(t, s.trigger[t], ToldIn(s)[t], ConfirmedIn(s)[t])
  /\ StampsDiffer(s.trigger)
  /\ \A t \in Alerts : SteadyIn(s)[t] =>
       \A id \in ConfirmedIn(s)[t] : (\E x \in ToldIn(s)[t] : x.to = id) =>
         \E x \in ToldIn(s)[t] \cap heard : x.to = id

LEMMA ReadKeepsInv ==
  ASSUME AlertsInv, NEW reading, NEW s, Follows(s, reading)
  PROVE  ReadInv(s)
<1> DEFINE Same(t)   == s.trigger[t] = trigger[t] /\ ~IsRaised(s, t)
                        /\ (t \in Range(s.tasks) => t \in Range(alert_tasks))
           Up(t)     == IsRaised(s, t) /\ s.trigger[t] = Raised(trigger[t])
           Down(t)   == /\ t \notin Range(s.tasks) /\ ~IsRaised(s, t)
                        /\ s.trigger[t] = [trigger[t] EXCEPT !.text = FALSE]
<1>1. \A t \in Alerts : Same(t) \/ Up(t) \/ Down(t)
  BY DEF Follows, IsRaised
<1>2. \A t \in Alerts : trigger[t] \in Trigger /\ told[t] \subseteq texts /\ confirmed[t] \subseteq Ids
                        /\ steady[t] \in BOOLEAN /\ Stamp(t, trigger[t], texts, rtc)
  BY DEF AlertsInv, TypeOK, Stamped
<1>3. \A t \in Alerts : /\ ToldIn(s)[t] = IF IsRaised(s, t) THEN {} ELSE told[t]
                        /\ ConfirmedIn(s)[t] = IF IsRaised(s, t) THEN {} ELSE confirmed[t]
                        /\ SteadyIn(s)[t] = (IsRaised(s, t) \/ steady[t])
  BY DEF ToldIn, ConfirmedIn, SteadyIn
<1>4. Range(s.tasks) \subseteq Alerts
  BY LenProperties DEF Follows, Range
<1>5. \A t \in Alerts : /\ s.trigger[t].timestamp = trigger[t].timestamp
                        /\ s.trigger[t].expected_acks = trigger[t].expected_acks
  <2> TAKE t \in Alerts
  <2>1. /\ [trigger[t] EXCEPT !.text = FALSE].timestamp = trigger[t].timestamp
        /\ [trigger[t] EXCEPT !.text = FALSE].expected_acks = trigger[t].expected_acks
    BY <1>2 DEF Trigger
  <2> QED
    BY <1>1, <1>2, <2>1, RaisedFields
<1>6. ASSUME NEW t \in Alerts
      PROVE  Stamp(t, s.trigger[t], texts, rtc)
  <2>1. CASE Same(t)
    BY <1>2, <2>1
  <2>2. CASE Up(t)
    <3>1. /\ s.trigger[t].attempt = MaxAttempts /\ s.trigger[t].curr_contact_idx = -1
          /\ s.trigger[t].timestamp = trigger[t].timestamp
          /\ s.trigger[t].expected_acks = trigger[t].expected_acks
      BY <1>2, <2>2, RaisedFields
    <3>2. \A x \in texts : x.ack[2] < MaxAttempts
      BY TextsTyped DEF AlertsInv
    <3> QED
      BY <1>2, <3>1, <3>2 DEF Stamp
  <2>3. CASE Down(t)
    <3>1. /\ s.trigger[t].attempt = trigger[t].attempt
          /\ s.trigger[t].curr_contact_idx = trigger[t].curr_contact_idx
          /\ s.trigger[t].timestamp = trigger[t].timestamp
          /\ s.trigger[t].expected_acks = trigger[t].expected_acks
      BY <1>2, <2>3 DEF Trigger
    <3> QED
      BY <1>2, <3>1 DEF Stamp
  <2> QED
    BY <1>1, <2>1, <2>2, <2>3
<1>7. ASSUME NEW t \in Range(s.tasks)
      PROVE  /\ t \in Alerts /\ UnderWay(t, s.trigger[t])
             /\ SteadyIn(s)[t] => OnCourse(t, s.trigger[t], ToldIn(s)[t], ConfirmedIn(s)[t])
  <2>1. t \in Alerts
    BY <1>4
  <2>2. CASE Same(t)
    <3>1. t \in Range(alert_tasks)
      BY <2>2
    <3> QED
      BY <1>3, <2>1, <2>2, <3>1 DEF AlertsInv, Stamped, Courses
  <2>3. CASE Up(t)
    BY <1>2, <1>3, <2>1, <2>3, RaisedOnCourse DEF AlertsInv
  <2> QED
    BY <1>1, <2>1, <2>2, <2>3
<1>8. StampsDiffer(s.trigger)
  BY <1>5 DEF AlertsInv, Stamped, StampsDiffer
<1>9. \A t \in Alerts : ToldIn(s)[t] \subseteq texts /\ ConfirmedIn(s)[t] \subseteq Ids
                        /\ SteadyIn(s)[t] \in BOOLEAN
  BY <1>2, <1>3
<1>10. ASSUME NEW t \in Alerts, SteadyIn(s)[t]
       PROVE  \A id \in ConfirmedIn(s)[t] : (\E x \in ToldIn(s)[t] : x.to = id) =>
                \E x \in ToldIn(s)[t] \cap heard : x.to = id
  <2>1. CASE IsRaised(s, t)
    <3>1. ConfirmedIn(s)[t] = {}
      BY <1>3, <2>1
    <3> QED
      BY <3>1
  <2>2. CASE ~IsRaised(s, t)
    <3>1. /\ ToldIn(s)[t] = told[t] /\ ConfirmedIn(s)[t] = confirmed[t]
          /\ steady[t]
      BY <1>2, <1>3, <1>10, <2>2
    <3>2. \A id \in confirmed[t] :
            (\E x \in told[t] : x.to = id) => \E x \in told[t] \cap heard : x.to = id
      BY <3>1 DEF AlertsInv, AcksProveReceipt
    <3> QED
      BY <3>1, <3>2
  <2> QED
    BY <2>1, <2>2
<1> QED
  BY <1>6, <1>7, <1>8, <1>9, <1>10 DEF ReadInv

------------------------------------------------------------------------------
(* The steps of loop() have that in common. *)
Turn(s, reading) ==
  /\ AlertsInv /\ Follows(s, reading) /\ ReadInv(s)
  /\ holds' \subseteq Alerts /\ left' \in [Kinds -> Nat]
  /\ UNCHANGED <<acl, now, heard>>
  /\ confirmed' = ConfirmedIn(s) /\ steady' = SteadyIn(s)

(* loop(): a reading, and then a change to one trigger at most. *)
Others(s, t) ==
  /\ rtc' \in Nat /\ rtc <= rtc'
  /\ alert_tasks' \in Seq(Alerts) /\ Len(alert_tasks') <= MaxAlerts
  /\ IsInjective(alert_tasks') /\ Range(alert_tasks') \subseteq Range(s.tasks)
  /\ trigger' \in [Alerts -> Trigger]
  /\ \A u \in Alerts : trigger'[u].text = s.trigger[u].text
  /\ \A u \in Alerts : u # t => trigger'[u] = s.trigger[u] /\ told'[u] = ToldIn(s)[u]
  /\ texts \subseteq texts' /\ texts' \subseteq Text /\ AcksDiffer(texts', rtc')
  /\ told' \in [Alerts -> SUBSET Text]
  /\ \A x \in texts' \ texts, u \in Alerts : u # t => x.ack[1] # s.trigger[u].timestamp

ThisOne(s, t) ==
  /\ told'[t] \subseteq texts'
  /\ \A u \in Alerts : u # t /\ trigger'[t].timestamp = s.trigger[u].timestamp =>
       trigger'[t].timestamp = 0
  /\ Stamp(t, trigger'[t], texts', rtc')
  /\ t \in Range(alert_tasks') =>
       /\ UnderWay(t, trigger'[t])
       /\ SteadyIn(s)[t] => OnCourse(t, trigger'[t], told'[t], ConfirmedIn(s)[t])
  /\ SteadyIn(s)[t] => \A id \in ConfirmedIn(s)[t] : (\E x \in told'[t] : x.to = id) =>
       \E x \in told'[t] \cap heard : x.to = id

LEMMA WorkKeeps ==
  ASSUME NEW reading, NEW s, Turn(s, reading), NEW t,
         Others(s, t), t \in Alerts => ThisOne(s, t)
  PROVE  AlertsInv'
<1>0. /\ AlertsInv /\ Follows(s, reading) /\ ReadInv(s)
      /\ holds' \subseteq Alerts /\ left' \in [Kinds -> Nat]
      /\ UNCHANGED <<acl, now, heard>>
      /\ confirmed' = ConfirmedIn(s) /\ steady' = SteadyIn(s)
  BY DEF Turn
<1>1. /\ \A u \in Alerts : Stamp(u, s.trigger[u], texts, rtc) /\ ToldIn(s)[u] \subseteq texts
                           /\ s.trigger[u] \in Trigger
      /\ \A u \in Range(s.tasks) :
           /\ u \in Alerts /\ UnderWay(u, s.trigger[u]) /\ s.trigger[u].text
           /\ SteadyIn(s)[u] => OnCourse(u, s.trigger[u], ToldIn(s)[u], ConfirmedIn(s)[u])
      /\ StampsDiffer(s.trigger)
  BY <1>0 DEF ReadInv, Follows
<1>2. TypeOK'
  <2>1. /\ acl' \in AccessLists({}) /\ now' \in Time /\ heard' \subseteq texts'
    BY <1>0 DEF AlertsInv, TypeOK, Others
  <2>2. confirmed' \in [Alerts -> SUBSET Ids] /\ steady' \in [Alerts -> BOOLEAN]
    <3>1. \A u \in Alerts : ConfirmedIn(s)[u] \subseteq Ids /\ SteadyIn(s)[u] \in BOOLEAN
      BY <1>0 DEF ReadInv
    <3>2. /\ ConfirmedIn(s) = [u \in Alerts |-> ConfirmedIn(s)[u]]
          /\ SteadyIn(s) = [u \in Alerts |-> SteadyIn(s)[u]]
      BY DEF ConfirmedIn, SteadyIn
    <3> QED
      BY <1>0, <3>1, <3>2, Zenon
  <2> QED
    BY <1>0, <2>1, <2>2 DEF TypeOK, Others
<1>3. AclFine'
  BY <1>0 DEF AlertsInv, AclFine, Distinct, Used
<1>4. Queued'
  BY <1>1 DEF Queued, Others
<1>5. Stamped'
  <2>1. ASSUME NEW u \in Alerts, u # t
        PROVE  Stamp(u, trigger'[u], texts', rtc')
    <3>1. trigger'[u] = s.trigger[u]
      BY <2>1 DEF Others
    <3>2. s.trigger[u].timestamp <= rtc /\ s.trigger[u].timestamp \in Nat /\ rtc \in Nat
      BY <1>0, <1>1, FieldsOf DEF Stamp, AlertsInv, TypeOK
    <3>3. s.trigger[u].timestamp <= rtc'
      BY <3>2 DEF Others
    <3>4. \A x \in texts' : x.ack[1] = s.trigger[u].timestamp => x.ack[2] < s.trigger[u].attempt
      BY <1>1, <2>1 DEF Stamp, Others
    <3> QED
      BY <1>1, <3>1, <3>3, <3>4 DEF Stamp
  <2>2. \A u \in Alerts : Stamp(u, trigger'[u], texts', rtc') /\ told'[u] \subseteq texts'
    <3> TAKE u \in Alerts
    <3>1. CASE u = t
      BY <3>1 DEF ThisOne
    <3>2. CASE u # t
      BY <1>1, <2>1, <3>2 DEF Others
    <3> QED
      BY <3>1, <3>2
  <2>3. \A u \in Range(alert_tasks') : UnderWay(u, trigger'[u])
    BY <1>1 DEF Others, ThisOne
  <2>4. StampsDiffer(trigger')
    <3>1. \A u \in Alerts : u # t => trigger'[u].timestamp = s.trigger[u].timestamp
      BY DEF Others
    <3>2. \A u, v \in Alerts : s.trigger[u].timestamp = s.trigger[v].timestamp =>
             u = v \/ s.trigger[u].timestamp = 0
      BY <1>1 DEF StampsDiffer
    <3>3. \A u, v \in Alerts : trigger'[u].timestamp = trigger'[v].timestamp =>
             u = v \/ trigger'[u].timestamp = 0
      BY <3>1, <3>2 DEF ThisOne
    <3> QED
      BY <3>3 DEF StampsDiffer
  <2> QED
    BY <2>2, <2>3, <2>4 DEF Stamped, StampsDiffer, AcksDiffer, Stamp, UnderWay, Others
<1>6. Courses'
  <2>1. ASSUME NEW u \in Range(alert_tasks'), steady'[u]
        PROVE  OnCourse(u, trigger'[u], told'[u], confirmed'[u])
    BY <1>0, <1>1, <2>1 DEF Others, ThisOne
  <2>3. ASSUME NEW u \in Range(alert_tasks'), steady'[u]
        PROVE  OnCourse(u, trigger[u], told[u], confirmed[u])'
    BY <1>0, <2>1, <2>3 DEF OnCourse, Passed, Behind, MayAnswer, Asked, To, Used, Wants
  <2> QED
    BY <2>3 DEF Courses
<1>7. AcksProveReceipt'
  <2>1. ASSUME NEW u \in Alerts, steady'[u], NEW id \in confirmed'[u], \E x \in told'[u] : x.to = id
        PROVE  \E x \in told'[u] \cap heard' : x.to = id
    <3>1. CASE u = t
      BY <1>0, <2>1, <3>1 DEF ThisOne
    <3>2. CASE u # t
      <4>1. told'[u] = ToldIn(s)[u] /\ heard' = heard /\ steady'[u] = SteadyIn(s)[u]
            /\ confirmed'[u] = ConfirmedIn(s)[u]
        BY <1>0, <3>2 DEF Others
      <4>2. SteadyIn(s)[u] => \A k \in ConfirmedIn(s)[u] : (\E x \in ToldIn(s)[u] : x.to = k) =>
              \E x \in ToldIn(s)[u] \cap heard : x.to = k
        BY <1>0 DEF ReadInv
      <4> QED
        BY <2>1, <4>1, <4>2
    <3> QED
      BY <3>1, <3>2
  <2> QED
    BY <2>1 DEF AcksProveReceipt
<1> QED
  BY <1>2, <1>3, <1>4, <1>5, <1>6, <1>7 DEF AlertsInv

LEMMA NobodyTold ==
  ASSUME NEW s, NoSend(s)
  PROVE  told' = ToldIn(s) /\ texts' = texts
BY DEF NoSend, ToldIn, IsRaised

LEMMA ReadTyped ==
  ASSUME AlertsInv, NEW reading, NEW s, Follows(s, reading)
  PROVE  /\ s.tasks \in Seq(Alerts) /\ Len(s.tasks) <= MaxAlerts /\ IsInjective(s.tasks)
         /\ Len(s.tasks) \in Nat /\ MaxAlerts \in Nat
         /\ Range(s.tasks) \subseteq Alerts
         /\ s.trigger \in [Alerts -> Trigger]
         /\ ToldIn(s) \in [Alerts -> SUBSET Text]
         /\ texts \subseteq Text /\ rtc \in Nat /\ AcksDiffer(texts, rtc)
<1>1. /\ s.tasks \in Seq(Alerts) /\ Len(s.tasks) <= MaxAlerts /\ IsInjective(s.tasks)
      /\ s.trigger \in [Alerts -> Trigger]
  BY DEF Follows
<1>2. Len(s.tasks) \in Nat /\ MaxAlerts \in Nat /\ Range(s.tasks) \subseteq Alerts
  BY <1>1, LenProperties, AlertAssumption DEF Range
<1>3. told \in [Alerts -> SUBSET Text] /\ texts \subseteq Text /\ rtc \in Nat
  BY DEF AlertsInv, TypeOK
<1>4. ToldIn(s) \in [Alerts -> SUBSET Text]
  BY <1>3 DEF ToldIn
<1> QED
  BY <1>1, <1>2, <1>3, <1>4 DEF AlertsInv, Stamped

(* The head of the queue. *)
LEMMA HeadTyped ==
  ASSUME AlertsInv, NEW reading, NEW s, Follows(s, reading), s.tasks # <<>>
  PROVE  /\ Head(s.tasks) \in Range(s.tasks) /\ Head(s.tasks) \in Alerts
         /\ s.trigger[Head(s.tasks)] \in Trigger
         /\ Tail(s.tasks) \in Seq(Alerts) /\ Len(Tail(s.tasks)) <= MaxAlerts
         /\ IsInjective(Tail(s.tasks)) /\ Range(Tail(s.tasks)) = Range(s.tasks) \ {Head(s.tasks)}
<1>1. /\ Head(s.tasks) \in Range(s.tasks) /\ Head(s.tasks) \in Alerts
      /\ s.trigger[Head(s.tasks)] \in Trigger
      /\ Tail(s.tasks) \in Seq(Alerts) /\ Len(Tail(s.tasks)) <= Len(s.tasks)
      /\ IsInjective(Tail(s.tasks)) /\ Range(Tail(s.tasks)) = Range(s.tasks) \ {Head(s.tasks)}
  BY ReadTyped, QueueTail
<1>2. Len(Tail(s.tasks)) \in Nat
  BY <1>1, LenProperties
<1> QED
  BY <1>1, <1>2, ReadTyped

LEMMA IdleKeeps ==
  ASSUME NEW reading, NEW s, Turn(s, reading), Idle(s)
  PROVE  AlertsInv'
<1>1. /\ alert_tasks' = s.tasks /\ trigger' = s.trigger /\ rtc' = rtc
      /\ told' = ToldIn(s) /\ texts' = texts
  BY NobodyTold DEF Idle
<1>2. PICK t : t = 0
  OBVIOUS
<1>3. AlertsInv /\ Follows(s, reading) /\ ReadInv(s)
  BY DEF Turn
<1>4. /\ StampsDiffer(s.trigger)
      /\ \A u \in Alerts : /\ Stamp(u, s.trigger[u], texts, rtc) /\ ToldIn(s)[u] \subseteq texts
                           /\ SteadyIn(s)[u] => \A id \in ConfirmedIn(s)[u] :
                                (\E x \in ToldIn(s)[u] : x.to = id) =>
                                   \E x \in ToldIn(s)[u] \cap heard : x.to = id
      /\ \A u \in Range(s.tasks) : /\ UnderWay(u, s.trigger[u])
                                   /\ SteadyIn(s)[u] => OnCourse(u, s.trigger[u], ToldIn(s)[u], ConfirmedIn(s)[u])
  BY <1>3 DEF ReadInv
<1>5. \A u \in Alerts : u # t /\ s.trigger[t].timestamp = s.trigger[u].timestamp /\ t \in Alerts =>
         s.trigger[t].timestamp = 0
  BY <1>4 DEF StampsDiffer
<1>7. /\ alert_tasks' \in Seq(Alerts) /\ Len(alert_tasks') <= MaxAlerts
      /\ IsInjective(alert_tasks') /\ Range(alert_tasks') \subseteq Range(s.tasks)
      /\ trigger' \in [Alerts -> Trigger]
      /\ rtc' \in Nat /\ rtc <= rtc' /\ texts' \subseteq Text /\ AcksDiffer(texts', rtc')
      /\ told' \in [Alerts -> SUBSET Text]
  BY <1>1, <1>3, ReadTyped
<1>8. /\ \A u \in Alerts : trigger'[u].text = s.trigger[u].text
      /\ \A u \in Alerts : u # t => trigger'[u] = s.trigger[u] /\ told'[u] = ToldIn(s)[u]
      /\ texts \subseteq texts'
      /\ \A x \in texts' \ texts, u \in Alerts : u # t => x.ack[1] # s.trigger[u].timestamp
  BY <1>1
<1>9. t \in Alerts => ThisOne(s, t)
  BY <1>1, <1>4, <1>5 DEF ThisOne
<1>10. Others(s, t)
  BY <1>7, <1>8 DEF Others
<1> QED
  BY <1>9, <1>10, WorkKeeps

(* A step that sends nothing, and changes where the trigger at the head is *)
(* or what it has tried.                                                   *)
LEMMA QuietKeeps ==
  ASSUME NEW reading, NEW s, Turn(s, reading), s.tasks # <<>>, NEW t, t = Head(s.tasks),
         alert_tasks' \in {s.tasks, Tail(s.tasks)}, NoSend(s), rtc' = rtc,
         NEW tr \in Trigger, trigger' = [s.trigger EXCEPT ![t] = tr],
         tr.text = s.trigger[t].text,
         tr.timestamp = s.trigger[t].timestamp,
         tr.expected_acks = s.trigger[t].expected_acks,
         tr.curr_contact_idx >= s.trigger[t].curr_contact_idx,
         tr.attempt = MaxAttempts,
         t \in Range(alert_tasks') /\ SteadyIn(s)[t] =>
           OnCourse(t, tr, ToldIn(s)[t], ConfirmedIn(s)[t])
  PROVE  AlertsInv'
<1>1. AlertsInv /\ Follows(s, reading) /\ ReadInv(s)
  BY DEF Turn
<1>2. told' = ToldIn(s) /\ texts' = texts
  BY NobodyTold
<1>3. /\ t \in Range(s.tasks) /\ t \in Alerts /\ s.trigger[t] \in Trigger
      /\ s.trigger \in [Alerts -> Trigger]
  BY <1>1, HeadTyped, ReadTyped
<1>4. /\ alert_tasks' \in Seq(Alerts) /\ Len(alert_tasks') <= MaxAlerts
      /\ IsInjective(alert_tasks') /\ Range(alert_tasks') \subseteq Range(s.tasks)
  BY <1>1, HeadTyped, ReadTyped
<1>5. /\ trigger' \in [Alerts -> Trigger] /\ trigger'[t] = tr
      /\ \A u \in Alerts : u # t => trigger'[u] = s.trigger[u]
      /\ \A u \in Alerts : trigger'[u].text = s.trigger[u].text
  BY <1>3
<1>6. Stamp(t, tr, texts, rtc)
  <2>1. Stamp(t, s.trigger[t], texts, rtc)
    BY <1>1, <1>3 DEF ReadInv
  <2>2. \A x \in texts : x.ack[2] < MaxAttempts
    BY <1>1, TextsTyped DEF AlertsInv
  <2>3. tr.curr_contact_idx \in Int /\ s.trigger[t].curr_contact_idx \in Int
    BY <1>3, FieldsOf
  <2>4. tr.curr_contact_idx >= -1
    <3>1. s.trigger[t].curr_contact_idx >= -1
      BY <2>1 DEF Stamp
    <3>2. tr.curr_contact_idx >= s.trigger[t].curr_contact_idx
      OBVIOUS
    <3> HIDE DEF Stamp
    <3> QED
      BY <2>3, <3>1, <3>2
  <2> QED
    BY <2>1, <2>2, <2>4 DEF Stamp
<1>7. UnderWay(t, tr)
  <2>1. ~(MaxAttempts < MaxAttempts)
    BY <1>3, FieldsOf
  <2> QED
    BY <2>1 DEF UnderWay
<1>8. \A u \in Alerts : u # t /\ tr.timestamp = s.trigger[u].timestamp => tr.timestamp = 0
  BY <1>1, <1>3 DEF ReadInv, StampsDiffer
<1>9. /\ ToldIn(s)[t] \subseteq texts
      /\ SteadyIn(s)[t] => \A id \in ConfirmedIn(s)[t] : (\E x \in ToldIn(s)[t] : x.to = id) =>
           \E x \in ToldIn(s)[t] \cap heard : x.to = id
  BY <1>1, <1>3 DEF ReadInv
<1>11. /\ rtc' \in Nat /\ rtc <= rtc' /\ texts' \subseteq Text /\ AcksDiffer(texts', rtc')
       /\ told' \in [Alerts -> SUBSET Text]
  BY <1>1, <1>2, ReadTyped
<1>12. t \in Range(alert_tasks') /\ SteadyIn(s)[t] => OnCourse(t, tr, ToldIn(s)[t], ConfirmedIn(s)[t])
  OBVIOUS
<1>13. /\ \A u \in Alerts : u # t => trigger'[u] = s.trigger[u] /\ told'[u] = ToldIn(s)[u]
       /\ texts \subseteq texts'
       /\ \A x \in texts' \ texts, u \in Alerts : u # t => x.ack[1] # s.trigger[u].timestamp
  BY <1>2, <1>5
<1>14. ThisOne(s, t)
  BY <1>2, <1>5, <1>6, <1>7, <1>8, <1>9, <1>12 DEF ThisOne
<1>15. Others(s, t)
  BY <1>4, <1>5, <1>11, <1>13 DEF Others
<1> QED
  BY <1>14, <1>15, WorkKeeps

LEMMA AlertDoneKeeps ==
  ASSUME NEW reading, NEW s, Turn(s, reading), AlertDone(s)
  PROVE  AlertsInv'
<1> DEFINE t  == Head(s.tasks)
           tr == [s.trigger[t] EXCEPT !.curr_contact_idx = @ + 1]
<1>1. AlertsInv /\ Follows(s, reading) /\ ReadInv(s)
  BY DEF Turn
<1>2. /\ s.tasks # <<>> /\ Tried(s.trigger[t]) /\ alert_tasks' = Tail(s.tasks)
      /\ NoSend(s) /\ rtc' = rtc
      /\ trigger' = [s.trigger EXCEPT ![t].curr_contact_idx = @ + 1]
  BY DEF AlertDone, Due
<1>3. t \in Alerts /\ s.trigger[t] \in Trigger /\ t \notin Range(Tail(s.tasks))
      /\ s.trigger \in [Alerts -> Trigger]
  BY <1>1, <1>2, HeadTyped, ReadTyped
<1>4. /\ s.trigger[t].curr_contact_idx \in Int /\ s.trigger[t].attempt = MaxAttempts
      /\ s.trigger[t].curr_contact_idx + 1 \in Int
      /\ s.trigger[t].curr_contact_idx + 1 >= s.trigger[t].curr_contact_idx
  BY <1>2, <1>3, FieldsOf DEF Tried
<1>5. tr \in Trigger
  BY <1>3, <1>4, FieldsTyped
<1>6. /\ tr.text = s.trigger[t].text /\ tr.timestamp = s.trigger[t].timestamp
      /\ tr.expected_acks = s.trigger[t].expected_acks
      /\ tr.curr_contact_idx = s.trigger[t].curr_contact_idx + 1
      /\ tr.attempt = s.trigger[t].attempt
  BY <1>3 DEF Trigger
<1>7. trigger' = [s.trigger EXCEPT ![t] = tr]
  BY <1>2
<1>8. /\ tr.curr_contact_idx >= s.trigger[t].curr_contact_idx /\ tr.attempt = MaxAttempts
      /\ alert_tasks' \in {s.tasks, Tail(s.tasks)} /\ t \notin Range(alert_tasks')
  BY <1>2, <1>3, <1>4, <1>6
<1>9. t \in Range(alert_tasks') /\ SteadyIn(s)[t] => OnCourse(t, tr, ToldIn(s)[t], ConfirmedIn(s)[t])
  BY <1>8
<1>10. /\ s.tasks # <<>> /\ NoSend(s) /\ rtc' = rtc /\ alert_tasks' \in {s.tasks, Tail(s.tasks)}
       /\ tr.attempt = MaxAttempts /\ tr.curr_contact_idx >= s.trigger[t].curr_contact_idx
  BY <1>2, <1>8
<1>11. t = Head(s.tasks)
  OBVIOUS
<1> HIDE DEF t, tr
<1> QED
  BY <1>5, <1>6, <1>7, <1>9, <1>10, <1>11, QuietKeeps

(* The list has become shorter than where the trigger is: not while it has *)
(* only grown.                                                             *)
LEMMA ContactGoneKeeps ==
  ASSUME NEW reading, NEW s, Turn(s, reading), ContactGone(s)
  PROVE  AlertsInv'
<1> DEFINE t  == Head(s.tasks)
           tr == Cancelled(s.trigger[t])
<1>1. AlertsInv /\ Follows(s, reading) /\ ReadInv(s)
  BY DEF Turn
<1>2. /\ s.tasks # <<>> /\ ~Tried(s.trigger[t]) /\ NoMore(s.trigger[t].curr_contact_idx)
      /\ alert_tasks' = s.tasks /\ NoSend(s) /\ rtc' = rtc
      /\ trigger' = [s.trigger EXCEPT ![t] = Cancelled(@)]
  BY DEF ContactGone, Due
<1>3. /\ t \in Range(s.tasks) /\ s.trigger[t] \in Trigger
      /\ s.trigger[t].attempt \in Nat /\ MaxAttempts \in 0 .. MaxAttempts
      /\ s.trigger[t].curr_contact_idx \in Int
  BY <1>1, <1>2, HeadTyped, FieldsOf
<1>4. tr \in Trigger
  BY <1>3, FieldsTyped DEF Cancelled
<1>5. /\ tr.text = s.trigger[t].text /\ tr.timestamp = s.trigger[t].timestamp
      /\ tr.expected_acks = s.trigger[t].expected_acks
      /\ tr.curr_contact_idx = s.trigger[t].curr_contact_idx
      /\ tr.attempt = MaxAttempts
  BY <1>3 DEF Trigger, Cancelled
<1>6. ~SteadyIn(s)[t]
  <2>1. SUFFICES ASSUME SteadyIn(s)[t] PROVE FALSE
    OBVIOUS
  <2>2. OnCourse(t, s.trigger[t], ToldIn(s)[t], ConfirmedIn(s)[t])
    BY <1>1, <1>3, <2>1 DEF ReadInv
  <2>3. s.trigger[t].attempt < MaxAttempts
    BY <1>2, <1>3 DEF Tried
  <2>4. s.trigger[t].curr_contact_idx \in Used(acl)
    BY <2>2, <2>3 DEF OnCourse
  <2> QED
    BY <1>1, <1>2, <2>4, ListTyped DEF NoMore, AlertsInv
<1>7. tr.curr_contact_idx >= s.trigger[t].curr_contact_idx
  BY <1>3, <1>5
<1>8. /\ trigger' = [s.trigger EXCEPT ![t] = tr] /\ t = Head(s.tasks)
      /\ alert_tasks' \in {s.tasks, Tail(s.tasks)}
  BY <1>2
<1> HIDE DEF t, tr
<1> QED
  BY SMTT(30), <1>2, <1>4, <1>5, <1>6, <1>7, <1>8, QuietKeeps

(* The contact behind the one the trigger is at was not told yet. *)
LEMMA NextIsNew ==
  ASSUME AclFine, NEW t, NEW old \in Trigger, NEW tr \in Trigger, NEW tolds, NEW confs,
         OnCourse(t, old, tolds, confs),
         IsNext(tr, old), tr.curr_contact_idx \in Used(acl)
  PROVE  /\ \A x \in tolds : Passed(tr, x.to) /\ x.to # To(tr)
         /\ \A id \in confs : Passed(tr, id) /\ id # To(tr)
         /\ \A i \in Used(acl) : Behind(tr, i) /\ i # tr.curr_contact_idx /\ Wants(i, t) =>
              \E x \in tolds : x.to = acl.clients[i].id
<1>1. /\ old.curr_contact_idx \in Int
      /\ \A i \in Used(acl) : i \in Nat
  BY ListTyped, FieldsOf
<1>2. \A id : Passed(old, id) => Passed(tr, id) /\ id # To(tr)
  <2> TAKE id
  <2> HAVE Passed(old, id)
  <2>1. PICK j \in Used(acl) : Behind(old, j) /\ acl.clients[j].id = id
    BY DEF Passed
  <2>2. Behind(tr, j) /\ j # tr.curr_contact_idx
    BY <1>1, <2>1 DEF Behind, IsNext
  <2>3. acl.clients[j].id # To(tr)
    BY <2>2 DEF To, AclFine, Distinct
  <2> QED
    BY <2>1, <2>2, <2>3 DEF Passed
<1>3. \A i \in Used(acl) : Behind(tr, i) /\ i # tr.curr_contact_idx => Behind(old, i)
  BY <1>1 DEF Behind, IsNext
<1> QED
  BY <1>2, <1>3 DEF OnCourse

LEMMA PassedOverOnCourse ==
  ASSUME AclFine, NEW t, NEW old \in Trigger, NEW tr \in Trigger, NEW tolds, NEW confs,
         OnCourse(t, old, tolds, confs),
         IsNext(tr, old), tr.curr_contact_idx \in Used(acl),
         tr.attempt = MaxAttempts,
         \A i \in Used(acl) : Wants(i, t) => i # tr.curr_contact_idx
  PROVE  OnCourse(t, tr, tolds, confs)
<1>1. /\ \A x \in tolds : Passed(tr, x.to) /\ x.to # To(tr)
      /\ \A id \in confs : Passed(tr, id)
      /\ \A i \in Used(acl) : Behind(tr, i) /\ i # tr.curr_contact_idx /\ Wants(i, t) =>
           \E x \in tolds : x.to = acl.clients[i].id
  BY NextIsNew
<1>2. tr.curr_contact_idx < acl.num
  BY ListTyped
<1>3. ~(tr.attempt < MaxAttempts)
  BY AlertAssumption
<1>4. MayAnswer(tr, tolds)
  BY <1>1 DEF MayAnswer
<1> QED
  BY <1>1, <1>2, <1>3, <1>4 DEF OnCourse

LEMMA PassOverKeeps ==
  ASSUME NEW reading, NEW s, Turn(s, reading), NextContact(s),
         ~Wants(Following(s.trigger[Head(s.tasks)]), Head(s.tasks))
  PROVE  AlertsInv'
<1> DEFINE t   == Head(s.tasks)
           old == s.trigger[t]
           tr  == [s.trigger[t] EXCEPT !.curr_contact_idx = @ + 1]
<1>1. AlertsInv /\ Follows(s, reading) /\ ReadInv(s)
  BY DEF Turn
<1>2. s.tasks # <<>> /\ Tried(old) /\ ~NoMore(Following(old))
  BY DEF NextContact, Due
<1>3. /\ t \in Range(s.tasks) /\ old \in Trigger /\ old.curr_contact_idx \in Int
      /\ old.curr_contact_idx + 1 \in Int
      /\ old.attempt = MaxAttempts
      /\ t \in Alerts
  BY <1>1, <1>2, HeadTyped, FieldsOf DEF Tried
<1>4. tr \in Trigger
  BY <1>3, FieldsTyped
<1>5. /\ tr.text = old.text /\ tr.timestamp = old.timestamp
      /\ tr.expected_acks = old.expected_acks
      /\ tr.curr_contact_idx = old.curr_contact_idx + 1
      /\ tr.attempt = MaxAttempts
  BY <1>3 DEF Trigger
<1>6. ~Wants(tr.curr_contact_idx, t) /\ \A i \in Used(acl) : Wants(i, t) => i # tr.curr_contact_idx
  BY <1>5 DEF Following
<1>7. /\ alert_tasks' = s.tasks /\ NoSend(s) /\ rtc' = rtc
      /\ trigger' = [s.trigger EXCEPT ![t] = tr]
  BY <1>6 DEF NextContact
<1>8. old.curr_contact_idx >= -1 /\ tr.curr_contact_idx \in Used(acl) /\ tr.curr_contact_idx < acl.num
  <2>1. old.curr_contact_idx >= -1
    BY <1>1, <1>3 DEF ReadInv, Stamp
  <2>2. acl.num \in Nat /\ tr.curr_contact_idx < acl.num /\ tr.curr_contact_idx \in Nat
    BY <1>1, <1>2, <1>3, <1>5, <2>1, ListTyped DEF NoMore, Following, AlertsInv
  <2> QED
    BY <1>1, <2>1, <2>2, ListTyped DEF AlertsInv
<1> HIDE DEF tr
<1>9. ASSUME SteadyIn(s)[t]
      PROVE  OnCourse(t, tr, ToldIn(s)[t], ConfirmedIn(s)[t])
  <2>1. OnCourse(t, old, ToldIn(s)[t], ConfirmedIn(s)[t])
    BY <1>1, <1>3, <1>9 DEF ReadInv
  <2>2. AclFine /\ old \in Trigger /\ IsNext(tr, old)
    BY <1>1, <1>3, <1>5 DEF AlertsInv, IsNext
  <2> HIDE DEF t, old
  <2>3. \A tolds, confs : OnCourse(t, old, tolds, confs) => OnCourse(t, tr, tolds, confs)
    BY <1>4, <1>5, <1>6, <1>8, <2>2, PassedOverOnCourse
  <2> QED
    BY <2>1, <2>3
<1>10. t = Head(s.tasks) /\ tr.curr_contact_idx >= s.trigger[t].curr_contact_idx
       /\ alert_tasks' \in {s.tasks, Tail(s.tasks)}
  BY <1>3, <1>5, <1>7
<1> HIDE DEF t
<1> QED
  BY <1>2, <1>4, <1>5, <1>7, <1>9, <1>10, QuietKeeps DEF old

------------------------------------------------------------------------------
(* sendAlert *)
SentTrigger(tr) ==
  [tr EXCEPT !.expected_acks[tr.attempt] = AckOf(tr), !.attempt = @ + 1,
             !.send_expiry = Plus(now, AckExpiry)]
TextOf(t, tr) == [alert |-> t, to |-> To(tr), ack |-> AckOf(tr)]

LEMMA SentFields ==
  ASSUME TypeOK, NEW tr \in Trigger, tr.attempt < MaxAttempts
  PROVE  /\ SentTrigger(tr) \in Trigger
         /\ SentTrigger(tr).text = tr.text
         /\ SentTrigger(tr).timestamp = tr.timestamp
         /\ SentTrigger(tr).curr_contact_idx = tr.curr_contact_idx
         /\ SentTrigger(tr).attempt = tr.attempt + 1
         /\ SentTrigger(tr).expected_acks = [tr.expected_acks EXCEPT ![tr.attempt] = AckOf(tr)]
         /\ AckOf(tr) \in AckIds /\ tr.attempt \in Attempts
         /\ AckOf(tr)[1] = tr.timestamp /\ AckOf(tr)[2] = tr.attempt
<1>1. /\ tr.timestamp \in Nat /\ tr.attempt \in Nat /\ MaxAttempts \in Nat
      /\ tr.expected_acks \in [Attempts -> AckIds \cup {NoAck}]
  BY FieldsOf
<1>2. tr.attempt \in Attempts /\ tr.attempt + 1 \in 0 .. MaxAttempts
  BY <1>1 DEF Attempts
<1>3. AckOf(tr) \in AckIds /\ AckOf(tr)[1] = tr.timestamp /\ AckOf(tr)[2] = tr.attempt
  BY <1>1, <1>2 DEF AckOf, AckIds
<1>4. Plus(now, AckExpiry) \in Time
  <2>1. now \in Time /\ AckExpiry \in Nat /\ Word \in Nat \ {0} /\ Time = 0 .. Word - 1
    BY HalfAssumption, AlertAssumption DEF TypeOK, Time, Word
  <2>2. now \in Nat /\ now + AckExpiry \in Nat
    BY <2>1
  <2> HIDE DEF Word
  <2>3. CASE now + AckExpiry < Word
    BY <2>1, <2>2, <2>3 DEF Plus
  <2>4. CASE ~(now + AckExpiry < Word)
    <3>1. (now + AckExpiry) % Word \in 0 .. Word - 1
      BY <2>1, <2>2
    <3> QED
      BY <2>1, <2>4, <3>1 DEF Plus
  <2> QED
    BY <2>3, <2>4
<1>5. SentTrigger(tr) \in Trigger
  <2> DEFINE a == [tr EXCEPT !.expected_acks[tr.attempt] = AckOf(tr)]
             b == [a EXCEPT !.attempt = tr.attempt + 1]
             e == Plus(now, AckExpiry)
  <2>1. a \in Trigger /\ a.attempt = tr.attempt
    <3>1. a \in Trigger
      BY <1>2, <1>3, FieldsTyped
    <3>2. a.attempt = tr.attempt
      BY DEF Trigger
    <3> QED
      BY <3>1, <3>2
  <2>2. SentTrigger(tr) = [[a EXCEPT !.attempt = a.attempt + 1] EXCEPT !.send_expiry = e]
    BY DEF SentTrigger
  <2> HIDE DEF a, e
  <2>3. b \in Trigger
    BY <1>2, <2>1, FieldsTyped
  <2>4. SentTrigger(tr) = [b EXCEPT !.send_expiry = e]
    BY <2>1, <2>2
  <2> HIDE DEF b
  <2>5. e \in Time
    BY <1>4 DEF e
  <2>6. [b EXCEPT !.send_expiry = e] \in Trigger
    BY <2>3, <2>5, FieldsTyped
  <2> QED
    BY <2>4, <2>6
<1>6. /\ SentTrigger(tr).text = tr.text
      /\ SentTrigger(tr).timestamp = tr.timestamp
      /\ SentTrigger(tr).curr_contact_idx = tr.curr_contact_idx
  BY DEF SentTrigger, Trigger
<1>7. SentTrigger(tr).attempt = tr.attempt + 1
  BY DEF SentTrigger, Trigger
<1>8. SentTrigger(tr).expected_acks = [tr.expected_acks EXCEPT ![tr.attempt] = AckOf(tr)]
  BY DEF SentTrigger, Trigger
<1> QED
  BY <1>2, <1>3, <1>5, <1>6, <1>7, <1>8

(* Where the trigger is when it is sent. *)
Ready(t, tr, tolds, confs) ==
  /\ \A x \in tolds : Passed(tr, x.to)
  /\ \A id \in confs : Passed(tr, id) /\ id # To(tr)
  /\ Asked(tr, tolds)
  /\ \A i \in Used(acl) : Behind(tr, i) /\ i # tr.curr_contact_idx /\ Wants(i, t) =>
       \E x \in tolds : x.to = acl.clients[i].id

LEMMA SentOnCourse ==
  ASSUME AclFine, TypeOK, NEW t, NEW tr \in Trigger, NEW tolds, NEW confs,
         tr.attempt < MaxAttempts, tr.curr_contact_idx \in Used(acl),
         Ready(t, tr, tolds, confs)
  PROVE  OnCourse(t, SentTrigger(tr), tolds \cup {TextOf(t, tr)}, confs)
<1> DEFINE new == SentTrigger(tr)
           x0  == TextOf(t, tr)
<1>1. /\ new.curr_contact_idx = tr.curr_contact_idx
      /\ new.expected_acks = [tr.expected_acks EXCEPT ![tr.attempt] = AckOf(tr)]
      /\ tr.attempt \in Attempts
  BY SentFields
<1>2. new.attempt = tr.attempt + 1
  BY SentFields
<1>3. x0.to = To(tr) /\ x0.ack = AckOf(tr)
  BY DEF TextOf
<1>4. tr.expected_acks \in [Attempts -> AckIds \cup {NoAck}] /\ tr.attempt \in Nat
      /\ tr.curr_contact_idx \in Int
  BY FieldsOf
<1>5. \A i \in Attempts : i < new.attempt => i = tr.attempt \/ i < tr.attempt
  BY <1>2, <1>4 DEF Attempts
<1> HIDE DEF new, x0
<1>6. /\ To(new) = To(tr)
      /\ \A i : Behind(new, i) <=> Behind(tr, i)
      /\ \A id : Passed(new, id) <=> Passed(tr, id)
  BY <1>1 DEF To, Behind, Passed
<1>7. Behind(tr, tr.curr_contact_idx)
  BY <1>4 DEF Behind
<1>8. Passed(tr, To(tr))
  BY <1>7 DEF Passed, To
<1>9. Asked(new, tolds \cup {x0})
  <2> SUFFICES ASSUME NEW i \in Attempts, i < new.attempt
               PROVE  \/ new.expected_acks[i] = NoAck
                      \/ \E x \in tolds \cup {x0} : x.to = To(new) /\ x.ack = new.expected_acks[i]
    BY DEF Asked
  <2>1. CASE i = tr.attempt
    BY <1>1, <1>3, <1>4, <1>6, <2>1
  <2>2. CASE i # tr.attempt
    <3>1. i < tr.attempt
      BY <1>5, <2>2
    <3>2. new.expected_acks[i] = tr.expected_acks[i]
      BY <1>1, <1>4, <2>2
    <3>3. \/ tr.expected_acks[i] = NoAck
          \/ \E x \in tolds : x.to = To(tr) /\ x.ack = tr.expected_acks[i]
      BY <3>1 DEF Ready, Asked
    <3> QED
      BY <1>6, <3>2, <3>3
  <2> QED
    BY <2>1, <2>2
<1>10. /\ \A x \in tolds \cup {x0} : Passed(new, x.to)
       /\ \A id \in confs : Passed(new, id) /\ id # To(new)
  BY <1>3, <1>6, <1>8 DEF Ready
<1>11. \A i \in Used(acl) : Behind(new, i) /\ Wants(i, t) =>
         \E x \in tolds \cup {x0} : x.to = acl.clients[i].id
  <2> SUFFICES ASSUME NEW i \in Used(acl), Behind(new, i), Wants(i, t)
               PROVE  \E x \in tolds \cup {x0} : x.to = acl.clients[i].id
    OBVIOUS
  <2>1. CASE i = tr.curr_contact_idx
    BY <1>3, <2>1 DEF To
  <2>2. CASE i # tr.curr_contact_idx
    BY <1>6, <2>2 DEF Ready
  <2> QED
    BY <2>1, <2>2
<1>12. new.curr_contact_idx \in Used(acl) /\ new.curr_contact_idx < acl.num
  BY <1>1, ListTyped
<1> QED
  BY <1>9, <1>10, <1>11, <1>12 DEF OnCourse, MayAnswer, new, x0

(* What sendAlert is given: a trigger at a contact, with a time stamp and  *)
(* an attempt that no text has.                                            *)
Sending(s, t, tr) ==
  /\ s.tasks # <<>> /\ t = Head(s.tasks) /\ alert_tasks' = s.tasks
  /\ rtc' \in Nat /\ rtc <= rtc'
  /\ tr \in Trigger /\ tr.attempt < MaxAttempts /\ tr.curr_contact_idx \in Used(acl)
  /\ tr.text = s.trigger[t].text
  /\ tr.expected_acks = s.trigger[t].expected_acks
  /\ tr.timestamp \in 1 .. rtc'
  /\ \A x \in texts : x.ack[1] = tr.timestamp => x.ack[2] < tr.attempt
  /\ \A u \in Alerts : u # t => tr.timestamp # s.trigger[u].timestamp
  /\ t \notin High => tr.attempt = MaxAttempts - 1
  /\ SteadyIn(s)[t] => Ready(t, tr, ToldIn(s)[t], ConfirmedIn(s)[t])

LEMMA SentTexts ==
  ASSUME NEW reading, NEW s, Turn(s, reading), NEW t, NEW tr,
         Sending(s, t, tr), sendAlert(s, t, tr)
  PROVE  /\ TextOf(t, tr) \in Text
         /\ texts' = texts \cup {TextOf(t, tr)}
         /\ trigger' = [s.trigger EXCEPT ![t] = SentTrigger(tr)]
         /\ told' \in [Alerts -> SUBSET Text]
         /\ told'[t] = ToldIn(s)[t] \cup {TextOf(t, tr)}
         /\ \A u \in Alerts : u # t => told'[u] = ToldIn(s)[u]
         /\ AcksDiffer(texts', rtc')
<1> DEFINE x0 == TextOf(t, tr)
<1>1. AlertsInv /\ Follows(s, reading)
  BY DEF Turn
<1>2. /\ tr \in Trigger /\ tr.attempt < MaxAttempts /\ tr.curr_contact_idx \in Used(acl)
      /\ tr.timestamp \in 1 .. rtc' /\ rtc' \in Nat /\ rtc <= rtc' /\ rtc \in Nat
      /\ t = Head(s.tasks) /\ s.tasks # <<>>
  BY <1>1, ReadTyped DEF Sending
<1>3. t \in Alerts
  BY <1>1, <1>2, HeadTyped
<1>4. AckOf(tr) \in AckIds /\ AckOf(tr)[1] = tr.timestamp /\ AckOf(tr)[2] = tr.attempt
  BY <1>1, <1>2, SentFields DEF AlertsInv
<1>5. To(tr) \in Ids
  BY <1>1, <1>2, ListTyped DEF AlertsInv, To
<1>6. x0 \in Text /\ x0.ack = AckOf(tr)
  BY <1>3, <1>4, <1>5 DEF TextOf, Text
<1>7. /\ texts' = texts \cup {x0}
      /\ trigger' = [s.trigger EXCEPT ![t] = SentTrigger(tr)]
      /\ told' = [u \in Alerts |-> IF IsRaised(s, u) THEN {x \in {x0} : u = t}
                                   ELSE told[u] \cup {x \in {x0} : u = t}]
  BY DEF sendAlert, SentTrigger, TextOf, To, IsRaised
<1>8. ToldIn(s) \in [Alerts -> SUBSET Text]
  BY <1>1, ReadTyped
<1>9. told'[t] = ToldIn(s)[t] \cup {x0} /\ \A u \in Alerts : u # t => told'[u] = ToldIn(s)[u]
  BY <1>3, <1>7 DEF ToldIn
<1>10. told' \in [Alerts -> SUBSET Text]
  <2>1. \A u \in Alerts : told'[u] \in SUBSET Text
    BY <1>6, <1>8, <1>9
  <2>2. told' = [u \in Alerts |-> told'[u]]
    BY <1>7
  <2> QED
    BY <2>1, <2>2
<1> HIDE DEF x0
<1>11. \A x \in texts : x.ack[1] \in 1 .. rtc'
  <2>1. \A x \in texts : x.ack[1] \in 1 .. rtc
    BY <1>1 DEF AlertsInv, Stamped, AcksDiffer
  <2> QED
    BY <1>2, <2>1
<1>12. \A x \in texts : x.ack # x0.ack
  <2> TAKE x \in texts
  <2>1. x.ack[1] = tr.timestamp => x.ack[2] < tr.attempt
    BY DEF Sending
  <2>2. x.ack[2] \in Nat /\ tr.attempt \in Nat
    BY <1>1, <1>2, TextsTyped, FieldsOf DEF AlertsInv
  <2>3. SUFFICES ASSUME x.ack = x0.ack PROVE FALSE
    OBVIOUS
  <2>4. x.ack[1] = tr.timestamp /\ x.ack[2] = tr.attempt
    BY <1>4, <1>6, <2>3
  <2> QED
    BY <2>1, <2>2, <2>4
<1>13. AcksDiffer(texts', rtc')
  <2>1. x0.ack[1] \in 1 .. rtc'
    BY <1>2, <1>4, <1>6
  <2>2. \A x, y \in texts : x.ack = y.ack => x = y
    BY <1>1 DEF AlertsInv, Stamped, AcksDiffer
  <2> QED
    BY <1>7, <1>11, <1>12, <2>1, <2>2 DEF AcksDiffer
<1> QED
  BY <1>6, <1>7, <1>9, <1>10, <1>13 DEF x0

LEMMA SentKeeps ==
  ASSUME NEW reading, NEW s, Turn(s, reading), NEW t, NEW tr,
         Sending(s, t, tr), sendAlert(s, t, tr)
  PROVE  AlertsInv'
<1> DEFINE x0  == TextOf(t, tr)
           new == SentTrigger(tr)
<1>1. AlertsInv /\ Follows(s, reading) /\ ReadInv(s)
  BY DEF Turn
<1>2. /\ x0 \in Text /\ texts' = texts \cup {x0}
      /\ trigger' = [s.trigger EXCEPT ![t] = new]
      /\ told' \in [Alerts -> SUBSET Text]
      /\ told'[t] = ToldIn(s)[t] \cup {x0}
      /\ \A u \in Alerts : u # t => told'[u] = ToldIn(s)[u]
      /\ AcksDiffer(texts', rtc')
  BY SentTexts
<1>3. /\ tr \in Trigger /\ tr.attempt < MaxAttempts /\ tr.curr_contact_idx \in Used(acl)
      /\ tr.timestamp \in 1 .. rtc' /\ rtc' \in Nat /\ rtc <= rtc' /\ rtc \in Nat
      /\ t = Head(s.tasks) /\ s.tasks # <<>> /\ alert_tasks' = s.tasks
      /\ \A u \in Alerts : u # t => tr.timestamp # s.trigger[u].timestamp
      /\ t \notin High => tr.attempt = MaxAttempts - 1
  BY <1>1, ReadTyped DEF Sending
<1>4. /\ t \in Range(s.tasks) /\ t \in Alerts /\ s.trigger[t] \in Trigger
      /\ s.trigger \in [Alerts -> Trigger]
  BY <1>1, <1>3, HeadTyped, ReadTyped
<1>5. /\ new \in Trigger /\ new.text = tr.text /\ new.timestamp = tr.timestamp
      /\ new.curr_contact_idx = tr.curr_contact_idx
      /\ new.expected_acks = [tr.expected_acks EXCEPT ![tr.attempt] = AckOf(tr)]
      /\ tr.attempt \in Attempts /\ AckOf(tr)[1] = tr.timestamp /\ AckOf(tr)[2] = tr.attempt
  BY <1>1, <1>3, SentFields DEF AlertsInv
<1>6. /\ new.attempt = tr.attempt + 1
      /\ tr.attempt \in Nat /\ MaxAttempts \in Nat /\ tr.timestamp \in Nat
      /\ tr.curr_contact_idx \in Nat
      /\ tr.expected_acks \in [Attempts -> AckIds \cup {NoAck}]
  BY <1>1, <1>3, SentFields, FieldsOf, ListTyped DEF AlertsInv
<1>7. x0.ack = AckOf(tr) /\ x0.to = To(tr)
  BY DEF TextOf
<1> HIDE DEF x0, new
<1>8. /\ trigger' \in [Alerts -> Trigger] /\ trigger'[t] = new
      /\ \A u \in Alerts : u # t => trigger'[u] = s.trigger[u]
      /\ \A u \in Alerts : trigger'[u].text = s.trigger[u].text
  <2>1. tr.text = s.trigger[t].text
    BY DEF Sending
  <2> QED
    BY <1>2, <1>4, <1>5, <2>1
<1>9. Others(s, t)
  <2>1. /\ alert_tasks' \in Seq(Alerts) /\ Len(alert_tasks') <= MaxAlerts
        /\ IsInjective(alert_tasks') /\ Range(alert_tasks') \subseteq Range(s.tasks)
    BY <1>1, <1>3, ReadTyped
  <2>2. texts \subseteq texts' /\ texts' \subseteq Text
    BY <1>1, <1>2, ReadTyped
  <2>3. \A x \in texts' \ texts, u \in Alerts : u # t => x.ack[1] # s.trigger[u].timestamp
    BY <1>2, <1>3, <1>5, <1>7
  <2> QED
    BY <1>2, <1>3, <1>8, <2>1, <2>2, <2>3 DEF Others
<1>10. Stamp(t, new, texts', rtc')
  <2>1. \A x \in texts' : x.ack[1] = new.timestamp => x.ack[2] < new.attempt
    <3> TAKE x \in texts'
    <3>1. CASE x = x0
      BY <1>5, <1>6, <1>7, <3>1
    <3>2. CASE x # x0
      <4>1. x \in texts
        BY <1>2, <3>2
      <4>2. x.ack[1] = tr.timestamp => x.ack[2] < tr.attempt
        BY <4>1 DEF Sending
      <4>3. x.ack[2] \in Nat
        BY <1>1, <4>1, TextsTyped DEF AlertsInv
      <4> QED
        BY <1>5, <1>6, <4>2, <4>3
    <3> QED
      BY <3>1, <3>2
  <2>2. new.timestamp <= rtc' /\ new.curr_contact_idx >= -1
    BY <1>3, <1>5, <1>6
  <2>3. t \notin High => \A i \in Attempts : i < MaxAttempts - 1 => new.expected_acks[i] = NoAck
    <3> SUFFICES ASSUME t \notin High, NEW i \in Attempts, i < MaxAttempts - 1
                 PROVE  new.expected_acks[i] = NoAck
      OBVIOUS
    <3>1. s.trigger[t].expected_acks[i] = NoAck
      BY <1>1, <1>4 DEF ReadInv, Stamp
    <3>2. tr.expected_acks[i] = NoAck
      BY <3>1 DEF Sending
    <3>3. i # tr.attempt
      BY <1>3, <1>6
    <3> QED
      BY <1>5, <1>6, <3>2, <3>3
  <2> QED
    BY <2>1, <2>2, <2>3 DEF Stamp
<1>11. UnderWay(t, new)
  <2>1. t \notin High => ~(new.attempt < MaxAttempts)
    BY <1>3, <1>6
  <2>2. new.timestamp # 0 /\ new.curr_contact_idx >= 0
    BY <1>3, <1>5, <1>6
  <2> QED
    BY <2>1, <2>2 DEF UnderWay
<1>12. ASSUME SteadyIn(s)[t]
       PROVE  /\ OnCourse(t, new, told'[t], ConfirmedIn(s)[t])
              /\ \A id \in ConfirmedIn(s)[t] : (\E x \in told'[t] : x.to = id) =>
                   \E x \in told'[t] \cap heard : x.to = id
  <2>1. Ready(t, tr, ToldIn(s)[t], ConfirmedIn(s)[t])
    BY <1>12 DEF Sending
  <2>2. \A tolds, confs : Ready(t, tr, tolds, confs) => OnCourse(t, new, tolds \cup {x0}, confs)
    BY <1>1, <1>3, SentOnCourse DEF AlertsInv, new, x0
  <2>3. OnCourse(t, new, told'[t], ConfirmedIn(s)[t])
    BY <1>2, <2>1, <2>2
  <2>4. \A id \in ConfirmedIn(s)[t] : id # To(tr)
    BY <2>1 DEF Ready
  <2>5. \A id \in ConfirmedIn(s)[t] : (\E x \in ToldIn(s)[t] : x.to = id) =>
          \E x \in ToldIn(s)[t] \cap heard : x.to = id
    BY <1>1, <1>4, <1>12 DEF ReadInv
  <2> QED
    BY <1>2, <1>7, <2>3, <2>4, <2>5
<1>13. told'[t] \subseteq texts'
  BY <1>1, <1>2, <1>4 DEF ReadInv
<1>14. ThisOne(s, t)
  BY <1>3, <1>5, <1>8, <1>10, <1>11, <1>12, <1>13 DEF ThisOne
<1> QED
  BY <1>9, <1>14, WorkKeeps

(* The next contact, which wants the alert. *)
LEMMA NextSendKeeps ==
  ASSUME NEW reading, NEW s, Turn(s, reading), NextContact(s),
         Wants(Following(s.trigger[Head(s.tasks)]), Head(s.tasks))
  PROVE  AlertsInv'
<1> DEFINE t   == Head(s.tasks)
           old == s.trigger[t]
           at  == [old EXCEPT !.curr_contact_idx = @ + 1]
           n   == IF t \in High THEN 0 ELSE MaxAttempts - 1
           tr  == [at EXCEPT !.attempt = n, !.timestamp = rtc']
<1>1. AlertsInv /\ Follows(s, reading) /\ ReadInv(s)
  BY DEF Turn
<1>2. s.tasks # <<>> /\ Tried(old) /\ ~NoMore(Following(old))
  BY DEF NextContact, Due
<1>3. /\ t \in Range(s.tasks) /\ old \in Trigger /\ old.curr_contact_idx \in Int
      /\ old.curr_contact_idx + 1 \in Int /\ t \in Alerts
  BY <1>1, <1>2, HeadTyped, FieldsOf
<1>4. at \in Trigger /\ at.curr_contact_idx = old.curr_contact_idx + 1
  <2>1. at \in Trigger
    BY <1>3, FieldsTyped
  <2>2. at.curr_contact_idx = old.curr_contact_idx + 1
    BY <1>3 DEF Trigger
  <2> QED
    BY <2>1, <2>2
<1>5. /\ at.text = old.text /\ at.expected_acks = old.expected_acks
  BY <1>3 DEF Trigger
<1>6. Wants(at.curr_contact_idx, t)
  BY <1>4 DEF Following
<1>7. alert_tasks' = s.tasks /\ rtc' = rtc + 1 /\ sendAlert(s, t, tr)
  <2>1. rtc' = rtc + 1 /\ sendAlert(s, t, tr)
    BY <1>6 DEF NextContact
  <2> QED
    BY <2>1 DEF sendAlert
<1>8. rtc \in Nat /\ rtc' \in Nat /\ rtc <= rtc' /\ rtc' \in 1 .. rtc'
  BY <1>1, <1>7, ReadTyped
<1>9. n \in Nat /\ n \in 0 .. MaxAttempts /\ n < MaxAttempts
  BY AlertAssumption
<1> HIDE DEF n
<1>10. tr \in Trigger
  <2> DEFINE a == [at EXCEPT !.attempt = n]
  <2>1. a \in Trigger
    BY <1>4, <1>9, FieldsTyped
  <2>2. tr = [a EXCEPT !.timestamp = rtc']
    OBVIOUS
  <2> HIDE DEF a
  <2>3. [a EXCEPT !.timestamp = rtc'] \in Trigger
    BY <1>8, <2>1, FieldsTyped
  <2> QED
    BY <2>2, <2>3
<1>11. /\ tr.text = old.text /\ tr.expected_acks = old.expected_acks
       /\ tr.curr_contact_idx = old.curr_contact_idx + 1
       /\ tr.attempt = n /\ tr.timestamp = rtc'
  <2> HIDE DEF at
  <2>1. /\ tr.text = at.text /\ tr.expected_acks = at.expected_acks
        /\ tr.curr_contact_idx = at.curr_contact_idx
        /\ tr.attempt = n /\ tr.timestamp = rtc'
    BY <1>4 DEF Trigger
  <2> QED
    BY <1>4, <1>5, <2>1
<1> HIDE DEF tr, at
<1>12. tr.curr_contact_idx \in Used(acl)
  <2>1. old.curr_contact_idx >= -1
    BY <1>1, <1>3 DEF ReadInv, Stamp
  <2>2. acl.num \in Nat /\ tr.curr_contact_idx < acl.num /\ tr.curr_contact_idx \in Nat
    BY <1>1, <1>2, <1>3, <1>11, <2>1, ListTyped DEF NoMore, Following, AlertsInv
  <2> QED
    BY <1>1, <2>2, ListTyped DEF AlertsInv
<1>13. \A x \in texts : x.ack[1] # tr.timestamp
  <2>1. \A x \in texts : x.ack[1] \in 1 .. rtc
    BY <1>1 DEF AlertsInv, Stamped, AcksDiffer
  <2> QED
    BY <1>7, <1>8, <1>11, <2>1
<1>14. \A u \in Alerts : tr.timestamp # s.trigger[u].timestamp
  <2> TAKE u \in Alerts
  <2>1. s.trigger[u].timestamp <= rtc /\ s.trigger[u].timestamp \in Nat
    BY <1>1, ReadTyped, FieldsOf DEF ReadInv, Stamp
  <2> QED
    BY <1>7, <1>8, <1>11, <2>1
<1>15. \A tolds : Asked(tr, tolds)
  <2> SUFFICES ASSUME NEW tolds, NEW i \in Attempts, i < n
               PROVE  tr.expected_acks[i] = NoAck
    BY <1>11 DEF Asked
  <2>1. i \in Nat
    BY DEF Attempts
  <2>2. t \notin High /\ i < MaxAttempts - 1
    BY <2>1 DEF n
  <2>3. Stamp(t, old, texts, rtc)
    BY <1>1, <1>3 DEF ReadInv
  <2> QED
    BY <1>11, <2>2, <2>3 DEF Stamp
<1>16. ASSUME SteadyIn(s)[t]
       PROVE  Ready(t, tr, ToldIn(s)[t], ConfirmedIn(s)[t])
  <2>1. OnCourse(t, old, ToldIn(s)[t], ConfirmedIn(s)[t])
    BY <1>1, <1>3, <1>16 DEF ReadInv
  <2>2. AclFine /\ IsNext(tr, old)
    BY <1>1, <1>11 DEF AlertsInv, IsNext
  <2> HIDE DEF t, old
  <2>3. \A tolds, confs : OnCourse(t, old, tolds, confs) => Ready(t, tr, tolds, confs)
    BY <1>3, <1>10, <1>12, <1>15, <2>2, NextIsNew DEF Ready
  <2> QED
    BY <2>1, <2>3
<1>17. t \notin High => tr.attempt = MaxAttempts - 1
  BY <1>11 DEF n
<1>18. Sending(s, t, tr)
  BY <1>2, <1>7, <1>8, <1>9, <1>10, <1>11, <1>12, <1>13, <1>14, <1>16, <1>17 DEF Sending
<1> HIDE DEF t
<1> QED
  BY <1>7, <1>18, SentKeeps

(* Another attempt: of an alert of high priority. *)
LEMMA NextAttemptKeeps ==
  ASSUME NEW reading, NEW s, Turn(s, reading), NextAttempt(s)
  PROVE  AlertsInv'
<1> DEFINE t  == Head(s.tasks)
           tr == s.trigger[t]
<1>1. AlertsInv /\ Follows(s, reading) /\ ReadInv(s)
  BY DEF Turn
<1>2. /\ s.tasks # <<>> /\ ~Tried(tr) /\ ~NoMore(tr.curr_contact_idx)
      /\ sendAlert(s, t, tr) /\ rtc' = rtc /\ alert_tasks' = s.tasks
  BY DEF NextAttempt, Due, sendAlert
<1>3. t \in Range(s.tasks) /\ t \in Alerts /\ tr \in Trigger /\ rtc \in Nat
  BY <1>1, <1>2, HeadTyped, ReadTyped
<1>4. tr.attempt < MaxAttempts /\ tr.curr_contact_idx \in Int /\ tr.timestamp \in Nat
  BY <1>2, <1>3, FieldsOf DEF Tried
<1>5. t \in High /\ tr.timestamp # 0 /\ tr.curr_contact_idx >= 0
  BY <1>1, <1>3, <1>4 DEF ReadInv, UnderWay
<1>6. Stamp(t, tr, texts, rtc)
  BY <1>1, <1>3 DEF ReadInv
<1>7. tr.curr_contact_idx \in Used(acl)
  <2>1. tr.curr_contact_idx \in Nat /\ tr.curr_contact_idx < acl.num
    BY <1>1, <1>2, <1>4, <1>5, ListTyped DEF NoMore, AlertsInv
  <2> QED
    BY <1>1, <2>1, ListTyped DEF AlertsInv
<1>8. tr.timestamp \in 1 .. rtc' /\ rtc' \in Nat /\ rtc <= rtc'
  <2>1. tr.timestamp <= rtc
    BY <1>6 DEF Stamp
  <2>2. tr.timestamp \in Nat /\ tr.timestamp # 0 /\ rtc \in Nat /\ rtc' = rtc
    BY <1>2, <1>3, <1>4, <1>5
  <2> HIDE DEF t, tr
  <2> QED
    BY <2>1, <2>2
<1>9. \A u \in Alerts : u # t => tr.timestamp # s.trigger[u].timestamp
  BY <1>1, <1>3, <1>5 DEF ReadInv, StampsDiffer
<1>10. ASSUME SteadyIn(s)[t]
       PROVE  Ready(t, tr, ToldIn(s)[t], ConfirmedIn(s)[t])
  <2>1. OnCourse(t, tr, ToldIn(s)[t], ConfirmedIn(s)[t])
    BY <1>1, <1>3, <1>10 DEF ReadInv
  <2> HIDE DEF t, tr
  <2>2. \A tolds, confs : OnCourse(t, tr, tolds, confs) => Ready(t, tr, tolds, confs)
    BY <1>4 DEF OnCourse, Ready
  <2> QED
    BY <2>1, <2>2
<1>11. Sending(s, t, tr)
  BY <1>2, <1>3, <1>4, <1>5, <1>6, <1>7, <1>8, <1>9, <1>10 DEF Sending, Stamp
<1> HIDE DEF t, tr
<1> QED
  BY <1>2, <1>11, SentKeeps

------------------------------------------------------------------------------
(* loop(), with or without a reading. *)
LEMMA TurnKeeps ==
  ASSUME AlertsInv, NEW reading, NEW s, Follows(s, reading), Work(s),
         holds' \subseteq Alerts, left' \in [Kinds -> Nat]
  PROVE  AlertsInv'
<1>1. Turn(s, reading)
  <2>1. \A t \in Alerts : t \in Range(s.tasks) \ Range(alert_tasks) <=> IsRaised(s, t)
    BY DEF IsRaised
  <2>2. /\ confirmed' = [t \in Alerts |-> IF t \in Range(s.tasks) \ Range(alert_tasks)
                                          THEN {} ELSE confirmed[t]]
        /\ steady' = [t \in Alerts |-> t \in Range(s.tasks) \ Range(alert_tasks) \/ steady[t]]
        /\ UNCHANGED <<acl, now, heard>>
    BY DEF Work
  <2>3. confirmed' = ConfirmedIn(s)
    BY <2>1, <2>2 DEF ConfirmedIn
  <2>4. steady' = SteadyIn(s)
    BY <2>1, <2>2, Zenon DEF SteadyIn
  <2>5. ReadInv(s)
    BY ReadKeepsInv
  <2> QED
    BY <2>2, <2>3, <2>4, <2>5 DEF Turn
<1>2. Idle(s) \/ AlertDone(s) \/ NextContact(s) \/ NextAttempt(s) \/ ContactGone(s)
  BY DEF Work
<1> QED
  BY <1>1, <1>2, IdleKeeps, AlertDoneKeeps, PassOverKeeps, NextSendKeeps, NextAttemptKeeps,
     ContactGoneKeeps

LEMMA LoopKeeps ==
  ASSUME AlertsInv, Loop \/ SameReading \/ NewReading
  PROVE  AlertsInv'
<1>1. TypeOK /\ Queued
  BY DEF AlertsInv
<1>2. CASE Loop
  <2>1. Follows(Unread, {})
    BY <1>1, UnreadFollows
  <2>2. Work(Unread) /\ holds' \subseteq Alerts /\ left' \in [Kinds -> Nat]
    BY <1>1, <1>2 DEF Loop, TypeOK
  <2> QED
    BY <2>1, <2>2, TurnKeeps
<1>3. CASE SameReading
  <2>1. Follows(Read(holds), holds)
    BY <1>1, ReadFollows
  <2>2. Work(Read(holds)) /\ holds' \subseteq Alerts /\ left' \in [Kinds -> Nat]
    BY <1>1, <1>3 DEF SameReading, TypeOK
  <2> QED
    BY <2>1, <2>2, TurnKeeps
<1>4. CASE NewReading
  <2>1. PICK reading \in Readings \ {holds} :
          Input("reading") /\ holds' = reading /\ Work(Read(reading))
    BY <1>4 DEF NewReading
  <2>2. Follows(Read(reading), reading)
    BY <1>1, ReadFollows
  <2>3. holds' \subseteq Alerts /\ left' \in [Kinds -> Nat]
    <3>1. holds' \subseteq Alerts
      BY <2>1, AlertAssumption
    <3>2. left' \in [Kinds -> Nat]
      <4>1. left["reading"] > 0 /\ left' = [left EXCEPT !["reading"] = @ - 1]
        BY <2>1 DEF Input
      <4> QED
        BY <1>1, <4>1 DEF TypeOK, Kinds
    <3> QED
      BY <3>1, <3>2
  <2> QED
    BY <2>1, <2>2, <2>3, TurnKeeps
<1> QED
  BY <1>2, <1>3, <1>4

------------------------------------------------------------------------------
(* Contacts, and the clock *)
LEMMA InputKeeps ==
  ASSUME TypeOK, NEW kind \in Kinds, Input(kind)
  PROVE  left' \in [Kinds -> Nat]
<1>1. left \in [Kinds -> Nat] /\ left[kind] > 0 /\ left' = [left EXCEPT ![kind] = left[kind] - 1]
  BY DEF TypeOK, Input
<1>2. left[kind] - 1 \in Nat
  BY <1>1
<1> QED
  BY <1>1, <1>2

LEMMA TextArrivesKeeps ==
  ASSUME AlertsInv, NEW x \in texts, TextArrives(x)
  PROVE  AlertsInv'
<1>1. /\ heard' = heard \cup {x}
      /\ UNCHANGED <<acl, rtc, now, holds, alert_tasks, trigger, texts, told, confirmed, steady>>
  BY DEF TextArrives, clocks, record
<1>2. left' \in [Kinds -> Nat]
  BY InputKeeps DEF TextArrives, AlertsInv, Kinds
<1>3. TypeOK'
  BY <1>1, <1>2 DEF AlertsInv, TypeOK
<1>4. AclFine'
  BY <1>1 DEF AlertsInv, AclFine, Distinct, Used
<1>5. Queued'
  BY <1>1 DEF AlertsInv, Queued
<1>6. Stamped'
  BY <1>1 DEF AlertsInv, Stamped, StampsDiffer, AcksDiffer, Stamp, UnderWay
<1>7. Courses'
  <2>1. ASSUME NEW u \in Range(alert_tasks), steady[u]
        PROVE  OnCourse(u, trigger[u], told[u], confirmed[u])'
    <3>1. OnCourse(u, trigger[u], told[u], confirmed[u])
      BY <2>1 DEF AlertsInv, Courses
    <3> QED
      BY <1>1, <3>1 DEF OnCourse, Passed, Behind, MayAnswer, Asked, To, Used, Wants
  <2> QED
    BY <1>1, <2>1 DEF Courses
<1>8. AcksProveReceipt'
  BY <1>1 DEF AlertsInv, AcksProveReceipt
<1> QED
  BY <1>3, <1>4, <1>5, <1>6, <1>7, <1>8 DEF AlertsInv

LEMMA TickKeeps ==
  ASSUME AlertsInv, Tick
  PROVE  AlertsInv'
<1>1. /\ now' = Plus(now, 1)
      /\ UNCHANGED <<acl, rtc, holds, alert_tasks, trigger, texts, heard, told, confirmed, steady, left>>
  BY DEF Tick, record
<1>2. now' \in Time
  <2>1. now \in Nat /\ now < Word /\ Word \in Nat \ {0} /\ Time = 0 .. Word - 1
    BY HalfAssumption DEF AlertsInv, TypeOK, Time, Word
  <2> HIDE DEF Word
  <2>2. CASE now + 1 < Word
    BY <1>1, <2>1, <2>2 DEF Plus
  <2>3. CASE ~(now + 1 < Word)
    <3>1. (now + 1) % Word \in 0 .. Word - 1
      BY <2>1
    <3> QED
      BY <1>1, <2>1, <2>3, <3>1 DEF Plus
  <2> QED
    BY <2>2, <2>3
<1>3. TypeOK'
  BY <1>1, <1>2 DEF AlertsInv, TypeOK
<1>4. AclFine'
  BY <1>1 DEF AlertsInv, AclFine, Distinct, Used
<1>5. Queued'
  BY <1>1 DEF AlertsInv, Queued
<1>6. Stamped'
  BY <1>1 DEF AlertsInv, Stamped, StampsDiffer, AcksDiffer, Stamp, UnderWay
<1>7. Courses'
  BY <1>1 DEF AlertsInv, Courses, OnCourse, Passed, Behind, MayAnswer, Asked, To, Used, Wants
<1>8. AcksProveReceipt'
  BY <1>1 DEF AlertsInv, AcksProveReceipt
<1> QED
  BY <1>3, <1>4, <1>5, <1>6, <1>7, <1>8 DEF AlertsInv

(* An ACK that counts is that of a text to the contact the trigger is at.  *)
LEMMA AckIsOfItsText ==
  ASSUME AlertsInv, NEW x \in heard, NEW t \in Range(alert_tasks), t \in Alerts, steady[t],
         Matches(trigger[t], x.ack), trigger[t].curr_contact_idx \in Used(acl)
  PROVE  \/ \E y \in told[t] \cap heard : y.to = To(trigger[t])
         \/ \A y \in told[t] : y.to # To(trigger[t])
<1>1. MayAnswer(trigger[t], told[t])
  BY DEF AlertsInv, Courses, OnCourse
<1>2. x \in texts /\ told[t] \subseteq texts
  BY DEF AlertsInv, TypeOK, Stamped
<1>3. CASE Asked(trigger[t], told[t])
  <2>1. PICK i \in Attempts : i < trigger[t].attempt /\ trigger[t].expected_acks[i] = x.ack
    BY DEF Matches
  <2>2. x.ack # NoAck
    BY <1>2, TextsTyped DEF AlertsInv
  <2>3. PICK y \in told[t] : y.to = To(trigger[t]) /\ y.ack = x.ack
    BY <1>3, <2>1, <2>2 DEF Asked
  <2>4. y = x
    BY <1>2, <2>3 DEF AlertsInv, Stamped, AcksDiffer
  <2> QED
    BY <2>3, <2>4
<1> QED
  BY <1>1, <1>3 DEF MayAnswer

LEMMA AckArrivesKeeps ==
  ASSUME AlertsInv, NEW x \in heard, AckArrives(x)
  PROVE  AlertsInv'
<1> DEFINE t   == Head(alert_tasks)
           at  == {acl.clients[i].id : i \in Used(acl) \cap {trigger[t].curr_contact_idx}}
           tr  == [trigger[t] EXCEPT !.attempt = MaxAttempts, !.send_expiry = 0]
<1>0. TypeOK /\ AclFine /\ Queued /\ Stamped /\ Courses /\ AcksProveReceipt
  BY DEF AlertsInv
<1>1. /\ alert_tasks # <<>> /\ Matches(trigger[t], x.ack)
      /\ trigger' = [trigger EXCEPT ![t] = tr]
      /\ confirmed' = [confirmed EXCEPT ![t] = confirmed[t] \cup at]
      /\ UNCHANGED <<acl, rtc, now, holds, alert_tasks, texts, heard, told, steady, left>>
  BY <1>0 DEF AckArrives, clocks, TypeOK
<1>2. t \in Range(alert_tasks) /\ t \in Alerts
  BY <1>0, <1>1, QueueTail, LenProperties DEF TypeOK, Queued, Range
<1>3. trigger[t] \in Trigger /\ confirmed[t] \subseteq Ids /\ at \subseteq Ids
      /\ trigger \in [Alerts -> Trigger] /\ confirmed \in [Alerts -> SUBSET Ids]
  BY <1>0, <1>2, ListTyped DEF TypeOK
<1>4. tr \in Trigger
  <2> DEFINE a == [trigger[t] EXCEPT !.attempt = MaxAttempts]
  <2>1. MaxAttempts \in 0 .. MaxAttempts /\ 0 \in Time
    BY AlertAssumption, HalfAssumption DEF Time, Word
  <2>2. a \in Trigger
    BY <1>3, <2>1, FieldsTyped
  <2>3. tr = [a EXCEPT !.send_expiry = 0]
    OBVIOUS
  <2> HIDE DEF a
  <2>4. [a EXCEPT !.send_expiry = 0] \in Trigger
    BY <2>1, <2>2, FieldsTyped
  <2> QED
    BY <2>3, <2>4
<1>5. /\ tr.text = trigger[t].text /\ tr.timestamp = trigger[t].timestamp
      /\ tr.expected_acks = trigger[t].expected_acks
      /\ tr.curr_contact_idx = trigger[t].curr_contact_idx
      /\ tr.attempt = MaxAttempts
  BY <1>3 DEF Trigger
<1>6. ~(tr.attempt < MaxAttempts)
  BY <1>4, <1>5, FieldsOf
<1> HIDE DEF tr
<1>7. /\ trigger'[t] = tr /\ \A u \in Alerts : u # t => trigger'[u] = trigger[u]
      /\ \A u \in Alerts : trigger'[u].text = trigger[u].text
      /\ \A u \in Alerts : trigger'[u].timestamp = trigger[u].timestamp
      /\ trigger' \in [Alerts -> Trigger]
  BY <1>1, <1>2, <1>3, <1>4, <1>5
<1>8. /\ confirmed'[t] = confirmed[t] \cup at
      /\ \A u \in Alerts : u # t => confirmed'[u] = confirmed[u]
      /\ confirmed' \in [Alerts -> SUBSET Ids]
  BY <1>1, <1>2, <1>3
<1>9. \A id \in at : trigger[t].curr_contact_idx \in Used(acl) /\ id = To(trigger[t])
  BY DEF To
<1> HIDE DEF t, at
<1>10. TypeOK'
  BY <1>0, <1>1, <1>7, <1>8 DEF TypeOK
<1>11. AclFine'
  BY <1>0, <1>1 DEF AclFine, Distinct, Used
<1>12. Range(alert_tasks) \subseteq Alerts
  BY <1>0, LenProperties DEF TypeOK, Range
<1>13. Queued'
  BY <1>0, <1>1, <1>7, <1>12 DEF Queued
<1>14. Stamped'
  <2>1. Stamp(t, tr, texts, rtc)
    <3>1. Stamp(t, trigger[t], texts, rtc)
      BY <1>0, <1>2 DEF Stamped
    <3>2. \A y \in texts : y.ack[2] < MaxAttempts
      BY <1>0, TextsTyped
    <3> QED
      BY <1>5, <3>1, <3>2 DEF Stamp
  <2>2. \A u \in Alerts : Stamp(u, trigger'[u], texts, rtc) /\ told[u] \subseteq texts
    BY <1>0, <1>7, <2>1 DEF Stamped
  <2>3. \A u \in Range(alert_tasks) : UnderWay(u, trigger'[u])
    BY <1>0, <1>6, <1>7, <1>12 DEF Stamped, UnderWay
  <2>4. StampsDiffer(trigger')
    BY <1>0, <1>7 DEF Stamped, StampsDiffer
  <2> QED
    BY <1>0, <1>1, <2>2, <2>3, <2>4 DEF Stamped, StampsDiffer, AcksDiffer, Stamp, UnderWay
<1>15. Courses'
  <2>1. ASSUME NEW u \in Range(alert_tasks), steady[u]
        PROVE  OnCourse(u, trigger'[u], told[u], confirmed'[u])
    <3>1. OnCourse(u, trigger[u], told[u], confirmed[u])
      BY <1>0, <2>1 DEF Courses
    <3>2. CASE u # t
      BY <1>7, <1>8, <1>12, <3>1, <3>2
    <3>3. CASE u = t
      <4>1. /\ To(tr) = To(trigger[t])
            /\ \A i : Behind(tr, i) <=> Behind(trigger[t], i)
            /\ \A id : Passed(tr, id) <=> Passed(trigger[t], id)
        BY <1>5 DEF To, Behind, Passed
      <4>2. tr.curr_contact_idx \in Used(acl) => MayAnswer(tr, told[t])
        BY <1>1, <1>2, <1>5, <2>1, <3>3, <4>1, AckIsOfItsText DEF MayAnswer
      <4>3. \A id \in at : Passed(trigger[t], id)
        <5>1. trigger[t].curr_contact_idx \in Int
          BY <1>3, FieldsOf
        <5>2. Behind(trigger[t], trigger[t].curr_contact_idx)
          BY <5>1 DEF Behind
        <5> QED
          BY <1>9, <5>2 DEF Passed, To
      <4> QED
        BY <1>5, <1>6, <1>7, <1>8, <3>1, <3>3, <4>1, <4>2, <4>3 DEF OnCourse
    <3> QED
      BY <3>2, <3>3
  <2>2. ASSUME NEW u \in Range(alert_tasks), steady[u]
        PROVE  OnCourse(u, trigger[u], told[u], confirmed[u])'
    BY <1>1, <2>1, <2>2 DEF OnCourse, Passed, Behind, MayAnswer, Asked, To, Used, Wants
  <2> QED
    BY <1>1, <2>2 DEF Courses
<1>16. AcksProveReceipt'
  <2>1. ASSUME NEW u \in Alerts, steady[u], NEW id \in confirmed'[u], \E y \in told[u] : y.to = id
        PROVE  \E y \in told[u] \cap heard : y.to = id
    <3>1. CASE id \in confirmed[u]
      BY <1>0, <2>1, <3>1 DEF AcksProveReceipt
    <3>2. CASE id \notin confirmed[u]
      <4>1. u = t /\ id \in at
        BY <1>8, <2>1, <3>2
      <4> QED
        BY <1>1, <1>2, <1>9, <2>1, <4>1, AckIsOfItsText
    <3> QED
      BY <3>1, <3>2
  <2> QED
    BY <1>1, <2>1 DEF AcksProveReceipt
<1> QED
  BY <1>10, <1>11, <1>13, <1>14, <1>15, <1>16 DEF AlertsInv

------------------------------------------------------------------------------
(* Changes of the access list leave the rest of the invariant as it is, as *)
(* long as what is on its way stays on course.                             *)
ListChanges == UNCHANGED <<now, holds, alert_tasks, trigger, texts, heard, told, confirmed>>

LEMMA ListKeeps ==
  ASSUME AlertsInv, ListChanges, rtc' \in Nat, rtc <= rtc', left' \in [Kinds -> Nat],
         AclFine', steady' \in [Alerts -> BOOLEAN],
         \A t \in Alerts : steady'[t] => steady[t],
         \A t \in Range(alert_tasks) : steady'[t] => OnCourse(t, trigger[t], told[t], confirmed[t])'
  PROVE  AlertsInv'
<1>0. TypeOK /\ Queued /\ Stamped /\ AcksProveReceipt
  BY DEF AlertsInv
<1>1. UNCHANGED <<now, holds, alert_tasks, trigger, texts, heard, told, confirmed>>
  BY DEF ListChanges
<1>2. acl' \in AccessLists({})
  BY DEF AclFine, Lists, AccessLists
<1>3. TypeOK'
  BY <1>0, <1>1, <1>2 DEF TypeOK
<1>4. Queued'
  BY <1>0, <1>1 DEF Queued
<1>5. Stamped'
  <2>1. \A t \in Alerts : trigger[t].timestamp \in Nat /\ rtc \in Nat
    BY <1>0, FieldsOf DEF TypeOK
  <2>2. \A t \in Alerts : Stamp(t, trigger[t], texts, rtc') /\ told[t] \subseteq texts
    BY <1>0, <2>1 DEF Stamped, Stamp
  <2>3. AcksDiffer(texts, rtc')
    <3>1. \A x \in texts : x.ack[1] \in 1 .. rtc
      BY <1>0 DEF Stamped, AcksDiffer
    <3>2. \A x \in texts : x.ack[1] \in 1 .. rtc'
      BY <1>0, <3>1 DEF TypeOK
    <3> QED
      BY <1>0, <3>2 DEF Stamped, AcksDiffer
  <2> QED
    BY <1>0, <1>1, <2>2, <2>3 DEF Stamped, StampsDiffer, AcksDiffer, Stamp, UnderWay
<1>6. Courses'
  BY <1>1 DEF Courses
<1>7. AcksProveReceipt'
  BY <1>0, <1>1 DEF AcksProveReceipt
<1> QED
  BY <1>3, <1>4, <1>5, <1>6, <1>7 DEF AlertsInv

(* A list that has only grown. *)
Grown(old, new) ==
  /\ Used(old) \subseteq Used(new)
  /\ old.num \in Nat /\ new.num \in Nat /\ old.num <= new.num
  /\ \A i \in Used(new) : i \in Nat /\ (i < old.num => i \in Used(old))
  /\ \A i \in Used(old) :
       /\ new.clients[i].id = old.clients[i].id
       /\ WantsLo(new.clients[i].permissions) = WantsLo(old.clients[i].permissions)
       /\ WantsHi(new.clients[i].permissions) = WantsHi(old.clients[i].permissions)

LEMMA GrownOnCourse ==
  ASSUME Grown(acl, acl'), UNCHANGED <<trigger, told, confirmed, heard>>,
         NEW t, trigger[t] \in Trigger,
         OnCourse(t, trigger[t], told[t], confirmed[t])
  PROVE  OnCourse(t, trigger[t], told[t], confirmed[t])'
<1> DEFINE n == trigger[t].curr_contact_idx
<1>1. n \in Int /\ n < acl.num
  BY FieldsOf DEF OnCourse
<1>2. /\ Used(acl) \subseteq Used(acl')
      /\ acl.num \in Nat /\ acl'.num \in Nat /\ acl.num <= acl'.num
      /\ \A i \in Used(acl') : i \in Nat /\ (i < acl.num => i \in Used(acl))
      /\ \A i \in Used(acl) : acl'.clients[i].id = acl.clients[i].id
  BY DEF Grown
<1>3. \A i \in Used(acl') : i <= n => i \in Used(acl)
  BY <1>1, <1>2
<1>4. n \in Used(acl') => n \in Used(acl)
  BY <1>1, <1>2
<1>5. n < acl'.num
  BY <1>1, <1>2
<1>6. \A i \in Used(acl) : Wants(i, t)' <=> Wants(i, t)
  BY DEF Grown, Wants
<1>7. \A id : Passed(trigger[t], id) => \E j \in Used(acl') : j <= n /\ acl'.clients[j].id = id
  BY <1>2 DEF Passed, Behind
<1>8. \A x \in told[t] : \E j \in Used(acl') : j <= n /\ acl'.clients[j].id = x.to
  BY <1>7 DEF OnCourse
<1>9. \A id \in confirmed[t] : \E j \in Used(acl') : j <= n /\ acl'.clients[j].id = id
  BY <1>7 DEF OnCourse
<1>10. n \in Used(acl) => acl'.clients[n].id = To(trigger[t])
  BY <1>2 DEF To
<1>11. n \in Used(acl') => MayAnswer(trigger[t], told[t])'
  BY <1>4, <1>10 DEF OnCourse, MayAnswer, Asked, To
<1>12. trigger[t].attempt < MaxAttempts =>
         n \in Used(acl') /\ Asked(trigger[t], told[t])' /\ To(trigger[t])' \notin confirmed[t]
  BY <1>2, <1>10 DEF OnCourse, Asked, To
<1>13. \A i \in Used(acl') : i <= n /\ Wants(i, t)' =>
         \E x \in told[t] : x.to = acl'.clients[i].id
  BY <1>2, <1>3, <1>6 DEF OnCourse, Behind
<1> QED
  BY <1>5, <1>8, <1>9, <1>11, <1>12, <1>13 DEF OnCourse, Passed, Behind, MayAnswer, Asked, To

(* The fields of a contact's entry. *)
LEMMA EntriesTyped ==
  /\ \A e \in ClientInfo({}) : e.last_activity \in Nat /\ e.last_timestamp \in Nat
                               /\ e.permissions \in Permissions
  /\ \A e \in ClientInfo({}), p \in Permissions : [e EXCEPT !.permissions = p] \in ClientInfo({})
  /\ \A e \in ClientInfo({}), n \in Nat : [e EXCEPT !.last_timestamp = n] \in ClientInfo({})
  /\ \A e \in ClientInfo({}), n \in Nat : [e EXCEPT !.last_activity = n] \in ClientInfo({})
  /\ \A e \in ClientInfo({}) : e = [e EXCEPT !.permissions = e.permissions]
  /\ \A id \in Ids, p \in Permissions : NewClient(id, p) \in ClientInfo({})
<1>1. /\ \A e \in ClientInfo({}) : e.last_activity \in Nat /\ e.last_timestamp \in Nat
                                   /\ e.permissions \in Permissions
  BY DEF ClientInfo
<1>2. \A e \in ClientInfo({}), p \in Permissions : [e EXCEPT !.permissions = p] \in ClientInfo({})
  BY DEF ClientInfo
<1>3. \A e \in ClientInfo({}), n \in Nat : [e EXCEPT !.last_timestamp = n] \in ClientInfo({})
  BY DEF ClientInfo
<1>4. \A e \in ClientInfo({}), n \in Nat : [e EXCEPT !.last_activity = n] \in ClientInfo({})
  BY DEF ClientInfo
<1>5. \A e \in ClientInfo({}) : e = [e EXCEPT !.permissions = e.permissions]
  BY DEF ClientInfo
<1>6. \A id \in Ids, p \in Permissions : NewClient(id, p) \in ClientInfo({})
  BY DEF ClientInfo, NewClient
<1> QED
  BY <1>1, <1>2, <1>3, <1>4, <1>5, <1>6

(* An admin wants the alerts it wanted before. *)
LEMMA AdminWantsTheSame ==
  ASSUME NEW p \in Permissions
  PROVE  /\ p - Role(p) + Admin \in Permissions
         /\ WantsLo(p - Role(p) + Admin) = WantsLo(p)
         /\ WantsHi(p - Role(p) + Admin) = WantsHi(p)
         /\ AlertsHi + AlertsLo \in Permissions /\ Guest \in Permissions
<1>1. PICK role \in 0 .. 3, flags \in {0, 64, 128, 192} : p = role + flags
  BY DEF Permissions, Roles, Guest, ReadOnly, ReadWrite, Admin, AlertsLo, AlertsHi
<1>2. p % 4 = role
  BY <1>1
<1>3. p - Role(p) + Admin = 3 + flags
  BY <1>1, <1>2 DEF Role, Admin
<1>4. p \div 64 = flags \div 64 /\ (3 + flags) \div 64 = flags \div 64
  BY <1>1
<1>5. p \div 128 = flags \div 128 /\ (3 + flags) \div 128 = flags \div 128
  BY <1>1
<1>6. 3 + flags \in Permissions
  BY <1>1 DEF Permissions, Roles, Guest, ReadOnly, ReadWrite, Admin, AlertsLo, AlertsHi
<1>7. AlertsHi + AlertsLo \in Permissions /\ Guest \in Permissions
  BY DEF Permissions, Roles, Guest, ReadOnly, ReadWrite, Admin, AlertsLo, AlertsHi
<1> QED
  BY <1>3, <1>4, <1>5, <1>6, <1>7 DEF WantsLo, WantsHi, AlertsLo, AlertsHi

(* The entry of an admin that logs in. *)
LoggedIn(e) == [e EXCEPT !.last_timestamp = @ + 1, !.last_activity = rtc,
                         !.permissions = @ - Role(@) + Admin]

LEMMA LoggedInTyped ==
  ASSUME TypeOK, NEW e \in ClientInfo({})
  PROVE  /\ LoggedIn(e) \in ClientInfo({}) /\ LoggedIn(e).id = e.id
         /\ WantsLo(LoggedIn(e).permissions) = WantsLo(e.permissions)
         /\ WantsHi(LoggedIn(e).permissions) = WantsHi(e.permissions)
<1> DEFINE a == [e EXCEPT !.last_timestamp = e.last_timestamp + 1]
           b == [a EXCEPT !.last_activity = rtc]
           p == e.permissions - Role(e.permissions) + Admin
<1>1. /\ e.last_timestamp \in Nat /\ e.last_timestamp + 1 \in Nat /\ rtc \in Nat
      /\ e.permissions \in Permissions
  BY EntriesTyped DEF TypeOK
<1>2. /\ p \in Permissions /\ WantsLo(p) = WantsLo(e.permissions)
      /\ WantsHi(p) = WantsHi(e.permissions)
  BY <1>1, AdminWantsTheSame
<1>3. a \in ClientInfo({}) /\ a.id = e.id /\ a.permissions = e.permissions
  <2>1. a \in ClientInfo({})
    BY <1>1, EntriesTyped
  <2>2. a.id = e.id /\ a.permissions = e.permissions
    BY DEF ClientInfo
  <2> QED
    BY <2>1, <2>2
<1>4. LoggedIn(e) = [[a EXCEPT !.last_activity = rtc]
                        EXCEPT !.permissions = a.permissions - Role(a.permissions) + Admin]
  BY DEF LoggedIn
<1> HIDE DEF a
<1>5. b \in ClientInfo({}) /\ b.id = e.id
  <2>1. b \in ClientInfo({})
    BY <1>1, <1>3, EntriesTyped
  <2>2. b.id = a.id
    BY <1>3 DEF ClientInfo
  <2> QED
    BY <1>3, <2>1, <2>2
<1>6. LoggedIn(e) = [b EXCEPT !.permissions = p]
  BY <1>3, <1>4
<1> HIDE DEF b, p
<1>7. [b EXCEPT !.permissions = p] \in ClientInfo({})
  BY <1>2, <1>5, EntriesTyped
<1>8. [b EXCEPT !.permissions = p].id = e.id /\ [b EXCEPT !.permissions = p].permissions = p
  BY <1>5 DEF ClientInfo
<1> QED
  BY <1>2, <1>6, <1>7, <1>8

LEMMA LoginKeeps ==
  ASSUME AlertsInv, NEW id \in Ids, Login(id)
  PROVE  AlertsInv'
<1> DEFINE E   == ClientInfo({})
           put == putClient(acl, id, AlertsHi + AlertsLo)
           at  == SlotFor(acl, id)
           e   == LoggedIn(put.clients[at])
           Same == \A i \in Used(acl) : put.clients[i].id = acl.clients[i].id
<1>0. /\ TypeOK /\ acl \in Lists(E) /\ Distinct(acl)
      /\ \A i \in Used(acl) : acl.clients[i].id \in Ids
      /\ steady \in [Alerts -> BOOLEAN] /\ rtc \in Nat
  BY DEF AlertsInv, AclFine, Lists, TypeOK
<1>1. /\ NewClient(id, AlertsHi + AlertsLo) \in E
      /\ \A e1 \in E : e1.last_activity \in Nat
  <2>1. AlertsHi + AlertsLo \in Permissions
    <3>1. Guest + 0 \in Permissions
      BY DEF Permissions, Roles, Guest
    <3> QED
      BY <3>1, AdminWantsTheSame
  <2> QED
    BY <2>1, EntriesTyped
<1>2. /\ put \in Lists(E) /\ at \in Used(put) /\ put.num >= acl.num /\ Distinct(put)
  BY <1>0, <1>1, PutKeeps, PutStaysDistinct
<1>3. /\ \A i \in Slots : i # at => put.clients[i] = acl.clients[i]
      /\ Used(acl) \subseteq Used(put)
      /\ \/ put = acl
         \/ id \notin Members(acl) /\ put.clients[at] = NewClient(id, AlertsHi + AlertsLo)
  BY <1>0, <1>1, PutWritesOne
<1>4. /\ acl' = [put EXCEPT !.clients[at].last_timestamp = @ + 1,
                            !.clients[at].last_activity = rtc,
                            !.clients[at].permissions = @ - Role(@) + Admin]
      /\ steady' = IF Same THEN steady ELSE [t \in Alerts |-> FALSE]
      /\ rtc' = rtc + 1 /\ Input("login")
      /\ UNCHANGED <<now, holds, alert_tasks, trigger, texts, heard, told, confirmed>>
  BY DEF Login
<1>5. /\ put \in [clients: [Slots -> E], num: 0 .. MaxClients]
      /\ \A i \in Used(put) : put.clients[i].id \in Ids
      /\ at \in Slots /\ Used(put) \subseteq Slots /\ Slots \subseteq Nat
      /\ put.num \in Nat /\ acl.num \in Nat
  BY <1>0, <1>2, SlotsAreNumbers DEF Lists
<1> HIDE DEF put, at
<1>6. acl' = [clients |-> [put.clients EXCEPT ![at] = e], num |-> put.num]
  BY <1>4, <1>5 DEF LoggedIn
<1>7. put.clients[at] \in E
  BY <1>5
<1> HIDE DEF E
<1>8. /\ e \in E /\ e.id = put.clients[at].id
      /\ WantsLo(e.permissions) = WantsLo(put.clients[at].permissions)
      /\ WantsHi(e.permissions) = WantsHi(put.clients[at].permissions)
  BY <1>0, <1>7, LoggedInTyped DEF E
<1> HIDE DEF e
<1>9. /\ acl'.num = put.num /\ Used(acl') = Used(put)
      /\ acl'.clients \in [Slots -> E] /\ acl'.clients[at] = e
      /\ \A i \in Slots : i # at => acl'.clients[i] = put.clients[i]
      /\ acl' \in [clients: [Slots -> E], num: 0 .. MaxClients]
  BY <1>5, <1>6, <1>8 DEF Used
<1>10. \A i \in Slots : acl'.clients[i].id = put.clients[i].id
  BY <1>8, <1>9
<1>11. AclFine'
  <2>1. acl' \in Lists(E)
    BY <1>5, <1>9, <1>10 DEF Lists
  <2>2. Distinct(acl')
    BY <1>2, <1>5, <1>9, <1>10 DEF Distinct
  <2> QED
    BY <2>1, <2>2 DEF AclFine, E, ClientInfo, Lists, Distinct
<1>12. ASSUME Same
       PROVE  Grown(acl, acl')
  <2>1. Used(acl) \subseteq Used(acl') /\ acl'.num \in Nat /\ acl.num <= acl'.num
    BY <1>2, <1>3, <1>5, <1>9
  <2>2. \A i \in Used(acl') : i \in Nat /\ (i < acl.num => i \in Used(acl))
    BY <1>5, <1>9 DEF Used
  <2>3. ASSUME NEW i \in Used(acl)
        PROVE  put.clients[i] = acl.clients[i]
    <3>1. i \in Slots /\ acl.clients[i].id \in Members(acl)
      BY DEF Used, Members
    <3>2. CASE i = at
      <4>1. put.clients[at] # NewClient(id, AlertsHi + AlertsLo) \/ id \in Members(acl)
        BY <1>12, <2>3, <3>1, <3>2 DEF NewClient
      <4> QED
        BY <1>3, <3>1, <3>2, <4>1
    <3>3. CASE i # at
      BY <1>3, <3>1, <3>3
    <3> QED
      BY <3>2, <3>3
  <2>4. \A i \in Used(acl) :
          /\ acl'.clients[i].id = acl.clients[i].id
          /\ WantsLo(acl'.clients[i].permissions) = WantsLo(acl.clients[i].permissions)
          /\ WantsHi(acl'.clients[i].permissions) = WantsHi(acl.clients[i].permissions)
    <3> TAKE i \in Used(acl)
    <3>1. i \in Slots /\ put.clients[i] = acl.clients[i]
      BY <2>3 DEF Used
    <3>2. CASE i = at
      BY <1>8, <1>9, <3>1, <3>2
    <3>3. CASE i # at
      BY <1>9, <3>1, <3>3
    <3> QED
      BY <3>2, <3>3
  <2> QED
    BY <1>5, <2>1, <2>2, <2>4 DEF Grown
<1>13. left' \in [Kinds -> Nat]
  BY <1>0, <1>4, InputKeeps DEF Kinds
<1>14. steady' \in [Alerts -> BOOLEAN] /\ \A t \in Alerts : steady'[t] => steady[t] /\ Same
  <2> HIDE DEF Same
  <2>1. CASE Same
    BY <1>0, <1>4, <2>1
  <2>2. CASE ~Same
    BY <1>4, <2>2
  <2> QED
    BY <2>1, <2>2
<1>15. ASSUME NEW t \in Range(alert_tasks), steady'[t]
       PROVE  OnCourse(t, trigger[t], told[t], confirmed[t])'
  <2>1. t \in Alerts
    BY <1>0, LenProperties DEF TypeOK, Range
  <2>2. steady[t] /\ Same
    BY <1>14, <1>15, <2>1
  <2>3. OnCourse(t, trigger[t], told[t], confirmed[t]) /\ trigger[t] \in Trigger
    BY <1>0, <2>1, <2>2 DEF AlertsInv, Courses, TypeOK
  <2>4. Grown(acl, acl')
    BY <1>12, <2>2
  <2> QED
    BY <1>4, <2>3, <2>4, GrownOnCourse
<1>16. rtc' \in Nat /\ rtc <= rtc' /\ ListChanges
  BY <1>0, <1>4 DEF ListChanges
<1> QED
  BY <1>11, <1>13, <1>14, <1>15, <1>16, ListKeeps

LEMMA SetPermKeeps ==
  ASSUME AlertsInv, NEW command \in Commands, SetPerm(command[1], command[2])
  PROVE  AlertsInv'
<1>0. TypeOK /\ acl \in Lists(ClientInfo({})) /\ Distinct(acl) /\ rtc \in Nat
  BY DEF AlertsInv, AclFine, TypeOK
<1>1. command[1] \in SUBSET Ids /\ command[2] \in Permissions
  BY AlertAssumption
<1>2. /\ MayApply(acl, command[1], command[2]) /\ Input("command")
      /\ acl' = applyPermissions(acl, command[1], command[2])
      /\ steady' = [t \in Alerts |-> FALSE]
      /\ rtc' = rtc /\ ListChanges
  BY DEF SetPerm, clocks, ListChanges
<1>3. /\ \A e \in ClientInfo({}) : e.last_activity \in Nat
      /\ \A id \in Ids : NewClient(id, Guest) \in ClientInfo({})
      /\ \A e \in ClientInfo({}) : [e EXCEPT !.permissions = command[2]] \in ClientInfo({})
      /\ \A e \in ClientInfo({}) : e = [e EXCEPT !.permissions = e.permissions]
  <2>1. Guest \in Permissions
    BY <1>1, AdminWantsTheSame
  <2> QED
    BY <1>1, <2>1, EntriesTyped
<1>4. applyPermissions(acl, command[1], command[2]) \in Lists(ClientInfo({}))
  BY <1>0, <1>1, <1>2, <1>3, PermissionsKeep
<1>5. Distinct(applyPermissions(acl, command[1], command[2]))
  BY <1>0, <1>1, <1>2, <1>3, PermissionsStayDistinct
<1>6. AclFine'
  <2>1. acl' \in Lists(ClientInfo({})) /\ Distinct(acl')
    BY <1>2, <1>4, <1>5
  <2> QED
    BY <2>1 DEF AclFine, ClientInfo, Lists, Distinct
<1>7. left' \in [Kinds -> Nat]
  BY <1>0, <1>2, InputKeeps DEF Kinds
<1>8. Range(alert_tasks) \subseteq Alerts
  BY <1>0, LenProperties DEF TypeOK, Range
<1>9. /\ \A t \in Alerts : ~steady'[t]
      /\ steady' \in [Alerts -> BOOLEAN]
  BY <1>2
<1> QED
  BY <1>0, <1>2, <1>6, <1>7, <1>8, <1>9, ListKeeps

------------------------------------------------------------------------------
(* The invariant holds from the first state on. *)
LEMMA InitInv ==
  ASSUME Init
  PROVE  AlertsInv
<1>1. /\ acl = EmptyList /\ rtc = 1 /\ now = 0 /\ holds = {} /\ alert_tasks = <<>>
      /\ trigger = [t \in Alerts |-> Untriggered]
      /\ texts = {} /\ heard = {}
      /\ told = [t \in Alerts |-> {}] /\ confirmed = [t \in Alerts |-> {}]
      /\ steady = [t \in Alerts |-> TRUE] /\ left \in [Kinds -> Nat]
  BY AlertAssumption DEF Init
<1>2. Untriggered \in Trigger
  <2>1. [i \in Attempts |-> NoAck] \in [Attempts -> AckIds \cup {NoAck}]
    OBVIOUS
  <2>2. 0 \in Nat /\ 0 \in Int /\ 0 \in 0 .. MaxAttempts /\ 0 \in Time /\ FALSE \in BOOLEAN
    BY AlertAssumption, HalfAssumption DEF Time, Word
  <2> QED
    BY <2>1, <2>2 DEF Untriggered, Trigger
<1>3. \A t \in Alerts : trigger[t] = Untriggered
  BY <1>1
<1>4. acl \in Lists(ClientInfo({})) /\ Distinct(acl)
  <2>1. NewClient(NoId, Guest) \in ClientInfo({})
    <3>1. Guest \in Permissions
      <4>1. 0 + 0 \in Permissions
        BY DEF Permissions, Roles, Guest
      <4> QED
        BY <4>1 DEF Guest
    <3> QED
      BY <3>1 DEF NewClient, ClientInfo
  <2>2. acl.clients \in [Slots -> ClientInfo({})]
    BY <1>1, <2>1 DEF EmptyList
  <2>3. acl.num = 0 /\ 0 \in 0 .. MaxClients /\ acl = [clients |-> acl.clients, num |-> acl.num]
    BY <1>1, ACLAssumption DEF EmptyList
  <2>4. Used(acl) = {}
    BY <2>3 DEF Used, Slots
  <2> QED
    BY <2>2, <2>3, <2>4 DEF Lists, Distinct
<1>5. Range(alert_tasks) = {}
  BY <1>1 DEF Range
<1>6. alert_tasks \in Seq(Alerts) /\ Len(alert_tasks) <= MaxAlerts
  BY <1>1, EmptySeq, AlertAssumption
<1>7. TypeOK
  <2>1. acl \in AccessLists({}) /\ now \in Time /\ rtc \in Nat
    BY <1>1, <1>4, HalfAssumption DEF Lists, AccessLists, Time, Word
  <2>2. /\ trigger \in [Alerts -> Trigger]
        /\ told \in [Alerts -> SUBSET Text] /\ confirmed \in [Alerts -> SUBSET Ids]
        /\ steady \in [Alerts -> BOOLEAN]
    BY <1>1, <1>2
  <2> QED
    BY <1>1, <1>6, <2>1, <2>2 DEF TypeOK
<1>8. Queued
  BY <1>1, <1>5 DEF Queued, IsInjective
<1>9. Stamped
  <2>1. \A t \in Alerts : /\ trigger[t].timestamp = 0 /\ trigger[t].curr_contact_idx = 0
                          /\ \A i \in Attempts : trigger[t].expected_acks[i] = NoAck
    BY <1>3 DEF Untriggered
  <2> QED
    BY <1>1, <1>5, <2>1 DEF Stamped, Stamp, StampsDiffer, AcksDiffer
<1>10. Courses /\ AcksProveReceipt
  BY <1>1, <1>5 DEF Courses, AcksProveReceipt
<1> QED
  BY <1>4, <1>7, <1>8, <1>9, <1>10 DEF AlertsInv, AclFine

LEMMA NextInv ==
  ASSUME AlertsInv, [Next]_vars
  PROVE  AlertsInv'
<1>1. CASE Loop \/ SameReading \/ NewReading
  BY <1>1, LoopKeeps
<1>2. CASE \E x \in texts : TextArrives(x)
  BY <1>2, TextArrivesKeeps
<1>3. CASE \E x \in heard : AckArrives(x)
  BY <1>3, AckArrivesKeeps
<1>4. CASE \E id \in Ids : Login(id)
  BY <1>4, LoginKeeps
<1>5. CASE \E command \in Commands : SetPerm(command[1], command[2])
  BY <1>5, SetPermKeeps
<1>6. CASE Tick
  BY <1>6, TickKeeps
<1>7. CASE UNCHANGED vars
  <2>1. UNCHANGED <<acl, rtc, now, holds, alert_tasks, trigger, texts, heard, told, confirmed, steady, left>>
    BY <1>7 DEF vars, clocks, record
  <2>2. TypeOK'
    BY <2>1 DEF AlertsInv, TypeOK
  <2>3. AclFine'
    BY <2>1 DEF AlertsInv, AclFine, Distinct, Used
  <2>4. Queued' /\ Stamped'
    BY <2>1 DEF AlertsInv, Queued, Stamped, StampsDiffer, AcksDiffer, Stamp, UnderWay
  <2>5. Courses'
    BY <2>1 DEF AlertsInv, Courses, OnCourse, Passed, Behind, MayAnswer, Asked, To, Used, Wants
  <2>6. AcksProveReceipt'
    BY <2>1 DEF AlertsInv, AcksProveReceipt
  <2> QED
    BY <2>2, <2>3, <2>4, <2>5, <2>6 DEF AlertsInv
<1> QED
  BY <1>1, <1>2, <1>3, <1>4, <1>5, <1>6, <1>7 DEF Next

------------------------------------------------------------------------------
(* Alerts stay where they are in the queue but for the head, and their     *)
(* triggers but for that of the head.                                      *)
LEMMA OnlyTheHead ==
  ASSUME NEW reading, NEW s, Follows(s, reading), Work(s)
  PROVE  /\ \A t \in Alerts : t \notin Range(s.tasks) => trigger'[t] = s.trigger[t]
         /\ alert_tasks' = s.tasks \/ AlertDone(s)
<1>1. s.tasks \in Seq(Alerts) /\ IsInjective(s.tasks) /\ s.trigger \in [Alerts -> Trigger]
  BY DEF Follows
<1>2. s.tasks # <<>> => Head(s.tasks) \in Range(s.tasks)
  BY <1>1, QueueTail
<1>3. CASE Idle(s)
  BY <1>3 DEF Idle
<1>4. CASE AlertDone(s)
  BY <1>1, <1>2, <1>4 DEF AlertDone, Due
<1>5. CASE NextContact(s)
  BY <1>1, <1>2, <1>5 DEF NextContact, sendAlert, Due
<1>6. CASE NextAttempt(s)
  BY <1>1, <1>2, <1>6 DEF NextAttempt, sendAlert, Due
<1>7. CASE ContactGone(s)
  BY <1>1, <1>2, <1>7 DEF ContactGone, Due
<1> QED
  BY <1>3, <1>4, <1>5, <1>6, <1>7 DEF Work

(* An alert leaves the queue because its condition has ended, or after the *)
(* last contact.                                                           *)
LEMMA ThroughIsTold ==
  ASSUME AlertsInv, NEW reading, NEW s, Follows(s, reading), Work(s),
         NEW t \in Alerts, IsThrough(t), steady[t], NEW i \in Used(acl), Wants(i, t)
  PROVE  \E x \in told[t] : x.to = acl.clients[i].id
<1>1. t \in Range(alert_tasks) /\ t \notin Range(alert_tasks') /\ trigger'[t].text
  BY DEF IsThrough
<1>2. trigger[t] \in Trigger
  BY DEF AlertsInv, TypeOK
<1>3. t \in Range(s.tasks)
  <2>1. SUFFICES ASSUME t \notin Range(s.tasks) PROVE FALSE
    OBVIOUS
  <2>2. s.trigger[t] = [trigger[t] EXCEPT !.text = FALSE]
    BY <1>1, <2>1 DEF Follows
  <2>3. ~s.trigger[t].text
    BY <1>2, <2>2 DEF Trigger
  <2>4. trigger'[t] = s.trigger[t]
    BY <2>1, OnlyTheHead
  <2> QED
    BY <1>1, <2>3, <2>4
<1>4. s.trigger[t] = trigger[t]
  BY <1>1, <1>3 DEF Follows
<1>5. AlertDone(s)
  BY <1>1, <1>3, OnlyTheHead
<1>6. t = Head(s.tasks) /\ NoMore(Following(s.trigger[t]))
  <2>1. s.tasks # <<>> /\ alert_tasks' = Tail(s.tasks) /\ NoMore(Following(s.trigger[Head(s.tasks)]))
    BY <1>5 DEF AlertDone, Due
  <2>2. Range(Tail(s.tasks)) = Range(s.tasks) \ {Head(s.tasks)}
    BY <2>1, HeadTyped
  <2>3. t = Head(s.tasks)
    BY <1>1, <1>3, <2>1, <2>2
  <2> QED
    BY <2>1, <2>3
<1>7. OnCourse(t, trigger[t], told[t], confirmed[t])
  BY <1>1 DEF AlertsInv, Courses
<1>8. Behind(trigger[t], i)
  <2>1. trigger[t].curr_contact_idx \in Int
    BY <1>2, FieldsOf
  <2>2. i \in Nat /\ i < acl.num /\ acl.num \in Nat
    BY ListTyped DEF AlertsInv
  <2>3. trigger[t].curr_contact_idx + 1 >= acl.num
    BY <1>4, <1>6 DEF NoMore, Following
  <2> QED
    BY <2>1, <2>2, <2>3 DEF Behind
<1> QED
  BY <1>7, <1>8 DEF OnCourse

------------------------------------------------------------------------------
(* The queue of alerts stays within its array, no attempt goes beyond the  *)
(* ACKs expected, and the trigger's place is a number loop() can compare,  *)
(* whatever is raised, called off, logged in or deleted in between         *)
(* (alertIf, loop(), sendAlert).                                           *)
THEOREM TypeCorrect == Spec => []TypeOK
<1>1. Init => AlertsInv
  BY InitInv
<1>2. AlertsInv /\ [Next]_vars => AlertsInv'
  BY NextInv
<1>3. AlertsInv => TypeOK
  BY DEF AlertsInv
<1> QED
  BY <1>1, <1>2, <1>3, PTL DEF Spec

(* An ACK is taken for a contact only if that contact has received a text  *)
(* of the alert, for any number of alerts, contacts and attempts, however  *)
(* late ACKs are and however often they come (onAckRecv, sendAlert).       *)
THEOREM AcksAreProof == Spec => []AcksProveReceipt
<1>1. Init => AlertsInv
  BY InitInv
<1>2. AlertsInv /\ [Next]_vars => AlertsInv'
  BY NextInv
<1>3. AlertsInv => AcksProveReceipt
  BY DEF AlertsInv
<1> QED
  BY <1>1, <1>2, <1>3, PTL DEF Spec

(* An alert that leaves the queue while its condition lasts was sent to    *)
(* every contact that wants it, for a list and a queue of any length, as   *)
(* long as no contact was removed or replaced under way (loop(),           *)
(* putClient).                                                             *)
THEOREM AlertsReachAll == Spec => EveryoneIsTold
<1>1. Init => AlertsInv
  BY InitInv
<1>2. AlertsInv /\ [Next]_vars => AlertsInv'
  BY NextInv
<1> DEFINE AllTold ==
      \A t \in Alerts : IsThrough(t) /\ steady[t] =>
        \A i \in Used(acl) : Wants(i, t) => \E x \in told[t] : x.to = acl.clients[i].id
<1>3. AlertsInv /\ [Next]_vars => [AllTold]_vars
  <2> SUFFICES ASSUME AlertsInv, Next, NEW t \in Alerts, IsThrough(t), steady[t],
                      NEW i \in Used(acl), Wants(i, t)
               PROVE  \E x \in told[t] : x.to = acl.clients[i].id
    OBVIOUS
  <2>0. TypeOK /\ Queued
    BY DEF AlertsInv
  <2>1. CASE Loop
    <3>1. Follows(Unread, {}) /\ Work(Unread)
      BY <2>0, <2>1, UnreadFollows DEF Loop
    <3> QED
      BY <3>1, ThroughIsTold
  <2>2. CASE SameReading
    <3>1. Follows(Read(holds), holds) /\ Work(Read(holds))
      BY <2>0, <2>2, ReadFollows DEF SameReading
    <3> QED
      BY <3>1, ThroughIsTold
  <2>3. CASE NewReading
    <3>1. PICK reading : Work(Read(reading))
      BY <2>3 DEF NewReading
    <3>2. Follows(Read(reading), reading)
      BY <2>0, ReadFollows
    <3> QED
      BY <3>1, <3>2, ThroughIsTold
  <2>4. CASE \/ \E x \in texts : TextArrives(x)
             \/ \E x \in heard : AckArrives(x)
             \/ \E id \in Ids : Login(id)
             \/ \E command \in Commands : SetPerm(command[1], command[2])
             \/ Tick
    <3>1. alert_tasks' = alert_tasks
      BY <2>4 DEF TextArrives, AckArrives, Login, SetPerm, Tick
    <3> QED
      BY <3>1 DEF IsThrough
  <2> QED
    BY <2>1, <2>2, <2>3, <2>4 DEF Next
<1> QED
  BY <1>1, <1>2, <1>3, PTL DEF Spec, EveryoneIsTold
=============================================================================
