---------------------------- MODULE SensorAlerts ----------------------------
(***************************************************************************)
(* The alerts of a sensor (simple_sensor/SensorMesh.cpp): conditions that  *)
(* are read again and again, a queue of the alerts they raise, and the     *)
(* head of the queue told to one contact of the access list after another, *)
(* up to four times each, until its ACK comes.                             *)
(*                                                                         *)
(* Texts and ACKs are never used up: one that does not arrive is lost, one *)
(* that arrives again is a duplicate, and either may be late.              *)
(***************************************************************************)
EXTENDS Millis, ClientACL, SequencesExt

CONSTANTS
  Order,        \* the alerts, in the order onSensorDataRead() asks for them
  High,         \* those of high priority
  MaxAlerts,    \* MAX_CONCURRENT_ALERTS
  MaxAttempts,  \* 4
  AckExpiry,    \* ALERT_ACK_EXPIRY_MILLIS
  Readings,     \* what the sensors may say: which conditions hold
  Commands,     \* setperm commands: <<set of keys, permissions>>
  Budgets       \* bound: how often each kind of event may happen, in each scenario

Alerts == Range(Order)

(* Readings that differ from the last one, texts that get through, logins, *)
(* commands.                                                               *)
Kinds == {"reading", "hear", "login", "command"}

ASSUME AlertAssumption ==
  /\ Order \in Seq(Range(Order)) /\ High \subseteq Alerts
  /\ MaxAlerts \in Nat \ {0} /\ MaxAttempts \in Nat \ {0}
  /\ NoAck \notin Nat \X (0 .. MaxAttempts - 1)
  /\ AckExpiry \in 1 .. Half - 1
  /\ Readings \subseteq SUBSET Alerts
  /\ Commands \subseteq (SUBSET Ids) \X Permissions
  /\ Budgets \subseteq [Kinds -> Nat]

VARIABLES
  acl, rtc, now,
  holds,        \* the last reading
  alert_tasks,  \* a queue of alerts
  trigger,      \* the Trigger of each alert
  texts,        \* those sent
  heard,        \* those received, and acknowledged
  told,         \* texts sent for an alert since it was raised
  confirmed,    \* contacts an ACK was taken for, since then
  steady,       \* whether the list of contacts has only grown, since then
  left          \* of the budget

clocks == <<rtc, now>>
record == <<told, confirmed, steady>>
vars   == <<acl, clocks, holds, alert_tasks, trigger, texts, heard, record, left>>

Attempts == 0 .. MaxAttempts - 1

(* What an ACK is a hash of: the time stamp, which no two texts to different *)
(* contacts share, and the attempt.                                        *)
AckIds  == Nat \X Attempts
Trigger == [text: BOOLEAN, timestamp: Nat, expected_acks: [Attempts -> AckIds \cup {NoAck}],
            curr_contact_idx: Int, attempt: 0 .. MaxAttempts, send_expiry: Time]
Text    == [alert: Alerts, to: Ids, ack: AckIds]

Untriggered ==
  [text |-> FALSE, timestamp |-> 0, expected_acks |-> [i \in Attempts |-> NoAck],
   curr_contact_idx |-> 0, attempt |-> 0, send_expiry |-> 0]

Init ==
  /\ acl = EmptyList /\ rtc = 1 /\ now = 0
  /\ holds = {} /\ alert_tasks = <<>>
  /\ trigger = [t \in Alerts |-> Untriggered]
  /\ texts = {} /\ heard = {}
  /\ told = [t \in Alerts |-> {}] /\ confirmed = [t \in Alerts |-> {}]
  /\ steady = [t \in Alerts |-> TRUE]
  /\ left \in Budgets

Input(kind) == left[kind] > 0 /\ left' = [left EXCEPT ![kind] = @ - 1]

-----------------------------------------------------------------------------
(* alertIf: an alert is raised if the queue has room, and called off when  *)
(* its condition ends.                                                     *)
Raised(old) ==
  [old EXCEPT !.text = TRUE, !.send_expiry = 0, !.attempt = MaxAttempts,
              !.curr_contact_idx = -1]

(* The mutant takes one too many. *)
RoomForOneMore(s) == Len(s.tasks) <= MaxAlerts
HasRoom(s)        == Len(s.tasks) < MaxAlerts

alertIf(s, t, condition) ==
  IF condition /\ ~s.trigger[t].text /\ HasRoom(s)
  THEN [tasks |-> Append(s.tasks, t), trigger |-> [s.trigger EXCEPT ![t] = Raised(@)]]
  ELSE IF ~condition /\ s.trigger[t].text
  THEN [tasks |-> RemoveFirst(s.tasks, t), trigger |-> [s.trigger EXCEPT ![t].text = FALSE]]
  ELSE s

Unread == [tasks |-> alert_tasks, trigger |-> trigger]

Read(reading) ==
  LET after[k \in 0 .. Len(Order)] ==
        IF k = 0 THEN Unread ELSE alertIf(after[k - 1], Order[k], Order[k] \in reading)
  IN  after[Len(Order)]

-----------------------------------------------------------------------------
(* loop(): the head of the queue, if its time has come. *)
Due(s) == s.tasks # <<>> /\ HasPassed(now, s.trigger[Head(s.tasks)].send_expiry)

Wants(i, t) ==
  IF t \in High THEN WantsHi(acl.clients[i].permissions) ELSE WantsLo(acl.clients[i].permissions)

(* sendAlert, to the contact the trigger is at. *)
AckOf(tr) == <<tr.timestamp, tr.attempt>>

sendAlert(s, t, tr) ==
  LET text == [alert |-> t, to |-> acl.clients[tr.curr_contact_idx].id, ack |-> AckOf(tr)]
  IN  /\ trigger' = [s.trigger EXCEPT ![t] =
           [tr EXCEPT !.expected_acks[tr.attempt] = AckOf(tr), !.attempt = @ + 1,
                      !.send_expiry = Plus(now, AckExpiry)]]
      /\ texts' = texts \cup {text}
      /\ told' = [t1 \in Alerts |-> IF t1 \notin Range(alert_tasks) /\ t1 \in Range(s.tasks)
                                    THEN {x \in {text} : t1 = t}
                                    ELSE told[t1] \cup {x \in {text} : t1 = t}]
      /\ alert_tasks' = s.tasks

(* Whoever was told before an alert was raised does not count. *)
NoSend(s) ==
  /\ told' = [t \in Alerts |-> IF t \notin Range(alert_tasks) /\ t \in Range(s.tasks)
                               THEN {} ELSE told[t]]
  /\ UNCHANGED texts

(* A mutant: the last contact is taken for none. *)
NoneButLast(i) == i + 1 >= acl.num
NoMore(i)      == i >= acl.num

Tried(tr) == tr.attempt >= MaxAttempts

Following(tr) == tr.curr_contact_idx + 1

Idle(s) ==
  /\ ~Due(s)
  /\ alert_tasks' = s.tasks /\ trigger' = s.trigger /\ NoSend(s) /\ UNCHANGED rtc

AlertDone(s) ==
  LET t == Head(s.tasks)
  IN  /\ Due(s) /\ Tried(s.trigger[t]) /\ NoMore(Following(s.trigger[t]))
      /\ alert_tasks' = Tail(s.tasks)
      /\ trigger' = [s.trigger EXCEPT ![t].curr_contact_idx = @ + 1]
      /\ NoSend(s) /\ UNCHANGED rtc

(* A contact that wants no such alerts is passed over. *)
NextContact(s) ==
  LET t  == Head(s.tasks)
      tr == [s.trigger[t] EXCEPT !.curr_contact_idx = @ + 1]
  IN  /\ Due(s) /\ Tried(s.trigger[t]) /\ ~NoMore(Following(s.trigger[t]))
      /\ IF Wants(tr.curr_contact_idx, t)
         THEN /\ rtc' = rtc + 1
              /\ sendAlert(s, t, [tr EXCEPT !.attempt = IF t \in High THEN 0 ELSE MaxAttempts - 1,
                                            !.timestamp = rtc'])
         ELSE /\ trigger' = [s.trigger EXCEPT ![t] = tr]
              /\ alert_tasks' = s.tasks /\ NoSend(s) /\ UNCHANGED rtc

NextAttempt(s) ==
  LET t == Head(s.tasks)
  IN  /\ Due(s) /\ ~Tried(s.trigger[t]) /\ ~NoMore(s.trigger[t].curr_contact_idx)
      /\ sendAlert(s, t, s.trigger[t])
      /\ UNCHANGED rtc

(* The list has become shorter.  The mutant waits for it to grow. *)
WaitForMore(tr) == tr
Cancelled(tr)   == [tr EXCEPT !.attempt = MaxAttempts]

ContactGone(s) ==
  LET t == Head(s.tasks)
  IN  /\ Due(s) /\ ~Tried(s.trigger[t]) /\ NoMore(s.trigger[t].curr_contact_idx)
      /\ trigger' = [s.trigger EXCEPT ![t] = Cancelled(@)]
      /\ alert_tasks' = s.tasks /\ NoSend(s) /\ UNCHANGED rtc

Work(s) ==
  /\ Idle(s) \/ AlertDone(s) \/ NextContact(s) \/ NextAttempt(s) \/ ContactGone(s)
  /\ LET raised == Range(s.tasks) \ Range(alert_tasks)
     IN  /\ confirmed' = [t \in Alerts |-> IF t \in raised THEN {} ELSE confirmed[t]]
         /\ steady'    = [t \in Alerts |-> t \in raised \/ steady[t]]
  /\ UNCHANGED <<acl, now, heard>>

(* Sensors are read once a minute. *)
Loop        == Work(Unread) /\ UNCHANGED <<holds, left>>
SameReading == (\E s \in {Read(holds)} : Work(s)) /\ UNCHANGED <<holds, left>>
NewReading  ==
  \E reading \in Readings \ {holds} :
    /\ Input("reading")
    /\ holds' = reading
    /\ \E s \in {Read(reading)} : Work(s)

-----------------------------------------------------------------------------
(* Contacts *)

TextArrives(x) ==
  /\ x \notin heard /\ Input("hear")
  /\ heard' = heard \cup {x}
  /\ UNCHANGED <<acl, clocks, holds, alert_tasks, trigger, texts, record>>

(* onAckRecv: any of the attempts made counts.  The mutant compares with   *)
(* all four.                                                               *)
MatchesAny(tr, ack) == \E i \in Attempts : tr.expected_acks[i] = ack
Matches(tr, ack)    == \E i \in Attempts : i < tr.attempt /\ tr.expected_acks[i] = ack

AckArrives(x) ==
  /\ alert_tasks # <<>>
  /\ LET t == Head(alert_tasks)
     IN  /\ Matches(trigger[t], x.ack)
         /\ trigger' = [trigger EXCEPT ![t].attempt = MaxAttempts, ![t].send_expiry = 0]
         /\ confirmed' = [confirmed EXCEPT ![t] =
              @ \cup {acl.clients[i].id : i \in Used(acl) \cap {trigger[t].curr_contact_idx}}]
  /\ UNCHANGED <<acl, clocks, holds, alert_tasks, texts, heard, told, steady, left>>

(* handleLoginReq with the password of the admins, not heard before. *)
Login(id) ==
  /\ Input("login")
  /\ LET put == putClient(acl, id, AlertsHi + AlertsLo)
         at  == SlotFor(acl, id)
     IN  /\ acl' = [put EXCEPT !.clients[at].last_timestamp = @ + 1,
                               !.clients[at].last_activity = rtc,
                               !.clients[at].permissions = @ - Role(@) + Admin]
         /\ steady' = IF \A i \in Used(acl) : put.clients[i].id = acl.clients[i].id
                      THEN steady ELSE [t \in Alerts |-> FALSE]
  /\ rtc' = rtc + 1
  /\ UNCHANGED <<now, holds, alert_tasks, trigger, texts, heard, told, confirmed>>

(* setperm, from the console or an admin. *)
SetPerm(key, perms) ==
  /\ Input("command")
  /\ MayApply(acl, key, perms)
  /\ acl' = applyPermissions(acl, key, perms)
  /\ steady' = [t \in Alerts |-> FALSE]
  /\ UNCHANGED <<clocks, holds, alert_tasks, trigger, texts, heard, told, confirmed>>

(* loop() runs more than once in a millisecond. *)
Tick ==
  /\ ~Due(Unread)
  /\ now' = Plus(now, 1)
  /\ UNCHANGED <<acl, rtc, holds, alert_tasks, trigger, texts, heard, record, left>>

Next ==
  \/ Loop \/ SameReading \/ NewReading
  \/ \E x \in texts : TextArrives(x)
  \/ \E x \in heard : AckArrives(x)
  \/ \E id \in Ids : Login(id)
  \/ \E command \in Commands : SetPerm(command[1], command[2])
  \/ Tick

Spec == Init /\ [][Next]_vars

(* loop() is called for ever, the clock goes on, and every minute sensors  *)
(* are read.                                                               *)
Fairness == WF_vars(Loop) /\ WF_vars(SameReading) /\ WF_vars(Tick)
FairSpec == Spec /\ Fairness

-----------------------------------------------------------------------------
(* Properties *)

(* Types: above all, the attempt stays within expected_acks (loop(),       *)
(* sendAlert), and the queue within its array (alertIf).                   *)
TypeOK ==
  /\ acl \in AccessLists({}) /\ rtc \in Nat /\ now \in Time
  /\ holds \subseteq Alerts
  /\ alert_tasks \in Seq(Alerts) /\ Len(alert_tasks) <= MaxAlerts
  /\ trigger \in [Alerts -> Trigger]
  /\ texts \subseteq Text /\ heard \subseteq texts
  /\ told \in [Alerts -> SUBSET Text] /\ confirmed \in [Alerts -> SUBSET Ids]
  /\ steady \in [Alerts -> BOOLEAN]
  /\ left \in [Kinds -> Nat]

(* An alert that has been through the list of contacts was sent to each of *)
(* them that wants it, with those that came while it was under way, unless *)
(* a contact was removed or changed in the meantime (loop(), putClient).   *)
IsThrough(t) == t \in Range(alert_tasks) /\ t \notin Range(alert_tasks') /\ trigger'[t].text

EveryoneIsTold ==
  [][\A t \in Alerts : IsThrough(t) /\ steady[t] =>
       \A i \in Used(acl) : Wants(i, t) => \E x \in told[t] : x.to = acl.clients[i].id]_vars

(* An ACK taken for a contact is that of a text the contact received since *)
(* the alert was raised, however late or how often ACKs arrive, and of     *)
(* whatever alert or contact (onAckRecv, sendAlert).                       *)
AcksProveReceipt ==
  \A t \in Alerts : steady[t] =>
    \A id \in confirmed[t] :
      (\E x \in told[t] : x.to = id) => \E x \in told[t] \cap heard : x.to = id

(* A condition that lasts is told to all contacts and done with, whether   *)
(* they answer or not, come or go, and however full the queue: unless it   *)
(* ends before (loop(), alertIf).                                          *)
AlertsGetAround ==
  \A t \in Alerts : t \in holds ~> t \notin holds \/ (trigger[t].text /\ t \notin Range(alert_tasks))
=============================================================================
