---------------------------- MODULE CompanionLink ----------------------------
(***************************************************************************)
(* A companion radio and its app over Bluetooth: the queue of messages for *)
(* an app that is away (companion_radio/MyMesh.cpp), the listing of the    *)
(* contacts, and the two frame queues of esp32/SerialBLEInterface.cpp.     *)
(*                                                                         *)
(* The main loop runs checkSerialInterface() again and again; pc cuts it   *)
(* where callbacks of the Bluetooth task can come in between and matter:   *)
(* before the receive queue is moved up, and between the look at the       *)
(* number of connections and what follows from it.                         *)
(*                                                                         *)
(* The app is not part of the sources.  It is taken to send one command at *)
(* a time, to fetch messages when it connects and when it is told of one,  *)
(* and to ask for the contacts changed since the time it was told last.    *)
(***************************************************************************)
EXTENDS Naturals, Sequences, FiniteSets, SequencesExt

CONSTANTS
  FrameQueueSize,    \* FRAME_QUEUE_SIZE
  OfflineQueueSize,  \* OFFLINE_QUEUE_SIZE
  Contacts,          \* their keys
  NoContact,
  MaxTime,           \* bound of the clock
  Budgets            \* bound: how often each kind of event may happen, in each scenario

(* Messages that come in, other pushes, contacts that change, seconds,      *)
(* listings, connections.                                                  *)
Kinds == {"private", "channel", "push", "change", "list", "connect"}

ASSUME LinkAssumption ==
  /\ FrameQueueSize \in Nat \ {0} /\ OfflineQueueSize \in Nat \ {0}
  /\ NoContact \notin Contacts
  /\ MaxTime \in Nat
  /\ Budgets \subseteq [Kinds -> Nat]

VARIABLES
  offline_queue,     \* messages: [n, private]
  contacts,          \* [id, lastmod], in the order of the array
  iter,              \* the listing: [started, next, since, recent]
  now,               \* the clock
  pc,                \* "loop", "shift", "count": where checkSerialInterface() is
  connections,       \* getConnectedCount() as it was read
  taken,             \* the frame copied from the receive queue
  recv, recv_len,    \* recv_queue and recv_queue_len
  send_queue,
  deviceConnected, oldDeviceConnected,
  busy,              \* isWriteBusy()
  peer,              \* an app is connected
  app,               \* its state
  got,               \* messages it has received, in their order
  arrived,           \* messages that came over the radio: TRUE if private
  lost,              \* types of the frames that were not delivered, or "nomore" if the
                     \* app found one when it connected
  cut,               \* an app has disconnected
  disturbed,         \* a contact changed during a listing or in its second, or found no
                     \* room in send_queue, or an app found a "self" when it connected
  left               \* of the budget

device == <<offline_queue, contacts, iter, now>>
loopAt == <<pc, connections, taken>>
ble    == <<recv, recv_len, send_queue, deviceConnected, oldDeviceConnected, busy>>
client == <<peer, app, got>>
past   == <<arrived, lost, cut, disturbed>>
vars   == <<device, loopAt, ble, client, past, left>>

Message   == [n: Nat, private: BOOLEAN]
Contact   == [id: Contacts, lastmod: Nat]
Frame(type)        == [type |-> type, n |-> 0, id |-> NoContact]
ContactFrame(c)    == [type |-> "contact", n |-> c.lastmod, id |-> c.id]
Numbered(type, n)  == [type |-> type, n |-> n, id |-> NoContact]
ReplyTypes == {"self", "msg", "nomore", "count", "err"}
FrameTypes == ReplyTypes \cup {"tickle", "push", "contact", "end"}
Frames     == [type: FrameTypes, n: Nat, id: Contacts \cup {NoContact}]
Command(type, n)   == [type |-> type, n |-> n]
NoCommand == Command("none", 0)
CommandTypes == {"start", "sync", "list"}
Commands  == [type: CommandTypes \cup {"none"}, n: Nat]
Slots     == 0 .. FrameQueueSize - 1

NewIter   == [started |-> FALSE, next |-> 1, since |-> 0, recent |-> 0]

(* A freshly connected app remembers what it was told before. *)
Connecting(old) ==
  [old EXCEPT !.ready = FALSE, !.waiting = "none", !.wants = TRUE, !.listing = FALSE]

Init ==
  /\ offline_queue = <<>>
  /\ contacts = <<>> /\ iter = NewIter /\ now = 1
  /\ pc = "loop" /\ connections = 0 /\ taken = NoCommand
  /\ recv = [i \in Slots |-> NoCommand] /\ recv_len = 0
  /\ send_queue = <<>>
  /\ deviceConnected = FALSE /\ oldDeviceConnected = FALSE
  /\ busy = FALSE
  /\ peer = FALSE
  /\ app = [ready |-> FALSE, waiting |-> "none", wants |-> FALSE, listing |-> FALSE,
            since |-> 0, book |-> [c \in Contacts |-> 0]]
  /\ got = <<>> /\ arrived = <<>>
  /\ lost = {} /\ cut = FALSE /\ disturbed = FALSE
  /\ left \in Budgets

Input(kind) == left[kind] > 0 /\ left' = [left EXCEPT ![kind] = @ - 1]

(* writeFrame: nothing is said of a frame that does not fit. *)
Fits == deviceConnected /\ Len(send_queue) < FrameQueueSize
writeFrame(f) ==
  /\ send_queue' = IF Fits THEN Append(send_queue, f) ELSE send_queue
  /\ lost' = IF Fits THEN lost ELSE lost \cup {f.type}

(* A mutant: nothing is pushed while other frames wait. *)
NotifyIfIdle(f) ==
  IF deviceConnected /\ send_queue = <<>> THEN writeFrame(f) ELSE UNCHANGED <<send_queue, lost>>

(* The same where an app that is away is not written to. *)
Notify(f) ==
  IF deviceConnected THEN writeFrame(f) ELSE UNCHANGED <<send_queue, lost>>

-----------------------------------------------------------------------------
(* The radio: messages and adverts, worked on before the serial interface. *)

(* addToOfflineQueue *)
OldestChannelMsg == SelectInSeq(offline_queue, LAMBDA m : ~m.private)

(* Mutants: no limit; the new one put in the place of the old; the oldest   *)
(* given up whatever it is.                                                *)
addWithoutLimit(m) == Append(offline_queue, m)
addInPlace(m) ==
  IF Len(offline_queue) < OfflineQueueSize THEN Append(offline_queue, m)
  ELSE IF OldestChannelMsg # 0 THEN [offline_queue EXCEPT ![OldestChannelMsg] = m]
  ELSE offline_queue
addOverOldest(m) ==
  Append(IF Len(offline_queue) < OfflineQueueSize THEN offline_queue ELSE Tail(offline_queue), m)

addToOfflineQueue(m) ==
  IF Len(offline_queue) < OfflineQueueSize THEN Append(offline_queue, m)
  ELSE IF OldestChannelMsg # 0
  THEN Append(RemoveAt(offline_queue, OldestChannelMsg), m)
  ELSE offline_queue

MessageArrives(private) ==
  /\ pc = "loop"
  /\ Input(IF private THEN "private" ELSE "channel")
  /\ arrived' = Append(arrived, private)
  /\ offline_queue' = addToOfflineQueue([n |-> Len(arrived'), private |-> private])
  /\ Notify(Frame("tickle"))
  /\ UNCHANGED <<contacts, iter, now, loopAt, recv, recv_len, deviceConnected,
                 oldDeviceConnected, busy, client, cut, disturbed>>

(* Something else that is pushed to an app. *)
Push ==
  /\ pc = "loop"
  /\ Input("push")
  /\ Notify(Frame("push"))
  /\ UNCHANGED <<device, loopAt, recv, recv_len, deviceConnected, oldDeviceConnected,
                 busy, client, arrived, cut, disturbed>>

(* onAdvertRecv, and other changes of a contact; it is new if not known.   *)
(* The push of it is left out.                                             *)
PositionOf(id) == SelectInSeq(contacts, LAMBDA c : c.id = id)

Ends == {f \in Range(send_queue) : f.type = "end"}

ContactChanges(id) ==
  /\ pc = "loop"
  /\ Input("change")
  /\ LET c == [id |-> id, lastmod |-> now]
     IN  contacts' = IF PositionOf(id) # 0 THEN [contacts EXCEPT ![PositionOf(id)] = c]
                     ELSE Append(contacts, c)
  /\ disturbed' = (disturbed \/ iter.started \/ now <= app.since \/ \E f \in Ends : now <= f.n)
  /\ UNCHANGED <<offline_queue, iter, now, loopAt, ble, client, arrived, lost, cut>>

Tick ==
  /\ now < MaxTime
  /\ now' = now + 1
  /\ UNCHANGED <<offline_queue, contacts, iter, loopAt, ble, client, past, left>>

-----------------------------------------------------------------------------
(* The app, and the Bluetooth task. *)

(* What is still queued for the app before: if the loop saw neither that   *)
(* one come nor go, nothing clears it.                                     *)
Found == {f.type : f \in Range(send_queue)}

Connect ==
  /\ ~peer
  /\ Input("connect")
  /\ peer' = TRUE /\ deviceConnected' = TRUE
  /\ app' = Connecting(app)
  /\ lost' = (lost \cap {"msg"}) \cup (Found \cap {"nomore"})
  /\ disturbed' = (disturbed \/ "self" \in Found)
  /\ UNCHANGED <<device, loopAt, recv, recv_len, send_queue, oldDeviceConnected, busy,
                 got, arrived, cut>>

(* The last connection is kept. *)
Disconnect ==
  /\ peer
  /\ left["connect"] > 0
  /\ peer' = FALSE
  /\ cut' = TRUE
  /\ UNCHANGED <<device, loopAt, ble, app, got, arrived, lost, disturbed, left>>

(* onWrite: a full queue gives up its oldest frame. *)
onWrite(cmd) ==
  LET full == recv_len = FrameQueueSize
      kept == IF full THEN [i \in Slots |-> IF i + 1 \in Slots THEN recv[i + 1] ELSE recv[i]]
              ELSE recv
      at   == IF full THEN recv_len - 1 ELSE recv_len
  IN  /\ recv' = [kept EXCEPT ![at] = cmd]
      /\ recv_len' = at + 1

AppSends(cmd) ==
  /\ peer /\ app.waiting = "none"
  /\ app' = [app EXCEPT !.waiting = cmd.type]
  /\ onWrite(cmd)
  /\ UNCHANGED <<device, loopAt, send_queue, deviceConnected, oldDeviceConnected, busy,
                 peer, got, past>>

AppStarts == ~app.ready /\ AppSends(Command("start", 0)) /\ UNCHANGED left
AppFetches == app.ready /\ app.wants /\ AppSends(Command("sync", 0)) /\ UNCHANGED left
AppLists ==
  app.ready /\ ~app.listing /\ AppSends(Command("list", app.since)) /\ Input("list")

(* What the app makes of a frame.  Listings of an earlier connection do    *)
(* not count.                                                              *)
AppTakes(f) ==
  LET answered == IF f.type \in ReplyTypes THEN [app EXCEPT !.waiting = "none"] ELSE app
  IN  CASE f.type = "self"    -> [answered EXCEPT !.ready = TRUE]
        [] f.type = "msg"     -> answered
        [] f.type = "nomore"  -> [answered EXCEPT !.wants = FALSE]
        [] f.type = "tickle"  -> [answered EXCEPT !.wants = TRUE]
        [] f.type = "count"   -> [answered EXCEPT !.listing = app.ready]
        [] f.type = "contact" -> [answered EXCEPT !.book[f.id] = f.n]
        [] f.type = "end"     ->
             IF app.listing
             THEN [answered EXCEPT !.listing = FALSE,
                                   !.since = IF f.n > @ THEN f.n ELSE @]
             ELSE answered
        [] OTHER -> answered

-----------------------------------------------------------------------------
(* checkSerialInterface *)

(* checkRecvFrame, first part: one frame goes out, if the last one was     *)
(* long enough ago.                                                        *)
Deliver(f) ==
  /\ send_queue' = Tail(send_queue)
  /\ busy' = TRUE
  /\ app' = IF peer THEN AppTakes(f) ELSE app
  /\ got' = IF peer /\ f.type = "msg" THEN Append(got, f.n) ELSE got
  /\ lost' = IF peer THEN lost ELSE lost \cup {f.type}

(* A mutant: the last frame of the queue stays. *)
SendOneOfMany ==
  IF Len(send_queue) < 2 \/ busy THEN UNCHANGED <<send_queue, busy, app, got, lost>>
  ELSE Deliver(Head(send_queue))

SendOne ==
  IF send_queue = <<>> \/ busy THEN UNCHANGED <<send_queue, busy, app, got, lost>>
  ELSE Deliver(Head(send_queue))

(* A mutant: the frame stays in the queue. *)
CopyFrame ==
  /\ recv_len > 0
  /\ taken' = recv[0]
  /\ pc' = "shift"
  /\ UNCHANGED <<connections, recv_len>>

(* Second part: a frame is copied and the queue shortened, or the number   *)
(* of connections read.                                                    *)
TakeFrame ==
  /\ recv_len > 0
  /\ taken' = recv[0] /\ recv_len' = recv_len - 1
  /\ pc' = "shift"
  /\ UNCHANGED connections

ReadConnections ==
  /\ recv_len = 0
  /\ connections' = IF peer THEN 1 ELSE 0
  /\ pc' = "count"
  /\ UNCHANGED <<taken, recv_len>>

LoopStarts ==
  /\ pc = "loop"
  /\ SendOne
  /\ TakeFrame \/ ReadConnections
  /\ UNCHANGED <<device, recv, deviceConnected, oldDeviceConnected, peer, arrived, cut,
                 disturbed, left>>

(* CMD_GET_CONTACTS starts a listing.  The mutant goes on where the last   *)
(* one was.                                                                *)
ListOn(since)   == [iter EXCEPT !.started = TRUE, !.since = since]
ListAnew(since) == [started |-> TRUE, next |-> 1, since |-> since, recent |-> 0]

(* The rest of the queue moves up, and handleCmdFrame. *)
Handle(cmd) ==
  CASE cmd.type = "start" ->
         /\ iter' = [iter EXCEPT !.started = FALSE]
         /\ writeFrame(Frame("self"))
         /\ UNCHANGED offline_queue
    [] cmd.type = "sync" ->
         /\ IF offline_queue = <<>> THEN writeFrame(Frame("nomore")) /\ UNCHANGED offline_queue
            ELSE /\ writeFrame(Numbered("msg", Head(offline_queue).n))
                 /\ offline_queue' = Tail(offline_queue)
         /\ UNCHANGED iter
    [] cmd.type = "list" ->
         /\ IF iter.started THEN writeFrame(Frame("err")) /\ UNCHANGED iter
            ELSE /\ writeFrame(Frame("count"))
                 /\ iter' = ListAnew(cmd.n)
         /\ UNCHANGED offline_queue
    [] OTHER -> writeFrame(Frame("err")) /\ UNCHANGED <<iter, offline_queue>>

MovedUp == [i \in Slots |-> IF i < recv_len /\ i + 1 \in Slots THEN recv[i + 1] ELSE recv[i]]

ShiftAndHandle ==
  /\ pc = "shift"
  /\ recv' = MovedUp
  /\ Handle(taken)
  /\ pc' = "loop" /\ taken' = NoCommand
  /\ UNCHANGED <<contacts, now, connections, recv_len, deviceConnected, oldDeviceConnected,
                 busy, client, arrived, cut, disturbed, left>>

(* Third part: nobody connected clears the queues, once.  Whether it is so *)
(* was read before, and an app may have connected since.                   *)
Connected == deviceConnected /\ connections > 0

(* No frame came: the listing goes on with the next contact, or ends. *)
MayList == iter.started /\ ~busy

ListStep ==
  IF iter.next > Len(contacts) THEN [iter EXCEPT !.started = FALSE]
  ELSE [iter EXCEPT !.next = @ + 1,
                    !.recent = LET t == contacts[iter.next].lastmod
                               IN  IF t > iter.since /\ t > @ THEN t ELSE @]

(* The frame it writes, if it writes one. *)
ListFrames ==
  IF iter.next > Len(contacts) THEN {Numbered("end", iter.recent)}
  ELSE {ContactFrame(c) : c \in {d \in {contacts[iter.next]} : d.lastmod > iter.since}}

(* Frames that clearBuffers() throws away are those left in the queue, and *)
(* what the listing writes next is not even queued.                        *)
Cleared == IF oldDeviceConnected THEN Range(send_queue) ELSE {}
Written == IF MayList THEN ListFrames ELSE {}

NoFrame ==
  /\ pc = "count"
  /\ deviceConnected' = Connected /\ oldDeviceConnected' = Connected
  /\ IF Connected
     THEN /\ recv_len' = recv_len
          /\ IF Written = {} THEN UNCHANGED <<send_queue, lost>>
             ELSE \E f \in Written : writeFrame(f)
     ELSE /\ recv_len' = IF oldDeviceConnected THEN 0 ELSE recv_len
          /\ send_queue' = IF oldDeviceConnected THEN <<>> ELSE send_queue
          /\ lost' = lost \cup {f.type : f \in Cleared \cup Written}
  /\ iter' = IF MayList THEN ListStep ELSE iter
  /\ pc' = "loop"
  /\ connections' = 0
  /\ disturbed' = (disturbed \/ (Connected /\ ~Fits /\ \E f \in Written : f.type = "contact"))
  /\ UNCHANGED <<offline_queue, contacts, now, taken, recv, busy, client, arrived, cut, left>>

(* BLE_WRITE_MIN_INTERVAL has passed since the last frame. *)
Ready ==
  /\ busy
  /\ busy' = FALSE
  /\ UNCHANGED <<device, loopAt, recv, recv_len, send_queue, deviceConnected,
                 oldDeviceConnected, client, past, left>>

LoopStep == LoopStarts \/ ShiftAndHandle \/ NoFrame
AppStep  == AppStarts \/ AppFetches \/ AppLists

Next ==
  \/ \E private \in BOOLEAN : MessageArrives(private)
  \/ Push
  \/ \E id \in Contacts : ContactChanges(id)
  \/ Tick
  \/ Connect \/ Disconnect
  \/ AppStep
  \/ LoopStep
  \/ Ready

Spec == Init /\ [][Next]_vars

(* loop() is called for ever, the interval between two frames passes, and  *)
(* an app sends what it has to send.                                       *)
Fairness == WF_vars(LoopStep) /\ WF_vars(Ready) /\ WF_vars(AppStarts) /\ WF_vars(AppFetches)

FairSpec == Spec /\ Fairness

-----------------------------------------------------------------------------
(* Properties *)

AppState == [ready: BOOLEAN, waiting: CommandTypes \cup {"none"}, wants: BOOLEAN,
             listing: BOOLEAN, since: Nat, book: [Contacts -> Nat]]

(* Types of the state of device, interface and app. *)
TypeOK ==
  /\ offline_queue \in Seq(Message) /\ Len(offline_queue) <= OfflineQueueSize
  /\ contacts \in Seq(Contact)
  /\ iter \in [started: BOOLEAN, next: Nat \ {0}, since: Nat, recent: Nat]
  /\ now \in Nat
  /\ pc \in {"loop", "shift", "count"} /\ connections \in {0, 1} /\ taken \in Commands
  /\ recv \in [Slots -> Commands] /\ recv_len \in 0 .. FrameQueueSize
  /\ send_queue \in Seq(Frames) /\ Len(send_queue) <= FrameQueueSize
  /\ deviceConnected \in BOOLEAN /\ oldDeviceConnected \in BOOLEAN
  /\ busy \in BOOLEAN /\ peer \in BOOLEAN
  /\ app \in AppState
  /\ got \in Seq(Nat) /\ arrived \in Seq(BOOLEAN)
  /\ lost \subseteq FrameTypes /\ cut \in BOOLEAN /\ disturbed \in BOOLEAN
  /\ left \in [Kinds -> Nat]

Queued  == {offline_queue[i].n : i \in 1 .. Len(offline_queue)}
Sending == {send_queue[i].n : i \in {j \in 1 .. Len(send_queue) : send_queue[j].type = "msg"}}
Private == {n \in 1 .. Len(arrived) : arrived[n]}

Before(S, T)   == \A s \in S, t \in T : s < t
Ordered(queue) == \A i, j \in 1 .. Len(queue) : i < j => queue[i].n < queue[j].n

(* Messages reach the app in the order in which they came in, through a    *)
(* queue that gives up some in its middle, frames that are thrown away and *)
(* connections that break (addToOfflineQueue, getFromOfflineQueue).        *)
MessagesInOrder ==
  /\ \A i, j \in 1 .. Len(got) : i < j => got[i] < got[j]
  /\ \A i, j \in 1 .. Len(send_queue) :
       i < j /\ send_queue[i].type = "msg" /\ send_queue[j].type = "msg"
         => send_queue[i].n < send_queue[j].n
  /\ Ordered(offline_queue)
  /\ Before(Range(got), Sending) /\ Before(Range(got) \cup Sending, Queued)

(* The queue gives up no private message before it is full of private      *)
(* ones, and of the channel messages it gives up the oldest                *)
(* (addToOfflineQueue).  What is lost later is lost on the way.            *)
GivenUp == (1 .. Len(arrived)) \ (Queued \cup Sending \cup Range(got))

PrivateMessagesStay ==
  "msg" \notin lost =>
    /\ Cardinality(Private) <= OfflineQueueSize => Private \cap GivenUp = {}
    /\ \A g \in GivenUp \ Private, n \in Queued \ Private : g < n

(* An app that waits for nothing knows of every message: the tickle can    *)
(* come before or after the answer that there are no more (queueMessage,   *)
(* CMD_SYNC_NEXT_MESSAGE), as long as no frame is lost, and no such answer *)
(* was still queued when the app connected.                                *)
WaitingMessagesAreKnown ==
  deviceConnected /\ lost \subseteq {"msg"} /\ peer /\ app.waiting = "none" /\ ~app.wants
    => offline_queue = <<>> \/ \E f \in Range(send_queue) : f.type = "tickle"

(* While nothing is lost and no connection broke, a command of the app is  *)
(* queued, worked on or answered, and all of this once (onWrite,           *)
(* checkRecvFrame).                                                        *)
OneAnswerEach ==
  ~cut /\ lost = {} =>
    recv_len + Cardinality({x \in {"taken"} : pc = "shift"})
      + Cardinality({i \in 1 .. Len(send_queue) : send_queue[i].type \in ReplyTypes})
    = Cardinality({x \in {"none"} : app.waiting # x})

(* An app that asks for the contacts since the time it was told last has   *)
(* every contact that was changed until then, as long as none is changed   *)
(* during a listing or in the second it ended with, the queue has room for *)
(* the frames of the listing, and no app takes the answer to the start of  *)
(* an earlier one for its own: none is lost to an earlier listing that was *)
(* broken off, or to frames of one that come late.                         *)
ListingsAreComplete ==
  ~disturbed =>
    \A c \in Range(contacts) : c.lastmod <= app.since => app.book[c.id] = c.lastmod

(* A message that waits for an app that is there does not wait for ever,   *)
(* unless the connection breaks or a frame is lost.                        *)
MessagesGetThrough == offline_queue # <<>> /\ peer ~> offline_queue = <<>> \/ cut \/ lost # {}
=============================================================================
