----------------------------- MODULE Dispatcher -----------------------------
(***************************************************************************)
(* mesh::Dispatcher with its packet pool (StaticPoolPacketManager) and its *)
(* radio (RadioLibWrapper).  Dispatcher::loop() runs in one thread, over   *)
(* and over; between two calls, and inside the virtual onRecvPacket(), the *)
(* subclass obtains, sends and releases packets.  The radio chip and its   *)
(* interrupt run beside that thread and the clock goes on during a call,   *)
(* so loop() is cut where either can be seen: one step per phase.          *)
(***************************************************************************)
EXTENDS Millis, PacketQueue, RadioLibWrapper

CONSTANTS
  None,              \* a NULL Packet pointer
  Priorities,        \* the priorities subclasses send with
  SendDelays,        \* the delays of sendPacket() and of ACTION_RETRANSMIT_DELAYED
  Traffic,           \* bound: the kinds of frames the neighbours send
  RxDelays,          \* the values calcRxDelay() may return
  MinRxDelay,        \* 50: below it a flood packet is processed at once
  MaxRxDelay,        \* MAX_RX_DELAY_MILLIS
  AirTimes,          \* the values getEstAirtimeFor() may return
  BudgetFactor,      \* getAirtimeBudgetFactor()
  CadRetryDelays,    \* the values getCADFailRetryDelay() may return
  CadMaxDuration,    \* getCADFailMaxDuration()
  NonRxLimit,        \* 8000: the 'radio stuck' limit of loop()
  AgcResets,         \* whether getAGCResetInterval() > 0
  TickLimit,         \* bound: the clock stops at this value (Word: never)
  TickPoints,        \* bound: the phases during which the clock may advance
  AirCap             \* bound: total_air_time saturates here

ASSUME DispatcherAssumption ==
  /\ None \notin Packets
  /\ Priorities \subseteq Nat
  /\ SendDelays \subseteq Nat
  /\ RxDelays \subseteq Nat
  /\ Traffic \subseteq {"malformed", "flood", "direct"}
  /\ MinRxDelay \in Nat /\ MaxRxDelay \in Nat
  /\ AirTimes \subseteq Nat /\ AirTimes # {}
  /\ BudgetFactor \in Nat
  /\ CadRetryDelays \subseteq Nat
  /\ CadMaxDuration \in Nat
  /\ NonRxLimit \in Nat
  /\ AgcResets \in BOOLEAN
  /\ AirCap \in Nat

VARIABLES
  pc,           \* the phase of loop() to run next, "app" between two calls
  resume,       \* the phase after the onRecvPacket() now running
  now,          \* the millisecond clock
  ticked,       \* the clock has advanced since the last phase (bound)
  unused,       \* StaticPoolPacketManager::unused
  sendQueue,    \* StaticPoolPacketManager::send_queue
  rxQueue,      \* StaticPoolPacketManager::rx_queue
  outbound,     \* the packet handed to the radio
  current,      \* the packet that onRecvPacket() is working on
  held,         \* packets the subclass obtained and has not given back
  raw,          \* the frame recvRaw() returned
  nextTx,       \* next_tx_time
  busyStart,    \* cad_busy_start, 0 = not busy
  outStart,     \* outbound_start (read only while outbound # None: 0 otherwise)
  outExpiry,    \* outbound_expiry (likewise)
  airTime,      \* total_air_time
  prevRecv,     \* prev_isrecv_mode
  nonRxStart,   \* radio_nonrx_start (read only after a look in another mode
                \* than Rx: 0 otherwise)
  errFlags      \* _err_flags

poolVars  == <<unused, sendQueue, rxQueue, outbound, current, held>>
timerVars == <<nextTx, busyStart, outStart, outExpiry, airTime>>
watchVars == <<prevRecv, nonRxStart, errFlags>>
vars == <<pc, resume, now, ticked, raw, poolVars, timerVars, watchVars,
          radioVars>>

Phases == {"app", "inbound", "recv", "checkRecv", "handle", "send", "arm"}
Frames == {"none", "malformed", "flood", "direct"}
Errors == {"FULL", "CAD_TIMEOUT", "STARTRX_TIMEOUT"}

ASSUME TickPointsAssumption == TickPoints \subseteq Phases

QueueEntries == [pkt : Packets, pri : Nat, at : Time]

futureMillis(d) == Plus(now, d)
millisHasNowPassed(t) == HasPassed(now, t)

TypeOK ==
  /\ pc \in Phases
  /\ resume \in {"recv", "send"}
  /\ now \in Time
  /\ ticked \in BOOLEAN
  /\ unused \in Seq(Packets)
  /\ sendQueue \in Seq(QueueEntries)
  /\ rxQueue \in Seq(QueueEntries)
  /\ outbound \in Packets \cup {None}
  /\ current \in Packets \cup {None}
  /\ held \subseteq Packets
  /\ raw \in Frames
  /\ {nextTx, busyStart, outStart, outExpiry, nonRxStart} \subseteq Time
  /\ airTime \in 0 .. AirCap
  /\ prevRecv \in BOOLEAN
  /\ errFlags \subseteq Errors
  /\ RadioTypeOK

(* The constructors of StaticPoolPacketManager and Dispatcher, then begin(). *)
Init ==
  /\ pc = "app" /\ resume = "recv"
  /\ now = 0 /\ ticked = FALSE
  /\ unused \in SetToSeqs(Packets)
  /\ sendQueue = <<>> /\ rxQueue = <<>>
  /\ outbound = None /\ current = None /\ held = {}
  /\ raw = "none"
  /\ nextTx = 0 /\ busyStart = 0 /\ outStart = 0 /\ outExpiry = 0
  /\ airTime = 0
  /\ RadioInit
  /\ prevRecv = isInRecvMode
  /\ nonRxStart = now
  /\ errFlags = {}

------------------------------------------------------------------------------
(* StaticPoolPacketManager *)

(* free(): back to the end of the pool, through the same bounded add(). *)
Freed(p) == IF Len(unused) = PoolSize THEN unused ELSE Append(unused, p)

queueOutbound(p, pri, d) ==
  sendQueue' = Add(sendQueue, Entry(p, pri, futureMillis(d)))
queueInbound(p, d) ==
  rxQueue' = Add(rxQueue, Entry(p, 0, futureMillis(d)))

(* Control passes to another phase of loop(). *)
Goto(phase) == pc' = phase /\ ticked' = FALSE

------------------------------------------------------------------------------
(* The subclass: obtainNewPacket(), sendPacket() and releasePacket(), from *)
(* its own loop or from inside onRecvPacket().                             *)

SubclassRuns == pc \in {"app", "handle"}

ObtainNewPacket ==
  /\ SubclassRuns
  /\ \/ /\ unused # <<>>
        /\ held' = held \cup {Head(unused)}
        /\ unused' = Tail(unused)
        /\ UNCHANGED errFlags
     \/ /\ unused = <<>>
        /\ errFlags' = errFlags \cup {"FULL"}
        /\ UNCHANGED <<unused, held>>
  /\ UNCHANGED <<pc, resume, now, ticked, raw, sendQueue, rxQueue, outbound,
                 current, timerVars, prevRecv, nonRxStart, radioVars>>

SendPacket(p) ==
  /\ SubclassRuns
  /\ p \in held
  /\ held' = held \ {p}
  /\ \E pri \in Priorities, d \in SendDelays : queueOutbound(p, pri, d)
  /\ UNCHANGED <<pc, resume, now, ticked, raw, unused, rxQueue, outbound,
                 current, timerVars, watchVars, radioVars>>

(* releasePacket(), and sendPacket() of a packet whose lengths are invalid. *)
ReleasePacket(p) ==
  /\ SubclassRuns
  /\ p \in held
  /\ held' = held \ {p}
  /\ unused' = Freed(p)
  /\ UNCHANGED <<pc, resume, now, ticked, raw, sendQueue, rxQueue, outbound,
                 current, timerVars, watchVars, radioVars>>

------------------------------------------------------------------------------
(* loop(), up to the check of the delayed queue. *)

(* The radio has been in another mode than Rx for too long?  The start of  *)
(* such a period is only noticed when the previous call saw Rx.            *)
WatchRecvMode ==
  /\ prevRecv' = isInRecvMode
  /\ nonRxStart' = IF isInRecvMode THEN 0 ELSE IF prevRecv THEN now ELSE nonRxStart
  /\ errFlags' = IF ~isInRecvMode /\ Minus(now, nonRxStart') > NonRxLimit
                   THEN errFlags \cup {"STARTRX_TIMEOUT"}
                   ELSE errFlags

(* Mutant: the pointer is cleared before it is released. *)
ReleaseOutboundAfterClear ==
  /\ unused' = Freed(None)
  /\ outbound' = None
  /\ outStart' = 0 /\ outExpiry' = 0
  /\ onSendFinished

(* A timed-out or completed send gives its packet back. *)
ReleaseOutbound ==
  /\ unused' = Freed(outbound)
  /\ outbound' = None
  /\ outStart' = 0 /\ outExpiry' = 0
  /\ onSendFinished

(* Mutant: the silence counts from the start of the send, not its end. *)
SendCompletedSilenceFromStart ==
  LET t == Minus(now, outStart) IN
  /\ outbound # None
  /\ isSendComplete
  /\ airTime' = IF airTime + t <= AirCap THEN airTime + t ELSE AirCap
  /\ nextTx' = Plus(outStart, t * BudgetFactor)
  /\ ReleaseOutbound
  /\ Goto("inbound")

SendCompleted ==
  LET t == Minus(now, outStart) IN
  /\ outbound # None
  /\ isSendComplete
  /\ airTime' = IF airTime + t <= AirCap THEN airTime + t ELSE AirCap
  /\ nextTx' = futureMillis(t * BudgetFactor)
  /\ ReleaseOutbound
  /\ Goto("inbound")

(* Mutant: the radio is not told that its send is over. *)
SendTimedOutRadioGoesOn ==
  /\ outbound # None
  /\ ~isSendComplete
  /\ millisHasNowPassed(outExpiry)
  /\ unused' = Freed(outbound)
  /\ outbound' = None
  /\ outStart' = 0 /\ outExpiry' = 0
  /\ UNCHANGED <<airTime, nextTx, radioVars>>
  /\ Goto("inbound")

(* Mutant: a send that timed out is given more time. *)
SendTimedOutExtends ==
  /\ outbound # None
  /\ ~isSendComplete
  /\ millisHasNowPassed(outExpiry)
  /\ outExpiry' = futureMillis(1)
  /\ UNCHANGED <<airTime, nextTx, unused, outbound, outStart, radioVars>>
  /\ Goto("inbound")

SendTimedOut ==
  /\ outbound # None
  /\ ~isSendComplete
  /\ millisHasNowPassed(outExpiry)
  /\ ReleaseOutbound
  /\ UNCHANGED <<airTime, nextTx>>
  /\ Goto("inbound")

SendPending ==
  /\ outbound # None
  /\ ~isSendComplete
  /\ ~millisHasNowPassed(outExpiry)
  /\ UNCHANGED <<airTime, nextTx, unused, outbound, outStart, outExpiry, radioVars>>
  /\ Goto("app")

NothingOutbound ==
  /\ outbound = None
  /\ \/ UNCHANGED radioVars
     \/ AgcResets /\ resetAGC
  /\ UNCHANGED <<airTime, nextTx, unused, outbound, outStart, outExpiry>>
  /\ Goto("inbound")

LoopTop ==
  /\ pc = "app"
  /\ WatchRecvMode
  /\ SendCompleted \/ SendTimedOut \/ SendPending \/ NothingOutbound
  /\ UNCHANGED <<resume, now, raw, sendQueue, rxQueue, current, held,
                 busyStart>>

------------------------------------------------------------------------------
(* loop(): the delayed inbound queue; checkRecv(). *)

(* Mutant: the delayed packet is looked at but stays in the queue. *)
CheckInboundPeeks ==
  /\ pc = "inbound"
  /\ \/ /\ Eligible(rxQueue, now) # {}
        /\ current' = rxQueue[Best(rxQueue, now)].pkt
        /\ resume' = "recv"
        /\ Goto("handle")
     \/ /\ Eligible(rxQueue, now) = {}
        /\ UNCHANGED <<current, resume>>
        /\ Goto("recv")
  /\ UNCHANGED <<now, raw, unused, sendQueue, rxQueue, outbound, held,
                 timerVars, watchVars, radioVars>>

CheckInbound ==
  /\ pc = "inbound"
  /\ \/ /\ Eligible(rxQueue, now) # {}
        /\ LET i == Best(rxQueue, now) IN
             /\ current' = rxQueue[i].pkt
             /\ rxQueue' = RemoveByIdx(rxQueue, i)
        /\ resume' = "recv"
        /\ Goto("handle")
     \/ /\ Eligible(rxQueue, now) = {}
        /\ UNCHANGED <<current, rxQueue, resume>>
        /\ Goto("recv")
  /\ UNCHANGED <<now, raw, unused, sendQueue, outbound, held, timerVars,
                 watchVars, radioVars>>

(* recvRaw(): a frame only if the flag is up, and even then it may be      *)
(* empty or unreadable.                                                    *)
RecvRaw ==
  /\ pc = "recv"
  /\ \/ /\ recvCommand
        /\ raw' \in {"none"} \cup (IF ready THEN Traffic ELSE {})
     \/ /\ ~ready /\ isInRecvMode
        /\ raw' = "none"
        /\ UNCHANGED radioVars
  /\ Goto("checkRecv")
  /\ UNCHANGED <<resume, now, poolVars, timerVars, watchVars>>

(* The frame waits in the rx queue for its score delay, or goes straight   *)
(* to onRecvPacket().                                                      *)
AcceptFrame(p) ==
  /\ unused' = Tail(unused)
  /\ \/ /\ raw = "flood"
        /\ \E d \in RxDelays :
             /\ d >= MinRxDelay
             /\ queueInbound(p, IF d > MaxRxDelay THEN MaxRxDelay ELSE d)
        /\ UNCHANGED <<current, resume>>
        /\ Goto("send")
     \/ /\ \/ raw = "direct"
           \/ raw = "flood" /\ \E d \in RxDelays : d < MinRxDelay
        /\ current' = p
        /\ resume' = "send"
        /\ UNCHANGED rxQueue
        /\ Goto("handle")

(* Mutant: the packet of a corrupt frame is not put back into the pool. *)
DropMalformedLeaks ==
  /\ unused' = Tail(unused)
  /\ UNCHANGED <<rxQueue, current, resume>>
  /\ Goto("send")

(* A partial or corrupt frame: its packet goes back into the pool. *)
DropMalformed ==
  /\ unused' = Append(Tail(unused), Head(unused))
  /\ UNCHANGED <<rxQueue, current, resume>>
  /\ Goto("send")

CheckRecv ==
  /\ pc = "checkRecv"
  /\ recvStore
  /\ raw' = "none"
  /\ \/ /\ raw = "none" \/ unused = <<>>          \* no frame, or no packet for it
        /\ UNCHANGED <<unused, rxQueue, current, resume>>
        /\ Goto("send")
     \/ raw = "malformed" /\ unused # <<>> /\ DropMalformed
     \/ raw \in {"flood", "direct"} /\ unused # <<>> /\ AcceptFrame(Head(unused))
  /\ UNCHANGED <<now, sendQueue, outbound, held, timerVars, watchVars>>

------------------------------------------------------------------------------
(* processRecvPacket(): what onRecvPacket() returned decides. *)

ActionRelease == unused' = Freed(current) /\ UNCHANGED <<sendQueue, held>>

ActionManualHold == held' = held \cup {current} /\ UNCHANGED <<unused, sendQueue>>

ActionRetransmit ==
  /\ \E pri \in Priorities, d \in SendDelays : queueOutbound(current, pri, d)
  /\ UNCHANGED <<unused, held>>

ProcessRecvPacket ==
  /\ pc = "handle"
  /\ ActionRelease \/ ActionManualHold \/ ActionRetransmit
  /\ current' = None
  /\ Goto(resume)
  /\ UNCHANGED <<resume, now, raw, rxQueue, outbound, timerVars, watchVars,
                 radioVars>>

------------------------------------------------------------------------------
(* checkSend() *)

MaySend == CountBefore(sendQueue, now) # 0 /\ millisHasNowPassed(nextTx)

NothingToSend ==
  /\ ~MaySend
  /\ UNCHANGED <<poolVars, busyStart, nextTx, outStart, errFlags, radioVars>>
  /\ Goto("app")

BusySince == IF busyStart = 0 THEN now ELSE busyStart

(* Mutant: busy since the last look, not since the first. *)
BusyTooLongSinceLook == Minus(now, nextTx) > CadMaxDuration

BusyTooLong == Minus(now, BusySince) > CadMaxDuration

(* The channel is busy: look again after the retry delay. *)
ChannelBusy ==
  /\ MaySend
  /\ ~BusyTooLong
  /\ busyStart' = BusySince
  /\ \E d \in CadRetryDelays : nextTx' = futureMillis(d)
  /\ UNCHANGED <<poolVars, outStart, errFlags, radioVars>>
  /\ Goto("app")

(* The channel is free, or has been busy for too long: send anyway. *)
StartSend ==
  /\ MaySend
  /\ \/ UNCHANGED errFlags
     \/ BusyTooLong /\ errFlags' = errFlags \cup {"CAD_TIMEOUT"}
  /\ busyStart' = 0
  /\ UNCHANGED <<nextTx, rxQueue, current, held>>
  /\ \/ /\ Eligible(sendQueue, now) = {}
        /\ UNCHANGED <<unused, sendQueue, outbound, outStart, radioVars>>
        /\ Goto("app")
     \/ /\ Eligible(sendQueue, now) # {}
        /\ LET i == Best(sendQueue, now) IN
             /\ sendQueue' = RemoveByIdx(sendQueue, i)
             /\ \/ /\ sendCommand
                   /\ outbound' = sendQueue[i].pkt
                   /\ outStart' = now
                   /\ UNCHANGED unused
                   /\ Goto("arm")
                \/ /\ sendRefused
                   /\ unused' = Freed(sendQueue[i].pkt)
                   /\ UNCHANGED <<outbound, outStart>>
                   /\ Goto("app")

CheckSend ==
  /\ pc = "send"
  /\ NothingToSend \/ ChannelBusy \/ StartSend
  /\ UNCHANGED <<resume, now, raw, outExpiry, airTime, prevRecv, nonRxStart>>

(* Mutant: three times the estimated airtime, instead of half as much again. *)
ArmExpiryTripled ==
  /\ pc = "arm"
  /\ sendStore
  /\ \E a \in AirTimes : outExpiry' = futureMillis(a * 3)
  /\ Goto("app")
  /\ UNCHANGED <<resume, now, raw, poolVars, nextTx, busyStart, outStart,
                 airTime, watchVars>>

(* startSendRaw() returns, outbound_expiry is set. *)
ArmExpiry ==
  /\ pc = "arm"
  /\ sendStore
  /\ \E a \in AirTimes : outExpiry' = futureMillis((a * 3) \div 2)
  /\ Goto("app")
  /\ UNCHANGED <<resume, now, raw, poolVars, nextTx, busyStart, outStart,
                 airTime, watchVars>>

------------------------------------------------------------------------------
(* The world outside the main thread: the clock, and the radio's interrupts. *)

Tick ==
  /\ ~ticked
  /\ pc \in TickPoints
  /\ now # TickLimit
  /\ now' = Plus(now, 1)
  /\ ticked' = TRUE
  /\ UNCHANGED <<pc, resume, raw, poolVars, timerVars, watchVars, radioVars>>

Interrupt ==
  /\ \/ Traffic # {} /\ RxDone
     \/ TxDone
  /\ UNCHANGED <<pc, resume, now, ticked, raw, poolVars, timerVars, watchVars>>

LoopStep ==
  LoopTop \/ CheckInbound \/ RecvRaw \/ CheckRecv \/ ProcessRecvPacket
          \/ CheckSend \/ ArmExpiry

SubclassStep ==
  ObtainNewPacket \/ \E p \in Packets : SendPacket(p) \/ ReleasePacket(p)

Next == LoopStep \/ SubclassStep \/ Tick \/ Interrupt

Spec == Init /\ [][Next]_vars

(* The main program calls loop() for ever and time passes; nothing is      *)
(* assumed of the radio, of the channel or of the subclass.                *)
FairSpec == Spec /\ WF_vars(LoopStep) /\ WF_vars(Tick)

------------------------------------------------------------------------------
(* Properties *)

Pool == ToSet(unused)

(* Every Packet object has exactly one owner: it is in one place of one    *)
(* queue, or outbound, or in onRecvPacket(), or with the subclass.  So the *)
(* pool never leaks, nothing is freed twice, and (no queue can be full     *)
(* when a packet is added) the silent drop of PacketQueue::add() is dead   *)
(* code.                                                                   *)
OneOwner ==
  /\ IsInjective(unused) /\ Distinct(sendQueue) /\ Distinct(rxQueue)
  /\ Pool \cap (InQueue(sendQueue) \cup InQueue(rxQueue)) = {}
  /\ InQueue(sendQueue) \cap InQueue(rxQueue) = {}
  /\ held \cap (Pool \cup InQueue(sendQueue) \cup InQueue(rxQueue)) = {}
  /\ {outbound, current} \cap
       (Pool \cup InQueue(sendQueue) \cup InQueue(rxQueue) \cup held) = {}
  /\ outbound = current => outbound = None

NothingLeaks ==
  Packets \subseteq Pool \cup InQueue(sendQueue) \cup InQueue(rxQueue)
                     \cup held \cup {outbound, current}

Ownership == OneOwner /\ NothingLeaks

(* The abstract life of a packet, and what of this state shows it. *)
OwnerOf(p) ==
  CASE p \in Pool                -> "pool"
    [] p \in InQueue(sendQueue)  -> "sendQueue"
    [] p \in InQueue(rxQueue)    -> "rxQueue"
    [] p \in held                -> "subclass"
    [] p = outbound              -> "outbound"
    [] p = current               -> "current"
    [] OTHER                     -> "lost"

Lifecycle == INSTANCE PacketLifecycle WITH owner <- [p \in Packets |-> OwnerOf(p)]

(* Every step of the dispatcher moves at most one packet, along an edge of *)
(* the abstract life cycle.                                                *)
LifecycleSpec == Lifecycle!Spec

(* The dispatcher keeps a packet outbound exactly as long as the chip works*)
(* on it: the chip never sends a buffer whose packet is back in the pool,  *)
(* and nobody makes it listen while a send is pending.                     *)
OutboundOwnsRadio == outbound # None <=> chip \in {"sending", "sent"}

(* The airtime budget over the whole uptime: whenever a send may start, the*)
(* completed sends took at most one part in 1 + BudgetFactor of the time.  *)
DutyCycle == millisHasNowPassed(nextTx) => airTime * (1 + BudgetFactor) < now

(* How many ticks one pass of loop() may take, from one checkSend() to the *)
(* next, under the bound on the clock (onRecvPacket() may run twice).      *)
PassTime ==
  Cardinality(TickPoints \ {"arm"}) + (IF "handle" \in TickPoints THEN 1 ELSE 0)

(* A send that the chip never reports blocks the loop for 3/2 of the       *)
(* estimated airtime and no longer.                                        *)
RadioHeldBounded ==
  outbound # None =>
    \E a \in AirTimes : Minus(now, outStart) <= (a * 3) \div 2 + 2

(* A busy channel, or a radio that says so for ever, holds a due packet    *)
(* back for the maximum CAD duration, the last retry delay and one pass.   *)
CadWaitBounded ==
  busyStart # 0 =>
    \E d \in CadRetryDelays :
      Minus(now, busyStart) <= CadMaxDuration + d + PassTime

(* However the radio fails to answer, a packet that was handed to it is    *)
(* given back.                                                             *)
OutboundReleased == outbound # None ~> outbound = None

=============================================================================
