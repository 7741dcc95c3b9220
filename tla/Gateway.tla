------------------------------- MODULE Gateway -------------------------------
(***************************************************************************)
(* The lobby gateway (gateway/index.js): web clients send requests over    *)
(* their sockets, the gateway turns each into a command on the one serial  *)
(* line and gives an answer of the device to a pending request that could  *)
(* have caused it, because the device's frames carry no identifier.        *)
(*                                                                         *)
(* Requests are numbered as they come in (requests[n]); a pending request  *)
(* is its number, so that the order of the Map is the order of numbers.    *)
(* One step is one callback of the event loop, or one of the device.       *)
(***************************************************************************)
EXTENDS Naturals, Sequences

CONSTANTS
  Sockets,      \* the web sockets, one per connection
  Ids,          \* identifiers that clients choose
  NoId,         \* a message without one
  Actions,      \* the actions that clients ask for
  MaxRequests   \* bound: messages of clients in all

AllActions ==
  {"device.query", "setProfile", "getProfile", "createLobby", "joinByIndex",
   "joinByName", "setDeviceGps", "sendText", "sendChannelText"}

ASSUME GatewayAssumption ==
  /\ Actions \subseteq AllActions
  /\ Ids \cap Nat = {} /\ NoId \notin Ids
  /\ MaxRequests \in Nat

VARIABLES
  serialReady,  \* whether the port could be opened, known before any client
  sockets,      \* "open", "closing" (not OPEN any more) or "closed"
  requests,     \* the messages received: [ws, id, action]
  pending,      \* pendingRequests
  timers,       \* the requests whose timer is armed
  closers,      \* <<ws, id>>: on 'close' of ws, delete id
  wire,         \* commands on their way to the device
  frames,       \* answers on their way back: [code, req]
  told,         \* what the client of each request was sent under its id
  resolved,     \* <<n, m>>: the answer to m was taken for that to n
  abandoned     \* requests that ended, or lost their command, otherwise

vars == <<serialReady, sockets, requests, pending, timers, closers, wire,
          frames, told, resolved, abandoned>>

Numbers == 1 .. Len(requests)

(* The key in the Map: the client's id, or a fresh one. *)
IdOf(n) == IF requests[n].id = NoId THEN n ELSE requests[n].id

Init ==
  /\ serialReady \in BOOLEAN
  /\ sockets = [ws \in Sockets |-> "open"]
  /\ requests = <<>>
  /\ pending = {} /\ timers = {} /\ closers = {}
  /\ wire = <<>> /\ frames = <<>>
  /\ told = <<>>
  /\ resolved = {} /\ abandoned = {}

(* The answers that handleClientMessage() waits for. *)
expectedCodes(action) ==
  CASE action \in {"setProfile", "joinByIndex", "joinByName", "setDeviceGps",
                   "sendChannelText"} -> {"OK", "ERR"}
    [] action = "getProfile"  -> {"PROFILE", "ERR"}
    [] action = "createLobby" -> {"CHANNEL_INFO", "ERR"}
    [] action = "sendText"    -> {"SENT", "ERR"}

(* The answers that handleCmdFrame() of the companion gives. *)
AnswersTo(action) ==
  CASE action \in {"setProfile", "joinByIndex", "setDeviceGps",
                   "sendChannelText"} -> {"OK", "ERR"}
    [] action = "getProfile" -> {"PROFILE", "ERR"}
    [] action \in {"createLobby", "joinByName"} -> {"CHANNEL_INFO", "ERR"}
    [] action = "sendText" -> {"SENT", "ERR"}

----------------------------------------------------------------------------
(* Pending requests and their timers.                                      *)

PendingUnder(id) == {n \in pending : IdOf(n) = id}

(* Mutant: the timer runs on. *)
clearNoTimeout(S) == timers

clearTimeouts(S) == timers \ S

Tell(n, what) == [told EXCEPT ![n] = Append(@, what)]
IsOpen(n) == sockets[requests[n].ws] = "open"

(* Mutant: the exception is not answered. *)
RefusedSilently(ws, id, action) ==
  /\ sockets[ws] = "open"
  /\ action = "device.query"
  /\ Len(requests) < MaxRequests
  /\ requests' = Append(requests, [ws |-> ws, id |-> id, action |-> action])
  /\ UNCHANGED <<serialReady, sockets, pending, timers, closers, wire,
                 frames, told, resolved, abandoned>>

(***************************************************************************)
(* device.query: the list of expected codes cannot be evaluated, because   *)
(* RESP_CODE_DISABLED is not defined, and the catch of the message event   *)
(* answers "invalid json".  (A message of which a parameter is missing is  *)
(* refused in the same way, and leaves no trace either.)                   *)
(***************************************************************************)
Refused(ws, id, action) ==
  /\ sockets[ws] = "open"
  /\ action = "device.query"
  /\ Len(requests) < MaxRequests
  /\ requests' = Append(requests, [ws |-> ws, id |-> id, action |-> action])
  /\ told' = Append(told, <<"refused">>)
  /\ UNCHANGED <<serialReady, sockets, pending, timers, closers, wire,
                 frames, resolved, abandoned>>

(* addPendingRequest(), and the command to the device. *)
Accepted(ws, id, action) ==
  LET n   == Len(requests) + 1
      key == IF id = NoId THEN n ELSE id
      old == PendingUnder(key)
  IN /\ sockets[ws] = "open"
     /\ action # "device.query"
     /\ n <= MaxRequests
     /\ requests' = Append(requests, [ws |-> ws, id |-> id, action |-> action])
     /\ pending' = (pending \ old) \cup {n}
     /\ timers' = clearTimeouts(old) \cup {n}
     /\ closers' = closers \cup {<<ws, key>>}
     /\ abandoned' = abandoned \cup old
     /\ IF serialReady
        THEN /\ told' = Append(told, <<>>)
             /\ wire' = Append(wire, n)
        ELSE /\ told' = Append(told, <<"serial_unavailable">>)
             /\ UNCHANGED wire
     /\ UNCHANGED <<serialReady, sockets, frames, resolved>>

(* The timer of n: the entry under its id goes, whosever it is. *)
Timeout(n) ==
  /\ n \in timers
  /\ timers' = timers \ {n}
  /\ pending' = pending \ PendingUnder(IdOf(n))
  /\ abandoned' = abandoned \cup PendingUnder(IdOf(n))
  /\ told' = IF IsOpen(n) THEN Tell(n, "timeout") ELSE told
  /\ UNCHANGED <<serialReady, sockets, requests, closers, wire, frames,
                 resolved>>

----------------------------------------------------------------------------
(* A socket is closed: it stops being OPEN at once, the 'close' event and  *)
(* its handlers, one per request made over it, come later.                 *)

BeginClose(ws) ==
  /\ sockets[ws] = "open"
  /\ sockets' = [sockets EXCEPT ![ws] = "closing"]
  /\ UNCHANGED <<serialReady, requests, pending, timers, closers, wire,
                 frames, told, resolved, abandoned>>

(* Mutant: the requests of every socket. *)
AllIds(ws) == {c[2] : c \in closers}

IdsOf(ws) == {c[2] : c \in {d \in closers : d[1] = ws}}

Close(ws) ==
  LET gone == {n \in pending : IdOf(n) \in IdsOf(ws)}
  IN /\ sockets[ws] = "closing"
     /\ sockets' = [sockets EXCEPT ![ws] = "closed"]
     /\ pending' = pending \ gone
     /\ timers' = clearTimeouts(gone)
     /\ abandoned' = abandoned \cup gone
     /\ UNCHANGED <<serialReady, requests, closers, wire, frames, told,
                    resolved>>

----------------------------------------------------------------------------
(* The device takes the commands one by one and answers each, unless the   *)
(* command or the answer is lost on the line.                              *)

DeviceAnswers ==
  /\ wire # <<>>
  /\ wire' = Tail(wire)
  /\ \E code \in AnswersTo(requests[Head(wire)].action) :
       frames' = Append(frames, [code |-> code, req |-> Head(wire)])
  /\ UNCHANGED <<serialReady, sockets, requests, pending, timers, closers,
                 told, resolved, abandoned>>

LineLoses ==
  /\ wire # <<>>
  /\ wire' = Tail(wire)
  /\ abandoned' = abandoned \cup {Head(wire)}
  /\ UNCHANGED <<serialReady, sockets, requests, pending, timers, closers,
                 frames, told, resolved>>

Candidates(code) == {n \in pending : code \in expectedCodes(requests[n].action)}

(* Mutant: the latest one. *)
LastOf(S) == CHOOSE n \in S : \A m \in S : m <= n

FirstOf(S) == CHOOSE n \in S : \A m \in S : n <= m

(***************************************************************************)
(* handleDeviceFrame(): the first pending request that expects this code   *)
(* is over.  The reply to it is written only for an ERR: for any other     *)
(* code "code !== RESP_CODE_DISABLED" is evaluated, which throws, and the  *)
(* catch ignores it.  (Pushes of the device match no request.)             *)
(***************************************************************************)
DeviceFrame ==
  LET f == Head(frames)
      n == FirstOf(Candidates(f.code))
  IN /\ frames # <<>>
     /\ frames' = Tail(frames)
     /\ IF Candidates(f.code) = {}
        THEN UNCHANGED <<pending, timers, told, resolved>>
        ELSE /\ pending' = pending \ {n}
             /\ timers' = clearTimeouts({n})
             /\ resolved' = resolved \cup {<<n, f.req>>}
             /\ told' = IF f.code = "ERR" /\ IsOpen(n) THEN Tell(n, "error")
                                                        ELSE told
     /\ UNCHANGED <<serialReady, sockets, requests, closers, wire, abandoned>>

----------------------------------------------------------------------------
Next ==
  \/ \E ws \in Sockets : BeginClose(ws) \/ Close(ws)
  \/ \E ws \in Sockets, id \in Ids \cup {NoId}, action \in Actions :
       Refused(ws, id, action) \/ Accepted(ws, id, action)
  \/ \E n \in timers : Timeout(n)
  \/ DeviceAnswers \/ LineLoses \/ DeviceFrame

Spec == Init /\ [][Next]_vars

----------------------------------------------------------------------------
(* Properties.                                                             *)

(* The type invariant. *)
TypeOK ==
  /\ serialReady \in BOOLEAN
  /\ sockets \in [Sockets -> {"open", "closing", "closed"}]
  /\ requests \in Seq([ws : Sockets, id : Ids \cup {NoId}, action : Actions])
  /\ Len(requests) <= MaxRequests
  /\ pending \subseteq Numbers /\ timers \subseteq Numbers
  /\ closers \subseteq Sockets \X (Ids \cup Numbers)
  /\ wire \in Seq(Numbers)
  /\ frames \in Seq([code : {"OK", "ERR", "SENT", "PROFILE", "CHANNEL_INFO"},
                     req : Numbers])
  /\ told \in Seq(Seq({"refused", "serial_unavailable", "timeout", "error"}))
  /\ Len(told) = Len(requests)
  /\ resolved \subseteq Numbers \X Numbers
  /\ abandoned \subseteq Numbers

(***************************************************************************)
(* Every armed timer belongs to a request that is pending, and no two      *)
(* pending requests have one id: a timer that runs out never takes away    *)
(* a later request that uses its id again (addPendingRequest).             *)
(***************************************************************************)
TimersOwnPending ==
  /\ timers = pending
  /\ \A m, n \in pending : IdOf(m) = IdOf(n) => m = n

(***************************************************************************)
(* A client is told one thing of each request: an error of the device is   *)
(* not followed by a timeout, nor a timeout by a late answer.  Only where  *)
(* there is no serial port the timer, armed all the same, adds a second.   *)
(***************************************************************************)
AnsweredOnce ==
  \A n \in Numbers : Len(told[n]) <= IF serialReady THEN 1 ELSE 2

(***************************************************************************)
(* As long as no request was given up and no command lost, each answer     *)
(* goes to the request that caused it, although it carries no identifier:  *)
(* the device answers in order, and the first pending request that expects *)
(* the code is the one.  Not so when a lobby is joined by name, which the  *)
(* device answers with a code that the gateway does not expect.            *)
(***************************************************************************)
AnswersBelong ==
  abandoned = {} /\ (\A n \in Numbers : requests[n].action # "joinByName")
    => \A r \in resolved : r[1] = r[2]

(***************************************************************************)
(* A request whose client stays, and whose id nobody else uses, is pending *)
(* with its timer armed until it ends in a reply or in a frame that all    *)
(* clients are sent (broadcast), whatever other clients do and the line    *)
(* loses.                                                                  *)
(***************************************************************************)
HasItsOwnId(n) == \A m \in Numbers \ {n} : IdOf(m) # IdOf(n)

NoneIsForgotten ==
  \A n \in Numbers : HasItsOwnId(n) /\ IsOpen(n) =>
    \/ n \in pending
    \/ told[n] # <<>>
    \/ \E r \in resolved : r[1] = n

=============================================================================
