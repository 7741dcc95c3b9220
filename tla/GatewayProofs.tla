---------------------------- MODULE GatewayProofs ----------------------------
(***************************************************************************)
(* Proofs about Gateway for any sockets and identifiers and any number of  *)
(* requests.                                                               *)
(***************************************************************************)
EXTENDS Gateway, SequenceTheorems, WellFoundedInduction, TLAPS

Codes == {"OK", "ERR", "SENT", "PROFILE", "CHANNEL_INFO"}
Replies == {"refused", "serial_unavailable", "timeout", "error"}
Messages == [ws : Sockets, id : Ids \cup {NoId}, action : Actions]
Commands == Actions \ {"device.query"}

(* The oldest of some requests is one of them. *)
LEMMA FirstIsOldest ==
  ASSUME NEW S \in SUBSET Nat, S # {}
  PROVE  FirstOf(S) \in S /\ \A m \in S : FirstOf(S) <= m
<1>1. PICK n \in S : \A m \in S : ~(<<m, n>> \in OpToRel(<, Nat))
  BY NatLessThanWellFounded, WFMin
<1>2. ASSUME NEW m \in S
      PROVE  n <= m
  <2>1. <<m, n>> \in Nat \X Nat /\ ~(<<m, n>> \in OpToRel(<, Nat))
    BY <1>1
  <2>2. ~(m < n)
    BY <2>1 DEF OpToRel
  <2> QED
    BY <2>2
<1> QED
  BY <1>2 DEF FirstOf

(* Every answer of the device has one of the codes, and, unless a lobby is *)
(* joined by name, one that the gateway waits for.                         *)
LEMMA AnswersExpected ==
  ASSUME NEW action \in Commands
  PROVE  /\ AnswersTo(action) \subseteq Codes
         /\ action # "joinByName" => AnswersTo(action) = expectedCodes(action)
BY GatewayAssumption DEF Commands, AllActions, Codes, AnswersTo, expectedCodes

(* A message only adds to what is known of the requests. *)
LEMMA MessageAdds ==
  ASSUME TypeOK, NEW message \in Messages,
         requests' = Append(requests, message)
  PROVE  /\ requests' \in Seq(Messages)
         /\ Len(requests) \in Nat
         /\ Len(requests)' = Len(requests) + 1
         /\ Numbers' = Numbers \cup {Len(requests) + 1}
         /\ Len(requests) + 1 \notin Numbers
         /\ \A n \in Numbers : requests'[n] = requests[n]
         /\ requests'[Len(requests) + 1] = message
<1>1. requests \in Seq(Messages)
  BY DEF TypeOK, Messages
<1>2. /\ Append(requests, message) \in Seq(Messages)
      /\ Len(Append(requests, message)) = Len(requests) + 1
      /\ \A i \in 1 .. Len(requests) : Append(requests, message)[i] = requests[i]
      /\ Append(requests, message)[Len(requests) + 1] = message
      /\ Len(requests) \in Nat
  BY <1>1, AppendProperties, LenProperties
<1>3. Numbers' = 1 .. Len(requests) + 1
  BY <1>2 DEF Numbers
<1>4. 1 .. Len(requests) + 1 = Numbers \cup {Len(requests) + 1}
  BY <1>2 DEF Numbers
<1> QED
  BY <1>2, <1>3, <1>4 DEF Numbers

LEMMA RequestsTyped ==
  ASSUME TypeOK, NEW n \in Numbers
  PROVE  /\ n \in Nat
         /\ requests[n].ws \in Sockets
         /\ requests[n].action \in Actions
         /\ IdOf(n) \in Ids \cup {n}
         /\ n \in 1 .. Len(told)
<1>1. requests[n] \in Messages
  BY ElementOfSeq DEF TypeOK, Messages, Numbers
<1>2. Len(requests) \in Nat
  BY DEF TypeOK
<1> QED
  BY <1>1, <1>2 DEF Messages, IdOf, TypeOK, Numbers

------------------------------------------------------------------------------
(* Types.                                                                  *)

(* Only requests that gave a command are on the wire. *)
CommandsOnWire ==
  \A i \in 1 .. Len(wire) : requests[wire[i]].action # "device.query"

TypeInv == TypeOK /\ CommandsOnWire

LEMMA InitTyped == Init => TypeInv
<1> SUFFICES ASSUME Init PROVE TypeOK /\ CommandsOnWire
  BY DEF TypeInv
<1>1. Len(requests) = 0 /\ Len(told) = 0 /\ Len(wire) = 0 /\ Len(frames) = 0
  BY DEF Init
<1>2. \A S : <<>> \in Seq(S)
  BY EmptySeq
<1> QED
  BY <1>1, <1>2, GatewayAssumption DEF Init, TypeOK, CommandsOnWire

LEMMA ToldTyped ==
  ASSUME TypeOK, NEW n \in Numbers, NEW what \in Replies, told' = Tell(n, what)
  PROVE  /\ told' \in Seq(Seq(Replies))
         /\ Len(told') = Len(told)
         /\ told'[n] = Append(told[n], what)
         /\ Len(told'[n]) = Len(told[n]) + 1
         /\ \A m \in Numbers \ {n} : told'[m] = told[m]
<1>1. n \in 1 .. Len(told) /\ told \in Seq(Seq(Replies))
  BY RequestsTyped DEF TypeOK, Replies
<1>2. told[n] \in Seq(Replies)
  BY <1>1, ElementOfSeq
<1>3. Append(told[n], what) \in Seq(Replies)
      /\ Len(Append(told[n], what)) = Len(told[n]) + 1
  BY <1>2, AppendProperties
<1>4. told' = [told EXCEPT ![n] = Append(told[n], what)]
  BY DEF Tell
<1>5. told' \in Seq(Seq(Replies)) /\ Len(told') = Len(told)
  BY <1>1, <1>3, <1>4, ExceptSeq
<1>6. told \in [1 .. Len(told) -> Seq(Replies)]
  BY <1>1, LenProperties
<1>7. Numbers = 1 .. Len(told)
  BY DEF TypeOK, Numbers
<1> QED
  BY <1>1, <1>3, <1>4, <1>5, <1>6, <1>7

LEMMA AnswerTyped ==
  ASSUME TypeOK, NEW answer \in Seq(Replies), told' = Append(told, answer)
  PROVE  /\ told' \in Seq(Seq(Replies))
         /\ Len(told') = Len(told) + 1
         /\ \A m \in Numbers : told'[m] = told[m]
         /\ told'[Len(requests) + 1] = answer
<1>1. told \in Seq(Seq(Replies)) /\ Len(told) = Len(requests)
  BY DEF TypeOK, Replies
<1> QED
  BY <1>1, AppendProperties DEF Numbers

LEMMA MessageTyped ==
  ASSUME NEW ws \in Sockets, NEW id \in Ids \cup {NoId}, NEW action \in Actions
  PROVE  [ws |-> ws, id |-> id, action |-> action] \in Messages
BY DEF Messages

(* What is known of the requests only grows. *)
LEMMA NumbersKept ==
  ASSUME TypeOK, UNCHANGED requests
  PROVE  Numbers' = Numbers /\ \A n \in Numbers : requests'[n] = requests[n]
BY DEF Numbers

(* What is on the line stays well typed when a request is added. *)
LEMMA LineKept ==
  ASSUME TypeOK, Numbers \subseteq Numbers'
  PROVE  wire \in Seq(Numbers') /\ frames \in Seq([code : Codes, req : Numbers'])
<1>1. wire \in Seq(Numbers) /\ frames \in Seq([code : Codes, req : Numbers])
  BY DEF TypeOK, Codes
<1>2. [code : Codes, req : Numbers] \subseteq [code : Codes, req : Numbers']
  OBVIOUS
<1>3. wire \in Seq(Numbers')
  BY <1>1, SeqMonotonic
<1>4. frames \in Seq([code : Codes, req : Numbers'])
  BY <1>1, <1>2, SeqMonotonic
<1> QED
  BY <1>3, <1>4

LEMMA RefusedTyped ==
  ASSUME TypeInv, NEW ws \in Sockets, NEW id \in Ids \cup {NoId},
         NEW action \in Actions, Refused(ws, id, action)
  PROVE  TypeInv'
<1> DEFINE message == [ws |-> ws, id |-> id, action |-> action]
<1>1. message \in Messages
  BY MessageTyped
<1>2. requests' = Append(requests, message) /\ TypeOK
  BY DEF Refused, TypeInv
<1> HIDE DEF message
<1>3. /\ requests' \in Seq(Messages)
      /\ Len(requests) \in Nat
      /\ Len(requests)' = Len(requests) + 1
      /\ Numbers \subseteq Numbers'
      /\ \A n \in Numbers : requests'[n] = requests[n]
  BY <1>1, <1>2, MessageAdds
<1>4. <<"refused">> \in Seq(Replies)
  BY DEF Replies
<1>5. told' \in Seq(Seq(Replies)) /\ Len(told') = Len(told) + 1
  BY <1>2, <1>4, AnswerTyped DEF Refused
<1>6. wire \in Seq(Numbers') /\ frames \in Seq([code : Codes, req : Numbers'])
  BY <1>2, <1>3, LineKept
<1>7. TypeOK'
  <2>1. Len(requests)' <= MaxRequests
    BY <1>2, <1>3, GatewayAssumption DEF Refused
  <2>2. Len(told)' = Len(requests)'
    BY <1>2, <1>3, <1>5 DEF TypeOK
  <2>3. UNCHANGED <<serialReady, sockets, pending, timers, closers, wire,
                    frames, resolved, abandoned>>
    BY DEF Refused
  <2>4. closers \subseteq Sockets \X (Ids \cup Numbers')
    BY <1>2, <1>3 DEF TypeOK
  <2>5. resolved \subseteq Numbers' \X Numbers'
    BY <1>2, <1>3 DEF TypeOK
  <2> QED
    BY <1>2, <1>3, <1>5, <1>6, <2>1, <2>2, <2>3, <2>4, <2>5
       DEF TypeOK, Messages, Codes, Replies
<1>8. CommandsOnWire'
  <2>1. \A i \in 1 .. Len(wire) : wire[i] \in Numbers
    BY <1>2, ElementOfSeq DEF TypeOK
  <2> QED
    BY <1>3, <2>1 DEF TypeInv, CommandsOnWire, Refused
<1> QED
  BY <1>7, <1>8 DEF TypeInv

LEMMA AcceptedTyped ==
  ASSUME TypeInv, NEW ws \in Sockets, NEW id \in Ids \cup {NoId},
         NEW action \in Actions, Accepted(ws, id, action)
  PROVE  TypeInv'
<1> DEFINE message == [ws |-> ws, id |-> id, action |-> action]
           n       == Len(requests) + 1
           key     == IF id = NoId THEN n ELSE id
<1>1. message \in Messages
  BY MessageTyped
<1>2. requests' = Append(requests, message) /\ TypeOK
  BY DEF Accepted, TypeInv
<1>3. /\ requests' \in Seq(Messages)
      /\ Len(requests) \in Nat
      /\ Len(requests)' = Len(requests) + 1
      /\ Numbers' = Numbers \cup {n}
      /\ \A k \in Numbers : requests'[k] = requests[k]
      /\ requests'[n] = message
  <2> HIDE DEF message
  <2> QED
    BY <1>1, <1>2, MessageAdds
<1>4. PICK answer \in {<<>>, <<"serial_unavailable">>} : told' = Append(told, answer)
  BY DEF Accepted
<1>5. told' \in Seq(Seq(Replies)) /\ Len(told') = Len(told) + 1
  <2>1. <<>> \in Seq(Replies) /\ <<"serial_unavailable">> \in Seq(Replies)
    BY EmptySeq DEF Replies
  <2>2. answer \in Seq(Replies)
    BY <2>1
  <2> QED
    BY <1>2, <1>4, <2>2, AnswerTyped
<1>6. wire \in Seq(Numbers') /\ frames \in Seq([code : Codes, req : Numbers'])
  BY <1>2, <1>3, LineKept
<1>7. wire' \in Seq(Numbers')
  <2>1. wire' = wire \/ wire' = Append(wire, n)
    BY DEF Accepted
  <2> QED
    BY <1>3, <1>6, <2>1, AppendProperties
<1>8. TypeOK'
  <2>1. Len(requests)' <= MaxRequests
    BY <1>2, <1>3, GatewayAssumption DEF Accepted
  <2>2. Len(told)' = Len(requests)'
    BY <1>2, <1>3, <1>5 DEF TypeOK
  <2>3. UNCHANGED <<serialReady, sockets, frames, resolved>>
    BY DEF Accepted
  <2>4. /\ pending' \subseteq pending \cup {n}
        /\ timers' \subseteq timers \cup {n}
        /\ closers' = closers \cup {<<ws, key>>}
        /\ abandoned' \subseteq abandoned \cup pending
    BY DEF Accepted, clearTimeouts, PendingUnder
  <2>5. key \in Ids \cup {n}
    OBVIOUS
  <2> HIDE DEF key
  <2>6. closers' \subseteq Sockets \X (Ids \cup Numbers')
    BY <1>2, <1>3, <2>4, <2>5 DEF TypeOK
  <2>7. resolved' \subseteq Numbers' \X Numbers'
    BY <1>2, <1>3, <2>3 DEF TypeOK
  <2>8. /\ pending' \subseteq Numbers' /\ timers' \subseteq Numbers'
        /\ abandoned' \subseteq Numbers'
    BY <1>2, <1>3, <2>4 DEF TypeOK
  <2> QED
    BY <1>2, <1>3, <1>5, <1>6, <1>7, <2>1, <2>2, <2>3, <2>6, <2>7, <2>8
       DEF TypeOK, Messages, Codes, Replies
<1>9. CommandsOnWire'
  <2>1. \A i \in 1 .. Len(wire) : wire[i] \in Numbers
    BY <1>2, ElementOfSeq DEF TypeOK
  <2>2. \A i \in 1 .. Len(wire) : requests'[wire[i]].action # "device.query"
    BY <1>3, <2>1 DEF TypeInv, CommandsOnWire
  <2>3. requests'[n].action # "device.query"
    BY <1>3 DEF Accepted
  <2>4. CASE wire' = wire
    BY <2>2, <2>4 DEF CommandsOnWire
  <2>5. CASE wire' = Append(wire, n)
    <3>1. wire \in Seq(Numbers') /\ n \in Numbers'
      BY <1>3, <1>6
    <3> HIDE DEF n
    <3>2. /\ Len(wire') = Len(wire) + 1 /\ Len(wire) \in Nat
          /\ \A i \in 1 .. Len(wire) : wire'[i] = wire[i]
          /\ wire'[Len(wire) + 1] = n
      BY <2>5, <3>1, AppendProperties, LenProperties
    <3>3. ASSUME NEW i \in 1 .. Len(wire')
          PROVE  requests'[wire'[i]].action # "device.query"
      <4>1. i \in 1 .. Len(wire) \/ i = Len(wire) + 1
        BY <3>2
      <4> QED
        BY <2>2, <2>3, <3>2, <4>1
    <3> QED
      BY <3>3 DEF CommandsOnWire
  <2> QED
    BY <2>4, <2>5 DEF Accepted
<1> QED
  BY <1>8, <1>9 DEF TypeInv

(* An event that adds no request and keeps the rest within its types.      *)
LEMMA EventTyped ==
  ASSUME TypeInv,
         UNCHANGED <<serialReady, requests, closers>>,
         sockets' \in [Sockets -> {"open", "closing", "closed"}],
         pending' \subseteq pending, timers' \subseteq timers,
         abandoned' \subseteq Numbers,
         resolved' \subseteq Numbers \X Numbers,
         frames' \in Seq([code : Codes, req : Numbers]),
         told' \in Seq(Seq(Replies)), Len(told') = Len(told),
         wire' = wire \/ (wire # <<>> /\ wire' = Tail(wire))
  PROVE  TypeInv'
<1>1. TypeOK /\ CommandsOnWire /\ Numbers' = Numbers
  BY NumbersKept DEF TypeInv
<1>2. wire \in Seq(Numbers)
  BY <1>1 DEF TypeOK
<1>3. wire' \in Seq(Numbers) /\ CommandsOnWire'
  <2>1. CASE wire' = wire
    BY <1>1, <1>2, <2>1 DEF CommandsOnWire
  <2>2. CASE wire # <<>> /\ wire' = Tail(wire)
    <3>1. /\ wire' \in Seq(Numbers) /\ Len(wire') = Len(wire) - 1
          /\ \A i \in 1 .. Len(wire') : wire'[i] = wire[i + 1]
          /\ Len(wire) \in Nat
      BY <1>2, <2>2, HeadTailProperties, LenProperties
    <3>2. ASSUME NEW i \in 1 .. Len(wire')
          PROVE  i + 1 \in 1 .. Len(wire)
      BY <3>1
    <3> QED
      BY <1>1, <3>1, <3>2 DEF CommandsOnWire
  <2> QED
    BY <2>1, <2>2
<1>4. pending' \subseteq Numbers /\ timers' \subseteq Numbers
  BY <1>1 DEF TypeOK
<1>5. Len(told') = Len(requests') /\ Len(requests') <= MaxRequests
  BY <1>1 DEF TypeOK
<1>6. closers' \subseteq Sockets \X (Ids \cup Numbers')
  BY <1>1 DEF TypeOK
<1>7. serialReady' \in BOOLEAN
  BY <1>1 DEF TypeOK
<1>8. requests' \in Seq([ws : Sockets, id : Ids \cup {NoId}, action : Actions])
  BY <1>1 DEF TypeOK
<1>9. TypeOK'
  BY <1>1, <1>3, <1>4, <1>5, <1>6, <1>7, <1>8 DEF TypeOK, Codes, Replies
<1> QED
  BY <1>3, <1>9 DEF TypeInv

(* What events keep when they keep a variable. *)
LEMMA PartsTyped ==
  ASSUME TypeInv
  PROVE  /\ sockets \in [Sockets -> {"open", "closing", "closed"}]
         /\ pending \subseteq Numbers /\ timers \subseteq Numbers
         /\ abandoned \subseteq Numbers
         /\ resolved \subseteq Numbers \X Numbers
         /\ wire \in Seq(Numbers)
         /\ frames \in Seq([code : Codes, req : Numbers])
         /\ told \in Seq(Seq(Replies))
BY DEF TypeInv, TypeOK, Codes, Replies

LEMMA ClientEventsTyped ==
  ASSUME TypeInv,
         \/ \E ws \in Sockets : BeginClose(ws) \/ Close(ws)
         \/ \E n \in timers : Timeout(n)
  PROVE  TypeInv'
<1> USE PartsTyped
<1>1. ASSUME NEW ws \in Sockets, BeginClose(ws)
      PROVE  TypeInv'
  BY <1>1, EventTyped DEF BeginClose
<1>2. ASSUME NEW ws \in Sockets, Close(ws)
      PROVE  TypeInv'
  <2>1. abandoned' \subseteq abandoned \cup pending
    BY <1>2 DEF Close
  <2>2. timers' \subseteq timers /\ pending' \subseteq pending
    BY <1>2 DEF Close, clearTimeouts
  <2>3. sockets' \in [Sockets -> {"open", "closing", "closed"}]
    BY <1>2 DEF Close
  <2>4. UNCHANGED <<serialReady, requests, closers, wire, frames, told, resolved>>
    BY <1>2 DEF Close
  <2> QED
    BY <2>1, <2>2, <2>3, <2>4, EventTyped
<1>3. ASSUME NEW n \in timers, Timeout(n)
      PROVE  TypeInv'
  <2>1. abandoned' \subseteq abandoned \cup pending
    BY <1>3 DEF Timeout, PendingUnder
  <2>2. timers' \subseteq timers /\ pending' \subseteq pending
    BY <1>3 DEF Timeout
  <2>3. told' \in Seq(Seq(Replies)) /\ Len(told') = Len(told)
    <3>1. told' = told \/ told' = Tell(n, "timeout")
      BY <1>3 DEF Timeout
    <3> QED
      BY <3>1, ToldTyped DEF TypeInv, Replies
  <2>4. UNCHANGED <<serialReady, sockets, requests, closers, wire, frames, resolved>>
    BY <1>3 DEF Timeout
  <2> QED
    BY <2>1, <2>2, <2>3, <2>4, EventTyped
<1> QED
  BY <1>1, <1>2, <1>3

LEMMA CandidatesArePending ==
  ASSUME TypeInv, NEW code, Candidates(code) # {}
  PROVE  /\ FirstOf(Candidates(code)) \in pending
         /\ code \in expectedCodes(requests[FirstOf(Candidates(code))].action)
         /\ \A m \in Candidates(code) : FirstOf(Candidates(code)) <= m
<1>1. Candidates(code) \in SUBSET Nat /\ Candidates(code) \subseteq pending
  <2>1. Numbers \subseteq Nat
    BY DEF Numbers, TypeInv, TypeOK
  <2> QED
    BY <2>1, PartsTyped DEF Candidates
<1>2. /\ FirstOf(Candidates(code)) \in Candidates(code)
      /\ \A m \in Candidates(code) : FirstOf(Candidates(code)) <= m
  BY <1>1, FirstIsOldest
<1> QED
  BY <1>1, <1>2 DEF Candidates

LEMMA DeviceEventsTyped ==
  ASSUME TypeInv, DeviceAnswers \/ LineLoses \/ DeviceFrame
  PROVE  TypeInv'
<1> USE PartsTyped
<1>1. CASE DeviceAnswers
  <2>1. wire # <<>> /\ Head(wire) \in Numbers
    BY <1>1, HeadTailProperties DEF DeviceAnswers
  <2>2. requests[Head(wire)].action \in Commands
    <3>1. 1 \in 1 .. Len(wire) /\ Head(wire) = wire[1]
      BY <2>1
    <3> QED
      BY <2>1, <3>1, RequestsTyped DEF TypeInv, CommandsOnWire, Commands
  <2>3. PICK code \in AnswersTo(requests[Head(wire)].action) :
           frames' = Append(frames, [code |-> code, req |-> Head(wire)])
    BY <1>1 DEF DeviceAnswers
  <2>4. [code |-> code, req |-> Head(wire)] \in [code : Codes, req : Numbers]
    BY <2>1, <2>2, AnswersExpected
  <2>5. frames' \in Seq([code : Codes, req : Numbers])
    BY <2>3, <2>4, AppendProperties
  <2>6. UNCHANGED <<serialReady, sockets, requests, pending, timers, closers,
                    told, resolved, abandoned>> /\ wire' = Tail(wire)
    BY <1>1 DEF DeviceAnswers
  <2> QED
    BY <2>1, <2>5, <2>6, EventTyped
<1>2. CASE LineLoses
  <2>1. wire # <<>> /\ Head(wire) \in Numbers
    BY <1>2, HeadTailProperties DEF LineLoses
  <2>2. abandoned' = abandoned \cup {Head(wire)} /\ wire' = Tail(wire)
    BY <1>2 DEF LineLoses
  <2>3. UNCHANGED <<serialReady, sockets, requests, pending, timers, closers,
                    frames, told, resolved>>
    BY <1>2 DEF LineLoses
  <2> QED
    BY <2>1, <2>2, <2>3, EventTyped
<1>3. CASE DeviceFrame
  <2> DEFINE code == Head(frames).code
             n    == FirstOf(Candidates(code))
  <2>1. /\ frames # <<>> /\ frames' = Tail(frames)
        /\ UNCHANGED <<serialReady, sockets, requests, closers, wire, abandoned>>
    BY <1>3 DEF DeviceFrame
  <2>2. /\ frames' \in Seq([code : Codes, req : Numbers])
        /\ Head(frames) \in [code : Codes, req : Numbers]
    BY <2>1, HeadTailProperties
  <2>3. CASE Candidates(code) = {}
    <3>1. UNCHANGED <<pending, timers, told, resolved>>
      BY <1>3, <2>3 DEF DeviceFrame
    <3> QED
      BY <2>1, <2>2, <3>1, EventTyped
  <2>4. CASE Candidates(code) # {}
    <3>1. n \in Numbers
      BY <2>4, CandidatesArePending
    <3>2. /\ pending' = pending \ {n} /\ timers' = clearTimeouts({n})
          /\ resolved' = resolved \cup {<<n, Head(frames).req>>}
          /\ told' = told \/ told' = Tell(n, "error")
      BY <1>3, <2>4 DEF DeviceFrame
    <3> HIDE DEF n
    <3>3. told' \in Seq(Seq(Replies)) /\ Len(told') = Len(told)
      BY <3>1, <3>2, ToldTyped DEF TypeInv, Replies
    <3>4. timers' \subseteq timers
      BY <3>2 DEF clearTimeouts
    <3>5. resolved' \subseteq Numbers \X Numbers
      BY <2>2, <3>1, <3>2
    <3> QED
      BY <2>1, <2>2, <3>2, <3>3, <3>4, <3>5, EventTyped
  <2> QED
    BY <2>3, <2>4
<1> QED
  BY <1>1, <1>2, <1>3

LEMMA StepTyped == TypeInv /\ [Next]_vars => TypeInv'
<1> SUFFICES ASSUME TypeInv, [Next]_vars PROVE TypeInv'
  OBVIOUS
<1>1. CASE UNCHANGED vars
  <2>1. sockets' \in [Sockets -> {"open", "closing", "closed"}]
    BY <1>1, PartsTyped DEF vars
  <2> QED
    BY <1>1, <2>1, PartsTyped, EventTyped DEF vars
<1>2. CASE \E ws \in Sockets, id \in Ids \cup {NoId}, action \in Actions :
             Refused(ws, id, action) \/ Accepted(ws, id, action)
  BY <1>2, RefusedTyped, AcceptedTyped
<1> QED
  BY <1>1, <1>2, ClientEventsTyped, DeviceEventsTyped DEF Next

(* What the other theorems take of the types (TypeInv is inductive). *)
THEOREM TypesKept == Spec => []TypeInv
BY InitTyped, StepTyped, PTL DEF Spec

(***************************************************************************)
(* The state of the gateway stays well typed: requests, timers and answers *)
(* refer to requests that were made, and each request has its replies.     *)
(***************************************************************************)
THEOREM TypeCorrect == Spec => []TypeOK
<1>1. TypeInv => TypeOK
  BY DEF TypeInv
<1> QED
  BY <1>1, TypesKept, PTL

------------------------------------------------------------------------------
(* Timers.                                                                 *)

(* Requests keep their key; that of a new one is what its client said.     *)
LEMMA IdsKept ==
  ASSUME TypeInv, [Next]_vars
  PROVE  /\ Numbers \subseteq Numbers'
         /\ \A n \in Numbers : IdOf(n)' = IdOf(n) /\ requests'[n] = requests[n]
<1>1. CASE UNCHANGED requests
  BY <1>1, NumbersKept DEF TypeInv, IdOf
<1>2. ASSUME NEW ws \in Sockets, NEW id \in Ids \cup {NoId}, NEW action \in Actions,
             requests' = Append(requests, [ws |-> ws, id |-> id, action |-> action])
      PROVE  /\ Numbers \subseteq Numbers'
             /\ \A n \in Numbers : requests'[n] = requests[n]
  BY <1>2, MessageTyped, MessageAdds DEF TypeInv
<1> QED
  BY <1>1, <1>2 DEF Next, vars, Refused, Accepted, BeginClose, Close, Timeout,
     DeviceAnswers, LineLoses, DeviceFrame, IdOf

LEMMA NewRequest ==
  ASSUME TypeInv, NEW ws \in Sockets, NEW id \in Ids \cup {NoId},
         NEW action \in Actions, NEW new, new = Len(requests) + 1,
         requests' = Append(requests, [ws |-> ws, id |-> id, action |-> action])
  PROVE  /\ Numbers' = Numbers \cup {new}
         /\ new \notin Numbers
         /\ \A n \in Numbers : n < new
         /\ requests'[new] = [ws |-> ws, id |-> id, action |-> action]
         /\ IdOf(new)' = IF id = NoId THEN new ELSE id
         /\ \A n \in Numbers : IdOf(n)' = IdOf(n) /\ requests'[n] = requests[n]
<1> DEFINE message == [ws |-> ws, id |-> id, action |-> action]
<1>1. message \in Messages /\ TypeOK
  BY MessageTyped DEF TypeInv
<1>2. message.id = id
  OBVIOUS
<1> HIDE DEF message
<1>3. /\ Len(requests) \in Nat
      /\ Numbers' = Numbers \cup {new}
      /\ new \notin Numbers
      /\ \A n \in Numbers : requests'[n] = requests[n]
      /\ requests'[new] = message
  <2>1. requests' = Append(requests, message)
    BY DEF message
  <2> QED
    BY <1>1, <2>1, MessageAdds
<1>4. \A n : IdOf(n)' = IF requests'[n].id = NoId THEN n ELSE requests'[n].id
  BY DEF IdOf
<1>5. \A n \in Numbers : n < new
  BY <1>3 DEF Numbers
<1>6. \A n \in Numbers : IdOf(n)' = IdOf(n)
  BY <1>3 DEF IdOf
<1>7. IdOf(new)' = IF id = NoId THEN new ELSE id
  BY <1>2, <1>3, <1>4
<1> QED
  BY <1>3, <1>5, <1>6, <1>7 DEF message

LEMMA StepTimers ==
  ASSUME TypeInv, TimersOwnPending, [Next]_vars
  PROVE  TimersOwnPending'
<1>1. pending \subseteq Numbers
  BY PartsTyped
<1>2. \A n \in Numbers : IdOf(n)' = IdOf(n)
  BY IdsKept
<1>3. ASSUME pending' \subseteq pending, timers' = pending'
      PROVE  TimersOwnPending'
  BY <1>1, <1>2, <1>3 DEF TimersOwnPending
<1>4. ASSUME NEW ws \in Sockets, NEW id \in Ids \cup {NoId}, NEW action \in Actions,
             Accepted(ws, id, action)
      PROVE  TimersOwnPending'
  <2>0. PICK n : n = Len(requests) + 1
    OBVIOUS
  <2> DEFINE key == IF id = NoId THEN n ELSE id
             old == PendingUnder(key)
  <2>1. /\ pending' = (pending \ old) \cup {n}
        /\ timers' = (timers \ old) \cup {n}
        /\ requests' = Append(requests, [ws |-> ws, id |-> id, action |-> action])
    BY <1>4, <2>0 DEF Accepted, clearTimeouts
  <2>2. IdOf(n)' = key
    BY <2>0, <2>1, NewRequest
  <2> HIDE DEF key
  <2>3. \A m \in pending \ old : IdOf(m) # key
    BY DEF PendingUnder
  <2> HIDE DEF old
  <2> QED
    BY <1>1, <1>2, <2>1, <2>2, <2>3 DEF TimersOwnPending
<1>5. ASSUME NEW ws \in Sockets, Close(ws)
      PROVE  TimersOwnPending'
  BY <1>3, <1>5 DEF Close, clearTimeouts, TimersOwnPending
<1>6. ASSUME NEW n \in timers, Timeout(n)
      PROVE  TimersOwnPending'
  <2>1. PendingUnder(IdOf(n)) = {n}
    BY DEF TimersOwnPending, PendingUnder
  <2> QED
    BY <1>3, <1>6, <2>1 DEF Timeout, TimersOwnPending
<1>7. CASE DeviceFrame
  <2>1. \/ pending' = pending /\ timers' = timers
        \/ \E n : pending' = pending \ {n} /\ timers' = timers \ {n}
    BY <1>7 DEF DeviceFrame, clearTimeouts
  <2> QED
    BY <1>3, <2>1 DEF TimersOwnPending
<1>8. CASE UNCHANGED <<pending, timers>>
  BY <1>3, <1>8 DEF TimersOwnPending
<1> QED
  BY <1>4, <1>5, <1>6, <1>7, <1>8
     DEF Next, vars, Refused, BeginClose, DeviceAnswers, LineLoses

(***************************************************************************)
(* A timer is armed exactly for each pending request, and no two of these  *)
(* have one id, however often clients use an id again: no timer takes away *)
(* another request than its own (addPendingRequest).                       *)
(***************************************************************************)
THEOREM TimersAlwaysOwnPending == Spec => []TimersOwnPending
<1>1. Init => TimersOwnPending
  BY DEF Init, TimersOwnPending
<1> QED
  BY <1>1, TypesKept, StepTimers, PTL DEF Spec

------------------------------------------------------------------------------
(* Replies.                                                                *)

(* How much a client may have been told: what is pending has one reply     *)
(* less than its client may get.                                           *)
RepliesLeft ==
  \A n \in Numbers :
    Len(told[n]) <= (IF serialReady THEN 0 ELSE 1) + (IF n \in pending THEN 0 ELSE 1)

LEMMA RepliesCounted ==
  ASSUME TypeInv, NEW n \in Numbers
  PROVE  Len(told[n]) \in Nat
<1>1. told[n] \in Seq(Replies)
  BY RequestsTyped, ElementOfSeq, PartsTyped DEF TypeInv
<1> QED
  BY <1>1, LenProperties

LEMMA StepReplies ==
  ASSUME TypeInv, TimersOwnPending, RepliesLeft, [Next]_vars
  PROVE  RepliesLeft'
<1>1. \A n \in Numbers : Len(told[n]) \in Nat
  BY RepliesCounted
<1>2. ASSUME UNCHANGED <<serialReady, requests>>, pending' \subseteq pending,
             \A n \in Numbers :
               \/ told'[n] = told[n]
               \/ n \in pending \ pending' /\ Len(told'[n]) = Len(told[n]) + 1
      PROVE  RepliesLeft'
  <2>1. ASSUME NEW n \in Numbers
        PROVE  Len(told'[n]) <= (IF serialReady THEN 0 ELSE 1)
                                  + (IF n \in pending' THEN 0 ELSE 1)
    <3>1. CASE told'[n] = told[n]
      BY <1>1, <1>2, <2>1, <3>1 DEF RepliesLeft
    <3>2. CASE n \in pending \ pending' /\ Len(told'[n]) = Len(told[n]) + 1
      BY <1>1, <1>2, <2>1, <3>2 DEF RepliesLeft
    <3> QED
      BY <1>2, <2>1, <3>1, <3>2
  <2>2. Numbers' = Numbers
    BY <1>2, NumbersKept DEF TypeInv
  <2> QED
    BY <1>2, <2>1, <2>2 DEF RepliesLeft
<1>3. ASSUME NEW ws \in Sockets, NEW id \in Ids \cup {NoId}, NEW action \in Actions,
             NEW answer \in Seq(Replies),
             requests' = Append(requests, [ws |-> ws, id |-> id, action |-> action]),
             told' = Append(told, answer), UNCHANGED serialReady,
             pending' \subseteq pending \cup {Len(requests) + 1},
             \A n \in pending' \ pending : n = Len(requests) + 1,
             \/ Len(answer) = 0
             \/ Len(answer) = 1 /\ ~serialReady
             \/ Len(answer) = 1 /\ Len(requests) + 1 \notin pending'
      PROVE  RepliesLeft'
  <2> DEFINE new == Len(requests) + 1
  <2>1. Numbers' = Numbers \cup {new} /\ new \notin Numbers
    BY <1>3, NewRequest
  <2>2. /\ \A m \in Numbers : told'[m] = told[m]
        /\ told'[new] = answer
    BY <1>3, AnswerTyped DEF TypeInv
  <2> HIDE DEF new
  <2>3. ASSUME NEW n \in Numbers
        PROVE  Len(told'[n]) <= (IF serialReady THEN 0 ELSE 1)
                                  + (IF n \in pending' THEN 0 ELSE 1)
    <3>1. n \in pending' => n \in pending
      BY <1>3, <2>1, <2>3 DEF new
    <3> QED
      BY <1>1, <2>2, <2>3, <3>1 DEF RepliesLeft
  <2>4. \/ Len(told'[new]) = 0
        \/ Len(told'[new]) = 1 /\ ~serialReady
        \/ Len(told'[new]) = 1 /\ new \notin pending'
    BY <1>3, <2>2 DEF new
  <2>5. Len(told'[new]) <= (IF serialReady THEN 0 ELSE 1)
                             + (IF new \in pending' THEN 0 ELSE 1)
    <3>1. CASE Len(told'[new]) = 0
      BY <3>1
    <3>2. CASE Len(told'[new]) = 1 /\ ~serialReady
      BY <3>2
    <3>3. CASE Len(told'[new]) = 1 /\ new \notin pending'
      BY <3>3
    <3> QED
      BY <2>4, <3>1, <3>2, <3>3
  <2> QED
    BY <1>3, <2>1, <2>3, <2>5 DEF RepliesLeft
<1>4. ASSUME NEW ws \in Sockets, NEW id \in Ids \cup {NoId}, NEW action \in Actions,
             Refused(ws, id, action)
      PROVE  RepliesLeft'
  <2>1. <<"refused">> \in Seq(Replies) /\ Len(<<"refused">>) = 1
    BY DEF Replies
  <2>2. Len(requests) + 1 \notin pending
    BY <1>4, NewRequest, PartsTyped DEF Refused
  <2>3. Len(requests) + 1 \notin pending'
    BY <1>4, <2>2 DEF Refused
  <2>4. /\ requests' = Append(requests, [ws |-> ws, id |-> id, action |-> action])
        /\ told' = Append(told, <<"refused">>)
        /\ UNCHANGED <<serialReady, pending>>
    BY <1>4 DEF Refused
  <2> QED
    BY <1>3, <2>1, <2>3, <2>4
<1>5. ASSUME NEW ws \in Sockets, NEW id \in Ids \cup {NoId}, NEW action \in Actions,
             Accepted(ws, id, action)
      PROVE  RepliesLeft'
  <2>1. /\ <<>> \in Seq(Replies) /\ Len(<<>>) = 0
        /\ <<"serial_unavailable">> \in Seq(Replies)
        /\ Len(<<"serial_unavailable">>) = 1
    BY EmptySeq DEF Replies
  <2>2. /\ requests' = Append(requests, [ws |-> ws, id |-> id, action |-> action])
        /\ UNCHANGED serialReady
        /\ pending' \subseteq pending \cup {Len(requests) + 1}
    BY <1>5 DEF Accepted
  <2>3. \/ serialReady /\ told' = Append(told, <<>>)
        \/ ~serialReady /\ told' = Append(told, <<"serial_unavailable">>)
    BY <1>5 DEF Accepted
  <2>4. ASSUME NEW answer \in Seq(Replies), told' = Append(told, answer),
               Len(answer) = 0 \/ (~serialReady /\ Len(answer) = 1)
        PROVE  RepliesLeft'
    <3>1. \A n \in pending' \ pending : n = Len(requests) + 1
      BY <2>2
    <3> QED
      BY <1>3, <2>2, <2>4, <3>1
  <2>5. CASE serialReady
    BY <2>1, <2>3, <2>4, <2>5
  <2>6. CASE ~serialReady
    BY <2>1, <2>3, <2>4, <2>6
  <2> QED
    BY <2>5, <2>6
<1>6. ASSUME NEW ws \in Sockets, BeginClose(ws) \/ Close(ws)
      PROVE  RepliesLeft'
  BY <1>2, <1>6 DEF BeginClose, Close
<1>7. ASSUME NEW n \in timers, Timeout(n)
      PROVE  RepliesLeft'
  <2>1. n \in pending \ pending' /\ n \in Numbers
    BY <1>7, PartsTyped DEF Timeout, TimersOwnPending, PendingUnder
  <2>2. told' = told \/ told' = Tell(n, "timeout")
    BY <1>7 DEF Timeout
  <2>3. told' = Tell(n, "timeout") =>
          /\ Len(told'[n]) = Len(told[n]) + 1
          /\ \A m \in Numbers \ {n} : told'[m] = told[m]
    BY <2>1, ToldTyped DEF TypeInv, Replies
  <2> QED
    BY <1>2, <1>7, <2>1, <2>2, <2>3 DEF Timeout
<1>8. CASE DeviceFrame
  <2> DEFINE code == Head(frames).code
             n    == FirstOf(Candidates(code))
  <2>1. CASE Candidates(code) = {}
    BY <1>2, <1>8, <2>1 DEF DeviceFrame
  <2>2. CASE Candidates(code) # {}
    <3>1. n \in pending /\ n \in Numbers
      BY <2>2, CandidatesArePending, PartsTyped
    <3>2. /\ pending' = pending \ {n}
          /\ UNCHANGED <<serialReady, requests>>
          /\ told' = told \/ told' = Tell(n, "error")
      BY <1>8, <2>2 DEF DeviceFrame
    <3> HIDE DEF n
    <3>3. told' = Tell(n, "error") =>
            /\ Len(told'[n]) = Len(told[n]) + 1
            /\ \A m \in Numbers \ {n} : told'[m] = told[m]
      BY <3>1, ToldTyped DEF TypeInv, Replies
    <3> QED
      BY <1>2, <3>1, <3>2, <3>3
  <2> QED
    BY <2>1, <2>2
<1>9. CASE UNCHANGED <<serialReady, requests, pending, told>>
  BY <1>2, <1>9
<1> QED
  BY <1>4, <1>5, <1>6, <1>7, <1>8, <1>9 DEF Next, vars, DeviceAnswers, LineLoses

(***************************************************************************)
(* However timers, device and sockets race, a client is told one thing of  *)
(* each request, two when there is no serial port (addPendingRequest,      *)
(* handleDeviceFrame).                                                     *)
(***************************************************************************)
THEOREM AlwaysAnsweredOnce == Spec => []AnsweredOnce
<1>1. Init => RepliesLeft
  BY DEF Init, RepliesLeft, Numbers
<1>2. TypeInv /\ RepliesLeft => AnsweredOnce
  <2> SUFFICES ASSUME TypeInv, RepliesLeft, NEW n \in Numbers
               PROVE  Len(told[n]) <= IF serialReady THEN 1 ELSE 2
    BY DEF AnsweredOnce
  <2> QED
    BY RepliesCounted DEF RepliesLeft
<1> QED
  BY <1>1, <1>2, TypesKept, TimersAlwaysOwnPending, StepReplies, PTL DEF Spec

------------------------------------------------------------------------------
(* Requests are not forgotten.                                             *)

(* What a socket deletes when it closes are ids of requests made over it.  *)
KeysKnown ==
  \A c \in closers : \E m \in Numbers : requests[m].ws = c[1] /\ IdOf(m) = c[2]

LEMMA StepKeys ==
  ASSUME TypeInv, KeysKnown, [Next]_vars
  PROVE  KeysKnown'
<1>1. /\ Numbers \subseteq Numbers'
      /\ \A n \in Numbers : IdOf(n)' = IdOf(n) /\ requests'[n] = requests[n]
  BY IdsKept
<1>2. \A c \in closers :
        \E m \in Numbers' : requests'[m].ws = c[1] /\ IdOf(m)' = c[2]
  BY <1>1 DEF KeysKnown
<1>3. ASSUME NEW ws \in Sockets, NEW id \in Ids \cup {NoId}, NEW action \in Actions,
             Accepted(ws, id, action)
      PROVE  KeysKnown'
  <2>1. PICK n : n = Len(requests) + 1
    OBVIOUS
  <2> DEFINE key == IF id = NoId THEN n ELSE id
  <2>2. /\ closers' = closers \cup {<<ws, key>>}
        /\ requests' = Append(requests, [ws |-> ws, id |-> id, action |-> action])
    BY <1>3, <2>1 DEF Accepted
  <2>3. n \in Numbers' /\ requests'[n].ws = ws /\ IdOf(n)' = key
    BY <2>1, <2>2, NewRequest
  <2> HIDE DEF key
  <2>4. <<ws, key>>[1] = ws /\ <<ws, key>>[2] = key
    OBVIOUS
  <2>5. ASSUME NEW c \in closers'
        PROVE  \E m \in Numbers' : requests'[m].ws = c[1] /\ IdOf(m)' = c[2]
    <3>1. CASE c = <<ws, key>>
      BY <2>3, <2>4, <3>1
    <3>2. CASE c \in closers
      BY <1>2, <3>2
    <3> QED
      BY <2>2, <3>1, <3>2
  <2> QED
    BY <2>5 DEF KeysKnown
<1>4. CASE UNCHANGED closers
  BY <1>2, <1>4 DEF KeysKnown
<1> QED
  BY <1>3, <1>4 DEF Next, vars, Refused, BeginClose, Close, Timeout,
     DeviceAnswers, LineLoses, DeviceFrame

LEMMA OwnIdKept ==
  ASSUME TypeInv, [Next]_vars, NEW n \in Numbers, HasItsOwnId(n)', IsOpen(n)'
  PROVE  HasItsOwnId(n) /\ IsOpen(n)
<1>1. HasItsOwnId(n)
  BY IdsKept DEF HasItsOwnId
<1>2. requests'[n] = requests[n] /\ requests[n].ws \in Sockets
  BY IdsKept, RequestsTyped DEF TypeInv
<1>3. \A ws \in Sockets : sockets'[ws] = "open" => sockets[ws] = "open"
  BY PartsTyped DEF Next, vars, Refused, Accepted, BeginClose, Close, Timeout,
     DeviceAnswers, LineLoses, DeviceFrame
<1> QED
  BY <1>1, <1>2, <1>3 DEF IsOpen

(* What is over is accounted for. *)
Accounted(n) ==
  n \in pending \/ told[n] # <<>> \/ \E r \in resolved : r[1] = n

LEMMA StepAccounts ==
  ASSUME TypeInv, TimersOwnPending, KeysKnown, [Next]_vars,
         NEW n \in Numbers, Accounted(n), HasItsOwnId(n), IsOpen(n), IsOpen(n)',
         HasItsOwnId(n)'
  PROVE  Accounted(n)'
<1>1. ASSUME n \in pending' \/ n \notin pending, told'[n] = told[n],
             resolved \subseteq resolved'
      PROVE  Accounted(n)'
  BY <1>1 DEF Accounted
<1>2. ASSUME NEW ws \in Sockets, NEW id \in Ids \cup {NoId}, NEW action \in Actions,
             Refused(ws, id, action)
      PROVE  Accounted(n)'
  <2>1. <<"refused">> \in Seq(Replies)
    BY DEF Replies
  <2>2. told'[n] = told[n]
    BY <1>2, <2>1, AnswerTyped DEF Refused, TypeInv
  <2> QED
    BY <1>1, <1>2, <2>2 DEF Refused
<1>3. ASSUME NEW ws \in Sockets, NEW id \in Ids \cup {NoId}, NEW action \in Actions,
             Accepted(ws, id, action)
      PROVE  Accounted(n)'
  <2>1. PICK new : new = Len(requests) + 1
    OBVIOUS
  <2> DEFINE key == IF id = NoId THEN new ELSE id
  <2>2. /\ pending' = (pending \ PendingUnder(key)) \cup {new}
        /\ resolved' = resolved
        /\ requests' = Append(requests, [ws |-> ws, id |-> id, action |-> action])
    BY <1>3, <2>1 DEF Accepted
  <2>3. new \in Numbers' \ {n} /\ IdOf(new)' = key /\ IdOf(n)' = IdOf(n)
    BY <2>1, <2>2, NewRequest
  <2> HIDE DEF key
  <2>4. IdOf(n) # key
    BY <2>3 DEF HasItsOwnId
  <2>5. told'[n] = told[n]
    <3>1. <<>> \in Seq(Replies) /\ <<"serial_unavailable">> \in Seq(Replies)
      BY EmptySeq DEF Replies
    <3>2. told' = Append(told, <<>>) \/ told' = Append(told, <<"serial_unavailable">>)
      BY <1>3 DEF Accepted
    <3> QED
      BY <3>1, <3>2, AnswerTyped DEF TypeInv
  <2> QED
    BY <1>1, <2>2, <2>4, <2>5 DEF PendingUnder
<1>4. ASSUME NEW ws \in Sockets, BeginClose(ws)
      PROVE  Accounted(n)'
  BY <1>1, <1>4 DEF BeginClose
<1>5. ASSUME NEW ws \in Sockets, Close(ws)
      PROVE  Accounted(n)'
  <2>1. IdOf(n) \notin IdsOf(ws)
    <3>1. SUFFICES ASSUME IdOf(n) \in IdsOf(ws) PROVE FALSE
      OBVIOUS
    <3>2. PICK c \in closers : c[1] = ws /\ c[2] = IdOf(n)
      BY <3>1 DEF IdsOf
    <3>3. PICK m \in Numbers : requests[m].ws = ws /\ IdOf(m) = IdOf(n)
      BY <3>2 DEF KeysKnown
    <3>4. requests[n].ws = ws
      BY <3>3 DEF HasItsOwnId
    <3> QED
      BY <1>5, <3>4 DEF Close, IsOpen
  <2> QED
    BY <1>1, <1>5, <2>1 DEF Close
<1>6. ASSUME NEW m \in timers, Timeout(m)
      PROVE  Accounted(n)'
  <2>1. m \in Numbers
    BY PartsTyped
  <2>2. CASE m = n
    <3>1. told' = Tell(n, "timeout")
      BY <1>6, <2>2 DEF Timeout
    <3>2. Len(told'[n]) = Len(told[n]) + 1 /\ Len(told[n]) \in Nat
      BY <3>1, ToldTyped, RepliesCounted DEF TypeInv, Replies
    <3>3. told'[n] # <<>>
      BY <3>2
    <3> QED
      BY <3>3 DEF Accounted
  <2>3. CASE m # n
    <3>1. n \notin PendingUnder(IdOf(m))
      BY <2>1, <2>3 DEF PendingUnder, HasItsOwnId
    <3>2. told'[n] = told[n]
      <4>1. told' = told \/ told' = Tell(m, "timeout")
        BY <1>6 DEF Timeout
      <4> QED
        BY <2>1, <2>3, <4>1, ToldTyped DEF TypeInv, Replies
    <3> QED
      BY <1>1, <1>6, <3>1, <3>2 DEF Timeout
  <2> QED
    BY <2>2, <2>3
<1>7. CASE DeviceFrame
  <2> DEFINE code == Head(frames).code
             m    == FirstOf(Candidates(code))
  <2>1. CASE Candidates(code) = {}
    BY <1>1, <1>7, <2>1 DEF DeviceFrame
  <2>2. CASE Candidates(code) # {}
    <3>1. m \in Numbers
      BY <2>2, CandidatesArePending, PartsTyped
    <3>2. /\ pending' = pending \ {m}
          /\ resolved' = resolved \cup {<<m, Head(frames).req>>}
          /\ told' = told \/ told' = Tell(m, "error")
      BY <1>7, <2>2 DEF DeviceFrame
    <3> HIDE DEF m
    <3>3. CASE m = n
      <4>1. <<n, Head(frames).req>> \in resolved' /\ <<n, Head(frames).req>>[1] = n
        BY <3>2, <3>3
      <4> QED
        BY <4>1 DEF Accounted
    <3>4. CASE m # n
      <4>1. told'[n] = told[n]
        BY <3>1, <3>2, <3>4, ToldTyped DEF TypeInv, Replies
      <4> QED
        BY <1>1, <3>2, <3>4, <4>1
    <3> QED
      BY <3>3, <3>4
  <2> QED
    BY <2>1, <2>2
<1>8. CASE UNCHANGED <<pending, told, resolved>>
  BY <1>1, <1>8
<1> QED
  BY <1>2, <1>3, <1>4, <1>5, <1>6, <1>7, <1>8
     DEF Next, vars, DeviceAnswers, LineLoses

LEMMA StepForgotten ==
  ASSUME TypeInv, TimersOwnPending, KeysKnown, NoneIsForgotten, [Next]_vars
  PROVE  NoneIsForgotten'
<1>1. SUFFICES ASSUME NEW n \in Numbers', HasItsOwnId(n)', IsOpen(n)'
               PROVE  Accounted(n)'
  BY DEF NoneIsForgotten, Accounted
<1>2. CASE n \in Numbers
  <2>1. HasItsOwnId(n) /\ IsOpen(n)
    BY <1>1, <1>2, OwnIdKept
  <2>2. Accounted(n)
    BY <1>2, <2>1 DEF NoneIsForgotten, Accounted
  <2> QED
    BY <1>1, <1>2, <2>1, <2>2, StepAccounts
<1>3. CASE n \notin Numbers
  <2>1. requests' # requests
    BY <1>3, NumbersKept DEF TypeInv
  <2>2. PICK ws \in Sockets, id \in Ids \cup {NoId}, action \in Actions :
           Refused(ws, id, action) \/ Accepted(ws, id, action)
    BY <2>1 DEF Next, vars, BeginClose, Close, Timeout,
       DeviceAnswers, LineLoses, DeviceFrame
  <2>3. requests' = Append(requests, [ws |-> ws, id |-> id, action |-> action])
    BY <2>2 DEF Refused, Accepted
  <2>4. n = Len(requests) + 1
    BY <1>1, <1>3, <2>3, NewRequest
  <2>5. CASE Accepted(ws, id, action)
    BY <2>4, <2>5 DEF Accepted, Accounted
  <2>6. CASE Refused(ws, id, action)
    <3>1. <<"refused">> \in Seq(Replies) /\ <<"refused">> # <<>>
      BY DEF Replies
    <3>2. told'[n] = <<"refused">>
      BY <2>4, <2>6, <3>1, AnswerTyped DEF Refused, TypeInv
    <3> QED
      BY <3>1, <3>2 DEF Accounted
  <2> QED
    BY <2>2, <2>5, <2>6
<1> QED
  BY <1>2, <1>3

(* The handlers of the 'close' event delete ids of that socket only. *)
THEOREM KeysAlwaysKnown == Spec => []KeysKnown
<1>1. Init => KeysKnown
  BY DEF Init, KeysKnown
<1> QED
  BY <1>1, TypesKept, StepKeys, PTL DEF Spec

(***************************************************************************)
(* Of a request whose client stays and whose id is its own, either the     *)
(* timer still runs or there was a reply or an answer: closing sockets and *)
(* requests of other clients do not touch it (addPendingRequest).          *)
(***************************************************************************)
THEOREM NoneIsEverForgotten == Spec => []NoneIsForgotten
<1>1. Init => NoneIsForgotten
  BY DEF Init, NoneIsForgotten, Numbers
<1> QED
  BY <1>1, TypesKept, TimersAlwaysOwnPending, KeysAlwaysKnown, StepForgotten,
     PTL DEF Spec

------------------------------------------------------------------------------
(* Answers go to the request that caused them.                             *)

(* Commands and answers are on the line in the order of the requests.      *)
LineInOrder ==
  /\ \A i, j \in 1 .. Len(wire) : i < j => wire[i] < wire[j]
  /\ \A i, j \in 1 .. Len(frames) : i < j => frames[i].req < frames[j].req
  /\ \A i \in 1 .. Len(frames), j \in 1 .. Len(wire) : frames[i].req < wire[j]

(* What comes back answers a command that was given. *)
FramesAnswer ==
  \A i \in 1 .. Len(frames) :
    /\ requests[frames[i].req].action \in Commands
    /\ frames[i].code \in AnswersTo(requests[frames[i].req].action)

NothingWithoutPort == ~serialReady => wire = <<>> /\ frames = <<>>

(* As long as this holds, what is on the line is what is pending. *)
Undisturbed ==
  abandoned = {} /\ \A n \in Numbers : requests[n].action # "joinByName"

OnLine(n) ==
  \/ \E i \in 1 .. Len(frames) : frames[i].req = n
  \/ \E j \in 1 .. Len(wire) : wire[j] = n

PendingOnLine ==
  Undisturbed /\ serialReady =>
    /\ \A n \in pending : OnLine(n)
    /\ \A i \in 1 .. Len(frames) : frames[i].req \in pending
    /\ \A j \in 1 .. Len(wire) : wire[j] \in pending

LineInv ==
  LineInOrder /\ FramesAnswer /\ NothingWithoutPort /\ PendingOnLine /\ AnswersBelong

LEMMA LineTyped ==
  ASSUME TypeInv
  PROVE  /\ Len(wire) \in Nat /\ Len(frames) \in Nat
         /\ \A j \in 1 .. Len(wire) : wire[j] \in Numbers
         /\ \A i \in 1 .. Len(frames) :
              frames[i].req \in Numbers /\ frames[i].code \in Codes
         /\ Numbers \subseteq Nat
<1>1. \A j \in 1 .. Len(wire) : wire[j] \in Numbers
  BY PartsTyped, ElementOfSeq
<1>2. \A i \in 1 .. Len(frames) : frames[i] \in [code : Codes, req : Numbers]
  BY PartsTyped, ElementOfSeq
<1>3. Len(wire) \in Nat /\ Len(frames) \in Nat
  BY PartsTyped, LenProperties
<1>4. Numbers \subseteq Nat
  BY DEF Numbers, TypeInv, TypeOK
<1> QED
  BY <1>1, <1>2, <1>3, <1>4

LEMMA StaysUndisturbed ==
  ASSUME TypeInv, [Next]_vars, Undisturbed'
  PROVE  Undisturbed
<1>1. abandoned \subseteq abandoned'
  BY DEF Next, vars, Refused, Accepted, BeginClose, Close, Timeout,
     DeviceAnswers, LineLoses, DeviceFrame
<1> QED
  BY <1>1, IdsKept DEF Undisturbed

LEMMA AnswersStay ==
  ASSUME TypeInv, AnswersBelong, [Next]_vars, resolved' = resolved
  PROVE  AnswersBelong'
<1>1. Undisturbed => \A r \in resolved : r[1] = r[2]
  BY DEF AnswersBelong, Undisturbed
<1>2. Undisturbed' => \A r \in resolved' : r[1] = r[2]
  BY <1>1, StaysUndisturbed
<1> QED
  BY <1>2 DEF AnswersBelong, Undisturbed

(* Steps that leave the line alone and end no request in the usual way.    *)
LEMMA IdleLine ==
  ASSUME TypeInv, LineInv, [Next]_vars,
         UNCHANGED <<serialReady, wire, frames, resolved>>,
         Undisturbed' => pending' = pending
  PROVE  LineInv'
<1>1. AnswersBelong'
  BY AnswersStay DEF LineInv
<1>2. LineInOrder' /\ NothingWithoutPort'
  BY DEF LineInv, LineInOrder, NothingWithoutPort
<1>3. FramesAnswer'
  BY IdsKept, LineTyped DEF LineInv, FramesAnswer
<1>4. PendingOnLine'
  <2>1. ASSUME Undisturbed', serialReady
        PROVE  /\ \A n \in pending : OnLine(n)
               /\ \A i \in 1 .. Len(frames) : frames[i].req \in pending
               /\ \A j \in 1 .. Len(wire) : wire[j] \in pending
    BY <2>1, StaysUndisturbed DEF LineInv, PendingOnLine
  <2> QED
    BY <2>1 DEF PendingOnLine, OnLine
<1> QED
  BY <1>1, <1>2, <1>3, <1>4 DEF LineInv

LEMMA RequestOnLine ==
  ASSUME TypeInv, LineInv, NEW ws \in Sockets, NEW id \in Ids \cup {NoId},
         NEW action \in Actions, Accepted(ws, id, action)
  PROVE  LineInv'
<1>0. PICK new : new = Len(requests) + 1
  OBVIOUS
<1> DEFINE key == IF id = NoId THEN new ELSE id
           old == PendingUnder(key)
<1>1. [Next]_vars
  BY DEF Next
<1>2. /\ requests' = Append(requests, [ws |-> ws, id |-> id, action |-> action])
      /\ pending' = (pending \ old) \cup {new}
      /\ abandoned' = abandoned \cup old
      /\ UNCHANGED <<serialReady, frames, resolved>>
      /\ wire' = IF serialReady THEN Append(wire, new) ELSE wire
  BY <1>0 DEF Accepted
<1>3. /\ new \in Numbers' /\ Numbers \subseteq Numbers'
      /\ \A n \in Numbers : n < new /\ requests'[n] = requests[n]
  <2>1. requests' = Append(requests, [ws |-> ws, id |-> id, action |-> action])
    BY <1>2
  <2>2. /\ Numbers' = Numbers \cup {new}
        /\ \A n \in Numbers : n < Len(requests) + 1
        /\ \A n \in Numbers : requests'[n] = requests[n]
    BY <1>0, <2>1, NewRequest
  <2> QED
    BY <1>0, <2>2
<1> HIDE DEF old, key
<1>4. AnswersBelong'
  BY <1>1, <1>2, AnswersStay DEF LineInv
<1>5. FramesAnswer'
  BY <1>2, <1>3, LineTyped DEF LineInv, FramesAnswer
<1>6. NothingWithoutPort'
  BY <1>2 DEF LineInv, NothingWithoutPort
<1>7. CASE ~serialReady
  <2>1. LineInOrder' /\ PendingOnLine'
    BY <1>2, <1>7 DEF LineInv, LineInOrder, PendingOnLine
  <2> QED
    BY <1>4, <1>5, <1>6, <2>1 DEF LineInv
<1>8. CASE serialReady
  <2>1. /\ Len(wire') = Len(wire) + 1
        /\ \A j \in 1 .. Len(wire) : wire'[j] = wire[j]
        /\ wire'[Len(wire) + 1] = new
    <3>1. wire \in Seq(Numbers')
      BY <1>3, PartsTyped, SeqMonotonic
    <3> QED
      BY <1>2, <1>3, <1>8, <3>1, AppendProperties
  <2>2. \A j \in 1 .. Len(wire') : j \in 1 .. Len(wire) \/ j = Len(wire) + 1
    BY <2>1, LineTyped
  <2>3. LineInOrder'
    <3>1. \A i, j \in 1 .. Len(wire') : i < j => wire'[i] < wire'[j]
      <4> SUFFICES ASSUME NEW i \in 1 .. Len(wire'), NEW j \in 1 .. Len(wire'), i < j
                   PROVE  wire'[i] < wire'[j]
        OBVIOUS
      <4>1. i \in 1 .. Len(wire)
        BY <2>1, LineTyped
      <4>2. CASE j \in 1 .. Len(wire)
        BY <2>1, <4>1, <4>2 DEF LineInv, LineInOrder
      <4>3. CASE j = Len(wire) + 1
        BY <1>3, <2>1, <4>1, <4>3, LineTyped
      <4> QED
        BY <2>2, <4>2, <4>3
    <3>2. \A i \in 1 .. Len(frames), j \in 1 .. Len(wire') : frames[i].req < wire'[j]
      <4> SUFFICES ASSUME NEW i \in 1 .. Len(frames), NEW j \in 1 .. Len(wire')
                   PROVE  frames[i].req < wire'[j]
        OBVIOUS
      <4>1. CASE j \in 1 .. Len(wire)
        BY <2>1, <4>1 DEF LineInv, LineInOrder
      <4>2. CASE j = Len(wire) + 1
        BY <1>3, <2>1, <4>2, LineTyped
      <4> QED
        BY <2>2, <4>1, <4>2
    <3> QED
      BY <1>2, <3>1, <3>2 DEF LineInv, LineInOrder
  <2>4. PendingOnLine'
    <3> SUFFICES ASSUME Undisturbed'
                 PROVE  /\ \A n \in pending' : OnLine(n)'
                        /\ \A i \in 1 .. Len(frames') : frames'[i].req \in pending'
                        /\ \A j \in 1 .. Len(wire') : wire'[j] \in pending'
      BY DEF PendingOnLine
    <3>1. pending' = pending \cup {new}
      BY <1>2 DEF Undisturbed
    <3>2. /\ \A n \in pending : OnLine(n)
          /\ \A i \in 1 .. Len(frames) : frames[i].req \in pending
          /\ \A j \in 1 .. Len(wire) : wire[j] \in pending
      BY <1>1, <1>8, StaysUndisturbed DEF LineInv, PendingOnLine
    <3>3. \A j \in 1 .. Len(wire) : j \in 1 .. Len(wire')
      BY <2>1, LineTyped
    <3>4. Len(wire) + 1 \in 1 .. Len(wire')
      BY <2>1, LineTyped
    <3>5. OnLine(new)'
      BY <2>1, <3>4 DEF OnLine
    <3>6. ASSUME NEW n \in pending
          PROVE  OnLine(n)'
      BY <1>2, <2>1, <3>2, <3>3 DEF OnLine
    <3>7. \A j \in 1 .. Len(wire') : wire'[j] \in pending'
      BY <2>1, <2>2, <3>1, <3>2
    <3> QED
      BY <1>2, <3>1, <3>2, <3>5, <3>6, <3>7
  <2> QED
    BY <1>4, <1>5, <1>6, <2>3, <2>4 DEF LineInv
<1> QED
  BY <1>7, <1>8

(* The commands on the wire but the first. *)
LEMMA WireMoves ==
  ASSUME TypeInv, wire # <<>>, wire' = Tail(wire)
  PROVE  /\ Len(wire) \in Nat /\ Len(wire') = Len(wire) - 1
         /\ 1 \in 1 .. Len(wire) /\ Head(wire) = wire[1]
         /\ \A j \in 1 .. Len(wire') : j + 1 \in 1 .. Len(wire) /\ wire'[j] = wire[j + 1]
         /\ \A j \in 1 .. Len(wire) : j # 1 => j - 1 \in 1 .. Len(wire')
<1>1. wire \in Seq(Numbers)
  BY PartsTyped
<1>2. /\ Len(wire') = Len(wire) - 1 /\ Len(wire) \in Nat
      /\ \A j \in 1 .. Len(wire') : wire'[j] = wire[j + 1]
  BY <1>1, HeadTailProperties, LenProperties
<1>3. Len(wire) # 0 /\ Head(wire) = wire[1]
  BY <1>1
<1> QED
  BY <1>2, <1>3

LEMMA FramesMove ==
  ASSUME TypeInv, frames # <<>>, frames' = Tail(frames)
  PROVE  /\ Len(frames) \in Nat /\ Len(frames') = Len(frames) - 1
         /\ 1 \in 1 .. Len(frames) /\ Head(frames) = frames[1]
         /\ \A i \in 1 .. Len(frames') :
              i + 1 \in 1 .. Len(frames) /\ frames'[i] = frames[i + 1]
         /\ \A i \in 1 .. Len(frames) : i # 1 => i - 1 \in 1 .. Len(frames')
<1> DEFINE S == [code : Codes, req : Numbers]
<1>1. frames \in Seq(S)
  BY PartsTyped
<1> HIDE DEF S
<1>2. /\ Len(frames') = Len(frames) - 1 /\ Len(frames) \in Nat
      /\ \A i \in 1 .. Len(frames') : frames'[i] = frames[i + 1]
  BY <1>1, HeadTailProperties, LenProperties
<1>3. Len(frames) # 0 /\ Head(frames) = frames[1]
  BY <1>1
<1> QED
  BY <1>2, <1>3

LEMMA LossOnLine ==
  ASSUME TypeInv, LineInv, LineLoses
  PROVE  LineInv'
<1>1. [Next]_vars
  BY DEF Next
<1>2. /\ wire # <<>> /\ wire' = Tail(wire)
      /\ abandoned' = abandoned \cup {Head(wire)}
      /\ UNCHANGED <<serialReady, requests, frames, resolved>>
  BY DEF LineLoses
<1>3. AnswersBelong'
  BY <1>1, <1>2, AnswersStay DEF LineInv
<1>4. LineInOrder'
  BY <1>2, WireMoves DEF LineInv, LineInOrder
<1>5. FramesAnswer' /\ NothingWithoutPort'
  BY <1>2 DEF LineInv, FramesAnswer, NothingWithoutPort
<1>6. PendingOnLine'
  BY <1>2 DEF PendingOnLine, Undisturbed
<1> QED
  BY <1>3, <1>4, <1>5, <1>6 DEF LineInv

LEMMA AnswerOnLine ==
  ASSUME TypeInv, LineInv, DeviceAnswers
  PROVE  LineInv'
<1>1. [Next]_vars
  BY DEF Next
<1>2. /\ wire # <<>> /\ wire' = Tail(wire)
      /\ UNCHANGED <<serialReady, requests, pending, resolved, abandoned>>
  BY DEF DeviceAnswers
<1>3. PICK code \in AnswersTo(requests[Head(wire)].action) :
         frames' = Append(frames, [code |-> code, req |-> Head(wire)])
  BY DEF DeviceAnswers
<1>4. Head(wire) \in Numbers /\ requests[Head(wire)].action \in Commands
  <2>1. Head(wire) = wire[1] /\ 1 \in 1 .. Len(wire)
    BY <1>2, WireMoves
  <2>2. wire[1] \in Numbers
    BY <2>1, LineTyped
  <2> QED
    BY <2>1, <2>2, RequestsTyped DEF TypeInv, CommandsOnWire, Commands
<1>5. /\ Len(frames') = Len(frames) + 1
      /\ \A i \in 1 .. Len(frames) : frames'[i] = frames[i]
      /\ frames'[Len(frames) + 1].code = code
      /\ frames'[Len(frames) + 1].req = wire[1]
  <2>1. [code |-> code, req |-> Head(wire)] \in [code : Codes, req : Numbers]
    BY <1>4, AnswersExpected
  <2>2. /\ Len(frames') = Len(frames) + 1
        /\ \A i \in 1 .. Len(frames) : frames'[i] = frames[i]
        /\ frames'[Len(frames) + 1] = [code |-> code, req |-> Head(wire)]
    BY <1>3, <2>1, PartsTyped, AppendProperties
  <2>3. Head(wire) = wire[1]
    BY <1>2, WireMoves
  <2> QED
    BY <2>2, <2>3
<1>6. /\ \A i \in 1 .. Len(frames') : i \in 1 .. Len(frames) \/ i = Len(frames) + 1
      /\ \A i \in 1 .. Len(frames) : i \in 1 .. Len(frames')
      /\ Len(frames) + 1 \in 1 .. Len(frames')
  BY <1>5, LineTyped
<1>7. AnswersBelong'
  BY <1>1, <1>2, AnswersStay DEF LineInv
<1>8. LineInOrder'
  <2>1. \A i, j \in 1 .. Len(wire') : i < j => wire'[i] < wire'[j]
    BY <1>2, WireMoves DEF LineInv, LineInOrder
  <2>2. \A i, j \in 1 .. Len(frames') : i < j => frames'[i].req < frames'[j].req
    <3> SUFFICES ASSUME NEW i \in 1 .. Len(frames'), NEW j \in 1 .. Len(frames'), i < j
                 PROVE  frames'[i].req < frames'[j].req
      OBVIOUS
    <3>1. i \in 1 .. Len(frames)
      BY <1>5, LineTyped
    <3>2. CASE j \in 1 .. Len(frames)
      BY <1>5, <3>1, <3>2 DEF LineInv, LineInOrder
    <3>3. CASE j = Len(frames) + 1
      <4>1. frames[i].req < wire[1]
        BY <1>2, <3>1, WireMoves DEF LineInv, LineInOrder
      <4> QED
        BY <1>5, <3>1, <3>3, <4>1
    <3> QED
      BY <1>6, <3>2, <3>3
  <2>3. \A i \in 1 .. Len(frames'), j \in 1 .. Len(wire') : frames'[i].req < wire'[j]
    <3> SUFFICES ASSUME NEW i \in 1 .. Len(frames'), NEW j \in 1 .. Len(wire')
                 PROVE  frames'[i].req < wire'[j]
      OBVIOUS
    <3>1. j + 1 \in 1 .. Len(wire) /\ wire'[j] = wire[j + 1] /\ 1 < j + 1
      BY <1>2, WireMoves
    <3>2. CASE i \in 1 .. Len(frames)
      BY <1>5, <3>1, <3>2 DEF LineInv, LineInOrder
    <3>3. CASE i = Len(frames) + 1
      <4>1. wire[1] < wire[j + 1]
        BY <1>2, <3>1, WireMoves DEF LineInv, LineInOrder
      <4> QED
        BY <1>5, <3>1, <3>3, <4>1
    <3> QED
      BY <1>6, <3>2, <3>3
  <2> QED
    BY <2>1, <2>2, <2>3 DEF LineInOrder
<1>9. FramesAnswer'
  <2> SUFFICES ASSUME NEW i \in 1 .. Len(frames')
               PROVE  /\ requests[frames'[i].req].action \in Commands
                      /\ frames'[i].code \in AnswersTo(requests[frames'[i].req].action)
    BY <1>2 DEF FramesAnswer
  <2>1. CASE i \in 1 .. Len(frames)
    BY <1>5, <2>1 DEF LineInv, FramesAnswer
  <2>2. CASE i = Len(frames) + 1
    <3>1. Head(wire) = wire[1]
      BY <1>2, WireMoves
    <3> QED
      BY <1>3, <1>4, <1>5, <2>2, <3>1
  <2> QED
    BY <1>6, <2>1, <2>2
<1>10. NothingWithoutPort'
  BY <1>2 DEF LineInv, NothingWithoutPort
<1>11. PendingOnLine'
  <2> SUFFICES ASSUME Undisturbed', serialReady
               PROVE  /\ \A n \in pending : OnLine(n)'
                      /\ \A i \in 1 .. Len(frames') : frames'[i].req \in pending
                      /\ \A j \in 1 .. Len(wire') : wire'[j] \in pending
    BY <1>2 DEF PendingOnLine
  <2>1. /\ \A n \in pending : OnLine(n)
        /\ \A i \in 1 .. Len(frames) : frames[i].req \in pending
        /\ \A j \in 1 .. Len(wire) : wire[j] \in pending
    BY <1>1, StaysUndisturbed DEF LineInv, PendingOnLine
  <2>2. \A j \in 1 .. Len(wire') : wire'[j] \in pending
    BY <1>2, <2>1, WireMoves
  <2>3. \A i \in 1 .. Len(frames') : frames'[i].req \in pending
    BY <1>2, <1>5, <1>6, <2>1, WireMoves
  <2>4. ASSUME NEW n \in pending
        PROVE  OnLine(n)'
    <3>1. ASSUME NEW i \in 1 .. Len(frames), frames[i].req = n
          PROVE  OnLine(n)'
      BY <1>5, <1>6, <3>1 DEF OnLine
    <3>2. ASSUME NEW j \in 1 .. Len(wire), wire[j] = n
          PROVE  OnLine(n)'
      <4>1. CASE j = 1
        BY <1>5, <1>6, <3>2, <4>1 DEF OnLine
      <4>2. CASE j # 1
        <5>1. j - 1 \in 1 .. Len(wire') /\ wire'[j - 1] = wire[j]
          <6>1. j - 1 \in 1 .. Len(wire')
            BY <1>2, <4>2, WireMoves
          <6>2. wire'[j - 1] = wire[(j - 1) + 1]
            BY <1>2, <6>1, WireMoves
          <6> QED
            BY <6>1, <6>2
        <5> QED
          BY <3>2, <5>1 DEF OnLine
      <4> QED
        BY <4>1, <4>2
    <3> QED
      BY <2>1, <3>1, <3>2 DEF OnLine
  <2> QED
    BY <2>2, <2>3, <2>4
<1> QED
  BY <1>7, <1>8, <1>9, <1>10, <1>11 DEF LineInv

(***************************************************************************)
(* The heart of the argument: an answer that comes back is to the oldest   *)
(* pending request, and its code is one that this request waits for.       *)
(***************************************************************************)
LEMMA FrameFindsItsRequest ==
  ASSUME TypeInv, LineInv, Undisturbed, frames # <<>>
  PROVE  /\ Candidates(Head(frames).code) # {}
         /\ FirstOf(Candidates(Head(frames).code)) = Head(frames).req
<1> DEFINE f == Head(frames)
<1>1. 1 \in 1 .. Len(frames) /\ f = frames[1]
  BY PartsTyped
<1>2. serialReady
  BY DEF LineInv, NothingWithoutPort
<1>3. /\ f.req \in pending
      /\ \A n \in pending : OnLine(n)
  BY <1>1, <1>2 DEF LineInv, PendingOnLine
<1>4. f.req \in Numbers
  BY <1>1, LineTyped
<1>5. f.code \in expectedCodes(requests[f.req].action)
  BY <1>1, <1>4, AnswersExpected DEF LineInv, FramesAnswer, Undisturbed
<1>6. f.req \in Candidates(f.code)
  BY <1>3, <1>5 DEF Candidates
<1>7. \A n \in pending : f.req <= n
  <2> SUFFICES ASSUME NEW n \in pending PROVE f.req <= n
    OBVIOUS
  <2>1. ASSUME NEW i \in 1 .. Len(frames), frames[i].req = n
        PROVE  f.req <= n
    <3>1. i = 1 \/ frames[1].req < frames[i].req
      BY <1>1 DEF LineInv, LineInOrder
    <3> QED
      BY <1>1, <1>4, <2>1, <3>1, LineTyped
  <2>2. ASSUME NEW j \in 1 .. Len(wire), wire[j] = n
        PROVE  f.req <= n
    <3>1. frames[1].req < wire[j]
      BY <1>1 DEF LineInv, LineInOrder
    <3> QED
      BY <1>1, <1>4, <2>2, <3>1, LineTyped
  <2> QED
    BY <1>3, <2>1, <2>2 DEF OnLine
<1>8. /\ FirstOf(Candidates(f.code)) \in pending
      /\ \A m \in Candidates(f.code) : FirstOf(Candidates(f.code)) <= m
  BY <1>6, CandidatesArePending
<1>9. FirstOf(Candidates(f.code)) <= f.req /\ f.req <= FirstOf(Candidates(f.code))
  BY <1>6, <1>7, <1>8
<1>10. FirstOf(Candidates(f.code)) \in Nat /\ f.req \in Nat
  BY <1>4, <1>8, LineTyped, PartsTyped
<1> QED
  BY <1>6, <1>9, <1>10

LEMMA FrameOffLine ==
  ASSUME TypeInv, LineInv, DeviceFrame
  PROVE  LineInv'
<1>1. [Next]_vars
  BY DEF Next
<1>2. /\ frames # <<>> /\ frames' = Tail(frames)
      /\ UNCHANGED <<serialReady, requests, wire, abandoned>>
  BY DEF DeviceFrame
<1>3. LineInOrder'
  <2>1. \A i, j \in 1 .. Len(frames') : i < j => frames'[i].req < frames'[j].req
    BY <1>2, FramesMove DEF LineInv, LineInOrder
  <2>2. \A i \in 1 .. Len(frames'), j \in 1 .. Len(wire) : frames'[i].req < wire[j]
    BY <1>2, FramesMove DEF LineInv, LineInOrder
  <2> QED
    BY <1>2, <2>1, <2>2 DEF LineInv, LineInOrder
<1>4. FramesAnswer'
  BY <1>2, FramesMove DEF LineInv, FramesAnswer
<1>5. NothingWithoutPort'
  BY <1>2 DEF LineInv, NothingWithoutPort
<1>6. ASSUME Undisturbed'
      PROVE  /\ Undisturbed
             /\ pending' = pending \ {Head(frames).req}
             /\ resolved' = resolved \cup {<<Head(frames).req, Head(frames).req>>}
  <2>1. Undisturbed
    BY <1>1, <1>6, StaysUndisturbed
  <2>2. /\ Candidates(Head(frames).code) # {}
        /\ FirstOf(Candidates(Head(frames).code)) = Head(frames).req
    BY <1>2, <2>1, FrameFindsItsRequest
  <2> QED
    BY <2>1, <2>2 DEF DeviceFrame
<1>7. AnswersBelong'
  <2>1. ASSUME Undisturbed', NEW r \in resolved'
        PROVE  r[1] = r[2]
    <3>1. CASE r \in resolved
      BY <1>6, <2>1, <3>1 DEF LineInv, AnswersBelong, Undisturbed
    <3>2. CASE r = <<Head(frames).req, Head(frames).req>>
      BY <3>2
    <3> QED
      BY <1>6, <2>1, <3>1, <3>2
  <2> QED
    BY <2>1 DEF AnswersBelong, Undisturbed
<1>8. PendingOnLine'
  <2> SUFFICES ASSUME Undisturbed', serialReady
               PROVE  /\ \A n \in pending' : OnLine(n)'
                      /\ \A i \in 1 .. Len(frames') : frames'[i].req \in pending'
                      /\ \A j \in 1 .. Len(wire) : wire[j] \in pending'
    BY <1>2 DEF PendingOnLine
  <2>1. pending' = pending \ {frames[1].req}
    BY <1>2, <1>6, FramesMove
  <2>2. /\ \A n \in pending : OnLine(n)
        /\ \A i \in 1 .. Len(frames) : frames[i].req \in pending
        /\ \A j \in 1 .. Len(wire) : wire[j] \in pending
    BY <1>6 DEF LineInv, PendingOnLine
  <2>3. \A j \in 1 .. Len(wire) : wire[j] \in pending'
    <3>1. \A j \in 1 .. Len(wire) : frames[1].req < wire[j]
      BY <1>2, FramesMove DEF LineInv, LineInOrder
    <3> QED
      BY <1>2, <2>1, <2>2, <3>1, LineTyped, FramesMove
  <2>4. \A i \in 1 .. Len(frames') : frames'[i].req \in pending'
    <3> SUFFICES ASSUME NEW i \in 1 .. Len(frames') PROVE frames'[i].req \in pending'
      OBVIOUS
    <3>1. /\ i + 1 \in 1 .. Len(frames) /\ frames'[i] = frames[i + 1]
          /\ 1 \in 1 .. Len(frames) /\ 1 < i + 1
      BY <1>2, FramesMove
    <3>2. frames[1].req < frames[i + 1].req
      BY <3>1 DEF LineInv, LineInOrder
    <3> QED
      BY <2>1, <2>2, <3>1, <3>2, LineTyped
  <2>5. ASSUME NEW n \in pending'
        PROVE  OnLine(n)'
    <3>1. n \in pending /\ n # frames[1].req
      BY <2>1
    <3>2. ASSUME NEW i \in 1 .. Len(frames), frames[i].req = n
          PROVE  OnLine(n)'
      <4>1. i # 1
        BY <3>1, <3>2
      <4>2. i - 1 \in 1 .. Len(frames')
        BY <1>2, <4>1, FramesMove
      <4>3. frames'[i - 1] = frames[(i - 1) + 1]
        BY <1>2, <4>2, FramesMove
      <4> QED
        BY <3>2, <4>2, <4>3 DEF OnLine
    <3> QED
      BY <1>2, <2>2, <3>1, <3>2 DEF OnLine
  <2> QED
    BY <2>3, <2>4, <2>5
<1> QED
  BY <1>3, <1>4, <1>5, <1>7, <1>8 DEF LineInv

LEMMA StepLine == TypeInv /\ LineInv /\ [Next]_vars => LineInv'
<1> SUFFICES ASSUME TypeInv, LineInv, [Next]_vars PROVE LineInv'
  OBVIOUS
<1>1. CASE \E ws \in Sockets, id \in Ids \cup {NoId}, action \in Actions :
             Refused(ws, id, action)
  BY <1>1, IdleLine DEF Refused
<1>2. CASE \E ws \in Sockets : BeginClose(ws) \/ Close(ws)
  BY <1>2, IdleLine DEF BeginClose, Close, Undisturbed
<1>3. CASE \E n \in timers : Timeout(n)
  BY <1>3, IdleLine DEF Timeout, Undisturbed
<1>4. CASE UNCHANGED vars
  BY <1>4, IdleLine DEF vars
<1> QED
  BY <1>1, <1>2, <1>3, <1>4, RequestOnLine, LossOnLine, AnswerOnLine,
     FrameOffLine DEF Next

(***************************************************************************)
(* As long as nothing was given up or lost, and no lobby joined by name,   *)
(* each answer is taken for the one to the request that caused it, though  *)
(* no frame says which (handleDeviceFrame).                                *)
(***************************************************************************)
THEOREM AnswersAlwaysBelong == Spec => []AnswersBelong
<1>1. Init => LineInv
  BY DEF Init, LineInv, LineInOrder, FramesAnswer, NothingWithoutPort,
     PendingOnLine, AnswersBelong
<1>2. LineInv => AnswersBelong
  BY DEF LineInv
<1> QED
  BY <1>1, <1>2, TypesKept, StepLine, PTL DEF Spec

==============================================================================
