---------------------------- MODULE SerialFraming ----------------------------
(***************************************************************************)
(* Frames on a serial line, with no timeouts: the machine that reads the   *)
(* app's frames (ArduinoSerialInterface.cpp), the buffer of the gateway,   *)
(* which gets bytes in chunks (gateway/index.js), and the bridge between   *)
(* two repeaters, with its checksum (bridges/RS232Bridge.cpp).             *)
(*                                                                         *)
(* A byte has Base values, so that a length byte can look like the start   *)
(* of a frame.  Bytes are lost or changed on the way, a number of times.   *)
(***************************************************************************)
EXTENDS Naturals, Sequences, SequencesExt

CONSTANTS
  Base,         \* values of a byte
  Mark,         \* '<' or '>'
  Magic1, Magic2, \* BRIDGE_PACKET_MAGIC
  MaxFrame,     \* MAX_FRAME_SIZE
  MaxUnit,      \* MAX_TRANS_UNIT + 1
  MaxGarbage,   \* 256
  Lines,        \* the lines looked at: [kind, traffic: a set of payloads]
  Damages       \* bound: bytes lost or changed

Byte     == 0 .. Base - 1
Payloads == UNION {l.traffic : l \in Lines}

ASSUME FramingAssumption ==
  /\ Base \in Nat \ {0, 1}
  /\ {Mark, Magic1, Magic2} \subseteq Byte
  /\ MaxFrame \in Nat \ {0} /\ MaxUnit \in Nat \ {0} /\ MaxGarbage \in Nat
  /\ \A l \in Lines : l.kind \in {"device", "gateway", "bridge"}
  /\ Payloads \subseteq Seq(Byte) \ {<<>>}
  /\ \A p \in Payloads : Len(p) < Base * Base  \* a length takes two bytes
  /\ Damages \in Nat

VARIABLES
  line,      \* which of them it is
  wire,      \* bytes on the way
  rx,        \* the machine: [state, frame_len, rx_len, rx_buf]
  rxBuffer,  \* the buffer of gateway or bridge
  expected,  \* payloads sent and not received
  right,     \* whether all payloads received were those expected
  damaged,   \* whether the receiver may be out of step
  left       \* of Damages

vars == <<line, wire, rx, rxBuffer, expected, right, damaged, left>>

Init ==
  /\ line \in Lines
  /\ wire = <<>>
  /\ rx = [state |-> "idle", frame_len |-> 0, rx_len |-> 0, rx_buf |-> <<>>]
  /\ rxBuffer = <<>>
  /\ expected = <<>> /\ right = TRUE
  /\ damaged = FALSE /\ left = Damages

Clipped(p, n) == SubSeq(p, 1, IF Len(p) < n THEN Len(p) ELSE n)

-----------------------------------------------------------------------------
(* Senders *)

Lsb(n) == n % Base
Msb(n) == n \div Base

(* Bytes are added modulo 255, so that 0 and 255 are the same. *)
Summed(sums, b) ==
  LET sum1 == (sums[1] + b) % (Base - 1)
  IN  <<sum1, (sums[2] + sum1) % (Base - 1)>>

fletcher16(p) ==
  LET sums[n \in 0 .. Len(p)] == IF n = 0 THEN <<0, 0>> ELSE Summed(sums[n - 1], p[n])
  IN  sums[Len(p)]

Checksum(p) == <<fletcher16(p)[2], fletcher16(p)[1]>>

Framed(p) ==
  IF line.kind = "bridge"
  THEN <<Magic1, Magic2, Msb(Len(p)), Lsb(Len(p))>> \o p \o Checksum(p)
  ELSE <<Mark, Lsb(Len(p)), Msb(Len(p))>> \o p

(* The device and the bridge send no frames that are too large; the gateway *)
(* does not look at the length.                                           *)
MaySend(p) ==
  CASE line.kind = "device"  -> TRUE
    [] line.kind = "gateway" -> Len(p) <= MaxFrame
    [] line.kind = "bridge"  -> Len(p) <= MaxUnit

(* One frame, or two that follow each other at once. *)
Send ==
  /\ wire = <<>>
  /\ \E burst \in {<<p>> : p \in line.traffic} \cup (line.traffic \X line.traffic) :
       /\ \A i \in 1 .. Len(burst) : MaySend(burst[i])
       /\ wire' = FlattenSeq([i \in 1 .. Len(burst) |-> Framed(burst[i])])
       /\ expected' = IF damaged THEN <<>> ELSE burst
  /\ UNCHANGED <<line, rx, rxBuffer, right, damaged, left>>

Damage(w) ==
  /\ left > 0 /\ left' = left - 1
  /\ wire' = w
  /\ damaged' = TRUE /\ expected' = <<>>
  /\ UNCHANGED <<line, rx, rxBuffer, right>>

LoseByte   == wire # <<>> /\ Damage(Tail(wire))
ChangeByte == wire # <<>> /\ \E b \in Byte \ {Head(wire)} : Damage(<<b>> \o Tail(wire))

-----------------------------------------------------------------------------
(* Receivers *)

(* The machine of the device.  A mutant forgets to count from zero, another *)
(* counts what it keeps only.                                              *)
HeaderRead0(r, len) ==
  [r EXCEPT !.frame_len = len, !.rx_buf = <<>>, !.state = IF len > 0 THEN "body" ELSE "idle"]

HeaderRead(r, len) ==
  [r EXCEPT !.frame_len = len, !.rx_len = 0, !.rx_buf = <<>>,
            !.state = IF len > 0 THEN "body" ELSE "idle"]

KeptOnly(r, b) ==
  IF r.rx_len < MaxFrame THEN [r EXCEPT !.rx_buf = Append(@, b), !.rx_len = @ + 1] ELSE r

BodyByte(r, b) ==
  [r EXCEPT !.rx_buf = IF r.rx_len < MaxFrame THEN Append(@, b) ELSE @, !.rx_len = @ + 1]

Machine(r, b) ==
  CASE r.state = "idle" -> [r EXCEPT !.state = IF b = Mark THEN "header" ELSE "idle"]
    [] r.state = "header" -> [r EXCEPT !.frame_len = b, !.state = "length"]
    [] r.state = "length" -> HeaderRead(r, r.frame_len + Base * b)
    [] r.state = "body" ->
         LET next == BodyByte(r, b)
         IN  IF next.rx_len >= next.frame_len THEN [next EXCEPT !.state = "idle"] ELSE next

(* A frame is given out as the machine falls back from its body. *)
DeviceFrames(r, next) ==
  IF r.state = "body" /\ next.state = "idle" THEN <<Clipped(next.rx_buf, r.frame_len)>> ELSE <<>>

(* feedSerialData: [buffer, frames]. *)
AfterGarbage(buffer) ==
  LET idx == SelectInSeq(buffer, LAMBDA b : b = Mark)
  IN  IF idx > 0 THEN SubSeq(buffer, idx, Len(buffer))
      ELSE IF Len(buffer) > MaxGarbage THEN <<>> ELSE buffer

(* Once round its loop; a round that finds no frame would find none again. *)
Round(s) ==
  LET b      == AfterGarbage(s.buffer)
      needed == 3 + b[2] + Base * b[3]
  IN  IF b = <<>> \/ Head(b) # Mark \/ Len(b) < 3 \/ Len(b) < needed
      THEN [s EXCEPT !.buffer = b]
      ELSE [buffer |-> SubSeq(b, needed + 1, Len(b)),
            frames |-> Append(s.frames, SubSeq(b, 4, needed))]

Feeding == [buffer : Seq(Byte), frames : Seq(Seq(Byte))]

Fed(buffer) ==
  LET loop[n \in 0 .. Len(buffer)] ==
        [s \in Feeding |-> IF n = 0 THEN s ELSE loop[n - 1][Round(s)]]
  IN  loop[Len(buffer)][[buffer |-> buffer, frames |-> <<>>]]

(* RS232Bridge::loop, for one byte: [buffer, frames]. *)
Start(b) == IF b = Magic1 THEN <<b>> ELSE <<>>

Bridged(buffer, b) ==
  LET pos == Len(buffer)
      buf == Append(buffer, b)
      len == Base * buf[3] + buf[4]
      p   == SubSeq(buf, 5, 4 + len)
      Nothing(to) == [buffer |-> to, frames |-> <<>>]
  IN  CASE pos < 2 /\ b = <<Magic1, Magic2>>[pos + 1] -> Nothing(buf)
        [] pos < 2 /\ b # <<Magic1, Magic2>>[pos + 1] -> Nothing(Start(b))
        [] pos = 2 -> Nothing(buf)
        [] pos > 2 /\ len > MaxUnit -> Nothing(<<>>)
        [] pos > 2 /\ len <= MaxUnit /\ pos + 1 # len + 6 -> Nothing(buf)
        [] pos > 2 /\ len <= MaxUnit /\ pos + 1 = len + 6 ->
             [buffer |-> <<>>,
              frames |-> IF SubSeq(buf, 5 + len, 6 + len) = Checksum(p) THEN <<p>> ELSE <<>>]

(* Whether the receiver waits for the start of a frame. *)
Waits(r, buffer) == r.state = "idle" /\ (line.kind = "gateway" \/ buffer = <<>>)
                    /\ Mark \notin (IF line.kind = "gateway" THEN Range(buffer) ELSE {})

(* What was expected of the frames received.  A receiver that waits for the *)
(* start of a frame while none is on the way is in step again.             *)
AsExpected(p) == IF line.kind = "device" THEN Clipped(p, MaxFrame) ELSE p

Received(frames) ==
  LET n == Len(frames)
  IN  /\ right' = (right /\ (damaged \/
                     (n <= Len(expected) /\ \A i \in 1 .. n : frames[i] = AsExpected(expected[i]))))
      /\ expected' = IF damaged THEN <<>> ELSE SubSeq(expected, n + 1, Len(expected))
      /\ damaged' = (damaged /\ ~(wire' = <<>> /\ Waits(rx', rxBuffer')))
      /\ UNCHANGED <<line, left>>

DeviceReads ==
  /\ line.kind = "device" /\ wire # <<>>
  /\ wire' = Tail(wire)
  /\ rx' = Machine(rx, Head(wire))
  /\ UNCHANGED rxBuffer
  /\ Received(DeviceFrames(rx, rx'))

GatewayReads ==
  /\ line.kind = "gateway"
  /\ \E n \in 1 .. Len(wire) :
       \E fed \in {Fed(rxBuffer \o SubSeq(wire, 1, n))} :
         /\ wire' = SubSeq(wire, n + 1, Len(wire))
         /\ rxBuffer' = fed.buffer
         /\ UNCHANGED rx
         /\ Received(fed.frames)

BridgeReads ==
  /\ line.kind = "bridge" /\ wire # <<>>
  /\ wire' = Tail(wire)
  /\ UNCHANGED rx
  /\ \E out \in {Bridged(rxBuffer, Head(wire))} :
       rxBuffer' = out.buffer /\ Received(out.frames)

Read == DeviceReads \/ GatewayReads \/ BridgeReads

Next == Send \/ LoseByte \/ ChangeByte \/ Read

Spec == Init /\ [][Next]_vars

(* Bytes that have arrived are read. *)
FairSpec == Spec /\ WF_vars(Read)

-----------------------------------------------------------------------------
(* Properties *)

(* Frames arrive as they were sent, all of them and nothing else, whatever *)
(* bytes they hold, however they are cut into chunks and right after one   *)
(* another; those too large for the device arrive clipped.  After bytes    *)
(* were lost or changed this is so again from the moment the receiver      *)
(* waits for a frame while none is on the way: nothing is left over in it  *)
(* (checkRecvFrame, feedSerialData, RS232Bridge::loop).                    *)
FramesArriveAsSent == right /\ (~damaged /\ wire = <<>> => expected = <<>>)

(* On a line on which frames keep coming, and hold no byte that looks like *)
(* the start of one, every receiver gets into step again, whatever length  *)
(* it has made of the bytes it got.                                        *)
StartByte == IF line.kind = "bridge" THEN Magic1 ELSE Mark
Plain     == \A p \in line.traffic : MaySend(p) => StartByte \notin Range(Tail(Framed(p)))

LineRecovers == []<><<Send>>_vars => (damaged /\ Plain ~> ~damaged)
=============================================================================
