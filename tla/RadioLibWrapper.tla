--------------------------- MODULE RadioLibWrapper ---------------------------
(***************************************************************************)
(* RadioLibWrapper: the driver between Dispatcher and the LoRa transceiver.*)
(* The C++ byte 'state' is the pair <<mode, ready>>: ready is the bit      *)
(* STATE_INT_READY that the interrupt routine ORs in, mode the rest.  The  *)
(* main loop stores to 'state' without looking, so an interrupt that comes *)
(* between a command to the chip and the store is forgotten: commands and  *)
(* stores are therefore separate operators, taken in separate steps.       *)
(***************************************************************************)

VARIABLES
  mode,    \* "IDLE", "RX" or "TX_WAIT"
  ready,   \* STATE_INT_READY
  chip     \* what the transceiver is doing

radioVars == <<mode, ready, chip>>

Modes == {"IDLE", "RX", "TX_WAIT"}
ChipStates == {"standby",    \* neither listening nor sending
               "listening",  \* startReceive() was accepted, nothing received
               "received",   \* a frame is in the buffer, still listening
               "sending",    \* startTransmit() was accepted
               "sent"}       \* the last byte is out

RadioTypeOK ==
  /\ mode \in Modes
  /\ ready \in BOOLEAN
  /\ chip \in ChipStates

(* begin(); with a wake-up on a received packet the flag is set at once.   *)
RadioInit ==
  /\ mode = "IDLE"
  /\ \/ ready = FALSE /\ chip = "standby"
     \/ ready = TRUE /\ chip = "received"

------------------------------------------------------------------------------
(* The chip and its interrupt, setFlag().                                  *)

RxDone ==
  /\ chip \in {"listening", "received"}
  /\ chip' = "received"
  /\ ready' = TRUE
  /\ UNCHANGED mode

TxDone ==
  /\ chip = "sending"
  /\ chip' = "sent"
  /\ ready' = TRUE
  /\ UNCHANGED mode

------------------------------------------------------------------------------
(* The operations that Dispatcher calls.                                   *)

isInRecvMode == mode = "RX"

(* resetAGC(): only when no frame is waiting or coming in. *)
resetAGC ==
  /\ ~ready
  /\ mode' = "IDLE"
  /\ UNCHANGED <<ready, chip>>

(* recvRaw(), first half: read the buffer if the flag is up (mode becomes  *)
(* IDLE), then ask the chip to listen unless the driver believes it does.  *)
recvCommand ==
  /\ ready \/ ~isInRecvMode
  /\ mode' = IF ready THEN "IDLE" ELSE mode
  /\ ready' = FALSE
  /\ chip' \in {"listening", "standby"}     \* startReceive() may fail

(* recvRaw(), second half: state = STATE_RX if the chip accepted.          *)
recvStore ==
  /\ IF chip = "standby"
       THEN UNCHANGED <<mode, ready>>
       ELSE mode' = "RX" /\ ready' = FALSE
  /\ UNCHANGED chip

(* startSendRaw(): the command ...                                         *)
sendCommand == chip' = "sending" /\ UNCHANGED <<mode, ready>>

(* ... and, when it was accepted, state = STATE_TX_WAIT.                   *)
sendStore == mode' = "TX_WAIT" /\ ready' = FALSE /\ UNCHANGED chip

(* startSendRaw() refused by the chip: idle().                             *)
sendRefused == mode' = "IDLE" /\ ready' = FALSE /\ chip' = "standby"

(* isSendComplete() and onSendFinished(). *)
isSendComplete == ready
onSendFinished == mode' = "IDLE" /\ ready' = FALSE /\ chip' = "standby"

=============================================================================
