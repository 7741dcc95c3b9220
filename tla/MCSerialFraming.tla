--------------------------- MODULE MCSerialFraming ---------------------------
(* Lines for the run of SerialFraming. *)
EXTENDS SerialFraming

(* Payloads without and with bytes that look like the start of a frame, one *)
(* too large for the device, and one with a length of two bytes.           *)
Quiet == {<<0, 1>>, <<1, 2, 0, 1, 2>>}
Noisy == {<<3, 3>>, <<3, 1, 0>>}

AllLines == [kind: {"device", "gateway", "bridge"}, traffic: {Quiet, Noisy}]
=============================================================================
