---------------------------- MODULE MCDispatcher ----------------------------
(***************************************************************************)
(* Small instances of Dispatcher for TLC.                                  *)
(***************************************************************************)
EXTENDS Dispatcher

(* Packets differ in identity only. *)
PacketSymmetry == Permutations(Packets)

=============================================================================
