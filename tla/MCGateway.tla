------------------------------ MODULE MCGateway ------------------------------
(* Clients and actions for the runs of Gateway. *)
EXTENDS Gateway, TLC

CONSTANTS w, v, x

SomeActions == {"device.query", "sendChannelText", "createLobby"}

(* Sockets and identifiers are interchangeable. *)
Symmetry == Permutations({w, v})
=============================================================================
