--------------------------- MODULE MCCompanionLink ---------------------------
(* Contacts and scenarios for the runs of CompanionLink. *)
EXTENDS CompanionLink

CONSTANTS x, y

Events(private, channel, push, change, list, connect) ==
  [k \in Kinds |->
     CASE k = "private" -> private
       [] k = "channel" -> channel
       [] k = "push"    -> push
       [] k = "change"  -> change
       [] k = "list"    -> list
       [] k = "connect" -> connect]

(* A queue that overflows, with one connection and with two; pushes that    *)
(* fill the send queue; listings while contacts change, over one connection *)
(* and over two; three connections, so that an app can find what was still  *)
(* queued for the one before.                                              *)
Scenarios ==
  { Events(2, 2, 0, 0, 0, 1),
    Events(1, 2, 0, 0, 0, 2),
    Events(1, 1, 1, 0, 1, 1),
    Events(0, 0, 0, 3, 2, 1),
    Events(0, 0, 0, 1, 2, 2),
    Events(1, 0, 0, 0, 0, 3) }
=============================================================================
