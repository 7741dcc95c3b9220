---------------------------- MODULE MCRoomServer ----------------------------
(* Clients, time stamps and commands for the runs of RoomServer. *)
EXTENDS RoomServer, TLC

CONSTANTS ann, bob, cem

(* Remove bob, make bob an admin. *)
RemoveOrPromote == {<<{bob}, Guest>>, <<{bob}, Admin>>}

(* What clients send, in any order, and what else happens, how often.      *)
Events(inputs, path, console, loss, boot) ==
  [k \in Kinds |->
     CASE k \in DOMAIN inputs   -> inputs[k]
       [] k = <<"path", 0>>    -> path
       [] k = <<"console", 0>> -> console
       [] k = <<"loss", 0>>    -> loss
       [] k = <<"boot", 0>>    -> boot
       [] OTHER                -> 0]

Once(c, ts, kind)  == <<c, ts, kind>> :> 1
Twice(c, ts, kind) == <<c, ts, kind>> :> 2

(* ann is an admin, and bob logs in with one of the passwords. *)
Joined(password) == Once(ann, 1, "admin") @@ Once(bob, 1, password)

Scenarios ==
  { \* posts of both, a packet lost; one of them a guest
    Events(Joined("room") @@ Once(ann, 2, "text") @@ Once(bob, 3, "text"), 0, 0, 1, 0),
    Events(Joined("other") @@ Once(ann, 2, "text") @@ Once(bob, 2, "text")
             @@ Once(bob, 3, "blank"), 0, 0, 0, 0),
    \* two posts of one, or a retry of the first
    Events(Joined("room") @@ Twice(ann, 2, "text") @@ Once(ann, 3, "text"), 0, 0, 1, 0),
    \* paths, so that pushes go directly
    Events(Joined("room") @@ Once(ann, 2, "text"), 2, 0, 1, 0),
    \* a request that may tell what bob has
    Events(Joined("room") @@ Once(ann, 2, "text") @@ Once(bob, 2, "request"), 0, 0, 1, 0),
    \* commands that remove or promote bob
    Events(Joined("room") @@ Once(bob, 2, "text") @@ Once(ann, 2, "command"), 0, 1, 0, 0),
    \* more clients than the list holds
    Events(Joined("room") @@ Once(cem, 1, "room") @@ Once(ann, 2, "text"), 0, 0, 0, 0),
    Events(Joined("admin") @@ Once(cem, 1, "admin"), 0, 0, 0, 0),
    \* a second login, older or newer than the text
    Events(Joined("room") @@ Once(ann, 3, "room") @@ Once(ann, 2, "text"), 0, 0, 1, 0),
    \* a restart, when both are read back, or when bob tells again what he has
    Events(Joined("admin") @@ Twice(ann, 2, "text"), 0, 0, 0, 1),
    Events(Joined("room") @@ Twice(ann, 2, "text") @@ Once(bob, 2, "room"), 0, 0, 0, 1) }
=============================================================================
