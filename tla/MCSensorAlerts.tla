--------------------------- MODULE MCSensorAlerts ---------------------------
(* Contacts, alerts and commands for the run of SensorAlerts. *)
EXTENDS SensorAlerts

CONSTANTS a, b, c, critical, low, dry

InThisOrder == <<critical, low, dry>>

(* As with the battery of main.cpp, what is critical is low. *)
Levels == {{}, {critical, low}, {critical, low, dry}}

(* Remove a; let b have alerts of high priority only. *)
RemoveOrRestrict == {<<{a}, Guest>>, <<{b}, ReadOnly + AlertsHi>>}

Events(reading, hear, login, command) ==
  [k \in Kinds |->
     CASE k = "reading" -> reading
       [] k = "hear"    -> hear
       [] k = "login"   -> login
       [] k = "command" -> command]

(* Texts that get through to one contact or two; alerts that end; commands; more contacts than places. *)
Scenarios ==
  { Events(1, 1, 2, 0),
    Events(1, 2, 1, 0),
    Events(2, 1, 1, 0),
    Events(1, 0, 2, 1),
    Events(1, 0, 3, 0) }
=============================================================================
