------------------------------- MODULE Millis -------------------------------
(***************************************************************************)
(* The millisecond clock as Dispatcher reads it: an unsigned counter of    *)
(* Word = 2 * Half values that wraps around, the sum of Dispatcher::       *)
(* futureMillis and the signed comparison of millisHasNowPassed.           *)
(***************************************************************************)
EXTENDS Integers

CONSTANT Half   \* half the number of values of an unsigned long (2^31)

ASSUME HalfAssumption == Half \in Nat \ {0}

Word == 2 * Half

Time == 0 .. (Word - 1)

(* Unsigned addition and subtraction of two words. *)
Plus(a, d)  == IF a + d < Word THEN a + d ELSE (a + d) % Word
Minus(a, b) == IF a >= b THEN a - b ELSE a - b + Word

(* (long)(now - t) > 0 *)
HasPassed(now, t) == Minus(now, t) \in 1 .. (Half - 1)

=============================================================================
