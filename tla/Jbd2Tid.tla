------------------------------ MODULE Jbd2Tid ------------------------------
(***************************************************************************)
(* Transaction numbers of fs/jbd2: unsigned counters of one machine word   *)
(* that wrap, compared through the sign of their difference.               *)
(***************************************************************************)
EXTENDS Integers

CONSTANT TidHalf        \* half the number of tids: 2^31 in the code

ASSUME TidHalfAssumption == TidHalf \in Nat \ {0}

TidMod == 2 * TidHalf

Tid == 0 .. TidMod - 1

\* x - y as the unsigned subtraction leaves it.
TidDistance(x, y) == IF x < y THEN x - y + TidMod ELSE x - y

\* The same bits read as a signed int.
TidDifference(x, y) ==
  IF TidDistance(x, y) < TidHalf THEN TidDistance(x, y) ELSE TidDistance(x, y) - TidMod

tid_gt(x, y) == TidDifference(x, y) > 0

tid_geq(x, y) == TidDifference(x, y) >= 0

\* tid + n and tid - n for a small n.
TidPlus(x, n) == IF x + n >= TidMod THEN x + n - TidMod ELSE x + n

TidMinus(x, n) == IF x < n THEN x - n + TidMod ELSE x - n
=============================================================================
