-------------------------------- MODULE Powers --------------------------------
(***************************************************************************)
(* Powers of two, by recursion: what a bit counts at place n, and where    *)
(* integers of n bits wrap around.                                         *)
(***************************************************************************)
EXTENDS Integers

Pow2[n \in Nat] == IF n = 0 THEN 1 ELSE 2 * Pow2[n - 1]
==============================================================================
