------------------------------ MODULE MCKTimer ------------------------------
(* Two timers, periods of one or two ticks and a counter that wraps. *)
EXTENDS KTimer, TLC

CONSTANTS t1, t2, a1

Symmetry == Permutations({t1, t2})
=============================================================================
