------------------------------ MODULE MCKTask ------------------------------
(* Three tasks, two of them of one priority, and no object to block on. *)
EXTENDS KTask

CONSTANTS t1, t2, t3

MCBasePrio == [t \in Tasks |-> IF t = t1 THEN 1 ELSE 2]
=============================================================================
