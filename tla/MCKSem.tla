------------------------------ MODULE MCKSem ------------------------------
(* Three tasks, two of them of one priority, and one semaphore. *)
EXTENDS KSem

CONSTANTS t1, t2, t3, s1

MCBasePrio == [t \in Tasks |-> IF t = t1 THEN 1 ELSE 2]
MCTakeTicks == {0, 1, Forever}
=============================================================================
