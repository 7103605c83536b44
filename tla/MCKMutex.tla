------------------------------ MODULE MCKMutex ------------------------------
(***************************************************************************)
(* Three tasks of three priorities and two mutexes.  What the tasks do     *)
(* besides locking and unlocking is chosen at the start, so that the runs  *)
(* stay small: nested locks with changes of priority and deletion of a     *)
(* task, or the deletion of a mutex with one of the two; a wait has no     *)
(* timeout where mutexes are deleted and priorities change.                *)
(***************************************************************************)
EXTENDS KMutex

CONSTANTS t1, t2, t3, m1, m2

VARIABLE usage

MCBasePrio == [t \in Tasks |-> IF t = t1 THEN 1 ELSE IF t = t2 THEN 2 ELSE 3]
MCLockTicks == {0, 1, Forever}

InUse ==
  /\ UNCHANGED usage
  /\ usage = "nest" => k'.mutexes = k.mutexes
  /\ usage # "nest" => \A m \in Mutexes : locks'[m] <= 1
  /\ usage = "del_prio" =>
       /\ \A t \in Tasks : k'.task_state[t] # "DELETED"
       /\ \A i \in DOMAIN k'.tick_list : k'.task_state[k'.tick_list[i].task] # "PEND"
  /\ usage = "del_task" => k'.b_prio = k.b_prio

InitUsage == InitMutex /\ usage \in {"nest", "del_prio", "del_task"}

NextUsage ==
  \/ mutex_lock /\ InUse
  \/ mutex_unlock /\ InUse
  \/ mutex_del /\ InUse
  \/ mutex_create /\ InUse
  \/ Return /\ InUse
  \/ TaskStep /\ InUse

SpecUsage == InitUsage /\ [][NextUsage]_<<mvars, usage>>
=============================================================================
