-------------------------------- MODULE KSem --------------------------------
(***************************************************************************)
(* Counting semaphores (k_sem.c), the semaphores of tasks (k_task_sem.c)   *)
(* and their CSI names (csi_rhino.c), composed with tasks and the tick.    *)
(* Tasks take and give; interrupt handlers give.  krhino_task_sem_* are    *)
(* the same operations on the semaphore task_sem_obj of a task.            *)
(***************************************************************************)
EXTENDS KTask

CONSTANTS Sems,           \* semaphores
          TakeTicks,      \* timeouts of krhino_sem_take, 0 and Forever included
          CountMax,       \* (sem_count_t)-1
          InitCount,      \* count a semaphore is created with
          SetCounts,      \* arguments of krhino_sem_count_set
          DelSems,        \* semaphores that are deleted and created again
          Isr             \* TRUE: interrupt handlers give as well

ASSUME SemConstants ==
  /\ Sems \subseteq Objs \ Mutexes /\ DelSems \subseteq Sems
  /\ TakeTicks \subseteq Nat \cup {Forever}
  /\ CountMax \in Nat \ {0} /\ InitCount \in 0 .. CountMax
  /\ SetCounts \subseteq 0 .. CountMax /\ Isr \in BOOLEAN

VARIABLES sems,           \* semaphores whose obj_type is RHINO_SEM_OBJ_TYPE
          count, peak_count,
          balance         \* history: tokens given and not returned by a take

semvars == <<sems, count, peak_count, balance>>
svars == <<k, semvars>>

\* Tasks whose take on o has got a token and has still to return.
Granted(o) ==
  {t \in Tasks : /\ k.call[t] = o /\ k.blk_state[t] = "FINISH"
                 /\ k.task_state[t] \notin Pending \cup {"DELETED"}}

MaxOf(a, b) == IF a > b THEN a ELSE b

SetCount(o, n) ==
  /\ count' = [count EXCEPT ![o] = n]
  /\ peak_count' = [peak_count EXCEPT ![o] = MaxOf(@, n)]

sem_take ==
  \E t \in Tasks, o \in sems, ticks \in TakeTicks :
    /\ Caller(t)
    /\ \/ /\ count[o] > 0
          /\ count' = [count EXCEPT ![o] = @ - 1]
          /\ balance' = [balance EXCEPT ![o] = @ - 1]
          /\ UNCHANGED k
       \/ /\ count[o] = 0 /\ ticks # 0 /\ CanBlock
          /\ k' = Resched(pend_to_blk_obj(k, o, t, ticks))
          /\ UNCHANGED <<count, balance>>
    /\ UNCHANGED <<sems, peak_count>>

\* sem_give by a task or an interrupt handler, to one waiting task or to all.
sem_give(o, wake_all, isr) ==
  LET list == k.blk_list[o]
  IN  IF list = <<>>
      THEN /\ count[o] < CountMax
           /\ SetCount(o, count[o] + 1)
           /\ balance' = [balance EXCEPT ![o] = @ + 1]
           /\ UNCHANGED <<k, sems>>
      ELSE /\ k' = ExitSched(isr, IF wake_all THEN WakeAll(k, o, "FINISH")
                                  ELSE pend_task_wakeup(k, Head(list)))
           /\ balance' = [balance EXCEPT ![o] = @ + IF wake_all THEN Len(list) ELSE 1]
           /\ UNCHANGED <<sems, count, peak_count>>

TaskGive ==
  \E t \in Tasks, o \in sems, wake_all \in BOOLEAN :
    Caller(t) /\ sem_give(o, wake_all, FALSE)

IsrGive ==
  \E o \in sems :
    /\ Isr /\ k.active \notin k.irq_off /\ ~k.fatal
    /\ sem_give(o, FALSE, TRUE)

\* krhino_sem_count_set: refused while tasks wait.
sem_count_set ==
  \E t \in Tasks, o \in sems, n \in SetCounts :
    /\ Caller(t)
    /\ count[o] > 0 \/ k.blk_list[o] = <<>>
    /\ SetCount(o, n)
    /\ balance' = [balance EXCEPT ![o] = @ + (n - count[o])]
    /\ UNCHANGED <<k, sems>>

sem_del_LeavesWaiters ==
  \E t \in Tasks, o \in sems \cap DelSems :
    /\ Caller(t) /\ sems' = sems \ {o}
    /\ UNCHANGED <<k, count, peak_count, balance>>

sem_del ==
  \E t \in Tasks, o \in sems \cap DelSems :
    /\ Caller(t)
    /\ k' = Resched(WakeAll(k, o, "DEL"))
    /\ sems' = sems \ {o}
    /\ UNCHANGED <<count, peak_count, balance>>

\* krhino_sem_create initialises the whole object.
sem_create ==
  \E t \in Tasks, o \in DelSems \ sems :
    /\ Caller(t)
    /\ sems' = sems \cup {o}
    /\ count' = [count EXCEPT ![o] = InitCount]
    /\ peak_count' = [peak_count EXCEPT ![o] = InitCount]
    /\ balance' = [balance EXCEPT ![o] = InitCount + Cardinality(Granted(o))]
    /\ UNCHANGED k

\* A take that returns RHINO_SUCCESS uses up a token, and so does the deletion
\* of a task whose take has got one.
UseUp ==
  /\ balance' = [o \in Sems |-> balance[o] - Cardinality(Granted(o) \ Granted(o)')]
  /\ UNCHANGED <<sems, count, peak_count>>

Return == pend_state_end_proc /\ UseUp

\* The steps of KTask.
TaskStep == Next /\ UseUp

InitSem ==
  /\ InitKernel /\ sems = Sems
  /\ count = [o \in Sems |-> InitCount] /\ peak_count = count /\ balance = count

SemCall == sem_take \/ TaskGive \/ sem_count_set \/ sem_del \/ sem_create

NextSem == SemCall \/ IsrGive \/ Return \/ TaskStep

SpecSem == InitSem /\ [][NextSem]_svars

FairSpecSem == SpecSem /\ Fairness

-----------------------------------------------------------------------------
(* Properties *)

\* No wake-up is lost: nobody waits at a semaphore that has a token, or that
\* has been deleted.
NoWaitWithTokens ==
  \A o \in Sems : count[o] > 0 \/ o \notin sems => k.blk_list[o] = <<>>

\* The semaphore that is compared with SemAbs.
Watched == CHOOSE o \in Sems : TRUE

Abs == INSTANCE SemAbs WITH
  Users <- Tasks, count <- count[Watched], waiting <- ToSet(k.blk_list[Watched]),
  granted <- Granted(Watched), balance <- balance[Watched]

\* A semaphore behaves as SemAbs says: no token is lost or made when gives of
\* tasks and interrupt handlers, timeouts, suspensions and deletions meet.
ImplementsSemAbs == Abs!SpecAbs

\* A take with a timeout does not wait for ever.
TimedWaitEnds ==
  \A t \in Tasks :
    (k.task_state[t] = "PEND" /\ \E i \in DOMAIN k.tick_list : k.tick_list[i].task = t)
      ~> k.task_state[t] # "PEND"
=============================================================================
