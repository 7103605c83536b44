-------------------------------- MODULE KMutex --------------------------------
(***************************************************************************)
(* Mutexes with priority inheritance (k_mutex.c), composed with the tasks  *)
(* and the scheduler of KTask: a holder can be preempted, put to sleep,    *)
(* suspended, deleted or given another priority, and a waiting task can    *)
(* time out, at any moment.                                                *)
(***************************************************************************)
EXTENDS KTask

CONSTANTS LockTicks,      \* timeouts of krhino_mutex_lock, 0 and Forever included
          NestedMax,      \* bound: lock calls of one holder (the code's is 2^32 - 1)
          NestTasks,      \* tasks that lock again what they hold
          DelMutexes      \* mutexes that are deleted and created again

\* The mutexes of one task are linked through the mutexes themselves, so what a
\* deleted task's list leads to is known here only for one mutex, whose link is
\* always NULL.
ASSUME MutexConstants ==
  /\ DelTwice => Cardinality(Mutexes) <= 1
  /\ LockTicks \subseteq Nat \cup {Forever}
  /\ NestedMax \in Nat \ {0} /\ NestTasks \subseteq Tasks /\ DelMutexes \subseteq Mutexes

VARIABLE locks            \* history: lock calls of the holder not yet unlocked

mvars == <<k, locks>>

\* The state in which t owns m and nobody else does.
Own(s, m, t) ==
  [s EXCEPT !.mutex_task[m] = t, !.owner_nested[m] = 1, !.mutex_list[t] = <<m>> \o @]

\* Priority inheritance of a lock call that is about to block: the holder gets
\* at least the caller's priority.
Inherit(s, m, t) ==
  IF s.prio[t] < s.prio[s.mutex_task[m]]
  THEN task_pri_change(s, s.mutex_task[m], s.prio[t]) ELSE s

mutex_lock ==
  \E t \in Tasks, m \in k.mutexes, ticks \in LockTicks :
    /\ Caller(t)
    /\ \/ /\ k.mutex_task[m] = t /\ t \in NestTasks
          /\ k.owner_nested[m] < NestedMax
          /\ k' = [k EXCEPT !.owner_nested[m] = @ + 1]
          /\ locks' = [locks EXCEPT ![m] = @ + 1]
       \/ /\ k.mutex_task[m] = None
          /\ k' = Own(k, m, t)
          /\ locks' = [locks EXCEPT ![m] = 1]
       \/ /\ k.mutex_task[m] \notin {t, None}
          /\ ticks # 0 /\ CanBlock
          /\ k' = Resched(pend_to_blk_obj(Inherit(k, m, t), m, t, ticks))
          /\ UNCHANGED locks

PassOn_KeepsOwner(s, m) ==
  [pend_task_wakeup(s, Head(s.blk_list[m])) EXCEPT !.owner_nested[m] = 1, !.resched = TRUE]

\* The holder leaves m to the most urgent task that waits for it.
PassOn(s, m) ==
  LET n == Head(s.blk_list[m])
  IN  [Own(pend_task_wakeup(s, n), m, n) EXCEPT !.resched = TRUE]

mutex_unlock_AnyTask ==
  \E t \in Tasks, m \in k.mutexes :
    /\ Caller(t) /\ k.mutex_task[m] # None
    /\ LET r == mutex_release(k, k.mutex_task[m], m)
       IN  k' = IF r.blk_list[m] = <<>> THEN [r EXCEPT !.mutex_task[m] = None] ELSE PassOn(r, m)
    /\ locks' = [locks EXCEPT ![m] = 0]

mutex_unlock ==
  \E t \in Tasks, m \in k.mutexes :
    /\ Caller(t)
    /\ k.mutex_task[m] = t
    /\ LET s == [k EXCEPT !.owner_nested[m] = @ - 1]
           r == mutex_release(s, t, m)
       IN  k' = IF s.owner_nested[m] > 0 THEN s
                ELSE IF r.blk_list[m] = <<>> THEN [r EXCEPT !.mutex_task[m] = None]
                ELSE PassOn(r, m)
    /\ locks' = [locks EXCEPT ![m] = IF k'.mutex_task[m] \in {t, None} THEN @ - 1 ELSE 1]

mutex_del_TypeLast ==
  \E t \in Tasks, m \in k.mutexes \cap DelMutexes :
    /\ Caller(t)
    /\ LET h == k.mutex_task[m]
           r == IF h = None THEN k ELSE mutex_release(k, h, m)
       IN  k' = [Resched(WakeAll(r, m, "DEL")) EXCEPT !.mutexes = @ \ {m}]
    /\ UNCHANGED locks

mutex_del_NoRelease ==
  \E t \in Tasks, m \in k.mutexes \cap DelMutexes :
    /\ Caller(t)
    /\ k' = Resched(WakeAll([k EXCEPT !.mutexes = @ \ {m}], m, "DEL"))
    /\ UNCHANGED locks

\* krhino_mutex_del and krhino_mutex_dyn_del; the calls on m after it fail with
\* RHINO_KOBJ_TYPE_ERR until m is created anew.
mutex_del ==
  \E t \in Tasks, m \in k.mutexes \cap DelMutexes :
    /\ Caller(t)
    /\ LET h == k.mutex_task[m]
           s == [k EXCEPT !.mutexes = @ \ {m}]
           r == IF h = None THEN s ELSE mutex_release(s, h, m)
       IN  k' = Resched(WakeAll(r, m, "DEL"))
    /\ UNCHANGED locks

mutex_create ==
  \E t \in Tasks, m \in DelMutexes \ k.mutexes :
    /\ Caller(t)
    /\ k' = [k EXCEPT !.mutexes = @ \cup {m}, !.mutex_task[m] = None]
    /\ locks' = [locks EXCEPT ![m] = 0]

\* The steps of KTask.  A mutex that goes to another task by one of them has
\* been locked once by its new holder.
TaskStep ==
  /\ Next
  /\ locks' = [m \in Mutexes |->
                 IF k'.mutex_task[m] = k.mutex_task[m] THEN locks[m]
                 ELSE IF k'.mutex_task[m] = None THEN 0 ELSE 1]

Return == pend_state_end_proc /\ UNCHANGED locks

InitMutex == InitKernel /\ locks = [m \in Mutexes |-> 0]

MutexCall == mutex_lock \/ mutex_unlock \/ mutex_del \/ mutex_create

NextMutex == MutexCall \/ Return \/ TaskStep

SpecMutex == InitMutex /\ [][NextMutex]_mvars

-----------------------------------------------------------------------------
(* Properties *)

\* Priority inheritance is exact: every task runs at the most urgent of its own
\* priority and those of all tasks blocked on mutexes it holds, through any
\* chain of holders, and after timeouts, deletions, unlocks and priority
\* changes; it never keeps a priority it has no reason for.
PriorityExact ==
  \A t \in AllTasks :
    k.task_state[t] # "DELETED" =>
      k.prio[t] = Min({k.b_prio[t]} \cup
                      {k.prio[w] : w \in UNION {ToSet(k.blk_list[m]) :
                                     m \in {x \in k.mutexes : k.mutex_task[x] = t}}})

\* Who holds a mutex is recorded twice, in the mutex and in the task's chain of
\* mutexes, and both agree; a mutex somebody waits for is held, by a task that
\* exists.
HoldersAgree ==
  /\ \A t \in Tasks : k.task_state[t] # "DELETED" =>
       /\ IsInjective(k.mutex_list[t])
       /\ Held(k, t) = {m \in k.mutexes : k.mutex_task[m] = t}
  /\ \A m \in k.mutexes :
       /\ k.mutex_task[m] # None => k.task_state[k.mutex_task[m]] # "DELETED"
       /\ k.blk_list[m] # <<>> => k.mutex_task[m] # None

\* A mutex counts the lock calls of its holder ("if the same task get the same
\* mutex again, it causes mutex owner nested"), so that as many unlocks free it.
NestedIsLocks ==
  \A m \in k.mutexes : k.mutex_task[m] # None => k.owner_nested[m] = locks[m]

\* krhino_mutex_lock tells the truth: a blocked call that has ended reports
\* success exactly when its task holds the mutex, however the hand-over, the
\* timeout and the suspension of the task came together (a mutex may be deleted
\* and made anew before the call of its new holder returns).
GrantedHolds ==
  \A t \in Tasks :
    k.call[t] # None /\ k.task_state[t] \notin Pending \cup {"DELETED"} =>
      IF k.blk_state[t] # "FINISH" THEN k.mutex_task[k.call[t]] # t
      ELSE k.call[t] \in DelMutexes \/ k.mutex_task[k.call[t]] = t

\* A mutex never changes hands behind the back of a holder that exists: it
\* takes the holder's last unlock, its deletion, or the mutex's own.
NotStolen ==
  [][\A m \in k.mutexes \cap k'.mutexes :
       LET h == k.mutex_task[m]
       IN  h # None /\ k'.mutex_task[m] # h =>
             \/ h = k.active /\ locks[m] = 1
             \/ k'.task_state[h] = "DELETED"]_mvars

\* Locks, unlocks, timeouts, deletions and changes of priority leave the mutex,
\* the chain of its holder, the list of its waiters and all priorities in
\* agreement, and krhino_mutex_lock returns the truth.
MutexesSound == PriorityExact /\ WaitersOrdered /\ GrantedHolds /\ HoldersAgree
=============================================================================
