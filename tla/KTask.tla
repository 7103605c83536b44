-------------------------------- MODULE KTask --------------------------------
(***************************************************************************)
(* Tasks (k_task.c) under the scheduler (k_sched.c) and the tick           *)
(* (k_tick.c).  The running task calls the kernel; the tick interrupts it. *)
(*                                                                         *)
(* A call that ends with RHINO_CRITICAL_EXIT_SCHED first enables the       *)
(* interrupts and then calls core_sched: in between (k.resched) the tick   *)
(* may strike while the running task is already blocked or deleted.        *)
(***************************************************************************)
EXTENDS KCore

CONSTANTS SleepTicks,     \* arguments of krhino_task_sleep
          SuspendTasks,   \* tasks that are suspended and resumed
          DelTasks,       \* tasks that are deleted and created again
          DelTwice,       \* TRUE: also tasks that are deleted already
          PrioTasks,      \* tasks whose priority is changed,
          NewPrios,       \* and to what
          PolicyTasks,    \* tasks whose scheduling policy is changed
          SuspendMax,     \* (suspend_nested_t)-1
          LockMax,        \* SCHED_MAX_LOCK_COUNT
          BasePrio        \* the priority each task is created with

ASSUME TaskConstants ==
  /\ SleepTicks \subseteq Nat \ {0}
  /\ SuspendTasks \subseteq Tasks /\ PrioTasks \subseteq Tasks
  /\ NewPrios \subseteq 1 .. MaxPrio
  /\ PolicyTasks \subseteq Tasks
  /\ DelTasks \subseteq AllTasks /\ DelTwice \in BOOLEAN
  /\ SuspendMax \in Nat \ {0} /\ LockMax \in Nat
  /\ BasePrio \in [Tasks -> 1 .. MaxPrio]

VARIABLE k

-----------------------------------------------------------------------------
\* The task that executes its own code now.
Running(t) == t = k.active /\ t # Idle /\ ~k.resched /\ ~k.fatal

\* It can call the kernel when no earlier call has still to return.
Caller(t) == Running(t) /\ k.call[t] = None

\* RHINO_CRITICAL_EXIT_SCHED
Resched(s) == [s EXCEPT !.resched = TRUE]

\* The same in an interrupt handler, where krhino_intrpt_exit calls core_sched.
ExitSched(isr, s) == IF isr THEN core_sched(s) ELSE Resched(s)

\* A call that may block is refused while the scheduler is locked.
CanBlock == k.sched_lock = 0

task_yield ==
  \E t \in Tasks :
    /\ Caller(t)
    /\ k' = Resched(ready_list_head_to_tail(k, t))

task_sleep ==
  \E t \in Tasks, ticks \in SleepTicks :
    /\ Caller(t) /\ CanBlock
    /\ k' = Resched(ready_list_rm(tick_list_insert(
              [k EXCEPT !.task_state[t] = "SLEEP"], t, ticks), t))

sched_disable ==
  /\ \E t \in Tasks : Caller(t)
  /\ k.sched_lock < LockMax
  /\ k' = [k EXCEPT !.sched_lock = @ + 1]

sched_enable ==
  /\ \E t \in Tasks : Caller(t)
  /\ k.sched_lock > 0
  /\ k' = [k EXCEPT !.sched_lock = @ - 1, !.resched = (k.sched_lock = 1)]

\* A call that blocked returns: blk_state says whether it got what it waited
\* for, ran out of time, or lost the object.
pend_state_end_proc ==
  \E t \in Tasks :
    /\ Running(t) /\ k.call[t] # None
    /\ k' = [k EXCEPT !.call[t] = None]

-----------------------------------------------------------------------------
(* Suspension: it nests, and comes on top of sleeping and blocking. *)

WithSuspended(state) ==
  CASE state = "RDY"   -> "SUSPENDED"
    [] state = "SLEEP" -> "SLEEP_SUSPENDED"
    [] state = "PEND"  -> "PEND_SUSPENDED"
    [] OTHER           -> state

WithoutSuspended(state) ==
  CASE state = "SUSPENDED"       -> "RDY"
    [] state = "SLEEP_SUSPENDED" -> "SLEEP"
    [] state = "PEND_SUSPENDED"  -> "PEND"

task_suspend_NoLimit ==
  \E c \in Tasks, t \in SuspendTasks :
    /\ Caller(c) /\ (t = c => CanBlock) /\ k.task_state[t] # "DELETED"
    /\ LET s == IF k.task_state[t] = "RDY" THEN ready_list_rm(k, t) ELSE k
       IN  k' = Resched([s EXCEPT !.task_state[t] = WithSuspended(@),
                                  !.suspend_count[t] = @ + 1])

task_suspend ==
  \E c \in Tasks, t \in SuspendTasks :
    /\ Caller(c)
    /\ t = c => CanBlock
    /\ k.task_state[t] # "DELETED"
    /\ k.task_state[t] \in Suspended => k.suspend_count[t] < SuspendMax
    /\ LET s == IF k.task_state[t] = "RDY" THEN ready_list_rm(k, t) ELSE k
           n == IF k.task_state[t] \in Suspended THEN k.suspend_count[t] + 1 ELSE 1
       IN  k' = Resched([s EXCEPT !.task_state[t] = WithSuspended(@),
                                  !.suspend_count[t] = n])

task_resume_Early ==
  \E c \in Tasks, t \in SuspendTasks :
    /\ Caller(c) /\ k.task_state[t] \in Suspended
    /\ LET r == [k EXCEPT !.suspend_count[t] = @ - 1, !.task_state[t] = WithoutSuspended(@)]
       IN  k' = Resched(IF r.task_state[t] = "RDY" THEN ready_list_add(r, t) ELSE r)

task_resume ==
  \E c \in Tasks, t \in SuspendTasks :
    /\ Caller(c)
    /\ k.task_state[t] \in Suspended
    /\ LET s == [k EXCEPT !.suspend_count[t] = @ - 1]
           r == [s EXCEPT !.task_state[t] = WithoutSuspended(@)]
       IN  k' = Resched(IF s.suspend_count[t] > 0 THEN s
                        ELSE IF r.task_state[t] = "RDY" THEN ready_list_add(r, t) ELSE r)

-----------------------------------------------------------------------------
(* Priority and policy *)

krhino_task_pri_change ==
  \E c \in Tasks, t \in PrioTasks, pri \in NewPrios :
    /\ Caller(c)
    /\ k.task_state[t] # "DELETED"
    /\ k' = Resched(task_pri_change([k EXCEPT !.b_prio[t] = pri], t,
                                    PriLook(k, pri, Held(k, t))))

sched_policy_set ==
  \E c \in Tasks, t \in PolicyTasks, policy \in {"FIFO", "RR"} :
    /\ Caller(c)
    /\ k' = [k EXCEPT !.sched_policy[t] = policy]

-----------------------------------------------------------------------------
(* Deletion and creation *)

\* task_mutex_free: every mutex t holds goes to the first task blocked on it.
\* The new holder's nesting count is the one the deleted task had.
FreeMutex(s, m) ==
  IF s.blk_list[m] = <<>> THEN [s EXCEPT !.mutex_task[m] = None]
  ELSE LET n == Head(s.blk_list[m])
       IN  [pend_task_wakeup(s, n) EXCEPT !.mutex_task[m] = n,
                                          !.mutex_list[n] = <<m>> \o @]

task_mutex_free(s, t) == FoldLeft(FreeMutex, s, s.mutex_list[t])

Detach_KeepsTick(s, t) ==
  LET gone == [s EXCEPT !.task_state[t] = "DELETED"]
  IN  CASE s.task_state[t] = "RDY" -> ready_list_rm(gone, t)
        [] s.task_state[t] \in Sleeping \cup {"SUSPENDED"} -> gone
        [] s.task_state[t] \in Pending -> mutex_task_pri_reset(pend_list_rm(gone, t), t)

\* What deletion does to a task in each of its states.
Detach(s, t) ==
  LET gone == [s EXCEPT !.task_state[t] = "DELETED"]
  IN  CASE s.task_state[t] = "RDY"       -> ready_list_rm(gone, t)
        [] s.task_state[t] = "SUSPENDED" -> gone
        [] s.task_state[t] \in Sleeping  -> tick_list_rm(gone, t)
        [] s.task_state[t] \in Pending   ->
             mutex_task_pri_reset(pend_list_rm(tick_list_rm(gone, t), t), t)

\* krhino_task_del.  The refusal to delete the idle task returns without
\* leaving the critical section: the caller goes on with interrupts disabled.
\* That a task is deleted already is found out only after its mutexes, those
\* of its last life, have been freed.
task_del ==
  \E c \in Tasks, t \in DelTasks :
    /\ Caller(c)
    /\ k.task_state[t] = "DELETED" => DelTwice
    /\ k' = IF t = Idle THEN [k EXCEPT !.irq_off = @ \cup {c}]
            ELSE IF t = c /\ ~CanBlock THEN k
            ELSE LET s == task_mutex_free(k, t)
                 IN  IF k.task_state[t] = "DELETED" THEN s ELSE Resched(Detach(s, t))

\* memset of the whole structure, then the given priority.
Fresh(s, t, pri, state) ==
  [s EXCEPT !.task_state[t] = state, !.prio[t] = pri, !.b_prio[t] = pri,
            !.suspend_count[t] = IF state = "SUSPENDED" THEN 1 ELSE 0,
            !.time_slice[t] = Slice, !.sched_policy[t] = "RR",
            !.blk_obj[t] = None, !.blk_state[t] = "FINISH", !.call[t] = None, !.mutex_list[t] = <<>>,
            !.irq_off = @ \ {t}]

task_create ==
  \E c \in Tasks, t \in DelTasks \ {Idle}, autorun \in BOOLEAN :
    /\ Caller(c)
    /\ k.task_state[t] = "DELETED"
    /\ k' = IF autorun
            THEN Resched(ready_list_add_tail(Fresh(k, t, BasePrio[t], "RDY"), t))
            ELSE Fresh(k, t, BasePrio[t], "SUSPENDED")

-----------------------------------------------------------------------------
(* Scheduling *)

\* The second half of RHINO_CRITICAL_EXIT_SCHED.
Switch == k.resched /\ ~k.fatal /\ k' = core_sched(k)

\* The tick interrupt, which finds interrupts enabled.
Tick == k.active \notin k.irq_off /\ ~k.fatal /\ k' = krhino_tick_proc(k)

\* krhino_init and krhino_start, the tasks created ready in some order.
Started(order) ==
  LET prio  == [t \in AllTasks |-> IF t = Idle THEN IdlePrio ELSE BasePrio[t]]
      ready == [p \in Prios |-> SelectSeq(order, LAMBDA t : prio[t] = p)]
      top   == Min({p \in Prios : ready[p] # <<>>})
  IN  [task_state |-> [t \in AllTasks |-> "RDY"],
       prio |-> prio, b_prio |-> prio,
       suspend_count |-> [t \in AllTasks |-> 0],
       time_slice |-> [t \in AllTasks |-> Slice],
       sched_policy |-> [t \in AllTasks |-> "RR"],
       ready |-> ready, highest_pri |-> top, active |-> Head(ready[top]),
       sched_lock |-> 0, resched |-> FALSE, irq_off |-> {}, fatal |-> FALSE,
       tick_list |-> <<>>,
       blk_obj |-> [t \in AllTasks |-> None],
       blk_state |-> [t \in AllTasks |-> "FINISH"],
       call |-> [t \in AllTasks |-> None],
       blk_list |-> [o \in Objs |-> <<>>],
       mutexes |-> Mutexes,
       mutex_task |-> [m \in Mutexes |-> None],
       owner_nested |-> [m \in Mutexes |-> 0],
       mutex_list |-> [t \in AllTasks |-> <<>>]]

InitKernel == \E order \in SetToSeqs(AllTasks) : k = Started(order)

TaskCall ==
  \/ task_yield \/ task_sleep \/ sched_disable \/ sched_enable
  \/ task_suspend \/ task_resume \/ krhino_task_pri_change \/ sched_policy_set
  \/ task_del \/ task_create

\* Nothing blocks a task here: the modules of the kernel objects add
\* pend_state_end_proc.
Next == TaskCall \/ Switch \/ Tick

Spec == InitKernel /\ [][Next]_k

\* The processor keeps executing and the tick timer keeps interrupting it: weak
\* fairness of Switch and of Tick, with what enables them written out.
SwitchDue == k.resched /\ ~k.fatal
TickDue == k.active \notin k.irq_off /\ ~k.fatal /\ krhino_tick_proc(k) # k

Fairness ==
  /\ []<>~SwitchDue \/ []<><<Switch>>_k
  /\ []<>~TickDue \/ []<><<Tick>>_k

FairSpec == Spec /\ Fairness

-----------------------------------------------------------------------------
(* Properties *)

TypeOK ==
  /\ k.task_state \in [AllTasks -> TaskStates]
  /\ k.prio \in [AllTasks -> Prios] /\ k.b_prio \in [AllTasks -> Prios]
  /\ k.suspend_count \in [AllTasks -> 0 .. SuspendMax]
  /\ k.time_slice \in [AllTasks -> 1 .. Slice]
  /\ k.sched_policy \in [AllTasks -> {"FIFO", "RR"}]
  /\ k.ready \in [Prios -> Seq(AllTasks)]
  /\ k.highest_pri \in Prios /\ k.active \in AllTasks
  /\ k.sched_lock \in 0 .. LockMax /\ k.resched \in BOOLEAN
  /\ k.irq_off \subseteq Tasks /\ k.fatal \in BOOLEAN
  /\ k.tick_list \in Seq([task : AllTasks, left : Nat])
  /\ k.blk_obj \in [AllTasks -> Objs \cup {None}]
  /\ k.blk_state \in [AllTasks -> {"FINISH", "TIMEOUT", "DEL"}]
  /\ k.call \in [AllTasks -> Objs \cup {None}]
  /\ k.blk_list \in [Objs -> Seq(AllTasks)]
  /\ k.mutexes \subseteq Mutexes
  /\ k.mutex_task \in [Mutexes -> AllTasks \cup {None}]
  /\ k.owner_nested \in [Mutexes -> Nat]
  /\ k.mutex_list \in [AllTasks -> Seq(Mutexes)]

Count(list, t) == Cardinality({i \in DOMAIN list : list[i] = t})

\* The state the kernel records for a task says which lists it is in: a ready
\* task once in the ready list of its current priority, a blocked task once in
\* the list of the object it is blocked on, a sleeping task once in the tick
\* list, and in no other list.  Interrupts may find any intermediate state.
ListsMatchStates ==
  \A t \in AllTasks :
    LET state == k.task_state[t]
        ticks == Cardinality({i \in DOMAIN k.tick_list : k.tick_list[i].task = t})
    IN  /\ \A p \in Prios :
             Count(k.ready[p], t) = IF state = "RDY" /\ p = k.prio[t] THEN 1 ELSE 0
        /\ \A o \in Objs :
             Count(k.blk_list[o], t) = IF state \in Pending /\ o = k.blk_obj[t] THEN 1 ELSE 0
        /\ state \in Pending => k.blk_obj[t] \in Objs
        /\ ticks <= 1
        /\ state \in Sleeping => ticks = 1
        /\ ticks = 1 => state \in Sleeping \cup Pending
        /\ state \in Suspended <=> (k.suspend_count[t] > 0 /\ state # "DELETED")

\* The most urgent waiting task is the first to get an object: the list of
\* blocked tasks stays ordered while priorities change under it.
WaitersOrdered ==
  \A o \in Objs : \A i \in 1 .. Len(k.blk_list[o]) - 1 :
    k.prio[k.blk_list[o][i]] <= k.prio[k.blk_list[o][i + 1]]

\* The processor belongs to the first task of the most urgent priority that has
\* a ready task, whenever the scheduler is not locked and no switch is pending;
\* the cached highest_pri is that priority at any time.
HighestRuns ==
  /\ k.highest_pri = Min(NonEmpty(k))
  /\ ~k.resched /\ k.sched_lock = 0 => k.active = Head(k.ready[k.highest_pri])

\* The branches the code gives to k_err_proc (a wake-up of a task that is not
\* blocked, an empty ready queue, a timeout of a task that is not waiting, a
\* priority change that finds no known state) are never reached.
NoFatalError == ~k.fatal


\* The scheduler's data agree with each other between any two steps, also where
\* an interrupt comes between the end of a call and the task switch.
SchedulerSound == TypeOK /\ ListsMatchStates /\ HighestRuns /\ NoFatalError
=============================================================================
