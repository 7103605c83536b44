-------------------------------- MODULE KCore --------------------------------
(***************************************************************************)
(* The common ground of the Rhino kernel: the ready queue (k_sched.c), the *)
(* lists of blocked tasks (k_pend.c), the tick list (k_tick.c) and the     *)
(* change of a task's priority with its propagation along mutexes          *)
(* (k_task.c, k_mutex.c).                                                  *)
(*                                                                         *)
(* Every function of the kernel runs with interrupts disabled, so it is a  *)
(* function from kernel states to kernel states.  A kernel state k is a    *)
(* record; the modules of the kernel objects hold it in a variable.        *)
(***************************************************************************)
EXTENDS Integers, SequencesExt

CONSTANTS Tasks,      \* tasks other than the idle task
          Idle,       \* the idle task
          MaxPrio,    \* user priorities are 1 .. MaxPrio, 1 the most urgent
          Objs,       \* objects a task can block on
          Mutexes,    \* those that are mutexes
          Slice,      \* time slice, in ticks, of every task
          None        \* NULL

ASSUME CoreConstants ==
  /\ Idle \notin Tasks /\ None \notin Tasks \cup {Idle} \cup Objs
  /\ MaxPrio \in Nat \ {0} /\ Slice \in Nat \ {0}
  /\ Mutexes \subseteq Objs

AllTasks == Tasks \cup {Idle}
IdlePrio == MaxPrio + 1                    \* RHINO_IDLE_PRI
Prios == 1 .. IdlePrio
Forever == -1                              \* RHINO_WAIT_FOREVER

TaskStates == {"RDY", "PEND", "SUSPENDED", "PEND_SUSPENDED", "SLEEP",
               "SLEEP_SUSPENDED", "DELETED"}
Suspended == {"SUSPENDED", "PEND_SUSPENDED", "SLEEP_SUSPENDED"}
Pending == {"PEND", "PEND_SUSPENDED"}
Sleeping == {"SLEEP", "SLEEP_SUSPENDED"}

\* k_err_proc(RHINO_SYS_FATAL_ERR) and its like stop the system.
k_err_proc(k) == [k EXCEPT !.fatal = TRUE]

-----------------------------------------------------------------------------
(* The ready queue: cur_list_item[p] is the circular list of the ready tasks  *)
(* of priority p, here a sequence that starts at the current item.            *)

ready_list_init(k, p) ==
  IF k.ready[p] = <<>> /\ p < k.highest_pri THEN [k EXCEPT !.highest_pri = p] ELSE k

ready_list_add_tail(k, t) ==
  LET p == k.prio[t] IN [ready_list_init(k, p) EXCEPT !.ready[p] = Append(@, t)]

ready_list_add_head(k, t) ==
  LET p == k.prio[t] IN [ready_list_init(k, p) EXCEPT !.ready[p] = <<t>> \o @]

\* A task of the priority of the running one waits its turn, any other goes
\* first.
ready_list_add(k, t) ==
  IF k.prio[t] = k.prio[k.active] THEN ready_list_add_tail(k, t)
  ELSE ready_list_add_head(k, t)

\* The priority of the first bit set in task_bit_map.
NonEmpty(k) == {p \in Prios : k.ready[p] # <<>>}

ready_list_rm_StalePri(k, t) == [k EXCEPT !.ready[k.prio[t]] = Remove(@, t)]

ready_list_rm(k, t) ==
  LET p == k.prio[t]
      r == [k EXCEPT !.ready[p] = Remove(@, t)]
  IN  IF r.ready[p] # <<>> \/ p # k.highest_pri THEN r
      ELSE IF NonEmpty(r) = {} THEN k_err_proc(r)
      ELSE [r EXCEPT !.highest_pri = Min(NonEmpty(r))]

ready_list_head_to_tail(k, t) ==
  [k EXCEPT !.ready[k.prio[t]] = Append(Tail(@), Head(@))]

\* core_sched, and krhino_intrpt_exit of the outermost interrupt.
core_sched(k) ==
  [k EXCEPT !.resched = FALSE,
            !.active = IF k.sched_lock > 0 THEN @ ELSE Head(k.ready[k.highest_pri])]


\* The slice that is counted is that of the first task of the running task's
\* priority; a task that is alone, or runs to completion, is left alone.
time_slice_update(k) ==
  LET list == k.ready[k.prio[k.active]]
      t == Head(list)
  IN  IF list = <<>> \/ k.sched_policy[t] = "FIFO" \/ Len(list) = 1 THEN k
      ELSE IF k.time_slice[t] > 1 THEN [k EXCEPT !.time_slice[t] = @ - 1]
      ELSE [ready_list_head_to_tail(k, t) EXCEPT !.time_slice[t] = Slice]

-----------------------------------------------------------------------------
(* The tick list: tasks with the ticks they have left, soonest first. *)

tick_list_insert(k, t, ticks) ==
  IF ticks = 0 THEN k
  ELSE LET later == {i \in DOMAIN k.tick_list : k.tick_list[i].left > ticks}
           place == IF later = {} THEN Len(k.tick_list) + 1 ELSE Min(later)
       IN  [k EXCEPT !.tick_list = InsertAt(@, place, [task |-> t, left |-> ticks])]

tick_list_rm(k, t) ==
  [k EXCEPT !.tick_list = SelectSeq(@, LAMBDA e : e.task # t)]

-----------------------------------------------------------------------------
(* Blocked tasks.  Every object is created with BLK_POLICY_PRI: its blk_list  *)
(* is ordered by priority, first come first served within one priority.       *)

pend_list_add_Fifo(k, o, t) == [k EXCEPT !.blk_list[o] = Append(@, t)]

pend_list_add(k, o, t) ==
  LET lower == {i \in DOMAIN k.blk_list[o] : k.prio[k.blk_list[o][i]] > k.prio[t]}
      place == IF lower = {} THEN Len(k.blk_list[o]) + 1 ELSE Min(lower)
  IN  [k EXCEPT !.blk_list[o] = InsertAt(@, place, t)]

pend_list_rm(k, t) == [k EXCEPT !.blk_list[k.blk_obj[t]] = Remove(@, t)]

pend_list_reorder(k, t) == pend_list_add(pend_list_rm(k, t), k.blk_obj[t], t)

pend_to_blk_obj(k, o, t, timeout) ==
  LET b == [k EXCEPT !.blk_obj[t] = o, !.task_state[t] = "PEND", !.call[t] = o]
      w == IF timeout = Forever THEN b ELSE tick_list_insert(b, t, timeout)
  IN  pend_list_add(ready_list_rm(w, t), o, t)

\* The task leaves the list it is blocked on; if it is not suspended too it is
\* ready again.
Unblock(k, t) ==
  LET r == pend_list_rm(k, t)
  IN  CASE k.task_state[t] = "PEND" ->
             [ready_list_add(r, t) EXCEPT !.task_state[t] = "RDY"]
        [] k.task_state[t] = "PEND_SUSPENDED" ->
             [r EXCEPT !.task_state[t] = "SUSPENDED"]
        [] OTHER -> k_err_proc(k)

\* pend_task_wakeup with BLK_FINISH and pend_task_rm with BLK_DEL.
PendEnd(k, t, why) ==
  [tick_list_rm(Unblock(k, t), t) EXCEPT !.blk_state[t] = why, !.blk_obj[t] = None]

pend_task_wakeup(k, t) == PendEnd(k, t, "FINISH")
pend_task_rm(k, t) == PendEnd(k, t, "DEL")

\* The loops that wake every task of an object.
WakeAll(k, o, why) == FoldLeft(LAMBDA s, t : PendEnd(s, t, why), k, k.blk_list[o])

-----------------------------------------------------------------------------
(* Priority inheritance.  A task runs at its base priority or at that of the  *)
(* most urgent task blocked on a mutex it holds.  k.mutexes are the mutexes   *)
(* whose obj_type still says so: deletion clears it before anything else.     *)

\* What mutex_pri_look and mutex_pri_limit compute: the most urgent of base and
\* of the first tasks blocked on the mutexes ms.
PriLook(k, base, ms) ==
  Min({base} \cup {k.prio[Head(k.blk_list[m])] : m \in {x \in ms : k.blk_list[x] # <<>>}})

Held(k, t) == ToSet(k.mutex_list[t])

mutex_pri_look(k, t) == PriLook(k, k.b_prio[t], Held(k, t))

\* One turn of the loop of task_pri_change: task s.t of state s.k gets priority
\* s.pri, and the turn says which task is to change next.
PriStep(s) ==
  LET k    == s.k
      t    == s.t
      done == [s EXCEPT !.t = None]
  IN  IF t = None \/ k.prio[t] = s.pri THEN done
      ELSE IF k.task_state[t] = "RDY" THEN
        LET r == [ready_list_rm(k, t) EXCEPT !.prio[t] = s.pri]
        IN  [done EXCEPT !.k = IF t = k.active THEN ready_list_add_head(r, t)
                               ELSE ready_list_add_tail(r, t)]
      ELSE IF k.task_state[t] \in Sleeping \cup {"SUSPENDED"} THEN
        [done EXCEPT !.k.prio[t] = s.pri]
      ELSE IF k.task_state[t] \notin Pending THEN [done EXCEPT !.k = k_err_proc(k)]
      ELSE
        LET r == pend_list_reorder([k EXCEPT !.prio[t] = s.pri], t)
            o == k.blk_obj[t]
        IN  IF o \notin k.mutexes THEN [done EXCEPT !.k = r]
            ELSE LET owner == k.mutex_task[o]
                 IN  IF r.prio[owner] > s.pri THEN [k |-> r, t |-> owner, pri |-> s.pri]
                     ELSE IF r.prio[owner] = k.prio[t]
                     THEN [k |-> r, t |-> owner, pri |-> mutex_pri_look(r, owner)]
                     ELSE [done EXCEPT !.k = r]

\* The loop ends within one turn per task unless the holders wait in a circle.
PriTurns == 2 * Cardinality(AllTasks)

task_pri_change(k, t, pri) ==
  LET turn[i \in 0 .. PriTurns] ==
        IF i = 0 THEN [k |-> k, t |-> t, pri |-> pri] ELSE PriStep(turn[i - 1])
      end == turn[PriTurns]
  IN  IF end.t = None THEN end.k ELSE k_err_proc(end.k)

\* mutex_release: t gives up m (None: it only reconsiders its priority).
mutex_release(k, t, m) ==
  LET r == [k EXCEPT !.mutex_list[t] = Remove(@, m)]
  IN  task_pri_change(r, t, mutex_pri_look(r, t))

\* A task has left the list of a mutex: its holder may have been running at
\* this task's priority.
mutex_task_pri_reset(k, t) ==
  LET o == k.blk_obj[t]
  IN  IF o \notin k.mutexes \/ k.prio[k.mutex_task[o]] # k.prio[t] THEN k
      ELSE mutex_release(k, k.mutex_task[o], None)

-----------------------------------------------------------------------------
(* The tick *)

Expire_Forgets(k, t) == tick_list_rm(k, t)

Expire_Finish(k, t) ==
  LET r == tick_list_rm(k, t)
  IN  IF k.task_state[t] \in Pending
      THEN [Unblock(r, t) EXCEPT !.blk_state[t] = "FINISH", !.blk_obj[t] = None]
      ELSE ready_list_add([r EXCEPT !.task_state[t] = "RDY", !.blk_state[t] = "FINISH"], t)

\* What tick_list_update does for one task whose time has come.
Expire(k, t) ==
  LET r == tick_list_rm(k, t)
  IN  IF k.task_state[t] \in Pending
      THEN [mutex_task_pri_reset([Unblock(r, t) EXCEPT !.blk_state[t] = "TIMEOUT"], t)
              EXCEPT !.blk_obj[t] = None]
      ELSE IF k.task_state[t] = "SLEEP"
      THEN ready_list_add([r EXCEPT !.task_state[t] = "RDY", !.blk_state[t] = "FINISH"], t)
      ELSE IF k.task_state[t] = "SLEEP_SUSPENDED"
      THEN [r EXCEPT !.task_state[t] = "SUSPENDED", !.blk_state[t] = "FINISH"]
      ELSE k_err_proc(k)

tick_list_update(k) ==
  LET list == [i \in DOMAIN k.tick_list |-> [k.tick_list[i] EXCEPT !.left = @ - 1]]
      expired == SelectSeq(list, LAMBDA e : e.left = 0)
  IN  FoldLeft(LAMBDA s, e : Expire(s, e.task), [k EXCEPT !.tick_list = list], expired)

\* krhino_tick_proc between krhino_intrpt_enter and krhino_intrpt_exit.
krhino_tick_proc(k) == core_sched(time_slice_update(tick_list_update(k)))
=============================================================================
