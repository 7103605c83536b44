------------------------------- MODULE KTimer -------------------------------
(***************************************************************************)
(* The software-timer service of the Rhino kernel (core/k_timer.c).        *)
(*                                                                         *)
(* Every API call on a timer is a message: it is put, without waiting, in  *)
(* the bounded buffer queue g_timer_queue and carried out later by         *)
(* timer_task, the only writer of g_timer_head and of the timers.  The     *)
(* task keeps the active timers in a list ordered by remaining time and    *)
(* sleeps in krhino_buf_queue_recv until a command comes or the head of    *)
(* the list is due.  Three actors interleave: the clients that send, the   *)
(* system tick, and timer_task, which may get the processor late.          *)
(***************************************************************************)
EXTENDS Integers, SequencesExt

CONSTANTS Timers,       \* the addresses a ktimer_t can have
          DynTimers,    \* those whose mm_alloc_flag is K_OBJ_DYN_ALLOC
          Firsts,       \* first-shot delays clients ask for
          Rounds,       \* periods they ask for, 0 for a one-shot timer
          Args,         \* callback arguments
          TickMod,      \* number of values of a sys_time_t (2^64, or 2^32)
          MsgNum,       \* RHINO_CONFIG_TIMER_MSG_NUM
          MaxLag,       \* bound: ticks that may pass between two reads of the
                        \* tick by a timer_task that runs late
          MaxCalls      \* bound: API calls of a behaviour

ASSUME TimerConstants ==
  /\ DynTimers \subseteq Timers
  /\ TickMod \in Nat /\ MsgNum \in Nat \ {0} /\ MaxLag \in Nat /\ MaxCalls \in Nat
  /\ Firsts \subseteq Nat \ {0} /\ Rounds \subseteq Nat
  /\ \A c \in Firsts \cup Rounds : 2 * c < TickMod
  /\ Args # {}

VARIABLES g_tick_count,   \* the system tick
          g_timer_count,  \* the tick timer_task last worked with
          g_timer_head,   \* the list of active timers
          timer,          \* the ktimer_t structures
          g_timer_queue,  \* commands sent and not yet received
          task,           \* control state of timer_task
          late,           \* whether timer_task is ever kept off the processor
          lag,            \* ticks since timer_task last could read the tick
          calls,          \* API calls made
          due             \* history: ticks that must pass before t may fire

svc == <<g_timer_count, g_timer_head, timer>>
vars == <<g_tick_count, g_timer_count, g_timer_head, timer, g_timer_queue,
          task, late, lag, calls, due>>

-----------------------------------------------------------------------------
(* sys_time_t and sys_time_i_t arithmetic *)

USub(a, b) == (a - b) % TickMod
SSub(a, b) == LET d == USub(a, b) IN IF 2 * d < TickMod THEN d ELSE d - TickMod
UAdd(a, b) == (a + b) % TickMod

-----------------------------------------------------------------------------
(* The timer list.  A service state s is [list, tm, count]. *)

Service == [list |-> g_timer_head, tm |-> timer, count |-> g_timer_count]

\* An insertion that does not compare.
InsertPlace_Unsorted(s, val) == Len(s.list) + 1

\* The place timer_list_pri_insert puts a timer with val ticks remaining.
InsertPlace(s, val) ==
  LET later == {i \in DOMAIN s.list : USub(s.tm[s.list[i]].match, s.count) > val}
  IN  IF later = {} THEN Len(s.list) + 1 ELSE Min(later)

timer_list_pri_insert(s, t, ticks) ==
  [s EXCEPT !.list = InsertAt(@, InsertPlace(s, ticks), t),
            !.tm[t].match = UAdd(s.count, ticks)]

\* to_head is not NULL exactly while the timer is linked, and match is read
\* only then: an unlinked timer has match 0 here.
timer_list_rm(s, t) == [s EXCEPT !.list = Remove(@, t), !.tm[t].match = 0]

-----------------------------------------------------------------------------
(* Commands *)

Commands ==
       [cmd : {"START", "STOP", "DEL", "DYN_DEL"}, t : Timers]
  \cup [cmd : {"CHG"}, t : Timers, first : Firsts \cup {0}, round : Rounds]
  \cup [cmd : {"ARG_CHG", "ARG_CHG_AUTO"}, t : Timers, arg : Args]

NoMsg == [cmd |-> "NONE"]

CmdStart(s, t) ==
  IF s.tm[t].state = "ACTIVE" THEN s
  ELSE [timer_list_pri_insert(s, t, s.tm[t].init_count) EXCEPT
          !.tm[t].state = "ACTIVE"]

\* A stop that forgets to unlink the timer.
CmdStop_KeepsLink(s, t) == [s EXCEPT !.tm[t].state = "DEACTIVE"]

CmdStop(s, t) == [timer_list_rm(s, t) EXCEPT !.tm[t].state = "DEACTIVE"]

CmdChange(s, c) ==
  IF c.first = 0 THEN s
  ELSE [CmdStop(s, c.t) EXCEPT !.tm[c.t].init_count = c.first,
                               !.tm[c.t].round_ticks = c.round]

CmdArg(s, t, a) ==
  IF s.tm[t].state = "ACTIVE" THEN s ELSE [s EXCEPT !.tm[t].timer_cb_arg = a]

CmdDelete(s, t, dyn) ==
  IF s.tm[t].state = "ACTIVE" \/ (t \in DynTimers) # dyn THEN s
  ELSE [s EXCEPT !.tm[t].obj_type = "NONE"]

\* cmd_proc and timer_cmd_proc: a command on something that is not a timer
\* is dropped.
timer_cmd_proc(s, c) ==
  IF s.tm[c.t].obj_type # "TIMER" THEN s
  ELSE CASE c.cmd = "START"   -> CmdStart(s, c.t)
         [] c.cmd = "STOP"    -> CmdStop(s, c.t)
         [] c.cmd = "CHG"     -> CmdChange(s, c)
         [] c.cmd = "ARG_CHG" -> CmdArg(s, c.t, c.arg)
         [] c.cmd = "ARG_CHG_AUTO" ->
              CmdStart(CmdArg(CmdStop(s, c.t), c.t, c.arg), c.t)
         [] c.cmd = "DEL"     -> CmdDelete(s, c.t, FALSE)
         [] c.cmd = "DYN_DEL" -> CmdDelete(s, c.t, TRUE)

-----------------------------------------------------------------------------
(* Clients.  A send hands the command to timer_task if it is blocked in      *)
(* krhino_buf_queue_recv, queues it if there is room, and fails otherwise.   *)

Blocked == task.pc = "blocked"

\* A queue that does not count its messages.
QueueFull_Never == FALSE

QueueFull == ~Blocked /\ Len(g_timer_queue) = MsgNum

Send(c) ==
  /\ ~QueueFull
  /\ IF Blocked
     THEN /\ task' = [task EXCEPT !.pc = "received", !.msg = c, !.wake = 0]
          /\ UNCHANGED g_timer_queue
     ELSE /\ g_timer_queue' = Append(g_timer_queue, c)
          /\ UNCHANGED task

\* krhino_timer_start, _stop, _change, _arg_change, _arg_change_auto, _del
\* and _dyn_del; a call that finds the queue full changes nothing.
Call(c) ==
  /\ calls < MaxCalls
  /\ timer[c.t].obj_type = "TIMER"
  /\ Send(c)
  /\ calls' = calls + 1
  /\ UNCHANGED <<g_tick_count, svc, late, lag, due>>

NewTimer(first, round, a) ==
  [obj_type |-> "TIMER", state |-> "DEACTIVE", match |-> 0,
   init_count |-> first, round_ticks |-> round, timer_cb_arg |-> a]

\* The memory of t is its owner's to reuse: no command mentions it any more.
Unreferenced(t) ==
  /\ timer[t].obj_type = "NONE"
  /\ \A i \in DOMAIN g_timer_queue : g_timer_queue[i].t # t
  /\ task.pc = "received" => task.msg.t # t

\* krhino_timer_create and krhino_timer_dyn_create; auto_run sends a START
\* whose failure leaves the timer created but stopped.
timer_create(t, first, round, a, auto_run) ==
  /\ calls < MaxCalls
  /\ Unreferenced(t)
  /\ timer' = [timer EXCEPT ![t] = NewTimer(first, round, a)]
  /\ IF auto_run /\ ~QueueFull THEN Send([cmd |-> "START", t |-> t])
     ELSE UNCHANGED <<g_timer_queue, task>>
  /\ calls' = calls + 1
  /\ UNCHANGED <<g_tick_count, g_timer_count, g_timer_head, late, lag, due>>

-----------------------------------------------------------------------------
(* The tick interrupt: time passes, and a recv with a timeout ends. *)

Elapse(f) == [t \in Timers |-> IF f[t] = 0 THEN 0 ELSE f[t] - 1]


TimedOut(now) == Blocked /\ task.inner /\ task.wake = now

Tick ==
  LET now == UAdd(g_tick_count, 1)
  IN  /\ ~Blocked => late /\ lag < MaxLag
      /\ g_tick_count' = now
      /\ lag' = IF Blocked THEN 0 ELSE lag + 1
      /\ task' = IF TimedOut(now) THEN [task EXCEPT !.pc = "timeout"] ELSE task
      /\ due' = Elapse(due)
      /\ UNCHANGED <<svc, g_timer_queue, late, calls>>

-----------------------------------------------------------------------------
(* timer_task *)

Goto(pc) ==
  task' = [task EXCEPT !.pc = pc, !.cursor = 1, !.wake = 0, !.msg = NoMsg]

\* A recv that waits for the next command even if one is queued.
Recv_Waits ==
  /\ task.pc = "recv"
  /\ task' = [task EXCEPT !.pc = "blocked",
                 !.wake = IF task.inner THEN UAdd(g_tick_count, @) ELSE 0]
  /\ UNCHANGED <<g_timer_queue, g_tick_count, svc, late, lag, calls, due>>

\* krhino_buf_queue_recv on g_timer_queue: without timeout in the outer loop,
\* in the inner one with the ticks (task.wake) left to the head of the list.
Recv ==
  /\ task.pc = "recv"
  /\ IF g_timer_queue # <<>>
     THEN /\ task' = [task EXCEPT !.pc = "received", !.wake = 0,
                                  !.msg = Head(g_timer_queue)]
          /\ g_timer_queue' = Tail(g_timer_queue)
     ELSE /\ task' = [task EXCEPT !.pc = "blocked",
                         !.wake = IF task.inner THEN UAdd(g_tick_count, @) ELSE 0]
          /\ UNCHANGED g_timer_queue
  /\ UNCHANGED <<g_tick_count, svc, late, lag, calls, due>>

\* The ticks that must pass before a timer that has just been put in the list
\* may fire; 0 for one that has been taken out.
Rearmed(s) ==
  [t \in Timers |->
     IF ~Contains(s.list, t) THEN 0
     ELSE IF Contains(g_timer_head, t) /\ s.tm[t].match = timer[t].match THEN due[t]
     ELSE s.tm[t].init_count]

\* The rest of the loop body after a command: count := tick_end, then the
\* command, then (inner loop only) timer_cb_proc.
Received ==
  /\ task.pc = "received"
  /\ LET s == timer_cmd_proc([Service EXCEPT !.count = g_tick_count], task.msg)
     IN  /\ g_timer_head' = s.list
         /\ timer' = s.tm
         /\ g_timer_count' = s.count
         /\ due' = Rearmed(s)
  /\ lag' = 0
  /\ Goto(IF task.inner THEN "cb" ELSE "loop")
  /\ UNCHANGED <<g_tick_count, g_timer_queue, late, calls>>

Timeout ==
  /\ task.pc = "timeout"
  /\ g_timer_count' = g_tick_count
  /\ lag' = 0
  /\ Goto("cb")
  /\ UNCHANGED <<g_tick_count, g_timer_head, timer, g_timer_queue, late, calls, due>>

\* The test of the inner loop and the look at the head of the list.
Loop ==
  /\ task.pc = "loop"
  /\ IF g_timer_head = <<>>
     THEN /\ task' = [task EXCEPT !.pc = "recv", !.inner = FALSE, !.wake = 0]
          /\ UNCHANGED <<g_timer_count, lag>>
     ELSE LET delta == SSub(timer[Head(g_timer_head)].match, g_tick_count)
          IN  /\ lag' = 0
              /\ IF delta > 0
                 THEN /\ task' = [task EXCEPT !.pc = "recv", !.inner = TRUE, !.wake = delta]
                      /\ UNCHANGED g_timer_count
                 ELSE /\ Goto("cb")
                      /\ g_timer_count' = g_tick_count
  /\ UNCHANGED <<g_tick_count, g_timer_head, timer, g_timer_queue, late, calls, due>>

AtCursor(t) ==
  /\ task.pc = "cb"
  /\ task.cursor \in DOMAIN g_timer_head
  /\ g_timer_head[task.cursor] = t

\* A comparison that is off by one.
Expired_Early(t) == SSub(timer[t].match, g_timer_count) <= 1

Expired(t) == SSub(timer[t].match, g_timer_count) <= 0

\* One turn of the loop of timer_cb_proc that runs a callback.  The loop goes
\* on from the links of the timer it has just moved or removed.
Fire(t) ==
  /\ AtCursor(t)
  /\ Expired(t)
  /\ LET s     == timer_list_rm(Service, t)
         round == timer[t].round_ticks
     IN  IF round > 0
         THEN LET r == timer_list_pri_insert(s, t, round)
              IN  /\ g_timer_head' = r.list
                  /\ timer' = r.tm
                  /\ task' = [task EXCEPT !.cursor = InsertPlace(s, round) + 1]
                  /\ due' = [due EXCEPT ![t] =
                               Max({0, round - USub(g_tick_count, g_timer_count)})]
         ELSE /\ g_timer_head' = s.list
              /\ timer' = [s.tm EXCEPT ![t].state = "DEACTIVE"]
              /\ UNCHANGED <<task, due>>
  /\ UNCHANGED <<g_tick_count, g_timer_count, g_timer_queue, late, lag, calls>>

\* timer_cb_proc stops at the end of the list or at a timer that is not due.
CbEnd ==
  /\ task.pc = "cb"
  /\ \A t \in Timers : AtCursor(t) => ~Expired(t)
  /\ Goto("loop")
  /\ UNCHANGED <<g_tick_count, svc, g_timer_queue, late, lag, calls, due>>

-----------------------------------------------------------------------------
NoTimerYet == [NewTimer(1, 0, CHOOSE a \in Args : TRUE) EXCEPT !.obj_type = "NONE"]

\* ktimer_init.  Timers may have been created, not started, before the
\* scheduler runs.
Init ==
  /\ g_tick_count = 0 /\ g_timer_count = 0
  /\ g_timer_head = <<>> /\ g_timer_queue = <<>>
  /\ timer \in [Timers -> {NoTimerYet} \cup {NewTimer(f, r, a) :
                                f \in Firsts, r \in Rounds, a \in Args}]
  /\ task = [pc |-> "recv", inner |-> FALSE, wake |-> 0, cursor |-> 1,
             msg |-> NoMsg]
  /\ late \in BOOLEAN /\ lag = 0 /\ calls = 0
  /\ due = [t \in Timers |-> 0]

TimerTask == Recv \/ Received \/ Timeout \/ Loop \/ (\E t \in Timers : Fire(t)) \/ CbEnd

Create ==
  \E t \in Timers, first \in Firsts, round \in Rounds, a \in Args,
     auto_run \in BOOLEAN : timer_create(t, first, round, a, auto_run)

Client == (\E c \in Commands : Call(c)) \/ Create

Next == Tick \/ TimerTask \/ Client

\* The tick interrupt keeps coming, and timer_task, at priority 5, gets the
\* processor whenever it stays ready.
Spec == Init /\ [][Next]_vars /\ WF_vars(Tick) /\ WF_vars(TimerTask)

-----------------------------------------------------------------------------
(* Properties *)

TypeOK ==
  /\ g_tick_count \in 0 .. TickMod - 1 /\ g_timer_count \in 0 .. TickMod - 1
  /\ g_timer_head \in Seq(Timers)
  /\ timer \in [Timers -> [obj_type : {"TIMER", "NONE"}, state : {"ACTIVE", "DEACTIVE"},
                           match : 0 .. TickMod - 1, init_count : Firsts \cup {1},
                           round_ticks : Rounds \cup {0}, timer_cb_arg : Args]]
  /\ g_timer_queue \in Seq(Commands) /\ Len(g_timer_queue) <= MsgNum
  /\ task \in [pc : {"recv", "blocked", "received", "timeout", "loop", "cb"},
               inner : BOOLEAN, wake : 0 .. TickMod - 1, cursor : Nat \ {0},
               msg : Commands \cup {NoMsg}]
  /\ late \in BOOLEAN /\ lag \in 0 .. MaxLag /\ calls \in 0 .. MaxCalls
  /\ due \in [Timers -> 0 .. Max(Firsts \cup Rounds \cup {0})]

\* The list of timer_task and the state the API reports (timer_state) agree
\* after any interleaving of commands, firings and re-insertions: exactly the
\* live, active timers are linked, each once.
ListIsActive ==
  /\ IsInjective(g_timer_head)
  /\ \A t \in Timers : Contains(g_timer_head, t) <=> timer[t].state = "ACTIVE"
  /\ \A t \in Timers : timer[t].state = "ACTIVE" => timer[t].obj_type = "TIMER"

\* No callback runs before the ticks asked for have passed, however late the
\* commands are taken from the queue and across the wrap of the counter.
NeverEarly == [][\A t \in Timers : Fire(t) => due[t] = 0]_vars

\* cmd_proc says of the insertion "sort by remain time": outside
\* timer_cb_proc, no timer of the list is due later than its successor.
SortedByRemain ==
  task.pc # "cb" =>
    \A i \in 1 .. Len(g_timer_head) - 1 :
      SSub(timer[g_timer_head[i]].match, timer[g_timer_head[i + 1]].match) <= 0

\* So it is as long as timer_task is never kept off the processor.
SortedIfPrompt == ~late => SortedByRemain


\* A command that was accepted is taken from the queue: the timers that are due
\* do not keep a timer_task that gets the processor in time from receiving.
CommandsServed == (g_timer_queue # <<>> /\ ~late) ~> g_timer_queue = <<>>

\* The list timer_task works on is what the API reports, in the order it relies
\* on, after any interleaving of commands, firings and ticks.
ListSound == TypeOK /\ ListIsActive /\ SortedIfPrompt
=============================================================================
