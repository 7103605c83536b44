------------------------------- MODULE KEvent -------------------------------
(***************************************************************************)
(* Event flags (k_event.c) and their CSI names (csi_rhino.c), composed     *)
(* with tasks and the tick.  A task waits until one or all of a set of     *)
(* flags are set and may clear them as it goes on; tasks and interrupt     *)
(* handlers set and clear flags.                                           *)
(***************************************************************************)
EXTENDS KTask

CONSTANTS Events,         \* events
          Bits,           \* flags of an event
          Waits,          \* what krhino_event_get is called for
          GetTicks,       \* its timeouts, 0 and Forever included
          InitFlags,      \* flags an event is created with
          DelEvents,      \* events that are deleted and created again
          IsrFlags        \* flags interrupt handlers set

\* flags, and the option: all of them or any, cleared on exit or not.
WaitTypes == [flags : SUBSET Bits, all : BOOLEAN, clear : BOOLEAN]

NoWait == [flags |-> {}, all |-> FALSE, clear |-> FALSE]

ASSUME EventConstants ==
  /\ Events \subseteq Objs \ Mutexes /\ DelEvents \subseteq Events
  /\ Waits \subseteq WaitTypes
  /\ GetTicks \subseteq Nat \cup {Forever}
  /\ InitFlags \subseteq Bits /\ IsrFlags \subseteq Bits

VARIABLES events,         \* events whose obj_type is RHINO_EVENT_OBJ_TYPE
          flags,
          want,           \* pend_option and pend_flags of the tasks
          actl_flags      \* what pend_info of a blocked task points to

eventvars == <<events, flags, want, actl_flags>>
evars == <<k, eventvars>>

\* The test of krhino_event_get and of event_set.
Met(set, w) == IF w.all THEN w.flags \subseteq set ELSE w.flags \cap set # {}

Cleared(w) == IF w.clear THEN w.flags ELSE {}

event_get ==
  \E t \in Tasks, e \in events, w \in Waits, ticks \in GetTicks :
    /\ Caller(t)
    /\ \/ /\ Met(flags[e], w)
          /\ flags' = [flags EXCEPT ![e] = @ \ Cleared(w)]
          /\ UNCHANGED <<k, want>>
       \/ /\ ~Met(flags[e], w)
          /\ ticks # 0 /\ CanBlock
          /\ want' = [want EXCEPT ![t] = w]
          /\ k' = Resched(pend_to_blk_obj(k, e, t, ticks))
          /\ UNCHANGED flags
    /\ UNCHANGED <<events, actl_flags>>

\* krhino_event_set with RHINO_AND only clears flags.
event_mask(e, f) ==
  /\ flags' = [flags EXCEPT ![e] = @ \cap f]
  /\ UNCHANGED <<k, events, want, actl_flags>>

event_set_ClearedValue(e, f, isr) ==
  LET cur == flags[e] \cup f
      woken == SelectSeq(k.blk_list[e], LAMBDA t : Met(cur, want[t]))
      rest == cur \ UNION {Cleared(want[t]) : t \in ToSet(woken)}
  IN  /\ k' = ExitSched(isr, FoldLeft(pend_task_wakeup, k, woken))
      /\ flags' = [flags EXCEPT ![e] = rest]
      /\ actl_flags' = [t \in Tasks |-> IF t \in ToSet(woken) THEN rest ELSE actl_flags[t]]
      /\ UNCHANGED <<events, want>>

event_set_ClearsFirst(e, f, isr) ==
  LET Wake(s, t) ==
        IF ~Met(s.cur, want[t]) THEN s
        ELSE [k |-> pend_task_wakeup(s.k, t), cur |-> s.cur \ Cleared(want[t]),
              actl |-> [s.actl EXCEPT ![t] = s.cur]]
      s == FoldLeft(Wake, [k |-> k, cur |-> flags[e] \cup f, actl |-> actl_flags], k.blk_list[e])
  IN  /\ k' = ExitSched(isr, s.k)
      /\ flags' = [flags EXCEPT ![e] = s.cur] /\ actl_flags' = s.actl
      /\ UNCHANGED <<events, want>>

\* With RHINO_OR it sets flags, and every blocked task whose condition the
\* flags then meet goes on; what these tasks clear is cleared after all tests.
event_set(e, f, isr) ==
  LET cur == flags[e] \cup f
      woken == SelectSeq(k.blk_list[e], LAMBDA t : Met(cur, want[t]))
  IN  /\ k' = ExitSched(isr, FoldLeft(pend_task_wakeup, k, woken))
      /\ flags' = [flags EXCEPT ![e] = cur \ UNION {Cleared(want[t]) : t \in ToSet(woken)}]
      /\ actl_flags' = [t \in Tasks |-> IF t \in ToSet(woken) THEN cur ELSE actl_flags[t]]
      /\ UNCHANGED <<events, want>>

TaskSet ==
  \E t \in Tasks, e \in events, f \in SUBSET Bits :
    Caller(t) /\ (event_set(e, f, FALSE) \/ event_mask(e, f))

IsrSet ==
  \E e \in events, b \in IsrFlags :
    /\ k.active \notin k.irq_off /\ ~k.fatal
    /\ event_set(e, {b}, TRUE)

event_del_LeavesWaiters ==
  \E t \in Tasks, e \in events \cap DelEvents :
    /\ Caller(t) /\ events' = events \ {e} /\ flags' = [flags EXCEPT ![e] = {}]
    /\ UNCHANGED <<k, want, actl_flags>>

event_del ==
  \E t \in Tasks, e \in events \cap DelEvents :
    /\ Caller(t)
    /\ k' = Resched(WakeAll(k, e, "DEL"))
    /\ events' = events \ {e} /\ flags' = [flags EXCEPT ![e] = {}]
    /\ UNCHANGED <<want, actl_flags>>

event_create ==
  \E t \in Tasks, e \in DelEvents \ events :
    /\ Caller(t)
    /\ events' = events \cup {e} /\ flags' = [flags EXCEPT ![e] = InitFlags]
    /\ UNCHANGED <<k, want, actl_flags>>

\* want and actl_flags matter only while a call is pending.
ForgetWait ==
  /\ want' = [t \in Tasks |-> IF k'.call[t] = None THEN NoWait ELSE want[t]]
  /\ actl_flags' = [t \in Tasks |-> IF k'.call[t] = None THEN {} ELSE actl_flags[t]]
  /\ UNCHANGED <<events, flags>>

EventReturn == pend_state_end_proc /\ ForgetWait

\* The steps of KTask.
EventTaskStep == Next /\ ForgetWait

InitEvent ==
  /\ InitKernel /\ events = Events
  /\ flags = [e \in Events |-> InitFlags]
  /\ want = [t \in Tasks |-> NoWait] /\ actl_flags = [t \in Tasks |-> {}]

EventCall == event_get \/ TaskSet \/ event_del \/ event_create

NextEvent == EventCall \/ IsrSet \/ EventReturn \/ EventTaskStep

SpecEvent == InitEvent /\ [][NextEvent]_evars

-----------------------------------------------------------------------------
(* Properties *)

\* No event is missed: whoever is blocked waits for something the flags do not
\* hold, however gets, sets by tasks and interrupt handlers, clears, timeouts
\* and deletions meet.
NoMissedEvent ==
  \A e \in Events : \A i \in DOMAIN k.blk_list[e] :
    e \in events /\ ~Met(flags[e], want[k.blk_list[e][i]])

\* A wait that ended with success reports flags that met its condition, even if
\* they have been cleared since.
GotItsFlags ==
  \A t \in Tasks :
    k.call[t] \in Events /\ k.blk_state[t] = "FINISH"
      /\ k.task_state[t] \notin Pending \cup {"DELETED"} => Met(actl_flags[t], want[t])

\* A set reaches everybody: the tasks a step lets go on see one and the same
\* value of the flags, that of the set, and no task is kept waiting by what an
\* earlier one of them clears.
SetReachesAll ==
  [][\A e \in Events :
       LET before == ToSet(k.blk_list[e])
           got == {t \in before : k'.task_state[t] \notin Pending /\ k'.blk_state[t] = "FINISH"}
       IN  \A t \in got :
             /\ \A u \in got : actl_flags'[u] = actl_flags'[t]
             /\ \A u \in before : Met(actl_flags'[t], want[u]) => u \in got]_evars

\* krhino_event_get neither sleeps through its flags nor reports others.
EventsSound == NoMissedEvent /\ GotItsFlags
=============================================================================
