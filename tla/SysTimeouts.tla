----------------------------- MODULE SysTimeouts -----------------------------
(***************************************************************************)
(* lwIP's timeouts (core/timeouts.c) and the loop of the tcpip thread that *)
(* serves them while it waits for messages (api/tcpip.c).                  *)
(*                                                                         *)
(* The clock wraps around at ClockMod (2^32 in the code) and advances at   *)
(* any moment, so the time that the thread has read may be old when it is  *)
(* used. A message is handled in one step: it may start or cancel a        *)
(* one-shot timeout, and register or remove the last TCP connection.       *)
(***************************************************************************)
EXTENDS Integers, Sequences, FiniteSets, SequencesExt

CONSTANTS Cyclics,        \* the cyclic timers but TCP's
          OneShots,       \* timeouts of applications: handler and argument
          Interval,       \* periods, of the cyclic timers and of "tcp"
          Delays,         \* what applications ask for
          PoolSize,       \* MEMP_NUM_SYS_TIMEOUT
          ClockMod,
          MaxLag          \* the thread runs within this time of a deadline

ASSUME SysTimeoutsConstants ==
  /\ ClockMod % 2 = 0 /\ MaxLag \in Nat
  /\ PoolSize >= Cardinality(Cyclics) + 1 + Cardinality(OneShots)
  /\ \A h \in Cyclics \cup {"tcp"} : Interval[h] + MaxLag < ClockMod \div 2
  /\ \A d \in Delays : d + MaxLag < ClockMod \div 2

VARIABLES now,            \* sys_now()
          tmo,            \* next_timeout, tcpip_tcp_timer_active, and whether
                          \* tcp_active_pcbs or tcp_tw_pcbs has an element
          thread          \* where the tcpip thread is

tmovars == <<now, tmo, thread>>

Infinite == -1            \* SYS_TIMEOUTS_SLEEPTIME_INFINITE

TIME_LESS_THAN_NoWrap(t, compare_to) == t < compare_to

TIME_LESS_THAN(t, compare_to) == (t - compare_to) % ClockMod > ClockMod \div 2 - 1

\* An empty pool loses the timeout.
sys_timeout_abs(list, time, h) ==
  LET i == CHOOSE i \in 1 .. Len(list) + 1 :
             /\ i = Len(list) + 1 \/ TIME_LESS_THAN(time, list[i].time)
             /\ \A j \in 1 .. i - 1 : ~TIME_LESS_THAN(time, list[j].time)
  IN IF Len(list) >= PoolSize THEN list ELSE InsertAt(list, i, [h |-> h, time |-> time])

sys_timeout(list, msecs, h) == sys_timeout_abs(list, (now + msecs) % ClockMod, h)

sys_untimeout(list, h) ==
  LET is == {i \in DOMAIN list : list[i].h = h}
  IN IF is = {} THEN list
     ELSE RemoveAt(list, CHOOSE i \in is : \A j \in is : i <= j)

tcp_timer_needed(s) ==
  IF ~s.active /\ s.pcbs
  THEN [s EXCEPT !.active = TRUE, !.list = sys_timeout(@, Interval["tcp"], "tcp")]
  ELSE s

\* What the TCP code may do to its connections: nothing, register one
\* (TCP_REG), or remove the last one.
PcbChanges(s) == {s, tcp_timer_needed([s EXCEPT !.pcbs = TRUE]), [s EXCEPT !.pcbs = FALSE]}

\* A cyclic timer is due again a period after it was due, or after now if that
\* is already over.
lwip_cyclic_timer(s, h, due) ==
  LET next == (due + Interval[h]) % ClockMod
      at == IF TIME_LESS_THAN(next, now) THEN (now + Interval[h]) % ClockMod ELSE next
  IN [s EXCEPT !.list = sys_timeout_abs(@, at, h)]

tcpip_tcp_timer_EarlyTest(s) ==
  {IF s.pcbs THEN [r EXCEPT !.list = sys_timeout(@, Interval["tcp"], "tcp")]
             ELSE [r EXCEPT !.active = FALSE] : r \in PcbChanges(s)}

\* tcp_tmr may close connections, and its callbacks may open others.
tcpip_tcp_timer(s) ==
  {IF r.pcbs THEN [r EXCEPT !.list = sys_timeout(@, Interval["tcp"], "tcp")]
             ELSE [r EXCEPT !.active = FALSE] : r \in PcbChanges(s)}

\* A one-shot handler may start itself again.
OneShotHandler(s, h) == {s} \cup {[s EXCEPT !.list = sys_timeout(@, d, h)] : d \in Delays}

Handler(s, h, due) ==
  CASE h \in Cyclics -> {lwip_cyclic_timer(s, h, due)}
    [] h = "tcp" -> tcpip_tcp_timer(s)
    [] OTHER -> OneShotHandler(s, h)

-----------------------------------------------------------------------------
sys_timeouts_sleeptime ==
  IF tmo.list = <<>> THEN Infinite
  ELSE IF TIME_LESS_THAN(tmo.list[1].time, now) THEN 0
  ELSE (tmo.list[1].time - now) % ClockMod

sys_timeouts_init ==
  now = 0 /\ \E order \in SetToSeqs(Cyclics) :
    tmo = [list |-> FoldLeft(LAMBDA l, h : sys_timeout_abs(l, Interval[h], h), <<>>, order),
           active |-> FALSE, pcbs |-> FALSE]

InitTmo == sys_timeouts_init /\ thread = [pc |-> "fetch", at |-> 0]

Tick ==
  /\ tmo.list # <<>> => (now - tmo.list[1].time) % ClockMod # MaxLag
  /\ now' = (now + 1) % ClockMod
  /\ UNCHANGED <<tmo, thread>>

tcpip_timeouts_mbox_fetch_ZeroWaits ==
  /\ thread.pc = "fetch"
  /\ thread' = IF sys_timeouts_sleeptime \in {Infinite, 0}
               THEN [pc |-> "wait", at |-> Infinite]
               ELSE [pc |-> "wait", at |-> (now + sys_timeouts_sleeptime) % ClockMod]
  /\ UNCHANGED <<now, tmo>>

\* A timeout that is due is served before the mailbox is looked at: a timeout
\* of 0 would make sys_arch_mbox_fetch wait for ever.
tcpip_timeouts_mbox_fetch ==
  /\ thread.pc = "fetch"
  /\ thread' = CASE sys_timeouts_sleeptime = Infinite -> [pc |-> "wait", at |-> Infinite]
                 [] sys_timeouts_sleeptime = 0 -> [pc |-> "check", at |-> now]
                 [] OTHER -> [pc |-> "wait", at |-> (now + sys_timeouts_sleeptime) % ClockMod]
  /\ UNCHANGED <<now, tmo>>

\* sys_arch_mbox_fetch returns SYS_ARCH_TIMEOUT.
FetchTimeout ==
  /\ thread.pc = "wait" /\ thread.at # Infinite
  /\ ~TIME_LESS_THAN(now, thread.at)
  /\ thread' = [pc |-> "check", at |-> now]
  /\ UNCHANGED <<now, tmo>>

\* One turn of the loop: the timeout is freed before its handler runs.
sys_check_timeouts ==
  /\ thread.pc = "check"
  /\ IF tmo.list = <<>> \/ TIME_LESS_THAN(thread.at, tmo.list[1].time)
     THEN thread' = [pc |-> "fetch", at |-> 0] /\ UNCHANGED tmo
     ELSE /\ tmo' \in Handler([tmo EXCEPT !.list = Tail(@)], tmo.list[1].h, tmo.list[1].time)
          /\ UNCHANGED thread
  /\ UNCHANGED now

\* An application uses a timeout again only after it has fired or has been
\* cancelled.
MessageEffects(s) ==
  PcbChanges(s)
    \cup {[s EXCEPT !.list = sys_untimeout(@, o)] : o \in OneShots}
    \cup {[s EXCEPT !.list = sys_timeout(@, d, o)] :
            d \in Delays, o \in OneShots \ {s.list[i].h : i \in DOMAIN s.list}}

tcpip_thread_handle_msg ==
  /\ thread.pc = "wait"
  /\ tmo' \in MessageEffects(tmo)
  /\ thread' = [pc |-> "fetch", at |-> 0]
  /\ UNCHANGED now

NextTmo ==
  \/ Tick
  \/ tcpip_timeouts_mbox_fetch
  \/ FetchTimeout
  \/ sys_check_timeouts
  \/ tcpip_thread_handle_msg

ThreadStep == tcpip_timeouts_mbox_fetch \/ FetchTimeout \/ sys_check_timeouts

SpecTmo ==
  /\ InitTmo /\ [][NextTmo]_tmovars
  /\ WF_tmovars(Tick) /\ WF_tmovars(ThreadStep)

-----------------------------------------------------------------------------
\* How far from now a time is, in the past or in the future.
Distance(t) == ((t - now + ClockMod \div 2) % ClockMod) - ClockMod \div 2
Entries(h) == Cardinality({i \in DOMAIN tmo.list : tmo.list[i].h = h})

\* Whatever handlers and messages do, every cyclic timer is in the list once,
\* TCP's exactly while tcpip_tcp_timer_active says so, and that is whenever a
\* connection needs it.
TimersScheduled ==
  /\ \A c \in Cyclics : Entries(c) = 1
  /\ Entries("tcp") = (IF tmo.active THEN 1 ELSE 0)
  /\ tmo.pcbs => tmo.active

\* The list is in the order of the deadlines, also across a wrap of the clock
\* and with overdue entries: only its head is looked at.
TimeoutsSorted ==
  \A i, j \in DOMAIN tmo.list : i < j => Distance(tmo.list[i].time) <= Distance(tmo.list[j].time)

Fires(h) == thread.pc = "check" /\ tmo.list # <<>> /\ tmo.list[1].h = h /\ tmo' # tmo

\* Once the clock runs a timeout fires unless it is cancelled, and a cyclic timer
\* never stops, however many messages arrive.
TimeoutsFire ==
  <>(now # 0) =>
    /\ \A o \in OneShots : []<>(Entries(o) = 0) \/ []<><<Fires(o)>>_tmovars
    /\ \A c \in Cyclics : []<><<Fires(c)>>_tmovars

\* The list of timeouts holds what must be there, in the order sys_check_timeouts
\* relies on.
TimeoutsSound == TimersScheduled /\ TimeoutsSorted
==============================================================================
