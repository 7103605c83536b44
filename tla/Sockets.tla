--------------------------------- MODULE Sockets --------------------------------
(***************************************************************************)
(* Readiness of sockets (api/sockets.c): application threads wait in       *)
(* lwip_select and lwip_poll for events that the tcpip thread reports with *)
(* event_callback, while other threads read, accept and close. A step is   *)
(* what happens under one SYS_ARCH_PROTECT; everything between two of them *)
(* may interleave.                                                         *)
(*                                                                         *)
(* Connection "a" has a socket; "b" waits to be accepted.                  *)
(***************************************************************************)
EXTENDS Naturals, Integers, Sequences, FiniteSets

\* A setup: which thread waits how ("select" or "poll") for which events of which
\* descriptors, whether its wait has a timeout, the largest value of select_waiting,
\* and whether "a" is closed: never, once "b" is accepted ("late"), or at any time.
CONSTANTS Waiters, NumSockets, SelSetups, NoOne,
          EVENTS        \* bound on the events that TCP reports

\* With lwip_poll there are fewer threads than select_waiting can count (see lwip_poll's
\* way out, which takes back more than it has counted).
ASSUME SocketsConstants ==
  /\ NoOne \notin Waiters \cup {"a", "b"} /\ NumSockets \in Nat \ {0} /\ IsFiniteSet(Waiters)
  /\ \A z \in SelSetups :
       /\ z = [kind |-> z.kind, asks |-> z.asks, timeout |-> z.timeout, closes |-> z.closes,
               selwait_max |-> z.selwait_max]
       /\ z.kind \in [Waiters -> {"select", "poll"}]
       /\ z.asks \in [Waiters -> [0 .. NumSockets - 1 -> SUBSET {"r", "w", "e"}]]
       /\ z.selwait_max \in Nat
       /\ Cardinality(Waiters) <= z.selwait_max \/ \A t \in Waiters : z.kind[t] = "select"

VARIABLES sockets, socket,       \* the descriptors; conn->socket
          unread,                \* the messages in the mailbox of a connection
          select_cb_list,
          wait, caller,          \* the waiters; the threads in event_callback
          acceptor, closer, events, selsetup

sockvars == <<sockets, socket, unread, select_cb_list, wait, caller, acceptor, closer, events,
              selsetup>>

Fds == 0 .. NumSockets - 1
Callers == {"tcpip", "acceptor", "reader"}
\* changed: select_cb_ctr is no longer last_select_cb_ctr.
NoCall == [pc |-> "idle", conn |-> NoOne, evt |-> "none", s |-> 0, has |-> {}, scb |-> NoOne,
           changed |-> FALSE]
NotWaiting == [pc |-> "idle", i |-> 0, nready |-> 0, upto |-> NumSockets, timeout |-> FALSE,
           sem |-> 0, signalled |-> FALSE]

\* The events a descriptor has, and those that thread t asks for: poll is told of
\* errors in any case.
Has(sock) == (IF sock.rcvevent > 0 THEN {"r"} ELSE {})
             \cup (IF sock.sendevent THEN {"w"} ELSE {}) \cup (IF sock.errevent THEN {"e"} ELSE {})
Listens(t, s) == selsetup.asks[t][s] # {}
Asks(t, s) == IF Listens(t, s) /\ selsetup.kind[t] = "poll"
              THEN selsetup.asks[t][s] \cup {"e"} ELSE selsetup.asks[t][s]

-----------------------------------------------------------------------------
Open(s) == sockets[s].conn # NoOne /\ (sockets[s].conn = "b" => acceptor.pc = "done")

\* lwip_select and lwip_poll, one descriptor at a time.
SetWait(t, w) == wait' = [wait EXCEPT ![t] = w]
OtherUnchanged == UNCHANGED <<socket, unread, acceptor, closer, events, selsetup>>
\* select_cb_ctr counts the change of the list.
Relink(list) ==
  /\ select_cb_list' = list
  /\ caller' = [x \in Callers |-> [caller[x] EXCEPT !.changed = TRUE]]

Scanned(t) ==
  LET w == wait[t]
      found == IF Asks(t, w.i) \cap Has(sockets[w.i]) # {} THEN 1 ELSE 0
  IN [w EXCEPT !.i = @ + 1, !.nready = @ + found]

\* An application waits for descriptors it has.
BeginWait(t) ==
  /\ wait[t].pc = "idle" /\ \A s \in Fds : Listens(t, s) => Open(s)
  /\ SetWait(t, [NotWaiting EXCEPT !.pc = "scan"])
  /\ UNCHANGED <<sockets, select_cb_list, caller>> /\ OtherUnchanged

\* lwip_selscan, and lwip_pollscan where it changes no counter.
lwip_selscan(t) ==
  /\ wait[t].pc \in {"scan", "rescan", "result"} /\ wait[t].i \in Fds
  /\ SetWait(t, Scanned(t))
  /\ UNCHANGED <<sockets, select_cb_list, caller>> /\ OtherUnchanged

\* The first scan has found nothing: the thread links its callback.
lwip_link_select_cb(t) ==
  /\ wait[t].pc = "scan" /\ wait[t].i = NumSockets
  /\ IF wait[t].nready > 0 THEN SetWait(t, NotWaiting) /\ UNCHANGED <<select_cb_list, caller>>
     ELSE SetWait(t, [wait[t] EXCEPT !.pc = "inc", !.i = 0]) /\ Relink(<<t>> \o select_cb_list)
  /\ UNCHANGED sockets /\ OtherUnchanged

\* The thread becomes a waiter of a descriptor. lwip_poll looks for its events at
\* the same time. If there are too many waiters both give up; lwip_select remembers
\* how far it got.
AddWaiter(t) ==
  LET s == wait[t].i
      w == wait[t]
      poll == selsetup.kind[t] = "poll"
  IN /\ w.pc = "inc" /\ s \in Fds
     /\ IF ~Listens(t, s) THEN SetWait(t, [w EXCEPT !.i = @ + 1]) /\ UNCHANGED sockets
        ELSE IF sockets[s].select_waiting = selsetup.selwait_max
        THEN /\ SetWait(t, [w EXCEPT !.pc = "dec", !.i = 0, !.nready = -1,
                                 !.upto = IF poll THEN NumSockets ELSE s])
             /\ UNCHANGED sockets
        ELSE /\ SetWait(t, IF poll THEN Scanned(t) ELSE [w EXCEPT !.i = @ + 1])
             /\ sockets' = [sockets EXCEPT ![s].select_waiting = @ + 1]
     /\ UNCHANGED <<select_cb_list, caller>> /\ OtherUnchanged

\* Mutant: no second scan.
GoesToSleep_NoRescan(t) ==
  /\ wait[t].pc = "inc" /\ wait[t].i = NumSockets /\ SetWait(t, [wait[t] EXCEPT !.pc = "wait"])
  /\ UNCHANGED <<sockets, select_cb_list, caller>> /\ OtherUnchanged

\* All descriptors count the thread. lwip_select scans again.
GoesToSleep(t) ==
  LET w == wait[t] IN
  /\ w.pc \in {"inc", "rescan"} /\ w.i = NumSockets
  /\ SetWait(t, IF w.pc = "inc" /\ selsetup.kind[t] = "select"
            THEN [w EXCEPT !.pc = "rescan", !.i = 0]
            ELSE IF w.nready = 0 THEN [w EXCEPT !.pc = "wait"]
            ELSE [w EXCEPT !.pc = "dec", !.i = 0, !.nready = 0])
  /\ UNCHANGED <<sockets, select_cb_list, caller>> /\ OtherUnchanged

sys_arch_sem_wait(t) ==
  LET w == wait[t] IN
  /\ w.pc = "wait"
  /\ \/ w.sem > 0 /\ SetWait(t, [w EXCEPT !.sem = @ - 1, !.pc = "dec", !.i = 0])
     \/ w.sem = 0 /\ selsetup.timeout /\ SetWait(t, [w EXCEPT !.timeout = TRUE, !.pc = "dec", !.i = 0])
  /\ UNCHANGED <<sockets, select_cb_list, caller>> /\ OtherUnchanged

RemoveWaiter(t) ==
  LET s == wait[t].i IN
  /\ wait[t].pc = "dec" /\ s < wait[t].upto
  /\ SetWait(t, [wait[t] EXCEPT !.i = @ + 1])
  /\ sockets' = IF Listens(t, s) /\ sockets[s].select_waiting > 0
                THEN [sockets EXCEPT ![s].select_waiting = @ - 1] ELSE sockets
  /\ UNCHANGED <<select_cb_list, caller>> /\ OtherUnchanged

Unlinked(t) ==
  LET k == CHOOSE i \in DOMAIN select_cb_list : select_cb_list[i] = t
  IN [i \in 1 .. Len(select_cb_list) - 1 |-> select_cb_list[IF i < k THEN i ELSE i + 1]]

\* Mutant: select_cb_ctr does not count the removal.
lwip_unlink_select_cb_NotCounted(t) ==
  /\ wait[t].pc = "dec" /\ wait[t].i = wait[t].upto
  /\ SetWait(t, NotWaiting)
  /\ select_cb_list' = Unlinked(t)
  /\ UNCHANGED <<sockets, caller>> /\ OtherUnchanged

\* The callback is unlinked and its semaphore freed; lwip_select scans for its result.
lwip_unlink_select_cb(t) ==
  LET w == wait[t]
      over == w.nready < 0 \/ w.timeout \/ selsetup.kind[t] = "poll"
  IN /\ w.pc = "dec" /\ w.i = w.upto
     /\ SetWait(t, IF over THEN NotWaiting ELSE [NotWaiting EXCEPT !.pc = "result"])
     /\ Relink(Unlinked(t))
     /\ UNCHANGED sockets /\ OtherUnchanged

Return(t) ==
  /\ wait[t].pc = "result" /\ wait[t].i = NumSockets /\ SetWait(t, NotWaiting)
  /\ UNCHANGED <<sockets, select_cb_list, caller>> /\ OtherUnchanged

-----------------------------------------------------------------------------
\* event_callback, by the thread x, for the event of its record.
Counted(sock, evt) ==
  CASE evt = "RCVPLUS"   -> [sock EXCEPT !.rcvevent = @ + 1]
    [] evt = "RCVMINUS"  -> [sock EXCEPT !.rcvevent = @ - 1]
    [] evt = "SENDPLUS"  -> [sock EXCEPT !.sendevent = TRUE]
    [] evt = "SENDMINUS" -> [sock EXCEPT !.sendevent = FALSE]
    [] evt = "ERROR"     -> [sock EXCEPT !.errevent = TRUE]
CheckWaiters(sock, evt) ==
  CASE evt = "RCVPLUS"  -> sock.rcvevent + 1 <= 1
    [] evt = "SENDPLUS" -> ~sock.sendevent
    [] OTHER            -> evt = "ERROR"

event_callback(x) ==
  LET c == caller[x].conn
      s == socket[c]
      sock == Counted(sockets[s], caller[x].evt)
  IN /\ caller[x].pc = "event"
     /\ IF s < 0
        THEN /\ socket' = [socket EXCEPT ![c] = IF caller[x].evt = "RCVPLUS" THEN @ - 1 ELSE @]
             /\ caller' = [caller EXCEPT ![x] = NoCall] /\ UNCHANGED sockets
        ELSE IF sockets[s].conn = NoOne
        THEN caller' = [caller EXCEPT ![x] = NoCall] /\ UNCHANGED <<sockets, socket>>
        ELSE /\ sockets' = [sockets EXCEPT ![s] = sock]
             /\ caller' = [caller EXCEPT ![x] =
                  IF sock.select_waiting > 0 /\ CheckWaiters(sockets[s], @.evt)
                  THEN [@ EXCEPT !.pc = "check", !.s = s, !.has = Has(sock)] ELSE NoCall]
             /\ UNCHANGED socket
     /\ UNCHANGED <<unread, select_cb_list, wait, acceptor, closer, events, selsetup>>

\* select_check_waiters: one callback of the list under the lock, then the next,
\* or the first again if the list has changed in between.
NextAfter(scb) == LET at == {i \in DOMAIN select_cb_list : select_cb_list[i] = scb}
                  next == {i + 1 : i \in at} \cap DOMAIN select_cb_list
              IN IF next = {} THEN NoOne ELSE select_cb_list[CHOOSE i \in next : TRUE]
First == IF select_cb_list = <<>> THEN NoOne ELSE Head(select_cb_list)
select_check_waiters(x) ==
  LET y == caller[x]
      t == IF y.pc = "check" \/ y.changed THEN First ELSE NextAfter(y.scb)
  IN /\ y.pc \in {"check", "next"}
     /\ caller' = [caller EXCEPT ![x] = IF t = NoOne THEN NoCall
                     ELSE [@ EXCEPT !.pc = "next", !.scb = t, !.changed = FALSE]]
     /\ wait' = IF t # NoOne /\ ~wait[t].signalled /\ Asks(t, y.s) \cap y.has # {}
                THEN [wait EXCEPT ![t].signalled = TRUE, ![t].sem = @ + 1] ELSE wait
     /\ UNCHANGED <<sockets, socket, unread, select_cb_list, acceptor, closer, events, selsetup>>

-----------------------------------------------------------------------------
\* The tcpip thread has an event of connection c to report; for RCVPLUS it has put
\* a message in the mailbox.
Conns == {"a", "b"}
Closing(c) == c = "a" /\ closer > 0
Report == \E c \in Conns, evt \in {"RCVPLUS", "SENDPLUS", "SENDMINUS", "ERROR"} :
  /\ caller["tcpip"].pc = "idle" /\ ~Closing(c)
  /\ events < EVENTS /\ events' = events + 1
  /\ unread' = [unread EXCEPT ![c] = IF evt = "RCVPLUS" THEN @ + 1 ELSE @]
  /\ caller' = [caller EXCEPT !["tcpip"] = [NoCall EXCEPT !.pc = "event", !.conn = c, !.evt = evt]]
  /\ UNCHANGED <<sockets, socket, select_cb_list, wait, acceptor, closer, selsetup>>

\* A thread has read a message and reports it.
Read == \E c \in Conns :
  /\ caller["reader"].pc = "idle" /\ ~Closing(c)
  /\ socket[c] >= 0 /\ Open(socket[c]) /\ unread[c] > 0
  /\ unread' = [unread EXCEPT ![c] = @ - 1]
  /\ caller' = [caller EXCEPT !["reader"] = [NoCall EXCEPT !.pc = "event", !.conn = c, !.evt = "RCVMINUS"]]
  /\ UNCHANGED <<sockets, socket, select_cb_list, wait, acceptor, closer, events, selsetup>>

\* lwip_accept takes "b" from the mailbox: alloc_socket, then conn->socket, then
\* the events that came before.
alloc_socket == \E s \in Fds :
  /\ acceptor.pc = "idle"
  /\ sockets[s].conn = NoOne /\ \A u \in Fds : sockets[u].conn = NoOne => s <= u
  /\ sockets' = [sockets EXCEPT ![s] = [@ EXCEPT !.conn = "b", !.rcvevent = 0, !.sendevent = TRUE,
                                                 !.errevent = FALSE]]
  /\ acceptor' = [pc |-> "socket", s |-> s, recvevent |-> 0]
  /\ UNCHANGED <<socket, unread, select_cb_list, wait, caller, closer, events, selsetup>>

\* Mutant: the events that came before are forgotten.
lwip_accept_NoEvents ==
  /\ acceptor.pc = "socket" /\ acceptor' = [acceptor EXCEPT !.pc = "done"]
  /\ socket' = [socket EXCEPT !["b"] = acceptor.s]
  /\ UNCHANGED <<sockets, unread, select_cb_list, wait, caller, closer, events, selsetup>>
lwip_accept ==
  /\ \/ /\ acceptor.pc = "socket"
        /\ acceptor' = [acceptor EXCEPT !.pc = "events", !.recvevent = -1 - socket["b"]]
        /\ socket' = [socket EXCEPT !["b"] = acceptor.s] /\ UNCHANGED caller
     \/ /\ acceptor.pc = "events" /\ caller["acceptor"].pc = "idle" /\ UNCHANGED socket
        /\ IF acceptor.recvevent = 0
           THEN acceptor' = [acceptor EXCEPT !.pc = "done"] /\ UNCHANGED caller
           ELSE /\ acceptor' = [acceptor EXCEPT !.recvevent = @ - 1]
                /\ caller' = [caller EXCEPT !["acceptor"] =
                                [NoCall EXCEPT !.pc = "event", !.conn = "b", !.evt = "RCVPLUS"]]
  /\ UNCHANGED <<sockets, unread, select_cb_list, wait, closer, events, selsetup>>

\* lwip_close of "a" by the thread that uses it: netconn_prepare_delete, whose
\* handler reports three events; free_socket; and netconn_delete, which calls
\* netconn_prepare_delete once more.
CloseSteps == <<"ERROR", "RCVPLUS", "SENDPLUS", "free", "RCVPLUS", "SENDPLUS">>
lwip_close ==
  /\ selsetup.closes # "never" /\ (selsetup.closes = "late" => acceptor.pc = "done")
  /\ closer < Len(CloseSteps) /\ closer' = closer + 1
  /\ caller["reader"].conn # "a" /\ \A t \in Waiters : wait[t].pc # "idle" => ~Listens(t, socket["a"])
  /\ IF CloseSteps[closer + 1] = "free"
     THEN /\ caller["tcpip"].conn # "a" /\ UNCHANGED caller
          /\ sockets' = [sockets EXCEPT ![socket["a"]].conn = NoOne]
     ELSE /\ caller["tcpip"].pc = "idle" /\ UNCHANGED sockets
          /\ caller' = [caller EXCEPT !["tcpip"] =
               [NoCall EXCEPT !.pc = "event", !.conn = "a", !.evt = CloseSteps[closer + 1]]]
  /\ UNCHANGED <<socket, unread, select_cb_list, wait, acceptor, events, selsetup>>

InitSock ==
  /\ selsetup \in SelSetups
  /\ sockets = [s \in Fds |-> [conn |-> IF s = 0 THEN "a" ELSE NoOne, rcvevent |-> 0,
                               sendevent |-> FALSE, errevent |-> FALSE, select_waiting |-> 0]]
  /\ socket = [c \in Conns |-> IF c = "a" THEN 0 ELSE -1]
  /\ unread = [c \in Conns |-> 0] /\ select_cb_list = <<>>
  /\ wait = [t \in Waiters |-> NotWaiting] /\ caller = [x \in Callers |-> NoCall]
  /\ acceptor = [pc |-> "idle", s |-> 0, recvevent |-> 0] /\ closer = 0 /\ events = 0

NextSock ==
  \/ \E t \in Waiters :
       \/ BeginWait(t) \/ lwip_selscan(t) \/ lwip_link_select_cb(t) \/ AddWaiter(t) \/ GoesToSleep(t)
       \/ sys_arch_sem_wait(t) \/ RemoveWaiter(t) \/ lwip_unlink_select_cb(t) \/ Return(t)
  \/ \E x \in Callers : event_callback(x) \/ select_check_waiters(x)
  \/ Report \/ Read \/ alloc_socket \/ lwip_accept \/ lwip_close

SpecSock == InitSock /\ [][NextSock]_sockvars

-----------------------------------------------------------------------------
\* No wakeup is lost: a thread that waits on the semaphore of its callback and has
\* not been signalled listens to no descriptor that is ready, unless event_callback
\* is still on its way to it.
NoMissedWakeup == \A t \in Waiters :
  wait[t].pc = "wait" /\ wait[t].sem = 0 =>
    \A s \in Fds : Listens(t, s) /\ Asks(t, s) \cap Has(sockets[s]) # {} =>
      \E x \in Callers : caller[x].pc \in {"check", "next"} /\ caller[x].s = s

\* select_check_waiters goes on from a callback only while that callback is in the
\* list: the thread it belongs to may have returned and its memory be reused.
WalksLinked == \A x \in Callers :
  caller[x].pc = "next" /\ ~caller[x].changed =>
    \E i \in DOMAIN select_cb_list : select_cb_list[i] = caller[x].scb

\* rcvevent is the number of messages in the mailbox of the connection, also for
\* those that came before lwip_accept gave it a socket. Events on their way count.
OnTheWay(c, evt) ==
  Cardinality({x \in Callers : caller[x].pc = "event" /\ caller[x].conn = c /\ caller[x].evt = evt})
EventsCounted == \A c \in Conns :
  socket[c] >= 0 /\ ~Closing(c) =>
    sockets[socket[c]].rcvevent + OnTheWay(c, "RCVPLUS") - OnTheWay(c, "RCVMINUS")
      + (IF c = "b" THEN acceptor.recvevent ELSE 0) = unread[c]
==============================================================================
