--------------------------------- MODULE Netconn --------------------------------
(***************************************************************************)
(* A stream socket: the calls of an application thread (api/sockets.c,     *)
(* api/api_lib.c) against the handlers and callbacks that the tcpip thread *)
(* runs for them (api/api_msg.c). A call that needs the core posts a       *)
(* message and waits on the semaphore op_completed of the connection; the  *)
(* core completes it at once or later, from sent_tcp, poll_tcp, err_tcp or *)
(* the connected callback.                                                 *)
(*                                                                         *)
(* The control block below (core/tcp.c, core/tcp_in.c) is reduced to its   *)
(* state and its callbacks: what the peer sends is chosen freely. One      *)
(* thread uses the connection, as LWIP_NETCONN_FULLDUPLEX = 0 demands.     *)
(***************************************************************************)
EXTENDS Naturals, Integers, Sequences

\* A setup: the mode of the socket (nonblocking; SO_SNDTIMEO or SO_RCVTIMEO set)
\* and whether a control block nobody closed may be freed (see NoDanglingPcb).
CONSTANTS Modes,
          SND_BUF, SNDLOWAT, RECVMBOX_SIZE,
          WRITE_LEN,      \* how much a write passes
          CALLS, SEGS     \* bounds: calls of the application, segments of the peer

ASSUME NetconnConstants ==
  /\ \A m \in Modes : m = [nonblocking |-> m.nonblocking, timeouts |-> m.timeouts, abandons |-> m.abandons]
                       /\ {m.nonblocking, m.timeouts, m.abandons} \subseteq BOOLEAN
  /\ {SND_BUF, SNDLOWAT, RECVMBOX_SIZE, WRITE_LEN} \subseteq Nat

VARIABLES conn, tpcb,     \* struct netconn and its control block
          sock,           \* rcvevent and sendevent of the socket
          app,            \* the application thread
          op_completed,   \* the semaphore
          tcpip,          \* err_tcp between its two parts, or idle
          segs, mode

ncvars == <<conn, tpcb, sock, app, op_completed, tcpip, segs, mode>>

Idle == [old |-> "idle", err |-> "OK"]
Thread == [pc |-> "idle", op |-> "none", posted |-> FALSE, err |-> "OK", left |-> 0, got |-> 0,
           off |-> 0, calls |-> 0, shut |-> FALSE]
Returns(a) == [Thread EXCEPT !.calls = a.calls, !.shut = a.shut]

\* API_EVENT: event_callback on the counters of the socket.
RcvPlus(s) == [s EXCEPT !.rcvevent = @ + 1]
RcvMinus(s) == [s EXCEPT !.rcvevent = @ - 1]
SendPlus(s) == [s EXCEPT !.sendevent = TRUE]
SendMinus(s) == [s EXCEPT !.sendevent = FALSE]

-----------------------------------------------------------------------------
\* The control block. Its memory is gone in state FREE.
Active(p) == p.state \notin {"CLOSED", "FREE", "TIME_WAIT"}
Freed(p) == [p EXCEPT !.state = "FREE"]

tcp_close_shutdown_fin(p, nomem) ==
  LET next == CASE p.state = "ESTABLISHED" -> "FIN_WAIT_1"
                [] p.state = "CLOSE_WAIT"  -> "LAST_ACK"
                [] OTHER                   -> p.state
  IN IF nomem /\ next # p.state THEN [p EXCEPT !.closepend = TRUE] ELSE [p EXCEPT !.state = next]

tcp_close_shutdown(p, rst, nomem) ==
  IF rst /\ p.state \in {"ESTABLISHED", "CLOSE_WAIT"} /\ (p.refused # "none" \/ p.unread > 0)
  THEN Freed(p)
  ELSE IF p.state \in {"CLOSED", "SYN_SENT"} THEN Freed(p)
  ELSE tcp_close_shutdown_fin(p, nomem)

tcp_close(p, nomem) == tcp_close_shutdown([p EXCEPT !.rxclosed = TRUE], TRUE, nomem)

\* Its result: the control block and whether it was in a state to shut down.
tcp_shutdown(p, how, nomem) ==
  LET q == IF "RD" \in how THEN [p EXCEPT !.rxclosed = TRUE, !.refused = "none"] ELSE p
  IN IF "WR" \notin how THEN [p |-> q, err |-> "OK"]
     ELSE IF p.state \in {"ESTABLISHED", "CLOSE_WAIT"}
     THEN [p |-> tcp_close_shutdown(q, FALSE, nomem), err |-> "OK"]
     ELSE [p |-> q, err |-> "CONN"]

-----------------------------------------------------------------------------
\* The state the handlers work on.
Now == [c |-> conn, p |-> tpcb, s |-> sock, a |-> app, sem |-> op_completed]
Becomes(w) ==
  /\ conn' = w.c /\ tpcb' = w.p /\ sock' = w.s /\ app' = w.a /\ op_completed' = w.sem
  /\ UNCHANGED mode

\* The message of the call is answered: its result is set, its semaphore signalled.
TCPIP_APIMSG_ACK(w, err) == [w EXCEPT !.a.err = err, !.sem = @ + 1]
Completes(w, err) ==
  TCPIP_APIMSG_ACK([w EXCEPT !.c.current_msg = FALSE, !.c.state = "NONE"], err)

netconn_drain(w) == [w EXCEPT !.c.recvmbox = <<>>, !.c.valid = FALSE]

\* how: the directions to shut down. The call is over at once: neither tcp_close
\* nor tcp_shutdown reports a lack of memory.
Shuts(w, how) ==
  \/ how = {"RD", "WR"}
  \/ "RD" \in how /\ w.p.state \in {"FIN_WAIT_1", "FIN_WAIT_2", "CLOSING"}
  \/ "WR" \in how /\ w.p.rxclosed
CloseEvents(w, how) ==
  LET s == IF "RD" \in how THEN RcvPlus(w.s) ELSE w.s
  IN [w EXCEPT !.s = IF "WR" \in how THEN SendPlus(s) ELSE s]
lwip_netconn_do_close_internal(w, how, nomem) ==
  LET v == [w EXCEPT !.p.recv = @ /\ "RD" \notin how, !.p.sent = @ /\ "WR" \notin how]
      r == tcp_shutdown(v.p, how, nomem)
  IN IF Shuts(w, how)
     THEN Completes(CloseEvents([v EXCEPT !.p = tcp_close([@ EXCEPT !.arg = FALSE], nomem),
                                          !.c.pcb = FALSE], how), "OK")
     ELSE IF r.err = "OK" THEN Completes(CloseEvents([v EXCEPT !.p = r.p], how), "OK")
     ELSE Completes([v EXCEPT !.p = r.p], r.err)

Writable(p) == p.space > SNDLOWAT

\* select no longer reports the socket writable.
Throttled_NoCheck(w, all) ==
  IF (mode.nonblocking /\ ~all) \/ ~Writable(w.p) THEN [w EXCEPT !.s = SendMinus(@)] ELSE w
Throttled(w, all) ==
  IF mode.nonblocking /\ ~all THEN [w EXCEPT !.s = SendMinus(@), !.c.check_writespace = TRUE]
  ELSE IF ~Writable(w.p) THEN [w EXCEPT !.s = SendMinus(@)] ELSE w

\* Part of the data of a write goes to tcp_write. late: SO_SNDTIMEO has passed;
\* mem: tcp_write has no memory; rte: tcp_output has no route.
lwip_netconn_do_writemore(w, late, mem, rte) ==
  LET len == IF WRITE_LEN - w.a.off <= w.p.space THEN WRITE_LEN - w.a.off ELSE w.p.space
      full == mode.nonblocking /\ len = 0
      err == IF full THEN "MEM"
             ELSE IF w.p.state \notin {"ESTABLISHED", "CLOSE_WAIT"} THEN "CONN"
             ELSE IF mem THEN "MEM" ELSE "OK"
      v == IF err = "OK" THEN [w EXCEPT !.a.off = @ + len, !.p.space = @ - len] ELSE w
      all == v.a.off = WRITE_LEN
      u == IF err = "CONN" THEN v ELSE Throttled(v, all)
      partly == IF u.a.off = 0 THEN "WOULDBLOCK" ELSE "OK"
  IN IF late THEN Completes(w, IF w.a.off = 0 THEN "WOULDBLOCK" ELSE "OK")
     ELSE IF err = "CONN" THEN Completes(u, err)
     ELSE IF rte /\ ~full THEN Completes(u, "RTE")
     ELSE IF all THEN Completes(u, "OK")
     ELSE IF mode.nonblocking THEN Completes(u, partly)
     ELSE u

setup_tcp(w) == [w EXCEPT !.p.arg = TRUE, !.p.recv = TRUE, !.p.sent = TRUE]

-----------------------------------------------------------------------------
\* The handlers of the messages of an application.
netconn_err(c) == [c EXCEPT !.pending_err = "OK"]

lwip_netconn_do_connect(w) ==
  IF ~w.c.pcb THEN TCPIP_APIMSG_ACK(w, "CLSD")
  ELSE IF w.c.state # "NONE"
  THEN TCPIP_APIMSG_ACK(w, IF w.c.state = "CONNECT" THEN "ALREADY" ELSE "ISCONN")
  ELSE IF w.p.state # "CLOSED" THEN TCPIP_APIMSG_ACK(setup_tcp(w), "ISCONN")
  ELSE LET v == [setup_tcp(w) EXCEPT !.p.state = "SYN_SENT", !.c.state = "CONNECT",
                                     !.c.in_nonblocking_connect = mode.nonblocking]
       IN IF mode.nonblocking THEN TCPIP_APIMSG_ACK(v, "INPROGRESS")
          ELSE [v EXCEPT !.c.current_msg = TRUE]

lwip_netconn_do_write(w, mem, rte) ==
  LET v == [w EXCEPT !.c = netconn_err(@)]
  IN IF w.c.pending_err # "OK" THEN TCPIP_APIMSG_ACK(v, w.c.pending_err)
     ELSE IF w.c.state # "NONE" THEN TCPIP_APIMSG_ACK(v, "INPROGRESS")
     ELSE IF w.c.pcb
     THEN lwip_netconn_do_writemore([v EXCEPT !.c.state = "WRITE", !.c.current_msg = TRUE],
                                    FALSE, mem, rte)
     ELSE TCPIP_APIMSG_ACK(v, "CONN")

lwip_netconn_do_recv(w) ==
  TCPIP_APIMSG_ACK(IF w.c.pcb THEN [w EXCEPT !.p.unread = @ - w.a.got] ELSE w, "OK")

lwip_netconn_do_close(w, how, nomem) ==
  IF ~w.c.pcb \/ w.c.state = "CONNECT" THEN TCPIP_APIMSG_ACK(w, "CONN")
  ELSE IF w.c.state = "WRITE" THEN TCPIP_APIMSG_ACK(w, "INPROGRESS")
  ELSE LET v == [w EXCEPT !.c.state = "CLOSE", !.c.current_msg = TRUE]
       IN lwip_netconn_do_close_internal(IF "RD" \in how THEN netconn_drain(v) ELSE v, how, nomem)

lwip_netconn_do_delconn(w, nomem) ==
  LET v == netconn_drain(w)
  IN IF w.c.state # "NONE" /\ ~(w.c.state = "CONNECT" /\ w.c.in_nonblocking_connect)
     THEN TCPIP_APIMSG_ACK(w, "INPROGRESS")
     ELSE IF w.c.pcb
     THEN lwip_netconn_do_close_internal([v EXCEPT !.c.state = "CLOSE", !.c.current_msg = TRUE],
                                         {"RD", "WR"}, nomem)
     ELSE TCPIP_APIMSG_ACK([v EXCEPT !.s = SendPlus(RcvPlus(@))], "OK")

Shutdown == [shutdown_rd |-> {"RD"}, shutdown_wr |-> {"WR"}, shutdown_rdwr |-> {"RD", "WR"}]

\* The tcpip thread takes the message of the application.
DoMessage(w, nomem, rte) ==
  CASE w.a.op = "connect"         -> lwip_netconn_do_connect(w)
    [] w.a.op = "write"           -> lwip_netconn_do_write(w, nomem, rte)
    [] w.a.op = "recv"            -> lwip_netconn_do_recv(w)
    [] w.a.op = "fin"             -> lwip_netconn_do_close(w, {"RD"}, nomem)
    [] w.a.op \in DOMAIN Shutdown -> lwip_netconn_do_close(w, Shutdown[w.a.op], nomem)
    [] w.a.op \in {"close", "free"} -> lwip_netconn_do_delconn(w, nomem)

tcpip_thread_handle_msg == \E nomem, rte \in BOOLEAN :
  /\ tcpip = Idle /\ app.posted
  /\ rte => app.op = "write"
  /\ Becomes(DoMessage([Now EXCEPT !.a.posted = FALSE], nomem, rte))
  /\ UNCHANGED <<tcpip, segs>>

-----------------------------------------------------------------------------
\* The callbacks of the control block.

\* A call that waits for the core is completed by the error, except a connect
\* that does not wait. This is the second part of err_tcp: its messages.
err_tcp_messages ==
  LET w == IF conn.valid /\ Len(conn.recvmbox) < RECVMBOX_SIZE
           THEN [Now EXCEPT !.c.recvmbox = Append(@, tcpip.err)] ELSE Now
      v == [w EXCEPT !.c.in_nonblocking_connect = FALSE]
  IN /\ tcpip # Idle
     /\ Becomes(IF tcpip.old \notin {"WRITE", "CLOSE", "CONNECT"} THEN w
                ELSE IF conn.in_nonblocking_connect THEN v
                ELSE TCPIP_APIMSG_ACK([v EXCEPT !.c.current_msg = FALSE],
                                      IF tcpip.old = "CLOSE" THEN "OK" ELSE tcpip.err))
     /\ tcpip' = Idle /\ UNCHANGED segs

\* The first part: the control block is gone.
err_tcp(w, err) ==
  /\ Becomes([w EXCEPT !.c.pcb = FALSE, !.c.pending_err = err, !.c.mboxclosed = TRUE,
                       !.c.state = "NONE", !.s = SendPlus(RcvPlus(@))])
  /\ tcpip' = [old |-> w.c.state, err |-> err]

\* The control block is freed and its err callback, if any, told why.
Dies(w, err) ==
  IF w.p.arg THEN err_tcp([w EXCEPT !.p = Freed(@)], err)
  ELSE Becomes([w EXCEPT !.p = Freed(@)]) /\ tcpip' = Idle

\* recv_tcp has no room: the data is kept in refused_data, an end of stream lost.
Room(c) == Len(c.recvmbox) < RECVMBOX_SIZE
Post(w, msg) == [w EXCEPT !.c.recvmbox = Append(@, msg), !.s = RcvPlus(@)]
recv_tcp_EventFirst(w, msg) ==
  LET v == [w EXCEPT !.s = RcvPlus(@)]
  IN IF ~w.p.recv \/ ~w.c.valid
     THEN IF msg = "data" THEN [w EXCEPT !.p.unread = @ - 1] ELSE w
     ELSE IF Room(w.c) THEN [v EXCEPT !.c.recvmbox = Append(@, msg)]
     ELSE IF msg = "data" THEN [v EXCEPT !.p.refused = "data"] ELSE v
recv_tcp(w, msg) ==
  IF ~w.p.recv \/ ~w.c.valid
  THEN IF msg = "data" THEN [w EXCEPT !.p.unread = @ - 1] ELSE w
  ELSE IF Room(w.c) THEN Post(w, msg)
  ELSE IF msg = "data" THEN [w EXCEPT !.p.refused = "data"] ELSE w

tcp_process_refused_data(w) ==
  LET v == recv_tcp([w EXCEPT !.p.refused = "none"], "data")
  IN IF w.p.refused = "none" \/ v.p.refused # "none" THEN w
     ELSE IF w.p.refused = "data_fin" THEN recv_tcp(v, "CLSD") ELSE v

WriteSpace(w) ==
  IF w.c.pcb /\ Writable(w.p)
  THEN [w EXCEPT !.c.check_writespace = FALSE, !.s = SendPlus(@)] ELSE w
WriteMore(w, late) ==
  IF w.c.state = "WRITE" THEN lwip_netconn_do_writemore(w, late, FALSE, FALSE) ELSE w

sent_tcp(w, late) == IF w.p.sent THEN WriteSpace(WriteMore(w, late)) ELSE w
poll_tcp(w, late) ==
  LET v == WriteMore(w, late) IN IF v.c.check_writespace THEN WriteSpace(v) ELSE v

lwip_netconn_do_connected_Signals(w) ==
  TCPIP_APIMSG_ACK([setup_tcp(w) EXCEPT !.c.in_nonblocking_connect = FALSE, !.c.state = "NONE",
                                        !.c.current_msg = FALSE, !.s = SendPlus(@)], "OK")
lwip_netconn_do_connected(w) ==
  LET v == [setup_tcp(w) EXCEPT !.c.in_nonblocking_connect = FALSE, !.c.state = "NONE",
                                !.c.current_msg = FALSE, !.s = SendPlus(@)]
  IN IF w.c.in_nonblocking_connect THEN v ELSE TCPIP_APIMSG_ACK(v, "OK")

-----------------------------------------------------------------------------
\* What happens to the control block.
Calm(w) == Becomes(w) /\ UNCHANGED tcpip

Connected ==
  /\ tcpip = Idle /\ tpcb.state = "SYN_SENT"
  /\ Calm(lwip_netconn_do_connected([Now EXCEPT !.p.state = "ESTABLISHED"]))
  /\ UNCHANGED segs

\* The peer sends data, its FIN, or both.
AfterFin(state) ==
  CASE state = "ESTABLISHED" -> "CLOSE_WAIT"
    [] state = "FIN_WAIT_1"  -> "CLOSING"
    [] state = "FIN_WAIT_2"  -> "TIME_WAIT"
Delivered(w, fin) ==
  LET v == recv_tcp([w EXCEPT !.p.unread = @ + 1], "data")
  IN IF ~fin THEN v
     ELSE IF v.p.refused = "data" THEN [v EXCEPT !.p.refused = "data_fin"]
     ELSE recv_tcp(v, "CLSD")
Segment == \E data, fin \in BOOLEAN :
  LET w == tcp_process_refused_data(Now)
      v == IF fin THEN [w EXCEPT !.p.state = AfterFin(@)] ELSE w
  IN /\ tcpip = Idle /\ tpcb.state \in {"ESTABLISHED", "FIN_WAIT_1", "FIN_WAIT_2"}
     /\ data \/ fin
     /\ segs < SEGS /\ segs' = segs + 1
     /\ IF w.p.refused # "none" THEN Calm(w)
        ELSE IF data /\ w.p.rxclosed THEN Dies(w, "ABRT")
        ELSE Calm(IF data THEN Delivered(v, fin) ELSE recv_tcp(v, "CLSD"))

\* The peer acknowledges what was written.
Ack == \E late \in BOOLEAN :
  /\ tcpip = Idle /\ Active(tpcb) /\ tpcb.space < SND_BUF
  /\ late => mode.timeouts
  /\ Calm(sent_tcp([Now EXCEPT !.p.space = SND_BUF], late))
  /\ UNCHANGED segs

\* The peer acknowledges the FIN. In LAST_ACK that ends the connection, and the
\* application is told unless it has shut down reading.
AckFin ==
  /\ tcpip = Idle /\ tpcb.space = SND_BUF /\ UNCHANGED segs
  /\ \/ tpcb.state = "FIN_WAIT_1" /\ Calm([Now EXCEPT !.p.state = "FIN_WAIT_2"])
     \/ tpcb.state = "CLOSING" /\ Calm([Now EXCEPT !.p.state = "TIME_WAIT"])
     \/ /\ tpcb.state = "LAST_ACK"
        /\ tpcb.rxclosed /\ conn.pcb => mode.abandons
        /\ IF tpcb.rxclosed THEN Calm([Now EXCEPT !.p = Freed(@)]) ELSE Dies(Now, "CLSD")

\* A RST arrives, or retransmission gives up.
Reset == \E err \in {"RST", "ABRT"} :
  tcpip = Idle /\ Active(tpcb) /\ Dies(Now, err) /\ UNCHANGED segs

tcp_slowtmr == \E late \in BOOLEAN :
  /\ tcpip = Idle /\ UNCHANGED segs
  /\ late => mode.timeouts
  /\ \/ Active(tpcb) /\ tpcb.arg /\ Calm(poll_tcp(Now, late))
     \/ /\ tpcb.state = "TIME_WAIT"
        /\ conn.pcb => mode.abandons
        /\ Calm([Now EXCEPT !.p = Freed(@)])

tcp_fasttmr == \E nomem \in BOOLEAN :
  LET w == IF tpcb.closepend
           THEN [Now EXCEPT !.p = tcp_close_shutdown_fin([@ EXCEPT !.closepend = FALSE], nomem)]
           ELSE Now
  IN /\ tcpip = Idle /\ Active(tpcb) /\ (tpcb.closepend \/ tpcb.refused # "none")
     /\ Calm(tcp_process_refused_data(w)) /\ UNCHANGED segs

-----------------------------------------------------------------------------
\* The application thread. pc: where it is in its call; "sem" means that it waits
\* for op_completed, "fetch" that it waits for the mailbox. It does not write after
\* it has shut down writing.
Call(op) ==
  /\ app.pc = "idle" /\ app.calls < CALLS
  /\ app' = [app EXCEPT !.pc = "sem", !.op = op, !.posted = TRUE, !.calls = @ + 1,
                         !.shut = @ \/ (op \in DOMAIN Shutdown /\ "WR" \in Shutdown[op])]
  /\ UNCHANGED <<conn, tpcb, sock, op_completed, tcpip, segs, mode>>

lwip_connect == Call("connect")
lwip_write == ~app.shut /\ Call("write")
lwip_shutdown == \E how \in DOMAIN Shutdown : Call(how)
lwip_close == Call("close")

\* lwip_recv of up to len messages; the first may wait, the others do not.
lwip_recv == \E len \in 1 .. 2 :
  /\ app.pc = "idle" /\ app.calls < CALLS
  /\ app' = [app EXCEPT !.pc = "recv", !.left = len, !.calls = @ + 1]
  /\ UNCHANGED <<conn, tpcb, sock, op_completed, tcpip, segs, mode>>

\* What lwip_recv_tcp does with the result of netconn_recv_tcp_pbuf_flags: it
\* returns what it has got, after telling the core that it was read.
RecvDone(w) ==
  IF w.a.got > 0 THEN [w EXCEPT !.a.pc = "sem", !.a.op = "recv", !.a.posted = TRUE]
  ELSE [w EXCEPT !.a = Returns(@)]

\* netconn_recv_data has taken the message msg from the mailbox.
Fetched(w, msg) ==
  CASE msg = "data" -> [w EXCEPT !.a.pc = "minus"]
    [] msg = "CLSD" -> IF w.a.got > 0 THEN RecvDone([w EXCEPT !.c.fin_rx_pending = TRUE])
                       ELSE [w EXCEPT !.a.pc = "fin"]
    [] OTHER        -> RecvDone(w)
Fetch(w) == Fetched([w EXCEPT !.c.recvmbox = Tail(@)], Head(w.c.recvmbox))

\* It waits only if nothing tells it that nothing will come.
NoWait(c, a) == mode.nonblocking \/ a.got > 0 \/ c.mboxclosed \/ c.pending_err # "OK"
netconn_recv_data_tcp ==
  /\ app.pc = "recv" /\ UNCHANGED <<tcpip, segs>>
  /\ Becomes(IF ~conn.valid THEN RecvDone(Now)
             ELSE IF conn.fin_rx_pending
             THEN [Now EXCEPT !.c.fin_rx_pending = FALSE, !.a.pc = "fin"]
             ELSE IF ~NoWait(conn, app) THEN [Now EXCEPT !.a.pc = "fetch"]
             ELSE IF conn.recvmbox # <<>> THEN Fetch(Now)
             ELSE RecvDone([Now EXCEPT !.c = netconn_err(@)]))

sys_arch_mbox_fetch ==
  /\ app.pc = "fetch" /\ UNCHANGED <<tcpip, segs>>
  /\ \/ conn.recvmbox # <<>> /\ Becomes(Fetch(Now))
     \/ mode.timeouts /\ conn.recvmbox = <<>> /\ Becomes(RecvDone(Now))

\* The message was data: the event, then the next turn of the loop.
RecvData ==
  LET w == [Now EXCEPT !.s = RcvMinus(@), !.a.got = @ + 1, !.a.left = @ - 1]
  IN /\ app.pc = "minus" /\ UNCHANGED <<tcpip, segs>>
     /\ Becomes(IF w.a.left = 0 THEN RecvDone(w) ELSE [w EXCEPT !.a.pc = "recv"])

\* The end of the stream: reading is shut down, then reported as closed.
HandleFin ==
  LET w == [Now EXCEPT !.s = RcvMinus(@)]
  IN /\ app.pc = "fin" /\ UNCHANGED <<tcpip, segs>>
     /\ Becomes(IF conn.pcb THEN [w EXCEPT !.a.pc = "sem", !.a.op = "fin", !.a.posted = TRUE]
                ELSE [w EXCEPT !.c = netconn_err(@), !.a = Returns(@)])

\* The call is complete. lwip_close goes on to free the socket and the connection,
\* unless the connection was in use.
sys_arch_sem_wait ==
  /\ app.pc = "sem" /\ op_completed > 0 /\ op_completed' = op_completed - 1
  /\ app' = CASE app.op = "close" /\ app.err = "OK" -> [app EXCEPT !.op = "free", !.posted = TRUE]
              [] app.op = "free" -> [app EXCEPT !.pc = "closed"]
              [] OTHER           -> Returns(app)
  /\ UNCHANGED <<conn, tpcb, sock, tcpip, segs, mode>>

InitNc ==
  /\ mode \in Modes
  /\ conn = [state |-> "NONE", current_msg |-> FALSE, pending_err |-> "OK", mboxclosed |-> FALSE,
             pcb |-> TRUE, valid |-> TRUE, recvmbox |-> <<>>, in_nonblocking_connect |-> FALSE,
             fin_rx_pending |-> FALSE, check_writespace |-> FALSE]
  /\ tpcb = [state |-> "CLOSED", rxclosed |-> FALSE, refused |-> "none", unread |-> 0,
             space |-> SND_BUF, closepend |-> FALSE, arg |-> TRUE, recv |-> TRUE, sent |-> TRUE]
  /\ sock = [rcvevent |-> 0, sendevent |-> FALSE]
  /\ app = Thread /\ op_completed = 0 /\ tcpip = Idle /\ segs = 0

AppStep == netconn_recv_data_tcp \/ sys_arch_mbox_fetch \/ RecvData \/ HandleFin \/ sys_arch_sem_wait
NextNc ==
  \/ lwip_connect \/ lwip_write \/ lwip_shutdown \/ lwip_close \/ lwip_recv
  \/ netconn_recv_data_tcp \/ sys_arch_mbox_fetch \/ RecvData \/ HandleFin \/ sys_arch_sem_wait
  \/ tcpip_thread_handle_msg \/ err_tcp_messages
  \/ Connected \/ Segment \/ Ack \/ AckFin \/ Reset \/ tcp_slowtmr \/ tcp_fasttmr

\* The threads run, the timers tick, and what was sent is acknowledged in the end
\* or the connection reset: retransmission gives up (tcp_slowtmr).
SpecNc ==
  /\ InitNc /\ [][NextNc]_ncvars
  /\ WF_ncvars(AppStep) /\ WF_ncvars(tcpip_thread_handle_msg) /\ WF_ncvars(err_tcp_messages)
  /\ WF_ncvars(tcp_fasttmr) /\ WF_ncvars(tcpip = Idle /\ tpcb.arg /\ tcp_slowtmr)
  /\ WF_ncvars(tpcb.space < SND_BUF /\ (Ack \/ Reset))
  /\ WF_ncvars(tpcb.state = "SYN_SENT" /\ (Connected \/ Reset))

-----------------------------------------------------------------------------
\* Every call that posts a message is completed exactly once: while the
\* application waits on op_completed there is one thing that will signal it (the
\* message in the mailbox of the tcpip thread, the current_msg of the connection,
\* the rest of err_tcp) or it is signalled; otherwise there is none, so that no
\* signal is left over for a later call.
CompletedOnce ==
  LET One(b) == IF b THEN 1 ELSE 0
      pending == tcpip # Idle /\ conn.current_msg
  IN /\ One(app.posted) + One(conn.current_msg) + op_completed = One(app.pc = "sem")
     /\ conn.current_msg => conn.state \in {"WRITE", "CONNECT"} \/ pending

\* select reports the socket readable if lwip_recv has something to report (data, an
\* end, an error, that reading was shut down) and only if it does not wait: the
\* event counter that recv_tcp, err_tcp, the shutdowns and netconn_recv_data keep
\* agrees with the mailbox, whatever was read, closed or reset in which order.
Reportable == conn.recvmbox # <<>> \/ ~conn.valid \/ conn.fin_rx_pending \/ conn.pending_err # "OK"
ReadableIfReportable ==
  tcpip = Idle /\ app.pc = "idle" =>
    /\ Reportable => sock.rcvevent > 0
    /\ sock.rcvevent > 0 => Reportable \/ conn.mboxclosed

\* A socket open for writing that select does not report writable will be: what was
\* written is not all acknowledged, or poll_tcp looks for room.
WritableAgain ==
  tcpip = Idle /\ app.pc = "idle" /\ ~tpcb.closepend /\ tpcb.state \in {"ESTABLISHED", "CLOSE_WAIT"} =>
    sock.sendevent \/ conn.check_writespace \/ tpcb.space < SND_BUF


\* The connection does not keep a control block that was freed.
NoDanglingPcb == conn.pcb => tpcb.state # "FREE"
==============================================================================
