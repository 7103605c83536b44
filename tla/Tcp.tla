----------------------------------- MODULE Tcp ----------------------------------
(***************************************************************************)
(* One TCP connection between two hosts that run this stack: the client C  *)
(* connects, the server S listens. The network loses, duplicates and       *)
(* reorders segments. The timers of core/tcp.c and the receive path of     *)
(* api/api_msg.c (recv_tcp, which refuses data when the mailbox of the     *)
(* connection is full) are part of the model; the applications write their *)
(* data, read, and close.                                                  *)
(*                                                                         *)
(* Adverse events (a segment lost, delivered twice or before an earlier    *)
(* one, a timeout while something is in flight, no memory for a FIN) are   *)
(* counted, up to setup.faults.                                            *)
(***************************************************************************)
EXTENDS TcpIn

\* A setup says what happens to a connection: the sizes of the applications'
\* writes, whether they close without waiting for their data to be acknowledged
\* (early), at all before the peer has closed (closes), and the adverse events.
CONSTANTS Setups,
          ISS, ISS_STEP, RECVMBOX_SIZE, TCP_MAXRTX

VARIABLES pcb,        \* the control block of each host; state CLOSED: there is none
          app,        \* the connection as the application sees it
          net,        \* the segments on their way to each host
          late,       \* those that left the queue net and will arrive at any time
          iss,        \* the next initial sequence number
          faults, setup

tcpvars == <<pcb, app, net, late, iss, faults, setup>>

Ends == {"C", "S"}
Peer(e) == IF e = "C" THEN "S" ELSE "C"
NoConn == [mbox |-> <<>>, read |-> <<>>, eof |-> FALSE, err |-> FALSE,
           written |-> <<>>, writes |-> <<>>, accepted |-> 0, closed |-> FALSE]
TCP_WND_UPDATE_THRESHOLD == Smaller(TCP_WND \div 4, 4 * TCP_MSS)

\* What host e leaves behind: its control block, its application, its segments.
Put(e, r, left) ==
  /\ pcb' = [pcb EXCEPT ![e] = [r.p EXCEPT !.tx = <<>>, !.input = FALSE]]
  /\ app' = [app EXCEPT ![e] = r.a]
  /\ net' = [net EXCEPT ![e] = left, ![Peer(e)] = @ \o r.p.tx]
  /\ UNCHANGED setup
With(p, a) == [p |-> p, a |-> a]

Fault(yes) == faults' = (IF yes THEN faults + 1 ELSE faults) /\ faults' <= setup.faults
InFlight == net["C"] \o net["S"] # <<>> \/ late["C"] \cup late["S"] # {}

-----------------------------------------------------------------------------
\* The callbacks: after a close they are gone.
Posts(a, msg) == IF Len(a.mbox) < RECVMBOX_SIZE THEN [a EXCEPT !.mbox = Append(@, msg)] ELSE a
RecvRefused(a) == Len(a.mbox) >= RECVMBOX_SIZE
err_tcp(a) == IF a.closed \/ a.accepted = 0 THEN a ELSE [a EXCEPT !.err = TRUE]

\* End of stream: recv_tcp(NULL); that its message does not fit is not noticed.
EventClosed(p, a) ==
  [p |-> [p EXCEPT !.rcv_wnd = IF @ = TCP_WND THEN @ ELSE (@ + 1) % SEQ_MOD],
   a |-> IF a.closed THEN a ELSE Posts(a, [data |-> <<>>, fin |-> TRUE])]

tcp_process_refused_data(p, a) ==
  IF p.refused = NoRefused \/ RecvRefused(a) THEN With(p, a)
  ELSE LET q == [p EXCEPT !.refused = NoRefused]
           b == Posts(a, [data |-> p.refused.data, fin |-> FALSE])
       IN IF p.refused.fin THEN EventClosed(q, b) ELSE With(q, b)

\* What tcp_input passes to the application after tcp_process.
Deliver(p, a, recv, fin) ==
  LET refused == recv # <<>> /\ RecvRefused(a)
      q == IF refused THEN [p EXCEPT !.refused = [data |-> recv, fin |-> fin]] ELSE p
      b == IF recv = <<>> \/ refused THEN a ELSE Posts(a, [data |-> recv, fin |-> FALSE])
  IN IF fin /\ ~refused THEN EventClosed(q, b) ELSE With(q, b)

tcp_listen_input(p, s) ==
  LET n == [tcp_alloc EXCEPT
              !.state = "SYN_RCVD", !.rcv_nxt = Seqno(s.seq + 1),
              !.rcv_ann_right_edge = Seqno(s.seq + 1), !.snd_wl2 = iss["S"], !.snd_nxt = iss["S"],
              !.lastack = iss["S"], !.snd_lbb = iss["S"], !.snd_wl1 = Seqno(s.seq - 1),
              !.snd_wnd = s.wnd]
  IN IF "RST" \in s.flags THEN p
     ELSE IF "ACK" \in s.flags THEN tcp_rst(p, s.ack, s.seq + TCP_TCPLEN(s))
     ELSE IF "SYN" \in s.flags THEN tcp_output(tcp_enqueue_flags(n, "SYN"))
     ELSE p

tcp_timewait_input(p, s) ==
  IF "RST" \in s.flags THEN p
  ELSE IF "SYN" \in s.flags /\ TCP_SEQ_BETWEEN(s.seq, p.rcv_nxt, p.rcv_nxt + p.rcv_wnd)
  THEN tcp_rst(p, s.ack, s.seq + TCP_TCPLEN(s))
  ELSE IF TCP_TCPLEN(s) > 0 THEN tcp_output(tcp_ack_now(p)) ELSE p

\* No control block: the listener, or a reset.
NoPcbInput(e, s) ==
  IF e = "S" THEN tcp_listen_input(tcp_alloc, s)
  ELSE IF "RST" \in s.flags THEN tcp_alloc
  ELSE tcp_rst(tcp_alloc, s.ack, s.seq + TCP_TCPLEN(s))

\* What the application learns of the step from state old to the control block p.
accept_function(old, p, a) ==
  IF old = "SYN_RCVD" /\ p.state \notin {"SYN_RCVD", "CLOSED"}
  THEN [NoConn EXCEPT !.accepted = a.accepted + 1, !.writes = setup.writes["S"]] ELSE a
lwip_netconn_do_connected(old, p, a) ==
  IF old = "SYN_SENT" /\ p.state = "ESTABLISHED" THEN [a EXCEPT !.accepted = 1] ELSE a

\* The rest of tcp_input, after tcp_process has left r and the application is a.
Ended(r, a) ==
  IF r.end = "RESET" THEN With(tcp_pcb_remove(r.p), err_tcp(a))
  ELSE IF r.end = "CLOSED"
  THEN With(tcp_pcb_remove(r.p), IF "RXCLOSED" \in r.p.flags THEN a ELSE err_tcp(a))
  ELSE IF r.recv # <<>> /\ "RXCLOSED" \in r.p.flags THEN With(tcp_abort(r.p), a)
  ELSE Deliver(r.p, a, r.recv, r.fin)
Outputs(d) == [d EXCEPT !.p = tcp_output([@ EXCEPT !.input = FALSE])]
Processed(old, r, a) ==
  Outputs(Ended(r, lwip_netconn_do_connected(old, r.p, accept_function(old, r.p, a))))

ActiveInput(d, s) ==
  IF d.p.refused # NoRefused /\ TCP_TCPLEN(s) > 0
  THEN IF d.p.rcv_ann_wnd = 0 THEN With(tcp_send_empty_ack(d.p), d.a) ELSE d
  ELSE Processed(d.p.state, tcp_process([d.p EXCEPT !.input = TRUE], s), d.a)

Input(e, s) ==
  LET p == pcb[e] IN
  CASE p.state = "CLOSED"    -> With(NoPcbInput(e, s), app[e])
    [] p.state = "TIME_WAIT" -> With(tcp_timewait_input(p, s), app[e])
    [] OTHER                 -> ActiveInput(tcp_process_refused_data(p, app[e]), s)

\* The next segment arrives, perhaps again later, or one that is late.
tcp_input(e) ==
  /\ \/ /\ net[e] # <<>>
        /\ Put(e, Input(e, Head(net[e])), Tail(net[e]))
        /\ \E again \in BOOLEAN :
             /\ Fault(again)
             /\ late' = IF again THEN [late EXCEPT ![e] = @ \cup {Head(net[e])}] ELSE late
     \/ \E s \in late[e] :
          /\ Put(e, Input(e, s), net[e])
          /\ late' = [late EXCEPT ![e] = @ \ {s}]
          /\ Fault(FALSE)
  /\ iss' = IF pcb[e].state = "CLOSED" /\ pcb'[e].state = "SYN_RCVD"
            THEN [iss EXCEPT ![e] = Seqno(@ + ISS_STEP)] ELSE iss

\* The network loses or delays a segment.
Mistreat(e) ==
  /\ net[e] # <<>>
  /\ Fault(TRUE)
  /\ late' \in {late, [late EXCEPT ![e] = @ \cup {Head(net[e])}]}
  /\ net' = [net EXCEPT ![e] = Tail(@)]
  /\ UNCHANGED <<pcb, app, iss, setup>>

-----------------------------------------------------------------------------
\* due: the timers that have run out, see tcp_slowtmr. "rto" stands for the
\* persist timer as well; "idle" for the limits that count from pcb->tmr.
Persist(p) ==
  IF p.unsent = <<>> THEN p
  ELSE IF p.snd_wnd = 0 THEN tcp_zero_window_probe(p)
  ELSE tcp_output(tcp_split_unsent_seg(p, p.snd_wnd))
Rto(p) ==
  IF p.unacked = <<>> /\ p.unsent = <<>> THEN p
  ELSE tcp_rexmit_rto_commit([tcp_rexmit_rto_prepare(p) EXCEPT !.rtime = 0, !.cwnd = TCP_MSS])

GivesUp(p, due) ==
  \/ p.state = "SYN_SENT" /\ p.nrtx >= TCP_SYNMAXRTX
  \/ p.nrtx >= TCP_MAXRTX
  \/ p.persist /\ p.persist_probe >= TCP_MAXRTX
  \/ /\ "idle" \in due
     /\ \/ p.state \in {"SYN_RCVD", "LAST_ACK"}
        \/ p.state = "FIN_WAIT_2" /\ "RXCLOSED" \in p.flags

Rexmit(p) == IF p.persist THEN Persist(p) ELSE IF p.rtime >= 0 THEN Rto(p) ELSE p

SlowTimers(p, due) ==
  LET Poll(q) == IF "poll" \in due THEN tcp_output(q) ELSE q
      Idle(q) == IF "idle" \in due THEN [q EXCEPT !.ooseq = <<>>] ELSE q
  IN Poll(Idle(IF "rto" \in due THEN Rexmit(p) ELSE p))

tcp_slowtmr(e) == \E due \in SUBSET {"rto", "idle", "poll"} :
  LET p == pcb[e]
      early == due \cap {"rto", "idle"} # {} /\ InFlight
  IN /\ p.state # "CLOSED"
     /\ Fault(early)
     /\ early => p.state \notin {"TIME_WAIT", "LAST_ACK"}   \* two segment lifetimes
     /\ IF p.state = "TIME_WAIT"
        THEN "idle" \in due /\ Put(e, With(tcp_free(p), app[e]), net[e])
        ELSE IF GivesUp(p, due) THEN Put(e, With(tcp_free(p), err_tcp(app[e])), net[e])
        ELSE Put(e, With(SlowTimers(p, due), app[e]), net[e])
     /\ UNCHANGED <<late, iss>>

SendDelayedAck(p) ==
  IF "ACK_DELAY" \in p.flags
  THEN Clear(tcp_output(tcp_ack_now(p)), {"ACK_DELAY", "ACK_NOW"}) ELSE p
tcp_handle_closepend(p, nomem) ==
  IF "CLOSEPEND" \in p.flags THEN tcp_close_shutdown_fin(Clear(p, {"CLOSEPEND"}), nomem) ELSE p

tcp_fasttmr(e) == \E nomem \in BOOLEAN :
  /\ pcb[e].state \notin {"CLOSED", "TIME_WAIT"}
  /\ nomem => "CLOSEPEND" \in pcb[e].flags
  /\ Fault(nomem)
  /\ Put(e, tcp_process_refused_data(tcp_handle_closepend(SendDelayedAck(pcb[e]), nomem), app[e]),
         net[e])
  /\ UNCHANGED <<late, iss>>

-----------------------------------------------------------------------------
\* The applications.
Connected(e) == app[e].accepted > 0 /\ ~app[e].closed /\ ~app[e].err /\ pcb[e].state # "CLOSED"

tcp_connect ==
  LET n == [tcp_alloc EXCEPT
              !.state = "SYN_SENT", !.snd_nxt = iss["C"], !.lastack = Seqno(iss["C"] - 1),
              !.snd_wl2 = Seqno(iss["C"] - 1), !.snd_lbb = Seqno(iss["C"] - 1), !.snd_wnd = TCP_WND]
  IN /\ pcb["C"].state = "CLOSED" /\ iss["C"] = ISS
     /\ iss' = [iss EXCEPT !["C"] = Seqno(@ + ISS_STEP)] /\ UNCHANGED late
     /\ Put("C", With(tcp_output(tcp_enqueue_flags(n, "SYN")),
                      [NoConn EXCEPT !.writes = setup.writes["C"]]), net["C"])
     /\ Fault(FALSE)

Send(e) ==
  LET a == app[e]
      data == [i \in 1 .. Head(a.writes) |-> Len(a.written) + i]
  IN /\ Connected(e) /\ a.writes # <<>>
     /\ tcp_write_checks(pcb[e], Head(a.writes))
     /\ Put(e, With(tcp_output(tcp_write(pcb[e], data)),
                    [a EXCEPT !.written = @ \o data, !.writes = Tail(@)]), net[e])
     /\ Fault(FALSE) /\ UNCHANGED <<late, iss>>

Window(p, wnd) == [p EXCEPT !.rcv_wnd = IF wnd > TCP_WND \/ wnd < @ THEN TCP_WND ELSE wnd]
AnnounceWindow(p) ==
  LET inflation == (RightEdge(p) - p.rcv_ann_right_edge) % SEQ_MOD
      q == tcp_update_rcv_ann_wnd(p)
  IN IF EdgeMoved(p) /\ inflation >= TCP_WND_UPDATE_THRESHOLD
     THEN tcp_output(tcp_ack_now(q)) ELSE q
tcp_recved(p, len) == AnnounceWindow(Window(p, (p.rcv_wnd + len) % SEQ_MOD))

Receive(e) ==
  LET a == app[e]
      msg == Head(a.mbox)
      b == [a EXCEPT !.mbox = Tail(@), !.read = @ \o msg.data, !.eof = @ \/ msg.fin]
  IN /\ a.accepted > 0 /\ ~a.closed /\ a.mbox # <<>>
     /\ Put(e, With(IF pcb[e].state = "CLOSED" \/ msg.fin THEN pcb[e]
                    ELSE tcp_recved(pcb[e], Len(msg.data)), b), net[e])
     /\ Fault(FALSE) /\ UNCHANGED <<late, iss>>

MayClose(e) ==
  /\ app[e].writes = <<>>
  /\ app[e].eof \/ setup.early[e] \/ (setup.closes[e] /\ pcb[e].unsent \o pcb[e].unacked = <<>>)

Close(e) == \E nomem \in BOOLEAN :
  /\ Connected(e) /\ MayClose(e)
  /\ Put(e, With(tcp_close(pcb[e], nomem), [app[e] EXCEPT !.closed = TRUE, !.mbox = <<>>]), net[e])
  /\ Fault(nomem) /\ UNCHANGED <<late, iss>>

InitTcp ==
  /\ setup \in Setups
  /\ pcb = [e \in Ends |-> tcp_alloc] /\ app = [e \in Ends |-> NoConn]
  /\ net = [e \in Ends |-> <<>>] /\ late = [e \in Ends |-> {}] /\ faults = 0 /\ iss = [e \in Ends |-> ISS]

NextTcp ==
  \/ tcp_connect
  \/ \E e \in Ends : tcp_input(e) \/ Mistreat(e) \/ tcp_slowtmr(e) \/ tcp_fasttmr(e)
                     \/ Send(e) \/ Receive(e) \/ Close(e)

SpecTcp == InitTcp /\ [][NextTcp]_tcpvars

-----------------------------------------------------------------------------
Prefix(s, t) == Len(s) <= Len(t) /\ SubSeq(t, 1, Len(s)) = s
Posted(a) ==
  LET upto[i \in 0 .. Len(a.mbox)] == IF i = 0 THEN a.read ELSE upto[i - 1] \o a.mbox[i].data
  IN upto[Len(a.mbox)]


\* Nothing will happen at host e by itself: no timer of tcp_slowtmr or
\* tcp_fasttmr is armed and the application has read everything.
Quiet(e) ==
  LET p == pcb[e] IN
  /\ IF p.persist THEN p.unsent = <<>> ELSE p.rtime < 0
  /\ p.refused = NoRefused
  /\ p.flags \cap {"ACK_DELAY", "CLOSEPEND"} = {} /\ app[e].mbox = <<>>

\* The connection does not stall: as long as data or a FIN is not acknowledged, or
\* not read by a peer that still listens, a segment is in flight or a timer of
\* one side is armed that sends again (the retransmission, persist, delayed ACK,
\* pending close and refused data timers).
NoStall ==
  (~InFlight /\ \A e \in Ends : Quiet(e) /\ pcb[e].state # "CLOSED") =>
    \A e \in Ends : /\ pcb[e].unsent \o pcb[e].unacked = <<>>
                    /\ Connected(e) => app[e].read = app[Peer(e)].written

\* tcp_split_unsent_seg moves the flags of the segment it splits, so that a FIN
\* is on the last segment of the queue only.
FinLast == \A e \in Ends :
  LET q == pcb[e].unacked \o pcb[e].unsent
  IN \A i \in DOMAIN q : "FIN" \in q[i].flags => i = Len(q)

\* The persist timer runs only while something waits to be sent and nothing is
\* unacknowledged: while it runs the retransmission timer stands still.
PersistHasData == \A e \in Ends : pcb[e].persist => pcb[e].unsent # <<>> /\ pcb[e].unacked = <<>>

\* An end of stream that recv_tcp has no room for is offered again.
EofKept == \A e \in Ends :
  Connected(e) /\ pcb[e].state = "CLOSE_WAIT" =>
    app[e].eof \/ pcb[e].refused.fin \/ \E i \in DOMAIN app[e].mbox : app[e].mbox[i].fin
==============================================================================
