---------------------------- MODULE NetconnProofs ----------------------------
(***************************************************************************)
(* CompletedOnce: a thread that waits in a call of the netconn API is      *)
(* signalled once, by one of the handler of its message, a callback of     *)
(* TCP and err_tcp, and never without waiting; for all sizes of buffers    *)
(* and mailboxes, and for any number of calls and segments.                *)
(*                                                                         *)
(* The invariant NcInv says where the completion of the call is: in its    *)
(* message, in current_msg of the connection, or in the semaphore          *)
(* (Counted). The callbacks do not look at current_msg but at the state of *)
(* the connection and at in_nonblocking_connect, so Good says that these   *)
(* tell the same; and since a control block calls back without looking,    *)
(* that one which still can belongs to the connection. err_tcp clears the  *)
(* state before it reports; in between (Broken) the old state tells it.    *)
(***************************************************************************)
EXTENDS Netconn, TLAPS

Errs == {"OK", "CLSD", "ALREADY", "ISCONN", "INPROGRESS", "CONN", "MEM", "WOULDBLOCK", "RTE", "RST", "ABRT"}
Ops == {"none", "connect", "write", "recv", "fin", "shutdown_rd", "shutdown_wr", "shutdown_rdwr", "close", "free"}
States == {"CLOSED", "SYN_SENT", "ESTABLISHED", "CLOSE_WAIT", "FIN_WAIT_1", "FIN_WAIT_2", "CLOSING",
           "LAST_ACK", "TIME_WAIT", "FREE"}

ConnT == [state : {"NONE", "WRITE", "CONNECT", "CLOSE"}, current_msg : BOOLEAN, pending_err : Errs,
          mboxclosed : BOOLEAN, pcb : BOOLEAN, valid : BOOLEAN, recvmbox : Seq(Errs \cup {"data"}),
          in_nonblocking_connect : BOOLEAN, fin_rx_pending : BOOLEAN, check_writespace : BOOLEAN]
PcbT == [state : States, rxclosed : BOOLEAN, refused : {"none", "data", "data_fin"}, unread : Int,
         space : Int, closepend : BOOLEAN, arg : BOOLEAN, recv : BOOLEAN, sent : BOOLEAN]
SockT == [rcvevent : Int, sendevent : BOOLEAN]
AppT == [pc : {"idle", "sem", "recv", "fetch", "minus", "fin", "closed"}, op : Ops, posted : BOOLEAN,
         err : Errs, left : Int, got : Int, off : Int, calls : Int, shut : BOOLEAN]
World == [c : ConnT, p : PcbT, s : SockT, a : AppT, sem : Nat]

\* v differs from w in nothing that a callback or handler decides on, and in
\* nothing that the completion of a call depends on.
SameConn(w, v) ==
  /\ v \in World
  /\ v.c.state = w.c.state /\ v.c.current_msg = w.c.current_msg /\ v.c.pcb = w.c.pcb
  /\ v.c.in_nonblocking_connect = w.c.in_nonblocking_connect
  /\ v.p.state = w.p.state /\ v.p.arg = w.p.arg
SameCall(w, v) ==
  /\ SameConn(w, v) /\ v.sem = w.sem
  /\ v.a.pc = w.a.pc /\ v.a.posted = w.a.posted /\ v.a.op = w.a.op

\* The message of the call is answered.
Acked(w, v) ==
  /\ v \in World /\ v.c = w.c /\ v.p = w.p /\ v.s = w.s /\ v.sem = w.sem + 1
  /\ v.a.pc = w.a.pc /\ v.a.posted = w.a.posted /\ v.a.op = w.a.op

\* The call under way is complete.
Done(w, v) ==
  /\ v \in World /\ v.sem = w.sem + 1
  /\ v.a.pc = w.a.pc /\ v.a.posted = w.a.posted /\ v.a.op = w.a.op
  /\ v.c.state = "NONE" /\ v.c.current_msg = FALSE /\ v.c.pcb = w.c.pcb
  /\ v.c.in_nonblocking_connect = w.c.in_nonblocking_connect
  /\ v.p.state = w.p.state /\ v.p.arg = w.p.arg

\* What completes the call of the thread: its message, the connection, the semaphore.
One(b) == IF b THEN 1 ELSE 0
Counted(w) ==
  /\ One(w.a.posted) + One(w.c.current_msg) + w.sem = One(w.a.pc = "sem")
  /\ w.a.posted => w.a.op # "none"

\* The state of the connection tells whether a call waits for it. A control block
\* that can still call back belongs to it, and one that connects makes it CONNECT.
Good(w) ==
  /\ w.c.state \in {"NONE", "WRITE", "CONNECT"}
  /\ w.c.state = "WRITE" => w.c.current_msg /\ w.c.pcb
  /\ w.c.state = "CONNECT" => w.c.pcb /\ (w.c.current_msg <=> ~w.c.in_nonblocking_connect)
  /\ w.c.state = "NONE" => ~w.c.current_msg
  /\ w.c.in_nonblocking_connect => w.c.state = "CONNECT" \/ ~w.c.pcb
  /\ w.p.state = "SYN_SENT" => w.c.state = "CONNECT"
  /\ w.p.arg /\ w.p.state # "FREE" => w.c.pcb

\* Between the two parts of err_tcp the old state of the connection tells it.
Broken(w, old) ==
  /\ w.c.state = "NONE" /\ w.p.state = "FREE" /\ ~w.c.pcb
  /\ old \in {"NONE", "WRITE", "CONNECT"}
  /\ old = "WRITE" => w.c.current_msg /\ ~w.c.in_nonblocking_connect
  /\ old = "CONNECT" => (w.c.current_msg <=> ~w.c.in_nonblocking_connect)
  /\ old = "NONE" => ~w.c.current_msg

NcInv ==
  /\ Now \in World /\ mode \in Modes
  /\ tcpip = Idle \/ tcpip \in [old : {"NONE", "WRITE", "CONNECT"}, err : Errs]
  /\ Counted(Now)
  /\ tcpip = Idle => Good(Now)
  /\ tcpip # Idle => Broken(Now, tcpip.old)

-----------------------------------------------------------------------------
\* The parts of a world have their types,
LEMMA Parts ==
  ASSUME NEW w \in World
  PROVE  w.c \in ConnT /\ w.p \in PcbT /\ w.s \in SockT /\ w.a \in AppT /\ w.sem \in Nat
BY Zenon DEF World

\* and so have the fields of those parts that the handlers compute with.
LEMMA Fields ==
  ASSUME NEW w \in World
  PROVE  /\ w.c.recvmbox \in Seq(Errs \cup {"data"}) /\ w.c.pending_err \in Errs
         /\ w.c.state \in {"NONE", "WRITE", "CONNECT", "CLOSE"}
         /\ w.c.current_msg \in BOOLEAN /\ w.c.pcb \in BOOLEAN /\ w.c.in_nonblocking_connect \in BOOLEAN
         /\ w.p.state \in States /\ w.p.arg \in BOOLEAN /\ w.p.recv \in BOOLEAN /\ w.p.sent \in BOOLEAN
         /\ w.p.unread \in Int /\ w.p.space \in Int
         /\ w.s.rcvevent \in Int
         /\ w.a.got \in Int /\ w.a.off \in Int /\ w.a.left \in Int /\ w.a.calls \in Int
         /\ w.a.posted \in BOOLEAN /\ w.a.op \in Ops
         /\ w.a.pc \in {"idle", "sem", "recv", "fetch", "minus", "fin", "closed"}
BY Parts, Zenon DEF ConnT, PcbT, SockT, AppT

\* Events change the counters of a socket and nothing else.
LEMMA EventFacts ==
  ASSUME NEW s \in SockT
  PROVE  RcvPlus(s) \in SockT /\ RcvMinus(s) \in SockT /\ SendPlus(s) \in SockT /\ SendMinus(s) \in SockT
<1>1. s.rcvevent \in Int BY Zenon DEF SockT
<1>2. s.rcvevent + 1 \in Int /\ s.rcvevent - 1 \in Int BY <1>1
<1> QED BY <1>2, Zenon DEF SockT, RcvPlus, RcvMinus, SendPlus, SendMinus

\* TCPIP_APIMSG_ACK signals the thread once.
LEMMA AckFacts ==
  ASSUME NEW w \in World, NEW e \in Errs
  PROVE  Acked(w, TCPIP_APIMSG_ACK(w, e))
<1>1. w.sem + 1 \in Nat BY Parts
<1> QED BY <1>1, Parts, Zenon DEF Acked, TCPIP_APIMSG_ACK, World, AppT

\* Completing a call clears current_msg and state, and signals the thread once.
LEMMA CompletesFacts ==
  ASSUME NEW w \in World, NEW e \in Errs
  PROVE  Done(w, Completes(w, e))
<1> DEFINE u == [w EXCEPT !.c.current_msg = FALSE, !.c.state = "NONE"]
           v == TCPIP_APIMSG_ACK(u, e)
<1>1. /\ u \in World /\ u.p = w.p /\ u.s = w.s /\ u.sem = w.sem /\ u.a = w.a
      /\ u.c.state = "NONE" /\ u.c.current_msg = FALSE /\ u.c.pcb = w.c.pcb
      /\ u.c.in_nonblocking_connect = w.c.in_nonblocking_connect
  BY Zenon DEF World, ConnT
<1>2. Completes(w, e) = v BY Zenon DEF Completes
<1> HIDE DEF u
<1>3. Acked(u, v) BY <1>1, AckFacts, Zenon
<1> HIDE DEF v
<1> QED BY <1>1, <1>2, <1>3, Zenon DEF Done, Acked

\* Receiving completes no call: recv_tcp,
LEMMA RecvFacts ==
  ASSUME NEW w \in World, NEW msg \in {"data", "CLSD"}
  PROVE  SameCall(w, recv_tcp(w, msg))
<1>1. w.p.unread - 1 \in Int BY Fields
<1>2. Append(w.c.recvmbox, msg) \in Seq(Errs \cup {"data"})
  <2>1. msg \in Errs \cup {"data"} BY DEF Errs
  <2> QED BY <2>1, Fields
<1>3. RcvPlus(w.s) \in SockT BY Parts, EventFacts, Zenon
<1>4. SameCall(w, w) BY Zenon DEF SameCall, SameConn
<1>5. SameCall(w, [w EXCEPT !.p.unread = @ - 1])
  BY <1>1, Parts, Zenon DEF SameCall, SameConn, World, PcbT
<1>6. SameCall(w, [w EXCEPT !.p.refused = "data"])
  BY Parts, Zenon DEF SameCall, SameConn, World, PcbT
<1>7. SameCall(w, Post(w, msg))
  BY <1>2, <1>3, Parts, Zenon DEF SameCall, SameConn, World, ConnT, Post
<1> QED BY <1>4, <1>5, <1>6, <1>7, Zenon DEF recv_tcp

\* Two changes that complete no call make one that completes none.
LEMMA SameTrans ==
  ASSUME NEW u, NEW v, NEW w, SameCall(u, v), SameCall(v, w)
  PROVE  SameCall(u, w)
BY Zenon DEF SameCall, SameConn

\* tcp_process_refused_data,
LEMMA RefusedFacts ==
  ASSUME NEW w \in World
  PROVE  SameCall(w, tcp_process_refused_data(w))
<1> DEFINE u == [w EXCEPT !.p.refused = "none"]
           v == recv_tcp(u, "data")
<1>1. SameCall(w, u) BY Zenon DEF SameCall, SameConn, World, PcbT
<1>2. SameCall(w, v)
  <2>1. u \in World BY <1>1, Zenon DEF SameCall, SameConn
  <2> HIDE DEF u
  <2>2. SameCall(u, v) BY <2>1, RecvFacts, Zenon
  <2> QED BY <1>1, <2>2, SameTrans, Zenon
<1>3. SameCall(w, recv_tcp(v, "CLSD"))
  <2>1. v \in World BY <1>2, Zenon DEF SameCall, SameConn
  <2> HIDE DEF v
  <2>2. SameCall(v, recv_tcp(v, "CLSD")) BY <2>1, RecvFacts, Zenon
  <2> QED BY <1>2, <2>2, SameTrans, Zenon
<1>4. SameCall(w, w) BY Zenon DEF SameCall, SameConn
<1> QED BY <1>2, <1>3, <1>4, Zenon DEF tcp_process_refused_data

\* the delivery of a segment, with or without its FIN,
LEMMA DeliveredFacts ==
  ASSUME NEW w \in World, NEW fin \in BOOLEAN
  PROVE  SameCall(w, Delivered(w, fin))
<1> DEFINE u == [w EXCEPT !.p.unread = @ + 1]
           v == recv_tcp(u, "data")
<1>0. w.p.unread + 1 \in Int BY Fields
<1>1. SameCall(w, u) BY <1>0, Zenon DEF SameCall, SameConn, World, PcbT
<1>2. SameCall(w, v)
  <2>1. u \in World BY <1>1, Zenon DEF SameCall, SameConn
  <2> HIDE DEF u
  <2>2. SameCall(u, v) BY <2>1, RecvFacts, Zenon
  <2> QED BY <1>1, <2>2, SameTrans, Zenon
<1>3. v \in World BY <1>2, Zenon DEF SameCall, SameConn
<1>4. Delivered(w, fin) = IF ~fin THEN v
                          ELSE IF v.p.refused = "data" THEN [v EXCEPT !.p.refused = "data_fin"]
                          ELSE recv_tcp(v, "CLSD")
  BY Zenon DEF Delivered
<1> HIDE DEF v
<1>5. SameCall(v, [v EXCEPT !.p.refused = "data_fin"])
  BY <1>3, Zenon DEF SameCall, SameConn, World, PcbT
<1>6. SameCall(v, recv_tcp(v, "CLSD")) BY <1>3, RecvFacts, Zenon
<1> QED BY <1>2, <1>4, <1>5, <1>6, SameTrans, Zenon

\* nor do poll_tcp and sent_tcp when they only report space for writing,
LEMMA WriteSpaceFacts ==
  ASSUME NEW w \in World
  PROVE  SameCall(w, WriteSpace(w))
<1>1. SendPlus(w.s) \in SockT BY Parts, EventFacts, Zenon
<1>2. SameCall(w, [w EXCEPT !.c.check_writespace = FALSE, !.s = SendPlus(@)])
  BY <1>1, Zenon DEF SameCall, SameConn, World, ConnT
<1>3. SameCall(w, w) BY Zenon DEF SameCall, SameConn
<1> QED BY <1>2, <1>3, Zenon DEF WriteSpace

\* nor the event that ends the reports of it.
LEMMA ThrottledFacts ==
  ASSUME NEW w \in World, NEW all \in BOOLEAN
  PROVE  SameCall(w, Throttled(w, all))
<1>1. SendMinus(w.s) \in SockT BY Parts, EventFacts, Zenon
<1>2. SameCall(w, [w EXCEPT !.s = SendMinus(@), !.c.check_writespace = TRUE])
  BY <1>1, Zenon DEF SameCall, SameConn, World, ConnT
<1>3. SameCall(w, [w EXCEPT !.s = SendMinus(@)])
  BY <1>1, Zenon DEF SameCall, SameConn, World, ConnT
<1>4. SameCall(w, w) BY Zenon DEF SameCall, SameConn
<1> QED BY <1>2, <1>3, <1>4, Zenon DEF Throttled

\* A write that goes on is complete, or as far as before.
LEMMA WriteMoreFacts ==
  ASSUME NEW w \in World, NEW late \in BOOLEAN, NEW mem \in BOOLEAN, NEW rte \in BOOLEAN,
         NEW z, z = lwip_netconn_do_writemore(w, late, mem, rte)
  PROVE  SameCall(w, z) \/ Done(w, z)
<1> DEFINE len == IF WRITE_LEN - w.a.off <= w.p.space THEN WRITE_LEN - w.a.off ELSE w.p.space
           full == mode.nonblocking /\ len = 0
           err == IF full THEN "MEM"
                  ELSE IF w.p.state \notin {"ESTABLISHED", "CLOSE_WAIT"} THEN "CONN"
                  ELSE IF mem THEN "MEM" ELSE "OK"
           more == [w EXCEPT !.a.off = @ + len, !.p.space = @ - len]
           v == IF err = "OK" THEN more ELSE w
           all == v.a.off = WRITE_LEN
           u == IF err = "CONN" THEN v ELSE Throttled(v, all)
           partly == IF u.a.off = 0 THEN "WOULDBLOCK" ELSE "OK"
<1>1. len \in Int BY Fields, NetconnConstants
<1>2. w.a.off + len \in Int /\ w.p.space - len \in Int BY <1>1, Fields
<1>3. err \in Errs BY Zenon DEF Errs
<1>4. z = IF late THEN Completes(w, IF w.a.off = 0 THEN "WOULDBLOCK" ELSE "OK")
          ELSE IF err = "CONN" THEN Completes(u, err)
          ELSE IF rte /\ ~full THEN Completes(u, "RTE")
          ELSE IF all THEN Completes(u, "OK")
          ELSE IF mode.nonblocking THEN Completes(u, partly)
          ELSE u
  BY Zenon DEF lwip_netconn_do_writemore
<1> HIDE DEF len, full, err
<1>5. SameCall(w, more) BY <1>2, Zenon DEF SameCall, SameConn, World, PcbT, AppT
<1>6. SameCall(w, w) BY Zenon DEF SameCall, SameConn
<1> HIDE DEF more
<1>7. SameCall(w, v) BY <1>5, <1>6, Zenon
<1>8. v \in World /\ all \in BOOLEAN BY <1>7, Zenon DEF SameCall, SameConn
<1> HIDE DEF v, all
<1>9. SameCall(v, Throttled(v, all)) BY <1>8, ThrottledFacts, Zenon
<1>10. SameCall(w, u) BY <1>7, <1>9, SameTrans, Zenon
<1>11. u \in World /\ partly \in Errs BY <1>10, Zenon DEF SameCall, SameConn, Errs
<1> HIDE DEF u, partly
<1>12. ASSUME NEW e \in Errs PROVE Done(w, Completes(u, e))
  <2>1. Done(u, Completes(u, e)) BY <1>11, CompletesFacts, Zenon
  <2> QED BY <1>10, <2>1, Zenon DEF Done, SameCall, SameConn
<1>13. {"WOULDBLOCK", "OK", "RTE"} \subseteq Errs BY Zenon DEF Errs
<1>14. Done(w, Completes(w, IF w.a.off = 0 THEN "WOULDBLOCK" ELSE "OK"))
  BY <1>13, CompletesFacts, Zenon
<1> QED BY <1>3, <1>4, <1>10, <1>11, <1>12, <1>13, <1>14, Zenon

-----------------------------------------------------------------------------
\* The control block after a close or shutdown.
Closing(p, q) == q \in PcbT /\ q.arg = p.arg /\ (q.state = "SYN_SENT" => p.state = "SYN_SENT")

\* tcp_close_shutdown_fin at most sends a FIN: the callbacks stay as they are.
LEMMA FinFacts ==
  ASSUME NEW p \in PcbT, NEW nomem \in BOOLEAN
  PROVE  Closing(p, tcp_close_shutdown_fin(p, nomem))
<1> DEFINE next == CASE p.state = "ESTABLISHED" -> "FIN_WAIT_1"
                     [] p.state = "CLOSE_WAIT"  -> "LAST_ACK"
                     [] OTHER                   -> p.state
<1>1. p.state \in States BY Zenon DEF PcbT
<1>2. next \in States /\ (next = "SYN_SENT" => p.state = "SYN_SENT") BY <1>1 DEF States
<1>3. tcp_close_shutdown_fin(p, nomem) =
        IF nomem /\ next # p.state THEN [p EXCEPT !.closepend = TRUE] ELSE [p EXCEPT !.state = next]
  BY Zenon DEF tcp_close_shutdown_fin
<1> HIDE DEF next
<1>4. Closing(p, [p EXCEPT !.closepend = TRUE]) BY Zenon DEF Closing, PcbT
<1>5. Closing(p, [p EXCEPT !.state = next]) BY <1>2, Zenon DEF Closing, PcbT
<1> QED BY <1>3, <1>4, <1>5, Zenon

\* A freed control block calls nobody.
LEMMA FreedFacts ==
  ASSUME NEW p \in PcbT
  PROVE  Freed(p) \in PcbT /\ Freed(p).arg = p.arg /\ Freed(p).state = "FREE"
<1>1. "FREE" \in States BY Zenon DEF States
<1> QED BY <1>1, Zenon DEF Freed, PcbT

\* tcp_close_shutdown never leaves a control block that is connecting,
LEMMA ShutdownFacts ==
  ASSUME NEW p \in PcbT, NEW rst \in BOOLEAN, NEW nomem \in BOOLEAN
  PROVE  /\ Closing(p, tcp_close_shutdown(p, rst, nomem))
         /\ tcp_close_shutdown(p, rst, nomem).state # "SYN_SENT"
<1>1. Closing(p, Freed(p)) /\ Freed(p).state # "SYN_SENT" BY FreedFacts, Zenon DEF Closing
<1>2. Closing(p, tcp_close_shutdown_fin(p, nomem)) BY FinFacts, Zenon
<1>3. p.state # "SYN_SENT" => tcp_close_shutdown_fin(p, nomem).state # "SYN_SENT"
  BY <1>2, Zenon DEF Closing
<1> HIDE DEF Freed, tcp_close_shutdown_fin
<1> QED BY <1>1, <1>2, <1>3, Zenon DEF tcp_close_shutdown

\* and neither does tcp_close.
LEMMA CloseFacts ==
  ASSUME NEW p \in PcbT, NEW nomem \in BOOLEAN
  PROVE  Closing(p, tcp_close(p, nomem)) /\ tcp_close(p, nomem).state # "SYN_SENT"
<1> DEFINE q == [p EXCEPT !.rxclosed = TRUE]
<1>1. q \in PcbT /\ q.arg = p.arg /\ q.state = p.state BY Zenon DEF PcbT
<1>2. tcp_close(p, nomem) = tcp_close_shutdown(q, TRUE, nomem) BY Zenon DEF tcp_close
<1> HIDE DEF q
<1>3. /\ Closing(q, tcp_close_shutdown(q, TRUE, nomem))
      /\ tcp_close_shutdown(q, TRUE, nomem).state # "SYN_SENT"
  BY <1>1, ShutdownFacts, Zenon
<1> QED BY <1>1, <1>2, <1>3, Zenon DEF Closing

\* tcp_shutdown closes one direction, or reports that there is no connection.
LEMMA HalfCloseFacts ==
  ASSUME NEW p \in PcbT, NEW how, NEW nomem \in BOOLEAN, NEW r, r = tcp_shutdown(p, how, nomem)
  PROVE  Closing(p, r.p) /\ r.err \in {"OK", "CONN"}
<1> DEFINE q == IF "RD" \in how THEN [p EXCEPT !.rxclosed = TRUE, !.refused = "none"] ELSE p
<1>1. q \in PcbT /\ q.arg = p.arg /\ q.state = p.state BY Zenon DEF PcbT
<1>2. r = IF "WR" \notin how THEN [p |-> q, err |-> "OK"]
          ELSE IF p.state \in {"ESTABLISHED", "CLOSE_WAIT"}
          THEN [p |-> tcp_close_shutdown(q, FALSE, nomem), err |-> "OK"]
          ELSE [p |-> q, err |-> "CONN"]
  BY Zenon DEF tcp_shutdown
<1> HIDE DEF q
<1>3. Closing(q, tcp_close_shutdown(q, FALSE, nomem)) BY <1>1, ShutdownFacts, Zenon
<1>4. Closing(p, tcp_close_shutdown(q, FALSE, nomem)) /\ Closing(p, q)
  BY <1>1, <1>3, Zenon DEF Closing
<1> DEFINE f == tcp_close_shutdown(q, FALSE, nomem)
<1>5. \/ r = [p |-> q, err |-> "OK"]
      \/ r = [p |-> f, err |-> "OK"]
      \/ r = [p |-> q, err |-> "CONN"]
  BY <1>2, Zenon
<1>6. (r.p = q \/ r.p = f) /\ r.err \in {"OK", "CONN"}
  <2> HIDE DEF f
  <2>1. CASE r = [p |-> q, err |-> "OK"] BY <2>1
  <2>2. CASE r = [p |-> f, err |-> "OK"] BY <2>2
  <2>3. CASE r = [p |-> q, err |-> "CONN"] BY <2>3
  <2> QED BY <1>5, <2>1, <2>2, <2>3, Zenon
<1> QED BY <1>4, <1>6, Zenon

\* The events that a close reports complete no call.
LEMMA CloseEventsFacts ==
  ASSUME NEW w \in World, NEW how
  PROVE  SameCall(w, CloseEvents(w, how))
<1>1. w.s \in SockT /\ RcvPlus(w.s) \in SockT /\ SendPlus(w.s) \in SockT /\ SendPlus(RcvPlus(w.s)) \in SockT
  BY Parts, EventFacts, Zenon
<1>2. PICK s \in SockT : CloseEvents(w, how) = [w EXCEPT !.s = s]
  <2> DEFINE s0 == IF "RD" \in how THEN RcvPlus(w.s) ELSE w.s
             s1 == IF "WR" \in how THEN SendPlus(s0) ELSE s0
  <2>1. CloseEvents(w, how) = [w EXCEPT !.s = s1] BY Zenon DEF CloseEvents
  <2>2. s1 \in SockT BY <1>1, Zenon
  <2> QED BY <2>1, <2>2, Zenon
<1> QED BY <1>2, Zenon DEF SameCall, SameConn, World

\* The connection is shut down in some direction and the call is complete.
Shut(w, how, z) ==
  /\ z \in World /\ z.sem = w.sem + 1 /\ z.a.pc = w.a.pc /\ z.a.posted = w.a.posted
  /\ z.c.state = "NONE" /\ z.c.current_msg = FALSE
  /\ z.c.in_nonblocking_connect = w.c.in_nonblocking_connect
  /\ \/ z.c.pcb = FALSE /\ z.p.arg = FALSE /\ z.p.state # "SYN_SENT"
     \/ /\ z.c.pcb = w.c.pcb /\ how # {"RD", "WR"}
        /\ z.p.state = "SYN_SENT" => w.p.state = "SYN_SENT"

\* lwip_netconn_do_close_internal leaves CLOSE before it returns, having answered the call.
LEMMA CloseInternalFacts ==
  ASSUME NEW w \in World, NEW how, NEW nomem \in BOOLEAN
  PROVE  Shut(w, how, lwip_netconn_do_close_internal(w, how, nomem))
<1> DEFINE v == [w EXCEPT !.p.recv = @ /\ "RD" \notin how, !.p.sent = @ /\ "WR" \notin how]
           r == tcp_shutdown(v.p, how, nomem)
           q == [v.p EXCEPT !.arg = FALSE]
           x == [v EXCEPT !.p = tcp_close([@ EXCEPT !.arg = FALSE], nomem), !.c.pcb = FALSE]
           y == [v EXCEPT !.p = r.p]
<1>1. SameCall(w, v)
  <2>1. (w.p.recv /\ "RD" \notin how) \in BOOLEAN /\ (w.p.sent /\ "WR" \notin how) \in BOOLEAN BY Zenon
  <2> QED BY <2>1, Parts, Zenon DEF SameCall, SameConn, World, PcbT
<1>2. lwip_netconn_do_close_internal(w, how, nomem) =
        IF Shuts(w, how) THEN Completes(CloseEvents(x, how), "OK")
        ELSE IF r.err = "OK" THEN Completes(CloseEvents(y, how), "OK")
        ELSE Completes(y, r.err)
  BY Zenon DEF lwip_netconn_do_close_internal
<1>3. v \in World BY <1>1, Zenon DEF SameCall, SameConn
<1> HIDE DEF v
<1>4. v.p \in PcbT BY <1>3, Parts, Zenon
<1>5. Closing(v.p, r.p) /\ r.err \in {"OK", "CONN"} BY <1>4, HalfCloseFacts, Zenon
<1> HIDE DEF r
<1>6. q \in PcbT /\ q.arg = FALSE BY <1>4, Zenon DEF PcbT
<1> DEFINE t == tcp_close(q, nomem)
<1>7. x = [v EXCEPT !.p = t, !.c.pcb = FALSE] BY Zenon
<1> HIDE DEF x, q
<1>8. t \in PcbT /\ t.arg = FALSE /\ t.state # "SYN_SENT" BY <1>6, CloseFacts, Zenon DEF Closing
<1> HIDE DEF t
<1>9. /\ x \in World /\ x.sem = v.sem /\ x.a = v.a /\ x.c.pcb = FALSE /\ x.p = t
      /\ x.c.in_nonblocking_connect = v.c.in_nonblocking_connect
  BY <1>3, <1>7, <1>8, Zenon DEF World, ConnT
<1>10. y \in World /\ y.sem = v.sem /\ y.a = v.a /\ y.c = v.c /\ y.p = r.p
  BY <1>3, <1>5, Zenon DEF World, Closing
<1> HIDE DEF y
<1>11. ASSUME NEW u \in World, NEW e \in Errs PROVE Done(u, Completes(CloseEvents(u, how), e))
  <2>1. SameCall(u, CloseEvents(u, how)) BY CloseEventsFacts, Zenon
  <2>2. CloseEvents(u, how) \in World BY <2>1, Zenon DEF SameCall, SameConn
  <2>3. Done(CloseEvents(u, how), Completes(CloseEvents(u, how), e)) BY <2>2, CompletesFacts, Zenon
  <2> QED BY <2>1, <2>3, Zenon DEF Done, SameCall, SameConn
<1>12. "OK" \in Errs /\ r.err \in Errs BY <1>5, Zenon DEF Errs
<1>13. CASE Shuts(w, how)
  <2>1. Done(x, Completes(CloseEvents(x, how), "OK")) BY <1>9, <1>11, <1>12, Zenon
  <2>2. lwip_netconn_do_close_internal(w, how, nomem) = Completes(CloseEvents(x, how), "OK")
    BY <1>2, <1>13, Zenon
  <2> QED BY <1>1, <1>8, <1>9, <2>1, <2>2, Zenon DEF Shut, Done, SameCall, SameConn
<1>14. CASE ~Shuts(w, how)
  <2>1. how # {"RD", "WR"} BY <1>14, Zenon DEF Shuts
  <2>2. PICK z : z = lwip_netconn_do_close_internal(w, how, nomem) /\ Done(y, z)
    <3>1. Done(y, Completes(CloseEvents(y, how), "OK")) BY <1>10, <1>11, <1>12, Zenon
    <3>2. Done(y, Completes(y, r.err)) BY <1>10, <1>12, CompletesFacts, Zenon
    <3> QED BY <1>2, <1>14, <3>1, <3>2, Zenon
  <2>3. y.p.state = "SYN_SENT" => w.p.state = "SYN_SENT"
    BY <1>1, <1>5, <1>10, Zenon DEF Closing, SameCall, SameConn
  <2> QED BY <1>1, <1>10, <2>1, <2>2, <2>3, Zenon DEF Shut, Done, SameCall, SameConn
<1> QED BY <1>13, <1>14

-----------------------------------------------------------------------------
\* A handler has the message of the call in hand; when it is done the call is
\* complete, or the connection will complete it.
Handling(w) ==
  /\ w \in World /\ Good(w) /\ w.a.posted = FALSE /\ w.c.current_msg = FALSE /\ w.sem = 0
  /\ w.a.pc = "sem"
Handled(w) == w \in World /\ Good(w) /\ Counted(w)

\* A call waits for the connection, or its semaphore is signalled: then the count is right.
LEMMA CountedFacts ==
  ASSUME NEW w, w.a.pc = "sem", w.a.posted = FALSE,
         \/ w.c.current_msg = FALSE /\ w.sem = 0 + 1
         \/ w.c.current_msg = TRUE /\ w.sem = 0
  PROVE  Counted(w)
BY DEF Counted, One

\* Good and Broken speak only of what SameConn keeps.
LEMMA GoodFrame ==
  ASSUME NEW w, NEW v, SameConn(w, v)
  PROVE  (Good(w) => Good(v)) /\ \A old : Broken(w, old) => Broken(v, old)
<1>1. Good(w) => Good(v) BY Zenon DEF SameConn, Good
<1>2. \A old : Broken(w, old) => Broken(v, old) BY Zenon DEF SameConn, Broken
<1> QED BY <1>1, <1>2

\* A handler that changes nothing of the call and answers it has handled it.
LEMMA AckHandles ==
  ASSUME NEW w, NEW v, NEW e \in Errs, Handling(w), SameCall(w, v)
  PROVE  Handled(TCPIP_APIMSG_ACK(v, e))
<1>1. v \in World /\ SameConn(w, v) BY Zenon DEF SameCall, SameConn
<1>2. PICK z : z = TCPIP_APIMSG_ACK(v, e) /\ Acked(v, z) BY <1>1, AckFacts, Zenon
<1>3. z \in World /\ z.c = v.c /\ z.p = v.p /\ z.sem = 0 + 1 /\ z.a.pc = "sem" /\ z.a.posted = FALSE
      /\ z.c.current_msg = FALSE
  BY <1>1, <1>2, Zenon DEF Acked, SameCall, SameConn, Handling
<1>4. Counted(z) BY <1>3, CountedFacts, Zenon
<1>5. Good(v) BY <1>1, GoodFrame, Zenon DEF Handling
<1>6. Good(z) BY <1>3, <1>5, Zenon DEF Good
<1> QED BY <1>2, <1>3, <1>4, <1>6, Zenon DEF Handled

\* Doing nothing completes no call.
LEMMA SameSelf ==
  ASSUME NEW w \in World
  PROVE  SameCall(w, w)
BY Zenon DEF SameCall, SameConn

\* lwip_netconn_do_connect answers the message, or leaves it to do_connected.
LEMMA Handle_connect ==
  ASSUME NEW w, Handling(w), mode \in Modes
  PROVE  Handled(lwip_netconn_do_connect(w))
<1> DEFINE u == setup_tcp(w)
           v == [u EXCEPT !.p.state = "SYN_SENT", !.c.state = "CONNECT",
                          !.c.in_nonblocking_connect = mode.nonblocking]
           x == [v EXCEPT !.c.current_msg = TRUE]
<1>1. w \in World BY Zenon DEF Handling
<1>2. mode.nonblocking \in BOOLEAN BY NetconnConstants, Zenon
<1>3. {"CLSD", "ALREADY", "ISCONN", "INPROGRESS"} \subseteq Errs BY Zenon DEF Errs
<1>4. ASSUME NEW e \in Errs PROVE Handled(TCPIP_APIMSG_ACK(w, e))
  BY <1>1, AckHandles, SameSelf, Zenon
<1>5. /\ u \in World /\ u.c = w.c /\ u.a = w.a /\ u.sem = w.sem /\ u.p.state = w.p.state
      /\ u.p.arg = TRUE
  BY <1>1, Zenon DEF setup_tcp, World, PcbT
<1>6. ASSUME w.c.pcb PROVE Handled(TCPIP_APIMSG_ACK(u, "ISCONN"))
  <2> HIDE DEF u
  <2>1. PICK z : z = TCPIP_APIMSG_ACK(u, "ISCONN") /\ Acked(u, z) BY <1>3, <1>5, AckFacts, Zenon
  <2>2. /\ z \in World /\ z.c = w.c /\ z.p = u.p /\ z.sem = 0 + 1 /\ z.a.pc = "sem"
        /\ z.a.posted = FALSE /\ z.c.current_msg = FALSE
    BY <1>5, <2>1, Zenon DEF Acked, Handling
  <2>3. Counted(z) BY <2>2, CountedFacts, Zenon
  <2>4. Good(z) BY <1>5, <1>6, <2>2, Zenon DEF Good, Handling
  <2> QED BY <2>1, <2>2, <2>3, <2>4, Zenon DEF Handled
<1>7. lwip_netconn_do_connect(w) =
        IF ~w.c.pcb THEN TCPIP_APIMSG_ACK(w, "CLSD")
        ELSE IF w.c.state # "NONE"
        THEN TCPIP_APIMSG_ACK(w, IF w.c.state = "CONNECT" THEN "ALREADY" ELSE "ISCONN")
        ELSE IF w.p.state # "CLOSED" THEN TCPIP_APIMSG_ACK(u, "ISCONN")
        ELSE IF mode.nonblocking THEN TCPIP_APIMSG_ACK(v, "INPROGRESS") ELSE x
  BY Zenon DEF lwip_netconn_do_connect
<1> HIDE DEF u
<1>8. "SYN_SENT" \in States BY Zenon DEF States
<1>9. /\ v \in World /\ v.a = w.a /\ v.sem = w.sem /\ v.p.state = "SYN_SENT"
      /\ v.c.state = "CONNECT" /\ v.c.current_msg = w.c.current_msg /\ v.c.pcb = w.c.pcb
      /\ v.c.in_nonblocking_connect = mode.nonblocking
  BY <1>2, <1>5, <1>8, Zenon DEF World, PcbT, ConnT
<1> HIDE DEF v
<1>10. ASSUME w.c.pcb, mode.nonblocking PROVE Handled(TCPIP_APIMSG_ACK(v, "INPROGRESS"))
  <2>1. PICK z : z = TCPIP_APIMSG_ACK(v, "INPROGRESS") /\ Acked(v, z) BY <1>3, <1>9, AckFacts, Zenon
  <2>2. /\ z \in World /\ z.c = v.c /\ z.p = v.p /\ z.sem = 0 + 1 /\ z.a.pc = "sem"
        /\ z.a.posted = FALSE /\ z.c.current_msg = FALSE
    BY <1>9, <2>1, Zenon DEF Acked, Handling
  <2>3. Counted(z) BY <2>2, CountedFacts, Zenon
  <2>4. Good(z) BY <1>9, <1>10, <2>2, Zenon DEF Good, Handling
  <2> QED BY <2>1, <2>2, <2>3, <2>4, Zenon DEF Handled
<1>11. ASSUME w.c.pcb, ~mode.nonblocking PROVE Handled(x)
  <2>1. /\ x \in World /\ x.a = w.a /\ x.sem = 0 /\ x.p = v.p
        /\ x.c.state = "CONNECT" /\ x.c.current_msg = TRUE /\ x.c.pcb = w.c.pcb
        /\ x.c.in_nonblocking_connect = mode.nonblocking
    BY <1>9, Zenon DEF World, ConnT, Handling
  <2> HIDE DEF x
  <2>2. Counted(x) BY <2>1, CountedFacts, Zenon DEF Handling
  <2>3. Good(x) BY <1>2, <1>9, <1>11, <2>1, Zenon DEF Good
  <2> QED BY <2>1, <2>2, <2>3, Zenon DEF Handled
<1> HIDE DEF x
<1>12. (IF w.c.state = "CONNECT" THEN "ALREADY" ELSE "ISCONN") \in Errs BY <1>3, Zenon
<1> QED BY <1>3, <1>4, <1>6, <1>7, <1>10, <1>11, <1>12, Zenon

\* lwip_netconn_do_write answers the message, or leaves the rest to sent_tcp and poll_tcp.
LEMMA Handle_write ==
  ASSUME NEW w, Handling(w), NEW mem \in BOOLEAN, NEW rte \in BOOLEAN
  PROVE  Handled(lwip_netconn_do_write(w, mem, rte))
<1> DEFINE v == [w EXCEPT !.c = netconn_err(@)]
           u == [v EXCEPT !.c.state = "WRITE", !.c.current_msg = TRUE]
           z == lwip_netconn_do_writemore(u, FALSE, mem, rte)
<1>1. w \in World BY Zenon DEF Handling
<1>2. {"OK", "INPROGRESS", "CONN"} \subseteq Errs /\ w.c.pending_err \in Errs
  BY <1>1, Fields, Zenon DEF Errs
<1>3. SameCall(w, v) BY <1>1, <1>2, Zenon DEF netconn_err, SameCall, SameConn, World, ConnT
<1>4. lwip_netconn_do_write(w, mem, rte) =
        IF w.c.pending_err # "OK" THEN TCPIP_APIMSG_ACK(v, w.c.pending_err)
        ELSE IF w.c.state # "NONE" THEN TCPIP_APIMSG_ACK(v, "INPROGRESS")
        ELSE IF w.c.pcb THEN z ELSE TCPIP_APIMSG_ACK(v, "CONN")
  BY Zenon DEF lwip_netconn_do_write
<1> HIDE DEF v
<1>5. ASSUME NEW e \in Errs PROVE Handled(TCPIP_APIMSG_ACK(v, e)) BY <1>3, AckHandles, Zenon
<1>6. ASSUME w.c.pcb, w.c.state = "NONE" PROVE Handled(z)
  <2>1. /\ u \in World /\ u.a = v.a /\ u.sem = v.sem /\ u.p = v.p
        /\ u.c.state = "WRITE" /\ u.c.current_msg = TRUE /\ u.c.pcb = v.c.pcb
        /\ u.c.in_nonblocking_connect = v.c.in_nonblocking_connect
    BY <1>3, Zenon DEF SameCall, SameConn, World, ConnT
  <2> HIDE DEF u
  <2>2. SameCall(u, z) \/ Done(u, z) BY <2>1, WriteMoreFacts, Zenon
  <2> HIDE DEF z
  <2>3. /\ u.a.pc = "sem" /\ u.a.posted = FALSE /\ u.sem = 0 /\ u.c.pcb
        /\ ~u.c.in_nonblocking_connect /\ u.p.state # "SYN_SENT"
    BY <1>3, <1>6, <2>1, Zenon DEF SameCall, SameConn, Handling, Good
  <2>4. CASE SameCall(u, z)
    <3>1. z \in World BY <2>4, Zenon DEF SameCall, SameConn
    <3>2. Good(z) BY <2>1, <2>3, <2>4, Zenon DEF Good, SameCall, SameConn
    <3>3. z.a.pc = "sem" /\ z.a.posted = FALSE /\ z.c.current_msg = TRUE /\ z.sem = 0
      BY <2>1, <2>3, <2>4, Zenon DEF SameCall, SameConn
    <3> QED BY <3>1, <3>2, <3>3, CountedFacts, Zenon DEF Handled
  <2>5. CASE Done(u, z)
    <3>1. z \in World BY <2>5, Zenon DEF Done
    <3>2. Good(z) BY <2>1, <2>3, <2>5, Zenon DEF Good, Done
    <3>3. z.a.pc = "sem" /\ z.a.posted = FALSE /\ z.c.current_msg = FALSE /\ z.sem = 0 + 1
      BY <2>1, <2>3, <2>5, Zenon DEF Done
    <3> QED BY <3>1, <3>2, <3>3, CountedFacts, Zenon DEF Handled
  <2> QED BY <2>2, <2>4, <2>5
<1> HIDE DEF z
<1> QED BY <1>2, <1>4, <1>5, <1>6, Zenon

\* lwip_netconn_do_recv answers the message.
LEMMA Handle_recv ==
  ASSUME NEW w, Handling(w)
  PROVE  Handled(lwip_netconn_do_recv(w))
<1> DEFINE v == IF w.c.pcb THEN [w EXCEPT !.p.unread = @ - w.a.got] ELSE w
<1>1. w \in World BY Zenon DEF Handling
<1>2. w.p.unread - w.a.got \in Int BY <1>1, Fields
<1>3. SameCall(w, [w EXCEPT !.p.unread = @ - w.a.got])
  BY <1>1, <1>2, Zenon DEF SameCall, SameConn, World, PcbT
<1>4. SameCall(w, v) BY <1>1, <1>3, SameSelf, Zenon
<1>5. lwip_netconn_do_recv(w) = TCPIP_APIMSG_ACK(v, "OK") BY Zenon DEF lwip_netconn_do_recv
<1> HIDE DEF v
<1>6. "OK" \in Errs BY Zenon DEF Errs
<1> QED BY <1>4, <1>5, <1>6, AckHandles, Zenon

\* netconn_drain empties the mailbox and completes no call.
LEMMA DrainFacts ==
  ASSUME NEW w \in World
  PROVE  SameCall(w, netconn_drain(w)) /\ netconn_drain(w).a = w.a /\ netconn_drain(w).p = w.p
<1>0. <<>> \in Seq(Errs \cup {"data"}) OBVIOUS
<1>1. PICK e \in Seq(Errs \cup {"data"}) : e = <<>> BY <1>0
<1>2. PICK z : z = [w EXCEPT !.c.recvmbox = e, !.c.valid = FALSE] OBVIOUS
<1>3. netconn_drain(w) = z BY <1>1, <1>2 DEF netconn_drain
<1>4. SameCall(w, z) /\ z.a = w.a /\ z.p = w.p BY <1>2, Zenon DEF SameCall, SameConn, World, ConnT
<1> QED BY <1>3, <1>4, Zenon

\* The state CLOSE lasts no longer than the handler.
LEMMA CloseHandles ==
  ASSUME NEW w, Handling(w), w.c.pcb, NEW v, SameCall(w, v), NEW how, NEW nomem \in BOOLEAN,
         w.c.state = "NONE" \/ how = {"RD", "WR"}, NEW u,
         /\ u \in World /\ u.a = v.a /\ u.sem = v.sem /\ u.p = v.p /\ u.c.pcb = v.c.pcb
         /\ u.c.in_nonblocking_connect = v.c.in_nonblocking_connect
  PROVE  Handled(lwip_netconn_do_close_internal(u, how, nomem))
<1> DEFINE z == lwip_netconn_do_close_internal(u, how, nomem)
<1>0. lwip_netconn_do_close_internal(u, how, nomem) = z BY Zenon
<1>1. Shut(u, how, z) BY CloseInternalFacts, Zenon
<1> HIDE DEF z
<1>2. /\ u.a.pc = "sem" /\ u.a.posted = FALSE /\ u.sem = 0 /\ u.p.state = w.p.state
      /\ u.p.arg = w.p.arg /\ u.c.pcb = w.c.pcb
      /\ u.c.in_nonblocking_connect = w.c.in_nonblocking_connect
  BY Zenon DEF SameCall, SameConn, Handling
<1>3. z \in World /\ z.a.pc = "sem" /\ z.a.posted = FALSE /\ z.c.current_msg = FALSE /\ z.sem = 0 + 1
  BY <1>1, <1>2, Zenon DEF Shut
<1>4. Counted(z) BY <1>3, CountedFacts, Zenon
<1>5. Good(z)
  <2>1. CASE z.c.pcb = FALSE /\ z.p.arg = FALSE /\ z.p.state # "SYN_SENT"
    BY <1>1, <2>1, Zenon DEF Good, Shut
  <2>2. CASE /\ z.c.pcb = u.c.pcb /\ how # {"RD", "WR"}
             /\ z.p.state = "SYN_SENT" => u.p.state = "SYN_SENT"
    BY <1>1, <1>2, <2>2, Zenon DEF Good, Shut, Handling
  <2> QED BY <1>1, <2>1, <2>2, Zenon DEF Shut
<1> QED BY <1>0, <1>3, <1>4, <1>5, Zenon DEF Handled

\* lwip_netconn_do_close answers the message, whatever direction is closed.
LEMMA Handle_close ==
  ASSUME NEW w, Handling(w), NEW how, NEW nomem \in BOOLEAN
  PROVE  Handled(lwip_netconn_do_close(w, how, nomem))
<1> DEFINE v == [w EXCEPT !.c.state = "CLOSE", !.c.current_msg = TRUE]
           u == IF "RD" \in how THEN netconn_drain(v) ELSE v
<1>1. w \in World BY Zenon DEF Handling
<1>2. {"CONN", "INPROGRESS"} \subseteq Errs BY Zenon DEF Errs
<1>3. ASSUME NEW e \in Errs PROVE Handled(TCPIP_APIMSG_ACK(w, e)) BY <1>1, AckHandles, SameSelf, Zenon
<1>4. lwip_netconn_do_close(w, how, nomem) =
        IF ~w.c.pcb \/ w.c.state = "CONNECT" THEN TCPIP_APIMSG_ACK(w, "CONN")
        ELSE IF w.c.state = "WRITE" THEN TCPIP_APIMSG_ACK(w, "INPROGRESS")
        ELSE lwip_netconn_do_close_internal(u, how, nomem)
  BY Zenon DEF lwip_netconn_do_close
<1>5. /\ v \in World /\ v.a = w.a /\ v.sem = w.sem /\ v.p = w.p /\ v.c.pcb = w.c.pcb
      /\ v.c.in_nonblocking_connect = w.c.in_nonblocking_connect
  BY <1>1, Zenon DEF World, ConnT
<1> HIDE DEF v
<1>6. /\ u \in World /\ u.a = v.a /\ u.sem = v.sem /\ u.p = v.p /\ u.c.pcb = v.c.pcb
      /\ u.c.in_nonblocking_connect = v.c.in_nonblocking_connect
  <2>1. PICK x : x = netconn_drain(v) /\ SameCall(v, x) /\ x.a = v.a /\ x.p = v.p
    BY <1>5, DrainFacts, Zenon
  <2> QED BY <1>5, <2>1, Zenon DEF SameCall, SameConn
<1> HIDE DEF u
<1>7. ASSUME w.c.pcb, w.c.state = "NONE" PROVE Handled(lwip_netconn_do_close_internal(u, how, nomem))
  <2>1. /\ u \in World /\ u.a = w.a /\ u.sem = w.sem /\ u.p = w.p /\ u.c.pcb = w.c.pcb
        /\ u.c.in_nonblocking_connect = w.c.in_nonblocking_connect
    BY <1>5, <1>6, Zenon
  <2>2. SameCall(w, w) BY <1>1, SameSelf, Zenon
  <2> QED BY <1>7, <2>1, <2>2, CloseHandles, Zenon
<1>8. w.c.state \in {"NONE", "WRITE", "CONNECT"} BY Zenon DEF Handling, Good
<1> QED BY <1>2, <1>3, <1>4, <1>7, <1>8, Zenon

\* lwip_netconn_do_delconn answers the message.
LEMMA Handle_delconn ==
  ASSUME NEW w, Handling(w), NEW nomem \in BOOLEAN
  PROVE  Handled(lwip_netconn_do_delconn(w, nomem))
<1> DEFINE v == netconn_drain(w)
           u == [v EXCEPT !.c.state = "CLOSE", !.c.current_msg = TRUE]
           x == [v EXCEPT !.s = SendPlus(RcvPlus(@))]
<1>1. w \in World BY Zenon DEF Handling
<1>2. {"OK", "INPROGRESS"} \subseteq Errs BY Zenon DEF Errs
<1>3. ASSUME NEW e \in Errs PROVE Handled(TCPIP_APIMSG_ACK(w, e)) BY <1>1, AckHandles, SameSelf, Zenon
<1>4. lwip_netconn_do_delconn(w, nomem) =
        IF w.c.state # "NONE" /\ ~(w.c.state = "CONNECT" /\ w.c.in_nonblocking_connect)
        THEN TCPIP_APIMSG_ACK(w, "INPROGRESS")
        ELSE IF w.c.pcb THEN lwip_netconn_do_close_internal(u, {"RD", "WR"}, nomem)
        ELSE TCPIP_APIMSG_ACK(x, "OK")
  BY Zenon DEF lwip_netconn_do_delconn
<1>5. SameCall(w, v) BY <1>1, DrainFacts, Zenon
<1> HIDE DEF v
<1>6. v \in World BY <1>5, Zenon DEF SameCall, SameConn
<1>7. /\ u \in World /\ u.a = v.a /\ u.sem = v.sem /\ u.p = v.p /\ u.c.pcb = v.c.pcb
      /\ u.c.in_nonblocking_connect = v.c.in_nonblocking_connect
  BY <1>6, Zenon DEF World, ConnT
<1> HIDE DEF u
<1>8. SendPlus(RcvPlus(v.s)) \in SockT BY <1>6, Parts, EventFacts, Zenon
<1>9. SameCall(v, x) BY <1>6, <1>8, Zenon DEF SameCall, SameConn, World
<1> HIDE DEF x
<1>10. ASSUME w.c.pcb PROVE Handled(lwip_netconn_do_close_internal(u, {"RD", "WR"}, nomem))
  BY <1>5, <1>7, <1>10, CloseHandles, Zenon
<1>11. Handled(TCPIP_APIMSG_ACK(x, "OK")) BY <1>2, <1>5, <1>9, SameTrans, AckHandles, Zenon
<1> QED BY <1>2, <1>3, <1>4, <1>10, <1>11, Zenon

-----------------------------------------------------------------------------
\* The new state is the one a handler or callback made.
LEMMA BecomesFacts ==
  ASSUME NEW w \in World, Becomes(w)
  PROVE  Now' = w /\ mode' = mode
<1>1. w = [c |-> w.c, p |-> w.p, s |-> w.s, a |-> w.a, sem |-> w.sem] BY DEF World
<1> QED BY <1>1 DEF Becomes, Now

\* When a message is taken from the mailbox, nothing else can complete its call.
LEMMA InvPosted ==
  ASSUME NcInv, tcpip = Idle, app.posted
  PROVE  Handling([Now EXCEPT !.a.posted = FALSE])
<1>1. Now \in World /\ Good(Now) /\ Counted(Now) BY Zenon DEF NcInv
<1>2. PICK n : n = Now BY Zenon
<1>3. n.a.posted BY <1>2 DEF Now
<1>4. PICK z : z = [n EXCEPT !.a.posted = FALSE] BY Zenon
<1>5. [Now EXCEPT !.a.posted = FALSE] = z BY <1>2, <1>4, Zenon
<1>6. /\ z \in World /\ z.c = n.c /\ z.p = n.p /\ z.sem = n.sem /\ z.a.pc = n.a.pc
      /\ z.a.posted = FALSE
  BY <1>1, <1>2, <1>4, Zenon DEF World, AppT
<1>7. n \in World /\ Good(n) /\ Counted(n) BY <1>1, <1>2, Zenon
<1>8. n.sem \in Nat /\ n.c.current_msg \in BOOLEAN BY <1>7, Parts, Fields, Zenon
<1>9. n.c.current_msg = FALSE /\ n.sem = 0 /\ n.a.pc = "sem" BY <1>3, <1>7, <1>8 DEF Counted, One
<1>10. Good(z) BY <1>6, <1>7, Zenon DEF Good
<1> QED BY <1>5, <1>6, <1>9, <1>10, Zenon DEF Handling

\* Whatever the message asks for, its handler answers it or leaves it to one callback.
LEMMA MessageHandled ==
  ASSUME NEW w, Handling(w), mode \in Modes, NEW nomem \in BOOLEAN, NEW rte \in BOOLEAN,
         w.a.op \in Ops \ {"none"}
  PROVE  Handled(DoMessage(w, nomem, rte))
<1>1. DOMAIN Shutdown = {"shutdown_rd", "shutdown_wr", "shutdown_rdwr"} BY DEF Shutdown
<1>2. CASE w.a.op = "connect"
  <2>1. DoMessage(w, nomem, rte) = lwip_netconn_do_connect(w) BY <1>1, <1>2 DEF DoMessage
  <2> QED BY <2>1, Handle_connect, Zenon
<1>3. CASE w.a.op = "write"
  <2>1. DoMessage(w, nomem, rte) = lwip_netconn_do_write(w, nomem, rte) BY <1>1, <1>3 DEF DoMessage
  <2> QED BY <2>1, Handle_write, Zenon
<1>4. CASE w.a.op = "recv"
  <2>1. DoMessage(w, nomem, rte) = lwip_netconn_do_recv(w) BY <1>1, <1>4 DEF DoMessage
  <2> QED BY <2>1, Handle_recv, Zenon
<1>5. CASE w.a.op = "fin"
  <2>1. DoMessage(w, nomem, rte) = lwip_netconn_do_close(w, {"RD"}, nomem) BY <1>1, <1>5 DEF DoMessage
  <2> QED BY <2>1, Handle_close, Zenon
<1>6. CASE w.a.op \in {"shutdown_rd", "shutdown_wr", "shutdown_rdwr"}
  <2>1. DoMessage(w, nomem, rte) = lwip_netconn_do_close(w, Shutdown[w.a.op], nomem)
    BY <1>1, <1>6 DEF DoMessage
  <2> QED BY <2>1, Handle_close, Zenon
<1>7. CASE w.a.op \in {"close", "free"}
  <2>1. DoMessage(w, nomem, rte) = lwip_netconn_do_delconn(w, nomem) BY <1>1, <1>7 DEF DoMessage
  <2> QED BY <2>1, Handle_delconn, Zenon
<1> QED BY <1>2, <1>3, <1>4, <1>5, <1>6, <1>7 DEF Ops

\* The tcpip thread handles a message.
LEMMA Step_handle_msg == NcInv /\ tcpip_thread_handle_msg => NcInv'
<1> SUFFICES ASSUME NcInv, tcpip_thread_handle_msg PROVE NcInv' OBVIOUS
<1>1. PICK nomem, rte \in BOOLEAN :
        /\ tcpip = Idle /\ app.posted
        /\ Becomes(DoMessage([Now EXCEPT !.a.posted = FALSE], nomem, rte))
        /\ UNCHANGED <<tcpip, segs>>
  BY Zenon DEF tcpip_thread_handle_msg
<1>2. PICK w : w = [Now EXCEPT !.a.posted = FALSE] BY Zenon
<1>3. Handling(w) BY <1>1, <1>2, InvPosted, Zenon
<1>4. w.a.op \in Ops \ {"none"}
  <2>1. PICK n : n = Now BY Zenon
  <2>2. n \in World /\ Counted(n) BY <2>1, Zenon DEF NcInv
  <2>3. n.a.posted BY <1>1, <2>1 DEF Now
  <2>4. n.a.op \in Ops /\ n.a.op # "none" BY <2>2, <2>3, Fields, Zenon DEF Counted
  <2>5. w.a.op = n.a.op BY <1>2, <2>1, <2>2, Zenon DEF World, AppT
  <2> QED BY <2>4, <2>5, Zenon
<1>5. mode \in Modes BY Zenon DEF NcInv
<1>6. PICK z : z = DoMessage(w, nomem, rte) /\ Handled(z) BY <1>3, <1>4, <1>5, MessageHandled, Zenon
<1>7. Becomes(z) BY <1>1, <1>2, <1>6, Zenon
<1>8. Now' = z /\ mode' = mode BY <1>6, <1>7, BecomesFacts, Zenon DEF Handled
<1>9. tcpip' = Idle BY <1>1, Zenon
<1> QED BY <1>5, <1>6, <1>8, <1>9, Zenon DEF NcInv, Handled

\* A step of the core that ends without err_tcp.
LEMMA Kept ==
  ASSUME NcInv, NEW z, Handled(z), Becomes(z), tcpip' = Idle
  PROVE  NcInv'
<1>1. Now' = z /\ mode' = mode BY BecomesFacts, Zenon DEF Handled
<1>2. mode \in Modes BY Zenon DEF NcInv
<1> QED BY <1>1, <1>2, Zenon DEF NcInv, Handled

\* What completes no call keeps the state between two handlers.
LEMMA SameHandled ==
  ASSUME NEW w, NEW z, Handled(w), SameCall(w, z)
  PROVE  Handled(z)
<1>1. SameConn(w, z) /\ z \in World BY Zenon DEF SameCall, SameConn
<1>2. Good(z) BY <1>1, GoodFrame, Zenon DEF Handled
<1>3. Counted(z) BY Zenon DEF Counted, Handled, SameCall, SameConn
<1> QED BY <1>1, <1>2, <1>3, Zenon DEF Handled

\* A write that was under way is complete.
LEMMA DoneHandled ==
  ASSUME NEW w, NEW z, Handled(w), Done(w, z), w.c.state = "WRITE"
  PROVE  Handled(z)
<1>1. z \in World BY Zenon DEF Done
<1>2. w.c.current_msg /\ w.c.pcb /\ ~w.c.in_nonblocking_connect /\ w.p.state # "SYN_SENT"
  BY Zenon DEF Handled, Good
<1>3. Good(z) BY <1>2, Zenon DEF Good, Done
<1>4. w.sem \in Nat /\ w.a.posted \in BOOLEAN BY Parts, Fields, Zenon DEF Handled
<1>5. z.sem = w.sem + 1 /\ z.c.current_msg = FALSE /\ z.a.pc = w.a.pc /\ z.a.posted = w.a.posted
      /\ z.a.op = w.a.op
  BY Zenon DEF Done
<1>6. Counted(w) BY Zenon DEF Handled
<1>7. Counted(z) BY <1>2, <1>4, <1>5, <1>6 DEF Counted, One
<1> QED BY <1>1, <1>3, <1>7, Zenon DEF Handled

\* lwip_netconn_do_writemore completes a write only when one waits.
LEMMA WriteMoreHandled ==
  ASSUME NEW w, Handled(w), NEW late \in BOOLEAN
  PROVE  Handled(WriteMore(w, late))
<1>1. w \in World BY Zenon DEF Handled
<1>2. CASE w.c.state = "WRITE"
  <2>1. PICK z : z = lwip_netconn_do_writemore(w, late, FALSE, FALSE) BY Zenon
  <2>2. SameCall(w, z) \/ Done(w, z) BY <1>1, <2>1, WriteMoreFacts, Zenon
  <2>3. Handled(z) BY <1>2, <2>2, SameHandled, DoneHandled, Zenon
  <2> QED BY <1>2, <2>1, <2>3, Zenon DEF WriteMore
<1>3. CASE w.c.state # "WRITE" BY <1>3, Zenon DEF WriteMore
<1> QED BY <1>2, <1>3

\* A report of space for writing keeps the state between two handlers.
LEMMA SpaceHandled ==
  ASSUME NEW w, Handled(w)
  PROVE  Handled(WriteSpace(w))
BY WriteSpaceFacts, SameHandled, Zenon DEF Handled

\* Between two handlers the invariant is Handled.
LEMMA NowHandled ==
  ASSUME NcInv, tcpip = Idle
  PROVE  Handled(Now)
BY Zenon DEF NcInv, Handled

\* An acknowledgement arrives: sent_tcp.
LEMMA Step_ack == NcInv /\ Ack => NcInv'
<1> SUFFICES ASSUME NcInv, Ack PROVE NcInv' OBVIOUS
<1>1. PICK late \in BOOLEAN : /\ tcpip = Idle
                              /\ Calm(sent_tcp([Now EXCEPT !.p.space = SND_BUF], late))
  BY Zenon DEF Ack
<1>2. PICK n : n = Now BY Zenon
<1>3. PICK w : w = [n EXCEPT !.p.space = SND_BUF] BY Zenon
<1>4. Handled(n) BY <1>1, <1>2, NowHandled, Zenon
<1>5. SND_BUF \in Int BY NetconnConstants
<1>6. SameCall(n, w) BY <1>3, <1>4, <1>5, Zenon DEF Handled, SameCall, SameConn, World, PcbT
<1>7. Handled(w) BY <1>4, <1>6, SameHandled, Zenon
<1>8. PICK z : z = sent_tcp(w, late) BY Zenon
<1>9. Handled(z)
  <2>1. Handled(WriteSpace(WriteMore(w, late))) BY <1>7, WriteMoreHandled, SpaceHandled, Zenon
  <2> QED BY <1>7, <1>8, <2>1, Zenon DEF sent_tcp
<1>10. Becomes(z) /\ tcpip' = Idle BY <1>1, <1>2, <1>3, <1>8, Zenon DEF Calm
<1> QED BY <1>9, <1>10, Kept, Zenon

\* The end of a control block that calls nobody keeps the state between two handlers.
LEMMA FreedHandled ==
  ASSUME NEW w, Handled(w), NEW z, z = [w EXCEPT !.p = Freed(@)]
  PROVE  /\ Handled(z) /\ z.c = w.c /\ z.a = w.a /\ z.s = w.s /\ z.sem = w.sem
         /\ z.p.state = "FREE"
<1>1. w \in World BY Zenon DEF Handled
<1>2. PICK q : q = Freed(w.p) /\ q \in PcbT /\ q.arg = w.p.arg /\ q.state = "FREE"
  BY <1>1, Parts, FreedFacts, Zenon
<1>3. z = [w EXCEPT !.p = q] BY <1>2, Zenon
<1>4. z \in World /\ z.c = w.c /\ z.a = w.a /\ z.s = w.s /\ z.sem = w.sem /\ z.p = q
  BY <1>1, <1>2, <1>3, Zenon DEF World
<1>5. Good(z) BY <1>2, <1>4, Zenon DEF Good, Handled
<1>6. Counted(z) BY <1>4, Zenon DEF Counted, Handled
<1> QED BY <1>2, <1>4, <1>5, <1>6, Zenon DEF Handled

\* The slow timer: poll_tcp, and the end of TIME_WAIT.
LEMMA Step_slowtmr == NcInv /\ tcp_slowtmr => NcInv'
<1> SUFFICES ASSUME NcInv, tcp_slowtmr PROVE NcInv' OBVIOUS
<1>1. PICK late \in BOOLEAN :
        tcpip = Idle /\ (Calm(poll_tcp(Now, late)) \/ Calm([Now EXCEPT !.p = Freed(@)]))
  BY Zenon DEF tcp_slowtmr
<1>2. PICK n : n = Now /\ Handled(n) BY <1>1, NowHandled, Zenon
<1>3. PICK z : Handled(z) /\ Calm(z)
  <2>1. CASE Calm(poll_tcp(Now, late))
    <3>1. PICK v : v = WriteMore(n, late) /\ Handled(v) BY <1>2, WriteMoreHandled, Zenon
    <3>2. poll_tcp(n, late) = IF v.c.check_writespace THEN WriteSpace(v) ELSE v
      BY <3>1, Zenon DEF poll_tcp
    <3>3. Handled(poll_tcp(n, late)) BY <3>1, <3>2, SpaceHandled, Zenon
    <3> QED BY <1>2, <2>1, <3>3, Zenon
  <2>2. CASE Calm([Now EXCEPT !.p = Freed(@)])
    <3>1. PICK v : v = [n EXCEPT !.p = Freed(@)] BY Zenon
    <3>2. Handled(v) BY <1>2, <3>1, FreedHandled, Zenon
    <3> QED BY <1>2, <2>2, <3>1, <3>2, Zenon
  <2> QED BY <1>1, <2>1, <2>2
<1>4. Becomes(z) /\ tcpip' = Idle BY <1>1, <1>3, Zenon DEF Calm
<1> QED BY <1>3, <1>4, Kept, Zenon

\* The fast timer: refused data is offered again, a pending FIN is sent.
LEMMA Step_fasttmr == NcInv /\ tcp_fasttmr => NcInv'
<1> SUFFICES ASSUME NcInv, tcp_fasttmr PROVE NcInv' OBVIOUS
<1>1. PICK n : n = Now BY Zenon
<1>a. PICK nomem \in BOOLEAN :
        LET w == IF tpcb.closepend
                 THEN [n EXCEPT !.p = tcp_close_shutdown_fin([@ EXCEPT !.closepend = FALSE], nomem)]
                 ELSE n
        IN  tcpip = Idle /\ Calm(tcp_process_refused_data(w))
  BY <1>1, Zenon DEF tcp_fasttmr
<1>2. PICK w :
        /\ w = n \/ w = [n EXCEPT !.p = tcp_close_shutdown_fin([@ EXCEPT !.closepend = FALSE], nomem)]
        /\ tcpip = Idle /\ Calm(tcp_process_refused_data(w))
  BY <1>a, Zenon
<1>3. Handled(n) BY <1>1, <1>2, NowHandled, Zenon
<1>4. n \in World /\ n.p \in PcbT BY <1>3, Parts, Zenon DEF Handled
<1>5. PICK p \in PcbT : /\ p = tcp_close_shutdown_fin([n.p EXCEPT !.closepend = FALSE], nomem)
                        /\ Closing(n.p, p)
  <2>1. PICK q : q = [n.p EXCEPT !.closepend = FALSE] BY Zenon
  <2>2. q \in PcbT /\ q.arg = n.p.arg /\ q.state = n.p.state BY <1>4, <2>1, Zenon DEF PcbT
  <2>3. Closing(q, tcp_close_shutdown_fin(q, nomem)) BY <2>2, FinFacts, Zenon
  <2> QED BY <2>1, <2>2, <2>3, Zenon DEF Closing
<1>6. w = n \/ w = [n EXCEPT !.p = p] BY <1>2, <1>5, Zenon
<1>7. CASE w = n
  <2>1. Handled(tcp_process_refused_data(n)) BY <1>3, <1>4, RefusedFacts, SameHandled, Zenon
  <2> QED BY <1>2, <1>7, <2>1, Kept, Zenon DEF Calm
<1>8. CASE w = [n EXCEPT !.p = p]
  <2>1. w \in World /\ w.c = n.c /\ w.a = n.a /\ w.sem = n.sem /\ w.p = p
    BY <1>4, <1>5, <1>8, Zenon DEF World
  <2>2. n.p.state # "FREE" BY <1>1, Zenon DEF tcp_fasttmr, Active, Now
  <2>3. Good(w) BY <1>3, <1>5, <2>1, <2>2, Zenon DEF Good, Closing, Handled
  <2>4. Counted(w) BY <1>3, <2>1, Zenon DEF Counted, Handled
  <2>5. Handled(tcp_process_refused_data(w))
    BY <2>1, <2>3, <2>4, RefusedFacts, SameHandled, Zenon DEF Handled
  <2> QED BY <1>2, <2>5, Kept, Zenon DEF Calm
<1> QED BY <1>6, <1>7, <1>8

\* The control block dies: a call that waits for the connection is left to the
\* second part of err_tcp.
LEMMA DiesBreaks ==
  ASSUME NcInv, NEW w, Handled(w), w.p.state # "FREE", NEW err \in Errs, Dies(w, err)
  PROVE  NcInv'
<1>1. PICK v : v = [w EXCEPT !.p = Freed(@)] BY Zenon
<1>2. /\ Handled(v) /\ v.c = w.c /\ v.a = w.a /\ v.s = w.s /\ v.sem = w.sem /\ v.p.state = "FREE"
  BY <1>1, FreedHandled, Zenon
<1>3. CASE ~w.p.arg
  <2>1. Becomes(v) /\ tcpip' = Idle BY <1>1, <1>3, Zenon DEF Dies
  <2> QED BY <1>2, <2>1, Kept, Zenon
<1>4. CASE w.p.arg
  <2>1. PICK z : z = [v EXCEPT !.c.pcb = FALSE, !.c.pending_err = err, !.c.mboxclosed = TRUE,
                               !.c.state = "NONE", !.s = SendPlus(RcvPlus(@))]
    BY Zenon
  <2>2. Becomes(z) /\ tcpip' = [old |-> w.c.state, err |-> err]
    BY <1>1, <1>2, <1>4, <2>1, Zenon DEF Dies, err_tcp
  <2>3. v \in World /\ SendPlus(RcvPlus(v.s)) \in SockT BY <1>2, Parts, EventFacts, Zenon DEF Handled
  <2>4. /\ z \in World /\ z.a = v.a /\ z.sem = v.sem /\ z.p = v.p /\ z.c.state = "NONE"
        /\ z.c.pcb = FALSE /\ z.c.current_msg = v.c.current_msg
        /\ z.c.in_nonblocking_connect = v.c.in_nonblocking_connect
    BY <2>1, <2>3, Zenon DEF World, ConnT
  <2>5. Now' = z /\ mode' = mode BY <2>2, <2>4, BecomesFacts, Zenon
  <2>6. w.c.state \in {"NONE", "WRITE", "CONNECT"} BY Zenon DEF Handled, Good
  <2>7. PICK b : b = [old |-> w.c.state, err |-> err] BY Zenon
  <2>8. b.old = w.c.state /\ b # Idle /\ b \in [old : {"NONE", "WRITE", "CONNECT"}, err : Errs]
    BY <2>6, <2>7 DEF Idle
  <2>9. Broken(z, w.c.state) BY <1>2, <1>4, <2>4, <2>6, Zenon DEF Broken, Good, Handled
  <2>10. Counted(z) BY <1>2, <2>4, Zenon DEF Counted, Handled
  <2>11. mode \in Modes BY Zenon DEF NcInv
  <2>12. tcpip' = b BY <2>2, <2>7, Zenon
  <2> QED BY <2>4, <2>5, <2>8, <2>9, <2>10, <2>11, <2>12, Zenon DEF NcInv
<1> QED BY <1>3, <1>4

\* A reset or a timeout ends the control block: the first part of err_tcp.
LEMMA Step_reset == NcInv /\ Reset => NcInv'
<1> SUFFICES ASSUME NcInv, Reset PROVE NcInv' OBVIOUS
<1>1. PICK err \in {"RST", "ABRT"} : tcpip = Idle /\ Active(tpcb) /\ Dies(Now, err) BY Zenon DEF Reset
<1>2. PICK n : n = Now /\ Handled(n) BY <1>1, NowHandled, Zenon
<1>3. n.p.state # "FREE" BY <1>1, <1>2 DEF Active, Now
<1>4. err \in Errs BY Zenon DEF Errs
<1> QED BY <1>1, <1>2, <1>3, <1>4, DiesBreaks, Zenon

\* The state of a control block that does not connect changes.
LEMMA StateHandled ==
  ASSUME NEW w, Handled(w), w.p.state # "FREE", NEW st \in States \ {"SYN_SENT", "FREE"}, NEW z,
         z = [w EXCEPT !.p.state = st]
  PROVE  Handled(z) /\ z.p.state = st
<1>1. w \in World /\ st \in States BY Zenon DEF Handled
<1>2. /\ z \in World /\ z.c = w.c /\ z.a = w.a /\ z.sem = w.sem /\ z.p.state = st
      /\ z.p.arg = w.p.arg
  BY <1>1, Zenon DEF World, PcbT
<1>3. Good(z) BY <1>2, Zenon DEF Good, Handled
<1>4. Counted(z) BY <1>2, Zenon DEF Counted, Handled
<1> QED BY <1>2, <1>3, <1>4, Zenon DEF Handled

\* The acknowledgement of a FIN.
LEMMA Step_ack_fin == NcInv /\ AckFin => NcInv'
<1> SUFFICES ASSUME NcInv, AckFin PROVE NcInv' OBVIOUS
<1>1. tcpip = Idle BY Zenon DEF AckFin
<1>2. PICK n : n = Now /\ Handled(n) BY <1>1, NowHandled, Zenon
<1>3. n.p = tpcb BY <1>2 DEF Now
<1>4. {"FIN_WAIT_2", "TIME_WAIT"} \subseteq States \ {"SYN_SENT", "FREE"} BY DEF States
<1>5. CASE tpcb.state = "FIN_WAIT_1" /\ Calm([Now EXCEPT !.p.state = "FIN_WAIT_2"])
  <2>1. PICK z : z = [n EXCEPT !.p.state = "FIN_WAIT_2"] BY Zenon
  <2>2. n.p.state # "FREE" BY <1>3, <1>5, Zenon
  <2>3. Handled(z) BY <1>2, <1>4, <2>1, <2>2, StateHandled, Zenon
  <2> QED BY <1>1, <1>2, <1>5, <2>1, <2>3, Kept, Zenon DEF Calm
<1>6. CASE tpcb.state = "CLOSING" /\ Calm([Now EXCEPT !.p.state = "TIME_WAIT"])
  <2>1. PICK z : z = [n EXCEPT !.p.state = "TIME_WAIT"] BY Zenon
  <2>2. n.p.state # "FREE" BY <1>3, <1>6, Zenon
  <2>3. Handled(z) BY <1>2, <1>4, <2>1, <2>2, StateHandled, Zenon
  <2> QED BY <1>1, <1>2, <1>6, <2>1, <2>3, Kept, Zenon DEF Calm
<1>7. CASE /\ tpcb.state = "LAST_ACK"
           /\ IF tpcb.rxclosed THEN Calm([Now EXCEPT !.p = Freed(@)]) ELSE Dies(Now, "CLSD")
  <2>1. CASE Calm([Now EXCEPT !.p = Freed(@)])
    <3>1. PICK v : v = [n EXCEPT !.p = Freed(@)] BY Zenon
    <3>2. Handled(v) BY <1>2, <3>1, FreedHandled, Zenon
    <3> QED BY <1>1, <1>2, <2>1, <3>1, <3>2, Kept, Zenon DEF Calm
  <2>2. CASE Dies(Now, "CLSD")
    <3>1. n.p.state # "FREE" /\ "CLSD" \in Errs BY <1>3, <1>7, Zenon DEF Errs
    <3> QED BY <1>2, <2>2, <3>1, DiesBreaks, Zenon
  <2> QED BY <1>7, <2>1, <2>2
<1> QED BY <1>5, <1>6, <1>7, Zenon DEF AckFin

\* The peer accepts the connection: lwip_netconn_do_connected.
LEMMA Step_connected == NcInv /\ Connected => NcInv'
<1> SUFFICES ASSUME NcInv, Connected PROVE NcInv' OBVIOUS
<1>1. /\ tcpip = Idle /\ tpcb.state = "SYN_SENT"
      /\ Calm(lwip_netconn_do_connected([Now EXCEPT !.p.state = "ESTABLISHED"]))
  BY Zenon DEF Connected
<1>2. PICK n : n = Now /\ Handled(n) BY <1>1, NowHandled, Zenon
<1>3. n.p.state = "SYN_SENT" BY <1>1, <1>2 DEF Now
<1>4. PICK w : w = [n EXCEPT !.p.state = "ESTABLISHED"] BY Zenon
<1>5. n \in World /\ Good(n) /\ Counted(n) BY <1>2, Zenon DEF Handled
<1>6. "ESTABLISHED" \in States BY Zenon DEF States
<1>7. /\ w \in World /\ w.c = n.c /\ w.a = n.a /\ w.s = n.s /\ w.sem = n.sem /\ w.p.state = "ESTABLISHED"
  BY <1>4, <1>5, <1>6, Zenon DEF World, PcbT
<1>8. n.c.state = "CONNECT" /\ n.c.pcb /\ (n.c.current_msg <=> ~n.c.in_nonblocking_connect)
  BY <1>3, <1>5, Zenon DEF Good
<1>9. PICK u : u = setup_tcp(w) BY Zenon
<1>10. /\ u \in World /\ u.c = w.c /\ u.a = w.a /\ u.s = w.s /\ u.sem = w.sem /\ u.p.state = "ESTABLISHED"
  BY <1>7, <1>9, Zenon DEF setup_tcp, World, PcbT
<1>11. PICK v : v = [u EXCEPT !.c.in_nonblocking_connect = FALSE, !.c.state = "NONE",
                              !.c.current_msg = FALSE, !.s = SendPlus(@)]
  BY Zenon
<1>12. SendPlus(u.s) \in SockT BY <1>10, Parts, EventFacts, Zenon
<1>13. /\ v \in World /\ v.a = n.a /\ v.sem = n.sem /\ v.p.state = "ESTABLISHED"
       /\ v.c.in_nonblocking_connect = FALSE /\ v.c.state = "NONE" /\ v.c.current_msg = FALSE
       /\ v.c.pcb = n.c.pcb
  BY <1>7, <1>10, <1>11, <1>12, Zenon DEF World, ConnT
<1>14. Good(v) BY <1>8, <1>13, Zenon DEF Good
<1>15. PICK z : z = IF w.c.in_nonblocking_connect THEN v ELSE TCPIP_APIMSG_ACK(v, "OK") BY Zenon
<1>16. Becomes(z) /\ tcpip' = Idle
  BY <1>1, <1>2, <1>4, <1>9, <1>11, <1>15, Zenon DEF Calm, lwip_netconn_do_connected
<1>17. n.sem \in Nat /\ n.a.posted \in BOOLEAN BY <1>5, Parts, Fields, Zenon
<1>18. Handled(z)
  <2>1. CASE n.c.in_nonblocking_connect
    <3>1. z = v BY <1>7, <1>15, <2>1, Zenon
    <3>2. ~n.c.current_msg BY <1>8, <2>1, Zenon
    <3>3. Counted(v) BY <1>5, <1>13, <1>17, <3>2 DEF Counted, One
    <3> QED BY <1>13, <1>14, <3>1, <3>3, Zenon DEF Handled
  <2>2. CASE ~n.c.in_nonblocking_connect
    <3>1. "OK" \in Errs BY Zenon DEF Errs
    <3>2. Acked(v, z) BY <1>7, <1>13, <1>15, <2>2, <3>1, AckFacts, Zenon
    <3>3. n.c.current_msg BY <1>8, <2>2, Zenon
    <3>4. /\ z \in World /\ z.c = v.c /\ z.p = v.p /\ z.sem = n.sem + 1 /\ z.a.pc = n.a.pc
          /\ z.a.posted = n.a.posted /\ z.a.op = n.a.op /\ z.c.current_msg = FALSE
      BY <1>13, <3>2, Zenon DEF Acked
    <3>5. Counted(z) BY <1>5, <1>17, <3>3, <3>4 DEF Counted, One
    <3>6. Good(z) BY <1>14, <3>4, Zenon DEF Good
    <3> QED BY <3>4, <3>5, <3>6, Zenon DEF Handled
  <2> QED BY <2>1, <2>2
<1> QED BY <1>16, <1>18, Kept, Zenon

\* A segment arrives: recv_tcp, and what follows from its FIN.
LEMMA Step_segment == NcInv /\ Segment => NcInv'
<1> SUFFICES ASSUME NcInv, Segment PROVE NcInv' OBVIOUS
<1>1. tcpip = Idle /\ tpcb.state \in {"ESTABLISHED", "FIN_WAIT_1", "FIN_WAIT_2"} BY Zenon DEF Segment
<1>2. PICK n : n = Now /\ Handled(n) BY <1>1, NowHandled, Zenon
<1>3. n.p.state \in {"ESTABLISHED", "FIN_WAIT_1", "FIN_WAIT_2"} BY <1>1, <1>2 DEF Now
<1>4. PICK w : w = tcp_process_refused_data(n) BY Zenon
<1>5. PICK data, fin, v :
        /\ data \in BOOLEAN /\ fin \in BOOLEAN
        /\ v = IF fin THEN [w EXCEPT !.p.state = AfterFin(@)] ELSE w
        /\ \/ Calm(w)
           \/ Dies(w, "ABRT")
           \/ Calm(IF data THEN Delivered(v, fin) ELSE recv_tcp(v, "CLSD"))
  BY <1>2, <1>4, Zenon DEF Segment
<1> data \in BOOLEAN /\ fin \in BOOLEAN BY <1>5, Zenon
<1>6. SameCall(n, w) BY <1>2, <1>4, RefusedFacts, Zenon DEF Handled
<1>7. Handled(w) /\ w.p.state = n.p.state BY <1>2, <1>6, SameHandled, Zenon DEF SameCall, SameConn
<1>8. w.p.state # "FREE" BY <1>3, <1>7
<1>9. PICK st : st = AfterFin(w.p.state) BY Zenon
<1>10. st \in {"CLOSE_WAIT", "CLOSING", "TIME_WAIT"} BY <1>3, <1>7, <1>9 DEF AfterFin
<1>11. st \in States \ {"SYN_SENT", "FREE"} BY <1>10 DEF States
<1>12. Handled(v)
  <2>1. CASE fin
    <3>1. v = [w EXCEPT !.p.state = st] BY <1>5, <1>9, <2>1, Zenon
    <3> QED BY <1>7, <1>8, <1>11, <3>1, StateHandled, Zenon
  <2>2. CASE ~fin BY <1>5, <1>7, <2>2, Zenon
  <2> QED BY <2>1, <2>2
<1>13. CASE Calm(w) BY <1>1, <1>7, <1>13, Kept, Zenon DEF Calm
<1>14. CASE Dies(w, "ABRT")
  <2>1. "ABRT" \in Errs BY Zenon DEF Errs
  <2> QED BY <1>7, <1>8, <1>14, <2>1, DiesBreaks, Zenon
<1>15. CASE Calm(IF data THEN Delivered(v, fin) ELSE recv_tcp(v, "CLSD"))
  <2>1. v \in World BY <1>12, Zenon DEF Handled
  <2>2. SameCall(v, Delivered(v, fin)) /\ SameCall(v, recv_tcp(v, "CLSD"))
    BY <2>1, DeliveredFacts, RecvFacts, Zenon
  <2>3. PICK z : z = IF data THEN Delivered(v, fin) ELSE recv_tcp(v, "CLSD") BY Zenon
  <2>4. Handled(z) BY <1>12, <2>2, <2>3, SameHandled, Zenon
  <2> QED BY <1>1, <1>15, <2>3, <2>4, Kept, Zenon DEF Calm
<1> QED BY <1>5, <1>13, <1>14, <1>15

\* The second part of err_tcp: the messages, and the completion of a call that waits.
LEMMA Step_err_messages == NcInv /\ err_tcp_messages => NcInv'
<1> SUFFICES ASSUME NcInv, err_tcp_messages PROVE NcInv' OBVIOUS
<1>1. tcpip # Idle /\ tcpip' = Idle BY Zenon DEF err_tcp_messages
<1>2. PICK n : n = Now BY Zenon
<1>3. n \in World /\ Broken(n, tcpip.old) /\ Counted(n) BY <1>1, <1>2, Zenon DEF NcInv
<1>4. tcpip \in [old : {"NONE", "WRITE", "CONNECT"}, err : Errs] BY <1>1, Zenon DEF NcInv
<1>5. PICK old, err : old = tcpip.old /\ err = tcpip.err BY Zenon
<1> err \in Errs BY <1>4, <1>5, Zenon
<1>6. old \in {"NONE", "WRITE", "CONNECT"} BY <1>4, <1>5, Zenon
<1>7. n.c = conn BY <1>2 DEF Now
<1>8. PICK q : q = Append(n.c.recvmbox, err) BY Zenon
<1>9. PICK w, v :
        /\ w = IF conn.valid /\ Len(conn.recvmbox) < RECVMBOX_SIZE
               THEN [n EXCEPT !.c.recvmbox = q] ELSE n
        /\ v = [w EXCEPT !.c.in_nonblocking_connect = FALSE]
        /\ Becomes(IF old \notin {"WRITE", "CLOSE", "CONNECT"} THEN w
                   ELSE IF conn.in_nonblocking_connect THEN v
                   ELSE TCPIP_APIMSG_ACK([v EXCEPT !.c.current_msg = FALSE],
                                         IF old = "CLOSE" THEN "OK" ELSE err))
  BY <1>2, <1>5, <1>8, Zenon DEF err_tcp_messages
<1>10. q \in Seq(Errs \cup {"data"})
  <2>1. n.c.recvmbox \in Seq(Errs \cup {"data"}) BY <1>3, Fields, Zenon
  <2> QED BY <1>8, <2>1
<1>11. SameCall(n, w)
  <2>1. SameCall(n, [n EXCEPT !.c.recvmbox = q])
    BY <1>3, <1>10, Zenon DEF SameCall, SameConn, World, ConnT
  <2> QED BY <1>3, <1>9, <2>1, SameSelf, Zenon
<1>12. w \in World /\ Counted(w) /\ Broken(w, old)
  <2>1. SameConn(n, w) /\ w \in World BY <1>11, Zenon DEF SameCall, SameConn
  <2>2. Broken(w, old) BY <1>3, <1>5, <2>1, GoodFrame, Zenon
  <2>3. Counted(w) BY <1>3, <1>11, Zenon DEF Counted, SameCall, SameConn
  <2> QED BY <2>1, <2>2, <2>3
<1>13. n.c.in_nonblocking_connect = w.c.in_nonblocking_connect BY <1>11, Zenon DEF SameCall, SameConn
<1>14. /\ v \in World /\ v.a = w.a /\ v.sem = w.sem /\ v.p = w.p /\ v.c.state = w.c.state
       /\ v.c.pcb = w.c.pcb /\ v.c.current_msg = w.c.current_msg /\ v.c.in_nonblocking_connect = FALSE
  BY <1>9, <1>12, Zenon DEF World, ConnT
<1>15. CASE old = "NONE"
  <2>1. Becomes(w) BY <1>9, <1>15
  <2>2. Good(w) BY <1>12, <1>15, Zenon DEF Good, Broken
  <2> QED BY <1>1, <1>12, <2>1, <2>2, Kept, Zenon DEF Handled
<1>16. CASE old \in {"WRITE", "CONNECT"} /\ n.c.in_nonblocking_connect
  <2>1. Becomes(v) BY <1>7, <1>9, <1>16, Zenon
  <2>2. ~w.c.current_msg BY <1>12, <1>13, <1>16, Zenon DEF Broken
  <2>3. Good(v) BY <1>12, <1>14, <2>2, Zenon DEF Good, Broken
  <2>4. Counted(v) BY <1>12, <1>14, Zenon DEF Counted
  <2> QED BY <1>1, <1>14, <2>1, <2>3, <2>4, Kept, Zenon DEF Handled
<1>17. CASE old \in {"WRITE", "CONNECT"} /\ ~n.c.in_nonblocking_connect
  <2>1. PICK u : u = [v EXCEPT !.c.current_msg = FALSE] BY Zenon
  <2>2. PICK z : z = TCPIP_APIMSG_ACK(u, err) BY Zenon
  <2>3. old # "CLOSE" BY <1>6
  <2>4. Becomes(z) BY <1>7, <1>9, <1>17, <2>1, <2>2, <2>3, Zenon
  <2>5. w.c.current_msg BY <1>12, <1>13, <1>17, Zenon DEF Broken
  <2>6. /\ u \in World /\ u.a = w.a /\ u.sem = w.sem /\ u.p = w.p /\ u.c.state = w.c.state
        /\ u.c.pcb = w.c.pcb /\ u.c.current_msg = FALSE /\ u.c.in_nonblocking_connect = FALSE
    BY <1>14, <2>1, Zenon DEF World, ConnT
  <2>7. Acked(u, z) BY <2>2, <2>6, AckFacts, Zenon
  <2>8. /\ z \in World /\ z.c = u.c /\ z.p = u.p /\ z.sem = w.sem + 1 /\ z.a.pc = w.a.pc
        /\ z.a.posted = w.a.posted /\ z.a.op = w.a.op /\ z.c.current_msg = FALSE
    BY <2>6, <2>7, Zenon DEF Acked
  <2>9. w.sem \in Nat /\ w.a.posted \in BOOLEAN BY <1>12, Parts, Fields, Zenon
  <2>10. Counted(z) BY <1>12, <2>5, <2>8, <2>9 DEF Counted, One
  <2>11. Good(z) BY <1>12, <2>6, <2>8, Zenon DEF Good, Broken
  <2> QED BY <1>1, <2>4, <2>8, <2>10, <2>11, Kept, Zenon DEF Handled
<1> QED BY <1>6, <1>15, <1>16, <1>17

-----------------------------------------------------------------------------
\* The application thread waits for the answer to a message it has just posted, or
\* for nothing of the core.
Asking(a) ==
  \/ a.pc = "sem" /\ a.posted = TRUE /\ a.op # "none"
  \/ a.pc # "sem" /\ a.posted = FALSE
Moved(w, z) == SameConn(w, z) /\ z.sem = w.sem /\ Asking(z.a)

\* Outside a wait for the core nothing is on its way.
LEMMA Quiet ==
  ASSUME NcInv, app.pc # "sem", NEW n, n = Now
  PROVE  n \in World /\ n.a.posted = FALSE /\ n.c.current_msg = FALSE /\ n.sem = 0 /\ n.a.pc = app.pc
<1>1. n \in World /\ Counted(n) BY Zenon DEF NcInv
<1>2. n.sem \in Nat /\ n.a.posted \in BOOLEAN /\ n.c.current_msg \in BOOLEAN
  BY <1>1, Parts, Fields, Zenon
<1>3. n.a.pc = app.pc BY DEF Now
<1> QED BY <1>1, <1>2, <1>3 DEF Counted, One

\* A step of the thread that keeps the count right and leaves the connection alone.
LEMMA AppKept ==
  ASSUME NcInv, NEW n, n = Now, NEW z, SameConn(n, z), Counted(z), Becomes(z), tcpip' = tcpip
  PROVE  NcInv'
<1>1. z \in World BY Zenon DEF SameConn
<1>2. Now' = z /\ mode' = mode BY <1>1, BecomesFacts, Zenon
<1>3. tcpip = Idle => Good(z) BY GoodFrame, Zenon DEF NcInv
<1>4. tcpip # Idle => Broken(z, tcpip.old) BY GoodFrame, Zenon DEF NcInv
<1> QED BY <1>1, <1>2, <1>3, <1>4, Zenon DEF NcInv

\* A step of a thread that waits for nothing, and leaves the connection alone.
LEMMA MovedKept ==
  ASSUME NcInv, app.pc # "sem", NEW n, n = Now, NEW z, Moved(n, z), Becomes(z), tcpip' = tcpip
  PROVE  NcInv'
<1>1. n.c.current_msg = FALSE /\ n.sem = 0 BY Quiet, Zenon
<1>2. z.c.current_msg = FALSE /\ z.sem = 0 BY <1>1, Zenon DEF Moved, SameConn
<1>3. Counted(z) BY <1>2 DEF Counted, One, Moved, Asking
<1> QED BY <1>3, AppKept, Zenon DEF Moved

\* A thread whose call returns waits for nothing and has posted nothing.
LEMMA ReturnsFacts ==
  ASSUME NEW a \in AppT
  PROVE  Returns(a) \in AppT /\ Asking(Returns(a))
<1>1. Thread \in AppT BY DEF Thread, AppT, Ops, Errs
<1>2. Thread.pc = "idle" /\ Thread.posted = FALSE BY DEF Thread
<1>3. a.calls \in Int /\ a.shut \in BOOLEAN BY Zenon DEF AppT
<1>4. PICK z : z = [Thread EXCEPT !.calls = a.calls, !.shut = a.shut] BY Zenon
<1>5. z \in AppT /\ z.pc = "idle" /\ z.posted = FALSE BY <1>1, <1>2, <1>3, <1>4, Zenon DEF AppT
<1>6. Returns(a) = z BY <1>4, Zenon DEF Returns
<1> QED BY <1>5, <1>6 DEF Asking

\* A thread that has received enough moves on,
LEMMA RecvDoneFacts ==
  ASSUME NEW w \in World
  PROVE  Moved(w, RecvDone(w))
<1>1. w.a \in AppT BY Parts, Zenon
<1>2. Moved(w, [w EXCEPT !.a.pc = "sem", !.a.op = "recv", !.a.posted = TRUE])
  <2>1. PICK z : z = [w EXCEPT !.a.pc = "sem", !.a.op = "recv", !.a.posted = TRUE] BY Zenon
  <2>2. "recv" \in Ops BY Zenon DEF Ops
  <2>3. /\ z \in World /\ z.c = w.c /\ z.p = w.p /\ z.sem = w.sem
        /\ z.a.pc = "sem" /\ z.a.op = "recv" /\ z.a.posted = TRUE
    BY <2>1, <2>2, Zenon DEF World, AppT
  <2> QED BY <2>1, <2>3, Zenon DEF Moved, SameConn, Asking
<1>3. Moved(w, [w EXCEPT !.a = Returns(@)])
  <2>1. PICK a : a = Returns(w.a) /\ a \in AppT /\ Asking(a) BY <1>1, ReturnsFacts, Zenon
  <2>2. PICK z : z = [w EXCEPT !.a = a] BY Zenon
  <2>3. z \in World /\ z.c = w.c /\ z.p = w.p /\ z.sem = w.sem /\ z.a = a BY <2>1, <2>2, Zenon DEF World
  <2>4. z = [w EXCEPT !.a = Returns(@)] BY <2>1, <2>2, Zenon
  <2> QED BY <2>1, <2>3, <2>4, Zenon DEF Moved, SameConn
<1> QED BY <1>2, <1>3, Zenon DEF RecvDone

\* also after a change that leaves the connection alone,
LEMMA MovedVia ==
  ASSUME NEW n, NEW w, NEW z, SameConn(n, w), w.sem = n.sem, Moved(w, z)
  PROVE  Moved(n, z)
BY Zenon DEF Moved, SameConn

\* or goes to another point of netconn_recv_data,
LEMMA PcFacts ==
  ASSUME NEW w \in World, w.a.posted = FALSE, NEW pc \in {"recv", "fetch", "minus", "fin"}
  PROVE  Moved(w, [w EXCEPT !.a.pc = pc])
<1>1. PICK z : z = [w EXCEPT !.a.pc = pc] BY Zenon
<1>2. pc \in {"idle", "sem", "recv", "fetch", "minus", "fin", "closed"} /\ pc # "sem" OBVIOUS
<1>3. /\ z \in World /\ z.c = w.c /\ z.p = w.p /\ z.sem = w.sem /\ z.a.pc = pc /\ z.a.posted = FALSE
  BY <1>1, <1>2, Zenon DEF World, AppT
<1> QED BY <1>1, <1>2, <1>3, Zenon DEF Moved, SameConn, Asking

\* or takes the next message of the mailbox.
LEMMA FetchFacts ==
  ASSUME NEW w \in World, w.a.posted = FALSE, w.c.recvmbox # <<>>
  PROVE  Moved(w, Fetch(w))
<1>1. PICK q : q = Tail(w.c.recvmbox) BY Zenon
<1>2. q \in Seq(Errs \cup {"data"})
  <2>1. w.c.recvmbox \in Seq(Errs \cup {"data"}) BY Fields, Zenon
  <2> QED BY <1>1, <2>1
<1>3. PICK u : u = [w EXCEPT !.c.recvmbox = q] BY Zenon
<1>4. u \in World /\ SameConn(w, u) /\ u.sem = w.sem /\ u.a = w.a
  BY <1>2, <1>3, Zenon DEF SameConn, World, ConnT
<1>5. PICK msg : msg = Head(w.c.recvmbox) BY Zenon
<1>6. Fetch(w) = Fetched(u, msg) BY <1>1, <1>3, <1>5, Zenon DEF Fetch
<1>7. Moved(u, [u EXCEPT !.a.pc = "minus"]) /\ Moved(u, [u EXCEPT !.a.pc = "fin"])
  BY <1>4, PcFacts, Zenon
<1>8. Moved(u, RecvDone(u)) BY <1>4, RecvDoneFacts, Zenon
<1>9. Moved(u, RecvDone([u EXCEPT !.c.fin_rx_pending = TRUE]))
  <2>1. PICK v : v = [u EXCEPT !.c.fin_rx_pending = TRUE] BY Zenon
  <2>2. v \in World /\ SameConn(u, v) /\ v.sem = u.sem BY <1>4, <2>1, Zenon DEF SameConn, World, ConnT
  <2>3. Moved(v, RecvDone(v)) BY <2>2, RecvDoneFacts, Zenon
  <2> QED BY <2>1, <2>2, <2>3, MovedVia, Zenon
<1>10. Moved(u, Fetched(u, msg))
  <2>1. CASE msg = "data"
    <3>1. Fetched(u, msg) = [u EXCEPT !.a.pc = "minus"] BY <2>1 DEF Fetched
    <3> QED BY <1>7, <3>1, Zenon
  <2>2. CASE msg = "CLSD"
    <3>1. Fetched(u, msg) = IF u.a.got > 0 THEN RecvDone([u EXCEPT !.c.fin_rx_pending = TRUE])
                            ELSE [u EXCEPT !.a.pc = "fin"]
      BY <2>2 DEF Fetched
    <3> QED BY <1>7, <1>9, <3>1, Zenon
  <2>3. CASE msg \notin {"data", "CLSD"}
    <3>1. Fetched(u, msg) = RecvDone(u) BY <2>3 DEF Fetched
    <3> QED BY <1>8, <3>1, Zenon
  <2> QED BY <2>1, <2>2, <2>3
<1> QED BY <1>4, <1>6, <1>10, MovedVia, Zenon

\* netconn_err takes pending_err and leaves the rest.
LEMMA ErrFacts ==
  ASSUME NEW w \in World, NEW v, v = [w EXCEPT !.c = netconn_err(@)]
  PROVE  v \in World /\ SameConn(w, v) /\ v.sem = w.sem /\ v.a = w.a /\ v.s = w.s
<1>1. "OK" \in Errs BY Zenon DEF Errs
<1> QED BY <1>1, Zenon DEF netconn_err, SameConn, World, ConnT

\* The points of netconn_recv_data: the checks before the mailbox,
LEMMA Step_recv_data == NcInv /\ netconn_recv_data_tcp => NcInv'
<1> SUFFICES ASSUME NcInv, netconn_recv_data_tcp PROVE NcInv' OBVIOUS
<1>1. app.pc # "sem" /\ tcpip' = tcpip BY DEF netconn_recv_data_tcp
<1>2. PICK n : n = Now BY Zenon
<1>3. n \in World /\ n.a.posted = FALSE BY <1>1, <1>2, Quiet, Zenon
<1>4. n.c.recvmbox = conn.recvmbox BY <1>2 DEF Now
<1>5. PICK v : v = [n EXCEPT !.c = netconn_err(@)] BY Zenon
<1>6. PICK u : u = [n EXCEPT !.c.fin_rx_pending = FALSE, !.a.pc = "fin"] BY Zenon
<1>7. PICK z : /\ \/ z = RecvDone(n)
                  \/ z = u
                  \/ z = [n EXCEPT !.a.pc = "fetch"]
                  \/ conn.recvmbox # <<>> /\ z = Fetch(n)
                  \/ z = RecvDone(v)
               /\ Becomes(z)
  BY <1>2, <1>5, <1>6, Zenon DEF netconn_recv_data_tcp
<1>8. Moved(n, RecvDone(n)) BY <1>3, RecvDoneFacts, Zenon
<1>9. Moved(n, u)
  <2>1. /\ u \in World /\ SameConn(n, u) /\ u.sem = n.sem /\ u.a.pc = "fin" /\ u.a.posted = FALSE
    BY <1>3, <1>6, Zenon DEF SameConn, World, ConnT, AppT
  <2> QED BY <2>1 DEF Moved, Asking
<1>10. Moved(n, [n EXCEPT !.a.pc = "fetch"]) BY <1>3, PcFacts, Zenon
<1>11. conn.recvmbox # <<>> => Moved(n, Fetch(n)) BY <1>3, <1>4, FetchFacts, Zenon
<1>12. Moved(n, RecvDone(v))
  <2>1. v \in World /\ SameConn(n, v) /\ v.sem = n.sem BY <1>3, <1>5, ErrFacts, Zenon
  <2> QED BY <2>1, RecvDoneFacts, MovedVia, Zenon
<1>13. Moved(n, z) BY <1>7, <1>8, <1>9, <1>10, <1>11, <1>12, Zenon
<1> QED BY <1>1, <1>2, <1>7, <1>13, MovedKept, Zenon

\* the wait for a message,
LEMMA Step_mbox_fetch == NcInv /\ sys_arch_mbox_fetch => NcInv'
<1> SUFFICES ASSUME NcInv, sys_arch_mbox_fetch PROVE NcInv' OBVIOUS
<1>1. app.pc # "sem" /\ tcpip' = tcpip BY DEF sys_arch_mbox_fetch
<1>2. PICK n : n = Now BY Zenon
<1>3. n \in World /\ n.a.posted = FALSE BY <1>1, <1>2, Quiet, Zenon
<1>4. n.c.recvmbox = conn.recvmbox BY <1>2 DEF Now
<1>5. PICK z : /\ (conn.recvmbox # <<>> /\ z = Fetch(n)) \/ z = RecvDone(n)
               /\ Becomes(z)
  BY <1>2, Zenon DEF sys_arch_mbox_fetch
<1>6. Moved(n, z) BY <1>3, <1>4, <1>5, FetchFacts, RecvDoneFacts, Zenon
<1> QED BY <1>1, <1>2, <1>5, <1>6, MovedKept, Zenon

\* the event that reports it as taken,
LEMMA Step_recv_minus == NcInv /\ RecvData => NcInv'
<1> SUFFICES ASSUME NcInv, RecvData PROVE NcInv' OBVIOUS
<1>1. app.pc # "sem" /\ tcpip' = tcpip BY DEF RecvData
<1>2. PICK n : n = Now BY Zenon
<1>3. n \in World /\ n.a.posted = FALSE BY <1>1, <1>2, Quiet, Zenon
<1>4. PICK w : w = [n EXCEPT !.s = RcvMinus(@), !.a.got = @ + 1, !.a.left = @ - 1] BY Zenon
<1>5. PICK z : (z = RecvDone(w) \/ z = [w EXCEPT !.a.pc = "recv"]) /\ Becomes(z)
  BY <1>2, <1>4, Zenon DEF RecvData
<1>6. n.a.got + 1 \in Int /\ n.a.left - 1 \in Int
  <2>1. n.a.got \in Int /\ n.a.left \in Int BY <1>3, Fields, Zenon
  <2> QED BY <2>1
<1>7. RcvMinus(n.s) \in SockT BY <1>3, Parts, EventFacts, Zenon
<1>8. w \in World /\ SameConn(n, w) /\ w.sem = n.sem /\ w.a.posted = FALSE
  BY <1>3, <1>4, <1>6, <1>7, Zenon DEF SameConn, World, AppT
<1>9. Moved(w, z) BY <1>5, <1>8, RecvDoneFacts, PcFacts, Zenon
<1>10. Moved(n, z) BY <1>8, <1>9, MovedVia, Zenon
<1> QED BY <1>1, <1>2, <1>5, <1>10, MovedKept, Zenon

\* the end of the connection.
LEMMA Step_handle_fin == NcInv /\ HandleFin => NcInv'
<1> SUFFICES ASSUME NcInv, HandleFin PROVE NcInv' OBVIOUS
<1>1. app.pc # "sem" /\ tcpip' = tcpip BY DEF HandleFin
<1>2. PICK n : n = Now BY Zenon
<1>3. n \in World BY <1>1, <1>2, Quiet, Zenon
<1>4. PICK w : w = [n EXCEPT !.s = RcvMinus(@)] BY Zenon
<1>5. PICK z : /\ \/ z = [w EXCEPT !.a.pc = "sem", !.a.op = "fin", !.a.posted = TRUE]
                  \/ z = [w EXCEPT !.c = netconn_err(@), !.a = Returns(@)]
               /\ Becomes(z)
  BY <1>2, <1>4, Zenon DEF HandleFin
<1>6. RcvMinus(n.s) \in SockT BY <1>3, Parts, EventFacts, Zenon
<1>7. w \in World /\ SameConn(n, w) /\ w.sem = n.sem BY <1>3, <1>4, <1>6, Zenon DEF SameConn, World
<1>8. Moved(w, z)
  <2>1. CASE z = [w EXCEPT !.a.pc = "sem", !.a.op = "fin", !.a.posted = TRUE]
    <3>1. "fin" \in Ops BY Zenon DEF Ops
    <3>2. /\ z \in World /\ z.c = w.c /\ z.p = w.p /\ z.sem = w.sem
          /\ z.a.pc = "sem" /\ z.a.op = "fin" /\ z.a.posted = TRUE
      BY <1>7, <2>1, <3>1, Zenon DEF World, AppT
    <3> QED BY <3>2, Zenon DEF Moved, SameConn, Asking
  <2>2. CASE z = [w EXCEPT !.c = netconn_err(@), !.a = Returns(@)]
    <3>1. PICK v : v = [w EXCEPT !.c = netconn_err(@)] BY Zenon
    <3>2. v \in World /\ SameConn(w, v) /\ v.sem = w.sem /\ v.a = w.a BY <1>7, <3>1, ErrFacts, Zenon
    <3>3. PICK a : a = Returns(w.a) /\ a \in AppT /\ Asking(a) BY <1>7, Parts, ReturnsFacts, Zenon
    <3>4. z = [v EXCEPT !.a = a] BY <1>7, <2>2, <3>1, <3>2, <3>3, Zenon DEF World
    <3>5. z \in World /\ z.c = v.c /\ z.p = v.p /\ z.sem = v.sem /\ z.a = a
      BY <3>2, <3>3, <3>4, Zenon DEF World
    <3> QED BY <3>2, <3>3, <3>5, Zenon DEF Moved, SameConn
  <2> QED BY <1>5, <2>1, <2>2
<1>9. Moved(n, z) BY <1>7, <1>8, MovedVia, Zenon
<1> QED BY <1>1, <1>2, <1>5, <1>9, MovedKept, Zenon

\* A step that changes only the thread and the semaphore.
LEMMA ThreadBecomes ==
  ASSUME NcInv, NEW n, n = Now, app' \in AppT, op_completed' \in Nat,
         UNCHANGED <<conn, tpcb, sock, mode>>
  PROVE  \E z : /\ SameConn(n, z) /\ z.a = app' /\ z.sem = op_completed' /\ z.c = n.c
                /\ Becomes(z)
<1>1. PICK a, m : a = app' /\ m = op_completed' BY Zenon
<1>2. n \in World BY Zenon DEF NcInv
<1>3. PICK z : z = [n EXCEPT !.a = a, !.sem = m] BY Zenon
<1>4. z \in World /\ z.c = n.c /\ z.p = n.p /\ z.s = n.s /\ z.a = a /\ z.sem = m
  BY <1>1, <1>2, <1>3, Zenon DEF World
<1>5. n.c = conn /\ n.p = tpcb /\ n.s = sock BY DEF Now
<1>6. Becomes(z) BY <1>1, <1>4, <1>5, Zenon DEF Becomes
<1> QED BY <1>1, <1>4, <1>6, Zenon DEF SameConn

\* The thread and its semaphore are parts of the world.
LEMMA NowParts == NcInv => app \in AppT /\ op_completed \in Nat /\ Now.a = app /\ Now.sem = op_completed
<1> HAVE NcInv
<1>1. PICK n : n = Now /\ n \in World BY Zenon DEF NcInv
<1>2. n.a = app /\ n.sem = op_completed BY <1>1 DEF Now
<1> QED BY <1>1, <1>2, Parts, Zenon

\* The application calls connect, write, shutdown or close: a message is posted.
LEMMA Step_call ==
  ASSUME NcInv, NEW op \in Ops \ {"none"}, Call(op)
  PROVE  NcInv'
<1>1. app.pc # "sem" /\ UNCHANGED <<conn, tpcb, sock, op_completed, tcpip, mode>> BY DEF Call
<1>2. PICK b \in BOOLEAN : app' = [app EXCEPT !.pc = "sem", !.op = op, !.posted = TRUE, !.calls = @ + 1,
                                               !.shut = b]
  <2>1. PICK b : b = (app.shut \/ (op \in DOMAIN Shutdown /\ "WR" \in Shutdown[op])) BY Zenon
  <2>2. b \in BOOLEAN BY <2>1, Zenon
  <2> QED BY <2>1, <2>2, Zenon DEF Call
<1>3. app \in AppT /\ op_completed \in Nat BY NowParts, Zenon
<1>4. app.calls + 1 \in Int
  <2>1. app.calls \in Int BY <1>3, Zenon DEF AppT
  <2> QED BY <2>1
<1>5. op \in Ops /\ op # "none" BY Zenon
<1>6. app' \in AppT /\ app'.pc = "sem" /\ app'.op = op /\ app'.posted = TRUE
  BY <1>2, <1>3, <1>4, <1>5, Zenon DEF AppT
<1>7. PICK n : n = Now BY Zenon
<1>8. PICK z : SameConn(n, z) /\ z.a = app' /\ z.sem = op_completed' /\ Becomes(z)
  BY <1>1, <1>3, <1>6, <1>7, ThreadBecomes, Zenon
<1>9. n.sem = op_completed BY <1>7, NowParts, Zenon
<1>10. Moved(n, z) BY <1>1, <1>5, <1>6, <1>8, <1>9, Zenon DEF Moved, Asking
<1> QED BY <1>1, <1>7, <1>8, <1>10, MovedKept, Zenon

\* The application calls recv.
LEMMA Step_recv == NcInv /\ lwip_recv => NcInv'
<1> SUFFICES ASSUME NcInv, lwip_recv PROVE NcInv' OBVIOUS
<1>1. app.pc # "sem" /\ UNCHANGED <<conn, tpcb, sock, op_completed, tcpip, mode>> BY DEF lwip_recv
<1>2. PICK len \in 1 .. 2 : app' = [app EXCEPT !.pc = "recv", !.left = len, !.calls = @ + 1]
  BY Zenon DEF lwip_recv
<1>3. app \in AppT /\ op_completed \in Nat BY NowParts, Zenon
<1>4. app.calls + 1 \in Int /\ len \in Int
  <2>1. app.calls \in Int BY <1>3, Zenon DEF AppT
  <2> QED BY <2>1
<1>5. PICK n : n = Now BY Zenon
<1>6. app.posted = FALSE /\ n.sem = op_completed
  <2>1. n.a.posted = FALSE BY <1>1, <1>5, Quiet, Zenon
  <2> QED BY <1>5, <2>1, NowParts, Zenon
<1>7. app' \in AppT /\ app'.pc = "recv" /\ app'.posted = FALSE
  BY <1>2, <1>3, <1>4, <1>6, Zenon DEF AppT
<1>8. PICK z : SameConn(n, z) /\ z.a = app' /\ z.sem = op_completed' /\ Becomes(z)
  BY <1>1, <1>3, <1>5, <1>7, ThreadBecomes, Zenon
<1>9. Moved(n, z) BY <1>1, <1>6, <1>7, <1>8 DEF Moved, Asking
<1> QED BY <1>1, <1>5, <1>8, <1>9, MovedKept, Zenon

\* The semaphore ends the wait of the thread for its call.
LEMMA Step_sem_wait == NcInv /\ sys_arch_sem_wait => NcInv'
<1> SUFFICES ASSUME NcInv, sys_arch_sem_wait PROVE NcInv' OBVIOUS
<1>1. /\ app.pc = "sem" /\ op_completed > 0 /\ op_completed' = op_completed - 1
      /\ UNCHANGED <<conn, tpcb, sock, tcpip, mode>>
  BY DEF sys_arch_sem_wait
<1>2. \/ app' = [app EXCEPT !.op = "free", !.posted = TRUE]
      \/ app' = [app EXCEPT !.pc = "closed"]
      \/ app' = Returns(app)
  BY DEF sys_arch_sem_wait
<1>3. app \in AppT /\ op_completed \in Nat BY NowParts, Zenon
<1>4. PICK n : n = Now /\ n \in World /\ Counted(n) BY Zenon DEF NcInv
<1>5. n.a = app /\ n.sem = op_completed BY <1>4, NowParts, Zenon
<1>6. n.a.posted \in BOOLEAN /\ n.c.current_msg \in BOOLEAN BY <1>4, Fields, Zenon
<1>7. app.posted = FALSE /\ n.c.current_msg = FALSE /\ op_completed = 1
  BY <1>1, <1>3, <1>4, <1>5, <1>6 DEF Counted, One
<1>8. app' \in AppT /\ Asking(app')
  <2>1. CASE app' = [app EXCEPT !.op = "free", !.posted = TRUE]
    <3>1. "free" \in Ops BY Zenon DEF Ops
    <3>2. app' \in AppT /\ app'.pc = "sem" /\ app'.op = "free" /\ app'.posted = TRUE
      BY <1>1, <1>3, <2>1, <3>1, Zenon DEF AppT
    <3> QED BY <3>2 DEF Asking
  <2>2. CASE app' = [app EXCEPT !.pc = "closed"]
    <3>1. app' \in AppT /\ app'.pc = "closed" /\ app'.posted = FALSE BY <1>3, <1>7, <2>2, Zenon DEF AppT
    <3> QED BY <3>1 DEF Asking
  <2>3. CASE app' = Returns(app) BY <1>3, <2>3, ReturnsFacts, Zenon
  <2> QED BY <1>2, <2>1, <2>2, <2>3
<1>9. op_completed' = 0 BY <1>1, <1>7
<1>10. op_completed' \in Nat BY <1>9
<1>11. PICK z : SameConn(n, z) /\ z.a = app' /\ z.sem = op_completed' /\ z.c = n.c /\ Becomes(z)
  BY <1>1, <1>4, <1>8, <1>10, ThreadBecomes, Zenon
<1>12. Asking(z.a) /\ z.sem = 0 /\ z.c.current_msg = FALSE BY <1>7, <1>8, <1>9, <1>11, Zenon
<1>13. Counted(z) BY <1>12 DEF Counted, One, Asking
<1> QED BY <1>1, <1>4, <1>11, <1>13, AppKept, Zenon

-----------------------------------------------------------------------------
\* The invariant holds at first,
LEMMA NcStart == InitNc => NcInv
<1> SUFFICES ASSUME InitNc PROVE NcInv OBVIOUS
<1>1. <<>> \in Seq(Errs \cup {"data"}) OBVIOUS
<1>2. "OK" \in Errs /\ "none" \in Ops /\ "CLOSED" \in States BY DEF Errs, Ops, States
<1>3. SND_BUF \in Int BY NetconnConstants
<1>4. conn \in ConnT BY <1>1, <1>2 DEF InitNc, ConnT
<1>5. tpcb \in PcbT BY <1>2, <1>3 DEF InitNc, PcbT
<1>6. sock \in SockT BY DEF InitNc, SockT
<1>7. app \in AppT BY <1>2 DEF InitNc, Thread, AppT
<1>8. op_completed = 0 /\ op_completed \in Nat BY DEF InitNc
<1>9. Now \in World BY <1>4, <1>5, <1>6, <1>7, <1>8 DEF Now, World
<1>10. PICK n : n = Now BY Zenon
<1>11. n.c = conn /\ n.p = tpcb /\ n.a = app /\ n.sem = op_completed BY <1>10 DEF Now
<1>12. /\ conn.state = "NONE" /\ conn.current_msg = FALSE /\ conn.in_nonblocking_connect = FALSE
       /\ conn.pcb = TRUE
  BY DEF InitNc
<1>13. tpcb.state = "CLOSED" BY DEF InitNc
<1>14. app.pc = "idle" /\ app.posted = FALSE BY DEF InitNc, Thread
<1>15. Good(n) BY <1>11, <1>12, <1>13 DEF Good
<1>16. Counted(n) BY <1>8, <1>11, <1>12, <1>14 DEF Counted, One
<1>17. mode \in Modes /\ tcpip = Idle BY DEF InitNc
<1> QED BY <1>9, <1>10, <1>15, <1>16, <1>17, Zenon DEF NcInv

\* and every step keeps it.
LEMMA NcStep == NcInv /\ [NextNc]_ncvars => NcInv'
<1> SUFFICES ASSUME NcInv, [NextNc]_ncvars PROVE NcInv' OBVIOUS
<1>1. {"connect", "write", "close"} \cup DOMAIN Shutdown \subseteq Ops \ {"none"} BY DEF Shutdown, Ops
<1>2. ASSUME NEW op \in Ops \ {"none"}, Call(op) PROVE NcInv' BY <1>2, Step_call, Zenon
<1>3. CASE lwip_connect BY <1>1, <1>2, <1>3, Zenon DEF lwip_connect
<1>4. CASE lwip_write BY <1>1, <1>2, <1>4, Zenon DEF lwip_write
<1>5. CASE lwip_shutdown
  <2>1. PICK how \in DOMAIN Shutdown : Call(how) BY <1>5, Zenon DEF lwip_shutdown
  <2>2. how \in Ops \ {"none"} BY <1>1, Zenon
  <2> QED BY <1>2, <2>1, <2>2, Zenon
<1>6. CASE lwip_close BY <1>1, <1>2, <1>6, Zenon DEF lwip_close
<1>7. CASE UNCHANGED ncvars BY <1>7 DEF ncvars, NcInv, Now
<1> QED
  BY <1>3, <1>4, <1>5, <1>6, <1>7, Step_recv, Step_recv_data, Step_mbox_fetch, Step_recv_minus,
     Step_handle_fin, Step_sem_wait, Step_handle_msg, Step_err_messages, Step_connected, Step_segment,
     Step_ack, Step_ack_fin, Step_reset, Step_slowtmr, Step_fasttmr, Zenon DEF NextNc

\* Each call of an application that posts a message to the tcpip thread is completed
\* exactly once, whichever of the handler, sent_tcp, poll_tcp, the connected callback
\* or err_tcp does it and whatever the peer, the timers and the memory do meanwhile:
\* op_completed is never signalled twice for a call, nor left signalled for a later
\* one, nor left without anything that will signal it. For sockets of any mode, any
\* sizes of buffers and mailbox and any number of calls and segments.
THEOREM EachCallCompletedOnce == SpecNc => []CompletedOnce
<1>1. NcInv => CompletedOnce
  <2> SUFFICES ASSUME NcInv PROVE CompletedOnce OBVIOUS
  <2>1. PICK n : n = Now BY Zenon
  <2>2. n \in World /\ Counted(n) /\ (tcpip = Idle => Good(n)) BY <2>1, Zenon DEF NcInv
  <2>3. n.a = app /\ n.c = conn /\ n.sem = op_completed BY <2>1 DEF Now
  <2>4. /\ (IF app.posted THEN 1 ELSE 0) + (IF conn.current_msg THEN 1 ELSE 0) + op_completed
             = IF app.pc = "sem" THEN 1 ELSE 0
    BY <2>2, <2>3, Zenon DEF Counted, One
  <2>5. tcpip = Idle /\ conn.current_msg => conn.state \in {"WRITE", "CONNECT"}
    BY <2>2, <2>3, Zenon DEF Good
  <2> QED BY <2>4, <2>5, Zenon DEF CompletedOnce
<1> QED BY <1>1, NcStart, NcStep, PTL DEF SpecNc
==============================================================================
