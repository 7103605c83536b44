---------------------------------- MODULE MCTcp ---------------------------------
(***************************************************************************)
(* A TCP connection between two hosts, the sockets of one host, or its     *)
(* packet buffers. Every behaviour is about one of the three.              *)
(***************************************************************************)
EXTENDS Tcp, Sockets, Pbuf, TLC

VARIABLE layer

Conn(c, s, early, adverse) ==
  [writes |-> [C |-> c, S |-> s], early |-> [C |-> early, S |-> FALSE],
   closes |-> [C |-> TRUE, S |-> FALSE], faults |-> adverse]

\* More than a window from the client, with an early close and even windows; small
\* and odd writes, whose segments are split, closed late; two faults in a short
\* connection; data in both directions.
MCSetups == {Conn(<<2, 2, 1>>, <<>>, TRUE, 1), Conn(<<1, 2, 2>>, <<>>, FALSE, 1),
             Conn(<<1, 2>>, <<>>, FALSE, 2), Conn(<<2>>, <<1>>, TRUE, 1)}

\* Odd writes and an early close.
MCEarlyOdd == {Conn(<<1, 2, 2>>, <<>>, TRUE, 1)}

Both(kinds) == [s \in Fds |-> kinds]
Only(fd, kinds) == [s \in Fds |-> IF s = fd THEN kinds ELSE {}]
Wait(k1, asks1, k2, asks2) ==
  [kind |-> ("t1" :> k1 @@ "t2" :> k2), asks |-> ("t1" :> asks1 @@ "t2" :> asks2),
   timeout |-> FALSE, closes |-> "never", selwait_max |-> 255]

\* A thread waits for both sockets, another for one of them, with a timeout; a waiter
\* too many, at the second descriptor; a close while both wait for the other socket.
MCSelSetups ==
  {[Wait("poll", Both({"r", "w"}), "select", Only(0, {"r", "e"})) EXCEPT !.timeout = TRUE],
   [Wait("select", Both({"r"}), "select", Only(1, {"w"})) EXCEPT !.selwait_max = 1],
   [Wait("select", Only(1, {"r"}), "poll", Only(1, {"w"})) EXCEPT !.closes = "late"]}

\* A socket is closed while a connection is accepted.
MCCloses == {[Wait("select", Both({"r"}), "select", Only(0, {"r"})) EXCEPT !.closes = "any time"]}

OfTcp == layer = "tcp" /\ UNCHANGED <<layer, sockvars, pbufvars>>
OfSock == layer = "sockets" /\ UNCHANGED <<layer, tcpvars, pbufvars>>
OfPbuf == layer = "pbufs" /\ UNCHANGED <<layer, tcpvars, sockvars>>

InitLayer == InitTcp /\ InitSock /\ InitPbuf /\ layer \in {"tcp", "sockets", "pbufs"}

NextLayer ==
  \/ OfTcp /\ tcp_connect
  \/ OfTcp /\ \E e \in Ends : tcp_input(e)
  \/ OfTcp /\ \E e \in Ends : Mistreat(e)
  \/ OfTcp /\ \E e \in Ends : tcp_slowtmr(e)
  \/ OfTcp /\ \E e \in Ends : tcp_fasttmr(e)
  \/ OfTcp /\ \E e \in Ends : Send(e)
  \/ OfTcp /\ \E e \in Ends : Receive(e)
  \/ OfTcp /\ \E e \in Ends : Close(e)
  \/ OfSock /\ \E t \in Waiters : BeginWait(t)
  \/ OfSock /\ \E t \in Waiters : lwip_selscan(t)
  \/ OfSock /\ \E t \in Waiters : lwip_link_select_cb(t)
  \/ OfSock /\ \E t \in Waiters : AddWaiter(t)
  \/ OfSock /\ \E t \in Waiters : GoesToSleep(t)
  \/ OfSock /\ \E t \in Waiters : sys_arch_sem_wait(t)
  \/ OfSock /\ \E t \in Waiters : RemoveWaiter(t)
  \/ OfSock /\ \E t \in Waiters : lwip_unlink_select_cb(t)
  \/ OfSock /\ \E t \in Waiters : Return(t)
  \/ OfSock /\ \E x \in Callers : event_callback(x)
  \/ OfSock /\ \E x \in Callers : select_check_waiters(x)
  \/ OfSock /\ Report
  \/ OfSock /\ Read
  \/ OfSock /\ alloc_socket
  \/ OfSock /\ lwip_accept
  \/ OfSock /\ lwip_close
  \/ OfPbuf /\ \E x \in Pointers : pbuf_alloc(x)
  \/ OfPbuf /\ \E x \in Pointers : AllocPool(x)
  \/ OfPbuf /\ \E x \in Pointers : AllocMore(x)
  \/ OfPbuf /\ \E x \in Pointers : AllocFails(x)
  \/ OfPbuf /\ \E x, y \in Pointers : pbuf_ref(x, y)
  \/ OfPbuf /\ \E x \in Pointers : pbuf_free(x)
  \/ OfPbuf /\ \E x \in Pointers : FreeDec(x)
  \/ OfPbuf /\ \E x \in Pointers : FreePut(x)
  \/ OfPbuf /\ \E x, y \in Pointers : pbuf_cat(x, y)
  \/ OfPbuf /\ \E x, y \in Pointers : pbuf_chain(x, y)
  \/ OfPbuf /\ \E x, y \in Pointers : pbuf_dechain(x, y)
  \/ OfPbuf /\ \E x, y \in Pointers : pbuf_realloc(x, y)
  \/ OfPbuf /\ \E x \in Pointers : pbuf_remove_header(x)
  \/ OfPbuf /\ \E x \in Pointers : pbuf_add_header(x)
  \/ OfPbuf /\ \E x, y \in Pointers : pbuf_free_header(x, y)
  \/ OfPbuf /\ \E x, y \in Pointers : pbuf_coalesce(x, y)

\* Each setup once: those of the other parts are not varied.
InitOnce ==
  /\ InitLayer
  /\ layer # "sockets" => selsetup = CHOOSE x \in SelSetups : TRUE
  /\ layer # "tcp" => setup = CHOOSE x \in Setups : TRUE

SpecLayer == InitOnce /\ [][NextLayer]_<<layer, tcpvars, sockvars, pbufvars>>
==============================================================================
