---------------------------------- MODULE TcpIn ---------------------------------
(***************************************************************************)
(* What an arriving segment does to a control block (core/tcp_in.c).       *)
(*                                                                         *)
(* tcp_process yields a record: the control block p, the payload recv and  *)
(* the end of stream fin to pass to the application, and what becomes of   *)
(* the connection (end: "OPEN", "RESET" or "CLOSED").                      *)
(***************************************************************************)
EXTENDS TcpOut

CONSTANTS DUPACK_THRESHOLD,  \* duplicate ACKs that start a fast retransmit
          TCP_SYNMAXRTX

\* The prefix of list that ackno acknowledges is freed.
tcp_free_acked_segments(list, ackno) ==
  LET n == Cardinality({i \in DOMAIN list :
                          \A j \in 1 .. i : TCP_SEQ_LEQ(After(list[j]), ackno)})
  IN SubSeq(list, n + 1, Len(list))

UpdateWindow(p, s) ==
  LET wnd == s.wnd * TCP_RCV_SCALE
      newer == \/ TCP_SEQ_LT(p.snd_wl1, s.seq)
               \/ p.snd_wl1 = s.seq /\ TCP_SEQ_LT(p.snd_wl2, s.ack)
               \/ p.snd_wl2 = s.ack /\ wnd > p.snd_wnd
  IN IF newer THEN [p EXCEPT !.snd_wnd = wnd, !.snd_wl1 = s.seq, !.snd_wl2 = s.ack] ELSE p

DuplicateAck(p, s, edge) ==
  IF /\ TCP_TCPLEN(s) = 0 /\ p.rtime >= 0 /\ p.lastack = s.ack
     /\ Seqno(p.snd_wl2 + p.snd_wnd) = edge
  THEN LET n == Smaller(p.dupacks + 1, DUPACK_THRESHOLD + 1)
           q == [p EXCEPT !.dupacks = n,
                          !.cwnd = IF n > DUPACK_THRESHOLD THEN Smaller(@ + TCP_MSS, TCP_WND) ELSE @]
       IN IF n >= DUPACK_THRESHOLD THEN tcp_rexmit_fast(q) ELSE q
  ELSE [p EXCEPT !.dupacks = 0]

\* Slow start; with ssthresh at or above TCP_WND congestion avoidance changes
\* nothing that is kept of cwnd.
NewAck(p, s) ==
  LET segs == IF "RTO" \in p.flags THEN 1 ELSE 2
      cwnd == IF "INFR" \in p.flags THEN TCP_WND ELSE p.cwnd
      unacked == tcp_free_acked_segments(p.unacked, s.ack)
      unsent == tcp_free_acked_segments(p.unsent, s.ack)
      next == Head(unacked \o unsent)
      recovered == unacked \o unsent = <<>> \/ TCP_SEQ_LEQ(p.rto_end, next.seq)
  IN [p EXCEPT !.nrtx = 0, !.dupacks = 0, !.lastack = s.ack,
               !.cwnd = Smaller(cwnd + Smaller((s.ack - p.lastack) % SEQ_MOD, segs * TCP_MSS), TCP_WND),
               !.unacked = unacked, !.unsent = unsent,
               !.rtime = IF unacked = <<>> THEN -1 ELSE 0,
               !.flags = @ \ ({"INFR"} \cup (IF recovered THEN {"RTO"} ELSE {}))]

Acknowledge(p, s, edge) ==
  IF TCP_SEQ_LEQ(s.ack, p.lastack) THEN DuplicateAck(p, s, edge)
  ELSE IF TCP_SEQ_BETWEEN(s.ack, p.lastack + 1, p.snd_nxt) THEN NewAck(p, s)
  ELSE tcp_send_empty_ack(p)
ReceiveAck(p, s) == Acknowledge(UpdateWindow(p, s), s, Seqno(p.snd_wnd + p.snd_wl2))

-----------------------------------------------------------------------------
Cut(seg, len) == [seg EXCEPT !.data = SubSeq(@, 1, len)]
End(seg) == seg.seq + Len(seg.data)

\* cseg in front of the list next, which it may cover in part.
tcp_oos_insert_segment(cseg, next) ==
  LET n == Cardinality({i \in DOMAIN next :
                          \A j \in 1 .. i : TCP_SEQ_LEQ(End(next[j]), End(cseg))})
      rest == SubSeq(next, n + 1, Len(next))
      fin == \E i \in 1 .. n : "FIN" \in next[i].flags
      cseg2 == IF fin THEN [cseg EXCEPT !.flags = @ \cup {"FIN"}] ELSE cseg
  IN IF "FIN" \in cseg.flags THEN <<cseg>>
     ELSE IF rest # <<>> /\ TCP_SEQ_LT(rest[1].seq, End(cseg))
     THEN <<Cut(cseg2, (rest[1].seq - cseg.seq) % SEQ_MOD)>> \o rest
     ELSE <<cseg2>> \o rest

\* A segment that leaves a gap is put into ooseq, which is ordered by seqno.
\* Only one appended at the end is cut to the window.
InsertOoseq(p, seg) ==
  LET q == p.ooseq
      n == Cardinality({i \in DOMAIN q : \A j \in 1 .. i : TCP_SEQ_LT(q[j].seq, seg.seq)})
      before == [i \in 1 .. n |-> IF i = n /\ TCP_SEQ_LT(seg.seq, End(q[n]))
                                  THEN Cut(q[n], (seg.seq - q[n].seq) % SEQ_MOD) ELSE q[i]]
      after == SubSeq(q, n + 1, Len(q))
      edge == p.rcv_nxt + p.rcv_wnd
      cut == IF TCP_SEQ_LT(edge, After(seg))
             THEN [Cut(seg, (edge - seg.seq) % SEQ_MOD) EXCEPT !.flags = @ \ {"FIN"}] ELSE seg
  IN IF q = <<>> THEN [p EXCEPT !.ooseq = <<seg>>]
     ELSE IF n = Len(q)
     THEN IF "FIN" \in q[n].flags THEN p ELSE [p EXCEPT !.ooseq = Append(before, cut)]
     ELSE IF after[1].seq = seg.seq
     THEN IF Len(seg.data) <= Len(after[1].data) THEN p
          ELSE [p EXCEPT !.ooseq = SubSeq(q, 1, n) \o tcp_oos_insert_segment(seg, after)]
     ELSE [p EXCEPT !.ooseq = before \o tcp_oos_insert_segment(seg, after)]

\* Accept seg at rcv_nxt.
Take(r, seg) ==
  [r EXCEPT !.p = tcp_update_rcv_ann_wnd([@ EXCEPT
                    !.rcv_nxt = After(seg), !.rcv_wnd = (@ - TCP_TCPLEN(seg)) % SEQ_MOD]),
            !.recv = @ \o seg.data, !.fin = @ \/ "FIN" \in seg.flags]

RECURSIVE TakeOoseq(_)
TakeOoseq(r) ==
  IF r.p.ooseq = <<>> \/ Head(r.p.ooseq).seq # r.p.rcv_nxt THEN r
  ELSE LET cseg == Head(r.p.ooseq)
           t == Take([r EXCEPT !.p.ooseq = Tail(@)], cseg)
       IN TakeOoseq(IF "FIN" \in cseg.flags /\ t.p.state = "ESTABLISHED"
                    THEN [t EXCEPT !.p.state = "CLOSE_WAIT"] ELSE t)

\* The queued segments that seg covers are dropped, seg ends where the next starts.
MergeOoseq(p, seg) ==
  LET q == p.ooseq
      n == Cardinality({i \in DOMAIN q : \A j \in 1 .. i : TCP_SEQ_LEQ(End(q[j]), After(seg))})
      rest == SubSeq(q, n + 1, Len(q))
      fin == \E i \in 1 .. n : "FIN" \in q[i].flags
      seg2 == IF fin THEN [seg EXCEPT !.flags = @ \cup {"FIN"}] ELSE seg
  IN IF "FIN" \in seg.flags THEN [ooseq |-> <<>>, seg |-> seg]
     ELSE [ooseq |-> rest,
           seg |-> IF rest # <<>> /\ TCP_SEQ_LT(rest[1].seq, After(seg2))
                   THEN Cut(seg2, (rest[1].seq - seg.seq) % SEQ_MOD) ELSE seg2]

InOrder(r, seg) ==
  LET fits == IF TCP_TCPLEN(seg) <= r.p.rcv_wnd THEN seg
              ELSE [Cut(seg, r.p.rcv_wnd) EXCEPT !.flags = @ \ {"FIN"}]
      m == MergeOoseq(r.p, fits)
      t == TakeOoseq(Take([r EXCEPT !.p.ooseq = m.ooseq], m.seg))
  IN [t EXCEPT !.p = tcp_ack(@)]

\* What precedes rcv_nxt is cut off.
TrimLeft(p, s) ==
  IF TCP_SEQ_BETWEEN(p.rcv_nxt, s.seq + 1, s.seq + TCP_TCPLEN(s) - 1)
  THEN [s EXCEPT !.seq = p.rcv_nxt, !.data = SubSeq(@, ((p.rcv_nxt - s.seq) % SEQ_MOD) + 1, Len(@))]
  ELSE s

InWindow(p, seq) == TCP_SEQ_BETWEEN(seq, p.rcv_nxt, p.rcv_nxt + p.rcv_wnd - 1)

ReceiveSegment(r, seg) ==
  IF ~InWindow(r.p, seg.seq)
  THEN [r EXCEPT !.p = tcp_send_empty_ack(IF TCP_SEQ_LT(seg.seq, @.rcv_nxt) THEN tcp_ack_now(@) ELSE @)]
  ELSE IF seg.seq = r.p.rcv_nxt THEN InOrder(r, seg)
  ELSE [r EXCEPT !.p = tcp_send_empty_ack(InsertOoseq(@, seg))]

ReceiveData(r, s) ==
  IF TCP_TCPLEN(s) > 0 /\ r.p.state \in {"ESTABLISHED", "FIN_WAIT_1", "FIN_WAIT_2"}
  THEN ReceiveSegment(r, TrimLeft(r.p, s))
  ELSE IF InWindow(r.p, s.seq) THEN r ELSE [r EXCEPT !.p = tcp_ack_now(@)]

tcp_receive(p, s) ==
  ReceiveData([p |-> IF "ACK" \in s.flags THEN ReceiveAck(p, s) ELSE p,
               recv |-> <<>>, fin |-> FALSE, end |-> "OPEN"], s)

-----------------------------------------------------------------------------
Unchanged(p) == [p |-> p, recv |-> <<>>, fin |-> FALSE, end |-> "OPEN"]

ProcessRst(p, s) ==
  LET acceptable == IF p.state = "SYN_SENT" THEN s.ack = p.snd_nxt ELSE s.seq = p.rcv_nxt
      near == p.state # "SYN_SENT" /\ TCP_SEQ_BETWEEN(s.seq, p.rcv_nxt, p.rcv_nxt + p.rcv_wnd)
  IN IF acceptable THEN [Unchanged(Clear(p, {"ACK_DELAY"})) EXCEPT !.end = "RESET"]
     ELSE Unchanged(IF near THEN tcp_ack_now(p) ELSE p)

ProcessSynSent(p, s) ==
  LET rexmit == IF p.nrtx < TCP_SYNMAXRTX
                THEN LET q == tcp_rexmit_rto_prepare([p EXCEPT !.rtime = 0])
                     IN IF p.unacked = <<>> THEN q ELSE tcp_rexmit_rto_commit(q)
                ELSE p
      unacked == IF p.unacked = <<>> THEN <<>> ELSE Tail(p.unacked)
  IN IF {"SYN", "ACK"} \subseteq s.flags /\ s.ack = Seqno(p.lastack + 1)
     THEN tcp_ack_now([p EXCEPT
            !.state = "ESTABLISHED", !.rcv_nxt = Seqno(s.seq + 1),
            !.rcv_ann_right_edge = Seqno(s.seq + 1), !.lastack = s.ack,
            !.snd_wnd = s.wnd, !.snd_wl1 = Seqno(s.seq - 1), !.cwnd = TCP_WND,
            !.unsent = IF p.unacked = <<>> THEN Tail(@) ELSE @, !.unacked = unacked,
            !.rtime = IF unacked = <<>> THEN -1 ELSE 0,
            !.nrtx = IF unacked = <<>> THEN @ ELSE 0])
     ELSE IF "ACK" \in s.flags THEN tcp_rst(rexmit, s.ack, s.seq + TCP_TCPLEN(s))
     ELSE p

\* accept: accept_function takes the connection.
Accepted(r) ==
  LET q == [r.p EXCEPT !.cwnd = TCP_WND]
  IN [r EXCEPT !.p = IF r.fin THEN tcp_ack_now([q EXCEPT !.state = "CLOSE_WAIT"]) ELSE q]
\* Mutant: any acknowledgement completes the handshake.
ProcessSynRcvd_AnyAck(p, s) ==
  IF "ACK" \in s.flags THEN Accepted(tcp_receive([p EXCEPT !.state = "ESTABLISHED"], s))
  ELSE Unchanged(IF "SYN" \in s.flags /\ s.seq = Seqno(p.rcv_nxt - 1) THEN tcp_rexmit(p) ELSE p)
ProcessSynRcvd(p, s) ==
  IF "ACK" \in s.flags
  THEN IF TCP_SEQ_BETWEEN(s.ack, p.lastack + 1, p.snd_nxt)
       THEN Accepted(tcp_receive([p EXCEPT !.state = "ESTABLISHED"], s))
       ELSE Unchanged(tcp_rst(p, s.ack, s.seq + TCP_TCPLEN(s)))
  ELSE Unchanged(IF "SYN" \in s.flags /\ s.seq = Seqno(p.rcv_nxt - 1) THEN tcp_rexmit(p) ELSE p)

\* Data transfer and close, after tcp_receive: finished when everything sent is
\* acknowledged.
Advance(state, r, s) ==
  LET finished == "ACK" \in s.flags /\ s.ack = r.p.snd_nxt /\ r.p.unsent = <<>>
      To(next) == [r EXCEPT !.p.state = next]
      TimeWait == [r EXCEPT !.p = [tcp_pcb_purge(@) EXCEPT !.state = "TIME_WAIT"]]
  IN CASE state \in {"ESTABLISHED", "CLOSE_WAIT"} -> IF r.fin THEN To("CLOSE_WAIT") ELSE r
       [] state = "FIN_WAIT_1" -> IF r.fin THEN IF finished THEN TimeWait ELSE To("CLOSING")
                                  ELSE IF finished THEN To("FIN_WAIT_2") ELSE r
       [] state = "FIN_WAIT_2" -> IF r.fin THEN TimeWait ELSE r
       [] state = "CLOSING"    -> IF finished THEN TimeWait ELSE r
       [] state = "LAST_ACK"   -> IF finished THEN [r EXCEPT !.end = "CLOSED"] ELSE r
AckFin(r) == IF r.fin THEN [r EXCEPT !.p = tcp_ack_now(@)] ELSE r
ProcessOpen(p, s) == Advance(p.state, AckFin(tcp_receive(p, s)), s)

tcp_process(p, s) ==
  LET q == [p EXCEPT !.persist_probe = 0]
  IN IF "RST" \in s.flags THEN ProcessRst(p, s)
     ELSE IF "SYN" \in s.flags /\ p.state \notin {"SYN_SENT", "SYN_RCVD"}
     THEN Unchanged(tcp_ack_now(p))
     ELSE IF p.state = "SYN_SENT" THEN Unchanged(ProcessSynSent(q, s))
     ELSE IF p.state = "SYN_RCVD" THEN ProcessSynRcvd(q, s)
     ELSE ProcessOpen(q, s)
==============================================================================
