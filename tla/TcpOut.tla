--------------------------------- MODULE TcpOut --------------------------------
(***************************************************************************)
(* The protocol control block of lwIP's TCP and what changes it on the way *)
(* out (core/tcp_out.c, and the parts of core/tcp.c both directions use).  *)
(*                                                                         *)
(* Every function of the code is an operator that maps a control block to  *)
(* the control block it leaves; field tx collects the segments sent on the *)
(* way. Sequence numbers and windows are counted modulo SEQ_MOD, where the *)
(* code has 32 bits; a payload is a sequence of bytes. The congestion      *)
(* window is kept up to TCP_WND, beyond which it limits nothing.           *)
(***************************************************************************)
EXTENDS Integers, Sequences, FiniteSets

CONSTANTS SEQ_MOD,       \* size of the sequence space
          TCP_MSS, TCP_WND, TCP_SND_BUF,
          TCP_RCV_SCALE  \* 2^scale, the unit in which windows are announced

\* The peer runs the same stack: with a window of two segments mss_local is
\* TCP_MSS, and ssthresh is never below TCP_WND.
ASSUME TcpConstants ==
  /\ TCP_WND = 2 * TCP_MSS /\ SEQ_MOD % 2 = 0 /\ SEQ_MOD > 4 * TCP_WND
  /\ TCP_RCV_SCALE > 0 /\ TCP_WND % TCP_RCV_SCALE = 0

Smaller(a, b) == IF a < b THEN a ELSE b
Seqno(x) == x % SEQ_MOD
SeqDiff(a, b) ==
  LET d == (a - b) % SEQ_MOD IN IF d >= SEQ_MOD \div 2 THEN d - SEQ_MOD ELSE d
TCP_SEQ_LT(a, b) == SeqDiff(a, b) < 0
TCP_SEQ_LEQ(a, b) == SeqDiff(a, b) <= 0
TCP_SEQ_BETWEEN(a, b, c) == TCP_SEQ_LEQ(b, a) /\ TCP_SEQ_LEQ(a, c)

TCP_TCPLEN(seg) == Len(seg.data) + (IF seg.flags \cap {"SYN", "FIN"} = {} THEN 0 ELSE 1)
After(seg) == Seqno(seg.seq + TCP_TCPLEN(seg))

NoRefused == [data |-> <<>>, fin |-> FALSE]

\* A new control block. tmr and last_timer only drive timeouts, which are
\* modelled where the timers are; input stands for tcp_input_pcb == pcb.
tcp_alloc ==
  [state |-> "CLOSED", flags |-> {}, tx |-> <<>>, input |-> FALSE,
   snd_nxt |-> 0, lastack |-> 0, snd_lbb |-> 0, snd_wnd |-> 0, snd_wl1 |-> 0, snd_wl2 |-> 0,
   unsent |-> <<>>, unacked |-> <<>>, rtime |-> -1, nrtx |-> 0, dupacks |-> 0,
   rto_end |-> 0, cwnd |-> 1, persist |-> FALSE, persist_probe |-> 0,
   rcv_nxt |-> 0, rcv_wnd |-> TCP_WND, rcv_ann_wnd |-> TCP_WND, rcv_ann_right_edge |-> 0,
   ooseq |-> <<>>, refused |-> NoRefused]

Set(p, fs) == [p EXCEPT !.flags = @ \cup fs]
Clear(p, fs) == [p EXCEPT !.flags = @ \ fs]
tcp_ack_now(p) == Set(p, {"ACK_NOW"})
tcp_ack(p) == IF "ACK_DELAY" \in p.flags THEN tcp_ack_now(Clear(p, {"ACK_DELAY"}))
              ELSE Set(p, {"ACK_DELAY"})

\* The right edge has moved far enough to be announced.
RightEdge(p) == Seqno(p.rcv_nxt + p.rcv_wnd)
EdgeMoved(p) ==
  TCP_SEQ_LEQ(p.rcv_ann_right_edge + Smaller(TCP_WND \div 2, TCP_MSS), RightEdge(p))
tcp_update_rcv_ann_wnd(p) ==
  [p EXCEPT !.rcv_ann_wnd =
     IF EdgeMoved(p) THEN p.rcv_wnd
     ELSE IF TCP_SEQ_LT(p.rcv_ann_right_edge, p.rcv_nxt) THEN 0
          ELSE (p.rcv_ann_right_edge - p.rcv_nxt) % SEQ_MOD]

-----------------------------------------------------------------------------
\* A header announces the window rcv_ann_wnd, scaled except in a SYN.
Announced(p, flags) ==
  IF "SYN" \in flags THEN p.rcv_ann_wnd ELSE p.rcv_ann_wnd \div TCP_RCV_SCALE
Transmit(p, seq, flags, data) ==
  [p EXCEPT !.tx = Append(@, [seq |-> Seqno(seq), ack |-> p.rcv_nxt, wnd |-> Announced(p, flags),
                              flags |-> flags, data |-> data]),
            !.rcv_ann_right_edge = Seqno(p.rcv_nxt + p.rcv_ann_wnd)]

tcp_rst(p, seq, ack) ==
  [p EXCEPT !.tx = Append(@, [seq |-> Seqno(seq), ack |-> Seqno(ack), data |-> <<>>,
                              wnd |-> TCP_WND \div TCP_RCV_SCALE, flags |-> {"RST", "ACK"}])]

tcp_send_empty_ack(p) == Clear(Transmit(p, p.snd_nxt, {"ACK"}, <<>>), {"ACK_DELAY", "ACK_NOW"})

tcp_output_segment(p, seg) ==
  LET q == Transmit(p, seg.seq,
                    seg.flags \cup (IF p.state = "SYN_SENT" THEN {} ELSE {"ACK"}), seg.data)
  IN [q EXCEPT !.rtime = IF @ < 0 THEN 0 ELSE @]

\* seg before the first element of list that does not precede it.
InsertSorted(list, seg) ==
  LET n == Cardinality({i \in DOMAIN list :
                          \A j \in 1 .. i : TCP_SEQ_LT(list[j].seq, seg.seq)})
  IN SubSeq(list, 1, n) \o <<seg>> \o SubSeq(list, n + 1, Len(list))

FitsWindow(p, seg) ==
  (seg.seq - p.lastack + Len(seg.data)) % SEQ_MOD <= Smaller(p.snd_wnd, p.cwnd)
Queued(p) ==
  LET upto[i \in 0 .. Len(p.unacked \o p.unsent)] ==
        IF i = 0 THEN 0 ELSE upto[i - 1] + Len((p.unacked \o p.unsent)[i].data)
  IN upto[Len(p.unacked \o p.unsent)]
tcp_sndbuf(p) == TCP_SND_BUF - Queued(p)
tcp_do_output_nagle(p) ==
  \/ p.unacked = <<>> \/ "INFR" \in p.flags
  \/ Len(p.unsent) > 1 \/ Len(Head(p.unsent).data) >= TCP_MSS
  \/ tcp_sndbuf(p) = 0

\* The segments at the head of unsent that the window and Nagle let pass.
RECURSIVE SendUnsent(_)
SendUnsent(p) ==
  IF \/ p.unsent = <<>> \/ ~FitsWindow(p, Head(p.unsent))
     \/ ~tcp_do_output_nagle(p) /\ p.flags \cap {"NAGLEMEMERR", "FIN"} = {}
  THEN Clear(p, {"NAGLEMEMERR"})
  ELSE LET seg == Head(p.unsent)
           q == tcp_output_segment(p, seg)
           r == IF p.state = "SYN_SENT" THEN q ELSE Clear(q, {"ACK_DELAY", "ACK_NOW"})
       IN SendUnsent([r EXCEPT
            !.unsent = Tail(@),
            !.snd_nxt = IF TCP_SEQ_LT(@, After(seg)) THEN After(seg) ELSE @,
            !.unacked = IF TCP_TCPLEN(seg) = 0 THEN @
                        ELSE IF @ = <<>> \/ ~TCP_SEQ_LT(seg.seq, @[Len(@)].seq) THEN Append(@, seg)
                        ELSE InsertSorted(@, seg)])

\* Mutant: only for a closed window, not for one too small for the segment.
StartPersist_ZeroOnly(p) ==
  IF p.snd_wnd = 0 /\ p.unacked = <<>> /\ ~p.persist
  THEN [p EXCEPT !.persist = TRUE, !.persist_probe = 0] ELSE p
StartPersist(p) ==
  IF Smaller(p.snd_wnd, p.cwnd) = p.snd_wnd /\ p.unacked = <<>> /\ ~p.persist
  THEN [p EXCEPT !.persist = TRUE, !.persist_probe = 0] ELSE p

tcp_output(p) ==
  IF p.input THEN p
  ELSE IF p.unsent # <<>> /\ FitsWindow(p, Head(p.unsent))
  THEN SendUnsent([p EXCEPT !.persist = FALSE])
  ELSE LET q == IF p.unsent = <<>> THEN p ELSE StartPersist(p)
       IN IF "ACK_NOW" \in q.flags THEN tcp_send_empty_ack(q) ELSE Clear(q, {"NAGLEMEMERR"})

-----------------------------------------------------------------------------
\* The payload first fills up the last unsent segment, then new ones.
RECURSIVE Segments(_, _)
Segments(seq, data) ==
  IF data = <<>> THEN <<>>
  ELSE LET n == Smaller(TCP_MSS, Len(data))
       IN <<[seq |-> Seqno(seq), data |-> SubSeq(data, 1, n), flags |-> {}]>>
          \o Segments(seq + n, SubSeq(data, n + 1, Len(data)))

tcp_write_checks(p, len) ==
  p.state \in {"ESTABLISHED", "CLOSE_WAIT", "SYN_SENT", "SYN_RCVD"} /\ len <= tcp_sndbuf(p)

tcp_write(p, data) ==
  LET last == p.unsent[Len(p.unsent)]
      space == IF p.unsent = <<>> \/ Len(last.data) = 0 THEN 0
               ELSE Smaller(TCP_MSS - Len(last.data), Len(data))
      rest == Segments(p.snd_lbb + space, SubSeq(data, space + 1, Len(data)))
  IN [p EXCEPT !.snd_lbb = Seqno(@ + Len(data)),
               !.unsent = (IF space = 0 THEN @
                           ELSE [@ EXCEPT ![Len(@)].data = @ \o SubSeq(data, 1, space)]) \o rest]

\* The flags of the head are only added to (TCPH_SET_FLAG): a FIN that moves to
\* the remainder also stays where it was.
tcp_split_unsent_seg(p, split) ==
  LET useg == Head(p.unsent)
      rest == [seq |-> Seqno(useg.seq + split), flags |-> useg.flags \cap {"FIN"},
               data |-> SubSeq(useg.data, split + 1, Len(useg.data))]
  IN IF Len(useg.data) <= split THEN p
     ELSE [p EXCEPT !.unsent = <<[useg EXCEPT !.data = SubSeq(@, 1, split)], rest>> \o Tail(@)]

tcp_enqueue_flags(p, flag) ==
  LET q == [p EXCEPT !.unsent = Append(@, [seq |-> p.snd_lbb, data |-> <<>>, flags |-> {flag}]),
                     !.snd_lbb = Seqno(@ + 1)]
  IN IF flag = "FIN" THEN Set(q, {"FIN"}) ELSE q

FinFits(p) == p.unsent # <<>> /\ p.unsent[Len(p.unsent)].flags \cap {"SYN", "FIN"} = {}
tcp_send_fin(p) ==
  IF FinFits(p)
  THEN Set([p EXCEPT !.unsent = [@ EXCEPT ![Len(@)].flags = @ \cup {"FIN"}]], {"FIN"})
  ELSE tcp_enqueue_flags(p, "FIN")

-----------------------------------------------------------------------------
CountRexmit(p) == [p EXCEPT !.nrtx = @ + 1]

tcp_rexmit_rto_prepare(p) ==
  IF p.unacked = <<>> THEN p
  ELSE Set([p EXCEPT !.unsent = p.unacked \o @, !.unacked = <<>>,
                     !.rto_end = After(p.unacked[Len(p.unacked)])], {"RTO"})
tcp_rexmit_rto_commit(p) == tcp_output(CountRexmit(p))

tcp_rexmit(p) ==
  IF p.unacked = <<>> THEN p
  ELSE CountRexmit([p EXCEPT !.unacked = Tail(@), !.unsent = InsertSorted(@, Head(p.unacked))])

tcp_rexmit_fast(p) ==
  IF p.unacked = <<>> \/ "INFR" \in p.flags THEN p
  ELSE Set([tcp_rexmit(p) EXCEPT !.cwnd = TCP_WND, !.rtime = 0], {"INFR"})

\* One byte of the head, or its FIN when it has no byte.
tcp_zero_window_probe(p) ==
  LET seg == Head(p.unsent)
      fin == "FIN" \in seg.flags /\ seg.data = <<>>
      q == Transmit(p, seg.seq, {"ACK"} \cup (IF fin THEN {"FIN"} ELSE {}),
                    IF fin THEN <<>> ELSE SubSeq(seg.data, 1, 1))
  IN [q EXCEPT !.persist_probe = @ + 1,
               !.snd_nxt = IF TCP_SEQ_LT(@, seg.seq + 1) THEN Seqno(seg.seq + 1) ELSE @]

-----------------------------------------------------------------------------
\* The error case of tcp_send_fin: no memory for a segment of its own.
tcp_close_shutdown_fin(p, nomem) ==
  LET next == IF p.state = "CLOSE_WAIT" THEN "LAST_ACK" ELSE "FIN_WAIT_1"
  IN IF p.state \notin {"SYN_RCVD", "ESTABLISHED", "CLOSE_WAIT"} THEN p
     ELSE IF nomem /\ ~FinFits(p) THEN Set(p, {"CLOSEPEND", "NAGLEMEMERR"})
     ELSE tcp_output([tcp_send_fin(p) EXCEPT !.state = next])

tcp_pcb_purge(p) ==
  [p EXCEPT !.refused = NoRefused, !.unsent = <<>>, !.unacked = <<>>, !.ooseq = <<>>, !.rtime = -1]

\* Freed: only what was sent remains.
tcp_free(p) == [tcp_alloc EXCEPT !.tx = p.tx]
tcp_pcb_remove(p) ==
  LET q == tcp_pcb_purge(p)
  IN tcp_free(IF p.state # "TIME_WAIT" /\ "ACK_DELAY" \in p.flags
              THEN tcp_output(tcp_ack_now(q)) ELSE q)

tcp_abort(p) == tcp_free(tcp_rst(tcp_pcb_remove(p), p.snd_nxt, p.rcv_nxt))

\* tcp_close(): with data the application did not take, the peer is reset.
tcp_close(p, nomem) ==
  LET q == Set(p, {"RXCLOSED"})
      unread == p.refused # NoRefused \/ p.rcv_wnd # TCP_WND
  IN IF p.state \in {"ESTABLISHED", "CLOSE_WAIT"} /\ unread
     THEN tcp_free(tcp_rst(q, p.snd_nxt, p.rcv_nxt))
     ELSE IF p.state = "SYN_SENT" THEN tcp_pcb_remove(q)
     ELSE tcp_close_shutdown_fin(q, nomem)
==============================================================================
