-------------------------------- MODULE UartP2p --------------------------------
(***************************************************************************)
(* The serial bridge (uart_p2p.c): bytes from the line go through a ring   *)
(* buffer to the radio, packets from the radio go by DMA to the line. Its  *)
(* task shares the ring (rbuffer.h) with the receive interrupt without a   *)
(* lock, and is woken through one semaphore by that interrupt, by a one-   *)
(* shot timer (hgtimer_v2.c) and by the task that delivers packets. The    *)
(* DMA channels (dw_dmac.c) are shared with other drivers.                 *)
(*                                                                         *)
(* Interrupt handlers run between any two steps of a task. The receive     *)
(* interrupt may also come inside the timer's, after its callback. A byte  *)
(* is its number among the bytes the ring has taken, modulo BYTES.         *)
(***************************************************************************)
EXTENDS Integers, Sequences, FiniteSets

CONSTANTS RBSIZE,         \* UARTP2P_RBSIZE, qsize of the ring
          TXBUF,          \* the size of txbuf (1500)
          MARGIN,         \* room below which the task is woken at once (32)
          Channels,       \* of the DMA controller
          BYTES, MaxSkbs, MaxTokens

ASSUME UartP2pConstants ==
  /\ {RBSIZE, TXBUF, MARGIN, BYTES, MaxSkbs, MaxTokens} \subseteq Nat \ {0}
  /\ MARGIN < RBSIZE /\ BYTES > RBSIZE + TXBUF
  /\ Channels # {} /\ IsFiniteSet(Channels) /\ {"none", "EBUSY"} \cap Channels = {}

VARIABLES p2p,            \* the ring, the semaphore, the packets, the timer
          bridge,         \* the task: where it is, its count and its txbuf
          dma,            \* chn_used_flag with the owners, and the transfers
          giving,         \* uart_p2p_recv is between the list and the semaphore
          passed          \* the numbers of the next byte in and the next one out

p2pvars == <<p2p, bridge, dma, giving, passed>>

-----------------------------------------------------------------------------
RB_NPOS(pos) == IF pos + 1 >= RBSIZE THEN 0 ELSE pos + 1
RB_EMPTY == p2p.wpos = p2p.rpos
RB_FULL_Never == FALSE
RB_FULL == RB_NPOS(p2p.wpos) = p2p.rpos
RB_COUNT == IF p2p.rpos <= p2p.wpos THEN p2p.wpos - p2p.rpos ELSE (RBSIZE - p2p.rpos) + p2p.wpos

RB_SET(s, val) == [s EXCEPT !.rbq[s.wpos] = val, !.wpos = RB_NPOS(@)]

uart_p2p_irq_hdl_KeepsTimer ==
  LET woken == IF RB_COUNT > RBSIZE - MARGIN THEN [p2p EXCEPT !.sema = @ + 1] ELSE p2p
  IN /\ p2p.sema < MaxTokens
     /\ p2p' = [IF RB_FULL THEN woken ELSE RB_SET(woken, passed.in) EXCEPT !.timer = RB_EMPTY]
     /\ passed' = IF RB_FULL THEN passed ELSE [passed EXCEPT !.in = (@ + 1) % BYTES]
     /\ UNCHANGED <<bridge, dma, giving>>

\* A byte arrives. The timer is stopped and started, the byte dropped if the ring
\* is full.
uart_p2p_irq_hdl ==
  LET woken == IF RB_COUNT > RBSIZE - MARGIN THEN [p2p EXCEPT !.sema = @ + 1] ELSE p2p
  IN /\ p2p.sema < MaxTokens
     /\ p2p' = [IF RB_FULL THEN woken ELSE RB_SET(woken, passed.in) EXCEPT !.timer = TRUE]
     /\ passed' = IF RB_FULL THEN passed ELSE [passed EXCEPT !.in = (@ + 1) % BYTES]
     /\ UNCHANGED <<bridge, dma, giving>>

\* The timer's interrupt: the callback, and then the end of a one-shot timer, which
\* also stops it if it has been started in between.
uart_p2p_timer_cb ==
  /\ p2p.timer /\ ~p2p.in_isr
  /\ p2p' = [p2p EXCEPT !.sema = @ + 1, !.in_isr = TRUE]
  /\ UNCHANGED <<bridge, dma, giving, passed>>

hgtimer_v2_irq_handler ==
  /\ p2p.in_isr
  /\ p2p' = [p2p EXCEPT !.timer = FALSE, !.in_isr = FALSE]
  /\ UNCHANGED <<bridge, dma, giving, passed>>

-----------------------------------------------------------------------------
\* A packet from the radio, in the task of the wireless library: queued, then
\* announced. Without memory for it, it is dropped.
uart_p2p_recv ==
  /\ ~p2p.in_isr /\ ~giving /\ Len(p2p.rx_data) < MaxSkbs
  /\ p2p' = [p2p EXCEPT !.rx_data = Append(@, "skb")]
  /\ giving' = TRUE
  /\ UNCHANGED <<bridge, dma, passed>>

RecvUp ==
  /\ ~p2p.in_isr /\ giving
  /\ p2p' = [p2p EXCEPT !.sema = @ + 1]
  /\ giving' = FALSE
  /\ UNCHANGED <<bridge, dma, passed>>

-----------------------------------------------------------------------------
At(pc) == bridge.pc = pc /\ ~p2p.in_isr /\ UNCHANGED <<giving>>

\* os_sema_down of the main loop
uart_p2p_task ==
  /\ At("down") /\ p2p.sema > 0
  /\ p2p' = [p2p EXCEPT !.sema = @ - 1]
  /\ bridge' = [bridge EXCEPT !.pc = "rx"]
  /\ UNCHANGED <<dma, passed>>

\* At most one packet for each time the task is woken.
uart_p2p_rx_data ==
  /\ At("rx")
  /\ IF p2p.rx_data = <<>>
     THEN bridge' = [bridge EXCEPT !.pc = "tx", !.txbuf = <<>>] /\ UNCHANGED p2p
     ELSE bridge' = [bridge EXCEPT !.pc = "xfer"] /\ p2p' = [p2p EXCEPT !.rx_data = Tail(@)]
  /\ UNCHANGED <<dma, passed>>

Unused == {ch \in Channels : dma.used[ch] = "no"}

\* The search for a channel, with interrupts disabled. hguart_puts ignores that
\* there is none, and waits.
dw_dmac_xfer ==
  /\ At("xfer")
  /\ IF Unused = {}
     THEN bridge' = [bridge EXCEPT !.pc = "wait", !.ch = "EBUSY"] /\ UNCHANGED dma
     ELSE \E ch \in Unused : /\ bridge' = [bridge EXCEPT !.pc = "start", !.ch = ch]
                           /\ dma' = [dma EXCEPT !.used[ch] = "uart"]
  /\ UNCHANGED <<p2p, passed>>

StartXfer ==
  /\ At("start")
  /\ bridge' = [bridge EXCEPT !.pc = "wait"]
  /\ dma' = [dma EXCEPT !.runs = @ \cup {bridge.ch}]
  /\ UNCHANGED <<p2p, passed>>

hguart_puts_NoWait ==
  /\ At("wait")
  /\ bridge' = [bridge EXCEPT !.pc = "tx", !.txbuf = <<>>, !.ch = "none"]
  /\ UNCHANGED <<p2p, dma, passed>>

\* The wait for the end of the transfer; then kfree_skb.
hguart_puts ==
  /\ At("wait") /\ dma.tx_dma_sema > 0
  /\ bridge' = [bridge EXCEPT !.pc = "tx", !.txbuf = <<>>, !.ch = "none"]
  /\ dma' = [dma EXCEPT !.tx_dma_sema = @ - 1]
  /\ UNCHANGED <<p2p, passed>>

\* RB_GET in the loop: the byte is read, and in a second step rpos moves on.
uart_p2p_tx_data ==
  /\ At("tx") /\ Len(bridge.txbuf) < TXBUF /\ ~RB_EMPTY
  /\ bridge' = [bridge EXCEPT !.pc = "got", !.txbuf = Append(@, p2p.rbq[p2p.rpos])]
  /\ UNCHANGED <<p2p, dma, passed>>

RB_GET ==
  /\ At("got")
  /\ bridge' = [bridge EXCEPT !.pc = "tx"]
  /\ p2p' = [p2p EXCEPT !.rpos = RB_NPOS(@)]
  /\ UNCHANGED <<dma, passed>>

\* The end of the loop: what there is goes to the radio.
SendEther ==
  /\ At("tx") /\ (Len(bridge.txbuf) = TXBUF \/ RB_EMPTY)
  /\ bridge' = [bridge EXCEPT !.pc = "down"]
  /\ passed' = [passed EXCEPT !.out = (@ + Len(bridge.txbuf)) % BYTES]
  /\ UNCHANGED <<p2p, dma>>

-----------------------------------------------------------------------------
\* The controller ends a transfer, with or without an error.
Finish(ch) ==
  /\ ch \in dma.runs
  /\ dma' = [dma EXCEPT !.runs = @ \ {ch}, !.raw = @ \cup {ch}]
  /\ UNCHANGED <<p2p, bridge, giving, passed>>

DmaHandlers_NoUp(d) ==
  [d EXCEPT !.used = [ch \in Channels |-> IF ch \in d.raw THEN "no" ELSE @[ch]]]

DmaHandlers_NoStop(d) ==
  [d EXCEPT !.used = [ch \in Channels |-> IF ch \in d.raw /\ @[ch] # "uart" THEN "no" ELSE @[ch]],
            !.tx_dma_sema = @ + Cardinality({ch \in d.raw : d.used[ch] = "uart"})]

\* The handlers of the channels: dma_stop, and os_sema_up for the serial line.
DmaHandlers(d) ==
  [d EXCEPT !.used = [ch \in Channels |-> IF ch \in d.raw THEN "no" ELSE @[ch]],
            !.tx_dma_sema = @ + Cardinality({ch \in d.raw : d.used[ch] = "uart"})]

dw_dmac_irq_handler ==
  /\ dma.raw # {}
  /\ dma' = [DmaHandlers(dma) EXCEPT !.raw = {}]
  /\ UNCHANGED <<p2p, bridge, giving, passed>>

\* Another driver takes a channel for a transfer of its own.
OtherXfer ==
  /\ ~p2p.in_isr
  /\ \E ch \in Unused : dma' = [dma EXCEPT !.used[ch] = "other", !.runs = @ \cup {ch}]
  /\ UNCHANGED <<p2p, bridge, giving, passed>>

\* After uart_p2p_init.
InitP2p ==
  /\ p2p = [rbq |-> [i \in 0 .. RBSIZE - 1 |-> 0], rpos |-> 0, wpos |-> 0,
            sema |-> 0, rx_data |-> <<>>, timer |-> FALSE, in_isr |-> FALSE]
  /\ bridge = [pc |-> "down", txbuf |-> <<>>, ch |-> "none"]
  /\ dma = [used |-> [ch \in Channels |-> "no"], runs |-> {}, raw |-> {}, tx_dma_sema |-> 0]
  /\ giving = FALSE
  /\ passed = [in |-> 0, out |-> 0]

NextP2p ==
  \/ uart_p2p_irq_hdl \/ uart_p2p_timer_cb \/ hgtimer_v2_irq_handler
  \/ uart_p2p_recv \/ RecvUp
  \/ uart_p2p_task \/ uart_p2p_rx_data \/ dw_dmac_xfer \/ StartXfer \/ hguart_puts
  \/ uart_p2p_tx_data \/ RB_GET \/ SendEther
  \/ (\E ch \in Channels : Finish(ch)) \/ dw_dmac_irq_handler \/ OtherXfer

SpecP2p == InitP2p /\ [][NextP2p]_p2pvars

-----------------------------------------------------------------------------
\* What the task holds (also at its last, complete packet) and what the ring holds.
Held == IF bridge.pc \in {"tx", "got"} THEN Len(bridge.txbuf) ELSE 0
Read == IF bridge.pc = "got" THEN Held - 1 ELSE Held

\* The bytes the ring has taken leave it once and in order, although the interrupt
\* adds to it between any two steps of the task, also when it is full or wraps.
BytesInOrder ==
  /\ \A k \in 1 .. Held : bridge.txbuf[k] = (passed.out + (k - 1)) % BYTES
  /\ \A i \in 0 .. RB_COUNT - 1 :
       p2p.rbq[(p2p.rpos + i) % RBSIZE] = (passed.out + Read + i) % BYTES
  /\ passed.in = (passed.out + Read + RB_COUNT) % BYTES

\* A packet that waits has its own token, taken or about to be given; bytes that
\* wait have a token or a running timer, unless the last packet was cut at TXBUF.
\* A task that waits for its transfer will be woken, unless there was no channel.
NothingStranded ==
  /\ Len(p2p.rx_data) <= p2p.sema + (IF bridge.pc = "rx" THEN 1 ELSE 0) + (IF giving THEN 1 ELSE 0)
  /\ bridge.pc = "down" /\ ~RB_EMPTY =>
       p2p.sema > 0 \/ p2p.timer \/ Len(bridge.txbuf) = TXBUF
  /\ bridge.pc = "wait" =>
       bridge.ch \in dma.runs \cup dma.raw \cup {"EBUSY"} \/ dma.tx_dma_sema > 0

\* The controller reads a packet only while the task waits for it: it is not
\* freed under the transfer, and no old token ends a wait early.
PacketHeld ==
  \A ch \in Channels :
    dma.used[ch] = "uart" => bridge.pc \in {"start", "wait"} /\ bridge.ch = ch

\* Nothing that is under way between the line and the radio is lost, mixed up or
\* forgotten.
BridgeSound == BytesInOrder /\ NothingStranded /\ PacketHeld
===============================================================================
