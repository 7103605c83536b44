-------------------------------- MODULE MCStores --------------------------------
(***************************************************************************)
(* What is kept in a bounded memory: the two kinds of ring, the heap, the  *)
(* datagrams being reassembled, the ARP cache, the tokens of a semaphore,  *)
(* the ring and the packets of the serial bridge, and the flash. Every     *)
(* behaviour is about one of them.                                         *)
(***************************************************************************)
EXTENDS RingFix, RingDyn, MmHeap, Ip4Frag, Etharp, SemAbs, UartP2p, SpiNor

VARIABLE store

MCMsgs == 1 .. 2
MCByteMsgs == {<<1>>, <<2, 1>>, <<0, 1, 3>>, <<1, 2, 3, 0>>}
MCBuffers == {<<0>>, <<0, 1, 0, 0>>, <<1, 0, 0, 1, 0, 1>>}
MCLength == [d \in Datagrams |-> IF d = "x" THEN 32 ELSE 16]

OfFix == store = "FIX" /\ UNCHANGED <<store, dvars, hvars, reassvars, arpvars, absvars, p2pvars, norvars>>
OfDyn == store = "DYN" /\ UNCHANGED <<store, vars, hvars, reassvars, arpvars, absvars, p2pvars, norvars>>
OfHeap == store = "heap" /\ UNCHANGED <<store, vars, dvars, reassvars, arpvars, absvars, p2pvars, norvars>>
OfReass == store = "reass" /\ UNCHANGED <<store, vars, dvars, hvars, arpvars, absvars, p2pvars, norvars>>
OfArp == store = "arp" /\ UNCHANGED <<store, vars, dvars, hvars, reassvars, absvars, p2pvars, norvars>>
OfSem == store = "sem" /\ UNCHANGED <<store, vars, dvars, hvars, reassvars, arpvars, p2pvars, norvars>>
OfBridge == store = "bridge" /\ UNCHANGED <<store, vars, dvars, hvars, reassvars, arpvars, absvars, norvars>>
OfFlash == store = "flash" /\ UNCHANGED <<store, vars, dvars, hvars, reassvars, arpvars, absvars, p2pvars>>

InitStores ==
  /\ Init /\ InitDyn /\ InitHeap /\ InitReass /\ InitArp /\ InitAbs /\ InitP2p /\ InitNor
  /\ store \in {"FIX", "DYN", "heap", "reass", "arp", "sem", "bridge", "flash"}

NextStores ==
  \/ OfFix /\ \E m \in Msgs : ringbuf_push(m)
  \/ OfFix /\ ringbuf_pop
  \/ OfFix /\ ringbuf_reset
  \/ OfDyn /\ \E m \in ByteMsgs : push_dyn(m)
  \/ OfDyn /\ pop_dyn
  \/ OfDyn /\ reset_dyn
  \/ OfHeap /\ mm_malloc
  \/ OfHeap /\ mm_free
  \/ OfReass /\ Receive
  \/ OfReass /\ ip_reass_tmr
  \/ OfArp /\ etharp_input
  \/ OfArp /\ etharp_output
  \/ OfArp /\ etharp_probe
  \/ OfArp /\ etharp_tmr
  \/ OfArp /\ etharp_cleanup_netif
  \/ OfSem /\ Take
  \/ OfSem /\ \E t \in Users : Block(t)
  \/ OfSem /\ GiveCount
  \/ OfSem /\ \E S \in SUBSET Users : GiveTo(S)
  \/ OfSem /\ \E S \in SUBSET Users : GiveUp(S)
  \/ OfSem /\ \E t \in Users : Return(t)
  \/ OfSem /\ \E n \in 0 .. CountMax : CountSet(n)
  \/ OfBridge /\ uart_p2p_irq_hdl
  \/ OfBridge /\ uart_p2p_timer_cb
  \/ OfBridge /\ hgtimer_v2_irq_handler
  \/ OfBridge /\ uart_p2p_recv
  \/ OfBridge /\ RecvUp
  \/ OfBridge /\ uart_p2p_task
  \/ OfBridge /\ uart_p2p_rx_data
  \/ OfBridge /\ dw_dmac_xfer
  \/ OfBridge /\ StartXfer
  \/ OfBridge /\ hguart_puts
  \/ OfBridge /\ uart_p2p_tx_data
  \/ OfBridge /\ RB_GET
  \/ OfBridge /\ SendEther
  \/ OfBridge /\ \E ch \in Channels : Finish(ch)
  \/ OfBridge /\ dw_dmac_irq_handler
  \/ OfBridge /\ OtherXfer
  \/ OfFlash /\ spi_nor_open
  \/ OfFlash /\ spi_nor_close
  \/ OfFlash /\ spi_nor_write
  \/ OfFlash /\ Program
  \/ OfFlash /\ spi_nor_sector_erase
  \/ OfFlash /\ spi_nor_block_erase
  \/ OfFlash /\ spi_nor_chip_erase

SpecStores ==
  InitStores /\ [][NextStores]_<<store, vars, dvars, hvars, reassvars, arpvars, absvars, p2pvars, norvars>>
==============================================================================
