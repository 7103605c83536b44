------------------------------- MODULE RingFix -------------------------------
(***************************************************************************)
(* The ring buffer of fixed-size blocks (k_ringbuf.c, RINGBUF_TYPE_FIX),   *)
(* the storage of message queues and of the timer's command queue.         *)
(*                                                                         *)
(* Pointers are counted in blocks from buf, so that end is Blocks: krhino_ *)
(* ringbuf_init and the queues make the buffer a whole number of blocks,   *)
(* and every pointer moves by one block.  A pointer rests on end until the *)
(* next operation needs it.                                                *)
(***************************************************************************)
EXTENDS Integers, Sequences

CONSTANTS Blocks,         \* capacity: (end - buf) / blk_size
          Msgs,           \* contents of a block
          NoData          \* contents of the memory before it is written

ASSUME RingFixConstants == Blocks \in Nat \ {0} /\ NoData \notin Msgs

VARIABLES data,           \* the memory from buf to end
          head, tail, freesize,
          got             \* the block the last pop copied out, if any

vars == <<data, head, tail, freesize, got>>

\* A pointer that has reached the end goes back to buf before it is used.
Wrapped(p) == IF p = Blocks THEN 0 ELSE p

ringbuf_is_full == freesize < 1
ringbuf_is_empty == freesize = Blocks

Init ==
  /\ data = [i \in 0 .. Blocks - 1 |-> NoData]
  /\ head = 0 /\ tail = 0 /\ freesize = Blocks
  /\ got = <<>>

ringbuf_push_NoCheck(m) ==
  /\ data' = [data EXCEPT ![Wrapped(tail)] = m]
  /\ tail' = Wrapped(tail) + 1
  /\ freesize' = freesize - 1
  /\ UNCHANGED <<head, got>>

ringbuf_push(m) ==
  /\ ~ringbuf_is_full
  /\ data' = [data EXCEPT ![Wrapped(tail)] = m]
  /\ tail' = Wrapped(tail) + 1
  /\ freesize' = freesize - 1
  /\ UNCHANGED <<head, got>>

ringbuf_pop_Newest ==
  /\ ~ringbuf_is_empty
  /\ got' = <<data[tail - 1]>>
  /\ head' = Wrapped(head) + 1
  /\ freesize' = freesize + 1
  /\ UNCHANGED <<data, tail>>

ringbuf_pop ==
  /\ ~ringbuf_is_empty
  /\ got' = <<data[Wrapped(head)]>>
  /\ head' = Wrapped(head) + 1
  /\ freesize' = freesize + 1
  /\ UNCHANGED <<data, tail>>

ringbuf_reset_KeepsTail ==
  /\ head' = 0 /\ freesize' = Blocks
  /\ UNCHANGED <<data, tail, got>>

ringbuf_reset ==
  /\ head' = 0 /\ tail' = 0 /\ freesize' = Blocks
  /\ UNCHANGED <<data, got>>

Next == (\E m \in Msgs : ringbuf_push(m)) \/ ringbuf_pop \/ ringbuf_reset

Spec == Init /\ [][Next]_vars

-----------------------------------------------------------------------------
(* Properties *)

TypeOK ==
  /\ data \in [0 .. Blocks - 1 -> Msgs \cup {NoData}]
  /\ head \in 0 .. Blocks /\ tail \in 0 .. Blocks /\ freesize \in 0 .. Blocks
  /\ got = <<>> \/ \E m \in Msgs : got = <<m>>

Used == Blocks - freesize

\* The place of the i-th block (from 0) behind the head h.
Place(h, i) == IF h + i < Blocks THEN h + i
               ELSE IF h + i < 2 * Blocks THEN h + i - Blocks
               ELSE h + i - 2 * Blocks

\* Head, tail and the count of free blocks, which are kept separately, describe
\* the same blocks, and these hold messages: nothing uninitialised is popped.
Consistent ==
  /\ Wrapped(tail) = Place(head, Used)
  /\ \A i \in 0 .. Used - 1 : data[Place(head, i)] \in Msgs

\* The queue that the buffer stands for.
Queue == [i \in 1 .. Used |-> data[Place(head, i - 1)]]

HasRoom(s, m) == Len(s) < Blocks

F == INSTANCE Fifo WITH q <- Queue, Fits <- HasRoom

\* The ring buffer is a bounded queue: blocks come out in the order they went
\* in, unchanged, wherever the pointers wrap and whenever it is reset.
ImplementsFifo == F!Spec
=============================================================================
