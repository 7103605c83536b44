------------------------------- MODULE KQueue -------------------------------
(***************************************************************************)
(* Message queues (k_queue.c) and buffer queues (k_buf_queue.c) with their *)
(* CSI names (csi_rhino.c, message queues), composed with tasks and the    *)
(* tick.  A queue passes pointers and holds a number of them; a buffer     *)
(* queue copies messages of any length up to a maximum and holds a number  *)
(* of bytes.  Tasks and interrupt handlers send; tasks receive and block,  *)
(* interrupt handlers receive without waiting.                             *)
(*                                                                         *)
(* The ring buffer under both is a sequence here: RingFix and RingDyn show *)
(* that it is one.  A message is its length and a serial number, counted   *)
(* modulo Serials.  peak_num and min_free_buf_size are statistics nobody   *)
(* in the kernel reads and are left out.                                   *)
(***************************************************************************)
EXTENDS KTask

CONSTANTS Queues,         \* queues of either kind
          Kinds,          \* the kinds a run covers: "queue", "buf_queue"
          MsgNum,         \* msg_num of krhino_queue_create
          MsgCount, MsgSize,      \* arguments of csi_kernel_msgq_new
          Lens,           \* message lengths sent
          Serials,        \* serial numbers
          RecvTicks,      \* timeouts of receives, 0 and Forever included
          DelQueues       \* queues that are deleted and created again

ASSUME QueueConstants ==
  /\ Queues \subseteq Objs \ Mutexes /\ DelQueues \subseteq Queues
  /\ Kinds \subseteq {"queue", "buf_queue"} /\ Lens \subseteq Nat
  /\ MsgNum \in Nat \ {0} /\ MsgCount \in Nat \ {0} /\ MsgSize \in Nat \ {0}
  /\ Serials \in Nat \ {0} /\ RecvTicks \subseteq Nat \cup {Forever}

VARIABLES queues,         \* queues whose obj_type says that they exist
          kind,
          ring, cur_num,
          msg,            \* what a blocked task has been handed, if anything
          sent, taken     \* history: serial numbers of the next message to be
                          \* accepted and of the next to be handed out

queuevars == <<queues, kind, ring, cur_num, msg, sent, taken>>
qvars == <<k, queuevars>>

\* csi_kernel_msgq_new asks for this many bytes.
BufBytes == MsgSize * (MsgCount + 1)

\* Bytes of the length field in front of a message.
COMPRESS_LEN(len) == IF len <= 127 THEN 1 ELSE IF len <= 16383 THEN 2 ELSE 3

Cost(len) == COMPRESS_LEN(len) + len

freesize(q) == BufBytes - FoldLeft(LAMBDA n, m : n + Cost(m.len), 0, ring[q])

\* What ringbuf_push refuses.
Fits(q, len) == freesize(q) >= 2 /\ freesize(q) >= Cost(len)

NextSerial(n) == (n + 1) % Serials

-----------------------------------------------------------------------------
(* Sending *)

Enqueue_Newest(q, m) ==
  /\ ring' = [ring EXCEPT ![q] = IF @ = <<>> THEN <<m>> ELSE Append(Front(@), m)]
  /\ cur_num' = [cur_num EXCEPT ![q] = @ + 1]
  /\ sent' = [sent EXCEPT ![q] = NextSerial(@)]
  /\ UNCHANGED <<k, queues, kind, msg, taken>>

\* Nobody waits: the message goes into the ring.
Enqueue(q, m) ==
  /\ ring' = [ring EXCEPT ![q] = Append(@, m)]
  /\ cur_num' = [cur_num EXCEPT ![q] = @ + 1]
  /\ sent' = [sent EXCEPT ![q] = NextSerial(@)]
  /\ UNCHANGED <<k, queues, kind, msg, taken>>

\* Otherwise it goes straight to tasks that wait.
Hand(q, m, woken, isr) ==
  /\ msg' = [t \in Tasks |-> IF t \in ToSet(woken) THEN <<m>> ELSE msg[t]]
  /\ k' = ExitSched(isr, FoldLeft(pend_task_wakeup, k, woken))
  /\ sent' = [sent EXCEPT ![q] = NextSerial(@)]
  /\ taken' = [taken EXCEPT ![q] = NextSerial(@)]
  /\ UNCHANGED <<queues, kind, ring, cur_num>>

\* msg_send: to the first task that waits, or to all (krhino_queue_all_send).
msg_send(q, wake_all, isr) ==
  LET m == [len |-> 0, serial |-> sent[q]]
      list == k.blk_list[q]
  IN  /\ kind[q] = "queue" /\ cur_num[q] < MsgNum
      /\ \/ list = <<>> /\ Enqueue(q, m)
         \/ list # <<>> /\ Hand(q, m, IF wake_all THEN list ELSE <<Head(list)>>, isr)

buf_queue_send_OnlyQueues(q, len, isr) ==
  /\ kind[q] = "buf_queue" /\ len <= MsgSize /\ len # 0 /\ Fits(q, len)
  /\ Enqueue(q, [len |-> len, serial |-> sent[q]])

buf_queue_send_CopiesLate(q, len, isr) ==
  LET m == [len |-> len, serial |-> sent[q]]
      list == k.blk_list[q]
  IN  /\ kind[q] = "buf_queue" /\ len <= MsgSize /\ len # 0
      /\ \/ list = <<>> /\ Fits(q, len) /\ Enqueue(q, m)
         \/ /\ list # <<>>
            /\ k' = ExitSched(isr, pend_task_wakeup(k, Head(list)))
            /\ sent' = [sent EXCEPT ![q] = NextSerial(@)]
            /\ taken' = [taken EXCEPT ![q] = NextSerial(@)]
            /\ UNCHANGED <<queues, kind, ring, cur_num, msg>>

buf_queue_send(q, len, isr) ==
  LET m == [len |-> len, serial |-> sent[q]]
      list == k.blk_list[q]
  IN  /\ kind[q] = "buf_queue" /\ len <= MsgSize /\ len # 0
      /\ \/ list = <<>> /\ Fits(q, len) /\ Enqueue(q, m)
         \/ list # <<>> /\ Hand(q, m, <<Head(list)>>, isr)

\* csi_kernel_msgq_put heeds neither front_or_back nor its timeout.
msgq_put ==
  \E t \in Tasks, q \in queues, len \in Lens : Caller(t) /\ buf_queue_send(q, len, FALSE)

queue_send ==
  \E t \in Tasks, q \in queues, wake_all \in BOOLEAN : Caller(t) /\ msg_send(q, wake_all, FALSE)

Interruptible == k.active \notin k.irq_off /\ ~k.fatal

IsrSend ==
  \E q \in queues :
    /\ Interruptible
    /\ msg_send(q, FALSE, TRUE) \/ \E len \in Lens : buf_queue_send(q, len, TRUE)

-----------------------------------------------------------------------------
(* Receiving *)

Pop(q) ==
  /\ ring' = [ring EXCEPT ![q] = Tail(@)]
  /\ cur_num' = [cur_num EXCEPT ![q] = @ - 1]
  /\ taken' = [taken EXCEPT ![q] = NextSerial(@)]
  /\ UNCHANGED <<k, queues, kind, msg, sent>>

Wait(t, q, ticks) ==
  /\ ticks # 0 /\ CanBlock
  /\ k' = Resched(pend_to_blk_obj(k, q, t, ticks))
  /\ UNCHANGED <<queues, kind, ring, cur_num, msg, sent, taken>>

\* A queue judges by cur_num whether it has a message,
queue_recv ==
  \E t \in Tasks, q \in queues, ticks \in RecvTicks :
    /\ Caller(t) /\ kind[q] = "queue"
    /\ IF cur_num[q] > 0 THEN Pop(q) ELSE Wait(t, q, ticks)

\* and a buffer queue by its ring.
buf_queue_recv ==
  \E t \in Tasks, q \in queues, ticks \in RecvTicks :
    /\ Caller(t) /\ kind[q] = "buf_queue"
    /\ IF ring[q] # <<>> THEN Pop(q) ELSE Wait(t, q, ticks)

\* Interrupt handlers receive what is there.
IsrRecv ==
  \E q \in queues :
    /\ Interruptible
    /\ IF kind[q] = "queue" THEN cur_num[q] > 0 ELSE ring[q] # <<>>
    /\ Pop(q)

-----------------------------------------------------------------------------
(* Flushing, deletion and creation *)

\* ringbuf_reset: the messages in the ring are dropped.
Emptied(q) ==
  /\ ring' = [ring EXCEPT ![q] = <<>>]
  /\ taken' = [taken EXCEPT ![q] = sent[q]]

queue_flush ==
  \E t \in Tasks, q \in queues :
    /\ Caller(t) /\ kind[q] = "queue" /\ Emptied(q)
    /\ cur_num' = [cur_num EXCEPT ![q] = 0]
    /\ UNCHANGED <<k, queues, kind, msg, sent>>

buf_queue_flush ==
  \E t \in Tasks, q \in queues :
    /\ Caller(t) /\ kind[q] = "buf_queue" /\ Emptied(q)
    /\ cur_num' = [cur_num EXCEPT ![q] = 0]
    /\ UNCHANGED <<k, queues, kind, msg, sent>>

\* Whoever waits is told; cur_num keeps its value until the next creation.
Deleted(q) ==
  /\ Emptied(q)
  /\ k' = Resched(WakeAll(k, q, "DEL"))
  /\ queues' = queues \ {q}
  /\ UNCHANGED <<kind, cur_num, msg, sent>>

queue_del ==
  \E t \in Tasks, q \in queues \cap DelQueues : Caller(t) /\ kind[q] = "queue" /\ Deleted(q)

buf_queue_del ==
  \E t \in Tasks, q \in queues \cap DelQueues : Caller(t) /\ kind[q] = "buf_queue" /\ Deleted(q)

Created(q) ==
  /\ queues' = queues \cup {q}
  /\ ring' = [ring EXCEPT ![q] = <<>>] /\ cur_num' = [cur_num EXCEPT ![q] = 0]
  /\ UNCHANGED <<k, kind, msg, sent, taken>>

\* queue_create sets obj_type, by which others know the queue, last.
queue_create ==
  \E t \in Tasks, q \in DelQueues \ queues : Caller(t) /\ kind[q] = "queue" /\ Created(q)

\* buf_queue_create sets it before the ring is ready, but others learn of the
\* queue from krhino_buf_queue_dyn_create only when it is complete.
buf_queue_create ==
  \E t \in Tasks, q \in DelQueues \ queues : Caller(t) /\ kind[q] = "buf_queue" /\ Created(q)

\* msg matters only while a receive is pending.
ForgetMsg ==
  /\ msg' = [t \in Tasks |-> IF k'.call[t] = None THEN <<>> ELSE msg[t]]
  /\ UNCHANGED <<queues, kind, ring, cur_num, sent, taken>>

QueueReturn == pend_state_end_proc /\ ForgetMsg

\* The steps of KTask.
QueueTaskStep == Next /\ ForgetMsg

InitQueue ==
  /\ InitKernel /\ queues = Queues /\ kind \in [Queues -> Kinds]
  /\ ring = [q \in Queues |-> <<>>] /\ cur_num = [q \in Queues |-> 0]
  /\ msg = [t \in Tasks |-> <<>>]
  /\ sent = [q \in Queues |-> 0] /\ taken = [q \in Queues |-> 0]

QueueCall == queue_send \/ queue_recv \/ queue_flush \/ queue_del \/ queue_create

MsgqCall == msgq_put \/ buf_queue_recv \/ buf_queue_flush \/ buf_queue_del \/ buf_queue_create

NextQueue == QueueCall \/ MsgqCall \/ IsrSend \/ IsrRecv \/ QueueReturn \/ QueueTaskStep

SpecQueue == InitQueue /\ [][NextQueue]_qvars

-----------------------------------------------------------------------------
(* Properties *)

\* No wake-up is lost: nobody waits at a queue that holds a message, or that
\* has been deleted, although queues judge that by cur_num and buffer queues by
\* the ring.
NoWaitWithMessages ==
  \A q \in Queues : ring[q] # <<>> \/ q \notin queues => k.blk_list[q] = <<>>

\* Every message that a send accepts is handed out once, in the order of the
\* sends, whether it goes through the ring or straight to a task that waits;
\* the count that csi_kernel_msgq_get_count reports is that of the messages.
InOrder ==
  \A q \in queues :
    /\ cur_num[q] = Len(ring[q])
    /\ \A i \in DOMAIN ring[q] : ring[q][i].serial = (taken[q] + i - 1) % Serials
    /\ sent[q] = (taken[q] + Len(ring[q])) % Serials

\* A message handed to a blocked task is the result of its receive, and a
\* receive that ran out of time or lost its queue got none: a send and a
\* timeout at the same moment neither lose a message nor invent one.
HandedOver ==
  \A t \in Tasks :
    k.call[t] \in Queues /\ k.task_state[t] # "DELETED" =>
      (msg[t] # <<>> <=> k.task_state[t] \notin Pending /\ k.blk_state[t] = "FINISH")

\* "msg_count maximum number of messages in queue": a queue made for MsgCount
\* messages takes that many before it refuses one.
HoldsMsgCount ==
  \A q \in queues : kind[q] = "buf_queue" /\ Len(ring[q]) < MsgCount => Fits(q, MsgSize)

\* A message that was accepted reaches one receiver, in its turn, and nobody
\* sleeps beside it, whichever of krhino_queue_recv, the tick, a flush, an
\* interrupt handler or a deletion comes first.
QueuesSound == NoWaitWithMessages /\ InOrder /\ HandedOver
=============================================================================
