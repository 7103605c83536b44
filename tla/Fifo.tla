-------------------------------- MODULE Fifo --------------------------------
(***************************************************************************)
(* What a ring buffer of k_ringbuf.c promises: a bounded queue.  It        *)
(* accepts messages while Fits says there is room, hands them back oldest  *)
(* first and unchanged, and can be emptied.                                *)
(***************************************************************************)
EXTENDS Sequences

CONSTANTS Msgs,           \* messages
          Fits(_, _)      \* Fits(q, m): there is room for m behind the queue q

VARIABLES q,              \* the messages, oldest first
          got             \* what the last pop returned

vars == <<q, got>>

Init == q = <<>> /\ got = <<>>

Push(m) == Fits(q, m) /\ q' = Append(q, m) /\ UNCHANGED got

Pop == q # <<>> /\ got' = <<Head(q)>> /\ q' = Tail(q)

Reset == q' = <<>> /\ UNCHANGED got

Next == (\E m \in Msgs : Push(m)) \/ Pop \/ Reset

Spec == Init /\ [][Next]_vars
=============================================================================
