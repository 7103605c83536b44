----------------------------- MODULE KernelProofs ----------------------------
(***************************************************************************)
(* Two objects of the kernel, each by itself. The ring buffer of           *)
(* fixed-size blocks implements a bounded queue, for any number of blocks  *)
(* and any messages. A semaphore never lets a task wait beside a token,    *)
(* and never loses or makes one, for any number of tasks and any CountMax. *)
(***************************************************************************)
EXTENDS RingFix, SemAbs, SequenceTheorems, FiniteSetTheorems, TLAPS

-----------------------------------------------------------------------------
\* The ring buffer of k_ringbuf.c.
RingInv == TypeOK /\ Consistent

\* Places are inside the memory, and two blocks less than a buffer apart never
\* share one.
LEMMA PlaceFacts ==
  ASSUME TypeOK
  PROVE  /\ \A i \in 0 .. Blocks : Place(head, i) \in 0 .. Blocks - 1
         /\ \A i, j \in 0 .. Blocks - 1 : i # j => Place(head, i) # Place(head, j)
BY RingFixConstants DEF RingFixConstants, TypeOK, Place

\* Init establishes the invariant.
LEMMA InitRing == Init => RingInv
BY RingFixConstants DEF RingFixConstants, Init, RingInv, TypeOK, Consistent, Wrapped, Place, Used

\* A push writes the place behind the last block and no other block in use.
LEMMA PushRing ==
  ASSUME RingInv, NEW m \in Msgs, ringbuf_push(m)
  PROVE  /\ RingInv' /\ head' = head
         /\ Used \in 0 .. Blocks - 1 /\ Used' = Used + 1
         /\ \A i \in 0 .. Used - 1 : data'[Place(head, i)] = data[Place(head, i)]
         /\ data'[Place(head, Used)] = m
<1>1. TypeOK'
  BY RingFixConstants DEF RingFixConstants, RingInv, TypeOK, ringbuf_push, ringbuf_is_full, Wrapped
<1>2. /\ Used \in 0 .. Blocks - 1 /\ Used' = Used + 1
      /\ head' = head
      /\ data' = [data EXCEPT ![Place(head, Used)] = m]
  BY RingFixConstants DEF RingFixConstants, RingInv, TypeOK, Consistent, ringbuf_push,
    ringbuf_is_full, Used, Place
<1>3. \A i \in 0 .. Used - 1 : data'[Place(head, i)] = data[Place(head, i)]
  BY <1>2, PlaceFacts, RingFixConstants DEF RingFixConstants, RingInv, TypeOK
<1>4. data'[Place(head, Used)] = m
  BY <1>2, PlaceFacts, RingFixConstants DEF RingFixConstants, RingInv, TypeOK
<1>5. Wrapped(tail)' = Place(head', Used')
  BY RingFixConstants DEF RingFixConstants, RingInv, TypeOK, Consistent, ringbuf_push,
    ringbuf_is_full, Used, Place, Wrapped
<1>6. \A i \in 0 .. Used' - 1 : data'[Place(head', i)] \in Msgs
  BY <1>2, <1>3, <1>4, RingFixConstants DEF RingFixConstants, RingInv, Consistent
<1>7. QED
  BY <1>1, <1>2, <1>3, <1>4, <1>5, <1>6 DEF RingInv, Consistent

\* A pop takes the first block; what was behind it moves up by one.
LEMMA PopRing ==
  ASSUME RingInv, ringbuf_pop
  PROVE  /\ RingInv'
         /\ Used \in 1 .. Blocks /\ Used' = Used - 1
         /\ \A i \in 0 .. Used - 2 : data'[Place(head', i)] = data[Place(head, i + 1)]
         /\ got' = <<data[Place(head, 0)]>>
<1>1. Used \in 1 .. Blocks /\ Used' = Used - 1
  BY RingFixConstants DEF RingFixConstants, RingInv, TypeOK, ringbuf_pop, ringbuf_is_empty, Used
<1>2. \A i \in 0 .. Blocks - 1 : Place(head', i) = Place(head, i + 1)
  BY RingFixConstants DEF RingFixConstants, RingInv, TypeOK, ringbuf_pop, Place, Wrapped
<1>3. got' = <<data[Place(head, 0)]>> /\ data[Place(head, 0)] \in Msgs
  BY <1>1, RingFixConstants DEF RingFixConstants, RingInv, TypeOK, Consistent, ringbuf_pop, Place, Wrapped
<1>4. TypeOK'
  BY <1>3, RingFixConstants DEF RingFixConstants, RingInv, TypeOK, ringbuf_pop, ringbuf_is_empty, Wrapped
<1>5. \A i \in 0 .. Used - 2 : data'[Place(head', i)] = data[Place(head, i + 1)]
  BY <1>1, <1>2, RingFixConstants DEF RingFixConstants, ringbuf_pop
<1>6. Wrapped(tail)' = Place(head', Used')
  <2>1. Wrapped(tail)' = Wrapped(tail)
    BY DEF ringbuf_pop, Wrapped
  <2>2. Place(head', Used') = Place(head, Used)
    BY <1>1, RingFixConstants DEF RingFixConstants, RingInv, TypeOK, ringbuf_pop, Place, Wrapped, Used
  <2>3. QED
    BY <2>1, <2>2 DEF RingInv, Consistent
<1>7. \A i \in 0 .. Used' - 1 : data'[Place(head', i)] \in Msgs
  BY <1>1, <1>5 DEF RingInv, Consistent
<1>8. QED
  BY <1>1, <1>3, <1>4, <1>5, <1>6, <1>7 DEF RingInv, Consistent

\* A reset leaves an empty buffer.
LEMMA ResetRing ==
  ASSUME RingInv, ringbuf_reset
  PROVE  RingInv' /\ Used' = 0
BY RingFixConstants DEF RingFixConstants, RingInv, TypeOK, Consistent, ringbuf_reset, Wrapped, Place, Used

\* Every step preserves the invariant.
LEMMA NextRing == RingInv /\ [Next]_vars => RingInv'
<1> SUFFICES ASSUME RingInv, [Next]_vars PROVE RingInv'
  OBVIOUS
<1>1. ASSUME NEW m \in Msgs, ringbuf_push(m) PROVE RingInv'
  BY <1>1, PushRing
<1>2. CASE ringbuf_pop
  BY <1>2, PopRing
<1>3. CASE ringbuf_reset
  BY <1>3, ResetRing
<1>4. CASE UNCHANGED vars
  BY <1>4 DEF vars, RingInv, TypeOK, Consistent, Wrapped, Place, Used
<1>5. QED
  BY <1>1, <1>2, <1>3, <1>4 DEF Next

\* Head, tail and freesize always describe the same blocks, all of them written.
THEOREM AlwaysConsistent == Spec => [](TypeOK /\ Consistent)
BY InitRing, NextRing, PTL DEF Spec, RingInv

-----------------------------------------------------------------------------
(* Refinement *)

\* A push appends its message to the queue.
LEMMA PushQueue ==
  ASSUME RingInv, NEW m \in Msgs, ringbuf_push(m)
  PROVE  F!Push(m)
<1>1. Used \in 0 .. Blocks - 1 /\ Used' = Used + 1 /\ head' = head
  BY PushRing
<1>2. Queue \in Seq(Msgs) /\ Len(Queue) = Used
  BY <1>1 DEF RingInv, Consistent, Queue
<1>3. Queue' = Append(Queue, m)
  <2>1. Queue' = [i \in 1 .. Used + 1 |-> data'[Place(head, i - 1)]]
    BY <1>1 DEF Queue
  <2>2. \A i \in 1 .. Used : data'[Place(head, i - 1)] = data[Place(head, i - 1)]
    BY <1>1, PushRing
  <2>3. data'[Place(head, Used)] = m
    BY PushRing
  <2>4. Queue' \in Seq(Msgs) /\ Len(Queue') = Used + 1
    BY <1>1, <2>1, <2>2, <2>3, PushRing DEF RingInv, Consistent
  <2>5. /\ Append(Queue, m) \in Seq(Msgs) /\ Len(Append(Queue, m)) = Used + 1
        /\ \A i \in 1 .. Used : Append(Queue, m)[i] = Queue[i]
        /\ Append(Queue, m)[Used + 1] = m
    BY <1>2, AppendProperties
  <2>6. \A i \in 1 .. Used + 1 : Queue'[i] = Append(Queue, m)[i]
    BY <1>1, <2>1, <2>2, <2>3, <2>5 DEF Queue
  <2>7. QED
    BY <2>4, <2>5, <2>6, SeqEqual
<1>4. HasRoom(Queue, m)
  BY <1>1, <1>2, RingFixConstants DEF HasRoom, RingFixConstants
<1>5. got' = got
  BY DEF ringbuf_push
<1>6. QED
  BY <1>3, <1>4, <1>5 DEF F!Push

\* A pop returns the head of the queue and removes it.
LEMMA PopQueue ==
  ASSUME RingInv, ringbuf_pop
  PROVE  F!Pop
<1>1. Used \in 1 .. Blocks /\ Used' = Used - 1 /\ got' = <<data[Place(head, 0)]>>
  BY PopRing
<1>2. Queue \in Seq(Msgs) /\ Len(Queue) = Used
  BY <1>1, RingFixConstants DEF RingInv, Consistent, Queue, RingFixConstants
<1>3. Queue # <<>> /\ got' = <<Head(Queue)>>
  BY <1>1, <1>2 DEF Queue
<1>4. Queue' = Tail(Queue)
  <2>1. Queue' = [i \in 1 .. Used - 1 |-> data'[Place(head', i - 1)]]
    BY <1>1 DEF Queue
  <2>2. \A i \in 1 .. Used - 1 : data'[Place(head', i - 1)] = data[Place(head, i)]
    BY <1>1, PopRing
  <2>3. Queue' \in Seq(Msgs) /\ Len(Queue') = Used - 1
    BY <1>1, <2>1, PopRing DEF RingInv, Consistent
  <2>4. /\ Tail(Queue) \in Seq(Msgs) /\ Len(Tail(Queue)) = Used - 1
        /\ \A i \in 1 .. Used - 1 : Tail(Queue)[i] = Queue[i + 1]
    BY <1>2, <1>3, HeadTailProperties
  <2>5. \A i \in 1 .. Used - 1 : Queue'[i] = Tail(Queue)[i]
    BY <1>1, <2>1, <2>2, <2>4 DEF Queue
  <2>6. QED
    BY <2>3, <2>4, <2>5, SeqEqual
<1>5. QED
  BY <1>3, <1>4 DEF F!Pop

\* The fixed-size ring buffer implements a bounded FIFO queue.
THEOREM Refinement == Spec => ImplementsFifo
<1>1. Init => F!Init
  <2> SUFFICES ASSUME Init PROVE Queue = <<>> /\ got = <<>>
    BY DEF F!Init
  <2>1. Used = 0
    BY RingFixConstants DEF Init, Used, RingFixConstants
  <2>2. QED
    BY <2>1 DEF Init, Queue
<1>2. RingInv /\ [Next]_vars => [F!Next]_F!vars
  <2> SUFFICES ASSUME RingInv, [Next]_vars PROVE [F!Next]_F!vars
    OBVIOUS
  <2>1. ASSUME NEW m \in Msgs, ringbuf_push(m) PROVE F!Next
    BY <2>1, PushQueue DEF F!Next
  <2>2. CASE ringbuf_pop
    BY <2>2, PopQueue DEF F!Next
  <2>3. CASE ringbuf_reset
    <3>1. Used' = 0 /\ got' = got
      BY <2>3, ResetRing DEF ringbuf_reset
    <3>2. Queue' = <<>>
      BY <3>1 DEF Queue
    <3>3. QED
      BY <3>1, <3>2 DEF F!Next, F!Reset
  <2>4. CASE UNCHANGED vars
    BY <2>4 DEF vars, F!vars, Queue, Used
  <2>5. QED
    BY <2>1, <2>2, <2>3, <2>4 DEF Next
<1>3. QED
  BY <1>1, <1>2, InitRing, NextRing, PTL DEF Spec, ImplementsFifo, F!Spec

-----------------------------------------------------------------------------
\* The semaphore of k_sem.c.

\* Every set of tasks is finite, so that it has a cardinality.
LEMMA FiniteUsers ==
  ASSUME NEW S \in SUBSET Users
  PROVE  IsFiniteSet(S) /\ Cardinality(S) \in Nat
BY SemAbsConstants, FS_Subset, FS_CardinalityType DEF SemAbsConstants

\* The initial state satisfies the inductive invariant.
LEMMA InitIInv == InitAbs => IInv
BY SemAbsConstants, FS_EmptySet DEF InitAbs, IInv, TypeOKAbs, TokensSound, NoWaitWithTokens, TokensConserved,
  SemAbsConstants

\* A give to waiting tasks moves its tokens to them, whether sem_give wakes one
\* task or all of them.
LEMMA GiveToIInv ==
  ASSUME NEW S \in SUBSET Users, IInv, GiveTo(S)
  PROVE  IInv'
<1>1. TypeOKAbs' /\ NoWaitWithTokens' /\ (waiting \cap granted = {})'
  <2>1. balance' \in Int
    BY FiniteUsers DEF GiveTo, IInv, TypeOKAbs
  <2>2. QED
    BY <2>1 DEF GiveTo, IInv, TypeOKAbs, TokensSound, NoWaitWithTokens
<1>2. Cardinality(granted \cup S) = Cardinality(granted) + Cardinality(S)
  <2>1. granted \cap S = {}
    BY DEF GiveTo, IInv
  <2>2. granted \in SUBSET Users
    BY DEF IInv, TypeOKAbs
  <2>3. Cardinality(granted \cap S) = 0
    BY <2>1, FS_EmptySet
  <2>4. /\ IsFiniteSet(granted) /\ Cardinality(granted) \in Nat
        /\ IsFiniteSet(S) /\ Cardinality(S) \in Nat
    BY <2>2, FiniteUsers
  <2>5. Cardinality(granted \cup S) =
          Cardinality(granted) + Cardinality(S) - Cardinality(granted \cap S)
    BY <2>4, FS_Union
  <2>6. QED
    BY <2>3, <2>4, <2>5
<1>3. TokensConserved'
  <2>1. Cardinality(granted) \in Nat /\ Cardinality(S) \in Nat
    BY FiniteUsers DEF IInv, TypeOKAbs
  <2>2. QED
    BY <1>2, <2>1 DEF GiveTo, IInv, TypeOKAbs, TokensSound, TokensConserved
<1>4. QED
  BY <1>1, <1>3 DEF IInv, TokensSound

\* A take that returns takes its token along.
LEMMA ReturnIInv ==
  ASSUME NEW t \in Users, IInv, Return(t)
  PROVE  IInv'
<1>1. granted \in SUBSET Users
  BY DEF IInv, TypeOKAbs
<1>2. Cardinality(granted \ {t}) = Cardinality(granted) - 1
  BY <1>1, FiniteUsers, FS_RemoveElement DEF Return
<1>3. Cardinality(granted) \in Nat
  BY <1>1, FiniteUsers
<1>4. QED
  BY <1>2, <1>3 DEF Return, IInv, TypeOKAbs, TokensSound, NoWaitWithTokens, TokensConserved

\* Every step preserves the inductive invariant.
LEMMA NextIInv == IInv /\ [NextAbs]_absvars => IInv'
<1> SUFFICES ASSUME IInv, [NextAbs]_absvars PROVE IInv'
  OBVIOUS
<1> USE DEF IInv, TypeOKAbs, TokensSound, NoWaitWithTokens, TokensConserved
<1>0. Cardinality(granted) \in Nat
  BY FiniteUsers
<1>1. CASE Take
  BY <1>0, <1>1, SemAbsConstants DEF Take, SemAbsConstants
<1>2. CASE GiveCount
  BY <1>0, <1>2, SemAbsConstants DEF GiveCount, SemAbsConstants
<1>3. ASSUME NEW t \in Users, Block(t) PROVE IInv'
  BY <1>0, <1>3 DEF Block
<1>4. ASSUME NEW t \in Users, Return(t) PROVE IInv'
  BY <1>4, ReturnIInv
<1>5. ASSUME NEW S \in SUBSET Users, GiveTo(S) PROVE IInv'
  BY <1>5, GiveToIInv
<1>6. ASSUME NEW S \in SUBSET Users, GiveUp(S) PROVE IInv'
  BY <1>0, <1>6 DEF GiveUp
<1>7. ASSUME NEW n \in 0 .. CountMax, CountSet(n) PROVE IInv'
  BY <1>0, <1>7, SemAbsConstants DEF CountSet, SemAbsConstants
<1>8. CASE UNCHANGED absvars
  BY <1>8 DEF absvars
<1>9. QED
  BY <1>1, <1>2, <1>3, <1>4, <1>5, <1>6, <1>7, <1>8 DEF NextAbs

\* The inductive invariant holds in every reachable state.
THEOREM Invariance == SpecAbs => []IInv
BY InitIInv, NextIInv, PTL DEF SpecAbs

\* The count stays between zero and (sem_count_t)-1, and only tasks wait.
THEOREM TypeCorrect == SpecAbs => []TypeOKAbs
<1>1. IInv => TypeOKAbs
  BY DEF IInv
<1>2. QED
  BY <1>1, Invariance, PTL

\* Under any interleaving of takes, gives, broadcasts and timeouts no task is left
\* waiting at a token (sem_give counts one only when nobody waits, a take blocks
\* only when there is none), and no token is lost or made.
THEOREM TokensAlwaysSound == SpecAbs => []TokensSound
<1>1. IInv => TokensSound
  BY DEF IInv
<1>2. QED
  BY <1>1, Invariance, PTL
==============================================================================
