---------------------------------- MODULE Pbuf ----------------------------------
(***************************************************************************)
(* Packet buffers (pbuf.c): chains of pbufs with reference counts, used by *)
(* several threads at once. A pointer is a variable of some thread that    *)
(* refers to a pbuf it may use, or is inside pbuf_alloc or pbuf_free with  *)
(* it; passing a packet on to another thread is passing on its pointer.    *)
(* Only the change of one count is protected (SYS_ARCH_PROTECT).           *)
(*                                                                         *)
(* A caller changes a chain only if nobody else refers to its pbufs, as    *)
(* the comments of pbuf.c ask for. Contents are left out.                  *)
(***************************************************************************)
EXTENDS Integers, FiniteSets

CONSTANTS Pbufs, NULL, Pointers,
          Lengths,        \* asked for
          POOL_BUFSIZE,   \* PBUF_POOL_BUFSIZE
          MAX_REF,        \* bound on the references to one pbuf
          MAX_TOT         \* bound on the length of a packet

ASSUME PbufConstants ==
  /\ IsFiniteSet(Pbufs) /\ IsFiniteSet(Pointers) /\ NULL \notin Pbufs
  /\ Lengths \subseteq Nat /\ POOL_BUFSIZE \in Nat \ {0}
  /\ MAX_REF \in Nat /\ MAX_TOT \in Nat

VARIABLES taken,          \* the pbufs that are allocated
          next, len, tot_len, ref,
          ptr             \* what each pointer refers to, and where its thread is

pbufvars == <<taken, next, len, tot_len, ref, ptr>>

Unused == [p |-> NULL, pc |-> "held", last |-> NULL, rem_len |-> 0, ref |-> 0]
Held(p) == [Unused EXCEPT !.p = p]
ToFree(p) == IF p = NULL THEN Unused ELSE [Unused EXCEPT !.p = p, !.pc = "dec"]

Holds(x, p) == p \in Pbufs /\ ptr[x] = Held(p)

\* The pbufs of the chain that begins at p: the least set that has p and, with a
\* pbuf, the next one.
IsChain(g, S) == \A q \in S : g[q] = NULL \/ g[q] \in S
ChainOf(g, p) == {q \in Pbufs : \A S \in SUBSET Pbufs : p \in S /\ IsChain(g, S) => q \in S}
Chain(p) == ChainOf(next, p)

\* Nobody else refers to a pbuf of the chain, or to its first one from another pbuf.
Owned(p) == \A q \in Chain(p) : ref[q] = 1
IsHead(p) == \A q \in Pbufs : next[q] # p

-----------------------------------------------------------------------------
New(q, n, total) ==
  /\ q \in Pbufs \ taken
  /\ taken' = taken \cup {q}
  /\ len' = [len EXCEPT ![q] = n] /\ tot_len' = [tot_len EXCEPT ![q] = total]
  /\ ref' = [ref EXCEPT ![q] = 1]

\* PBUF_RAM, PBUF_ROM, PBUF_REF; without memory nothing changes.
pbuf_alloc(x) ==
  /\ ptr[x] = Unused
  /\ \E q \in Pbufs, n \in Lengths :
       New(q, n, n) /\ ptr' = [ptr EXCEPT ![x] = Held(q)]
  /\ UNCHANGED next

\* PBUF_POOL: one round of the loop, with the head p and the last pbuf so far.
PoolLen(rem_len) == IF rem_len < POOL_BUFSIZE THEN rem_len ELSE POOL_BUFSIZE
Allocating(p, q, rem_len) ==
  IF rem_len = 0 THEN Held(p)
  ELSE [p |-> p, pc |-> "alloc", last |-> q, rem_len |-> rem_len, ref |-> 0]

AllocPool(x) ==
  /\ ptr[x] = Unused
  /\ \E q \in Pbufs, n \in Lengths :
       /\ New(q, PoolLen(n), n)
       /\ ptr' = [ptr EXCEPT ![x] = Allocating(q, q, n - PoolLen(n))]
  /\ UNCHANGED next

AllocMore(x) ==
  /\ ptr[x].pc = "alloc"
  /\ \E q \in Pbufs :
       LET n == PoolLen(ptr[x].rem_len)
       IN /\ New(q, n, ptr[x].rem_len)
          /\ next' = [next EXCEPT ![ptr[x].last] = q]
          /\ ptr' = [ptr EXCEPT ![x] = Allocating(ptr[x].p, q, ptr[x].rem_len - n)]

\* The pool is empty: what has been allocated is freed.
AllocFails(x) ==
  /\ ptr[x].pc = "alloc" /\ taken = Pbufs
  /\ ptr' = [ptr EXCEPT ![x] = ToFree(ptr[x].p)]
  /\ UNCHANGED <<taken, next, len, tot_len, ref>>

-----------------------------------------------------------------------------
pbuf_ref(x, y) == \E p \in Pbufs :
  /\ Holds(x, p) /\ ptr[y] = Unused /\ ref[p] < MAX_REF
  /\ ref' = [ref EXCEPT ![p] = @ + 1]
  /\ ptr' = [ptr EXCEPT ![y] = Held(p)]
  /\ UNCHANGED <<taken, next, len, tot_len>>

pbuf_free(x) == \E p \in Pbufs :
  /\ Holds(x, p)
  /\ ptr' = [ptr EXCEPT ![x] = ToFree(p)]
  /\ UNCHANGED <<taken, next, len, tot_len, ref>>

\* The protected part of the loop of pbuf_free, which keeps the new count in a
\* local variable, and the rest of it.
FreeDec(x) ==
  LET p == ptr[x].p
  IN /\ ptr[x].pc = "dec"
     /\ ref' = [ref EXCEPT ![p] = @ - 1]
     /\ ptr' = [ptr EXCEPT ![x] = [Unused EXCEPT !.p = p, !.pc = "put", !.ref = ref[p] - 1]]
     /\ UNCHANGED <<taken, next, len, tot_len>>

\* To the pool or the heap; what is left in the memory of p is no longer a pbuf.
GiveBack(p) ==
  /\ taken' = taken \ {p} /\ next' = [next EXCEPT ![p] = NULL]
  /\ len' = [len EXCEPT ![p] = 0] /\ tot_len' = [tot_len EXCEPT ![p] = 0]

FreePut_ReadsAgain(x) ==
  LET p == ptr[x].p
  IN /\ ptr[x].pc = "put"
     /\ IF ref[p] = 0
        THEN GiveBack(p) /\ ptr' = [ptr EXCEPT ![x] = ToFree(next[p])]
        ELSE /\ ptr' = [ptr EXCEPT ![x] = Unused]
             /\ UNCHANGED <<taken, next, len, tot_len>>
     /\ UNCHANGED ref

FreePut(x) ==
  LET p == ptr[x].p
  IN /\ ptr[x].pc = "put"
     /\ IF ptr[x].ref = 0
        THEN GiveBack(p) /\ ptr' = [ptr EXCEPT ![x] = ToFree(next[p])]
        ELSE /\ ptr' = [ptr EXCEPT ![x] = Unused]
             /\ UNCHANGED <<taken, next, len, tot_len>>
     /\ UNCHANGED ref

-----------------------------------------------------------------------------
\* The chain at t becomes the tail of the one at h.
Cat(h, t) ==
  /\ Owned(h) /\ h # t /\ tot_len[h] + tot_len[t] <= MAX_TOT
  /\ tot_len' = [q \in Pbufs |-> IF q \in Chain(h) THEN tot_len[q] + tot_len[t] ELSE tot_len[q]]
  /\ \E q \in Chain(h) : next[q] = NULL /\ next' = [next EXCEPT ![q] = t]

\* The head takes over the caller's reference to the tail, or gets one of its own.
pbuf_cat(x, y) == \E h, t \in Pbufs :
  /\ Holds(x, h) /\ Holds(y, t)
  /\ Cat(h, t)
  /\ ptr' = [ptr EXCEPT ![y] = Unused]
  /\ UNCHANGED <<taken, len, ref>>

pbuf_chain_NoRef(x, y) == \E h, t \in Pbufs :
  /\ Holds(x, h) /\ Holds(y, t) /\ ref[t] < MAX_REF
  /\ Cat(h, t)
  /\ UNCHANGED <<taken, len, ref, ptr>>

pbuf_chain(x, y) == \E h, t \in Pbufs :
  /\ Holds(x, h) /\ Holds(y, t) /\ ref[t] < MAX_REF
  /\ Cat(h, t)
  /\ ref' = [ref EXCEPT ![t] = @ + 1]
  /\ UNCHANGED <<taken, len, ptr>>

\* The first pbuf is cut off, and its reference to the rest freed.
pbuf_dechain(x, y) == \E p \in Pbufs :
  LET q == next[p]
  IN /\ Holds(x, p) /\ ptr[y] = Unused /\ IsHead(p) /\ q # NULL
     /\ tot_len' = [tot_len EXCEPT ![q] = tot_len[p] - len[p], ![p] = len[p]]
     /\ next' = [next EXCEPT ![p] = NULL]
     /\ ptr' = [ptr EXCEPT ![y] = ToFree(q)]
     /\ UNCHANGED <<taken, len, ref>>

\* The chain is cut to new_len: the pbufs before its new last one q stay, those
\* behind it are freed. The offset of a pbuf is what the ones before it hold.
pbuf_realloc(x, y) == \E p \in Pbufs, new_len \in 0..MAX_TOT :
  LET offset(q) == tot_len[p] - tot_len[q]
      shrink == tot_len[p] - new_len
  IN /\ Holds(x, p) /\ ptr[y] = Unused /\ Owned(p) /\ shrink > 0
     /\ \E q \in Chain(p) :
          /\ new_len <= offset(q) + len[q] /\ (q = p \/ offset(q) < new_len)
          /\ tot_len' = [r \in Pbufs |->
               IF r = q THEN new_len - offset(q)
               ELSE IF r \in Chain(p) /\ offset(r) + len[r] < new_len THEN tot_len[r] - shrink
               ELSE tot_len[r]]
          /\ len' = [len EXCEPT ![q] = new_len - offset(q)]
          /\ next' = [next EXCEPT ![q] = NULL]
          /\ ptr' = [ptr EXCEPT ![y] = ToFree(next[q])]
     /\ UNCHANGED <<taken, ref>>

\* Headers are hidden and revealed in the first pbuf.
pbuf_remove_header(x) == \E p \in Pbufs, n \in Lengths :
  /\ Holds(x, p) /\ IsHead(p) /\ n <= len[p]
  /\ len' = [len EXCEPT ![p] = @ - n] /\ tot_len' = [tot_len EXCEPT ![p] = @ - n]
  /\ UNCHANGED <<taken, next, ref, ptr>>

pbuf_add_header(x) == \E p \in Pbufs, n \in Lengths :
  /\ Holds(x, p) /\ IsHead(p) /\ tot_len[p] + n <= MAX_TOT
  /\ len' = [len EXCEPT ![p] = @ + n] /\ tot_len' = [tot_len EXCEPT ![p] = @ + n]
  /\ UNCHANGED <<taken, next, ref, ptr>>

\* A round of pbuf_free_header that drops the first pbuf.
pbuf_free_header(x, y) == \E p \in Pbufs :
  /\ Holds(x, p) /\ ptr[y] = Unused /\ Owned(p)
  /\ next' = [next EXCEPT ![p] = NULL]
  /\ ptr' = [ptr EXCEPT ![x] = IF next[p] = NULL THEN Unused ELSE Held(next[p]), ![y] = ToFree(p)]
  /\ UNCHANGED <<taken, len, tot_len, ref>>

\* A chain is copied into one pbuf and freed.
pbuf_coalesce(x, y) == \E p, q \in Pbufs :
  /\ Holds(x, p) /\ ptr[y] = Unused /\ next[p] # NULL
  /\ New(q, tot_len[p], tot_len[p])
  /\ ptr' = [ptr EXCEPT ![x] = Held(q), ![y] = ToFree(p)]
  /\ UNCHANGED next

-----------------------------------------------------------------------------
InitPbuf ==
  /\ taken = {} /\ next = [p \in Pbufs |-> NULL]
  /\ len = [p \in Pbufs |-> 0] /\ tot_len = [p \in Pbufs |-> 0]
  /\ ref = [p \in Pbufs |-> 0] /\ ptr = [x \in Pointers |-> Unused]

NextPbuf ==
  \/ \E x \in Pointers : pbuf_alloc(x)
  \/ \E x \in Pointers : AllocPool(x)
  \/ \E x \in Pointers : AllocMore(x)
  \/ \E x \in Pointers : AllocFails(x)
  \/ \E x, y \in Pointers : pbuf_ref(x, y)
  \/ \E x \in Pointers : pbuf_free(x)
  \/ \E x \in Pointers : FreeDec(x)
  \/ \E x \in Pointers : FreePut(x)
  \/ \E x, y \in Pointers : pbuf_cat(x, y)
  \/ \E x, y \in Pointers : pbuf_chain(x, y)
  \/ \E x, y \in Pointers : pbuf_dechain(x, y)
  \/ \E x, y \in Pointers : pbuf_realloc(x, y)
  \/ \E x \in Pointers : pbuf_remove_header(x)
  \/ \E x \in Pointers : pbuf_add_header(x)
  \/ \E x, y \in Pointers : pbuf_free_header(x, y)
  \/ \E x, y \in Pointers : pbuf_coalesce(x, y)

SpecPbuf == InitPbuf /\ [][NextPbuf]_pbufvars

-----------------------------------------------------------------------------
\* The pointers that count as a reference to p, and the pbufs before p.
PointersTo(p) == {x \in Pointers : ptr[x].p = p /\ ptr[x].pc # "put"}
Before(p) == {q \in Pbufs : next[q] = p}
\* A thread inside pbuf_free that found no reference left.
Deallocates(x, p) == ptr[x].p = p /\ ptr[x].pc = "put" /\ ptr[x].ref = 0

\* The count of an allocated pbuf is the number of pointers and of pbufs that
\* refer to it, whatever the threads are doing; nothing refers to a pbuf that has
\* been given back; and one without references is being deallocated by exactly
\* one thread, so that none is lost and none is freed twice (pbuf_free,
\* pbuf_ref, pbuf_cat, pbuf_chain, pbuf_dechain, pbuf_realloc, pbuf_free_header).
RefsExact ==
  /\ \A p \in taken : ref[p] = Cardinality(PointersTo(p)) + Cardinality(Before(p))
  /\ \A p \in Pbufs \ taken : PointersTo(p) = {} /\ Before(p) = {} /\ next[p] = NULL
  /\ \A p \in taken : ref[p] = 0 => \E x \in Pointers : Deallocates(x, p)
  /\ \A p \in Pbufs, x, y \in Pointers :
       Deallocates(x, p) => p \in taken /\ ref[p] = 0 /\ (Deallocates(y, p) => x = y)

\* In a chain somebody holds, the total length of each pbuf is its own length and
\* the total of the rest: what pbuf_cat and pbuf_dechain assert, and every layer
\* relies on to find the end of a packet.
TotLens ==
  \A x \in Pointers : ptr[x].pc = "held" /\ ptr[x].p # NULL =>
    \A q \in Chain(ptr[x].p) :
      tot_len[q] = len[q] + (IF next[q] = NULL THEN 0 ELSE tot_len[next[q]])

\* What pbuf.c keeps for the layers that share packets: exact reference counts, and
\* total lengths that are the sums along the chain.
PbufsSound == RefsExact /\ TotLens
===============================================================================
