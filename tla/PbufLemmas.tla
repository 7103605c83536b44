------------------------------- MODULE PbufLemmas -------------------------------
(***************************************************************************)
(* PbufsSound, the exact reference counts and lengths of packet buffers,   *)
(* for any number of pbufs, pointers and threads. The inductive invariant  *)
(* PbufInv adds to it what a thread inside pbuf_alloc relies on: nobody    *)
(* else refers to its unfinished chain, whose last pbuf stays the last.    *)
(***************************************************************************)
EXTENDS Pbuf, FiniteSetTheorems, TLAPS

PtrType == [p : Pbufs \cup {NULL}, pc : {"held", "alloc", "dec", "put"},
            last : Pbufs \cup {NULL}, rem_len : Int, ref : Int]

PbufTypes ==
  /\ taken \in SUBSET Pbufs
  /\ next \in [Pbufs -> Pbufs \cup {NULL}]
  /\ len \in [Pbufs -> Nat] /\ tot_len \in [Pbufs -> Nat] /\ ref \in [Pbufs -> Int]
  /\ ptr \in [Pointers -> PtrType]

\* A pointer is unused, or refers to a pbuf.
PtrShape ==
  \A x \in Pointers :
    \/ ptr[x] = Unused
    \/ /\ ptr[x].p \in Pbufs
       /\ ptr[x].pc = "held" => ptr[x] = Held(ptr[x].p)

\* The numbers of pointers and of pbufs that refer to p.
PtrCount(f, p) == Cardinality({x \in Pointers : f[x].p = p /\ f[x].pc # "put"})
NextCount(g, p) == Cardinality({q \in Pbufs : g[q] = p})

Counted ==
  /\ \A p \in taken : ref[p] = PtrCount(ptr, p) + NextCount(next, p)
  /\ \A p \in Pbufs \ taken : PtrCount(ptr, p) = 0 /\ NextCount(next, p) = 0 /\ next[p] = NULL

OneDeallocates ==
  /\ \A p \in taken : ref[p] = 0 => \E x \in Pointers : Deallocates(x, p)
  /\ \A p \in Pbufs, x, y \in Pointers :
       Deallocates(x, p) => p \in taken /\ ref[p] = 0 /\ (Deallocates(y, p) => x = y)

AddsUp(q) == tot_len[q] = len[q] + (IF next[q] = NULL THEN 0 ELSE tot_len[next[q]])

\* A chain somebody holds adds up; in one that is being allocated, the last pbuf
\* lacks what is still to come.
HeldFine(x) ==
  ptr[x].pc = "held" /\ ptr[x].p # NULL => \A q \in Chain(ptr[x].p) : AddsUp(q)
AllocFine(x) ==
  ptr[x].pc = "alloc" =>
    /\ ptr[x].last \in Chain(ptr[x].p) /\ next[ptr[x].last] = NULL
    /\ Owned(ptr[x].p)
    /\ tot_len[ptr[x].last] = len[ptr[x].last] + ptr[x].rem_len
    /\ \A q \in Chain(ptr[x].p) \ {ptr[x].last} : AddsUp(q)
    /\ ptr[x].rem_len \in Nat
Fine(x) == HeldFine(x) /\ AllocFine(x)

PbufInv ==
  PbufTypes /\ PtrShape /\ Counted /\ OneDeallocates /\ \A x \in Pointers : Fine(x)

-----------------------------------------------------------------------------
(* Chains *)

Links == [Pbufs -> Pbufs \cup {NULL}]

\* A chain has its first pbuf and what follows a pbuf of it, and is the least such
\* set.
LEMMA ChainClosed ==
  ASSUME NEW g \in Links, NEW p \in Pbufs
  PROVE  /\ ChainOf(g, p) \in SUBSET Pbufs /\ p \in ChainOf(g, p)
         /\ \A q \in ChainOf(g, p) : g[q] # NULL => g[q] \in ChainOf(g, p)
  BY DEF ChainOf, IsChain, Links

\* A chain is the least set that contains its head and what follows in it.
LEMMA ChainLeast ==
  ASSUME NEW g \in Links, NEW p \in Pbufs, NEW S \in SUBSET Pbufs,
         p \in S, \A q \in S : g[q] # NULL => g[q] \in S
  PROVE  ChainOf(g, p) \subseteq S
  BY DEF ChainOf, IsChain

\* Only the links of its own pbufs make a chain what it is.
LEMMA ChainSame ==
  ASSUME NEW g \in Links, NEW h \in Links, NEW p \in Pbufs,
         \A q \in ChainOf(g, p) : h[q] = g[q]
  PROVE  ChainOf(h, p) = ChainOf(g, p)
<1>1. ChainOf(h, p) \subseteq ChainOf(g, p)
  BY ChainClosed, ChainLeast
<1>2. ChainOf(g, p) \subseteq ChainOf(h, p)
  <2>1. ChainOf(h, p) \in SUBSET Pbufs /\ p \in ChainOf(h, p)
    BY ChainClosed
  <2>2. \A q \in ChainOf(h, p) : g[q] # NULL => g[q] \in ChainOf(h, p)
    BY <1>1, ChainClosed
  <2> QED BY <2>1, <2>2, ChainLeast
<1> QED BY <1>1, <1>2

\* A pbuf of a chain other than the first follows another one.
LEMMA ChainPred ==
  ASSUME NEW g \in Links, NEW p \in Pbufs, NEW q \in ChainOf(g, p), q # p
  PROVE  \E r \in ChainOf(g, p) : g[r] = q
<1> SUFFICES ASSUME \A r \in ChainOf(g, p) : g[r] # q PROVE FALSE
  OBVIOUS
<1> DEFINE S == ChainOf(g, p) \ {q}
<1>1. S \in SUBSET Pbufs /\ p \in S /\ \A u \in S : g[u] # NULL => g[u] \in S
  BY ChainClosed
<1> HIDE DEF S
<1>2. ChainOf(g, p) \subseteq S
  BY <1>1, ChainLeast
<1> QED BY <1>2 DEF S

\* A chain is its first pbuf and the chain of the next one.
LEMMA ChainRest ==
  ASSUME NEW g \in Links, NEW p \in Pbufs
  PROVE  /\ g[p] = NULL => ChainOf(g, p) = {p}
         /\ g[p] # NULL => ChainOf(g, p) = {p} \cup ChainOf(g, g[p])
<1>1. ASSUME g[p] = NULL PROVE ChainOf(g, p) = {p}
  <2> DEFINE S == {p}
  <2>2. S \in SUBSET Pbufs /\ p \in S /\ \A u \in S : g[u] # NULL => g[u] \in S BY <1>1
  <2> HIDE DEF S
  <2>3. ChainOf(g, p) \subseteq S BY <2>2, ChainLeast
  <2>1. ChainOf(g, p) \subseteq {p} BY <2>3 DEF S
  <2> QED BY <2>1, ChainClosed
<1>2. ASSUME g[p] # NULL PROVE ChainOf(g, p) = {p} \cup ChainOf(g, g[p])
  <2>1. g[p] \in Pbufs BY <1>2 DEF Links
  <2> DEFINE S == {p} \cup ChainOf(g, g[p])
  <2>2. S \in SUBSET Pbufs /\ p \in S /\ \A u \in S : g[u] # NULL => g[u] \in S
    BY <2>1, ChainClosed
  <2>3. ChainOf(g, g[p]) \subseteq ChainOf(g, p)
    <3>1. g[p] \in ChainOf(g, p) BY <1>2, ChainClosed
    <3> QED BY <2>1, <3>1, ChainClosed, ChainLeast
  <2>4. p \in ChainOf(g, p) BY ChainClosed
  <2> HIDE DEF S
  <2>5. ChainOf(g, p) \subseteq S BY <2>2, ChainLeast
  <2> QED BY <2>3, <2>4, <2>5 DEF S
<1> QED BY <1>1, <1>2

\* The chain of a pbuf lies in every chain that contains the pbuf.
LEMMA ChainWithin ==
  ASSUME NEW g \in Links, NEW p \in Pbufs, NEW q \in ChainOf(g, p)
  PROVE  ChainOf(g, q) \subseteq ChainOf(g, p)
<1>1. q \in Pbufs BY ChainClosed
<1> QED BY <1>1, ChainClosed, ChainLeast

\* Of two pbufs of a chain, one follows the other.
LEMMA ChainOrder ==
  ASSUME NEW g \in Links, NEW p \in Pbufs, NEW u \in ChainOf(g, p), NEW v \in ChainOf(g, p)
  PROVE  u \in ChainOf(g, v) \/ v \in ChainOf(g, u)
<1> DEFINE S == {w \in ChainOf(g, p) : w \in ChainOf(g, v) \/ v \in ChainOf(g, w)}
<1>1. v \in Pbufs BY ChainClosed
<1>2. S \in SUBSET Pbufs /\ p \in S BY ChainClosed
<1>3. ASSUME NEW w \in S, g[w] # NULL PROVE g[w] \in S
  <2>1. w \in Pbufs /\ g[w] \in ChainOf(g, p) BY <1>3, ChainClosed
  <2>2. CASE w \in ChainOf(g, v)
    BY <1>1, <1>3, <2>1, <2>2, ChainClosed
  <2>3. CASE v \in ChainOf(g, w) /\ w # v
    <3>1. v \in ChainOf(g, g[w]) BY <1>3, <2>1, <2>3, ChainRest
    <3> QED BY <2>1, <3>1
  <2>4. CASE w = v
    BY <1>1, <1>3, <2>1, <2>4, ChainClosed
  <2> QED BY <2>2, <2>3, <2>4
<1> HIDE DEF S
<1>4. ChainOf(g, p) \subseteq S BY <1>2, <1>3, ChainLeast
<1> QED BY <1>4 DEF S

\* A chain has one end.
LEMMA ChainEnd ==
  ASSUME NEW g \in Links, NEW p \in Pbufs, NEW u \in ChainOf(g, p), NEW v \in ChainOf(g, p),
         g[u] = NULL, g[v] = NULL
  PROVE  u = v
<1>1. u \in Pbufs /\ v \in Pbufs BY ChainClosed
<1>2. ChainOf(g, u) = {u} /\ ChainOf(g, v) = {v} BY <1>1, ChainRest
<1> QED BY <1>2, ChainOrder

-----------------------------------------------------------------------------
(* Counts *)

Points(v, p) == IF v.p = p /\ v.pc # "put" THEN 1 ELSE 0
Follows(w, p) == IF w = p THEN 1 ELSE 0

\* The counts are numbers.
LEMMA CountTypes ==
  ASSUME NEW f, NEW g, NEW p
  PROVE  PtrCount(f, p) \in Nat /\ NextCount(g, p) \in Nat
  BY PbufConstants, FS_Subset, FS_CardinalityType DEF PtrCount, NextCount

\* Changing one pointer changes the counts of the pbufs it referred and refers to.
LEMMA PtrCountChange ==
  ASSUME NEW f \in [Pointers -> PtrType], NEW x \in Pointers, NEW v \in PtrType,
         NEW p \in Pbufs
  PROVE  /\ PtrCount(f, p) \in Nat
         /\ PtrCount([f EXCEPT ![x] = v], p) = PtrCount(f, p) - Points(f[x], p) + Points(v, p)
<1> DEFINE F(h) == {y \in Pointers : h[y].p = p /\ h[y].pc # "put"}
           R == F(f) \ {x}
           h2 == [f EXCEPT ![x] = v]
<1>1. IsFiniteSet(F(f)) /\ Cardinality(F(f)) \in Nat
  BY PbufConstants, FS_Subset, FS_CardinalityType
<1>2. IsFiniteSet(R) /\ Cardinality(R) = Cardinality(F(f)) - Points(f[x], p)
  <2>1. IsFiniteSet(R) /\ Cardinality(R) = IF x \in F(f) THEN Cardinality(F(f)) - 1 ELSE Cardinality(F(f))
    BY <1>1, FS_RemoveElement
  <2> HIDE DEF R
  <2>2. x \in F(f) <=> (f[x].p = p /\ f[x].pc # "put") OBVIOUS
  <2> HIDE DEF F
  <2> QED BY <1>1, <2>1, <2>2 DEF Points
<1>3. Cardinality(F(h2)) = Cardinality(R) + Points(v, p)
  <2>1. CASE v.p = p /\ v.pc # "put"
    <3>1. F(h2) = R \cup {x} /\ x \notin R BY <2>1
    <3> HIDE DEF F, R, h2
    <3>2. Cardinality(F(h2)) = Cardinality(R) + 1 BY <1>2, <3>1, FS_AddElement, Zenon
    <3> QED BY <2>1, <3>2 DEF Points
  <2>2. CASE ~(v.p = p /\ v.pc # "put")
    <3>1. F(h2) = R BY <2>2
    <3> HIDE DEF F, R, h2
    <3>2. Cardinality(R) \in Nat BY <1>2, FS_CardinalityType
    <3> QED BY <2>2, <3>1, <3>2 DEF Points
  <2> QED BY <2>1, <2>2
<1>4. PtrCount(f, p) = Cardinality(F(f)) /\ PtrCount(h2, p) = Cardinality(F(h2))
  BY DEF PtrCount
<1> HIDE DEF F, R
<1> QED BY <1>1, <1>2, <1>3, <1>4 DEF Points

\* A changed link changes the counts of the pbufs it linked and links, by one.
LEMMA NextCountChange ==
  ASSUME NEW g \in Links, NEW q \in Pbufs, NEW w \in Pbufs \cup {NULL}, NEW p \in Pbufs
  PROVE  /\ NextCount(g, p) \in Nat
         /\ NextCount([g EXCEPT ![q] = w], p) = NextCount(g, p) - Follows(g[q], p) + Follows(w, p)
<1> DEFINE F(h) == {y \in Pbufs : h[y] = p}
           R == F(g) \ {q}
           h2 == [g EXCEPT ![q] = w]
<1>1. IsFiniteSet(F(g)) /\ Cardinality(F(g)) \in Nat
  BY PbufConstants, FS_Subset, FS_CardinalityType
<1>2. IsFiniteSet(R) /\ Cardinality(R) = Cardinality(F(g)) - Follows(g[q], p)
  <2>1. IsFiniteSet(R) /\ Cardinality(R) = IF q \in F(g) THEN Cardinality(F(g)) - 1 ELSE Cardinality(F(g))
    BY <1>1, FS_RemoveElement
  <2> HIDE DEF R
  <2>2. q \in F(g) <=> g[q] = p OBVIOUS
  <2> HIDE DEF F
  <2> QED BY <1>1, <2>1, <2>2 DEF Follows
<1>3. Cardinality(F(h2)) = Cardinality(R) + Follows(w, p)
  <2>1. CASE w = p
    <3>1. F(h2) = R \cup {q} /\ q \notin R BY <2>1 DEF Links
    <3> HIDE DEF F, R, h2
    <3>2. Cardinality(F(h2)) = Cardinality(R) + 1 BY <1>2, <3>1, FS_AddElement, Zenon
    <3> QED BY <2>1, <3>2 DEF Follows
  <2>2. CASE w # p
    <3>1. F(h2) = R BY <2>2 DEF Links
    <3> HIDE DEF F, R, h2
    <3>2. Cardinality(R) \in Nat BY <1>2, FS_CardinalityType
    <3> QED BY <2>2, <3>1, <3>2 DEF Follows
  <2> QED BY <2>1, <2>2
<1>4. NextCount(g, p) = Cardinality(F(g)) /\ NextCount(h2, p) = Cardinality(F(h2))
  BY DEF NextCount
<1> HIDE DEF F, R
<1> QED BY <1>1, <1>2, <1>3, <1>4 DEF Follows

\* Who refers to a pbuf is counted.
LEMMA PtrCounts ==
  ASSUME NEW f \in [Pointers -> PtrType], NEW p \in Pbufs,
         NEW x \in Pointers, f[x].p = p, f[x].pc # "put"
  PROVE  /\ PtrCount(f, p) >= 1
         /\ \A y \in Pointers : y # x /\ f[y].p = p /\ f[y].pc # "put" => PtrCount(f, p) >= 2
<1> DEFINE F == {y \in Pointers : f[y].p = p /\ f[y].pc # "put"}
<1>1. IsFiniteSet(F) /\ Cardinality(F) \in Nat /\ x \in F
  BY PbufConstants, FS_Subset, FS_CardinalityType
<1>2. IsFiniteSet(F \ {x}) /\ Cardinality(F \ {x}) = Cardinality(F) - 1
  BY <1>1, FS_RemoveElement, Zenon
<1>3. Cardinality(F \ {x}) \in Nat BY <1>2, FS_CardinalityType
<1>4. ASSUME NEW y \in Pointers, y # x, f[y].p = p, f[y].pc # "put"
      PROVE  Cardinality(F \ {x}) # 0
  <2>1. y \in F \ {x} BY <1>4
  <2> HIDE DEF F
  <2> QED BY <1>2, <2>1, FS_EmptySet
<1>5. PtrCount(f, p) = Cardinality(F) BY DEF PtrCount
<1>6. PtrCount(f, p) >= 1
  <2> HIDE DEF F
  <2> QED BY <1>1, <1>2, <1>3, <1>5
<1>7. ASSUME NEW y \in Pointers, y # x, f[y].p = p, f[y].pc # "put"
      PROVE  PtrCount(f, p) >= 2
  <2>1. Cardinality(F \ {x}) # 0 BY <1>4, <1>7
  <2> HIDE DEF F
  <2> QED BY <1>1, <1>2, <1>3, <1>5, <2>1
<1> HIDE DEF F
<1> QED BY <1>6, <1>7

\* Every pbuf before p counts.
LEMMA NextCounts ==
  ASSUME NEW g \in Links, NEW p \in Pbufs, NEW q \in Pbufs, g[q] = p
  PROVE  /\ NextCount(g, p) >= 1
         /\ \A r \in Pbufs : r # q /\ g[r] = p => NextCount(g, p) >= 2
<1> DEFINE F == {y \in Pbufs : g[y] = p}
<1>1. IsFiniteSet(F) /\ Cardinality(F) \in Nat /\ q \in F
  BY PbufConstants, FS_Subset, FS_CardinalityType
<1>2. IsFiniteSet(F \ {q}) /\ Cardinality(F \ {q}) = Cardinality(F) - 1
  BY <1>1, FS_RemoveElement, ZenonT(60)
<1>3. Cardinality(F \ {q}) \in Nat BY <1>2, FS_CardinalityType
<1>4. ASSUME NEW r \in Pbufs, r # q, g[r] = p
      PROVE  Cardinality(F \ {q}) # 0
  <2>1. r \in F \ {q} BY <1>4
  <2> HIDE DEF F
  <2> QED BY <1>2, <2>1, FS_EmptySet
<1>5. NextCount(g, p) = Cardinality(F) BY DEF NextCount
<1>6. NextCount(g, p) >= 1
  <2> HIDE DEF F
  <2> QED BY <1>1, <1>2, <1>3, <1>5
<1>7. ASSUME NEW r \in Pbufs, r # q, g[r] = p
      PROVE  NextCount(g, p) >= 2
  <2>1. Cardinality(F \ {q}) # 0 BY <1>4, <1>7
  <2> HIDE DEF F
  <2> QED BY <1>1, <1>2, <1>3, <1>5, <2>1
<1> HIDE DEF F
<1> QED BY <1>6, <1>7

\* Appending t to a chain whose end is l.
LEMMA ChainAppend ==
  ASSUME NEW g \in Links, NEW p \in Pbufs, NEW t \in Pbufs, NEW l \in ChainOf(g, p),
         g[l] = NULL, l \notin ChainOf(g, t)
  PROVE  ChainOf([g EXCEPT ![l] = t], p) = ChainOf(g, p) \cup ChainOf(g, t)
<1> DEFINE h == [g EXCEPT ![l] = t]
           S == ChainOf(g, p) \cup ChainOf(g, t)
<1>1. l \in Pbufs /\ h \in Links BY ChainClosed DEF Links
<1>2. h[l] = t /\ \A q \in Pbufs : q # l => h[q] = g[q] BY <1>1 DEF Links
<1> HIDE DEF h
<1>3. S \in SUBSET Pbufs /\ p \in S /\ \A u \in S : h[u] # NULL => h[u] \in S
  BY <1>2, ChainClosed
<1>4. ChainOf(h, p) \subseteq S
  <2> HIDE DEF S
  <2> QED BY <1>1, <1>3, ChainLeast
<1>5. ChainOf(h, p) \in SUBSET Pbufs /\ p \in ChainOf(h, p)
      /\ \A u \in ChainOf(h, p) : g[u] # NULL => g[u] \in ChainOf(h, p)
  BY <1>1, <1>2, ChainClosed
<1>6. ChainOf(g, p) \subseteq ChainOf(h, p) BY <1>5, ChainLeast
<1>7. t \in ChainOf(h, p)
  <2>1. l \in ChainOf(h, p) /\ h[l] # NULL BY <1>2, <1>6, PbufConstants
  <2> QED BY <1>1, <1>2, <2>1, ChainClosed
<1>8. ChainOf(g, t) \subseteq ChainOf(h, p) BY <1>5, <1>7, ChainLeast
<1> QED BY <1>4, <1>6, <1>8, Zenon DEF h

-----------------------------------------------------------------------------
(* What the counts say about chains *)

Refers(x, p) == ptr[x].p = p /\ ptr[x].pc # "put"

\* Who refers to a pbuf finds it allocated, and two references make two.
LEMMA Live ==
  ASSUME PbufTypes, Counted, NEW p \in Pbufs,
         (\E x \in Pointers : Refers(x, p)) \/ (\E q \in Pbufs : next[q] = p)
  PROVE  p \in taken /\ ref[p] >= 1
<1> DEFINE a == PtrCount(ptr, p)
           b == NextCount(next, p)
<1>1. a \in Nat /\ b \in Nat BY CountTypes
<1>2. a >= 1 \/ b >= 1 BY PtrCounts, NextCounts DEF PbufTypes, Links, Refers
<1>3. p \in taken => ref[p] = a + b BY DEF Counted
<1>4. p \notin taken => a = 0 /\ b = 0 BY DEF Counted
<1> HIDE DEF a, b
<1> QED BY <1>1, <1>2, <1>3, <1>4

\* A pbuf that two refer to has a count of two at least.
LEMMA Shared ==
  ASSUME PbufTypes, Counted, NEW p \in Pbufs,
         \/ \E x, y \in Pointers : x # y /\ Refers(x, p) /\ Refers(y, p)
         \/ \E x \in Pointers, q \in Pbufs : Refers(x, p) /\ next[q] = p
         \/ \E q, r \in Pbufs : q # r /\ next[q] = p /\ next[r] = p
  PROVE  ref[p] >= 2
<1> DEFINE a == PtrCount(ptr, p)
           b == NextCount(next, p)
<1>1. a \in Nat /\ b \in Nat BY CountTypes
<1>2. a >= 2 \/ (a >= 1 /\ b >= 1) \/ b >= 2
  BY PtrCounts, NextCounts DEF PbufTypes, Links, Refers
<1>3. p \in taken BY Live
<1>4. ref[p] = a + b BY <1>3 DEF Counted
<1> HIDE DEF a, b
<1> QED BY <1>1, <1>2, <1>4

\* No pbuf of a chain somebody refers to is deallocated.
LEMMA ChainLive ==
  ASSUME PbufTypes, Counted, NEW x \in Pointers, NEW p \in Pbufs, Refers(x, p)
  PROVE  \A q \in Chain(p) : q \in taken /\ ref[q] >= 1
<1> DEFINE S == {q \in Pbufs : q \in taken /\ ref[q] >= 1}
<1>1. S \in SUBSET Pbufs /\ p \in S BY Live
<1>2. \A u \in S : next[u] # NULL => next[u] \in S BY Live DEF PbufTypes
<1>3. next \in Links BY DEF PbufTypes, Links
<1> HIDE DEF S
<1>4. Chain(p) \subseteq S BY <1>1, <1>2, <1>3, ChainLeast DEF Chain
<1> QED BY <1>4 DEF S

\* Nobody else gets at a pbuf of a chain whose counts are all one, and its first
\* pbuf follows none.
LEMMA OwnedApart ==
  ASSUME PbufTypes, Counted, NEW x \in Pointers, NEW p \in Pbufs, Refers(x, p), Owned(p)
  PROVE  /\ \A q \in Pbufs : next[q] # p
         /\ \A y \in Pointers, h \in Pbufs :
              y # x /\ Refers(y, h) => \A q \in Chain(h) : q \notin Chain(p)
<1>1. next \in Links BY DEF PbufTypes, Links
<1>2. Chain(p) \in SUBSET Pbufs /\ p \in Chain(p) /\ \A q \in Chain(p) : ref[q] = 1
  BY <1>1, ChainClosed DEF Chain, Owned
<1>3. ASSUME NEW q \in Pbufs PROVE next[q] # p
  BY <1>2, Shared
<1>4. ASSUME NEW y \in Pointers, NEW h \in Pbufs, y # x, Refers(y, h)
      PROVE  \A q \in Chain(h) : q \notin Chain(p)
  <2> DEFINE S == Chain(h) \ Chain(p)
  <2>1. Chain(h) \in SUBSET Pbufs /\ h \in Chain(h)
        /\ \A q \in Chain(h) : next[q] # NULL => next[q] \in Chain(h)
    BY <1>1, ChainClosed DEF Chain
  <2>2. h \notin Chain(p)
    <3>1. h # p BY <1>2, <1>4, Shared
    <3>2. ASSUME h \in Chain(p) PROVE FALSE
      <4>1. PICK r \in Chain(p) : next[r] = h BY <1>1, <3>1, <3>2, ChainPred DEF Chain
      <4>2. ref[h] >= 2 BY <1>2, <1>4, <4>1, Shared
      <4> QED BY <1>2, <3>2, <4>2
    <3> QED BY <3>2
  <2>3. ASSUME NEW u \in S, next[u] # NULL PROVE next[u] \notin Chain(p)
    <3> SUFFICES ASSUME next[u] \in Chain(p) PROVE FALSE OBVIOUS
    <3>1. u \in Pbufs BY <2>1
    <3>2. next[u] # p BY <1>3, <3>1
    <3>3. PICK r \in Chain(p) : next[r] = next[u] BY <1>1, <3>2, ChainPred DEF Chain
    <3>4. r # u /\ r \in Pbufs BY <1>2, <2>3
    <3>5. ref[next[u]] >= 2 BY <1>2, <3>1, <3>3, <3>4, Shared
    <3> QED BY <1>2, <3>5
  <2>4. S \in SUBSET Pbufs /\ h \in S /\ \A u \in S : next[u] # NULL => next[u] \in S
    BY <2>1, <2>2, <2>3
  <2> HIDE DEF S
  <2>5. Chain(h) \subseteq S BY <1>1, <2>4, ChainLeast DEF Chain
  <2> QED BY <2>5 DEF S
<1> QED BY <1>3, <1>4

\* A pbuf that no other links to is in no other chain.
LEMMA HeadApart ==
  ASSUME PbufTypes, NEW p \in Pbufs, IsHead(p), NEW h \in Pbufs, h # p
  PROVE  p \notin Chain(h)
<1>1. next \in Links BY DEF PbufTypes, Links
<1>2. \A r \in Chain(h) : r \in Pbufs BY <1>1, ChainClosed DEF Chain
<1> QED BY <1>1, <1>2, ChainPred DEF Chain, IsHead

\* Total lengths do not grow along a chain.
LEMMA TotFalls ==
  ASSUME PbufTypes, NEW p \in Pbufs, \A q \in Chain(p) : AddsUp(q)
  PROVE  \A q \in Chain(p) : tot_len[q] <= tot_len[p]
<1> DEFINE S == {q \in Chain(p) : tot_len[q] <= tot_len[p]}
<1>1. next \in Links BY DEF PbufTypes, Links
<1>2. Chain(p) \in SUBSET Pbufs /\ p \in Chain(p)
      /\ \A q \in Chain(p) : next[q] # NULL => next[q] \in Chain(p)
  BY <1>1, ChainClosed DEF Chain
<1>3. S \in SUBSET Pbufs /\ p \in S BY <1>2 DEF PbufTypes
<1>4. ASSUME NEW u \in S, next[u] # NULL PROVE next[u] \in S
  <2>1. u \in Pbufs /\ next[u] \in Pbufs /\ next[u] \in Chain(p) BY <1>2, <1>4
  <2>2. tot_len[u] = len[u] + tot_len[next[u]] BY <1>4 DEF AddsUp
  <2> QED BY <2>1, <2>2 DEF PbufTypes
<1> HIDE DEF S
<1>5. Chain(p) \subseteq S BY <1>1, <1>3, <1>4, ChainLeast DEF Chain
<1> QED BY <1>5 DEF S

-----------------------------------------------------------------------------
(* What a step leaves alone *)

\* What pointers look like.
LEMMA Values ==
  /\ Unused \in PtrType /\ Unused.p = NULL /\ Unused.pc = "held"
  /\ ToFree(NULL) = Unused
  /\ \A p \in Pbufs :
       /\ Held(p) \in PtrType /\ Held(p).p = p /\ Held(p).pc = "held"
       /\ ToFree(p) \in PtrType /\ ToFree(p).p = p /\ ToFree(p).pc = "dec"
<1>1. Unused \in PtrType /\ Unused.p = NULL /\ Unused.pc = "held" BY DEF Unused, PtrType
<1>2. ToFree(NULL) = Unused BY DEF ToFree
<1>3. ASSUME NEW p \in Pbufs
      PROVE  Held(p) \in PtrType /\ Held(p).p = p /\ Held(p).pc = "held"
  BY DEF Unused, Held, PtrType
<1>4. ASSUME NEW p \in Pbufs
      PROVE  ToFree(p) \in PtrType /\ ToFree(p).p = p /\ ToFree(p).pc = "dec"
  <2>1. ToFree(p) = [p |-> p, pc |-> "dec", last |-> NULL, rem_len |-> 0, ref |-> 0]
    BY PbufConstants, Zenon DEF Unused, ToFree
  <2> QED BY <2>1 DEF PtrType
<1> QED BY <1>1, <1>2, <1>3, <1>4

\* How a step of one pointer changes the counts,
LEMMA PtrStep ==
  ASSUME PbufTypes, NEW x \in Pointers, NEW v \in PtrType, ptr' = [ptr EXCEPT ![x] = v],
         NEW p \in Pbufs
  PROVE  PtrCount(ptr', p) = PtrCount(ptr, p) - Points(ptr[x], p) + Points(v, p)
<1> DEFINE f == ptr
<1>1. f \in [Pointers -> PtrType] BY DEF PbufTypes
<1> HIDE DEF f
<1>2. PtrCount([f EXCEPT ![x] = v], p) = PtrCount(f, p) - Points(f[x], p) + Points(v, p)
  BY <1>1, PtrCountChange, Zenon
<1> QED BY <1>2 DEF f

\* and how a step of one link changes them.
LEMMA NextStep ==
  ASSUME PbufTypes, NEW q \in Pbufs, NEW w \in Pbufs \cup {NULL}, next' = [next EXCEPT ![q] = w],
         NEW p \in Pbufs
  PROVE  NextCount(next', p) = NextCount(next, p) - Follows(next[q], p) + Follows(w, p)
<1> DEFINE g == next
<1>1. g \in Links BY DEF PbufTypes, Links
<1> HIDE DEF g
<1>2. NextCount([g EXCEPT ![q] = w], p) = NextCount(g, p) - Follows(g[q], p) + Follows(w, p)
  BY <1>1, NextCountChange
<1> QED BY <1>2 DEF g

\* A pointer is not disturbed by a step that leaves its chain alone,
LEMMA Frame ==
  ASSUME PbufTypes, PtrShape, next' \in Links, NEW z \in Pointers, Fine(z), ptr'[z] = ptr[z],
         ptr[z].pc \in {"held", "alloc"} /\ ptr[z].p # NULL =>
           \A q \in Chain(ptr[z].p) :
             next'[q] = next[q] /\ len'[q] = len[q] /\ tot_len'[q] = tot_len[q],
         ptr[z].pc = "alloc" => \A q \in Chain(ptr[z].p) : ref'[q] = ref[q]
  PROVE  Fine(z)'
<1>1. next \in Links BY DEF PbufTypes, Links
<1>2. CASE ptr[z] = Unused
  BY <1>2, Values DEF Fine, HeldFine, AllocFine
<1>3. CASE ptr[z] # Unused /\ ptr[z].pc \in {"held", "alloc"}
  <2>1. ptr[z].p \in Pbufs /\ ptr[z].p # NULL BY <1>3, PbufConstants DEF PtrShape
  <2>2. Chain(ptr[z].p)' = Chain(ptr[z].p)
    BY <1>1, <1>3, <2>1, ChainSame DEF Chain
  <2>3. \A q \in Chain(ptr[z].p) : next[q] # NULL => next[q] \in Chain(ptr[z].p)
    BY <1>1, <2>1, ChainClosed DEF Chain
  <2>4. \A q \in Chain(ptr[z].p) : AddsUp(q) => AddsUp(q)'
    BY <1>3, <2>1, <2>3 DEF AddsUp
  <2>5. HeldFine(z)' BY <2>2, <2>4, <2>1, ZenonT(60) DEF Fine, HeldFine
  <2>6. AllocFine(z)'
    <3> SUFFICES ASSUME ptr[z].pc = "alloc" PROVE AllocFine(z)'
      BY DEF AllocFine
    <3>1. Owned(ptr[z].p)' BY <2>2, ZenonT(60) DEF Fine, AllocFine, Owned
    <3> QED BY <2>1, <2>2, <2>4, <3>1 DEF Fine, AllocFine
  <2> QED BY <2>5, <2>6 DEF Fine
<1>4. CASE ptr[z].pc \in {"dec", "put"}
  BY <1>4 DEF Fine, HeldFine, AllocFine
<1>5. ptr[z].pc \in {"held", "alloc", "dec", "put"} BY DEF PbufTypes, PtrType
<1> QED BY <1>2, <1>3, <1>4, <1>5

\* and so not by one that only changes pbufs outside of it.
LEMMA Others ==
  ASSUME PbufTypes, PtrShape, next' \in Links, NEW z \in Pointers, Fine(z), ptr'[z] = ptr[z],
         NEW D,
         \A r \in Pbufs : r \notin D =>
           next'[r] = next[r] /\ len'[r] = len[r] /\ tot_len'[r] = tot_len[r] /\ ref'[r] = ref[r],
         ptr[z].p \in Pbufs /\ ptr[z].pc # "put" => \A q \in Chain(ptr[z].p) : q \notin D
  PROVE  Fine(z)'
<1>1. ptr[z].pc \in {"held", "alloc"} /\ ptr[z].p # NULL => ptr[z].p \in Pbufs /\ ptr[z].pc # "put"
  BY DEF PbufTypes, PtrType
<1>2. ptr[z].pc = "alloc" => ptr[z].p # NULL
  BY Values, PbufConstants DEF PtrShape
<1>3. ptr[z].p \in Pbufs => Chain(ptr[z].p) \subseteq Pbufs
  BY ChainClosed DEF Chain, PbufTypes, Links
<1> QED BY <1>1, <1>2, <1>3, Frame

\* What the values of a pointer say about it, before and after a step.
LEMMA HoldsFacts ==
  ASSUME NEW x \in Pointers, NEW p \in Pbufs, Holds(x, p)
  PROVE  /\ ptr[x] = Held(p) /\ Refers(x, p) /\ ptr[x].pc = "held"
         /\ \A y \in Pointers : ptr[y] = Unused => x # y
  BY Values, PbufConstants DEF Holds, Refers

\* A held chain adds up.
LEMMA HeldAddsUp ==
  ASSUME NEW x \in Pointers, NEW p \in Pbufs, ptr[x] = Held(p), Fine(x)
  PROVE  \A q \in Chain(p) : AddsUp(q)
  BY Values, PbufConstants DEF Fine, HeldFine

\* A chain that is being allocated is referred to by its allocator alone.
LEMMA AllocApart ==
  ASSUME PtrShape, NEW z \in Pointers, Fine(z), ptr[z].pc = "alloc"
  PROVE  /\ ptr[z].p \in Pbufs /\ Owned(ptr[z].p) /\ Refers(z, ptr[z].p)
         /\ \A x \in Pointers, p \in Pbufs : ptr[x] = Held(p) => x # z
<1>1. ptr[z].p \in Pbufs BY Values DEF PtrShape
<1>2. Owned(ptr[z].p) BY DEF Fine, AllocFine
<1>3. Refers(z, ptr[z].p) BY DEF Refers
<1>4. \A x \in Pointers, p \in Pbufs : ptr[x] = Held(p) => x # z BY Values
<1> QED BY <1>1, <1>2, <1>3, <1>4

\* What a pointer has to satisfy after the step: one that frees,
LEMMA FineFreed ==
  ASSUME NEW z \in Pointers, ptr'[z] = Unused \/ ptr'[z].pc \in {"dec", "put"}
  PROVE  Fine(z)'
<1>1. CASE ptr'[z] = Unused
  <2>1. ptr'[z].pc = "held" /\ ptr'[z].p = NULL BY <1>1, Values
  <2> QED BY <2>1 DEF Fine, HeldFine, AllocFine
<1>2. CASE ptr'[z].pc \in {"dec", "put"} BY <1>2 DEF Fine, HeldFine, AllocFine
<1> QED BY <1>1, <1>2

\* one that holds,
LEMMA FineHeld ==
  ASSUME NEW z \in Pointers, NEW p \in Pbufs, ptr'[z] = Held(p), \A q \in Chain(p)' : AddsUp(q)'
  PROVE  Fine(z)'
<1>1. ptr'[z].pc = "held" /\ ptr'[z].p = p BY Values
<1> QED BY <1>1 DEF Fine, HeldFine, AllocFine

\* and one that allocates.
LEMMA FineAlloc ==
  ASSUME NEW z \in Pointers, NEW p \in Pbufs, NEW l \in Pbufs, NEW m \in Nat,
         ptr'[z].pc = "alloc", ptr'[z].p = p, ptr'[z].last = l, ptr'[z].rem_len = m,
         l \in Chain(p)', next'[l] = NULL, Owned(p)', tot_len'[l] = len'[l] + m,
         \A q \in Chain(p)' \ {l} : AddsUp(q)'
  PROVE  Fine(z)'
<1>1. HeldFine(z)' BY DEF HeldFine
<1>2. AllocFine(z)' BY DEF AllocFine
<1> QED BY <1>1, <1>2 DEF Fine

\* A step that gives pointer x the value v.
LEMMA PtrTo ==
  ASSUME PbufTypes, PtrShape, NEW x \in Pointers, NEW v \in PtrType, ptr' = [ptr EXCEPT ![x] = v],
         v = Unused \/ (v.p \in Pbufs /\ (v.pc = "held" => v = Held(v.p)))
  PROVE  /\ ptr' \in [Pointers -> PtrType] /\ PtrShape'
         /\ ptr'[x] = v /\ \A z \in Pointers : z # x => ptr'[z] = ptr[z]
<1>1. ptr \in [Pointers -> PtrType] BY DEF PbufTypes
<1>2. ptr' \in [Pointers -> PtrType] /\ ptr'[x] = v /\ \A z \in Pointers : z # x => ptr'[z] = ptr[z]
  BY <1>1
<1>3. PtrShape' BY <1>2 DEF PtrShape
<1> QED BY <1>2, <1>3

\* A step that gives one pointer a chain to free keeps the shapes.
LEMMA PtrShapeTwo ==
  ASSUME PtrShape, NEW x \in Pointers, NEW y \in Pointers, NEW p \in Pbufs, NEW v, NEW q,
         v = Unused \/ (v = Held(q) /\ q \in Pbufs),
         ptr'[x] = v, ptr'[y] = ToFree(p),
         \A z \in Pointers : z # x /\ z # y => ptr'[z] = ptr[z]
  PROVE  PtrShape'
<1>1. (q \in Pbufs => Held(q).p = q) /\ ToFree(p).p = p /\ ToFree(p).pc = "dec" BY Values
<1>2. ASSUME NEW z \in Pointers
      PROVE  ptr'[z] = Unused \/ (ptr'[z].p \in Pbufs /\ (ptr'[z].pc = "held" => ptr'[z] = Held(ptr'[z].p)))
  <2>1. CASE z = x BY <1>1, <2>1
  <2>2. CASE z = y BY <1>1, <2>2
  <2>3. CASE z # x /\ z # y BY <2>3 DEF PtrShape
  <2> QED BY <2>1, <2>2, <2>3
<1> QED BY <1>2 DEF PtrShape

\* Deallocations go on when a step leaves them and the counts of zero alone.
LEMMA DeallocFrame ==
  ASSUME OneDeallocates, taken' \in SUBSET Pbufs, taken \in SUBSET Pbufs,
         \A z \in Pointers : ptr[z].pc = "put" \/ ptr'[z].pc = "put" => ptr'[z] = ptr[z],
         \A p \in Pbufs : (p \in taken' /\ ref'[p] = 0) <=> (p \in taken /\ ref[p] = 0)
  PROVE  OneDeallocates'
<1>1. \A z \in Pointers, p \in Pbufs : Deallocates(z, p)' <=> Deallocates(z, p)
  BY DEF Deallocates
<1> QED BY <1>1 DEF OneDeallocates

-----------------------------------------------------------------------------
(* One lemma for each operation *)

\* A pbuf that is not taken is in no chain somebody may follow, and followed by none.
LEMMA FreshApart ==
  ASSUME PbufTypes, Counted, NEW q \in Pbufs \ taken
  PROVE  /\ next[q] = NULL /\ PtrCount(ptr, q) = 0 /\ NextCount(next, q) = 0
         /\ Chain(q) = {q}
         /\ \A z \in Pointers : ptr[z].p \in Pbufs /\ ptr[z].pc # "put" => q \notin Chain(ptr[z].p)
<1>1. next \in Links BY DEF PbufTypes, Links
<1>2. next[q] = NULL /\ PtrCount(ptr, q) = 0 /\ NextCount(next, q) = 0 BY DEF Counted
<1>3. Chain(q) = {q} BY <1>1, <1>2, ChainRest DEF Chain
<1> QED BY <1>2, <1>3, ChainLive DEF Refers

\* pbuf_alloc of a pbuf in one piece.
LEMMA Step_alloc ==
  ASSUME PbufInv, NEW x \in Pointers, pbuf_alloc(x)
  PROVE  PbufInv'
<1> USE DEF PbufInv
<1>1. PICK q \in Pbufs, n \in Lengths : New(q, n, n) /\ ptr' = [ptr EXCEPT ![x] = Held(q)]
  BY Zenon DEF pbuf_alloc
<1>2. ptr[x] = Unused /\ next' = next /\ n \in Nat BY PbufConstants DEF pbuf_alloc
<1>4. /\ ptr' \in [Pointers -> PtrType] /\ PtrShape'
      /\ ptr'[x] = Held(q) /\ \A z \in Pointers : z # x => ptr'[z] = ptr[z]
  BY <1>1, Values, PtrTo, Zenon
<1>3. PbufTypes' BY <1>1, <1>2, <1>4 DEF PbufTypes, New
<1>5. q \in Pbufs \ taken BY <1>1 DEF New
<1>6. Counted'
  <2>1. \A r \in Pbufs : PtrCount(ptr', r) = PtrCount(ptr, r) + (IF r = q THEN 1 ELSE 0)
    <3> TAKE r \in Pbufs
    <3>1. PtrCount(ptr', r) = PtrCount(ptr, r) - Points(ptr[x], r) + Points(Held(q), r)
      BY <1>1, Values, PtrStep, Zenon
    <3>2. Points(ptr[x], r) = 0 /\ Points(Held(q), r) = (IF r = q THEN 1 ELSE 0)
      BY <1>2, Values, PbufConstants DEF Points
    <3> QED BY <3>1, <3>2, CountTypes
  <2>2. taken' = taken \cup {q} /\ ref' = [ref EXCEPT ![q] = 1] BY <1>1 DEF New
  <2>3. \A r \in Pbufs : PtrCount(ptr, r) \in Nat /\ NextCount(next, r) \in Nat BY CountTypes
  <2> QED BY <1>2, <1>5, <2>1, <2>2, <2>3, FreshApart DEF Counted, PbufTypes
<1>7. OneDeallocates'
  <2>1. \A p \in Pbufs : (p \in taken' /\ ref'[p] = 0) <=> (p \in taken /\ ref[p] = 0)
    BY <1>1 DEF New, PbufTypes
  <2>2. \A z \in Pointers : ptr[z].pc = "put" \/ ptr'[z].pc = "put" => ptr'[z] = ptr[z]
    BY <1>2, <1>4, Values
  <2> QED BY <1>3, <2>1, <2>2, DeallocFrame DEF PbufTypes
<1>8. ASSUME NEW z \in Pointers PROVE Fine(z)'
  <2>1. CASE z = x
    <3>1. ptr'[z] = Held(q) BY <1>4, <2>1
    <3>2. Chain(q)' = {q} BY <1>2, <1>5, FreshApart DEF Chain
    <3>3. AddsUp(q)' BY <1>1, <1>2, <1>5, FreshApart DEF AddsUp, New, PbufTypes
    <3> QED BY <3>1, <3>2, <3>3, FineHeld
  <2>2. CASE z # x
    <3>1. ptr'[z] = ptr[z] BY <1>4, <2>2
    <3> DEFINE D == {q}
    <3>2. ptr[z].p \in Pbufs /\ ptr[z].pc # "put" => \A r \in Chain(ptr[z].p) : r \notin D
      BY <1>5, FreshApart
    <3>3. \A r \in Pbufs : r \notin D =>
            next'[r] = next[r] /\ len'[r] = len[r] /\ tot_len'[r] = tot_len[r] /\ ref'[r] = ref[r]
      BY <1>1, <1>2 DEF New, PbufTypes
    <3>4. next' \in Links BY <1>3 DEF PbufTypes, Links
    <3> HIDE DEF D
    <3> QED BY <3>1, <3>2, <3>3, <3>4, Others
  <2> QED BY <2>1, <2>2
<1> QED BY <1>3, <1>4, <1>6, <1>7, <1>8

\* What the pointer of an allocating thread looks like.
LEMMA Allocated ==
  ASSUME NEW p \in Pbufs, NEW q \in Pbufs, NEW rem_len \in Nat
  PROVE  /\ Allocating(p, q, rem_len) \in PtrType
         /\ Allocating(p, q, rem_len).p = p
         /\ rem_len = 0 => Allocating(p, q, rem_len) = Held(p)
         /\ rem_len # 0 => /\ Allocating(p, q, rem_len).pc = "alloc"
                           /\ Allocating(p, q, rem_len).last = q
                           /\ Allocating(p, q, rem_len).rem_len = rem_len
<1>1. CASE rem_len = 0 BY <1>1, Values DEF Allocating
<1>2. CASE rem_len # 0
  <2>1. Allocating(p, q, rem_len)
          = [p |-> p, pc |-> "alloc", last |-> q, rem_len |-> rem_len, ref |-> 0]
    BY <1>2 DEF Allocating
  <2> QED BY <1>2, <2>1 DEF PtrType
<1> QED BY <1>1, <1>2

\* A pbuf of the pool takes at most what is left.
LEMMA PoolLens ==
  ASSUME NEW n \in Nat
  PROVE  PoolLen(n) \in Nat /\ n - PoolLen(n) \in Nat
  BY PbufConstants DEF PoolLen

\* The first pbuf of a chain from the pool,
LEMMA Step_AllocPool ==
  ASSUME PbufInv, NEW x \in Pointers, AllocPool(x)
  PROVE  PbufInv'
<1> USE DEF PbufInv
<1>1. PICK q \in Pbufs, n \in Lengths :
        /\ New(q, PoolLen(n), n)
        /\ ptr' = [ptr EXCEPT ![x] = Allocating(q, q, n - PoolLen(n))]
  BY Zenon DEF AllocPool
<1> DEFINE v == Allocating(q, q, n - PoolLen(n))
<1>2. ptr[x] = Unused /\ next' = next /\ n \in Nat /\ PoolLen(n) \in Nat /\ n - PoolLen(n) \in Nat
  BY PbufConstants, PoolLens DEF AllocPool
<1>v. v \in PtrType /\ v.p = q /\ (v = Held(q) \/ v.pc = "alloc") BY <1>2, Allocated
<1>p. ptr' = [ptr EXCEPT ![x] = v] BY <1>1
<1> HIDE DEF v
<1>4. /\ ptr' \in [Pointers -> PtrType] /\ PtrShape'
      /\ ptr'[x] = v /\ \A z \in Pointers : z # x => ptr'[z] = ptr[z]
  BY <1>p, <1>v, PtrTo, Zenon
<1>3. PbufTypes' BY <1>1, <1>2, <1>4 DEF PbufTypes, New
<1>5. q \in Pbufs \ taken BY <1>1 DEF New
<1>6. Counted'
  <2>1. \A r \in Pbufs : PtrCount(ptr', r) = PtrCount(ptr, r) + (IF r = q THEN 1 ELSE 0)
    <3> TAKE r \in Pbufs
    <3>1. PtrCount(ptr', r) = PtrCount(ptr, r) - Points(ptr[x], r) + Points(v, r)
      BY <1>p, <1>v, PtrStep, Zenon
    <3>2. Points(ptr[x], r) = 0 /\ Points(v, r) = (IF r = q THEN 1 ELSE 0)
      BY <1>2, <1>v, Values, PbufConstants DEF Points
    <3> QED BY <3>1, <3>2, CountTypes
  <2>2. taken' = taken \cup {q} /\ ref' = [ref EXCEPT ![q] = 1] BY <1>1, ZenonT(60) DEF New
  <2>3. \A r \in Pbufs : PtrCount(ptr, r) \in Nat /\ NextCount(next, r) \in Nat BY CountTypes
  <2> QED BY <1>2, <1>5, <2>1, <2>2, <2>3, FreshApart DEF Counted, PbufTypes
<1>7. OneDeallocates'
  <2>1. \A p \in Pbufs : (p \in taken' /\ ref'[p] = 0) <=> (p \in taken /\ ref[p] = 0)
    BY <1>1 DEF New, PbufTypes
  <2>2. \A z \in Pointers : ptr[z].pc = "put" \/ ptr'[z].pc = "put" => ptr'[z] = ptr[z]
    BY <1>2, <1>4, <1>v, Values
  <2> QED BY <1>3, <2>1, <2>2, DeallocFrame DEF PbufTypes
<1>8. ASSUME NEW z \in Pointers PROVE Fine(z)'
  <2>1. CASE z = x
    <3>1. ptr'[z] = v BY <1>4, <2>1
    <3>2. Chain(q)' = {q} BY <1>2, <1>5, FreshApart DEF Chain
    <3>3. next'[q] = NULL /\ ref'[q] = 1 /\ len'[q] = PoolLen(n) /\ tot_len'[q] = n
      BY <1>1, <1>2, <1>5, FreshApart DEF New, PbufTypes
    <3>4. CASE n - PoolLen(n) = 0
      <4>1. v = Held(q) BY <1>2, <3>4, Allocated DEF v
      <4>2. AddsUp(q)' BY <1>2, <3>3, <3>4 DEF AddsUp
      <4> QED BY <3>1, <3>2, <4>1, <4>2, FineHeld
    <3>5. CASE n - PoolLen(n) # 0
      <4>1. v.pc = "alloc" /\ v.last = q /\ v.rem_len = n - PoolLen(n)
        BY <1>2, <3>5, Allocated DEF v
      <4>2. Owned(q)' BY <3>2, <3>3 DEF Owned
      <4>3. tot_len'[q] = len'[q] + v.rem_len BY <1>2, <3>3, <4>1
      <4> QED BY <1>2, <1>v, <3>1, <3>2, <3>3, <4>1, <4>2, <4>3, FineAlloc, ZenonT(60)
    <3> QED BY <3>4, <3>5
  <2>2. CASE z # x
    <3>1. ptr'[z] = ptr[z] BY <1>4, <2>2
    <3> DEFINE D == {q}
    <3>2. ptr[z].p \in Pbufs /\ ptr[z].pc # "put" => \A r \in Chain(ptr[z].p) : r \notin D
      BY <1>5, FreshApart
    <3>3. \A r \in Pbufs : r \notin D =>
            next'[r] = next[r] /\ len'[r] = len[r] /\ tot_len'[r] = tot_len[r] /\ ref'[r] = ref[r]
      BY <1>1, <1>2 DEF New, PbufTypes
    <3>4. next' \in Links BY <1>3 DEF PbufTypes, Links
    <3> HIDE DEF D
    <3> QED BY <3>1, <3>2, <3>3, <3>4, Others
  <2> QED BY <2>1, <2>2
<1> QED BY <1>3, <1>4, <1>6, <1>7, <1>8

\* the next one, linked behind the last,
LEMMA Step_AllocMore ==
  ASSUME PbufInv, NEW x \in Pointers, AllocMore(x)
  PROVE  PbufInv'
<1> USE DEF PbufInv
<1>a. ptr[x].pc = "alloc" BY DEF AllocMore
<1>b. ptr[x] # Unused BY <1>a, Values
<1>c. ptr[x].p \in Pbufs /\ next \in Links BY <1>b DEF PtrShape, PbufTypes, Links
<1>d. AllocFine(x) BY ZenonT(60) DEF Fine
<1>g. PICK p \in Pbufs, l \in Pbufs, m \in Nat : p = ptr[x].p /\ l = ptr[x].last /\ m = ptr[x].rem_len
  BY <1>a, <1>c, <1>d, ChainClosed, ZenonT(60) DEF AllocFine, Chain
<1>e. /\ l \in Chain(p) /\ next[l] = NULL /\ Owned(p)
      /\ tot_len[l] = len[l] + m /\ \A r \in Chain(p) \ {l} : AddsUp(r)
  BY <1>a, <1>d, <1>g, ZenonT(60) DEF AllocFine
<1>f. /\ Chain(p) \in SUBSET Pbufs /\ p \in Chain(p)
      /\ \A r \in Chain(p) : next[r] # NULL => next[r] \in Chain(p)
  BY <1>c, <1>e, ChainClosed DEF Chain
<1>2. PICK n \in Nat : n = PoolLen(m) /\ m - n \in Nat BY PoolLens
<1>1. PICK q \in Pbufs :
        /\ New(q, n, m) /\ next' = [next EXCEPT ![l] = q]
        /\ ptr' = [ptr EXCEPT ![x] = Allocating(p, q, m - n)]
  BY <1>2, <1>g, Zenon DEF AllocMore
<1>p. PICK v \in PtrType : v = Allocating(p, q, m - n) /\ ptr' = [ptr EXCEPT ![x] = v]
  BY <1>1, <1>2, Allocated, Zenon
<1>v. v.p = p /\ (v = Held(p) \/ v.pc = "alloc") BY <1>2, <1>p, Allocated
<1>w. /\ m - n = 0 => v = Held(p)
      /\ m - n # 0 => v.pc = "alloc" /\ v.last = q /\ v.rem_len = m - n
  BY <1>2, <1>p, Allocated
<1>r. Refers(x, p) BY <1>a, <1>g DEF Refers
<1>4. /\ ptr' \in [Pointers -> PtrType] /\ PtrShape'
      /\ ptr'[x] = v /\ \A z \in Pointers : z # x => ptr'[z] = ptr[z]
  BY <1>p, <1>v, PtrTo, Zenon
<1>3. PbufTypes' BY <1>1, <1>2, <1>4 DEF PbufTypes, New
<1>5. q \in Pbufs \ taken BY <1>1, ZenonT(60) DEF New
<1>l. q \notin Chain(p) /\ q # l /\ next[q] = NULL /\ Chain(q) = {q}
  BY <1>5, <1>c, <1>e, <1>r, FreshApart, ZenonT(60) DEF Refers
<1>6. Counted'
  <2>1. \A r \in Pbufs : PtrCount(ptr', r) = PtrCount(ptr, r)
    <3> TAKE r \in Pbufs
    <3>1. PtrCount(ptr', r) = PtrCount(ptr, r) - Points(ptr[x], r) + Points(v, r)
      BY <1>p, <1>v, PtrStep, Zenon
    <3>2. Points(v, r) = Points(ptr[x], r) /\ Points(v, r) \in Nat
      BY <1>a, <1>g, <1>v, Values DEF Points
    <3> QED BY <3>1, <3>2, CountTypes
  <2>2. \A r \in Pbufs : NextCount(next', r) = NextCount(next, r) + (IF r = q THEN 1 ELSE 0)
    <3> TAKE r \in Pbufs
    <3>1. NextCount(next', r) = NextCount(next, r) - Follows(next[l], r) + Follows(q, r)
      BY <1>1, <1>f, NextStep, Zenon
    <3>2. Follows(next[l], r) = 0 /\ Follows(q, r) = (IF r = q THEN 1 ELSE 0)
      BY <1>e, PbufConstants DEF Follows
    <3> QED BY <3>1, <3>2, CountTypes
  <2>3. taken' = taken \cup {q} /\ ref' = [ref EXCEPT ![q] = 1] BY <1>1 DEF New
  <2>4. \A r \in Pbufs : PtrCount(ptr, r) \in Nat /\ NextCount(next, r) \in Nat BY CountTypes
  <2>5. \A r \in Pbufs \ taken' : next'[r] = NULL
    <3>1. l \in taken BY <1>c, <1>e, <1>r, ChainLive, ZenonT(60)
    <3> QED BY <1>1, <2>3, <3>1, ZenonT(60) DEF Counted, PbufTypes
  <2>6. PtrCount(ptr, q) = 0 /\ NextCount(next, q) = 0 BY <1>5, FreshApart, ZenonT(60)
  <2>7. \A r \in taken' : ref'[r] = PtrCount(ptr', r) + NextCount(next', r)
    BY <1>5, <2>1, <2>2, <2>3, <2>4, <2>6 DEF Counted, PbufTypes
  <2>8. \A r \in Pbufs \ taken' : PtrCount(ptr', r) = 0 /\ NextCount(next', r) = 0
    BY <1>5, <2>1, <2>2, <2>3, <2>4 DEF Counted, PbufTypes
  <2> QED BY <2>5, <2>7, <2>8 DEF Counted
<1>7. OneDeallocates'
  <2>1. \A r \in Pbufs : (r \in taken' /\ ref'[r] = 0) <=> (r \in taken /\ ref[r] = 0)
    BY <1>1 DEF New, PbufTypes
  <2>2. \A z \in Pointers : ptr[z].pc = "put" \/ ptr'[z].pc = "put" => ptr'[z] = ptr[z]
    BY <1>4, <1>v, <1>a, Values, ZenonT(60)
  <2> QED BY <1>3, <2>1, <2>2, DeallocFrame, ZenonT(60) DEF PbufTypes
<1>8. ASSUME NEW z \in Pointers PROVE Fine(z)'
  <2>1. CASE z = x
    <3>1. ptr'[z] = v BY <1>4, <2>1
    <3>2. Chain(p)' = Chain(p) \cup {q}
      <4>1. l \notin Chain(q) BY <1>l, ZenonT(60)
      <4>2. ChainOf([next EXCEPT ![l] = q], p) = ChainOf(next, p) \cup ChainOf(next, q)
        BY <1>c, <1>e, <4>1, ChainAppend DEF Chain
      <4> QED BY <1>1, <1>l, <4>2, Zenon DEF Chain
    <3>3. /\ next'[q] = NULL /\ ref'[q] = 1 /\ len'[q] = n /\ tot_len'[q] = m /\ next'[l] = q
          /\ \A r \in Pbufs : r # q => len'[r] = len[r] /\ tot_len'[r] = tot_len[r] /\ ref'[r] = ref[r]
          /\ \A r \in Pbufs : r # l => next'[r] = next[r]
      BY <1>1, <1>l, <1>f, ZenonT(60) DEF New, PbufTypes
    <3>4. ASSUME NEW r \in Chain(p) PROVE AddsUp(r)'
      <4>1. CASE r = l
        BY <1>e, <1>f, <1>l, <3>3, <4>1, PbufConstants, ZenonT(60) DEF AddsUp
      <4>2. CASE r # l
        <5>1. AddsUp(r) /\ r # q BY <1>e, <1>l, <4>2, ZenonT(60)
        <5>2. next[r] # NULL => next[r] # q /\ next[r] \in Pbufs BY <1>f, <1>l, ZenonT(60)
        <5> QED BY <1>f, <3>3, <4>2, <5>1, <5>2 DEF AddsUp
      <4> QED BY <4>1, <4>2, ZenonT(60)
    <3>5. CASE m - n = 0
      <4>1. AddsUp(q)' BY <1>2, <1>e, <3>3, <3>5 DEF AddsUp
      <4> QED BY <1>w, <3>1, <3>2, <3>4, <3>5, <4>1, FineHeld, ZenonT(60)
    <3>6. CASE m - n # 0
      <4>1. v.pc = "alloc" /\ v.last = q /\ v.rem_len = m - n BY <1>w, <3>6, ZenonT(60)
      <4>2. Owned(p)' BY <1>e, <1>f, <1>l, <3>2, <3>3, ZenonT(60) DEF Owned
      <4>3. tot_len'[q] = len'[q] + v.rem_len BY <1>2, <1>e, <3>3, <4>1
      <4>4. \A r \in Chain(p)' \ {q} : AddsUp(r)' BY <3>2, <3>4, ZenonT(60)
      <4> QED BY <1>2, <1>v, <3>1, <3>2, <3>3, <4>1, <4>2, <4>3, <4>4, FineAlloc, ZenonT(60)
    <3> QED BY <3>5, <3>6
  <2>2. CASE z # x
    <3>1. ptr'[z] = ptr[z] BY <1>4, <2>2, ZenonT(60)
    <3> DEFINE D == {q} \cup Chain(p)
    <3>2. ptr[z].p \in Pbufs /\ ptr[z].pc # "put" => \A r \in Chain(ptr[z].p) : r \notin D
      BY <1>5, <1>c, <1>e, <1>r, <2>2, FreshApart, OwnedApart DEF Refers
    <3>3. \A r \in Pbufs : r \notin D =>
            next'[r] = next[r] /\ len'[r] = len[r] /\ tot_len'[r] = tot_len[r] /\ ref'[r] = ref[r]
      BY <1>1, <1>e DEF New, PbufTypes
    <3>4. next' \in Links BY <1>3 DEF PbufTypes, Links
    <3> HIDE DEF D
    <3> QED BY <3>1, <3>2, <3>3, <3>4, Others, ZenonT(60)
  <2> QED BY <2>1, <2>2
<1> QED BY <1>3, <1>4, <1>6, <1>7, <1>8

\* A pointer starts to free the pbuf it refers to: no count changes.
LEMMA Step_ToFree ==
  ASSUME PbufInv, NEW x \in Pointers, NEW p \in Pbufs, Refers(x, p),
         ptr' = [ptr EXCEPT ![x] = ToFree(p)], UNCHANGED <<taken, next, len, tot_len, ref>>
  PROVE  PbufInv'
<1> USE DEF PbufInv
<1>1. /\ ptr[x].p = p /\ ptr[x].pc # "put"
      /\ ToFree(p) \in PtrType /\ ToFree(p).p = p /\ ToFree(p).pc = "dec"
  BY Values DEF Refers
<1>4. /\ ptr' \in [Pointers -> PtrType] /\ PtrShape'
      /\ ptr'[x] = ToFree(p) /\ \A z \in Pointers : z # x => ptr'[z] = ptr[z]
  BY <1>1, PtrTo, Zenon
<1>3. PbufTypes' BY <1>4 DEF PbufTypes
<1>6. Counted'
  <2>1. \A r \in Pbufs : PtrCount(ptr', r) = PtrCount(ptr, r)
    <3> TAKE r \in Pbufs
    <3>1. PtrCount(ptr', r) = PtrCount(ptr, r) - Points(ptr[x], r) + Points(ToFree(p), r)
      BY <1>1, PtrStep, Zenon
    <3>2. Points(ptr[x], r) = Points(ToFree(p), r) /\ Points(ptr[x], r) \in Nat
      BY <1>1 DEF Points
    <3> QED BY <3>1, <3>2, CountTypes
  <2> QED BY <2>1, Zenon DEF Counted, PbufTypes
<1>7. OneDeallocates'
  <2>2. \A z \in Pointers : ptr[z].pc = "put" \/ ptr'[z].pc = "put" => ptr'[z] = ptr[z]
    BY <1>1, <1>4
  <2> QED BY <1>3, <2>2, DeallocFrame DEF PbufTypes
<1>8. ASSUME NEW z \in Pointers PROVE Fine(z)'
  <2>1. CASE z = x
    <3>1. ptr'[z] = ToFree(p) BY <1>4, <2>1, ZenonT(60)
    <3> QED BY <1>1, <3>1, FineFreed
  <2>2. CASE z # x
    <3>1. ptr'[z] = ptr[z] BY <1>4, <2>2
    <3>2. next' \in Links BY <1>3 DEF PbufTypes, Links
    <3> QED BY <3>1, <3>2, Frame
  <2> QED BY <2>1, <2>2
<1> QED BY <1>3, <1>4, <1>6, <1>7, <1>8, ZenonT(60)

\* and the empty pool: the unfinished chain is freed.
LEMMA Step_AllocFails ==
  ASSUME PbufInv, NEW x \in Pointers, AllocFails(x)
  PROVE  PbufInv'
<1>1. ptr[x].pc = "alloc" /\ ptr[x] # Unused BY Values DEF AllocFails
<1>2. PICK p \in Pbufs : p = ptr[x].p BY <1>1 DEF PbufInv, PtrShape
<1>3. Refers(x, p) BY <1>1, <1>2 DEF Refers
<1> QED BY <1>2, <1>3, Step_ToFree, Zenon DEF AllocFails

\* pbuf_free begins.
LEMMA Step_free ==
  ASSUME PbufInv, NEW x \in Pointers, pbuf_free(x)
  PROVE  PbufInv'
<1>1. PICK p \in Pbufs : /\ Holds(x, p) /\ ptr' = [ptr EXCEPT ![x] = ToFree(p)]
                         /\ UNCHANGED <<taken, next, len, tot_len, ref>>
  BY Zenon DEF pbuf_free
<1>2. Refers(x, p) BY <1>1, HoldsFacts
<1> QED BY <1>1, <1>2, Step_ToFree, Zenon

\* pbuf_ref counts a second pointer.
LEMMA Step_ref ==
  ASSUME PbufInv, NEW x \in Pointers, NEW y \in Pointers, pbuf_ref(x, y)
  PROVE  PbufInv'
<1> USE DEF PbufInv
<1>1. PICK p \in Pbufs :
        /\ Holds(x, p) /\ ptr[y] = Unused
        /\ ref' = [ref EXCEPT ![p] = @ + 1] /\ ptr' = [ptr EXCEPT ![y] = Held(p)]
        /\ UNCHANGED <<taken, next, len, tot_len>>
  BY Zenon DEF pbuf_ref
<1>2. ptr[x] = Held(p) /\ Refers(x, p) /\ x # y
  BY <1>1, HoldsFacts
<1>4. /\ ptr' \in [Pointers -> PtrType] /\ PtrShape'
      /\ ptr'[y] = Held(p) /\ \A z \in Pointers : z # y => ptr'[z] = ptr[z]
  BY <1>1, Values, PtrTo, Zenon
<1>3. PbufTypes' BY <1>1, <1>4 DEF PbufTypes
<1>5. p \in taken /\ ref[p] >= 1 BY <1>2, Live
<1>6. Counted'
  <2>1. \A r \in Pbufs : PtrCount(ptr', r) = PtrCount(ptr, r) + (IF r = p THEN 1 ELSE 0)
    <3> TAKE r \in Pbufs
    <3>1. PtrCount(ptr', r) = PtrCount(ptr, r) - Points(ptr[y], r) + Points(Held(p), r)
      BY <1>1, Values, PtrStep, Zenon
    <3>2. Points(ptr[y], r) = 0 /\ Points(Held(p), r) = (IF r = p THEN 1 ELSE 0)
      BY <1>1, Values, PbufConstants DEF Points
    <3> QED BY <3>1, <3>2, CountTypes
  <2>2. \A r \in Pbufs : PtrCount(ptr, r) \in Nat /\ NextCount(next, r) \in Nat BY CountTypes
  <2>3. \A r \in Pbufs : ref'[r] = ref[r] + (IF r = p THEN 1 ELSE 0) BY <1>1 DEF PbufTypes
  <2>4. taken' = taken /\ next' = next /\ taken \subseteq Pbufs BY <1>1 DEF PbufTypes
  <2>5. \A r \in taken : ref[r] = PtrCount(ptr, r) + NextCount(next, r) BY DEF Counted
  <2>6. \A r \in taken : ref'[r] = PtrCount(ptr', r) + NextCount(next, r)
    BY <2>1, <2>2, <2>3, <2>4, <2>5
  <2>7. \A r \in Pbufs \ taken : PtrCount(ptr', r) = 0 BY <1>5, <2>1 DEF Counted
  <2> QED BY <2>4, <2>6, <2>7 DEF Counted
<1>7. OneDeallocates'
  <2>1. \A r \in Pbufs : (r \in taken' /\ ref'[r] = 0) <=> (r \in taken /\ ref[r] = 0)
    BY <1>1, <1>5 DEF PbufTypes
  <2>2. \A z \in Pointers : ptr[z].pc = "put" \/ ptr'[z].pc = "put" => ptr'[z] = ptr[z]
    BY <1>1, <1>4, Values
  <2> QED BY <1>3, <2>1, <2>2, DeallocFrame DEF PbufTypes
<1>8. ASSUME NEW z \in Pointers PROVE Fine(z)'
  <2>0. next' \in Links /\ next \in Links BY <1>3 DEF PbufTypes, Links
  <2>1. CASE z = y
    <3>1. ptr'[z] = Held(p) BY <1>4, <2>1
    <3>2. \A q \in Chain(p) : AddsUp(q) BY <1>2, HeldAddsUp, ZenonT(60)
    <3>3. \A q \in Chain(p)' : AddsUp(q)' BY <1>1, <3>2, ZenonT(60) DEF Chain, AddsUp
    <3> QED BY <3>1, <3>3, FineHeld
  <2>2. CASE z # y
    <3>1. ptr'[z] = ptr[z] BY <1>4, <2>2
    <3>2. ptr[z].pc = "alloc" => \A q \in Chain(ptr[z].p) : ref'[q] = ref[q]
      <4> SUFFICES ASSUME ptr[z].pc = "alloc", NEW q \in Chain(ptr[z].p) PROVE ref'[q] = ref[q]
        OBVIOUS
      <4>1. ptr[z].p \in Pbufs BY AllocApart
      <4>2. Owned(ptr[z].p) /\ Refers(z, ptr[z].p) /\ z # x BY <1>2, AllocApart, ZenonT(60)
      <4>3. p \notin Chain(ptr[z].p)
        <5>1. p \in Chain(p) BY <2>0, ChainClosed DEF Chain
        <5> QED BY <1>2, <4>1, <4>2, <5>1, OwnedApart, ZenonT(60)
      <4>4. q \in Pbufs BY <2>0, <4>1, ChainClosed DEF Chain
      <4> QED BY <1>1, <4>3, <4>4, ZenonT(60) DEF PbufTypes
    <3> QED BY <1>1, <2>0, <3>1, <3>2, Frame
  <2> QED BY <2>1, <2>2
<1> QED BY <1>3, <1>4, <1>6, <1>7, <1>8

\* pbuf_free counts down, and stops or goes on to deallocate.
LEMMA Step_FreeDec ==
  ASSUME PbufInv, NEW x \in Pointers, FreeDec(x)
  PROVE  PbufInv'
<1> USE DEF PbufInv
<1>a. ptr[x].pc = "dec" BY DEF FreeDec
<1>b. PICK p \in Pbufs : ptr[x].p = p BY <1>a, Values DEF PtrShape
<1>2. Refers(x, p) BY <1>a, <1>b DEF Refers
<1>5. p \in taken /\ ref[p] >= 1 BY <1>2, Live
<1>c. PICK m \in Int : m = ref[p] - 1 BY DEF PbufTypes
<1>f. PICK v : v = [Unused EXCEPT !.p = p, !.pc = "put", !.ref = m] OBVIOUS
<1>d. v.p = p /\ v.pc = "put" /\ v.ref = m BY <1>f DEF Unused
<1>e. v \in PtrType BY <1>f, <1>c, Values, Zenon DEF PtrType
<1>1. /\ ref' = [ref EXCEPT ![p] = m] /\ ptr' = [ptr EXCEPT ![x] = v]
      /\ UNCHANGED <<taken, next, len, tot_len>>
  BY <1>b, <1>c, <1>f DEF FreeDec
<1>v. v \in PtrType /\ v.p = p /\ v.pc = "put" /\ v.ref = m BY <1>d, <1>e
<1>4. /\ ptr' \in [Pointers -> PtrType] /\ PtrShape'
      /\ ptr'[x] = v /\ \A z \in Pointers : z # x => ptr'[z] = ptr[z]
  BY <1>1, <1>v, PtrTo, Zenon
<1>3. PbufTypes' BY <1>1, <1>4, ZenonT(60) DEF PbufTypes
<1>6. Counted'
  <2>1. \A r \in Pbufs : PtrCount(ptr', r) = PtrCount(ptr, r) - (IF r = p THEN 1 ELSE 0)
    <3> TAKE r \in Pbufs
    <3>1. PtrCount(ptr', r) = PtrCount(ptr, r) - Points(ptr[x], r) + Points(v, r)
      BY <1>1, <1>v, PtrStep, Zenon
    <3>2. Points(ptr[x], r) = (IF r = p THEN 1 ELSE 0) /\ Points(v, r) = 0
      BY <1>a, <1>b, <1>v DEF Points
    <3> QED BY <3>1, <3>2, CountTypes
  <2>2. \A r \in Pbufs : PtrCount(ptr, r) \in Nat /\ NextCount(next, r) \in Nat BY CountTypes
  <2>3. \A r \in Pbufs : ref'[r] = ref[r] - (IF r = p THEN 1 ELSE 0)
    BY <1>1, <1>c DEF PbufTypes
  <2>4. taken' = taken /\ next' = next /\ taken \subseteq Pbufs BY <1>1 DEF PbufTypes
  <2>5. \A r \in taken : ref[r] = PtrCount(ptr, r) + NextCount(next, r) BY DEF Counted
  <2>6. \A r \in taken : ref'[r] = PtrCount(ptr', r) + NextCount(next, r)
    BY <2>1, <2>2, <2>3, <2>4, <2>5
  <2>7. \A r \in Pbufs \ taken : PtrCount(ptr', r) = 0 BY <1>5, <2>1 DEF Counted
  <2> QED BY <2>4, <2>6, <2>7, ZenonT(60) DEF Counted
<1>7. OneDeallocates'
  <2>1. \A z \in Pointers : ~Deallocates(z, p) BY <1>5 DEF OneDeallocates
  <2>2. \A z \in Pointers : z # x => ptr'[z] = ptr[z] BY <1>4
  <2>3. ptr'[x] = v BY <1>4
  <2>4. \A z \in Pointers, r \in Pbufs : r # p => (Deallocates(z, r)' <=> Deallocates(z, r))
    BY <1>a, <1>v, <2>2, <2>3, ZenonT(60) DEF Deallocates
  <2>5. \A z \in Pointers : Deallocates(z, p)' <=> (z = x /\ m = 0)
    BY <1>v, <2>1, <2>2, <2>3 DEF Deallocates
  <2>6. \A r \in Pbufs : r # p => ref'[r] = ref[r] BY <1>1 DEF PbufTypes
  <2>7. ref'[p] = m /\ taken' = taken BY <1>1 DEF PbufTypes
  <2> QED BY <1>5, <2>4, <2>5, <2>6, <2>7 DEF OneDeallocates, PbufTypes
<1>8. ASSUME NEW z \in Pointers PROVE Fine(z)'
  <2>0. next' \in Links /\ next \in Links BY <1>3 DEF PbufTypes, Links
  <2>1. CASE z = x
    <3>1. ptr'[z] = v BY <1>4, <2>1, ZenonT(60)
    <3> QED BY <3>1, <1>v, FineFreed
  <2>2. CASE z # x
    <3>1. ptr'[z] = ptr[z] BY <1>4, <2>2
    <3>2. ptr[z].pc = "alloc" => \A q \in Chain(ptr[z].p) : ref'[q] = ref[q]
      <4> SUFFICES ASSUME ptr[z].pc = "alloc", NEW q \in Chain(ptr[z].p) PROVE ref'[q] = ref[q]
        OBVIOUS
      <4>1. ptr[z].p \in Pbufs BY AllocApart, ZenonT(60)
      <4>2. Owned(ptr[z].p) /\ Refers(z, ptr[z].p) BY AllocApart, ZenonT(60)
      <4>3. p \notin Chain(ptr[z].p)
        <5>1. p \in Chain(p) BY <2>0, ChainClosed, ZenonT(60) DEF Chain
        <5> QED BY <1>2, <2>2, <4>1, <4>2, <5>1, OwnedApart, ZenonT(60)
      <4>4. q \in Pbufs BY <2>0, <4>1, ChainClosed, ZenonT(60) DEF Chain
      <4> QED BY <1>1, <4>3, <4>4, ZenonT(60) DEF PbufTypes
    <3> QED BY <1>1, <2>0, <3>1, <3>2, Frame, ZenonT(60)
  <2> QED BY <2>1, <2>2
<1> QED BY <1>3, <1>4, <1>6, <1>7, <1>8

\* pbuf_free returns the memory and goes on with the next pbuf of the chain.
LEMMA Step_FreePut ==
  ASSUME PbufInv, NEW x \in Pointers, FreePut(x)
  PROVE  PbufInv'
<1> USE DEF PbufInv
<1>a. ptr[x].pc = "put" BY DEF FreePut
<1>b. PICK p \in Pbufs : ptr[x].p = p BY <1>a, Values, ZenonT(60) DEF PtrShape
<1>1. CASE ptr[x].ref # 0
  <2>1. ptr' = [ptr EXCEPT ![x] = Unused] /\ UNCHANGED <<taken, next, len, tot_len, ref>>
    BY <1>1 DEF FreePut
  <2>4. /\ ptr' \in [Pointers -> PtrType] /\ PtrShape'
        /\ ptr'[x] = Unused /\ \A z \in Pointers : z # x => ptr'[z] = ptr[z]
    BY <2>1, Values, PtrTo, Zenon
  <2>3. PbufTypes' BY <2>1, <2>4 DEF PbufTypes
  <2>6. Counted'
    <3>1. \A r \in Pbufs : PtrCount(ptr', r) = PtrCount(ptr, r)
      <4> TAKE r \in Pbufs
      <4>1. PtrCount(ptr', r) = PtrCount(ptr, r) - Points(ptr[x], r) + Points(Unused, r)
        BY <2>1, Values, PtrStep, Zenon
      <4>2. Points(ptr[x], r) = 0 /\ Points(Unused, r) = 0
        BY <1>a, Values, PbufConstants, ZenonT(60) DEF Points
      <4> QED BY <4>1, <4>2, CountTypes
    <3> QED BY <2>1, <3>1, Zenon DEF Counted, PbufTypes
  <2>7. OneDeallocates'
    <3>1. \A z \in Pointers, r \in Pbufs : Deallocates(z, r)' <=> Deallocates(z, r)
      <4>1. \A z \in Pointers : z # x => ptr'[z] = ptr[z] BY <2>4, ZenonT(60)
      <4>2. ptr'[x].pc = "held" BY <2>4, Values, ZenonT(60)
      <4> QED BY <1>1, <4>1, <4>2 DEF Deallocates
    <3>2. taken' = taken /\ ref' = ref /\ taken \subseteq Pbufs BY <2>1 DEF PbufTypes
    <3> QED BY <3>1, <3>2 DEF OneDeallocates
  <2>8. ASSUME NEW z \in Pointers PROVE Fine(z)'
    <3>0. next' \in Links BY <2>3 DEF PbufTypes, Links
    <3>1. CASE z = x
      <4>1. ptr'[z] = Unused BY <2>4, <3>1, ZenonT(60)
      <4> QED BY <4>1, FineFreed
    <3>2. CASE z # x
      <4>1. ptr'[z] = ptr[z] BY <2>4, <3>2
      <4> QED BY <2>1, <3>0, <4>1, Frame
    <3> QED BY <3>1, <3>2
  <2> QED BY <2>3, <2>4, <2>6, <2>7, <2>8, ZenonT(60)
<1>2. CASE ptr[x].ref = 0
  <2>0. PICK w \in Pbufs \cup {NULL} : w = next[p] BY DEF PbufTypes
  <2>v. PICK v \in PtrType : v = ToFree(w) BY Values
  <2>u. v.p = w /\ v.pc # "put" /\ (v = Unused \/ (v.pc = "dec" /\ w \in Pbufs))
    BY <2>v, Values, ZenonT(60)
  <2>1. /\ GiveBack(p) /\ ptr' = [ptr EXCEPT ![x] = v] /\ ref' = ref
    BY <1>2, <1>b, <2>0, <2>v, ZenonT(60) DEF FreePut
  <2>2. Deallocates(x, p) BY <1>a, <1>b, <1>2 DEF Deallocates
  <2>5. p \in taken /\ ref[p] = 0 /\ \A z \in Pointers : Deallocates(z, p) => z = x
    BY <2>2 DEF OneDeallocates
  <2>c. PtrCount(ptr, p) = 0 /\ NextCount(next, p) = 0
    <3>1. ref[p] = PtrCount(ptr, p) + NextCount(next, p) BY <2>5, ZenonT(60) DEF Counted
    <3> QED BY <2>5, <3>1, CountTypes, SMTT(30)
  <2>d. w # p
    <3>1. next[p] # p BY <2>5, Live
    <3> QED BY <2>0, <3>1, ZenonT(60)
  <2>g. /\ taken' = taken \ {p} /\ next' = [next EXCEPT ![p] = NULL]
        /\ len' = [len EXCEPT ![p] = 0] /\ tot_len' = [tot_len EXCEPT ![p] = 0]
    BY <2>1 DEF GiveBack
  <2>4. /\ ptr' \in [Pointers -> PtrType] /\ PtrShape'
        /\ ptr'[x] = v /\ \A z \in Pointers : z # x => ptr'[z] = ptr[z]
    BY <2>1, <2>u, PtrTo, Zenon
  <2>3. PbufTypes' BY <2>1, <2>4, <2>g, ZenonT(60) DEF PbufTypes
  <2>6. Counted'
    <3>1. \A r \in Pbufs : PtrCount(ptr', r) = PtrCount(ptr, r) + (IF r = w THEN 1 ELSE 0)
      <4> TAKE r \in Pbufs
      <4>1. PtrCount(ptr', r) = PtrCount(ptr, r) - Points(ptr[x], r) + Points(v, r)
        BY <2>1, PtrStep, Zenon
      <4>2. Points(ptr[x], r) = 0 /\ Points(v, r) = (IF r = w THEN 1 ELSE 0)
        BY <1>a, <2>u, ZenonT(60) DEF Points
      <4> QED BY <4>1, <4>2, CountTypes
    <3>2. \A r \in Pbufs : NextCount(next', r) = NextCount(next, r) - (IF r = w THEN 1 ELSE 0)
      <4> TAKE r \in Pbufs
      <4>1. NextCount(next', r) = NextCount(next, r) - Follows(next[p], r) + Follows(NULL, r)
        BY <2>g, NextStep, Zenon
      <4>2. Follows(next[p], r) = (IF r = w THEN 1 ELSE 0) /\ Follows(NULL, r) = 0
        BY <2>0, PbufConstants DEF Follows
      <4> QED BY <4>1, <4>2, CountTypes
    <3>3. \A r \in Pbufs : PtrCount(ptr, r) \in Nat /\ NextCount(next, r) \in Nat BY CountTypes
    <3>4. w \in Pbufs => w \in taken
      BY <2>0, Live, ZenonT(60)
    <3>5. \A r \in taken' : ref'[r] = PtrCount(ptr', r) + NextCount(next', r)
      <4>1. \A r \in taken : ref[r] = PtrCount(ptr, r) + NextCount(next, r) BY DEF Counted
      <4>2. taken' \subseteq taken /\ taken \subseteq Pbufs /\ ref' = ref
        BY <2>1, <2>g, ZenonT(60) DEF PbufTypes
      <4> QED BY <3>1, <3>2, <3>3, <4>1, <4>2
    <3>6. \A r \in Pbufs \ taken' : PtrCount(ptr', r) = 0 /\ NextCount(next', r) = 0 /\ next'[r] = NULL
      <4>1. \A r \in Pbufs \ taken : PtrCount(ptr, r) = 0 /\ NextCount(next, r) = 0 /\ next[r] = NULL
        BY DEF Counted
      <4>2. next'[p] = NULL /\ \A r \in Pbufs : r # p => next'[r] = next[r] BY <2>g DEF PbufTypes
      <4>3. \A r \in Pbufs \ taken' : r # w /\ (r = p \/ r \in Pbufs \ taken) BY <2>d, <2>g, <3>4, ZenonT(60)
      <4>4. \A r \in Pbufs \ taken' : PtrCount(ptr, r) = 0 /\ NextCount(next, r) = 0 /\ next'[r] = NULL
        BY <2>c, <4>1, <4>2, <4>3
      <4> QED BY <3>1, <3>2, <4>3, <4>4
    <3> QED BY <3>5, <3>6 DEF Counted
  <2>7. OneDeallocates'
    <3>1. \A z \in Pointers : z # x => ptr'[z] = ptr[z] BY <2>4
    <3>2. ptr'[x] = v BY <2>4
    <3>3. \A z \in Pointers, r \in Pbufs : r # p => (Deallocates(z, r)' <=> Deallocates(z, r))
      BY <1>b, <2>u, <3>1, <3>2, ZenonT(60) DEF Deallocates
    <3>4. \A z \in Pointers : ~Deallocates(z, p)'
      BY <2>5, <2>u, <3>1, <3>2, ZenonT(60) DEF Deallocates
    <3> QED BY <2>1, <2>5, <2>g, <3>3, <3>4 DEF OneDeallocates, PbufTypes
  <2>8. ASSUME NEW z \in Pointers PROVE Fine(z)'
    <3>0. next' \in Links BY <2>3 DEF PbufTypes, Links
    <3>1. CASE z = x
      <4>1. ptr'[z] = v BY <2>4, <3>1, ZenonT(60)
      <4> QED BY <2>u, <4>1, FineFreed
    <3>2. CASE z # x
      <4>1. ptr'[z] = ptr[z] BY <2>4, <3>2, ZenonT(60)
      <4> DEFINE D == {p}
      <4>2. ptr[z].p \in Pbufs /\ ptr[z].pc # "put" => \A r \in Chain(ptr[z].p) : r \notin D
        BY <2>5, ChainLive DEF Refers
      <4>3. \A r \in Pbufs : r \notin D =>
              next'[r] = next[r] /\ len'[r] = len[r] /\ tot_len'[r] = tot_len[r] /\ ref'[r] = ref[r]
        BY <2>1, <2>g, SMTT(30) DEF PbufTypes
      <4> HIDE DEF D
      <4> QED BY <3>0, <4>1, <4>2, <4>3, Others, ZenonT(60)
    <3> QED BY <3>1, <3>2
  <2> QED BY <2>3, <2>4, <2>6, <2>7, <2>8, ZenonT(60)
<1> QED BY <1>1, <1>2, ZenonT(60)

==============================================================================
