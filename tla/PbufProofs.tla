---------------------------- MODULE PbufProofs ----------------------------
(***************************************************************************)
(* The operations that change chains (pbuf_cat, pbuf_chain, pbuf_dechain,  *)
(* pbuf_realloc, the headers and pbuf_coalesce) keep the invariant PbufInv *)
(* of PbufLemmas, and with it PbufsSound always holds.                     *)
(***************************************************************************)
EXTENDS PbufLemmas

-----------------------------------------------------------------------------
\* The chain at t behind the one at h, which only x refers to: what becomes of
\* links, lengths and the other pointers, in pbuf_cat and pbuf_chain.
LEMMA CatFacts ==
  ASSUME PbufInv, NEW x \in Pointers, NEW y \in Pointers, NEW h \in Pbufs, NEW t \in Pbufs,
         Holds(x, h), Holds(y, t), Cat(h, t), UNCHANGED len
  PROVE  /\ x # y /\ Refers(x, h) /\ Refers(y, t)
         /\ next' \in Links /\ tot_len' \in [Pbufs -> Nat]
         /\ \A r \in Pbufs : r \notin Chain(h) => next'[r] = next[r] /\ tot_len'[r] = tot_len[r]
         /\ \A r \in Pbufs :
              NextCount(next', r) = NextCount(next, r) + (IF r = t THEN 1 ELSE 0)
         /\ \A r \in Pbufs : r \notin taken => next'[r] = next[r]
         /\ \A r \in ChainOf(next', h) : AddsUp(r)'
<1> USE DEF PbufInv
<1>1. PICK l \in Chain(h) : next[l] = NULL /\ next' = [next EXCEPT ![l] = t]
  BY Zenon DEF Cat
<1>2. /\ Owned(h) /\ h # t
      /\ tot_len' = [q \in Pbufs |-> IF q \in Chain(h) THEN tot_len[q] + tot_len[t] ELSE tot_len[q]]
  BY DEF Cat
<1>3. x # y /\ Refers(x, h) /\ Refers(y, t) BY <1>2, Values DEF Holds, Refers
<1>4. next \in Links BY DEF PbufTypes, Links
<1>5. /\ Chain(h) \in SUBSET Pbufs /\ h \in Chain(h) /\ l \in Pbufs /\ Chain(t) \in SUBSET Pbufs
      /\ \A r \in Chain(h) : next[r] # NULL => next[r] \in Chain(h)
      /\ t \in Chain(t) /\ \A r \in Chain(t) : next[r] # NULL => next[r] \in Chain(t)
  BY <1>4, ChainClosed DEF Chain
<1>6. \A r \in Chain(t) : r \notin Chain(h) BY <1>2, <1>3, OwnedApart
<1>7. next' \in Links BY <1>1, <1>5, <1>4 DEF Links
<1>8. tot_len' \in [Pbufs -> Nat] BY <1>2 DEF PbufTypes
<1>9. \A r \in Pbufs : r \notin Chain(h) => next'[r] = next[r] /\ tot_len'[r] = tot_len[r]
  BY <1>1, <1>2, <1>4 DEF Links
<1>10. ASSUME NEW r \in Pbufs
       PROVE  NextCount(next', r) = NextCount(next, r) + (IF r = t THEN 1 ELSE 0)
  <2>1. NextCount(next', r) = NextCount(next, r) - Follows(next[l], r) + Follows(t, r)
    <3>1. l \in Pbufs /\ t \in Pbufs \cup {NULL} /\ next' = [next EXCEPT ![l] = t] BY <1>1, <1>5
    <3>2. PbufTypes OBVIOUS
    <3> QED BY <3>1, <3>2, NextStep, Zenon
  <2>2. Follows(next[l], r) = 0 /\ Follows(t, r) = (IF r = t THEN 1 ELSE 0)
    BY <1>1, PbufConstants DEF Follows
  <2> QED BY <2>1, <2>2, CountTypes
<1>11. \A r \in Pbufs : r \notin taken => next'[r] = next[r]
  BY <1>3, <1>9, ChainLive
<1>12. ASSUME NEW r \in ChainOf(next', h) PROVE AddsUp(r)'
  <2>1. ChainOf(next', h) = Chain(h) \cup Chain(t)
    <3>1. l \notin ChainOf(next, t) BY <1>6 DEF Chain
    <3>2. l \in ChainOf(next, h) BY DEF Chain
    <3>3. ChainOf([next EXCEPT ![l] = t], h) = ChainOf(next, h) \cup ChainOf(next, t)
      <4>1. next[l] = NULL BY <1>1
      <4> DEFINE g == next
      <4>2. g \in Links /\ l \in ChainOf(g, h) /\ l \notin ChainOf(g, t) /\ g[l] = NULL
        BY <1>4, <3>1, <3>2, <4>1
      <4> HIDE DEF g
      <4>3. ChainOf([g EXCEPT ![l] = t], h) = ChainOf(g, h) \cup ChainOf(g, t)
        BY <4>2, ChainAppend
      <4> QED BY <4>3, Zenon DEF g
    <3> QED BY <1>1, <3>3, Zenon DEF Chain
  <2>2. \A q \in Chain(h) : AddsUp(q) BY HoldsFacts, HeldAddsUp
  <2>3. \A q \in Chain(t) : AddsUp(q) BY HoldsFacts, HeldAddsUp
  <2>4. t \notin Chain(h) /\ tot_len'[t] = tot_len[t] BY <1>5, <1>6, <1>9, SMTT(30)
  <2>5. \A q \in Chain(h) : tot_len'[q] = tot_len[q] + tot_len[t] BY <1>2, <1>5
  <2>6. next'[l] = t /\ \A q \in Pbufs : q # l => next'[q] = next[q]
    BY <1>1, <1>4, <1>5 DEF Links
  <2>7. tot_len \in [Pbufs -> Nat] /\ len \in [Pbufs -> Nat] /\ len' = len BY DEF PbufTypes
  <2>8. CASE r = l
    <3>1. tot_len[r] = len[r] BY <1>1, <1>5, <2>2, <2>7, <2>8 DEF AddsUp
    <3> QED BY <1>1, <1>5, <2>4, <2>5, <2>6, <2>7, <2>8, <3>1, PbufConstants, ZenonT(60) DEF AddsUp
  <2>9. CASE r \in Chain(h) /\ r # l
    <3>1. next[r] # NULL BY <1>1, <1>4, <2>9, ChainEnd DEF Chain
    <3>2. tot_len[r] = len[r] + tot_len[next[r]] BY <2>2, <2>9, <3>1 DEF AddsUp
    <3>3. next[r] \in Chain(h) /\ next[r] \in Pbufs /\ r \in Pbufs BY <1>5, <2>9, <3>1
    <3>4. tot_len'[r] = len[r] + tot_len'[next[r]] BY <2>5, <2>7, <2>9, <3>2, <3>3, SMTT(30)
    <3> QED BY <2>6, <2>7, <2>9, <3>1, <3>3, <3>4, ZenonT(60) DEF AddsUp
  <2>10. CASE r \in Chain(t)
    <3>1. r \in Pbufs /\ r # l /\ r \notin Chain(h) BY <1>5, <1>6, <2>10, SMTT(30)
    <3>2. next[r] # NULL => tot_len'[next[r]] = tot_len[next[r]]
      BY <1>5, <1>6, <1>9, <2>10
    <3> QED BY <1>9, <2>3, <2>7, <2>10, <3>1, <3>2, ZenonT(60) DEF AddsUp
  <2> QED BY <2>1, <2>8, <2>9, <2>10
<1> QED BY <1>3, <1>7, <1>8, <1>9, <1>10, <1>11, <1>12

\* pbuf_cat takes over the reference of its caller to the tail.
LEMMA Step_cat ==
  ASSUME PbufInv, NEW x \in Pointers, NEW y \in Pointers, pbuf_cat(x, y)
  PROVE  PbufInv'
<1> USE DEF PbufInv
<1>1. PICK h, t \in Pbufs :
        /\ Holds(x, h) /\ Holds(y, t) /\ Cat(h, t)
        /\ ptr' = [ptr EXCEPT ![y] = Unused] /\ UNCHANGED <<taken, len, ref>>
  BY DEF pbuf_cat
<1>2. /\ x # y /\ Refers(x, h) /\ Refers(y, t) /\ Owned(h)
      /\ next' \in Links /\ tot_len' \in [Pbufs -> Nat]
      /\ \A r \in Pbufs : r \notin Chain(h) => next'[r] = next[r] /\ tot_len'[r] = tot_len[r]
      /\ \A r \in Pbufs : NextCount(next', r) = NextCount(next, r) + (IF r = t THEN 1 ELSE 0)
      /\ \A r \in Pbufs : r \notin taken => next'[r] = next[r]
      /\ \A r \in ChainOf(next', h) : AddsUp(r)'
  <2>1. Owned(h) BY <1>1 DEF Cat
  <2>2. UNCHANGED len BY <1>1
  <2> QED BY <1>1, <2>1, <2>2, CatFacts, ZenonT(90)
<1>4. /\ ptr' \in [Pointers -> PtrType] /\ PtrShape'
      /\ ptr'[y] = Unused /\ \A z \in Pointers : z # y => ptr'[z] = ptr[z]
  BY <1>1, Values, PtrTo, Zenon
<1>3. PbufTypes' BY <1>1, <1>2, <1>4 DEF PbufTypes, Links
<1>5. t \in taken BY <1>2, Live, Zenon
<1>6. Counted'
  <2>1. \A r \in Pbufs : PtrCount(ptr', r) = PtrCount(ptr, r) - (IF r = t THEN 1 ELSE 0)
    <3> TAKE r \in Pbufs
    <3>1. PtrCount(ptr', r) = PtrCount(ptr, r) - Points(ptr[y], r) + Points(Unused, r)
      BY <1>1, Values, PtrStep, Zenon
    <3>2. Points(ptr[y], r) = (IF r = t THEN 1 ELSE 0) /\ Points(Unused, r) = 0
      BY <1>2, Values, PbufConstants DEF Points, Refers
    <3> QED BY <3>1, <3>2, CountTypes
  <2>2. \A r \in Pbufs : PtrCount(ptr, r) \in Nat /\ NextCount(next, r) \in Nat BY CountTypes
  <2>3. taken' = taken /\ ref' = ref /\ taken \subseteq Pbufs BY <1>1 DEF PbufTypes
  <2>4. \A r \in Pbufs :
          PtrCount(ptr', r) + NextCount(next', r) = PtrCount(ptr, r) + NextCount(next, r)
    BY <1>2, <2>1, <2>2
  <2>5. \A r \in taken : ref[r] = PtrCount(ptr', r) + NextCount(next', r)
    BY <2>3, <2>4, SMTT(30) DEF Counted
  <2>6. \A r \in Pbufs \ taken : PtrCount(ptr', r) = 0 /\ NextCount(next', r) = 0 /\ next'[r] = NULL
    <3> TAKE r \in Pbufs \ taken
    <3>1. PtrCount(ptr, r) = 0 /\ NextCount(next, r) = 0 /\ next[r] = NULL BY DEF Counted
    <3>2. r \in Pbufs /\ r # t BY <1>5
    <3>3. PtrCount(ptr', r) = PtrCount(ptr, r) - 0 /\ NextCount(next', r) = NextCount(next, r) + 0
      BY <1>2, <2>1, <3>2
    <3>4. next'[r] = next[r] BY <1>2, <3>2
    <3> QED BY <3>1, <3>3, <3>4
  <2> QED BY <2>3, <2>5, <2>6 DEF Counted
<1>7. OneDeallocates'
  <2>2. \A z \in Pointers : ptr[z].pc = "put" \/ ptr'[z].pc = "put" => ptr'[z] = ptr[z]
    BY <1>2, <1>4, Values DEF Refers
  <2> QED BY <1>1, <1>3, <2>2, DeallocFrame, ZenonT(60) DEF PbufTypes
<1>8. ASSUME NEW z \in Pointers PROVE Fine(z)'
  <2>1. CASE z = y
    <3>1. ptr'[z] = Unused BY <1>4, <2>1
    <3> QED BY <3>1, FineFreed
  <2>2. CASE z = x
    <3>1. ptr'[z] = Held(h) BY <1>1, <1>2, <1>4, <2>2, HoldsFacts, Zenon
    <3>2. \A r \in Chain(h)' : AddsUp(r)' BY <1>2, SMTT(30) DEF Chain
    <3> QED BY <3>1, <3>2, FineHeld
  <2>3. CASE z # x /\ z # y
    <3>1. ptr'[z] = ptr[z] BY <1>4, <2>3
    <3> DEFINE D == Chain(h)
    <3>2. ptr[z].p \in Pbufs /\ ptr[z].pc # "put" => \A r \in Chain(ptr[z].p) : r \notin D
      BY <1>2, <2>3, OwnedApart, ZenonT(60) DEF Refers
    <3>3. \A r \in Pbufs : r \notin D =>
            next'[r] = next[r] /\ len'[r] = len[r] /\ tot_len'[r] = tot_len[r] /\ ref'[r] = ref[r]
      BY <1>1, <1>2, Zenon
    <3> HIDE DEF D
    <3> QED BY <1>2, <3>1, <3>2, <3>3, Others, Zenon
  <2> QED BY <2>1, <2>2, <2>3
<1> QED BY <1>3, <1>4, <1>6, <1>7, <1>8

\* pbuf_chain counts one more reference to the tail.
LEMMA Step_chain ==
  ASSUME PbufInv, NEW x \in Pointers, NEW y \in Pointers, pbuf_chain(x, y)
  PROVE  PbufInv'
<1> USE DEF PbufInv
<1>1. PICK h, t \in Pbufs :
        /\ Holds(x, h) /\ Holds(y, t) /\ Cat(h, t)
        /\ ref' = [ref EXCEPT ![t] = @ + 1] /\ UNCHANGED <<taken, len, ptr>>
  BY ZenonT(60) DEF pbuf_chain
<1>2. /\ x # y /\ Refers(x, h) /\ Refers(y, t) /\ Owned(h)
      /\ next' \in Links /\ tot_len' \in [Pbufs -> Nat]
      /\ \A r \in Pbufs : r \notin Chain(h) => next'[r] = next[r] /\ tot_len'[r] = tot_len[r]
      /\ \A r \in Pbufs : NextCount(next', r) = NextCount(next, r) + (IF r = t THEN 1 ELSE 0)
      /\ \A r \in Pbufs : r \notin taken => next'[r] = next[r]
      /\ \A r \in ChainOf(next', h) : AddsUp(r)'
  <2>1. Owned(h) BY <1>1, Zenon DEF Cat
  <2>2. UNCHANGED len BY <1>1
  <2> QED BY <1>1, <2>1, <2>2, CatFacts, ZenonT(90)
<1>3. PbufTypes'
  <2>1. ref' \in [Pbufs -> Int] BY <1>1 DEF PbufTypes
  <2>2. next' \in [Pbufs -> Pbufs \cup {NULL}] /\ tot_len' \in [Pbufs -> Nat] BY <1>2 DEF Links
  <2> QED BY <1>1, <2>1, <2>2 DEF PbufTypes
<1>4. PtrShape' BY <1>1, SMTT(30) DEF PtrShape
<1>5. t \in taken /\ ref[t] >= 1 BY <1>2, Live
<1>6. Counted'
  <2>1. \A r \in Pbufs : PtrCount(ptr, r) \in Nat /\ NextCount(next, r) \in Nat BY CountTypes
  <2>2. taken' = taken /\ ptr' = ptr /\ taken \subseteq Pbufs BY <1>1 DEF PbufTypes
  <2>3. \A r \in Pbufs : ref'[r] = ref[r] + (IF r = t THEN 1 ELSE 0) BY <1>1 DEF PbufTypes
  <2>4. \A r \in taken : ref[r] = PtrCount(ptr, r) + NextCount(next, r) BY SMTT(30) DEF Counted
  <2>5. \A r \in taken : ref'[r] = PtrCount(ptr, r) + NextCount(next', r)
    BY <1>2, <2>1, <2>2, <2>3, <2>4, SMTT(30)
  <2>6. \A r \in Pbufs \ taken : NextCount(next', r) = 0 /\ next'[r] = NULL
    BY <1>2, <1>5, <2>1 DEF Counted
  <2> QED BY <2>2, <2>5, <2>6 DEF Counted
<1>7. OneDeallocates'
  <2>1. \A r \in Pbufs : (r \in taken' /\ ref'[r] = 0) <=> (r \in taken /\ ref[r] = 0)
    BY <1>1, <1>5 DEF PbufTypes
  <2> QED BY <1>1, <1>3, <2>1, DeallocFrame DEF PbufTypes
<1>8. ASSUME NEW z \in Pointers PROVE Fine(z)'
  <2>2. CASE z = x
    <3>1. ptr'[z] = Held(h) BY <1>1, <2>2, ZenonT(60) DEF Holds
    <3>2. \A r \in Chain(h)' : AddsUp(r)' BY <1>2 DEF Chain
    <3> QED BY <3>1, <3>2, FineHeld
  <2>3. CASE z # x
    <3>0. next \in Links BY DEF PbufTypes, Links
    <3>1. ptr'[z] = ptr[z] BY <1>1, SMTT(30)
    <3>2. ptr[z].p \in Pbufs /\ ptr[z].pc # "put" => \A r \in Chain(ptr[z].p) : r \notin Chain(h)
      BY <1>2, <2>3, OwnedApart, ZenonT(60) DEF Refers
    <3>3. ptr[z].p \in Pbufs => Chain(ptr[z].p) \subseteq Pbufs BY <3>0, ChainClosed DEF Chain
    <3>4. ptr[z].pc \in {"held", "alloc"} /\ ptr[z].p # NULL =>
            \A q \in Chain(ptr[z].p) :
              next'[q] = next[q] /\ len'[q] = len[q] /\ tot_len'[q] = tot_len[q]
      <4>1. ptr[z].pc \in {"held", "alloc"} /\ ptr[z].p # NULL => ptr[z].p \in Pbufs /\ ptr[z].pc # "put"
        BY DEF PbufTypes, PtrType
      <4> QED BY <1>1, <1>2, <3>2, <3>3, <4>1, Zenon
    <3>5. ptr[z].pc = "alloc" => \A q \in Chain(ptr[z].p) : ref'[q] = ref[q]
      <4> SUFFICES ASSUME ptr[z].pc = "alloc", NEW q \in Chain(ptr[z].p) PROVE ref'[q] = ref[q]
        OBVIOUS
      <4>1. ptr[z].p \in Pbufs BY AllocApart
      <4>2. Owned(ptr[z].p) /\ Refers(z, ptr[z].p) BY AllocApart, SMTT(30)
      <4>4. z # y BY <1>1, HoldsFacts, AllocApart, ZenonT(60)
      <4>3. t \notin Chain(ptr[z].p)
        <5>1. t \in Chain(t) BY <3>0, ChainClosed DEF Chain
        <5> QED BY <1>2, <4>1, <4>2, <4>4, <5>1, OwnedApart, ZenonT(60)
      <4> QED BY <1>1, <3>3, <4>1, <4>3 DEF PbufTypes
    <3> QED BY <1>2, <3>1, <3>4, <3>5, Frame
  <2> QED BY <2>2, <2>3
<1> QED BY <1>3, <1>4, <1>6, <1>7, <1>8

\* A link is cut and its reference goes to a pointer that frees it, in pbuf_dechain
\* and pbuf_realloc.
LEMMA CutCounts ==
  ASSUME PbufInv, NEW y \in Pointers, NEW q \in Pbufs, ptr[y] = Unused,
         next' = [next EXCEPT ![q] = NULL], ptr' = [ptr EXCEPT ![y] = ToFree(next[q])],
         UNCHANGED <<taken, ref>>
  PROVE  /\ next' \in Links /\ ptr' \in [Pointers -> PtrType]
         /\ PtrShape' /\ Counted' /\ OneDeallocates'
         /\ Fine(y)' /\ \A z \in Pointers : z # y => ptr'[z] = ptr[z]
<1> USE DEF PbufInv
<1>1. PICK w \in Pbufs \cup {NULL} : w = next[q] BY SMTT(30) DEF PbufTypes
<1>2. PICK v \in PtrType : v = ToFree(w) BY Values
<1>3. v.p = w /\ v.pc # "put" /\ (v = Unused \/ (v.pc = "dec" /\ w \in Pbufs)) BY <1>2, Values
<1>4. ptr' = [ptr EXCEPT ![y] = v] BY <1>1, <1>2
<1>6. /\ ptr' \in [Pointers -> PtrType] /\ PtrShape'
      /\ ptr'[y] = v /\ \A z \in Pointers : z # y => ptr'[z] = ptr[z]
  BY <1>3, <1>4, PtrTo, Zenon
<1>5. next' \in Links BY DEF PbufTypes, Links
<1>7. Counted'
  <2>1. \A r \in Pbufs : PtrCount(ptr', r) = PtrCount(ptr, r) + (IF r = w THEN 1 ELSE 0)
    <3> TAKE r \in Pbufs
    <3>1. PtrCount(ptr', r) = PtrCount(ptr, r) - Points(ptr[y], r) + Points(v, r)
      BY <1>4, PtrStep, Zenon
    <3>2. Points(ptr[y], r) = 0 /\ Points(v, r) = (IF r = w THEN 1 ELSE 0)
      BY <1>3, Values, PbufConstants DEF Points
    <3> QED BY <3>1, <3>2, CountTypes
  <2>2. \A r \in Pbufs : NextCount(next', r) = NextCount(next, r) - (IF r = w THEN 1 ELSE 0)
    <3> TAKE r \in Pbufs
    <3>1. NextCount(next', r) = NextCount(next, r) - Follows(next[q], r) + Follows(NULL, r)
      BY NextStep, Zenon
    <3>2. Follows(next[q], r) = (IF r = w THEN 1 ELSE 0) /\ Follows(NULL, r) = 0
      BY <1>1, PbufConstants DEF Follows
    <3> QED BY <3>1, <3>2, CountTypes
  <2>3. \A r \in Pbufs : PtrCount(ptr, r) \in Nat /\ NextCount(next, r) \in Nat BY CountTypes
  <2>4. w \in Pbufs => w \in taken BY <1>1, Live
  <2> DEFINE A(r) == PtrCount(ptr, r)
             A2(r) == PtrCount(ptr', r)
             B(r) == NextCount(next, r)
             B2(r) == NextCount(next', r)
  <2>5. /\ \A r \in Pbufs : A(r) \in Nat /\ B(r) \in Nat
        /\ \A r \in Pbufs : r = w => A2(r) = A(r) + 1 /\ B2(r) = B(r) - 1
        /\ \A r \in Pbufs : r # w => A2(r) = A(r) /\ B2(r) = B(r)
    <3>1. /\ \A r \in Pbufs : A(r) \in Nat /\ B(r) \in Nat
          /\ \A r \in Pbufs : A2(r) = A(r) + (IF r = w THEN 1 ELSE 0)
          /\ \A r \in Pbufs : B2(r) = B(r) - (IF r = w THEN 1 ELSE 0)
      BY <2>1, <2>2, <2>3, Zenon
    <3> HIDE DEF A, A2, B, B2
    <3> QED BY <3>1
  <2>6. taken' = taken /\ ref' = ref /\ taken \subseteq Pbufs BY DEF PbufTypes
  <2>a. /\ \A r \in taken : ref[r] = A(r) + B(r)
        /\ \A r \in Pbufs \ taken : A(r) = 0 /\ B(r) = 0
    BY DEF Counted
  <2>b. /\ \A r \in taken : ref[r] = A2(r) + B2(r)
        /\ \A r \in Pbufs \ taken : A2(r) = 0 /\ B2(r) = 0
    <3> HIDE DEF A, A2, B, B2
    <3>1. ASSUME NEW r \in taken PROVE ref[r] = A2(r) + B2(r)
      BY <2>5, <2>6, <2>a
    <3>2. ASSUME NEW r \in Pbufs \ taken PROVE A2(r) = 0 /\ B2(r) = 0
      BY <2>4, <2>5, <2>a
    <3> QED BY <3>1, <3>2
  <2>9. \A r \in Pbufs \ taken : next'[r] = NULL BY DEF Counted, PbufTypes
  <2> QED BY <2>6, <2>9, <2>b, Zenon DEF Counted
<1>8. OneDeallocates'
  <2>1. \A z \in Pointers : ptr[z].pc = "put" \/ ptr'[z].pc = "put" => ptr'[z] = ptr[z]
    BY <1>3, <1>6, Values
  <2> QED BY <2>1, DeallocFrame DEF PbufTypes
<1>9. Fine(y)'
  <2>1. ptr'[y] = v BY <1>6
  <2> QED BY <1>3, <2>1, FineFreed
<1> QED BY <1>5, <1>6, <1>7, <1>8, <1>9

\* pbuf_dechain frees the tail, and leaves it to its other references.
LEMMA Step_dechain ==
  ASSUME PbufInv, NEW x \in Pointers, NEW y \in Pointers, pbuf_dechain(x, y)
  PROVE  PbufInv'
<1> USE DEF PbufInv
<1>1. PICK p \in Pbufs :
        /\ Holds(x, p) /\ ptr[y] = Unused /\ IsHead(p) /\ next[p] # NULL
        /\ tot_len' = [tot_len EXCEPT ![next[p]] = tot_len[p] - len[p], ![p] = len[p]]
        /\ next' = [next EXCEPT ![p] = NULL] /\ ptr' = [ptr EXCEPT ![y] = ToFree(next[p])]
        /\ UNCHANGED <<taken, len, ref>>
  BY Zenon DEF pbuf_dechain
<1>l. next \in Links BY DEF PbufTypes, Links
<1>2. next \in Links /\ Refers(x, p) /\ ptr[x] = Held(p) /\ x # y BY <1>1, <1>l, HoldsFacts
<1>3. /\ next' \in Links /\ ptr' \in [Pointers -> PtrType]
      /\ PtrShape' /\ Counted' /\ OneDeallocates'
      /\ Fine(y)' /\ \A z \in Pointers : z # y => ptr'[z] = ptr[z]
  <2>1. UNCHANGED <<taken, ref>> BY <1>1
  <2> QED BY <1>1, <2>1, CutCounts, Zenon
<1>4. AddsUp(p)
  <2>1. p \in Chain(p) BY <1>2, ChainClosed DEF Chain
  <2> QED BY <1>2, <2>1, HeldAddsUp
<1>5. next[p] \in Pbufs /\ next[p] # p BY <1>1 DEF PbufTypes, IsHead
<1>6. tot_len' = [tot_len EXCEPT ![p] = len[p]]
  <2>1. tot_len[p] - len[p] = tot_len[next[p]] BY <1>1, <1>4, <1>5 DEF AddsUp, PbufTypes
  <2> QED BY <1>1, <1>5, <2>1, Zenon DEF PbufTypes
<1>7. PbufTypes'
  <2>1. tot_len' \in [Pbufs -> Nat] BY <1>6 DEF PbufTypes
  <2> QED BY <1>1, <1>3, <2>1 DEF PbufTypes, Links
<1>8. ASSUME NEW z \in Pointers PROVE Fine(z)'
  <2>1. CASE z = y BY <1>3, <2>1
  <2>2. CASE z # y /\ ptr[z].pc = "held" /\ ptr[z].p = p
    <3>1. ptr'[z] = ptr[z] BY <1>3, <2>2
    <3>2. next'[p] = NULL /\ tot_len'[p] = len[p] /\ len'[p] = len[p]
      BY <1>1, <1>2, <1>6 DEF PbufTypes
    <3>3. Chain(p)' = {p} BY <1>3, <3>2, ChainRest, ZenonT(60) DEF Chain
    <3>4. AddsUp(p)' BY <3>2 DEF AddsUp, PbufTypes
    <3>5. ptr'[z] = Held(p)
      <4>1. ptr[z] # Unused BY <2>2, Values, PbufConstants, ZenonT(60)
      <4> QED BY <2>2, <3>1, <4>1, ZenonT(60) DEF PtrShape
    <3> QED BY <3>3, <3>4, <3>5, FineHeld
  <2>3. CASE z # y /\ ~(ptr[z].pc = "held" /\ ptr[z].p = p) /\ ptr[z].pc \in {"held", "alloc"}
    <3>1. ptr'[z] = ptr[z] BY <1>3, <2>3
    <3>2. ptr[z].pc = "alloc" => ptr[z].p # p
      <4> SUFFICES ASSUME ptr[z].pc = "alloc", ptr[z].p = p PROVE FALSE OBVIOUS
      <4>1. Owned(p) /\ Refers(z, p) /\ z # x BY <1>2, AllocApart, ZenonT(60)
      <4>2. p \in Chain(p) BY <1>2, ChainClosed, ZenonT(60) DEF Chain
      <4> QED BY <1>2, <4>1, <4>2, OwnedApart
    <3> DEFINE D == {p}
    <3>3. ptr[z].p \in Pbufs /\ ptr[z].pc # "put" => \A r \in Chain(ptr[z].p) : r \notin D
      BY <1>1, <2>3, <3>2, HeadApart, ZenonT(60)
    <3>4. \A r \in Pbufs : r \notin D =>
            next'[r] = next[r] /\ len'[r] = len[r] /\ tot_len'[r] = tot_len[r] /\ ref'[r] = ref[r]
      BY <1>1, <1>6 DEF PbufTypes
    <3> HIDE DEF D
    <3> QED BY <1>3, <3>1, <3>3, <3>4, Others, ZenonT(60)
  <2>4. CASE z # y /\ ptr[z].pc \in {"dec", "put"}
    <3>1. ptr'[z].pc \in {"dec", "put"} BY <1>3, <2>4
    <3> QED BY <3>1, FineFreed
  <2>5. ptr[z].pc \in {"held", "alloc", "dec", "put"} BY DEF PbufTypes, PtrType
  <2> QED BY <2>1, <2>2, <2>3, <2>4, <2>5, Zenon
<1> QED BY <1>3, <1>7, <1>8

\* pbuf_realloc shortens the chain and frees what is behind the new end.
LEMMA Step_realloc ==
  ASSUME PbufInv, NEW x \in Pointers, NEW y \in Pointers, pbuf_realloc(x, y)
  PROVE  PbufInv'
<1> USE DEF PbufInv
<1>a. PICK p \in Pbufs, new_len \in 0..MAX_TOT :
        /\ Holds(x, p) /\ ptr[y] = Unused /\ Owned(p) /\ tot_len[p] - new_len > 0
        /\ \E q \in Chain(p) :
             /\ new_len <= tot_len[p] - tot_len[q] + len[q]
             /\ q = p \/ tot_len[p] - tot_len[q] < new_len
             /\ tot_len' = [r \in Pbufs |->
                  IF r = q THEN new_len - (tot_len[p] - tot_len[q])
                  ELSE IF r \in Chain(p) /\ tot_len[p] - tot_len[r] + len[r] < new_len
                       THEN tot_len[r] - (tot_len[p] - new_len)
                  ELSE tot_len[r]]
             /\ len' = [len EXCEPT ![q] = new_len - (tot_len[p] - tot_len[q])]
             /\ next' = [next EXCEPT ![q] = NULL]
             /\ ptr' = [ptr EXCEPT ![y] = ToFree(next[q])]
        /\ UNCHANGED <<taken, ref>>
  BY ZenonT(90) DEF pbuf_realloc
<1>h. Holds(x, p) /\ ptr[y] = Unused BY <1>a
<1>l. next \in Links BY DEF PbufTypes, Links
<1>2. next \in Links /\ Refers(x, p) /\ ptr[x] = Held(p) /\ x # y /\ new_len \in Nat
  BY <1>h, <1>l, HoldsFacts, PbufConstants
<1>b. /\ Chain(p) \in SUBSET Pbufs /\ p \in Chain(p)
      /\ \A r \in Chain(p) : next[r] # NULL => next[r] \in Chain(p)
  BY <1>2, ChainClosed DEF Chain
<1>c. PICK q \in Chain(p) :
        /\ new_len <= tot_len[p] - tot_len[q] + len[q]
        /\ q = p \/ tot_len[p] - tot_len[q] < new_len
        /\ tot_len' = [r \in Pbufs |->
             IF r = q THEN new_len - (tot_len[p] - tot_len[q])
             ELSE IF r \in Chain(p) /\ tot_len[p] - tot_len[r] + len[r] < new_len
                  THEN tot_len[r] - (tot_len[p] - new_len)
             ELSE tot_len[r]]
        /\ len' = [len EXCEPT ![q] = new_len - (tot_len[p] - tot_len[q])]
        /\ next' = [next EXCEPT ![q] = NULL]
        /\ ptr' = [ptr EXCEPT ![y] = ToFree(next[q])]
  BY <1>a, Zenon
<1>d. q \in Pbufs /\ len \in [Pbufs -> Nat] /\ tot_len \in [Pbufs -> Nat]
  BY <1>b DEF PbufTypes
<1>3. /\ next' \in Links /\ ptr' \in [Pointers -> PtrType]
      /\ PtrShape' /\ Counted' /\ OneDeallocates'
      /\ Fine(y)' /\ \A z \in Pointers : z # y => ptr'[z] = ptr[z]
  <2>1. UNCHANGED <<taken, ref>> BY <1>a
  <2>2. next' = [next EXCEPT ![q] = NULL] /\ ptr' = [ptr EXCEPT ![y] = ToFree(next[q])] BY <1>c
  <2> QED BY <1>h, <1>d, <2>1, <2>2, CutCounts, Zenon
<1>4. \A r \in Chain(p) : AddsUp(r) BY <1>2, HeldAddsUp
<1>e. PICK n \in Nat : n = new_len - (tot_len[p] - tot_len[q])
  <2>1. new_len - (tot_len[p] - tot_len[q]) \in Int BY <1>2, <1>d
  <2>2. new_len - (tot_len[p] - tot_len[q]) >= 0 BY <1>2, <1>c, <1>d
  <2> QED BY <2>1, <2>2
<1>5. /\ tot_len'[q] = n /\ len'[q] = n /\ next'[q] = NULL
      /\ \A r \in Pbufs : r # q => len'[r] = len[r] /\ next'[r] = next[r]
      /\ \A r \in Pbufs : r \notin Chain(p) => tot_len'[r] = tot_len[r]
      /\ \A r \in Chain(p) : r # q /\ tot_len[p] - tot_len[r] + len[r] < new_len =>
            tot_len'[r] = tot_len[r] - (tot_len[p] - new_len)
  <2>1. tot_len'[q] = n BY <1>c, <1>d, <1>e, ZenonT(60)
  <2>2. len'[q] = n /\ \A r \in Pbufs : r # q => len'[r] = len[r] BY <1>c, <1>d, <1>e, ZenonT(60)
  <2>3. next'[q] = NULL /\ \A r \in Pbufs : r # q => next'[r] = next[r]
    BY <1>2, <1>c, <1>d, ZenonT(60) DEF Links
  <2>4. \A r \in Pbufs : r \notin Chain(p) => tot_len'[r] = tot_len[r] BY <1>c, ZenonT(60)
  <2>5. \A r \in Chain(p) : r # q /\ tot_len[p] - tot_len[r] + len[r] < new_len =>
            tot_len'[r] = tot_len[r] - (tot_len[p] - new_len)
    BY <1>b, <1>c, ZenonT(60)
  <2> QED BY <2>1, <2>2, <2>3, <2>4, <2>5, Zenon
<1>7. PbufTypes'
  <2>1. len' \in [Pbufs -> Nat] BY <1>c, <1>d, <1>e
  <2>2. ASSUME NEW r \in Pbufs
        PROVE  /\ r \in Chain(p) /\ tot_len[p] - tot_len[r] + len[r] < new_len =>
                    tot_len[r] - (tot_len[p] - new_len) \in Nat
               /\ tot_len[r] \in Nat
    BY <1>2, <1>d
  <2>3. tot_len' \in [Pbufs -> Nat] BY <1>c, <1>e, <2>2
  <2> QED BY <1>a, <1>3, <2>1, <2>3, ZenonT(60) DEF PbufTypes, Links
<1>8. ASSUME NEW r \in Chain(p)' PROVE AddsUp(r)'
  <2> DEFINE S == {u \in Chain(p) : q \in ChainOf(next, u)}
  <2>1. S \in SUBSET Pbufs /\ p \in S BY <1>b, <1>c, ZenonT(60) DEF Chain
  <2>2. ASSUME NEW u \in S, u # q
        PROVE  next[u] # NULL /\ next[u] \in S
    <3>1. u \in Pbufs /\ q \in ChainOf(next, u) BY <1>b, <2>2, ZenonT(60)
    <3>2. next[u] # NULL BY <1>2, <2>2, <3>1, ChainRest, SMTT(30)
    <3>3. q \in ChainOf(next, next[u]) BY <1>2, <2>2, <3>1, <3>2, ChainRest, SMTT(30)
    <3> QED BY <1>b, <3>2, <3>3
  <2>3. \A u \in S : next'[u] # NULL => next'[u] \in S
    BY <1>5, <2>1, <2>2, ZenonT(60)
  <2>4. Chain(p)' \subseteq S
    <3> HIDE DEF S
    <3> QED BY <1>3, <2>1, <2>3, ChainLeast, ZenonT(60) DEF Chain
  <2>5. ASSUME NEW u \in S, u # q
        PROVE  tot_len[p] - tot_len[u] + len[u] < new_len
    <3>1. next[u] # NULL /\ next[u] \in S BY <2>2, <2>5
    <3>2. u \in Chain(p) /\ u \in Pbufs /\ next[u] \in Chain(p) /\ next[u] \in Pbufs BY <1>b, <3>1
    <3>3. q \in Chain(next[u]) BY <3>1 DEF Chain
    <3>4. \A t \in Chain(next[u]) : AddsUp(t)
      <4>1. Chain(next[u]) \subseteq Chain(p) BY <1>2, <3>2, ChainWithin, ZenonT(60) DEF Chain
      <4> QED BY <1>4, <4>1, ZenonT(60)
    <3>5. tot_len[q] <= tot_len[next[u]] BY <3>2, <3>3, <3>4, TotFalls, ZenonT(60)
    <3>6. tot_len[u] = len[u] + tot_len[next[u]] BY <1>4, <3>1, <3>2 DEF AddsUp
    <3>7. q # p
      <4>3. Owned(p) BY <1>a
      <4>1. \A t \in Pbufs : next[t] # p BY <1>2, <4>3, OwnedApart, ZenonT(60)
      <4>2. ASSUME q = p PROVE FALSE
        <5>1. PICK t \in Chain(u) : next[t] = q BY <1>2, <2>5, <3>2, ChainPred, ZenonT(60) DEF Chain
        <5>2. t \in Pbufs BY <1>2, <3>2, ChainClosed, ZenonT(60) DEF Chain
        <5> QED BY <4>1, <4>2, <5>1, <5>2, ZenonT(60)
      <4> QED BY <4>2
    <3>8. tot_len[p] - tot_len[q] < new_len BY <1>c, <3>7, ZenonT(60)
    <3> QED BY <1>2, <1>d, <3>2, <3>5, <3>6, <3>8, SMTT(30)
  <2>6. r \in S /\ r \in Pbufs BY <1>b, <2>4, ZenonT(60)
  <2>7. CASE r = q BY <1>5, <1>e, <2>7, SMTT(30) DEF AddsUp
  <2>8. CASE r # q
    <3>1. next[r] # NULL /\ next[r] \in S /\ r \in Chain(p) BY <2>2, <2>6, <2>8, ZenonT(60)
    <3>2. tot_len'[r] = tot_len[r] - (tot_len[p] - new_len) /\ len'[r] = len[r] /\ next'[r] = next[r]
      BY <1>5, <2>5, <2>6, <2>8, <3>1, ZenonT(60)
    <3>3. next[r] \in Chain(p) /\ next[r] \in Pbufs BY <1>b, <3>1, ZenonT(60)
    <3>4. tot_len'[next[r]] = tot_len[next[r]] - (tot_len[p] - new_len)
      <4>1. CASE next[r] = q
        <5>1. n = tot_len[q] - (tot_len[p] - new_len) BY <1>2, <1>d, <1>e, SMTT(30)
        <5> QED BY <1>5, <4>1, <5>1, ZenonT(60)
      <4>2. CASE next[r] # q BY <1>5, <2>5, <3>1, <3>3, <4>2, ZenonT(60)
      <4> QED BY <4>1, <4>2, ZenonT(60)
    <3>5. tot_len[r] = len[r] + tot_len[next[r]] BY <1>4, <3>1, ZenonT(60) DEF AddsUp
    <3>6. tot_len'[r] = len'[r] + tot_len'[next[r]] BY <1>2, <1>d, <2>6, <3>2, <3>3, <3>4, <3>5
    <3> QED BY <3>1, <3>2, <3>6, ZenonT(60) DEF AddsUp
  <2> QED BY <2>7, <2>8
<1>9. ASSUME NEW z \in Pointers PROVE Fine(z)'
  <2>1. CASE z = y BY <1>3, <2>1, ZenonT(60)
  <2>2. CASE z = x
    <3>1. ptr'[z] = Held(p) BY <1>2, <1>3, <2>2, ZenonT(60)
    <3> QED BY <1>8, <3>1, FineHeld, ZenonT(60)
  <2>3. CASE z # x /\ z # y
    <3>1. ptr'[z] = ptr[z] BY <1>3, <2>3, SMTT(30)
    <3> DEFINE D == Chain(p)
    <3>2. ptr[z].p \in Pbufs /\ ptr[z].pc # "put" => \A r \in Chain(ptr[z].p) : r \notin D
      <4>1. Owned(p) BY <1>a
      <4> QED BY <1>2, <2>3, <4>1, OwnedApart, Zenon DEF Refers
    <3>3. \A r \in Pbufs : r \notin D =>
            next'[r] = next[r] /\ len'[r] = len[r] /\ tot_len'[r] = tot_len[r] /\ ref'[r] = ref[r]
      <4>1. ref' = ref BY <1>a
      <4>2. \A r \in Pbufs : r \notin D => r # q OBVIOUS
      <4> QED BY <1>5, <4>1, <4>2, Zenon
    <3> HIDE DEF D
    <3> QED BY <1>3, <3>1, <3>2, <3>3, Others, ZenonT(60)
  <2> QED BY <2>1, <2>2, <2>3
<1> QED BY <1>3, <1>7, <1>9

\* The first pbuf of a chain gets another length, in pbuf_remove_header and
\* pbuf_add_header.
LEMMA HeaderStep ==
  ASSUME PbufInv, NEW x \in Pointers, NEW p \in Pbufs, Holds(x, p), IsHead(p),
         NEW d \in Int, len[p] + d \in Nat,
         len' = [len EXCEPT ![p] = @ + d], tot_len' = [tot_len EXCEPT ![p] = @ + d],
         UNCHANGED <<taken, next, ref, ptr>>
  PROVE  PbufInv'
<1> USE DEF PbufInv
<1>l. next \in Links BY SMTT(30) DEF PbufTypes, Links
<1>1. next \in Links /\ Refers(x, p) /\ ptr[x] = Held(p) /\ next' = next BY <1>l, HoldsFacts, Zenon
<1>2. p \in Chain(p) BY <1>1, ChainClosed, Zenon DEF Chain
<1>3. AddsUp(p) BY <1>1, <1>2, HeldAddsUp
<1>4. /\ len'[p] = len[p] + d /\ tot_len'[p] = tot_len[p] + d
      /\ \A r \in Pbufs : r # p => len'[r] = len[r] /\ tot_len'[r] = tot_len[r]
  BY DEF PbufTypes
<1>5. tot_len[p] + d \in Nat
  <2>1. next[p] # NULL => next[p] \in Pbufs BY DEF PbufTypes
  <2> QED BY <1>3, <2>1 DEF AddsUp, PbufTypes
<1>6. PbufTypes' BY <1>5, ZenonT(60) DEF PbufTypes
<1>7. PtrShape' /\ Counted' BY DEF PtrShape, Counted
<1>8. OneDeallocates' BY DeallocFrame DEF PbufTypes
<1>9. ASSUME NEW r \in Pbufs, AddsUp(r) PROVE AddsUp(r)'
  <2>1. next[r] # p BY DEF IsHead
  <2>2. next[r] # NULL => next[r] \in Pbufs BY DEF PbufTypes
  <2>3. next'[r] = next[r] BY <1>1, ZenonT(60)
  <2>4. CASE r = p
    <3>1. next[r] # NULL => tot_len'[next[r]] = tot_len[next[r]] /\ tot_len[next[r]] \in Nat
      BY <1>4, <2>1, <2>2 DEF PbufTypes
    <3>2. tot_len[r] \in Nat /\ len[r] \in Nat BY ZenonT(60) DEF PbufTypes
    <3> QED BY <1>4, <1>9, <2>3, <2>4, <3>1, <3>2 DEF AddsUp
  <2>5. CASE r # p BY <1>4, <1>9, <2>1, <2>2, <2>3, <2>5, ZenonT(60) DEF AddsUp
  <2> QED BY <2>4, <2>5, ZenonT(60)
<1>10. ASSUME NEW z \in Pointers PROVE Fine(z)'
  <2>0. ptr'[z] = ptr[z] OBVIOUS
  <2>1. CASE ptr[z].pc = "held"
    <3>0. CASE ptr[z] = Unused BY <2>0, <3>0, FineFreed
    <3>1. CASE ptr[z] # Unused
      <4>1. PICK h \in Pbufs : ptr[z] = Held(h) BY <2>1, <3>1, ZenonT(60) DEF PtrShape
      <4>2. Chain(h)' = Chain(h) /\ Chain(h) \subseteq Pbufs BY <1>1, ChainClosed, ZenonT(60) DEF Chain
      <4>3. \A r \in Chain(h) : AddsUp(r) BY <4>1, HeldAddsUp
      <4>4. \A r \in Chain(h)' : AddsUp(r)' BY <1>9, <4>2, <4>3
      <4> QED BY <2>0, <4>1, <4>4, FineHeld, ZenonT(60)
    <3> QED BY <3>0, <3>1, ZenonT(60)
  <2>2. CASE ptr[z].pc = "alloc"
    <3>1. z # x BY <1>1, <2>2, AllocApart, ZenonT(60)
    <3>2. ptr[z].p \in Pbufs /\ Refers(z, ptr[z].p) /\ Owned(ptr[z].p) BY <2>2, AllocApart, ZenonT(60)
    <3> DEFINE D == {p}
    <3>3. \A r \in Chain(ptr[z].p) : r \notin D BY <1>1, <1>2, <3>1, <3>2, OwnedApart, SMTT(30)
    <3>4. \A r \in Pbufs : r \notin D =>
            next'[r] = next[r] /\ len'[r] = len[r] /\ tot_len'[r] = tot_len[r] /\ ref'[r] = ref[r]
      BY <1>4, ZenonT(60)
    <3> HIDE DEF D
    <3> QED BY <1>1, <2>0, <3>3, <3>4, Others, Zenon
  <2>3. CASE ptr[z].pc \in {"dec", "put"} BY <2>0, <2>3, FineFreed, ZenonT(60)
  <2>4. ptr[z].pc \in {"held", "alloc", "dec", "put"} BY DEF PbufTypes, PtrType
  <2> QED BY <2>1, <2>2, <2>3, <2>4, ZenonT(60)
<1> QED BY <1>6, <1>7, <1>8, <1>10, ZenonT(60)

\* pbuf_remove_header shortens the first pbuf,
LEMMA Step_remove_header ==
  ASSUME PbufInv, NEW x \in Pointers, pbuf_remove_header(x)
  PROVE  PbufInv'
<1>1. PICK p \in Pbufs, n \in Lengths :
        /\ Holds(x, p) /\ IsHead(p) /\ n <= len[p]
        /\ len' = [len EXCEPT ![p] = @ - n] /\ tot_len' = [tot_len EXCEPT ![p] = @ - n]
        /\ UNCHANGED <<taken, next, ref, ptr>>
  BY Zenon DEF pbuf_remove_header
<1>2. n \in Nat /\ len[p] \in Nat /\ tot_len[p] \in Nat BY PbufConstants DEF PbufInv, PbufTypes
<1>3. PICK d \in Int : d = 0 - n BY <1>2
<1>4. len[p] + d = len[p] - n /\ tot_len[p] + d = tot_len[p] - n /\ len[p] + d \in Nat
  BY <1>1, <1>2, <1>3
<1>5. len' = [len EXCEPT ![p] = @ + d] /\ tot_len' = [tot_len EXCEPT ![p] = @ + d]
  BY <1>1, <1>4, Zenon
<1>6. UNCHANGED <<taken, next, ref, ptr>> BY <1>1
<1> QED BY <1>1, <1>4, <1>5, <1>6, HeaderStep, Zenon

\* and pbuf_add_header makes it longer.
LEMMA Step_add_header ==
  ASSUME PbufInv, NEW x \in Pointers, pbuf_add_header(x)
  PROVE  PbufInv'
<1>1. PICK p \in Pbufs, n \in Lengths :
        /\ Holds(x, p) /\ IsHead(p)
        /\ len' = [len EXCEPT ![p] = @ + n] /\ tot_len' = [tot_len EXCEPT ![p] = @ + n]
        /\ UNCHANGED <<taken, next, ref, ptr>>
  BY Zenon DEF pbuf_add_header
<1>2. n \in Int /\ len[p] + n \in Nat BY PbufConstants DEF PbufInv, PbufTypes
<1>6. UNCHANGED <<taken, next, ref, ptr>> BY <1>1
<1> QED BY <1>1, <1>2, <1>6, HeaderStep, Zenon

\* pbuf_free_header frees the first pbuf and keeps the rest.
LEMMA Step_free_header ==
  ASSUME PbufInv, NEW x \in Pointers, NEW y \in Pointers, pbuf_free_header(x, y)
  PROVE  PbufInv'
<1> USE DEF PbufInv
<1>1. PICK p \in Pbufs :
        /\ Holds(x, p) /\ ptr[y] = Unused /\ Owned(p)
        /\ next' = [next EXCEPT ![p] = NULL]
        /\ ptr' = [ptr EXCEPT ![x] = IF next[p] = NULL THEN Unused ELSE Held(next[p]), ![y] = ToFree(p)]
        /\ UNCHANGED <<taken, len, tot_len, ref>>
  BY Zenon DEF pbuf_free_header
<1>l. next \in Links BY DEF PbufTypes, Links
<1>2. /\ next \in Links /\ Refers(x, p) /\ ptr[x] = Held(p) /\ x # y /\ ptr[x].pc = "held"
  BY <1>1, <1>l, HoldsFacts
<1>o. Owned(p) /\ ptr[y] = Unused BY <1>1
<1>a. PICK w \in Pbufs \cup {NULL} : w = next[p] BY DEF PbufTypes
<1>b. PICK v \in PtrType : v = (IF w = NULL THEN Unused ELSE Held(w)) BY Values
<1>c. v.p = w /\ v.pc = "held" /\ (v = Unused \/ (v = Held(w) /\ w \in Pbufs)) BY <1>b, Values
<1>d. PICK f \in [Pointers -> PtrType] : f = [ptr EXCEPT ![x] = v] BY Zenon DEF PbufTypes
<1>e. ptr' = [f EXCEPT ![y] = ToFree(p)] /\ f[y] = Unused
  BY <1>1, <1>2, <1>a, <1>b, <1>d, ZenonT(60) DEF PbufTypes
<1>f. /\ ptr'[x] = v /\ ptr'[y] = ToFree(p) /\ ptr' \in [Pointers -> PtrType]
      /\ \A z \in Pointers : z # x /\ z # y => ptr'[z] = ptr[z]
  BY <1>2, <1>d, <1>e, Values DEF PbufTypes
<1>g. /\ p \in Chain(p) /\ Chain(p) \subseteq Pbufs /\ p \in taken
  BY <1>2, ChainClosed, Live, Zenon DEF Chain
<1>h. w # p /\ next'[p] = NULL /\ \A r \in Pbufs : r # p => next'[r] = next[r]
  <2>1. next[p] # p BY <1>2, <1>o, OwnedApart, ZenonT(60)
  <2> QED BY <1>1, <1>2, <1>a, <2>1, ZenonT(60) DEF Links
<1>3. PbufTypes' BY <1>1, <1>f, ZenonT(60) DEF PbufTypes
<1>4. PtrShape' BY <1>c, <1>f, PtrShapeTwo, ZenonT(60)
<1>5. next' \in Links BY <1>3 DEF PbufTypes, Links
<1>6. Counted'
  <2> DEFINE A(r) == PtrCount(ptr, r)
             A2(r) == PtrCount(ptr', r)
             B(r) == NextCount(next, r)
             B2(r) == NextCount(next', r)
  <2>1. \A r \in Pbufs : A(r) \in Nat /\ B(r) \in Nat BY CountTypes, Zenon
  <2>2. ASSUME NEW r \in Pbufs PROVE A2(r) = A(r) + (IF r = w THEN 1 ELSE 0)
    <3> DEFINE C == PtrCount(f, r)
    <3>1. C = A(r) - Points(ptr[x], r) + Points(v, r)
      <4> DEFINE k == ptr
      <4>1. k \in [Pointers -> PtrType] /\ f = [k EXCEPT ![x] = v] BY <1>d DEF PbufTypes
      <4>3. k \in [Pointers -> PtrType] BY <4>1
      <4> HIDE DEF k
      <4>2. PtrCount([k EXCEPT ![x] = v], r) = PtrCount(k, r) - Points(k[x], r) + Points(v, r)
        BY <4>3, PtrCountChange, Zenon
      <4> QED BY <4>1, <4>2 DEF k
    <3>2. A2(r) = C - Points(f[y], r) + Points(ToFree(p), r)
      <4>1. ToFree(p) \in PtrType BY Values
      <4>2. PtrCount([f EXCEPT ![y] = ToFree(p)], r) = PtrCount(f, r) - Points(f[y], r) + Points(ToFree(p), r)
        BY <4>1, PtrCountChange, ZenonT(60)
      <4> QED BY <1>e, <4>2, ZenonT(60)
    <3>3. /\ Points(ptr[x], r) = (IF r = p THEN 1 ELSE 0) /\ Points(v, r) = (IF r = w THEN 1 ELSE 0)
          /\ Points(f[y], r) = 0 /\ Points(ToFree(p), r) = (IF r = p THEN 1 ELSE 0)
      BY <1>2, <1>c, <1>e, Values, PbufConstants, Zenon DEF Points, Refers
    <3>4. C \in Nat BY CountTypes
    <3> HIDE DEF A, A2, C
    <3> QED BY <2>1, <3>1, <3>2, <3>3, <3>4
  <2>3. ASSUME NEW r \in Pbufs PROVE B2(r) = B(r) - (IF r = w THEN 1 ELSE 0)
    <3>1. B2(r) = B(r) - Follows(next[p], r) + Follows(NULL, r) BY <1>1, NextStep, Zenon
    <3>2. Follows(next[p], r) = (IF r = w THEN 1 ELSE 0) /\ Follows(NULL, r) = 0
      BY <1>a, PbufConstants, ZenonT(60) DEF Follows
    <3> HIDE DEF B, B2
    <3> QED BY <2>1, <3>1, <3>2
  <2>4. w \in Pbufs => w \in taken BY <1>a, Live
  <2>5. taken' = taken /\ ref' = ref /\ taken \subseteq Pbufs BY <1>1, ZenonT(60) DEF PbufTypes
  <2>6. /\ \A r \in taken : ref[r] = A(r) + B(r)
        /\ \A r \in Pbufs \ taken : A(r) = 0 /\ B(r) = 0
    BY DEF Counted
  <2>7. /\ \A r \in taken : ref[r] = A2(r) + B2(r)
        /\ \A r \in Pbufs \ taken : A2(r) = 0 /\ B2(r) = 0
    <3> HIDE DEF A, A2, B, B2
    <3>1. ASSUME NEW r \in taken PROVE ref[r] = A2(r) + B2(r)
      BY <2>1, <2>2, <2>3, <2>5, <2>6
    <3>2. ASSUME NEW r \in Pbufs \ taken PROVE A2(r) = 0 /\ B2(r) = 0
      BY <2>2, <2>3, <2>4, <2>6, SMTT(30)
    <3> QED BY <3>1, <3>2
  <2>8. \A r \in Pbufs \ taken : next'[r] = NULL BY <1>g, <1>h DEF Counted
  <2> QED BY <2>5, <2>7, <2>8, Zenon DEF Counted
<1>7. OneDeallocates'
  <2>1. \A z \in Pointers : ptr[z].pc = "put" \/ ptr'[z].pc = "put" => ptr'[z] = ptr[z]
    <3>1. ToFree(p).pc = "dec" /\ ptr[y].pc = "held" BY <1>o, Values
    <3> QED BY <1>2, <1>c, <1>f, <3>1, ZenonT(60)
  <2> QED BY <1>1, <2>1, DeallocFrame, ZenonT(60) DEF PbufTypes
<1>8. ASSUME NEW z \in Pointers PROVE Fine(z)'
  <2>1. CASE z = y
    <3>1. ptr'[z].pc = "dec" BY <1>f, <2>1, Values, ZenonT(60)
    <3> QED BY <3>1, FineFreed, ZenonT(60)
  <2>2. CASE z = x /\ w = NULL
    <3>1. ptr'[z] = Unused BY <1>b, <1>f, <2>2, ZenonT(60)
    <3> QED BY <3>1, FineFreed
  <2>3. CASE z = x /\ w # NULL
    <3>1. w \in Pbufs /\ Chain(w) \subseteq Chain(p)
      BY <1>2, <1>a, <2>3, ChainRest DEF Chain
    <3>2. p \notin Chain(w)
      <4>1. ASSUME p \in Chain(w) PROVE FALSE
        <5>1. PICK r \in Chain(w) : next[r] = p BY <1>2, <1>h, <3>1, <4>1, ChainPred, ZenonT(60) DEF Chain
        <5>2. r \in Pbufs BY <1>g, <3>1, ZenonT(60)
        <5> QED BY <1>2, <1>o, <5>1, <5>2, OwnedApart, ZenonT(60)
      <4> QED BY <4>1, ZenonT(60)
    <3>3. \A r \in Chain(w) : next'[r] = next[r] BY <1>g, <1>h, <3>1, <3>2, ZenonT(60)
    <3>4. Chain(w)' = Chain(w)
      BY <1>2, <1>5, <3>1, <3>3, ChainSame, ZenonT(60) DEF Chain
    <3>5. \A r \in Chain(w) : AddsUp(r) BY <1>2, <3>1, HeldAddsUp, ZenonT(60)
    <3>6. \A r \in Chain(w) : AddsUp(r)' BY <1>1, <3>3, <3>5, ZenonT(60) DEF AddsUp
    <3>7. ptr'[z] = Held(w) BY <1>b, <1>f, <2>3
    <3> QED BY <3>1, <3>4, <3>6, <3>7, FineHeld, ZenonT(60)
  <2>4. CASE z # x /\ z # y
    <3>1. ptr'[z] = ptr[z] BY <1>f, <2>4, ZenonT(60)
    <3> DEFINE D == Chain(p)
    <3>2. ptr[z].p \in Pbufs /\ ptr[z].pc # "put" => \A r \in Chain(ptr[z].p) : r \notin D
      <4>1. Owned(p) BY <1>1, ZenonT(60)
      <4> QED BY <1>2, <2>4, <4>1, OwnedApart, ZenonT(60) DEF Refers
    <3>3. \A r \in Pbufs : r \notin D =>
            next'[r] = next[r] /\ len'[r] = len[r] /\ tot_len'[r] = tot_len[r] /\ ref'[r] = ref[r]
      BY <1>1, <1>g, <1>h, ZenonT(60)
    <3> HIDE DEF D
    <3> QED BY <1>5, <3>1, <3>2, <3>3, Others, Zenon
  <2> QED BY <2>1, <2>2, <2>3, <2>4, ZenonT(60)
<1> QED BY <1>3, <1>4, <1>6, <1>7, <1>8

\* pbuf_coalesce replaces a chain by one pbuf.
LEMMA Step_coalesce ==
  ASSUME PbufInv, NEW x \in Pointers, NEW y \in Pointers, pbuf_coalesce(x, y)
  PROVE  PbufInv'
<1> USE DEF PbufInv
<1>1. PICK p, q \in Pbufs :
        /\ Holds(x, p) /\ ptr[y] = Unused /\ New(q, tot_len[p], tot_len[p])
        /\ ptr' = [ptr EXCEPT ![x] = Held(q), ![y] = ToFree(p)] /\ next' = next
  BY Zenon DEF pbuf_coalesce
<1>l. next \in Links BY DEF PbufTypes, Links
<1>2. next \in Links /\ Refers(x, p) /\ ptr[x] = Held(p) /\ x # y /\ ptr[x].pc = "held"
  BY <1>1, <1>l, HoldsFacts, ZenonT(60)
<1>a. PICK n \in Nat : n = tot_len[p] BY DEF PbufTypes
<1>b. /\ q \in Pbufs \ taken /\ taken' = taken \cup {q}
      /\ len' = [len EXCEPT ![q] = n] /\ tot_len' = [tot_len EXCEPT ![q] = n]
      /\ ref' = [ref EXCEPT ![q] = 1]
  BY <1>1, <1>a DEF New
<1>d. PICK f \in [Pointers -> PtrType] : f = [ptr EXCEPT ![x] = Held(q)] BY Values, Zenon DEF PbufTypes
<1>e. ptr' = [f EXCEPT ![y] = ToFree(p)] /\ f[y] = Unused
  BY <1>1, <1>2, <1>d, ZenonT(60) DEF PbufTypes
<1>f. /\ ptr'[x] = Held(q) /\ ptr'[y] = ToFree(p) /\ ptr' \in [Pointers -> PtrType]
      /\ \A z \in Pointers : z # x /\ z # y => ptr'[z] = ptr[z]
  BY <1>2, <1>d, <1>e, Values, ZenonT(60) DEF PbufTypes
<1>3. PbufTypes' BY <1>1, <1>b, <1>f DEF PbufTypes
<1>4. PtrShape'
  <2>1. p \in Pbufs /\ q \in Pbufs BY <1>b
  <2> QED BY <1>f, <2>1, PtrShapeTwo, ZenonT(60)
<1>5. next' \in Links BY <1>3 DEF PbufTypes, Links
<1>6. Counted'
  <2> DEFINE A(r) == PtrCount(ptr, r)
             A2(r) == PtrCount(ptr', r)
             B(r) == NextCount(next, r)
  <2>1. \A r \in Pbufs : A(r) \in Nat /\ B(r) \in Nat BY CountTypes, Zenon
  <2>2. ASSUME NEW r \in Pbufs PROVE A2(r) = A(r) + (IF r = q THEN 1 ELSE 0)
    <3> DEFINE C == PtrCount(f, r)
    <3>1. C = A(r) - Points(ptr[x], r) + Points(Held(q), r)
      <4> DEFINE k == ptr
      <4>1. k \in [Pointers -> PtrType] /\ f = [k EXCEPT ![x] = Held(q)] /\ Held(q) \in PtrType
        BY <1>d, Values DEF PbufTypes
      <4>3. k \in [Pointers -> PtrType] /\ Held(q) \in PtrType BY <4>1
      <4> HIDE DEF k
      <4>2. PtrCount([k EXCEPT ![x] = Held(q)], r) = PtrCount(k, r) - Points(k[x], r) + Points(Held(q), r)
        BY <4>3, PtrCountChange, Zenon
      <4> QED BY <4>1, <4>2, ZenonT(60) DEF k
    <3>2. A2(r) = C - Points(f[y], r) + Points(ToFree(p), r)
      <4>1. ToFree(p) \in PtrType BY Values
      <4>2. PtrCount([f EXCEPT ![y] = ToFree(p)], r) = PtrCount(f, r) - Points(f[y], r) + Points(ToFree(p), r)
        BY <4>1, PtrCountChange, Zenon
      <4> QED BY <1>e, <4>2
    <3>3. /\ Points(ptr[x], r) = (IF r = p THEN 1 ELSE 0) /\ Points(Held(q), r) = (IF r = q THEN 1 ELSE 0)
          /\ Points(f[y], r) = 0 /\ Points(ToFree(p), r) = (IF r = p THEN 1 ELSE 0)
      BY <1>2, <1>e, Values, PbufConstants, ZenonT(60) DEF Points, Refers
    <3>4. C \in Nat BY CountTypes, ZenonT(60)
    <3> HIDE DEF A, A2, C
    <3> QED BY <2>1, <3>1, <3>2, <3>3, <3>4
  <2>3. A(q) = 0 /\ B(q) = 0 BY <1>b, FreshApart, ZenonT(60)
  <2>4. taken \subseteq Pbufs /\ ref'[q] = 1 /\ \A r \in Pbufs : r # q => ref'[r] = ref[r]
    BY <1>b DEF PbufTypes
  <2>6. /\ \A r \in taken : ref[r] = A(r) + B(r)
        /\ \A r \in Pbufs \ taken : A(r) = 0 /\ B(r) = 0 /\ next[r] = NULL
    BY Zenon DEF Counted
  <2>7. /\ \A r \in taken' : ref'[r] = A2(r) + B(r)
        /\ \A r \in Pbufs \ taken' : A2(r) = 0 /\ B(r) = 0 /\ next[r] = NULL
    <3> HIDE DEF A, A2, B
    <3>1. ASSUME NEW r \in taken' PROVE ref'[r] = A2(r) + B(r)
      <4>1. CASE r = q BY <2>2, <2>3, <2>4, <4>1
      <4>2. CASE r # q
        <5>1. r \in taken /\ r \in Pbufs BY <1>b, <2>4, <4>2, ZenonT(60)
        <5> QED BY <2>1, <2>2, <2>4, <2>6, <4>2, <5>1
      <4> QED BY <4>1, <4>2
    <3>2. ASSUME NEW r \in Pbufs \ taken' PROVE A2(r) = 0 /\ B(r) = 0 /\ next[r] = NULL
      BY <1>b, <2>2, <2>6
    <3> QED BY <3>1, <3>2
  <2> QED BY <1>1, <2>7, Zenon DEF Counted
<1>7. OneDeallocates'
  <2>1. \A z \in Pointers : ptr[z].pc = "put" \/ ptr'[z].pc = "put" => ptr'[z] = ptr[z]
    <3>1. ToFree(p).pc = "dec" /\ ptr[y].pc = "held" /\ Held(q).pc = "held" BY <1>1, Values, Zenon
    <3> QED BY <1>2, <1>f, <3>1, SMTT(30)
  <2>2. \A r \in Pbufs : (r \in taken' /\ ref'[r] = 0) <=> (r \in taken /\ ref[r] = 0)
    BY <1>b DEF PbufTypes
  <2> QED BY <1>3, <2>1, <2>2, DeallocFrame, ZenonT(60) DEF PbufTypes
<1>8. ASSUME NEW z \in Pointers PROVE Fine(z)'
  <2>1. CASE z = y
    <3>1. ptr'[z].pc = "dec" BY <1>f, <2>1, Values, ZenonT(60)
    <3> QED BY <3>1, FineFreed, ZenonT(60)
  <2>2. CASE z = x
    <3>1. Chain(q)' = {q} /\ next'[q] = NULL BY <1>1, <1>b, FreshApart, Zenon DEF Chain
    <3>3. tot_len'[q] = n /\ len'[q] = n BY <1>b, ZenonT(60) DEF PbufTypes
    <3>2. AddsUp(q)' BY <3>1, <3>3, SMTT(30) DEF AddsUp
    <3> QED BY <1>f, <2>2, <3>1, <3>2, FineHeld, ZenonT(60)
  <2>3. CASE z # x /\ z # y
    <3>1. ptr'[z] = ptr[z] BY <1>f, <2>3, ZenonT(60)
    <3> DEFINE D == {q}
    <3>2. ptr[z].p \in Pbufs /\ ptr[z].pc # "put" => \A r \in Chain(ptr[z].p) : r \notin D
      BY <1>b, FreshApart, ZenonT(60)
    <3>3. \A r \in Pbufs : r \notin D =>
            next'[r] = next[r] /\ len'[r] = len[r] /\ tot_len'[r] = tot_len[r] /\ ref'[r] = ref[r]
      BY <1>1, <1>b DEF PbufTypes
    <3> HIDE DEF D
    <3> QED BY <1>5, <3>1, <3>2, <3>3, Others, ZenonT(60)
  <2> QED BY <2>1, <2>2, <2>3, ZenonT(60)
<1> QED BY <1>3, <1>4, <1>6, <1>7, <1>8, ZenonT(60)

-----------------------------------------------------------------------------
\* Nothing is allocated and nobody refers to anything at first.
LEMMA PbufInvInit == InitPbuf => PbufInv
<1> SUFFICES ASSUME InitPbuf PROVE PbufInv OBVIOUS
<1>1. PbufTypes BY Values DEF InitPbuf, PbufTypes
<1>2. PtrShape BY DEF InitPbuf, PtrShape
<1>3. \A p \in Pbufs : PtrCount(ptr, p) = 0 /\ NextCount(next, p) = 0
  <2> TAKE p \in Pbufs
  <2>1. {x \in Pointers : ptr[x].p = p /\ ptr[x].pc # "put"} = {} BY Values, PbufConstants DEF InitPbuf
  <2>2. {q \in Pbufs : next[q] = p} = {} BY PbufConstants DEF InitPbuf
  <2> QED BY <2>1, <2>2, FS_EmptySet, Zenon DEF PtrCount, NextCount
<1>4. Counted BY <1>3 DEF InitPbuf, Counted
<1>5. OneDeallocates
  <2>1. taken = {} /\ \A x \in Pointers : ptr[x].pc = "held" BY Values, ZenonT(60) DEF InitPbuf
  <2> QED BY <2>1 DEF OneDeallocates, Deallocates
<1>6. \A x \in Pointers : Fine(x)
  <2>1. \A x \in Pointers : ptr[x].pc = "held" /\ ptr[x].p = NULL BY Values DEF InitPbuf
  <2> QED BY <2>1 DEF Fine, HeldFine, AllocFine
<1> QED BY <1>1, <1>2, <1>4, <1>5, <1>6 DEF PbufInv

\* Every step keeps the invariant,
LEMMA PbufInvStep == PbufInv /\ [NextPbuf]_pbufvars => PbufInv'
<1> SUFFICES ASSUME PbufInv, [NextPbuf]_pbufvars PROVE PbufInv' OBVIOUS
<1>1. CASE UNCHANGED pbufvars
  <2>1. UNCHANGED <<taken, next, len, tot_len, ref, ptr>> BY <1>1 DEF pbufvars
  <2>2. PbufTypes' BY <2>1, ZenonT(60) DEF PbufInv, PbufTypes
  <2>3. PtrShape' BY <2>1, ZenonT(60) DEF PbufInv, PtrShape
  <2>4. Counted' BY <2>1, ZenonT(60) DEF PbufInv, Counted
  <2>5. OneDeallocates' BY <2>1, SMTT(30) DEF PbufInv, OneDeallocates, Deallocates
  <2>6. ASSUME NEW x \in Pointers PROVE Fine(x)'
    <3>1. next' \in Links BY <2>1, ZenonT(60) DEF PbufInv, PbufTypes, Links
    <3> QED BY <2>1, <3>1, Frame, ZenonT(60) DEF PbufInv
  <2> QED BY <2>2, <2>3, <2>4, <2>5, <2>6, ZenonT(60) DEF PbufInv
<1>2. CASE NextPbuf
  BY <1>2, Step_alloc, Step_AllocPool, Step_AllocMore, Step_AllocFails, Step_ref, Step_free,
     Step_FreeDec, Step_FreePut, Step_cat, Step_chain, Step_dechain, Step_realloc,
     Step_remove_header, Step_add_header, Step_free_header, Step_coalesce, ZenonT(60) DEF NextPbuf
<1> QED BY <1>1, <1>2

\* which implies that the buffers are sound.
LEMMA PbufInvSound == PbufInv => PbufsSound
<1> SUFFICES ASSUME PbufInv PROVE PbufsSound OBVIOUS
<1> USE DEF PbufInv
<1>1. \A p \in taken : ref[p] = Cardinality(PointersTo(p)) + Cardinality(Before(p))
  BY DEF Counted, PtrCount, NextCount, PointersTo, Before
<1>2. ASSUME NEW p \in Pbufs \ taken
      PROVE  PointersTo(p) = {} /\ Before(p) = {} /\ next[p] = NULL
  <2>1. next[p] = NULL BY DEF Counted
  <2>2. \A x \in Pointers : ~Refers(x, p) BY Live
  <2>3. \A q \in Pbufs : next[q] # p BY Live, ZenonT(60)
  <2> QED BY <2>1, <2>2, <2>3, ZenonT(60) DEF PointersTo, Before, Refers
<1>3. RefsExact BY <1>1, <1>2, ZenonT(60) DEF RefsExact, OneDeallocates
<1>4. TotLens BY DEF TotLens, Fine, HeldFine, AddsUp
<1> QED BY <1>3, <1>4 DEF PbufsSound

\* Whatever threads share packet buffers, and however their allocations, references,
\* frees and changes of chains interleave, the reference counts of pbuf.c are exact,
\* every pbuf without references is deallocated by exactly one thread, and the total
\* lengths of every chain somebody holds add up.
THEOREM PbufsAlwaysSound == SpecPbuf => []PbufsSound
<1>1. SpecPbuf => []PbufInv BY PbufInvInit, PbufInvStep, PTL DEF SpecPbuf
<1> QED BY <1>1, PbufInvSound, PTL
===============================================================================
