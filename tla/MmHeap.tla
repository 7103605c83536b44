------------------------------- MODULE MmHeap -------------------------------
(***************************************************************************)
(* The heap of csky/libs/mm.  The memory between two guard nodes is cut    *)
(* into chunks, each with a header that holds its size and that of the     *)
(* chunk before it; free chunks are on a list ordered by size, into which  *)
(* mm_nodelist gives an entry for every power of two.                      *)
(*                                                                         *)
(* Addresses and sizes count in units of SizeofAllocnode, the size of the  *)
(* header; the shifts are parameters so that a small heap uses several     *)
(* entries.  The header of a chunk that was merged away is payload.        *)
(***************************************************************************)
EXTENDS Integers, Sequences, SequencesExt, FiniteSets, FiniteSetsExt

CONSTANTS MinShift, MaxShift,     \* MM_MIN_SHIFT, MM_MAX_SHIFT
          HeapSize,               \* size of the region
          Requests                \* arguments of mm_malloc

SizeofAllocnode == 1
SizeofFreenode == 2

MinChunk == 2 ^ MinShift
MaxChunk == 2 ^ MaxShift
NNodes == MaxShift - MinShift + 1

ASSUME HeapConstants ==
  /\ MinShift \in Nat /\ MaxShift \in Nat /\ MinShift < MaxShift
  /\ MinChunk >= SizeofFreenode
  /\ HeapSize \in Nat /\ HeapSize > 2 * SizeofAllocnode /\ HeapSize % MinChunk = 0
  /\ Requests \subseteq Nat

VARIABLES node,           \* header of each chunk, by its address
          nodelist,       \* the free chunks of every entry, in the list's order
          used,           \* what the program holds: size asked for, by address
          max_used        \* g_max_used_size

hvars == <<node, nodelist, used, max_used>>

HeapEnd == HeapSize - SizeofAllocnode

AlignUp(n) == ((n + MinChunk - 1) \div MinChunk) * MinChunk

\* mm_size2ndx: the entry for sizes from 2^n granules to the next power.
size2ndx(size) ==
  IF size >= MaxChunk THEN NNodes - 1
  ELSE CHOOSE n \in 0 .. NNodes - 1 : MinChunk * 2 ^ n <= size /\ size < MinChunk * 2 ^ (n + 1)

-----------------------------------------------------------------------------
(* A heap is a record of node and nodelist while an operation works on it. *)

addfreechunk_Last(h, a) ==
  [h EXCEPT !.nodelist[size2ndx(h.node[a].size)] = Append(@, a)]

\* mm_addfreechunk: in front of the first chunk that is not smaller.
addfreechunk(h, a) ==
  LET n == size2ndx(h.node[a].size)
      smaller == SelectSeq(h.nodelist[n], LAMBDA b : h.node[b].size < h.node[a].size)
      rest == SelectSeq(h.nodelist[n], LAMBDA b : h.node[b].size >= h.node[a].size)
  IN  [h EXCEPT !.nodelist[n] = smaller \o <<a>> \o rest]

\* Out of the list through its own links.
Unlink(h, a) == [h EXCEPT !.nodelist = [n \in DOMAIN @ |-> SelectSeq(@[n], LAMBDA b : b # a)]]

\* The chunks the search of mm_malloc visits: those of the entry and of all
\* entries behind it.
ListFrom(n) == FoldLeft(LAMBDA s, i : s \o nodelist[i], <<>>, [i \in 1 .. NNodes - n |-> n + i - 1])

Split_KeepsPreceding(h, a, size) ==
  LET rem == h.node[a].size - size
      r == a + size
  IN  IF rem < SizeofFreenode THEN h
      ELSE addfreechunk([h EXCEPT !.node = [b \in DOMAIN @ \cup {r} |->
             IF b = a THEN [@[a] EXCEPT !.size = size]
             ELSE IF b = r THEN [size |-> rem, preceding |-> size, alloc |-> FALSE]
             ELSE @[b]]], r)

\* The chunk at a keeps size; what is left becomes a free chunk, if it is
\* large enough to be one.
Split(h, a, size) ==
  LET rem == h.node[a].size - size
      r == a + size
      next == a + h.node[a].size
  IN  IF rem < SizeofFreenode THEN h
      ELSE addfreechunk([h EXCEPT !.node = [b \in DOMAIN @ \cup {r} |->
             IF b = a THEN [@[a] EXCEPT !.size = size]
             ELSE IF b = r THEN [size |-> rem, preceding |-> size, alloc |-> FALSE]
             ELSE IF b = next THEN [@[b] EXCEPT !.preceding = rem]
             ELSE @[b]]], r)

Free == {a \in DOMAIN node : ~node[a].alloc}

\* The totals mm_mallinfo reports.
FreeTotal == FoldSet(LAMBDA a, n : n + node[a].size, 0, Free)
UsedTotal == FoldSet(LAMBDA a, n : n + node[a].size, 0, DOMAIN node \ Free)

\* mm_max_usedsize_update, at the end of mm_malloc.
max_usedsize_update == max_used' = Max({max_used, UsedTotal'})

\* The chunk at a, cut to size, is given out for a request of req.
Allocate(a, size, req) ==
  LET h == Split(Unlink([node |-> node, nodelist |-> nodelist], a), a, size)
  IN  /\ node' = [h.node EXCEPT ![a].alloc = TRUE]
      /\ nodelist' = h.nodelist
      /\ used' = [b \in DOMAIN used \cup {a} |-> IF b = a THEN req ELSE used[b]]

mm_malloc_NoHeader ==
  \E req \in Requests :
    LET size == AlignUp(req)
        list == ListFrom(size2ndx(size))
        fit == SelectInSeq(list, LAMBDA b : node[b].size >= size)
    IN  /\ req >= 1
        /\ IF fit # 0 THEN Allocate(list[fit], size, req) ELSE UNCHANGED <<node, nodelist, used>>
        /\ max_usedsize_update

mm_malloc_LastFit ==
  \E req \in Requests :
    LET size == AlignUp(req + SizeofAllocnode)
        list == ListFrom(size2ndx(size))
        fit == SelectLastInSeq(list, LAMBDA b : node[b].size >= size)
    IN  /\ req >= 1
        /\ IF fit # 0 THEN Allocate(list[fit], size, req) ELSE UNCHANGED <<node, nodelist, used>>
        /\ max_usedsize_update

\* The first chunk on the list that is large enough; NULL if there is none.
mm_malloc ==
  \E req \in Requests :
    LET size == AlignUp(req + SizeofAllocnode)
        list == ListFrom(size2ndx(size))
        fit == SelectInSeq(list, LAMBDA b : node[b].size >= size)
    IN  /\ req >= 1
        /\ IF fit # 0 THEN Allocate(list[fit], size, req) ELSE UNCHANGED <<node, nodelist, used>>
        /\ max_usedsize_update

\* The chunk at b, next to the one at a, becomes part of it.
Merge(h, a, b) ==
  LET size == h.node[a].size + h.node[b].size
      beyond == b + h.node[b].size
  IN  [h EXCEPT !.node = [c \in DOMAIN @ \ {b} |->
         IF c = a THEN [@[a] EXCEPT !.size = size]
         ELSE IF c = beyond THEN [@[c] EXCEPT !.preceding = size]
         ELSE @[c]]]

mm_free_OnlyNext ==
  \E a \in DOMAIN used :
    LET h0 == [node |-> [node EXCEPT ![a].alloc = FALSE], nodelist |-> nodelist]
        next == a + node[a].size
        h == IF h0.node[next].alloc THEN h0 ELSE Merge(Unlink(h0, next), a, next)
    IN  /\ node' = h.node /\ nodelist' = addfreechunk(h, a).nodelist
        /\ used' = [b \in DOMAIN used \ {a} |-> used[b]]
        /\ UNCHANGED max_used

\* Merged with the chunk behind it and the chunk before it, if these are free.
mm_free ==
  \E a \in DOMAIN used :
    LET h0 == [node |-> [node EXCEPT ![a].alloc = FALSE], nodelist |-> nodelist]
        next == a + node[a].size
        h1 == IF h0.node[next].alloc THEN h0 ELSE Merge(Unlink(h0, next), a, next)
        prev == a - h1.node[a].preceding
        h2 == IF h1.node[prev].alloc THEN h1 ELSE Merge(Unlink(h1, prev), prev, a)
        h3 == addfreechunk(h2, IF h1.node[prev].alloc THEN a ELSE prev)
    IN  /\ node' = h3.node /\ nodelist' = h3.nodelist
        /\ used' = [b \in DOMAIN used \ {a} |-> used[b]]
        /\ UNCHANGED max_used

\* mm_initialize and mm_addregion: one free chunk between the guard nodes.
InitHeap ==
  LET first == SizeofAllocnode
      size == HeapSize - 2 * SizeofAllocnode
      h == [node |-> [a \in {0, first, HeapEnd} |->
              IF a = first THEN [size |-> size, preceding |-> SizeofAllocnode, alloc |-> FALSE]
              ELSE [size |-> SizeofAllocnode, preceding |-> IF a = 0 THEN 0 ELSE size,
                    alloc |-> TRUE]],
            nodelist |-> [n \in 0 .. NNodes - 1 |-> <<>>]]
  IN  /\ node = h.node /\ nodelist = addfreechunk(h, first).nodelist
      /\ used = <<>> /\ max_used = 0

NextHeap == mm_malloc \/ mm_free

SpecHeap == InitHeap /\ [][NextHeap]_hvars

-----------------------------------------------------------------------------
(* Properties *)

\* The headers cut the region into chunks without gap or overlap, each knows
\* the size of the one before it, the guard nodes stay where they are, and the
\* totals add up to the size of the heap, as mm_mallinfo expects, and were never
\* above the peak.
Tiled ==
  /\ {0, HeapEnd} \subseteq DOMAIN node
  /\ \A a \in DOMAIN node \ {HeapEnd} :
       LET next == a + node[a].size
       IN  /\ next \in DOMAIN node /\ node[next].preceding = node[a].size
           /\ \A b \in DOMAIN node : ~(a < b /\ b < next)
  /\ UsedTotal + FreeTotal = HeapSize
  /\ used # <<>> => UsedTotal <= max_used

\* What the program holds lies inside allocated chunks of its own, with room
\* for what it asked for; everything else but the guards is free.
BlocksHeld ==
  /\ DOMAIN used = DOMAIN node \ (Free \cup {0, HeapEnd})
  /\ \A a \in DOMAIN used : node[a].size >= used[a] + SizeofAllocnode

\* No two free chunks are neighbours: what was freed can be had in one piece.
Coalesced == \A a \in Free : node[a + node[a].size].alloc

\* The list holds every free chunk once, in ascending order and behind the
\* entry for its size, so that the first that fits is the best.
ListedBySize ==
  LET list == ListFrom(0)
  IN  /\ ToSet(list) = Free /\ Len(list) = Cardinality(Free)
      /\ \A i \in 1 .. Len(list) - 1 : node[list[i]].size <= node[list[i + 1]].size
      /\ \A n \in DOMAIN nodelist : \A a \in ToSet(nodelist[n]) : size2ndx(node[a].size) = n

\* mm_malloc takes the smallest of all free chunks that are large enough.
BestFit ==
  [][\A a \in DOMAIN used' \ DOMAIN used :
       LET size == AlignUp(used'[a] + SizeofAllocnode)
       IN  \A b \in Free : node[b].size >= size => node[a].size <= node[b].size]_hvars

\* The heap keeps its shape through every sequence of mm_malloc and mm_free.
HeapSound == Tiled /\ BlocksHeld /\ Coalesced /\ ListedBySize
=============================================================================
