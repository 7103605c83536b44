------------------------------- MODULE RingDyn -------------------------------
(***************************************************************************)
(* The ring buffer of messages of any length (k_ringbuf.c,                 *)
(* RINGBUF_TYPE_DYN), the storage of buffer queues.  A message is stored   *)
(* as its length, packed into one to three bytes whose first tells how     *)
(* many there are, and its bytes; either may be split at the end of the    *)
(* memory.  A byte has Base values: 256 in the code, and any multiple of 4 *)
(* here, so that small messages need all forms of the length.              *)
(***************************************************************************)
EXTENDS Integers, Sequences, SequencesExt

CONSTANTS Base,           \* values of a byte
          Size,           \* end - buf
          ByteMsgs        \* messages that are pushed: sequences of bytes

Byte == 0 .. Base - 1

ASSUME RingDynConstants ==
  /\ Base \in Nat \ {0} /\ Base % 4 = 0 /\ Size \in Nat \ {0}
  /\ ByteMsgs \subseteq Seq(Byte) \ {<<>>}

VARIABLES mem,            \* the bytes from buf to end
          mhead, mtail, mfree,
          mgot            \* the message the last pop copied out, if any

dvars == <<mem, mhead, mtail, mfree, mgot>>

\* RINGBUF_LEN_VLE_2BYTES and RINGBUF_LEN_VLE_3BYTES: the two highest bits.
VLE_2BYTES == Base \div 2
VLE_3BYTES == Base \div 2 + Base \div 4

MaxLen1 == Base \div 2 - 1
MaxLen2 == (Base \div 4) * Base - 1
MaxLen3 == (Base \div 4) * Base * Base - 1

headlen_compress(len) ==
  CASE len <= MaxLen1 -> <<len>>
    [] len > MaxLen1 /\ len <= MaxLen2 -> <<VLE_2BYTES + len \div Base, len % Base>>
    [] len > MaxLen2 -> <<VLE_3BYTES + len \div (Base * Base), (len \div Base) % Base, len % Base>>

\* How many bytes the length takes, from the first of them.
LenBytes(first) ==
  IF first < VLE_2BYTES THEN 1 ELSE IF first < VLE_3BYTES THEN 2 ELSE 3

headlen_decompress(c) ==
  FoldLeft(LAMBDA n, byte : n * Base + byte,
           IF Len(c) = 1 THEN c[1] ELSE c[1] % (Base \div 4), Tail(c))

-----------------------------------------------------------------------------
\* memcpy into the memory; what it writes behind the end is part of the result.
Copied(m, at, s) ==
  [i \in DOMAIN m \cup at .. at + Len(s) - 1 |->
     IF i \in at .. at + Len(s) - 1 THEN s[i - at + 1] ELSE m[i]]

\* Writes s behind the tail, the rest to the front when it reaches the end.
Put(b, s) ==
  LET tail == IF b.tail = Size THEN 0 ELSE b.tail
      room == Size - tail
      split == tail >= mhead /\ room < Len(s) /\ room > 0
  IN  IF split
      THEN [mem |-> Copied(Copied(b.mem, tail, SubSeq(s, 1, room)), 0, SubSeq(s, room + 1, Len(s))),
            tail |-> Len(s) - room]
      ELSE [mem |-> Copied(b.mem, tail, s), tail |-> tail + Len(s)]

\* ringbuf_push: the length, then the data.
push_dyn(m) ==
  LET c == headlen_compress(Len(m))
      b == Put(Put([mem |-> mem, tail |-> mtail], c), m)
  IN  /\ mfree >= 2 /\ Len(m) <= MaxLen3
      /\ mfree >= Len(c) + Len(m)
      /\ mem' = b.mem /\ mtail' = b.tail
      /\ mfree' = mfree - Len(c) - Len(m)
      /\ UNCHANGED <<mhead, mgot>>

\* The n bytes behind head, the rest from the front when they reach the end,
\* and where the head is then.
Get(head, n) ==
  LET from == IF head = Size THEN 0 ELSE head
      room == Size - from
  IN  [head |-> IF room < n THEN n - room ELSE from + n,
       bytes |-> [i \in 1 .. n |-> IF i > room THEN mem[i - room - 1] ELSE mem[from + i - 1]]]

GetData_Restarts(head, n) ==
  LET from == IF head = Size THEN 0 ELSE head
      room == Size - from
  IN  IF from > mtail /\ room < n
      THEN [head |-> n - room,
            bytes |-> [i \in 1 .. n |-> IF i <= n - room THEN mem[i - 1] ELSE mem[from + i - 1 - (n - room)]]]
      ELSE [head |-> from + n, bytes |-> [i \in 1 .. n |-> mem[from + i - 1]]]

\* The data are only looked for in front if the head is behind the tail.
GetData(head, n) ==
  LET from == IF head = Size THEN 0 ELSE head
  IN  IF from > mtail THEN Get(from, n)
      ELSE [head |-> from + n, bytes |-> [i \in 1 .. n |-> mem[from + i - 1]]]

\* ringbuf_pop
pop_dyn ==
  LET c == Get(mhead, LenBytes(Get(mhead, 1).bytes[1]))
      d == GetData(c.head, headlen_decompress(c.bytes))
  IN  /\ mfree # Size
      /\ mgot' = <<d.bytes>>
      /\ mhead' = d.head
      /\ mfree' = mfree + Len(c.bytes) + Len(d.bytes)
      /\ UNCHANGED <<mem, mtail>>

reset_dyn ==
  /\ mhead' = 0 /\ mtail' = 0 /\ mfree' = Size
  /\ UNCHANGED <<mem, mgot>>

InitDyn ==
  /\ mem = [i \in 0 .. Size - 1 |-> 0]
  /\ mhead = 0 /\ mtail = 0 /\ mfree = Size /\ mgot = <<>>

NextDyn == (\E m \in ByteMsgs : push_dyn(m)) \/ pop_dyn \/ reset_dyn

SpecDyn == InitDyn /\ [][NextDyn]_dvars

-----------------------------------------------------------------------------
(* Properties *)

\* The bytes in use, and the messages they are the packed form of.
Bytes == [i \in 1 .. Size - mfree |-> mem[(mhead + i - 1) % Size]]

Unpacked ==
  LET from[i \in 1 .. Len(Bytes) + 1] ==
        IF i > Len(Bytes) THEN <<>>
        ELSE LET n == LenBytes(Bytes[i])
                 len == headlen_decompress(SubSeq(Bytes, i, i + n - 1))
             IN  <<SubSeq(Bytes, i + n, i + n + len - 1)>> \o from[i + n + len]
  IN  from[1]

\* Room for another message behind the messages s.
HasRoomDyn(s, m) ==
  LET left == FoldLeft(LAMBDA n, x : n - Len(headlen_compress(Len(x))) - Len(x), Size, s)
  IN  left >= 2 /\ left >= Len(headlen_compress(Len(m))) + Len(m)

FD == INSTANCE Fifo WITH q <- Unpacked, got <- mgot, Msgs <- ByteMsgs, Fits <- HasRoomDyn

\* The ring buffer is a bounded queue of messages: each comes out in its turn,
\* with its length and its bytes, wherever the end of the memory splits it.
DynImplementsFifo == FD!Spec
=============================================================================
