----------------------------- MODULE DriverProofs ----------------------------
(***************************************************************************)
(* Two drivers.                                                            *)
(*                                                                         *)
(* spi_nor_write is exact for every size of flash and page, every address  *)
(* and every buffer. The invariant is WritesExact itself, which speaks of  *)
(* what a call still has to do; a program instruction preserves it because *)
(* its part of the buffer ends before the page does.                       *)
(*                                                                         *)
(* The serial bridge delivers every byte once and in order and leaves      *)
(* nothing behind unannounced, for every size of ring, buffer and margin   *)
(* and any DMA channels. The invariant P2pInv adds to BridgeSound what     *)
(* makes it inductive: the task has read the byte it is about to take      *)
(* (Reading); the interrupt of the timer stops it only after giving a      *)
(* token that the task cannot take before the interrupt is over            *)
(* (TimerToken); the channel of the line is taken, running, ended and      *)
(* announced in turn, with one token at most (OneTransfer). BytesInOrder   *)
(* is rewritten without remainders first.                                  *)
(***************************************************************************)
EXTENDS SpiNor, UartP2p, FiniteSetTheorems, TLAPS

\* Division with remainder.
LEMMA Remainder ==
  ASSUME NEW x \in Nat, NEW p \in Nat \ {0}
  PROVE  x % p \in 0 .. p - 1 /\ x \div p \in Nat /\ x = (x \div p) * p + (x % p)
OBVIOUS

\* It is unique.
LEMMA RemainderOf ==
  ASSUME NEW q \in Nat, NEW p \in Nat \ {0}, NEW r \in 0 .. p - 1
  PROVE  (q * p + r) % p = r
OBVIOUS

-----------------------------------------------------------------------------
\* The flash.

NorInv ==
  /\ job.addr \in Nat /\ job.buf \in Seq({0, 1})
  /\ WritesExact

-----------------------------------------------------------------------------
\* Counting up inside a page does not wrap.
LEMMA InPage ==
  ASSUME NEW x \in Nat, NEW p \in Nat \ {0}, NEW j \in Nat, (x % p) + j < p
  PROVE  (x + j) % p = (x % p) + j
<1>1. PICK q \in Nat, r \in 0 .. p - 1 : x = q * p + r /\ r = x % p
  BY Remainder
<1>2. PICK s \in 0 .. p - 1 : s = r + j
  <2>1. r + j < p
    BY <1>1, Zenon
  <2> HIDE <1>1
  <2>2. r + j \in 0 .. p - 1
    BY <2>1
  <2> QED BY <2>2
<1>3. (q * p + s) % p = s
  BY RemainderOf
<1>4. PICK m \in Nat : m = q * p
  <2>1. q * p \in Nat
    OBVIOUS
  <2> QED BY <2>1
<1>5. x + j = m + s
  BY <1>1, <1>2, <1>4
<1>6. x + j = q * p + s
  BY <1>4, <1>5
<1> QED BY <1>1, <1>2, <1>3, <1>6, ZenonT(60)

\* A chunk is a part of the buffer that ends before the page does.
LEMMA ChunkFits ==
  ASSUME NEW addr \in Nat, NEW len \in Nat
  PROVE  Chunk(addr, len) \in 0 .. len /\ (addr % page_size) + Chunk(addr, len) <= page_size
<1>1. page_size \in Nat \ {0}
  BY SpiNorConstants
<1>2. PICK r \in 0 .. page_size - 1 : r = addr % page_size
  BY <1>1, Remainder
<1>3. Chunk(addr, len) = IF r # 0 /\ len > page_size - r THEN page_size - r
                         ELSE IF len > page_size THEN page_size ELSE len
  <2>1. Chunk(addr, len) =
          IF (IF r = 0 THEN 0 ELSE page_size - r) # 0 /\ len > (IF r = 0 THEN 0 ELSE page_size - r)
          THEN (IF r = 0 THEN 0 ELSE page_size - r)
          ELSE IF len > page_size THEN page_size ELSE len
    BY <1>2 DEF Chunk
  <2> QED BY <1>1, <1>2, <2>1
<1> QED BY <1>1, <1>2, <1>3

\* Programming a chunk clears the cells of the chunk.
LEMMA ProgramsChunk ==
  ASSUME NEW addr \in Nat, NEW buf \in Seq({0, 1}), (addr % page_size) + Len(buf) <= page_size,
         page_program(addr, buf)
  PROVE  cells' = cells \cup Target(addr, buf)
<1>1. page_size \in Nat \ {0}
  BY SpiNorConstants
<1>2. ASSUME NEW k \in Zeros(buf)
      PROVE  (addr - (addr % page_size)) + ((addr + k - 1) % page_size) = addr + k - 1
  <2>1. k \in 1 .. Len(buf) /\ Len(buf) \in Nat
    BY DEF Zeros
  <2>2. PICK r \in 0 .. page_size - 1 : r = addr % page_size
    BY <1>1, Remainder
  <2>3. PICK j \in Nat : j = k - 1
    BY <2>1
  <2>4. r + j < page_size
    BY <1>1, <2>1, <2>2, <2>3
  <2>5. (addr + j) % page_size = r + j
    BY <1>1, <2>2, <2>4, InPage, Zenon
  <2>6. addr + k - 1 = addr + j
    BY <2>1, <2>3
  <2>7. (addr - r) + (r + j) = addr + j
    BY <2>2
  <2> QED BY <2>2, <2>5, <2>6, <2>7
<1>3. cells' = cells \cup {(addr - (addr % page_size)) + ((addr + k - 1) % page_size) : k \in Zeros(buf)}
  BY DEF page_program
<1> QED BY <1>2, <1>3 DEF Target

\* A buffer is its first n bytes and the others behind them.
LEMMA SplitTarget ==
  ASSUME NEW addr \in Nat, NEW buf \in Seq({0, 1}), NEW n \in 0 .. Len(buf)
  PROVE  Target(addr, buf) = Target(addr, SubSeq(buf, 1, n))
                               \cup Target(addr + n, SubSeq(buf, n + 1, Len(buf)))
<1> DEFINE head == SubSeq(buf, 1, n)
           rest == SubSeq(buf, n + 1, Len(buf))
<1>1. Len(buf) \in Nat /\ DOMAIN buf = 1 .. Len(buf)
  OBVIOUS
<1>2. DOMAIN head = 1 .. n /\ \A k \in 1 .. n : head[k] = buf[k]
  BY <1>1
<1>3. DOMAIN rest = 1 .. Len(buf) - n /\ \A k \in 1 .. Len(buf) - n : rest[k] = buf[n + k]
  BY <1>1
<1> HIDE DEF head, rest
<1>4. ASSUME NEW a \in Target(addr, buf)
      PROVE  a \in Target(addr, head) \cup Target(addr + n, rest)
  <2>1. PICK k \in 1 .. Len(buf) : buf[k] = 0 /\ a = addr + k - 1
    BY <1>1 DEF Target, Zeros
  <2>2. CASE k <= n
    BY <1>2, <2>1, <2>2 DEF Target, Zeros
  <2>3. CASE k > n
    <3>1. PICK j \in 1 .. Len(buf) - n : k = n + j
      <4>1. k - n \in 1 .. Len(buf) - n /\ k = n + (k - n)
        BY <1>1, <2>3
      <4> QED BY <4>1
    <3>2. a = (addr + n) + j - 1
      BY <1>1, <2>1, <3>1
    <3>3. j \in Zeros(rest)
      BY <1>3, <2>1, <3>1 DEF Zeros
    <3> QED BY <3>2, <3>3 DEF Target
  <2> QED BY <1>1, <2>2, <2>3
<1>5. ASSUME NEW a \in Target(addr, head) PROVE a \in Target(addr, buf)
  BY <1>1, <1>2 DEF Target, Zeros
<1>6. ASSUME NEW a \in Target(addr + n, rest) PROVE a \in Target(addr, buf)
  <2>1. PICK j \in 1 .. Len(buf) - n : rest[j] = 0 /\ a = (addr + n) + j - 1
    BY <1>3 DEF Target, Zeros
  <2>2. n + j \in 1 .. Len(buf) /\ a = addr + (n + j) - 1
    BY <1>1, <2>1
  <2>3. n + j \in Zeros(buf)
    BY <1>1, <1>3, <2>1, <2>2 DEF Zeros
  <2> QED BY <2>2, <2>3 DEF Target
<1>7. Target(addr, buf) = Target(addr, head) \cup Target(addr + n, rest)
  BY <1>4, <1>5, <1>6
<1> QED BY <1>7 DEF head, rest

\* The start.
LEMMA InitNorInv == InitNor => NorInv
<1> SUFFICES ASSUME InitNor PROVE NorInv
  OBVIOUS
<1>1. job.addr = 0 /\ job.buf = <<>> /\ cells = {} /\ written = {}
  BY DEF InitNor, Idle
<1>2. Target(0, <<>>) = {}
  BY DEF Target, Zeros
<1> QED BY <1>1, <1>2 DEF NorInv, WritesExact

\* A call that has just begun has everything to do.
LEMMA WriteStep == NorInv /\ spi_nor_write => NorInv'
<1> SUFFICES ASSUME NorInv, spi_nor_write PROVE NorInv'
  OBVIOUS
<1>1. PICK addr \in Cells, buf \in Buffers :
        /\ job = Idle /\ job' = [addr |-> addr, buf |-> buf]
        /\ written' = written \cup Target(addr, buf) /\ cells' = cells
  BY DEF spi_nor_write
<1>2. addr \in Nat /\ buf \in Seq({0, 1})
  BY SpiNorConstants DEF Cells
<1>3. cells = written
  <2>1. Target(0, <<>>) = {}
    BY DEF Target, Zeros
  <2> QED BY <1>1, <2>1, Zenon DEF NorInv, WritesExact, Idle
<1>4. job'.addr = addr /\ job'.buf = buf
  BY <1>1
<1> QED BY <1>1, <1>2, <1>3, <1>4 DEF NorInv, WritesExact

\* Each instruction does its part of the rest, and no more.
LEMMA ProgramStep == NorInv /\ Program => NorInv'
<1> SUFFICES ASSUME NorInv, Program PROVE NorInv'
  OBVIOUS
<1>1. PICK addr, buf : addr = job.addr /\ buf = job.buf
  OBVIOUS
<1>2. addr \in Nat /\ buf \in Seq({0, 1}) /\ cells \cup Target(addr, buf) = written
  BY <1>1 DEF NorInv, WritesExact
<1>3. PICK n : n = Chunk(addr, Len(buf))
  OBVIOUS
<1>4. Len(buf) \in Nat /\ n \in 0 .. Len(buf) /\ (addr % page_size) + n <= page_size
  BY <1>2, <1>3, ChunkFits
<1>5. PICK head, rest : head = SubSeq(buf, 1, n) /\ rest = SubSeq(buf, n + 1, Len(buf))
  BY Zenon
<1>6. head \in Seq({0, 1}) /\ Len(head) = n /\ rest \in Seq({0, 1})
  BY <1>2, <1>4, <1>5
<1>7. /\ page_program(addr, head) /\ written' = written
      /\ job' = IF n = Len(buf) THEN Idle ELSE [addr |-> addr + n, buf |-> rest]
  BY <1>1, <1>3, <1>5 DEF Program
<1>8. cells' = cells \cup Target(addr, head)
  BY <1>2, <1>4, <1>6, <1>7, ProgramsChunk
<1>9. Target(addr, buf) = Target(addr, head) \cup Target(addr + n, rest)
  BY <1>2, <1>4, <1>5, SplitTarget
<1>10. cells' \cup Target(addr + n, rest) = written'
  BY <1>2, <1>7, <1>8, <1>9
<1>11. CASE n # Len(buf)
  <2>1. job'.addr = addr + n /\ job'.buf = rest
    BY <1>7, <1>11
  <2>2. addr + n \in Nat
    BY <1>2, <1>4
  <2> QED BY <1>6, <1>10, <2>1, <2>2 DEF NorInv, WritesExact
<1>12. CASE n = Len(buf)
  <2>1. job'.addr = 0 /\ job'.buf = <<>>
    BY <1>7, <1>12 DEF Idle
  <2>2. Len(rest) = 0
    BY <1>2, <1>4, <1>5, <1>12
  <2>3. Target(addr + n, rest) = {} /\ Target(0, <<>>) = {}
    BY <1>6, <2>2 DEF Target, Zeros
  <2> QED BY <1>10, <2>1, <2>3 DEF NorInv, WritesExact
<1> QED BY <1>11, <1>12

\* Erasing between calls takes the same cells from both.
LEMMA EraseStep == ASSUME NEW size, NorInv, Erase(size) PROVE NorInv'
<1>1. PICK erased : /\ job = Idle /\ job' = job
                    /\ cells' = cells \ erased /\ written' = written \ erased
  BY Zenon DEF Erase
<1>2. Target(0, <<>>) = {}
  BY DEF Target, Zeros
<1>3. job.addr = 0 /\ job.buf = <<>>
  BY <1>1 DEF Idle
<1> QED BY <1>1, <1>2, <1>3 DEF NorInv, WritesExact

\* WritesExact for every flash, page size, address and buffer: page by page,
\* spi_nor_write programs the cells of its buffer and no others.
THEOREM AlwaysExact == SpecNor => []WritesExact
<1>1. NorInv /\ [NextNor]_norvars => NorInv'
  <2> SUFFICES ASSUME NorInv, [NextNor]_norvars PROVE NorInv'
    OBVIOUS
  <2>1. CASE spi_nor_open \/ spi_nor_close \/ UNCHANGED norvars
    BY <2>1 DEF spi_nor_open, spi_nor_close, norvars, NorInv, WritesExact
  <2>2. CASE spi_nor_write
    BY <2>2, WriteStep
  <2>3. CASE Program
    BY <2>3, ProgramStep
  <2>4. CASE spi_nor_sector_erase \/ spi_nor_block_erase \/ spi_nor_chip_erase
    BY <2>4, EraseStep DEF spi_nor_sector_erase, spi_nor_block_erase, spi_nor_chip_erase
  <2> QED BY <2>1, <2>2, <2>3, <2>4 DEF NextNor
<1>2. NorInv => WritesExact
  BY DEF NorInv
<1> QED BY <1>1, <1>2, InitNorInv, PTL DEF SpecNor

-----------------------------------------------------------------------------
\* The serial bridge.

\* What each variable holds.
P2pTypes ==
  /\ p2p \in [rbq : [0 .. RBSIZE - 1 -> Nat], rpos : 0 .. RBSIZE - 1, wpos : 0 .. RBSIZE - 1,
              sema : Nat, rx_data : Seq({"skb"}), timer : BOOLEAN, in_isr : BOOLEAN]
  /\ bridge \in [pc : {"down", "rx", "xfer", "start", "wait", "tx", "got"}, txbuf : Seq(Nat),
                 ch : Channels \cup {"none", "EBUSY"}]
  /\ dma \in [used : [Channels -> {"no", "uart", "other"}], runs : SUBSET Channels,
              raw : SUBSET Channels, tx_dma_sema : Nat]
  /\ giving \in BOOLEAN
  /\ passed \in [in : 0 .. BYTES - 1, out : 0 .. BYTES - 1]

\* The task has read the byte it is about to take from the ring.
Reading ==
  /\ bridge.pc \in {"tx", "got"} => Len(bridge.txbuf) <= TXBUF
  /\ bridge.pc = "got" => Len(bridge.txbuf) > 0 /\ ~RB_EMPTY

\* The interrupt of the timer stops it only after it has given a token, which the
\* task cannot take before the interrupt is over.
TimerToken == p2p.in_isr => p2p.sema > 0

\* The channel of the serial line: taken, running, ended and announced in turn.
OneTransfer ==
  /\ \A ch \in dma.runs \cup dma.raw : dma.used[ch] # "no"
  /\ dma.runs \cap dma.raw = {}
  /\ bridge.pc = "start" => /\ bridge.ch \in Channels /\ dma.used[bridge.ch] = "uart"
                            /\ bridge.ch \notin dma.runs \cup dma.raw
  /\ bridge.pc = "wait" => \/ bridge.ch = "EBUSY"
                           \/ bridge.ch \in dma.runs \cup dma.raw /\ dma.used[bridge.ch] = "uart"
                           \/ dma.tx_dma_sema > 0
  /\ dma.tx_dma_sema <= 1
  /\ dma.tx_dma_sema > 0 => bridge.pc = "wait" /\ \A ch \in Channels : dma.used[ch] # "uart"

\* The three parts of NothingStranded.
PacketsAnnounced ==
  Len(p2p.rx_data) <= p2p.sema + (IF bridge.pc = "rx" THEN 1 ELSE 0) + (IF giving THEN 1 ELSE 0)
BytesAnnounced ==
  bridge.pc = "down" /\ ~RB_EMPTY => p2p.sema > 0 \/ p2p.timer \/ Len(bridge.txbuf) = TXBUF
EndAnnounced ==
  bridge.pc = "wait" =>
    bridge.ch \in dma.runs \cup dma.raw \cup {"EBUSY"} \/ dma.tx_dma_sema > 0

P2pInv == P2pTypes /\ Reading /\ TimerToken /\ OneTransfer /\ BridgeSound

-----------------------------------------------------------------------------
\* A number below twice the modulus.
LEMMA Wraps ==
  ASSUME NEW m \in Nat \ {0}, NEW x \in 0 .. 2 * m - 1
  PROVE  x % m = IF x < m THEN x ELSE x - m
<1>1. CASE x < m
  <2>1. x \in 0 .. m - 1 /\ 0 * m + x = x BY <1>1
  <2>2. (0 * m + x) % m = x BY <2>1, RemainderOf
  <2> QED BY <1>1, <2>1, <2>2
<1>2. CASE x >= m
  <2>1. PICK r \in 0 .. m - 1 : r = x - m BY <1>2
  <2>2. 1 * m + r = x BY <2>1
  <2>3. (1 * m + r) % m = r BY RemainderOf
  <2> QED BY <1>2, <2>1, <2>2, <2>3
<1> QED BY <1>1, <1>2

\* RB_COUNT, and the place of the i-th byte.
Count(r, w) == IF r <= w THEN w - r ELSE (RBSIZE - r) + w
Place(r, i) == IF r + i < RBSIZE THEN r + i ELSE (r + i) - RBSIZE
Serial(n) == IF n < BYTES THEN n ELSE n - BYTES

\* The sizes of the bridge.
LEMMA Sizes ==
  /\ RBSIZE \in Nat \ {0} /\ TXBUF \in Nat \ {0} /\ BYTES \in Nat \ {0} /\ MARGIN \in Nat
  /\ BYTES > RBSIZE + TXBUF
BY UartP2pConstants

\* Positions wrap once at most,
LEMMA PlaceIs ==
  ASSUME NEW r \in 0 .. RBSIZE - 1, NEW i \in 0 .. RBSIZE - 1
  PROVE  (r + i) % RBSIZE = Place(r, i)
<1>1. r + i \in 0 .. 2 * RBSIZE - 1 BY Sizes
<1> QED BY <1>1, Sizes, Wraps, Zenon DEF Place

\* and so do serial numbers.
LEMMA SerialIs ==
  ASSUME NEW o \in 0 .. BYTES - 1, NEW n \in 0 .. BYTES
  PROVE  (o + n) % BYTES = Serial(o + n)
<1>1. o + n \in 0 .. 2 * BYTES - 1 BY Sizes
<1> QED BY <1>1, Sizes, Wraps, Zenon DEF Serial

\* RB_COUNT without a remainder.
LEMMA CountIs ==
  ASSUME P2pTypes
  PROVE  RB_COUNT = Count(p2p.rpos, p2p.wpos) /\ RB_COUNT \in 0 .. RBSIZE - 1
         /\ (RB_EMPTY <=> RB_COUNT = 0)
<1>1. p2p.rpos \in 0 .. RBSIZE - 1 /\ p2p.wpos \in 0 .. RBSIZE - 1 BY DEF P2pTypes
<1> QED BY <1>1, Sizes DEF RB_COUNT, RB_EMPTY, Count

\* The bytes of the ring lie between the two positions.
LEMMA RingFacts ==
  ASSUME NEW r \in 0 .. RBSIZE - 1, NEW w \in 0 .. RBSIZE - 1
  PROVE  /\ Count(r, w) \in 0 .. RBSIZE - 1
         /\ Place(r, Count(r, w)) = w
         /\ \A i \in 0 .. Count(r, w) - 1 : Place(r, i) # w /\ Place(r, i) \in 0 .. RBSIZE - 1
         /\ RB_NPOS(w) \in 0 .. RBSIZE - 1
         /\ RB_NPOS(w) # r => Count(r, RB_NPOS(w)) = Count(r, w) + 1
         /\ Count(r, w) > 0 => /\ Count(RB_NPOS(r), w) = Count(r, w) - 1
                               /\ \A i \in 0 .. Count(r, w) - 2 : Place(RB_NPOS(r), i) = Place(r, i + 1)
BY Sizes DEF Count, Place, RB_NPOS

-----------------------------------------------------------------------------
\* BytesInOrder without remainders: q is the ring, read from r and written at w; buf
\* is what the task holds, rd how much of it has left the ring.
InOrder(q, r, w, buf, rd, in, out) ==
  /\ \A k \in 1 .. Len(buf) : buf[k] = Serial(out + (k - 1))
  /\ \A i \in 0 .. Count(r, w) - 1 : q[Place(r, i)] = Serial(out + rd + i)
  /\ in = Serial(out + rd + Count(r, w))

Buf == IF bridge.pc \in {"tx", "got"} THEN bridge.txbuf ELSE <<>>
Taken == IF bridge.pc = "got" THEN Len(bridge.txbuf) - 1 ELSE Len(Buf)

\* What the buffer of the task holds, and how much of the ring it has read.
LEMMA BufFacts ==
  ASSUME P2pTypes, Reading
  PROVE  Buf \in Seq(Nat) /\ Held = Len(Buf) /\ Read = Taken /\ Len(Buf) \in 0 .. TXBUF
         /\ Taken \in 0 .. TXBUF
<1>1. bridge.txbuf \in Seq(Nat) /\ Len(bridge.txbuf) \in Nat BY DEF P2pTypes
<1>2. Len(<<>>) = 0 /\ <<>> \in Seq(Nat) OBVIOUS
<1>3. CASE bridge.pc \in {"tx", "got"} BY <1>1, <1>3, Sizes DEF Buf, Taken, Held, Read, Reading
<1>4. CASE bridge.pc \notin {"tx", "got"} BY <1>2, <1>4, Sizes DEF Buf, Taken, Held, Read
<1> QED BY <1>3, <1>4

\* BytesInOrder without remainders,
LEMMA BytesAre ==
  P2pTypes /\ Reading =>
    (BytesInOrder <=> InOrder(p2p.rbq, p2p.rpos, p2p.wpos, Buf, Taken, passed.in, passed.out))
<1> HAVE P2pTypes /\ Reading
<1>1. Held = Len(Buf) /\ Read = Taken /\ Len(Buf) \in 0 .. TXBUF /\ Taken \in 0 .. TXBUF BY BufFacts
<1>2. PICK o \in 0 .. BYTES - 1 : o = passed.out BY DEF P2pTypes
<1>3. PICK c \in 0 .. RBSIZE - 1 : c = RB_COUNT /\ c = Count(p2p.rpos, p2p.wpos) BY CountIs
<1>4. PICK n \in 0 .. TXBUF : n = Taken BY <1>1
<1>5. \A k \in 1 .. Held : (o + (k - 1)) % BYTES = Serial(o + (k - 1))
  <2> TAKE k \in 1 .. Held
  <2>1. k - 1 \in 0 .. BYTES BY <1>1, Sizes
  <2> QED BY <2>1, SerialIs
<1>6. ASSUME NEW i \in 0 .. c PROVE (o + n + i) % BYTES = Serial(o + n + i)
  <2>1. n + i \in 0 .. BYTES /\ o + (n + i) = o + n + i BY Sizes
  <2> QED BY <2>1, SerialIs
<1>7. \A i \in 0 .. c - 1 : (p2p.rpos + i) % RBSIZE = Place(p2p.rpos, i)
  <2> TAKE i \in 0 .. c - 1
  <2>1. p2p.rpos \in 0 .. RBSIZE - 1 BY DEF P2pTypes
  <2>2. i \in 0 .. RBSIZE - 1 BY Sizes
  <2> QED BY <2>1, <2>2, PlaceIs
<1>8. (\A k \in 1 .. Held : bridge.txbuf[k] = (passed.out + (k - 1)) % BYTES)
        <=> (\A k \in 1 .. Len(Buf) : Buf[k] = Serial(passed.out + (k - 1)))
  <2>1. ASSUME NEW k \in 1 .. Held PROVE bridge.txbuf[k] = Buf[k]
    <3>1. bridge.pc \in {"tx", "got"} BY DEF Held
    <3> QED BY <3>1 DEF Buf
  <2> QED BY <1>1, <1>2, <1>5, <2>1, Zenon
<1>9. (\A i \in 0 .. RB_COUNT - 1 : p2p.rbq[(p2p.rpos + i) % RBSIZE] = (passed.out + Read + i) % BYTES)
        <=> (\A i \in 0 .. Count(p2p.rpos, p2p.wpos) - 1 :
               p2p.rbq[Place(p2p.rpos, i)] = Serial(passed.out + Taken + i))
  <2>1. \A i \in 0 .. c - 1 : i \in 0 .. c OBVIOUS
  <2> QED BY <1>1, <1>2, <1>3, <1>4, <1>6, <1>7, <2>1, Zenon
<1>10. (passed.in = (passed.out + Read + RB_COUNT) % BYTES)
         <=> (passed.in = Serial(passed.out + Taken + Count(p2p.rpos, p2p.wpos)))
  <2>1. c \in 0 .. c OBVIOUS
  <2> QED BY <1>1, <1>2, <1>3, <1>4, <1>6, <2>1, Zenon
<1> QED BY <1>8, <1>9, <1>10, Zenon DEF BytesInOrder, InOrder

\* also after a step.
LEMMA BytesAreNext ==
  (P2pTypes /\ Reading =>
    (BytesInOrder <=> InOrder(p2p.rbq, p2p.rpos, p2p.wpos, Buf, Taken, passed.in, passed.out)))'
BY BytesAre, PTL

-----------------------------------------------------------------------------
\* The invariant, in the form in which the steps preserve it.
Parts ==
  /\ P2pTypes /\ Reading /\ TimerToken /\ OneTransfer /\ PacketHeld
  /\ InOrder(p2p.rbq, p2p.rpos, p2p.wpos, Buf, Taken, passed.in, passed.out)
  /\ PacketsAnnounced /\ BytesAnnounced /\ EndAnnounced

\* The invariant, in the parts that the steps keep,
LEMMA PartsOfInv == P2pInv <=> Parts
<1>1. NothingStranded <=> PacketsAnnounced /\ BytesAnnounced /\ EndAnnounced
  BY Zenon DEF NothingStranded, PacketsAnnounced, BytesAnnounced, EndAnnounced
<1> QED BY <1>1, BytesAre, Zenon DEF P2pInv, Parts, BridgeSound

\* also after a step.
LEMMA PartsOfInvNext == P2pInv' <=> Parts'
<1>1. (P2pInv <=> Parts)' BY PartsOfInv, PTL
<1> QED BY <1>1, Zenon

\* The channel is not concerned by a step that leaves the transfers alone and
\* neither begins nor ends a wait for one.
LEMMA TransferFrame ==
  ASSUME OneTransfer, PacketHeld, EndAnnounced, dma' = dma,
         \/ bridge' = bridge
         \/ bridge.pc \notin {"start", "wait"} /\ bridge'.pc \notin {"start", "wait"}
  PROVE  OneTransfer' /\ PacketHeld' /\ EndAnnounced'
<1>1. CASE bridge' = bridge BY <1>1 DEF OneTransfer, PacketHeld, EndAnnounced
<1>2. CASE bridge.pc \notin {"start", "wait"} /\ bridge'.pc \notin {"start", "wait"}
  <2>1. OneTransfer' BY <1>2 DEF OneTransfer
  <2>2. PacketHeld' BY <1>2 DEF PacketHeld
  <2>3. EndAnnounced' BY <1>2 DEF EndAnnounced
  <2> QED BY <2>1, <2>2, <2>3
<1> QED BY <1>1, <1>2

\* The bytes are not concerned by a step that leaves the ring alone.
LEMMA BytesFrame ==
  ASSUME InOrder(p2p.rbq, p2p.rpos, p2p.wpos, Buf, Taken, passed.in, passed.out), Reading,
         p2p'.rbq = p2p.rbq, p2p'.rpos = p2p.rpos, p2p'.wpos = p2p.wpos, passed' = passed,
         \/ bridge'.pc = bridge.pc /\ bridge'.txbuf = bridge.txbuf
         \/ bridge.pc \notin {"tx", "got"} /\ bridge'.pc \notin {"tx", "got"}
         \/ bridge.pc \notin {"tx", "got"} /\ bridge'.pc = "tx" /\ bridge'.txbuf = <<>>
  PROVE  InOrder(p2p.rbq, p2p.rpos, p2p.wpos, Buf, Taken, passed.in, passed.out)' /\ Reading'
<1>1. Buf' = Buf /\ Taken' = Taken BY DEF Buf, Taken
<1>2. RB_EMPTY' <=> RB_EMPTY BY DEF RB_EMPTY
<1>3. Len(<<>>) = 0 OBVIOUS
<1>4. Reading' BY <1>2, <1>3, Sizes DEF Reading
<1> QED BY <1>1, <1>4

\* The interrupt of the serial line puts a byte into a ring that is not full, and starts the timer.
LEMMA Step_irq ==
  ASSUME Parts, uart_p2p_irq_hdl
  PROVE  Parts'
<1> USE DEF Parts
<1> DEFINE T == [rbq : [0 .. RBSIZE - 1 -> Nat], rpos : 0 .. RBSIZE - 1, wpos : 0 .. RBSIZE - 1,
                 sema : Nat, rx_data : Seq({"skb"}), timer : BOOLEAN, in_isr : BOOLEAN]
<1>t. p2p \in T BY DEF P2pTypes
<1>a. PICK v \in T :
        /\ v = p2p \/ v = [p2p EXCEPT !.sema = @ + 1]
        /\ p2p' = [IF RB_FULL THEN v ELSE RB_SET(v, passed.in) EXCEPT !.timer = TRUE]
  <2>1. [p2p EXCEPT !.sema = @ + 1] \in T BY <1>t
  <2> QED BY <1>t, <2>1, Zenon DEF uart_p2p_irq_hdl
<1>b. /\ v.rbq = p2p.rbq /\ v.rpos = p2p.rpos /\ v.wpos = p2p.wpos /\ v.sema >= p2p.sema
      /\ v.rx_data = p2p.rx_data /\ v.in_isr = p2p.in_isr
  <2>1. CASE v = p2p BY <1>t, <2>1
  <2>2. CASE v = [p2p EXCEPT !.sema = @ + 1] BY <1>t, <2>2
  <2> QED BY <1>a, <2>1, <2>2
<1>c. UNCHANGED <<bridge, dma, giving>> BY DEF uart_p2p_irq_hdl
<1>d. passed' = IF RB_FULL THEN passed ELSE [passed EXCEPT !.in = (@ + 1) % BYTES]
  BY DEF uart_p2p_irq_hdl
<1>e. /\ p2p.wpos \in 0 .. RBSIZE - 1 /\ p2p.rpos \in 0 .. RBSIZE - 1 BY <1>t
<1>p. passed.in \in 0 .. BYTES - 1 /\ passed.out \in 0 .. BYTES - 1 BY DEF P2pTypes
<1>f. RB_NPOS(p2p.wpos) \in 0 .. RBSIZE - 1 BY <1>e, RingFacts, Zenon
<1>g. RB_FULL => /\ p2p'.rbq = p2p.rbq /\ p2p'.wpos = p2p.wpos /\ p2p' \in T
                 /\ passed' = passed
  BY <1>a, <1>b, <1>d, Zenon
<1>h. ~RB_FULL => /\ p2p'.rbq = [p2p.rbq EXCEPT ![p2p.wpos] = passed.in]
                  /\ p2p'.wpos = RB_NPOS(p2p.wpos) /\ p2p' \in T
                  /\ passed'.in = (passed.in + 1) % BYTES /\ passed'.out = passed.out
                  /\ passed' \in [in : 0 .. BYTES - 1, out : 0 .. BYTES - 1]
  <2> HAVE ~RB_FULL
  <2>1. (passed.in + 1) % BYTES \in 0 .. BYTES - 1
    <3>1. passed.in + 1 \in Nat BY <1>p, Sizes
    <3> QED BY <3>1, Sizes, Remainder, Zenon
  <2>2. passed \in [in : 0 .. BYTES - 1, out : 0 .. BYTES - 1] BY DEF P2pTypes
  <2>3. /\ passed'.in = (passed.in + 1) % BYTES /\ passed'.out = passed.out
        /\ passed' \in [in : 0 .. BYTES - 1, out : 0 .. BYTES - 1]
    BY <1>d, <2>1, <2>2
  <2>4. p2p' = [v EXCEPT !.rbq[v.wpos] = passed.in, !.wpos = RB_NPOS(@), !.timer = TRUE]
    BY <1>a DEF RB_SET
  <2>5. [p2p.rbq EXCEPT ![p2p.wpos] = passed.in] \in [0 .. RBSIZE - 1 -> Nat] BY <1>e, <1>p, <1>t
  <2>6. PICK q \in [0 .. RBSIZE - 1 -> Nat] : q = [p2p.rbq EXCEPT ![p2p.wpos] = passed.in] BY <2>5, Zenon
  <2>7. p2p' = [v EXCEPT !.rbq = q, !.wpos = RB_NPOS(@), !.timer = TRUE] BY <1>b, <2>4, <2>6
  <2>8. p2p'.rbq = q /\ p2p'.wpos = RB_NPOS(v.wpos) /\ p2p' \in T BY <1>b, <1>f, <2>7, Zenon
  <2> QED BY <1>b, <2>3, <2>6, <2>8
<1>i. /\ p2p'.rpos = p2p.rpos /\ p2p'.sema = v.sema /\ p2p'.rx_data = p2p.rx_data
      /\ p2p'.in_isr = p2p.in_isr /\ p2p'.timer = TRUE
  <2>1. CASE RB_FULL BY <1>a, <1>b, <2>1
  <2>2. CASE ~RB_FULL BY <1>a, <1>b, <2>2 DEF RB_SET
  <2> QED BY <2>1, <2>2, Zenon
<1>1. P2pTypes'
  <2>1. p2p' \in T BY <1>g, <1>h
  <2>2. passed' \in [in : 0 .. BYTES - 1, out : 0 .. BYTES - 1] BY <1>g, <1>h, Zenon DEF P2pTypes
  <2> QED BY <1>c, <2>1, <2>2, Zenon DEF P2pTypes
<1>2. TimerToken' BY <1>b, <1>i, <1>a, <1>t DEF TimerToken
<1>3. OneTransfer' /\ PacketHeld' /\ EndAnnounced' BY <1>c, TransferFrame
<1>4. PacketsAnnounced' BY <1>b, <1>c, <1>i, <1>a, <1>t DEF PacketsAnnounced
<1>5. BytesAnnounced' BY <1>i DEF BytesAnnounced
<1>6. Reading' /\ InOrder(p2p.rbq, p2p.rpos, p2p.wpos, Buf, Taken, passed.in, passed.out)'
  <2>1. CASE RB_FULL BY <1>c, <1>g, <1>i, <2>1, BytesFrame, ZenonT(60)
  <2>2. CASE ~RB_FULL
    <3>1. PICK r, w \in 0 .. RBSIZE - 1 : r = p2p.rpos /\ w = p2p.wpos BY <1>e
    <3>2. PICK c \in 0 .. RBSIZE - 1 : c = Count(r, w) BY RingFacts, ZenonT(60)
    <3>3. p2p'.rpos = r /\ p2p'.wpos = RB_NPOS(w) BY <1>h, <1>i, <2>2, <3>1
    <3>4. RB_NPOS(w) # r BY <2>2, <3>1 DEF RB_FULL
    <3>5. Count(r, RB_NPOS(w)) = c + 1 /\ Place(r, c) = w BY <3>2, <3>4, RingFacts
    <3>6. Buf' = Buf /\ Taken' = Taken BY <1>c DEF Buf, Taken
    <3>7. PICK n \in 0 .. TXBUF : n = Taken BY BufFacts
    <3>8. PICK o, b \in 0 .. BYTES - 1 : o = passed.out /\ b = passed.in BY <1>p, ZenonT(60)
    <3>9. b = Serial(o + n + c) BY <3>1, <3>2, <3>7, <3>8 DEF InOrder
    <3>10. passed'.in = Serial(o + n + (c + 1)) /\ passed'.out = o
      <4>1. b + 1 \in 0 .. 2 * BYTES - 1 BY Sizes
      <4>2. (b + 1) % BYTES = Serial(b + 1) BY <4>1, Sizes, Wraps, Zenon DEF Serial
      <4>3. Serial(b + 1) = Serial(o + n + (c + 1)) BY <3>9, Sizes DEF Serial
      <4> QED BY <1>h, <2>2, <3>8, <4>2, <4>3
    <3>11. ASSUME NEW i \in 0 .. c PROVE p2p'.rbq[Place(r, i)] = Serial(o + n + i)
      <4>1. p2p'.rbq = [p2p.rbq EXCEPT ![w] = b] /\ w \in DOMAIN p2p.rbq
        BY <1>h, <1>t, <2>2, <3>1, <3>8, Zenon
      <4>2. CASE i = c BY <3>5, <3>9, <4>1, <4>2
      <4>3. CASE i # c
        <5>1. i \in 0 .. c - 1 BY <4>3
        <5>2. Place(r, i) # w /\ Place(r, i) \in 0 .. RBSIZE - 1 BY <3>2, <5>1, RingFacts, ZenonT(60)
        <5>3. p2p.rbq[Place(r, i)] = Serial(o + n + i)
          BY <3>1, <3>2, <3>7, <3>8, <5>1, Zenon DEF InOrder
        <5> QED BY <1>t, <4>1, <5>2, <5>3
      <4> QED BY <4>2, <4>3
    <3>12. ~RB_EMPTY'
      <4>1. RB_NPOS(w) # r BY <3>4
      <4> QED BY <3>3, <4>1 DEF RB_EMPTY
    <3>13. Reading' BY <1>c, <3>12 DEF Reading
    <3>14. \A k \in 1 .. Len(Buf') : Buf'[k] = Serial(passed'.out + (k - 1))
      BY <3>6, <3>8, <3>10, Zenon DEF InOrder
    <3>15. \A i \in 0 .. Count(p2p'.rpos, p2p'.wpos) - 1 :
             p2p'.rbq[Place(p2p'.rpos, i)] = Serial(passed'.out + Taken' + i)
      <4>1. \A i \in 0 .. (c + 1) - 1 : i \in 0 .. c OBVIOUS
      <4> QED BY <3>3, <3>5, <3>6, <3>7, <3>10, <3>11, <4>1, Zenon
    <3>16. passed'.in = Serial(passed'.out + Taken' + Count(p2p'.rpos, p2p'.wpos))
      BY <3>3, <3>5, <3>6, <3>7, <3>10, ZenonT(60)
    <3> QED BY <3>13, <3>14, <3>15, <3>16 DEF InOrder
  <2> QED BY <2>1, <2>2
<1> QED BY <1>1, <1>2, <1>3, <1>4, <1>5, <1>6

\* The timer gives a token,
LEMMA Step_timer_cb ==
  ASSUME Parts, uart_p2p_timer_cb
  PROVE  Parts'
<1> USE DEF Parts
<1>a. /\ p2p' = [p2p EXCEPT !.sema = @ + 1, !.in_isr = TRUE] /\ p2p.sema \in Nat
      /\ UNCHANGED <<bridge, dma, giving, passed>>
  BY DEF uart_p2p_timer_cb, P2pTypes
<1>b. /\ p2p'.rbq = p2p.rbq /\ p2p'.rpos = p2p.rpos /\ p2p'.wpos = p2p.wpos
      /\ p2p'.sema = p2p.sema + 1 /\ p2p'.rx_data = p2p.rx_data
  BY <1>a DEF P2pTypes
<1>1. P2pTypes'
  <2>1. PICK n \in Nat : n = p2p.sema + 1 BY <1>a
  <2>2. p2p' = [p2p EXCEPT !.sema = n, !.in_isr = TRUE] BY <1>a, <2>1
  <2> QED BY <1>a, <2>2, Zenon DEF P2pTypes
<1>2. TimerToken' BY <1>a, <1>b DEF TimerToken
<1>3. OneTransfer' /\ PacketHeld' /\ EndAnnounced' BY <1>a, TransferFrame
<1>4. PacketsAnnounced' BY <1>a, <1>b DEF PacketsAnnounced, P2pTypes
<1>5. BytesAnnounced' BY <1>a, <1>b DEF BytesAnnounced
<1>6. Reading' /\ InOrder(p2p.rbq, p2p.rpos, p2p.wpos, Buf, Taken, passed.in, passed.out)'
  BY <1>a, <1>b, BytesFrame
<1> QED BY <1>1, <1>2, <1>3, <1>4, <1>5, <1>6

\* and is stopped when its interrupt is over.
LEMMA Step_timer_end ==
  ASSUME Parts, hgtimer_v2_irq_handler
  PROVE  Parts'
<1> USE DEF Parts
<1>a. /\ p2p' = [p2p EXCEPT !.timer = FALSE, !.in_isr = FALSE] /\ p2p.sema > 0
      /\ UNCHANGED <<bridge, dma, giving, passed>>
  BY DEF hgtimer_v2_irq_handler, TimerToken
<1>b. /\ p2p'.rbq = p2p.rbq /\ p2p'.rpos = p2p.rpos /\ p2p'.wpos = p2p.wpos
      /\ p2p'.sema = p2p.sema /\ p2p'.rx_data = p2p.rx_data
  BY <1>a DEF P2pTypes
<1>1. P2pTypes' BY <1>a, Zenon DEF P2pTypes
<1>2. TimerToken' BY <1>a, <1>b DEF TimerToken
<1>3. OneTransfer' /\ PacketHeld' /\ EndAnnounced' BY <1>a, TransferFrame
<1>4. PacketsAnnounced' BY <1>a, <1>b DEF PacketsAnnounced
<1>5. BytesAnnounced' BY <1>a, <1>b DEF BytesAnnounced
<1>6. Reading' /\ InOrder(p2p.rbq, p2p.rpos, p2p.wpos, Buf, Taken, passed.in, passed.out)'
  BY <1>a, <1>b, BytesFrame
<1> QED BY <1>1, <1>2, <1>3, <1>4, <1>5, <1>6

\* A packet arrives: it is queued,
LEMMA Step_recv ==
  ASSUME Parts, uart_p2p_recv
  PROVE  Parts'
<1> USE DEF Parts
<1>a. /\ p2p' = [p2p EXCEPT !.rx_data = Append(@, "skb")] /\ giving' = TRUE /\ giving = FALSE
      /\ UNCHANGED <<bridge, dma, passed>>
  BY DEF uart_p2p_recv, P2pTypes
<1>c. p2p.rx_data \in Seq({"skb"}) /\ p2p.sema \in Nat BY DEF P2pTypes
<1>d. PICK s \in Seq({"skb"}) : s = Append(p2p.rx_data, "skb") /\ Len(s) = Len(p2p.rx_data) + 1
  <2>1. PICK d \in Seq({"skb"}) : d = p2p.rx_data BY <1>c
  <2>2. Append(d, "skb") \in Seq({"skb"}) /\ Len(Append(d, "skb")) = Len(d) + 1 OBVIOUS
  <2> QED BY <2>1, <2>2, Zenon
<1>b. /\ p2p'.rbq = p2p.rbq /\ p2p'.rpos = p2p.rpos /\ p2p'.wpos = p2p.wpos
      /\ p2p'.sema = p2p.sema /\ p2p'.rx_data = s /\ p2p'.timer = p2p.timer
      /\ p2p'.in_isr = p2p.in_isr
  BY <1>a, <1>d DEF P2pTypes
<1>1. P2pTypes'
  <2>1. p2p' = [p2p EXCEPT !.rx_data = s] BY <1>a, <1>d
  <2> QED BY <1>a, <2>1, Zenon DEF P2pTypes
<1>2. TimerToken' BY <1>a, <1>b DEF TimerToken
<1>3. OneTransfer' /\ PacketHeld' /\ EndAnnounced' BY <1>a, TransferFrame
<1>4. PacketsAnnounced'
  <2>1. Len(p2p.rx_data) \in Nat BY <1>c
  <2> QED BY <1>a, <1>b, <1>c, <1>d, <2>1 DEF PacketsAnnounced
<1>5. BytesAnnounced' BY <1>a, <1>b DEF BytesAnnounced, RB_EMPTY
<1>6. Reading' /\ InOrder(p2p.rbq, p2p.rpos, p2p.wpos, Buf, Taken, passed.in, passed.out)'
  BY <1>a, <1>b, BytesFrame
<1> QED BY <1>1, <1>2, <1>3, <1>4, <1>5, <1>6

\* and a token is given.
LEMMA Step_recv_up ==
  ASSUME Parts, RecvUp
  PROVE  Parts'
<1> USE DEF Parts
<1>a. /\ p2p' = [p2p EXCEPT !.sema = @ + 1] /\ giving' = FALSE /\ giving = TRUE
      /\ UNCHANGED <<bridge, dma, passed>>
  BY DEF RecvUp, P2pTypes
<1>c. p2p.sema \in Nat /\ Len(p2p.rx_data) \in Nat BY DEF P2pTypes
<1>b. /\ p2p'.rbq = p2p.rbq /\ p2p'.rpos = p2p.rpos /\ p2p'.wpos = p2p.wpos
      /\ p2p'.sema = p2p.sema + 1 /\ p2p'.rx_data = p2p.rx_data /\ p2p'.timer = p2p.timer
      /\ p2p'.in_isr = p2p.in_isr
  BY <1>a DEF P2pTypes
<1>1. P2pTypes'
  <2>1. PICK n \in Nat : n = p2p.sema + 1 BY <1>c
  <2>2. p2p' = [p2p EXCEPT !.sema = n] BY <1>a, <2>1
  <2> QED BY <1>a, <2>2, Zenon DEF P2pTypes
<1>2. TimerToken' BY <1>a, <1>b, <1>c DEF TimerToken
<1>3. OneTransfer' /\ PacketHeld' /\ EndAnnounced' BY <1>a, TransferFrame
<1>4. PacketsAnnounced' BY <1>a, <1>b, <1>c DEF PacketsAnnounced
<1>5. BytesAnnounced' BY <1>a, <1>b, <1>c DEF BytesAnnounced
<1>6. Reading' /\ InOrder(p2p.rbq, p2p.rpos, p2p.wpos, Buf, Taken, passed.in, passed.out)'
  BY <1>a, <1>b, BytesFrame
<1> QED BY <1>1, <1>2, <1>3, <1>4, <1>5, <1>6

\* The task takes a token.
LEMMA Step_task ==
  ASSUME Parts, uart_p2p_task
  PROVE  Parts'
<1> USE DEF Parts
<1>a. /\ p2p' = [p2p EXCEPT !.sema = @ - 1] /\ p2p.sema > 0 /\ bridge.pc = "down"
      /\ bridge' = [bridge EXCEPT !.pc = "rx"] /\ p2p.in_isr = FALSE
      /\ UNCHANGED <<dma, giving, passed>>
  BY DEF uart_p2p_task, At, P2pTypes
<1>c. p2p.sema \in Nat /\ p2p.sema - 1 \in Nat /\ Len(p2p.rx_data) \in Nat BY <1>a DEF P2pTypes
<1>b. /\ p2p'.rbq = p2p.rbq /\ p2p'.rpos = p2p.rpos /\ p2p'.wpos = p2p.wpos
      /\ p2p'.sema = p2p.sema - 1 /\ p2p'.rx_data = p2p.rx_data /\ p2p'.in_isr = FALSE
      /\ bridge'.pc = "rx"
  BY <1>a DEF P2pTypes
<1>1. P2pTypes' BY <1>a, <1>c, Zenon DEF P2pTypes
<1>2. TimerToken' BY <1>b DEF TimerToken
<1>3. OneTransfer' /\ PacketHeld' /\ EndAnnounced' BY <1>a, <1>b, TransferFrame
<1>4. PacketsAnnounced' BY <1>a, <1>b, <1>c DEF PacketsAnnounced
<1>5. BytesAnnounced' BY <1>b DEF BytesAnnounced
<1>6. Reading' /\ InOrder(p2p.rbq, p2p.rpos, p2p.wpos, Buf, Taken, passed.in, passed.out)'
  BY <1>a, <1>b, BytesFrame, ZenonT(60)
<1> QED BY <1>1, <1>2, <1>3, <1>4, <1>5, <1>6

\* The task takes a packet, or finds none.
LEMMA Step_rx_data ==
  ASSUME Parts, uart_p2p_rx_data
  PROVE  Parts'
<1> USE DEF Parts
<1>a. /\ bridge.pc = "rx" /\ UNCHANGED <<dma, giving, passed>>
      /\ \/ /\ p2p.rx_data = <<>> /\ p2p' = p2p
            /\ bridge' = [bridge EXCEPT !.pc = "tx", !.txbuf = <<>>]
         \/ /\ p2p.rx_data # <<>> /\ p2p' = [p2p EXCEPT !.rx_data = Tail(@)]
            /\ bridge' = [bridge EXCEPT !.pc = "xfer"]
  BY DEF uart_p2p_rx_data, At
<1>c. p2p.sema \in Nat /\ p2p.rx_data \in Seq({"skb"}) /\ Len(p2p.rx_data) \in Nat BY DEF P2pTypes
<1>d. PICK s \in Seq({"skb"}) : /\ p2p.rx_data = <<>> => s = p2p.rx_data
                                /\ p2p.rx_data # <<>> => s = Tail(p2p.rx_data) /\ Len(s) = Len(p2p.rx_data) - 1
  <2>1. PICK d \in Seq({"skb"}) : d = p2p.rx_data BY <1>c
  <2>2. d # <<>> => Tail(d) \in Seq({"skb"}) /\ Len(Tail(d)) = Len(d) - 1 OBVIOUS
  <2> QED BY <2>1, <2>2, Zenon
<1>e. (p2p' = p2p /\ s = p2p.rx_data) \/ p2p' = [p2p EXCEPT !.rx_data = s]
  <2>1. CASE p2p.rx_data = <<>> BY <1>a, <1>d, <2>1, Zenon
  <2>2. CASE p2p.rx_data # <<>>
    <3>1. p2p' = [p2p EXCEPT !.rx_data = Tail(@)] /\ s = Tail(p2p.rx_data) BY <1>a, <1>d, <2>2, Zenon
    <3> QED BY <3>1
  <2> QED BY <2>1, <2>2
<1>b. /\ p2p'.rbq = p2p.rbq /\ p2p'.rpos = p2p.rpos /\ p2p'.wpos = p2p.wpos
      /\ p2p'.sema = p2p.sema /\ p2p'.rx_data = s /\ p2p'.in_isr = p2p.in_isr
  BY <1>e DEF P2pTypes
<1>f. \/ bridge'.pc = "tx" /\ bridge'.txbuf = <<>>
      \/ bridge'.pc = "xfer"
  BY <1>a, Zenon DEF P2pTypes
<1>1. P2pTypes'
  <2>1. bridge' \in [pc : {"down", "rx", "xfer", "start", "wait", "tx", "got"}, txbuf : Seq(Nat),
                     ch : Channels \cup {"none", "EBUSY"}]
    <3>1. <<>> \in Seq(Nat) OBVIOUS
    <3>2. CASE bridge' = [bridge EXCEPT !.pc = "tx", !.txbuf = <<>>] BY <3>1, <3>2, Zenon DEF P2pTypes
    <3>3. CASE bridge' = [bridge EXCEPT !.pc = "xfer"] BY <3>3, Zenon DEF P2pTypes
    <3> QED BY <1>a, <3>2, <3>3, Zenon
  <2>2. CASE p2p' = p2p BY <1>a, <2>1, <2>2, ZenonT(60) DEF P2pTypes
  <2>3. CASE p2p' = [p2p EXCEPT !.rx_data = s] BY <1>a, <2>1, <2>3, Zenon DEF P2pTypes
  <2> QED BY <1>e, <2>2, <2>3
<1>2. TimerToken' BY <1>b DEF TimerToken
<1>3. OneTransfer' /\ PacketHeld' /\ EndAnnounced' BY <1>a, <1>f, TransferFrame
<1>4. PacketsAnnounced'
  <2>1. CASE p2p.rx_data = <<>>
    <3>1. s = <<>> BY <1>d, <2>1, Zenon
    <3>2. Len(<<>>) = 0 OBVIOUS
    <3> QED BY <1>a, <1>b, <1>c, <3>1, <3>2 DEF PacketsAnnounced
  <2>2. CASE p2p.rx_data # <<>> BY <1>a, <1>b, <1>c, <1>d, <1>f, <2>2 DEF PacketsAnnounced
  <2> QED BY <2>1, <2>2
<1>5. BytesAnnounced' BY <1>f DEF BytesAnnounced
<1>6. Reading' /\ InOrder(p2p.rbq, p2p.rpos, p2p.wpos, Buf, Taken, passed.in, passed.out)'
  BY <1>a, <1>b, <1>f, BytesFrame, SMTT(30)
<1> QED BY <1>1, <1>2, <1>3, <1>4, <1>5, <1>6

\* dw_dmac_xfer takes a channel, or finds none.
LEMMA Step_xfer ==
  ASSUME Parts, dw_dmac_xfer
  PROVE  Parts'
<1> USE DEF Parts
<1>a. /\ bridge.pc = "xfer" /\ UNCHANGED <<p2p, giving, passed>> BY ZenonT(60) DEF dw_dmac_xfer, At
<1>b. \/ bridge' = [bridge EXCEPT !.pc = "wait", !.ch = "EBUSY"] /\ dma' = dma
      \/ \E ch \in Unused : /\ bridge' = [bridge EXCEPT !.pc = "start", !.ch = ch]
                            /\ dma' = [dma EXCEPT !.used[ch] = "uart"]
  BY ZenonT(60) DEF dw_dmac_xfer
<1>c. bridge'.pc \in {"wait", "start"} BY <1>b, Zenon DEF P2pTypes
<1>d. dma.tx_dma_sema = 0 /\ \A ch \in Channels : dma.used[ch] # "uart"
  BY <1>a DEF OneTransfer, PacketHeld, P2pTypes
<1>2. TimerToken' BY <1>a DEF TimerToken
<1>4. PacketsAnnounced' BY <1>a, <1>c DEF PacketsAnnounced
<1>5. BytesAnnounced' BY <1>c, ZenonT(60) DEF BytesAnnounced
<1>6. Reading' /\ InOrder(p2p.rbq, p2p.rpos, p2p.wpos, Buf, Taken, passed.in, passed.out)'
  BY <1>a, <1>c, BytesFrame
<1>7. CASE bridge' = [bridge EXCEPT !.pc = "wait", !.ch = "EBUSY"] /\ dma' = dma
  <2>1. bridge'.pc = "wait" /\ bridge'.ch = "EBUSY" BY <1>7 DEF P2pTypes
  <2>2. P2pTypes' BY <1>a, <1>7, Zenon DEF P2pTypes
  <2>3. OneTransfer' BY <1>7, <1>d, <2>1 DEF OneTransfer
  <2>4. PacketHeld' BY <1>7, <1>d DEF PacketHeld
  <2>5. EndAnnounced' BY <2>1 DEF EndAnnounced
  <2> QED BY <1>2, <1>4, <1>5, <1>6, <2>2, <2>3, <2>4, <2>5
<1>8. ASSUME NEW ch \in Unused, bridge' = [bridge EXCEPT !.pc = "start", !.ch = ch],
             dma' = [dma EXCEPT !.used[ch] = "uart"]
      PROVE  Parts'
  <2>1. bridge'.pc = "start" /\ bridge'.ch = ch /\ ch \in Channels /\ dma.used[ch] = "no"
    BY <1>8 DEF P2pTypes, Unused
  <2>2. /\ dma'.used = [dma.used EXCEPT ![ch] = "uart"] /\ dma'.runs = dma.runs /\ dma'.raw = dma.raw
        /\ dma'.tx_dma_sema = dma.tx_dma_sema /\ dma.used \in [Channels -> {"no", "uart", "other"}]
        /\ dma.runs \subseteq Channels /\ dma.raw \subseteq Channels
    BY <1>8 DEF P2pTypes
  <2>6. P2pTypes'
    <3>1. PICK u \in [Channels -> {"no", "uart", "other"}] : u = [dma.used EXCEPT ![ch] = "uart"]
      BY <2>1, <2>2
    <3>2. dma' = [dma EXCEPT !.used = u] BY <1>8, <3>1
    <3> QED BY <1>a, <1>8, <2>1, <3>2, Zenon DEF P2pTypes
  <2>7. ch \notin dma.runs \cup dma.raw BY <2>1 DEF OneTransfer
  <2>3. OneTransfer' BY <1>d, <2>1, <2>2, <2>7 DEF OneTransfer
  <2>4. PacketHeld' BY <1>d, <2>1, <2>2 DEF PacketHeld
  <2>5. EndAnnounced' BY <2>1 DEF EndAnnounced
  <2> QED BY <1>2, <1>4, <1>5, <1>6, <2>6, <2>3, <2>4, <2>5
<1> QED BY <1>b, <1>7, <1>8, ZenonT(60)

\* The channel starts.
LEMMA Step_start ==
  ASSUME Parts, StartXfer
  PROVE  Parts'
<1> USE DEF Parts
<1>a. /\ bridge.pc = "start" /\ UNCHANGED <<p2p, giving, passed>>
      /\ bridge' = [bridge EXCEPT !.pc = "wait"] /\ dma' = [dma EXCEPT !.runs = @ \cup {bridge.ch}]
  BY DEF StartXfer, At
<1>b. bridge'.pc = "wait" /\ bridge'.ch = bridge.ch BY <1>a DEF P2pTypes
<1>c. bridge.ch \in Channels /\ dma.used[bridge.ch] = "uart" /\ bridge.ch \notin dma.runs \cup dma.raw
  BY <1>a DEF OneTransfer
<1>d. dma'.used = dma.used /\ dma'.runs = dma.runs \cup {bridge.ch} /\ dma'.raw = dma.raw
      /\ dma'.tx_dma_sema = dma.tx_dma_sema /\ dma.runs \subseteq Channels
  BY <1>a DEF P2pTypes
<1>e. dma.tx_dma_sema = 0 BY <1>a DEF OneTransfer, P2pTypes
<1>1. P2pTypes'
  <2>1. PICK r \in SUBSET Channels : r = dma.runs \cup {bridge.ch} BY <1>c, <1>d
  <2>2. dma' = [dma EXCEPT !.runs = r] BY <1>a, <2>1
  <2> QED BY <1>a, <2>2, Zenon DEF P2pTypes
<1>2. TimerToken' BY <1>a DEF TimerToken
<1>3. OneTransfer' /\ PacketHeld' /\ EndAnnounced'
  <2>1. OneTransfer' BY <1>a, <1>b, <1>c, <1>d, <1>e DEF OneTransfer
  <2>2. PacketHeld' BY <1>a, <1>b, <1>d DEF PacketHeld
  <2>3. EndAnnounced' BY <1>b, <1>d DEF EndAnnounced
  <2> QED BY <2>1, <2>2, <2>3
<1>4. PacketsAnnounced' BY <1>a, <1>b DEF PacketsAnnounced
<1>5. BytesAnnounced' BY <1>b DEF BytesAnnounced
<1>6. Reading' /\ InOrder(p2p.rbq, p2p.rpos, p2p.wpos, Buf, Taken, passed.in, passed.out)'
  BY <1>a, <1>b, BytesFrame
<1> QED BY <1>1, <1>2, <1>3, <1>4, <1>5, <1>6

\* hguart_puts takes the token of the ended transfer.
LEMMA Step_puts ==
  ASSUME Parts, hguart_puts
  PROVE  Parts'
<1> USE DEF Parts
<1>a. /\ bridge.pc = "wait" /\ dma.tx_dma_sema > 0 /\ UNCHANGED <<p2p, giving, passed>>
      /\ bridge' = [bridge EXCEPT !.pc = "tx", !.txbuf = <<>>, !.ch = "none"]
      /\ dma' = [dma EXCEPT !.tx_dma_sema = @ - 1]
  BY DEF hguart_puts, At
<1>b. <<>> \in Seq(Nat) OBVIOUS
<1>c. bridge'.pc = "tx" /\ bridge'.txbuf = <<>> BY <1>a DEF P2pTypes
<1>d. \A ch \in Channels : dma.used[ch] # "uart" BY <1>a DEF OneTransfer
<1>e. PICK n \in Nat : n = dma.tx_dma_sema - 1 BY <1>a DEF P2pTypes
<1>f. /\ dma' = [dma EXCEPT !.tx_dma_sema = n] /\ dma'.used = dma.used /\ dma'.runs = dma.runs
      /\ dma'.raw = dma.raw /\ dma'.tx_dma_sema = n
  BY <1>a, <1>e DEF P2pTypes
<1>1. P2pTypes' BY <1>a, <1>b, <1>f, Zenon DEF P2pTypes
<1>2. TimerToken' BY <1>a DEF TimerToken
<1>3. OneTransfer' /\ PacketHeld' /\ EndAnnounced'
  <2>0. n = 0 BY <1>a, <1>e DEF OneTransfer, P2pTypes
  <2>1. OneTransfer' BY <1>c, <1>d, <1>f, <2>0 DEF OneTransfer
  <2>2. PacketHeld' BY <1>d, <1>f DEF PacketHeld
  <2>3. EndAnnounced' BY <1>c DEF EndAnnounced
  <2> QED BY <2>1, <2>2, <2>3
<1>4. PacketsAnnounced' BY <1>a, <1>c DEF PacketsAnnounced
<1>5. BytesAnnounced' BY <1>c DEF BytesAnnounced
<1>6. Reading' /\ InOrder(p2p.rbq, p2p.rpos, p2p.wpos, Buf, Taken, passed.in, passed.out)'
  BY <1>a, <1>c, BytesFrame, ZenonT(60)
<1> QED BY <1>1, <1>2, <1>3, <1>4, <1>5, <1>6

\* The task reads a byte of the ring,
LEMMA Step_tx_data ==
  ASSUME Parts, uart_p2p_tx_data
  PROVE  Parts'
<1> USE DEF Parts
<1>a. /\ bridge.pc = "tx" /\ Len(bridge.txbuf) < TXBUF /\ ~RB_EMPTY
      /\ bridge' = [bridge EXCEPT !.pc = "got", !.txbuf = Append(@, p2p.rbq[p2p.rpos])]
      /\ UNCHANGED <<p2p, dma, giving, passed>>
  BY DEF uart_p2p_tx_data, At
<1>b. PICK buf \in Seq(Nat), x \in Nat : buf = bridge.txbuf /\ x = p2p.rbq[p2p.rpos] BY Zenon DEF P2pTypes
<1>c. PICK n \in Nat : n = Len(buf) OBVIOUS
<1>d. PICK buf2 \in Seq(Nat) : buf2 = Append(buf, x)
  <2>1. Append(buf, x) \in Seq(Nat) OBVIOUS
  <2> QED BY <2>1, Zenon
<1>e. Len(buf2) = n + 1 /\ buf2[n + 1] = x /\ \A k \in 1 .. n : buf2[k] = buf[k] BY <1>c, <1>d
<1>f. bridge' = [bridge EXCEPT !.pc = "got", !.txbuf = buf2] BY <1>a, <1>b, <1>d
<1>g. bridge'.pc = "got" /\ bridge'.txbuf = buf2 BY <1>f DEF P2pTypes
<1>h. Buf = buf /\ Taken = n /\ Buf' = buf2 /\ Taken' = n
  BY <1>a, <1>b, <1>c, <1>e, <1>g DEF Buf, Taken
<1>1. P2pTypes' BY <1>a, <1>f, Zenon DEF P2pTypes
<1>2. TimerToken' BY <1>a DEF TimerToken
<1>3. OneTransfer' /\ PacketHeld' /\ EndAnnounced' BY <1>a, <1>g, TransferFrame
<1>4. PacketsAnnounced' BY <1>a, <1>g DEF PacketsAnnounced
<1>5. BytesAnnounced' BY <1>g DEF BytesAnnounced
<1>6. Reading' /\ InOrder(p2p.rbq, p2p.rpos, p2p.wpos, Buf, Taken, passed.in, passed.out)'
  <2>1. n < TXBUF BY <1>a, <1>b, <1>c
  <2>2. Reading' BY <1>a, <1>e, <1>g, <2>1, Sizes, SMTT(30) DEF Reading, RB_EMPTY
  <2>3. PICK r, w \in 0 .. RBSIZE - 1 : r = p2p.rpos /\ w = p2p.wpos BY DEF P2pTypes
  <2>4. Count(r, w) > 0 /\ Place(r, 0) = r
    BY <1>a, <2>3, CountIs, Sizes DEF Place
  <2>5. PICK o \in 0 .. BYTES - 1 : o = passed.out BY DEF P2pTypes
  <2>6. Count(r, w) \in Nat BY RingFacts
  <2>7. x = Serial(o + n + 0)
    <3>1. 0 \in 0 .. Count(r, w) - 1 BY <2>4, <2>6
    <3>2. p2p.rbq[Place(r, 0)] = Serial(o + n + 0) BY <1>h, <2>3, <2>5, <3>1 DEF InOrder
    <3> QED BY <1>b, <2>3, <2>4, <3>2
  <2>8. ASSUME NEW k \in 1 .. n + 1 PROVE buf2[k] = Serial(o + (k - 1))
    <3>1. CASE k = n + 1
      <4>1. o + (k - 1) = o + n + 0 BY <3>1
      <4> QED BY <1>e, <2>7, <3>1, <4>1
    <3>2. CASE k # n + 1
      <4>1. k \in 1 .. n BY <3>2
      <4>2. buf[k] = Serial(o + (k - 1)) BY <1>c, <1>h, <2>5, <4>1, ZenonT(60) DEF InOrder
      <4> QED BY <1>e, <4>1, <4>2
    <3> QED BY <3>1, <3>2
  <2>9. InOrder(p2p.rbq, p2p.rpos, p2p.wpos, Buf', Taken', passed.in, passed.out)
    BY <1>e, <1>h, <2>5, <2>8, ZenonT(60) DEF InOrder
  <2> QED BY <1>a, <2>2, <2>9
<1> QED BY <1>1, <1>2, <1>3, <1>4, <1>5, <1>6

\* moves the read position,
LEMMA Step_get ==
  ASSUME Parts, RB_GET
  PROVE  Parts'
<1> USE DEF Parts
<1>a. /\ bridge.pc = "got" /\ bridge' = [bridge EXCEPT !.pc = "tx"]
      /\ p2p' = [p2p EXCEPT !.rpos = RB_NPOS(@)] /\ UNCHANGED <<dma, giving, passed>>
  BY DEF RB_GET, At
<1>b. PICK r, w \in 0 .. RBSIZE - 1 : r = p2p.rpos /\ w = p2p.wpos BY DEF P2pTypes
<1>c. PICK s \in 0 .. RBSIZE - 1 : s = RB_NPOS(r) BY RingFacts
<1>d. p2p' = [p2p EXCEPT !.rpos = s] BY <1>a, <1>b, <1>c
<1>e. /\ p2p'.rbq = p2p.rbq /\ p2p'.rpos = s /\ p2p'.wpos = w
      /\ p2p'.sema = p2p.sema /\ p2p'.rx_data = p2p.rx_data /\ p2p'.timer = p2p.timer
      /\ p2p'.in_isr = p2p.in_isr
  BY <1>b, <1>d DEF P2pTypes
<1>f. bridge'.pc = "tx" /\ bridge'.txbuf = bridge.txbuf BY <1>a DEF P2pTypes
<1>1. P2pTypes' BY <1>a, <1>d, Zenon DEF P2pTypes
<1>2. TimerToken' BY <1>e DEF TimerToken
<1>3. OneTransfer' /\ PacketHeld' /\ EndAnnounced' BY <1>a, <1>f, TransferFrame
<1>4. PacketsAnnounced' BY <1>a, <1>e, <1>f DEF PacketsAnnounced
<1>5. BytesAnnounced' BY <1>f DEF BytesAnnounced
<1>6. Reading' /\ InOrder(p2p.rbq, p2p.rpos, p2p.wpos, Buf, Taken, passed.in, passed.out)'
  <2>1. Reading' BY <1>a, <1>f DEF Reading
  <2>2. PICK n \in Nat : n = Taken /\ Taken' = n + 1 /\ Buf' = Buf
    <3>1. Len(bridge.txbuf) \in Nat /\ Len(bridge.txbuf) > 0 BY <1>a DEF P2pTypes, Reading
    <3> QED BY <1>a, <1>f, <3>1 DEF Taken, Buf
  <2>3. PICK o \in 0 .. BYTES - 1 : o = passed.out BY DEF P2pTypes
  <2>4. PICK c \in 0 .. RBSIZE - 1 : c = Count(r, w) BY RingFacts
  <2>5. c > 0 BY <1>a, <1>b, <2>4, CountIs DEF Reading
  <2>6. Count(s, w) = c - 1 /\ \A i \in 0 .. c - 2 : Place(s, i) = Place(r, i + 1)
    BY <1>c, <2>4, <2>5, RingFacts
  <2>7. ASSUME NEW i \in 0 .. (c - 1) - 1 PROVE p2p.rbq[Place(s, i)] = Serial(o + (n + 1) + i)
    <3>1. i \in 0 .. c - 2 /\ i + 1 \in 0 .. c - 1 /\ o + (n + 1) + i = o + n + (i + 1) OBVIOUS
    <3>2. p2p.rbq[Place(r, i + 1)] = Serial(o + n + (i + 1)) BY <1>b, <2>2, <2>3, <2>4, <3>1 DEF InOrder
    <3> QED BY <2>6, <3>1, <3>2
  <2>8. passed.in = Serial(o + (n + 1) + (c - 1))
    <3>1. o + (n + 1) + (c - 1) = o + n + c OBVIOUS
    <3>2. passed.in = Serial(o + n + c) BY <1>b, <2>2, <2>3, <2>4, ZenonT(60) DEF InOrder
    <3> QED BY <3>1, <3>2
  <2>9. \A k \in 1 .. Len(Buf) : Buf[k] = Serial(o + (k - 1)) BY <2>3, ZenonT(60) DEF InOrder
  <2>10. InOrder(p2p.rbq, s, w, Buf, n + 1, passed.in, o) BY <2>6, <2>7, <2>8, <2>9 DEF InOrder
  <2>11. InOrder(p2p'.rbq, p2p'.rpos, p2p'.wpos, Buf', Taken', passed'.in, passed'.out)
    BY <1>a, <1>e, <2>2, <2>3, <2>10, ZenonT(60)
  <2> QED BY <2>1, <2>11
<1> QED BY <1>1, <1>2, <1>3, <1>4, <1>5, <1>6

\* and sends what it has read.
LEMMA Step_send ==
  ASSUME Parts, SendEther
  PROVE  Parts'
<1> USE DEF Parts
<1>a. /\ bridge.pc = "tx" /\ (Len(bridge.txbuf) = TXBUF \/ RB_EMPTY)
      /\ bridge' = [bridge EXCEPT !.pc = "down"]
      /\ passed' = [passed EXCEPT !.out = (@ + Len(bridge.txbuf)) % BYTES]
      /\ UNCHANGED <<p2p, dma, giving>>
  BY DEF SendEther, At
<1>b. PICK n \in 0 .. TXBUF : n = Len(bridge.txbuf) /\ n = Taken /\ Buf = bridge.txbuf
  BY <1>a, BufFacts DEF Buf, Taken
<1>c. bridge'.pc = "down" /\ bridge'.txbuf = bridge.txbuf BY <1>a DEF P2pTypes
<1>d. PICK o \in 0 .. BYTES - 1 : o = passed.out BY DEF P2pTypes
<1>e. PICK o2 \in 0 .. BYTES - 1 : o2 = Serial(o + n) /\ o2 = (o + n) % BYTES
  <2>1. n \in 0 .. BYTES BY Sizes
  <2>2. Serial(o + n) \in 0 .. BYTES - 1 BY Sizes DEF Serial
  <2> QED BY <2>1, <2>2, SerialIs
<1>f. passed' = [passed EXCEPT !.out = o2] BY <1>a, <1>b, <1>d, <1>e
<1>g. passed'.out = o2 /\ passed'.in = passed.in BY <1>f DEF P2pTypes
<1>1. P2pTypes' BY <1>a, <1>f, Zenon DEF P2pTypes
<1>2. TimerToken' BY <1>a DEF TimerToken
<1>3. OneTransfer' /\ PacketHeld' /\ EndAnnounced' BY <1>a, <1>c, TransferFrame
<1>4. PacketsAnnounced' BY <1>a, <1>c DEF PacketsAnnounced
<1>5. BytesAnnounced' BY <1>a, <1>c, ZenonT(60) DEF BytesAnnounced, RB_EMPTY
<1>6. Reading' /\ InOrder(p2p.rbq, p2p.rpos, p2p.wpos, Buf, Taken, passed.in, passed.out)'
  <2>1. Reading' BY <1>c DEF Reading
  <2>2. Len(<<>>) = 0 OBVIOUS
  <2>3. Buf' = <<>> /\ Taken' = 0 BY <1>c, <2>2 DEF Buf, Taken
  <2>4. PICK c \in 0 .. RBSIZE - 1 : c = Count(p2p.rpos, p2p.wpos) BY CountIs
  <2>5. \A i \in 0 .. c : Serial(o2 + 0 + i) = Serial(o + n + i) BY <1>e, Sizes DEF Serial
  <2>6. \A i \in 0 .. c - 1 : p2p.rbq[Place(p2p.rpos, i)] = Serial(o + n + i)
    BY <1>b, <1>d, <2>4, ZenonT(60) DEF InOrder
  <2>7. passed.in = Serial(o + n + c) BY <1>b, <1>d, <2>4 DEF InOrder
  <2>8. \A i \in 0 .. c - 1 : p2p.rbq[Place(p2p.rpos, i)] = Serial(o2 + 0 + i) BY <2>5, <2>6
  <2>9. passed.in = Serial(o2 + 0 + c) BY <2>5, <2>7
  <2>10. \A k \in 1 .. Len(<<>>) : <<>>[k] = Serial(o2 + (k - 1)) BY <2>2
  <2>11. InOrder(p2p.rbq, p2p.rpos, p2p.wpos, <<>>, 0, passed.in, o2)
    BY <2>4, <2>8, <2>9, <2>10 DEF InOrder
  <2>12. InOrder(p2p'.rbq, p2p'.rpos, p2p'.wpos, Buf', Taken', passed'.in, passed'.out)
    BY <1>a, <1>g, <2>3, <2>11, ZenonT(60)
  <2> QED BY <2>1, <2>12
<1> QED BY <1>1, <1>2, <1>3, <1>4, <1>5, <1>6

\* A transfer ends,
LEMMA Step_finish ==
  ASSUME Parts, NEW ch \in Channels, Finish(ch)
  PROVE  Parts'
<1> USE DEF Parts
<1>a. /\ ch \in dma.runs /\ dma' = [dma EXCEPT !.runs = @ \ {ch}, !.raw = @ \cup {ch}]
      /\ UNCHANGED <<p2p, bridge, giving, passed>>
  BY DEF Finish
<1>b. /\ dma'.used = dma.used /\ dma'.runs = dma.runs \ {ch} /\ dma'.raw = dma.raw \cup {ch}
      /\ dma'.tx_dma_sema = dma.tx_dma_sema /\ dma'.runs \cup dma'.raw = dma.runs \cup dma.raw
  BY <1>a DEF P2pTypes
<1>1. P2pTypes'
  <2>1. PICK r, s \in SUBSET Channels : r = dma.runs \ {ch} /\ s = dma.raw \cup {ch} BY Zenon DEF P2pTypes
  <2>2. dma' = [dma EXCEPT !.runs = r, !.raw = s] BY <1>a, <2>1
  <2> QED BY <1>a, <2>2, Zenon DEF P2pTypes
<1>2. TimerToken' BY <1>a DEF TimerToken
<1>3. OneTransfer' /\ PacketHeld' /\ EndAnnounced'
  <2>1. dma'.runs \cap dma'.raw = {} BY <1>a, <1>b DEF OneTransfer
  <2>2. OneTransfer' BY <1>a, <1>b, <2>1 DEF OneTransfer
  <2>3. PacketHeld' BY <1>a, <1>b DEF PacketHeld
  <2>4. EndAnnounced' BY <1>a, <1>b DEF EndAnnounced
  <2> QED BY <2>2, <2>3, <2>4
<1>4. PacketsAnnounced' BY <1>a DEF PacketsAnnounced
<1>5. BytesAnnounced' BY <1>a DEF BytesAnnounced, RB_EMPTY
<1>6. Reading' /\ InOrder(p2p.rbq, p2p.rpos, p2p.wpos, Buf, Taken, passed.in, passed.out)'
  BY <1>a, BytesFrame, ZenonT(60)
<1> QED BY <1>1, <1>2, <1>3, <1>4, <1>5, <1>6

\* and its interrupt gives the token and frees the channel.
LEMMA Step_dma_irq ==
  ASSUME Parts, dw_dmac_irq_handler
  PROVE  Parts'
<1> USE DEF Parts
<1>a. /\ dma' = [DmaHandlers(dma) EXCEPT !.raw = {}] /\ UNCHANGED <<p2p, bridge, giving, passed>>
  BY DEF dw_dmac_irq_handler
<1> DEFINE D == {ch \in dma.raw : dma.used[ch] = "uart"}
<1>b. PICK u \in [Channels -> {"no", "uart", "other"}] :
        \A ch \in Channels : u[ch] = IF ch \in dma.raw THEN "no" ELSE dma.used[ch]
  <2>1. [ch \in Channels |-> IF ch \in dma.raw THEN "no" ELSE dma.used[ch]]
          \in [Channels -> {"no", "uart", "other"}]
    BY DEF P2pTypes
  <2> QED BY <2>1, Zenon
<1>c. dma.raw \subseteq Channels /\ dma.runs \subseteq Channels /\ dma.tx_dma_sema \in {0, 1}
  BY DEF P2pTypes, OneTransfer
<1>d. IsFiniteSet(D) /\ Cardinality(D) \in Nat
  <2>1. IsFiniteSet(Channels) /\ D \subseteq Channels BY <1>c, UartP2pConstants
  <2> QED BY <2>1, FS_Subset, FS_CardinalityType, ZenonT(60)
<1>e. dma' = [dma EXCEPT !.used = u, !.tx_dma_sema = @ + Cardinality(D), !.raw = {}]
  <2>1. [ch \in Channels |-> IF ch \in dma.raw THEN "no" ELSE dma.used[ch]] = u BY <1>b
  <2> QED BY <1>a, <2>1, Zenon DEF DmaHandlers
<1>f. /\ dma'.used = u /\ dma'.runs = dma.runs /\ dma'.raw = {}
      /\ dma'.tx_dma_sema = dma.tx_dma_sema + Cardinality(D)
  BY <1>e DEF P2pTypes
<1>g. Cardinality(D) <= 1 /\ (D # {} => Cardinality(D) = 1) /\ (D = {} => Cardinality(D) = 0)
  <2>1. D = {} \/ D = {bridge.ch} BY <1>c DEF PacketHeld
  <2>2. Cardinality({}) = 0 BY FS_EmptySet
  <2>3. Cardinality({bridge.ch}) = 1 BY FS_Singleton, ZenonT(60)
  <2> HIDE DEF D
  <2> QED BY <2>1, <2>2, <2>3
<1>h. D # {} => /\ dma.tx_dma_sema = 0 /\ bridge.pc = "wait"
               /\ \A ch \in Channels : u[ch] # "uart"
  <2> HAVE D # {}
  <2>1. PICK d \in D : TRUE OBVIOUS
  <2>2. d \in dma.raw /\ dma.used[d] = "uart" /\ d \in Channels BY <1>c, <2>1, ZenonT(60)
  <2>3. bridge.pc \in {"start", "wait"} /\ bridge.ch = d BY <2>2, ZenonT(60) DEF PacketHeld
  <2>4. bridge.pc = "wait" BY <2>2, <2>3, ZenonT(60) DEF OneTransfer
  <2>5. dma.tx_dma_sema = 0 BY <1>c, <2>2 DEF OneTransfer
  <2>6. \A ch \in Channels : u[ch] # "uart" BY <1>b, <2>2, <2>3 DEF PacketHeld
  <2> QED BY <2>4, <2>5, <2>6
<1> HIDE DEF D
<1>1. P2pTypes'
  <2>1. PICK n \in Nat : n = dma.tx_dma_sema + Cardinality(D) BY <1>c, <1>d
  <2>2. dma' = [dma EXCEPT !.used = u, !.tx_dma_sema = n, !.raw = {}] BY <1>e, <2>1
  <2> QED BY <1>a, <2>2, Zenon DEF P2pTypes
<1>2. TimerToken' BY <1>a DEF TimerToken
<1>3. OneTransfer' /\ PacketHeld' /\ EndAnnounced'
  <2>1. \A ch \in Channels : u[ch] = "uart" => dma.used[ch] = "uart" BY <1>b
  <2>2. PacketHeld' BY <1>a, <1>f, <2>1, ZenonT(60) DEF PacketHeld
  <2>3. \A ch \in dma'.runs \cup dma'.raw : dma'.used[ch] # "no" BY <1>b, <1>c, <1>f DEF OneTransfer
  <2>4. bridge'.pc = "start" => /\ bridge'.ch \in Channels /\ dma'.used[bridge'.ch] = "uart"
                                /\ bridge'.ch \notin dma'.runs \cup dma'.raw
    BY <1>a, <1>b, <1>f, ZenonT(60) DEF OneTransfer
  <2>5. dma'.tx_dma_sema <= 1 BY <1>c, <1>d, <1>f, <1>g, <1>h
  <2>6. dma'.tx_dma_sema > 0 => bridge'.pc = "wait" /\ \A ch \in Channels : dma'.used[ch] # "uart"
    <3>1. CASE D # {} BY <1>a, <1>f, <1>h, <3>1
    <3>2. CASE D = {} BY <1>a, <1>c, <1>f, <1>g, <2>1, <3>2 DEF OneTransfer
    <3> QED BY <3>1, <3>2
  <2>7. bridge'.pc = "wait" => \/ bridge'.ch = "EBUSY"
                               \/ bridge'.ch \in dma'.runs \cup dma'.raw /\ dma'.used[bridge'.ch] = "uart"
                               \/ dma'.tx_dma_sema > 0
    <3>1. CASE D # {} BY <1>c, <1>f, <1>g, <3>1
    <3>2. CASE D = {}
      <4>1. \A ch \in dma.raw : dma.used[ch] # "uart" BY <3>2 DEF D
      <4>2. dma'.tx_dma_sema = dma.tx_dma_sema BY <1>c, <1>f, <1>g, <3>2
      <4>3. dma.runs \cap dma.raw = {} BY ZenonT(60) DEF OneTransfer
      <4> QED BY <1>a, <1>b, <1>c, <1>f, <4>1, <4>2, <4>3, ZenonT(60) DEF OneTransfer
    <3> QED BY <3>1, <3>2, ZenonT(60)
  <2>8. OneTransfer' BY <1>f, <2>3, <2>4, <2>5, <2>6, <2>7, ZenonT(60) DEF OneTransfer
  <2>9. EndAnnounced' BY <2>7 DEF EndAnnounced
  <2> QED BY <2>2, <2>8, <2>9
<1>4. PacketsAnnounced' BY <1>a DEF PacketsAnnounced
<1>5. BytesAnnounced' BY <1>a DEF BytesAnnounced, RB_EMPTY
<1>6. Reading' /\ InOrder(p2p.rbq, p2p.rpos, p2p.wpos, Buf, Taken, passed.in, passed.out)'
  BY <1>a, BytesFrame, ZenonT(60)
<1> QED BY <1>1, <1>2, <1>3, <1>4, <1>5, <1>6

\* Another device takes a channel.
LEMMA Step_other ==
  ASSUME Parts, OtherXfer
  PROVE  Parts'
<1> USE DEF Parts
<1>a. PICK ch \in Unused : dma' = [dma EXCEPT !.used[ch] = "other", !.runs = @ \cup {ch}]
  BY Zenon DEF OtherXfer
<1>u. UNCHANGED <<p2p, bridge, giving, passed>> BY DEF OtherXfer
<1>b. ch \in Channels /\ dma.used[ch] = "no" BY DEF Unused
<1>c. PICK u \in [Channels -> {"no", "uart", "other"}], r \in SUBSET Channels :
        u = [dma.used EXCEPT ![ch] = "other"] /\ r = dma.runs \cup {ch}
  BY <1>b, Zenon DEF P2pTypes
<1>d. dma' = [dma EXCEPT !.used = u, !.runs = r] BY <1>a, <1>c
<1>e. dma'.used = u /\ dma'.runs = r /\ dma'.raw = dma.raw /\ dma'.tx_dma_sema = dma.tx_dma_sema
  BY <1>d DEF P2pTypes
<1>f. u[ch] = "other" /\ \A c \in Channels : c # ch => u[c] = dma.used[c] BY <1>b, <1>c DEF P2pTypes
<1>g. dma.runs \subseteq Channels /\ dma.raw \subseteq Channels BY DEF P2pTypes
<1>h. \A c \in Channels : u[c] = "uart" <=> dma.used[c] = "uart" BY <1>b, <1>f
<1>1. P2pTypes' BY <1>u, <1>d, Zenon DEF P2pTypes
<1>2. TimerToken' BY <1>u DEF TimerToken
<1>3. OneTransfer' /\ PacketHeld' /\ EndAnnounced'
  <2>1. ch \notin dma.runs \cup dma.raw BY <1>b, ZenonT(60) DEF OneTransfer
  <2>2. bridge.pc = "start" => bridge.ch # ch BY <1>b, ZenonT(60) DEF OneTransfer
  <2>3. OneTransfer'
    <3>1. \A c \in dma'.runs \cup dma'.raw : dma'.used[c] # "no"
      BY <1>c, <1>e, <1>f, <1>g, ZenonT(60) DEF OneTransfer
    <3>2. dma'.runs \cap dma'.raw = {} BY <1>c, <1>e, <2>1 DEF OneTransfer
    <3>3. bridge'.pc = "start" => /\ bridge'.ch \in Channels /\ dma'.used[bridge'.ch] = "uart"
                                  /\ bridge'.ch \notin dma'.runs \cup dma'.raw
      BY <1>u, <1>c, <1>e, <1>h, <2>2, ZenonT(60) DEF OneTransfer
    <3>4. bridge'.pc = "wait" => \/ bridge'.ch = "EBUSY"
                                 \/ bridge'.ch \in dma'.runs \cup dma'.raw /\ dma'.used[bridge'.ch] = "uart"
                                 \/ dma'.tx_dma_sema > 0
      BY <1>u, <1>c, <1>e, <1>g, <1>h, ZenonT(60) DEF OneTransfer
    <3>5. /\ dma'.tx_dma_sema <= 1
          /\ dma'.tx_dma_sema > 0 => bridge'.pc = "wait" /\ \A c \in Channels : dma'.used[c] # "uart"
      BY <1>u, <1>e, <1>h, ZenonT(60) DEF OneTransfer
    <3> QED BY <3>1, <3>2, <3>3, <3>4, <3>5, ZenonT(60) DEF OneTransfer
  <2>4. PacketHeld' BY <1>u, <1>e, <1>h, ZenonT(60) DEF PacketHeld
  <2>5. EndAnnounced' BY <1>u, <1>c, <1>e DEF EndAnnounced
  <2> QED BY <2>3, <2>4, <2>5, ZenonT(60)
<1>4. PacketsAnnounced' BY <1>u, ZenonT(60) DEF PacketsAnnounced
<1>5. BytesAnnounced' BY <1>u, ZenonT(60) DEF BytesAnnounced, RB_EMPTY
<1>6. Reading' /\ InOrder(p2p.rbq, p2p.rpos, p2p.wpos, Buf, Taken, passed.in, passed.out)'
  BY <1>u, BytesFrame
<1> QED BY <1>1, <1>2, <1>3, <1>4, <1>5, <1>6, SMTT(30)

-----------------------------------------------------------------------------
\* The invariant holds at first,
LEMMA P2pStart == InitP2p => P2pInv
<1> HAVE InitP2p
<1>1. P2pTypes
  <2>1. [i \in 0 .. RBSIZE - 1 |-> 0] \in [0 .. RBSIZE - 1 -> Nat] /\ 0 \in 0 .. RBSIZE - 1
        /\ 0 \in 0 .. BYTES - 1
    BY Sizes
  <2>2. <<>> \in Seq({"skb"}) /\ <<>> \in Seq(Nat) OBVIOUS
  <2>3. [ch \in Channels |-> "no"] \in [Channels -> {"no", "uart", "other"}] OBVIOUS
  <2> QED BY <2>1, <2>2, <2>3, Zenon DEF InitP2p, P2pTypes
<1>2. /\ bridge.pc = "down" /\ p2p.rpos = 0 /\ p2p.wpos = 0 /\ p2p.in_isr = FALSE
      /\ dma.tx_dma_sema = 0 /\ dma.runs = {} /\ dma.raw = {} /\ passed.in = 0 /\ passed.out = 0
      /\ p2p.rx_data = <<>> /\ p2p.sema = 0 /\ giving = FALSE
  BY ZenonT(60) DEF InitP2p
<1>3. \A ch \in Channels : dma.used[ch] = "no" BY DEF InitP2p
<1>4. Reading BY <1>2 DEF Reading
<1>5. TimerToken BY <1>2, ZenonT(60) DEF TimerToken
<1>6. OneTransfer BY <1>2 DEF OneTransfer
<1>7. PacketHeld BY <1>3 DEF PacketHeld
<1>8. PacketsAnnounced
  <2>1. Len(<<>>) = 0 OBVIOUS
  <2> QED BY <1>2, <2>1 DEF PacketsAnnounced
<1>9. BytesAnnounced /\ EndAnnounced BY <1>2, ZenonT(60) DEF BytesAnnounced, EndAnnounced, RB_EMPTY
<1>10. InOrder(p2p.rbq, p2p.rpos, p2p.wpos, Buf, Taken, passed.in, passed.out)
  <2>1. Len(<<>>) = 0 OBVIOUS
  <2>2. Buf = <<>> /\ Taken = 0 BY <1>2, <2>1 DEF Buf, Taken
  <2>3. Count(0, 0) = 0 /\ Serial(0 + 0 + 0) = 0 BY Sizes DEF Count, Serial
  <2>4. \A k \in 1 .. Len(<<>>) : <<>>[k] = Serial(0 + (k - 1)) BY <2>1
  <2> QED BY <1>2, <2>2, <2>3, <2>4 DEF InOrder
<1>11. Parts BY <1>1, <1>4, <1>5, <1>6, <1>7, <1>8, <1>9, <1>10 DEF Parts
<1> QED BY <1>11, PartsOfInv

\* and every step keeps it.
LEMMA P2pStep == P2pInv /\ [NextP2p]_p2pvars => P2pInv'
<1> SUFFICES ASSUME Parts, [NextP2p]_p2pvars PROVE Parts'
  BY PartsOfInv, PartsOfInvNext, Zenon
<1>1. CASE UNCHANGED p2pvars
  <2>1. UNCHANGED <<p2p, bridge, dma, giving, passed>> BY <1>1, ZenonT(60) DEF p2pvars
  <2>2. P2pTypes' /\ TimerToken' /\ PacketsAnnounced' BY <2>1, ZenonT(60) DEF Parts, P2pTypes, TimerToken, PacketsAnnounced
  <2>3. OneTransfer' /\ PacketHeld' /\ EndAnnounced' BY <2>1, TransferFrame DEF Parts
  <2>4. BytesAnnounced' BY <2>1, ZenonT(60) DEF Parts, BytesAnnounced, RB_EMPTY
  <2>5. Reading' /\ InOrder(p2p.rbq, p2p.rpos, p2p.wpos, Buf, Taken, passed.in, passed.out)'
    BY <2>1, BytesFrame DEF Parts
  <2> QED BY <2>2, <2>3, <2>4, <2>5 DEF Parts
<1>2. CASE NextP2p
  BY <1>2, Step_irq, Step_timer_cb, Step_timer_end, Step_recv, Step_recv_up, Step_task,
     Step_rx_data, Step_xfer, Step_start, Step_puts, Step_tx_data, Step_get, Step_send,
     Step_finish, Step_dma_irq, Step_other, Zenon DEF NextP2p
<1> QED BY <1>1, <1>2

\* In every reachable state of the serial bridge, for any sizes of the ring, of the
\* packets and of the controller: the bytes that uart_p2p_irq_hdl put into the ring
\* leave it once and in order, although task and interrupt share it without a lock;
\* whatever waits in the ring, in the list or for a transfer has been announced;
\* and a packet is not freed before the controller has read it.
THEOREM BridgeAlwaysSound == SpecP2p => []BridgeSound
<1>1. P2pInv => BridgeSound BY DEF P2pInv
<1> QED BY <1>1, P2pStart, P2pStep, PTL DEF SpecP2p
==============================================================================
