-------------------------------- MODULE SpiNor ---------------------------------
(***************************************************************************)
(* The serial flash driver (spi_nor.c, spi_nor_bus.c in standard mode):    *)
(* tasks open it under its lock, write, erase and close. The chip is       *)
(* modelled from its use: programming can only clear bits, and a program   *)
(* instruction that runs past the end of a page goes on at its start. A    *)
(* cell stands for a byte and a buffer is a sequence of 0 (bits to clear)  *)
(* and 1 (nothing to clear).                                               *)
(***************************************************************************)
EXTENDS Integers, Sequences

CONSTANTS Tasks, NoTask,
          FlashSize, page_size, sector_size, block_size,
          Buffers         \* what is written

ASSUME SpiNorConstants ==
  /\ {FlashSize, page_size, sector_size, block_size} \subseteq Nat \ {0}
  /\ FlashSize % page_size = 0 /\ FlashSize % sector_size = 0 /\ FlashSize % block_size = 0
  /\ NoTask \notin Tasks /\ Buffers \subseteq Seq({0, 1})

VARIABLES cells,          \* the cells of the chip that are not erased
          lock,           \* the holder of flash->lock
          job,            \* the rest of the call to spi_nor_write: addr and buf
          written         \* the cells that the callers have written

norvars == <<cells, lock, job, written>>

Cells == 0 .. FlashSize - 1
Idle == [addr |-> 0, buf |-> <<>>]

\* The cells of buf, written at addr, with something to clear.
Zeros(buf) == {k \in DOMAIN buf : buf[k] = 0}
Target(addr, buf) == {addr + k - 1 : k \in Zeros(buf)}

-----------------------------------------------------------------------------
\* write enable, the instruction, the wait until the chip is no longer busy: the
\* chip counts only the low bits of the address up.
page_program(addr, buf) ==
  LET page == addr - (addr % page_size)
  IN cells' = cells \cup {page + ((addr + k - 1) % page_size) : k \in Zeros(buf)}

\* spi_open may fail: the lock is given back at once.
spi_nor_open ==
  \E t \in Tasks, ok \in BOOLEAN :
    /\ lock = NoTask
    /\ lock' = IF ok THEN t ELSE NoTask
    /\ UNCHANGED <<cells, job, written>>

spi_nor_close ==
  /\ lock # NoTask /\ job = Idle
  /\ lock' = NoTask
  /\ UNCHANGED <<cells, job, written>>

spi_nor_write ==
  \E addr \in Cells, buf \in Buffers :
    /\ lock # NoTask /\ job = Idle /\ addr + Len(buf) <= FlashSize
    /\ job' = [addr |-> addr, buf |-> buf]
    /\ written' = written \cup Target(addr, buf)
    /\ UNCHANGED <<cells, lock>>

Chunk_NoHead(addr, len) == IF len > page_size THEN page_size ELSE len

\* How much of len bytes for addr is programmed next: up to the end of the page the
\* write starts in, whole pages, and what is left.
Chunk(addr, len) ==
  LET remain_size == IF addr % page_size = 0 THEN 0 ELSE page_size - (addr % page_size)
  IN IF remain_size # 0 /\ len > remain_size THEN remain_size
     ELSE IF len > page_size THEN page_size
     ELSE len

Program ==
  LET n == Chunk(job.addr, Len(job.buf))
  IN /\ job # Idle
     /\ page_program(job.addr, SubSeq(job.buf, 1, n))
     /\ job' = IF n = Len(job.buf) THEN Idle
               ELSE [addr |-> job.addr + n, buf |-> SubSeq(job.buf, n + 1, Len(job.buf))]
     /\ UNCHANGED <<lock, written>>

\* The chip ignores the low bits of the address of what it erases.
Erase(size) ==
  \E addr \in Cells :
    LET erased == {a \in Cells : a \div size = addr \div size}
    IN /\ lock # NoTask /\ job = Idle
       /\ cells' = cells \ erased
       /\ written' = written \ erased
       /\ UNCHANGED <<lock, job>>

spi_nor_sector_erase == Erase(sector_size)
spi_nor_block_erase == Erase(block_size)
spi_nor_chip_erase == Erase(FlashSize)

InitNor ==
  /\ cells = {} /\ written = {}
  /\ lock = NoTask /\ job = Idle

NextNor ==
  \/ spi_nor_open \/ spi_nor_close \/ spi_nor_write \/ Program
  \/ spi_nor_sector_erase \/ spi_nor_block_erase \/ spi_nor_chip_erase

SpecNor == InitNor /\ [][NextNor]_norvars

-----------------------------------------------------------------------------
\* Whatever the address and the length, the instructions of spi_nor_write clear
\* exactly the cells of its buffer: what has been programmed and what is still to
\* be make what was asked for, and no cell of another page or place is touched.
WritesExact == cells \cup Target(job.addr, job.buf) = written
===============================================================================
