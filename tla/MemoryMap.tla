------------------------------ MODULE MemoryMap ------------------------------
(***************************************************************************)
(* The memory of the emulated machine (memory.c): a list of areas, each a  *)
(* block of the host's memory with flags that say who may use it, and the  *)
(* reads and writes Musashi makes, which are taken apart into bytes.       *)
(* State changing operators take the state of the memory as a record       *)
(* [ram, keepongoing] and yield the one behind.                            *)
(***************************************************************************)
EXTENDS Integers, Sequences, FiniteSetsExt

CONSTANTS
    ByteBase,   \* the number of values of a byte, 256
    Blocks,     \* names of the blocks of host memory that hold areas
    Magic       \* the block of magic memory, which is a function

ASSUME MemoryAssumption ==
    /\ ByteBase \in Nat \ {0, 1}
    /\ Magic \in Blocks

VARIABLES
    head,       \* the areas, the one added last first
    ram,        \* the contents of each block, by offset
    super,      \* the S bit of the processor
    keepongoing \* cleared by halt_execution

Byte == 0 .. ByteBase - 1

LongBase == ByteBase * ByteBase * ByteBase * ByteBase

\* numbers of n bytes are below it
Bound(n) == CASE n = 1 -> ByteBase [] n = 2 -> ByteBase * ByteBase [] n = 4 -> LongBase

Memory == [ram |-> ram, keepongoing |-> keepongoing]

halt_execution(mem) == [mem EXCEPT !.keepongoing = FALSE]

(* The areas added one by one; nothing keeps them from overlapping.        *)
add_ptr_memory_area(list, area) == <<area>> \o list

(* The index in the list of the area that answers for an address, 0 if     *)
(* there is none.  The first match in the list wins, the sum wraps.        *)
find_memarea(list, a) ==
    LET hits == {i \in DOMAIN list :
                    a >= list[i].base /\ a < (list[i].base + list[i].len) % LongBase}
    IN  IF hits = {} THEN 0 ELSE Min(hits)

(* The flags that let the mode s do what right says.                       *)
Mask(right, s) ==
    IF s THEN {right, [READ |-> "SUPERREAD", WRITE |-> "SUPERWRITE"][right]} ELSE {right}

Allowed(right, s, a) ==
    LET i == find_memarea(head, a)
    IN  i # 0 /\ head[i].flags \cap Mask(right, s) # {}

(* The byte the host keeps for an address.                                 *)
Cell(a) == LET area == head[find_memarea(head, a)] IN <<area.block, a - area.base>>

(* magic_xbios_supexec_read answers with the two bytes of a NOP; what else *)
(* it does is the subject of module Supervisor.                            *)
CellValue(mem, a) ==
    IF Cell(a)[1] = Magic THEN Cell(a)[2] % ByteBase ELSE mem.ram[Cell(a)[1]][Cell(a)[2]]

tos_read(mem, a) == IF Allowed("READ", super, a) THEN CellValue(mem, a) ELSE 0

AfterRead(mem, n, a) ==
    IF \A i \in 0 .. n - 1 : Allowed("READ", super, (a + i) % LongBase)
    THEN mem ELSE halt_execution(mem)

(* m68k_read_memory_8, _16 and _32: the first byte is the highest.         *)
ReadMemory(mem, n, a) ==
    LET byte(i) == tos_read(mem, (a + i) % LongBase)
    IN  CASE n = 1 -> byte(0)
          [] n = 2 -> byte(0) * ByteBase + byte(1)
          [] n = 4 -> ((byte(0) * ByteBase + byte(1)) * ByteBase + byte(2)) * ByteBase + byte(3)

(* A byte of the host's memory changed.                                    *)
Stored(blocks, cell, byte) ==
    [blocks EXCEPT ![cell[1]] = [@ EXCEPT ![cell[2]] = byte]]

tos_write(mem, a, byte) ==
    IF Allowed("WRITE", super, a) THEN [mem EXCEPT !.ram = Stored(@, Cell(a), byte)]
    ELSE halt_execution(mem)

(* The byte of a number with k bytes below it, by value >> 8, k times.     *)
Shifted(v, k) ==
    CASE k = 0 -> v
      [] k = 1 -> v \div ByteBase
      [] k = 2 -> (v \div ByteBase) \div ByteBase
      [] k = 3 -> ((v \div ByteBase) \div ByteBase) \div ByteBase

lowByteFirst(mem, n, a, v, k) ==                                \* mutant
    tos_write(mem, (a + k) % LongBase, Shifted(v, k) % ByteBase)

refusalEndsWrite(mem, n, a, v, k) ==                            \* mutant
    IF ~ mem.keepongoing THEN mem
    ELSE tos_write(mem, (a + n - 1 - k) % LongBase, Shifted(v, k) % ByteBase)

(* One round of the loop: k bytes have been written before.                *)
WriteByte(mem, n, a, v, k) ==
    tos_write(mem, (a + n - 1 - k) % LongBase, Shifted(v, k) % ByteBase)

(* m68k_write_memory_8, _16 and _32: the lowest byte, at the highest       *)
(* address, is written first, and a refused byte does not stop the rest.   *)
WriteMemory(mem, n, a, v) ==
    LET written1 == WriteByte(mem, n, a, v, 0)
        written2 == WriteByte(written1, n, a, v, 1)
        written3 == WriteByte(written2, n, a, v, 2)
    IN  CASE n = 1 -> written1
          [] n = 2 -> written2
          [] n = 4 -> WriteByte(written3, n, a, v, 3)
=============================================================================
