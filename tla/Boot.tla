--------------------------------- MODULE Boot ---------------------------------
(***************************************************************************)
(* From the program file to the end of the emulation: the memory areas and *)
(* the relocation of the program (tossystem.c), the start of the processor *)
(* and the main loop (main.c), and the way from a TRAP to the function     *)
(* that implements the call (gemdos.c, bios.c, xbios.c).                   *)
(*                                                                         *)
(* The program is external: an instruction makes up to MaxAccesses reads   *)
(* and writes anywhere, or is a TRAP.                                      *)
(***************************************************************************)
EXTENDS MemoryMap

CONSTANTS
    Layout,         \* [name |-> [base, len]] of the areas, in any order
    Skip,           \* 0xfe, what a 1 in the relocation table adds
    Texts,          \* the contents of the program file's segments
    Tables,         \* relocation tables: the first offset and the bytes behind it
    Garbage,        \* what fresh memory of the host holds
    Vectors,        \* the TRAP vectors with a table of functions
    Functions,      \* the tables, by vector: sequences of [id, fnct]
    Behind,         \* what may lie behind a table in the host's memory
    Numbers,        \* bound: the numbers of calls programs use
    Sizes, Places, Values,  \* bound: sizes, addresses and values of accesses
    MaxAccesses,    \* bound: accesses of one instruction
    MaxInstructions \* bound: instructions executed

VARIABLES
    phase,      \* where init_tos_environment and main are
    table,      \* what is left of the relocation table
    adr,        \* the address the relocation has reached
    image,      \* history: user RAM as loaded
    reach,      \* history: where in the program the table has got to
    places,     \* history: the offsets the table has named so far
    behind,     \* what lies behind the tables of functions
    d0,         \* the result of the last call
    access,     \* history: the last access to memory
    call,       \* history: the last call
    left        \* accesses and instructions left

bootvars == <<phase, table, adr, image, reach, places, behind, d0, access, call, left>>
vars == <<head, ram, super, keepongoing, bootvars>>

TextBase == Layout["userram"].base

TESize == Layout["userram"].len

BasePage == Layout["basepage"].base

Flags == [staticmem0 |-> {"READ", "WRITE", "SUPERWRITE"},
          magicmem0  |-> {"SUPERREAD"},
          staticmem1 |-> {"SUPERREAD", "SUPERWRITE"},
          basepage   |-> {"READ", "WRITE"},
          userram    |-> {"READ", "WRITE"},
          superram   |-> {"SUPERREAD", "SUPERWRITE"}]

Area(name) == [base |-> Layout[name].base, len |-> Layout[name].len,
               flags |-> Flags[name], block |-> name]

(* The list once the six areas have been added, one by one.                *)
MemoryAreas ==
    LET after1 == add_ptr_memory_area(<<>>, Area("staticmem0"))
        after2 == add_ptr_memory_area(after1, Area("magicmem0"))
        after3 == add_ptr_memory_area(after2, Area("staticmem1"))
        after4 == add_ptr_memory_area(after3, Area("basepage"))
        after5 == add_ptr_memory_area(after4, Area("userram"))
    IN  add_ptr_memory_area(after5, Area("superram"))

None == [kind |-> "none"]

(* init_tos_environment up to the relocation.  Static data start as zero,  *)
(* so the processor looks as if it were in user mode.                      *)
Init == /\ head = MemoryAreas
        /\ \E g \in Garbage, text \in Texts :
             ram = [block \in Blocks |-> [i \in 0 .. Layout[block].len - 1 |->
                       IF block = "basepage" THEN 0
                       ELSE IF block = "userram" /\ i < Len(text) THEN text[i + 1] ELSE g]]
        /\ image = ram["userram"]
        /\ super = FALSE
        /\ keepongoing = FALSE
        /\ phase = "load"
        /\ table \in Tables
        /\ adr = 0 /\ reach = 0 /\ places = {}
        /\ behind \in Behind
        /\ d0 = 0
        /\ access = None
        /\ call = None
        /\ left = [accesses |-> 0, instructions |-> MaxInstructions]

-----------------------------------------------------------------------------
(* The relocation                                                          *)

SetMemory(mem) == ram' = mem.ram /\ keepongoing' = mem.keepongoing

(* A longword read and another one written in its place, by one call.      *)
Exchange(a, v) ==
    /\ SetMemory(WriteMemory(AfterRead(Memory, 4, a), 4, a, v))
    /\ access' = [kind |-> "exchange", n |-> 4, a |-> a, v |-> v,
                  old |-> ReadMemory(Memory, 4, a)]

(* m68k_write_memory_32(a, m68k_read_memory_32(a) + 0x900)                 *)
Patch(a) == Exchange(a, (ReadMemory(Memory, 4, a) + TextBase) % LongBase)

(* No table, or a first offset of zero: nothing is relocated.              *)
NoRelocation ==
    /\ phase = "load"
    /\ table.absflag \/ table.first = 0
    /\ phase' = "ready"
    /\ UNCHANGED <<head, ram, super, keepongoing, table, adr, image, reach, places, behind, d0, access, call, left>>

FirstPatch ==
    /\ phase = "load"
    /\ ~ table.absflag /\ table.first # 0
    /\ adr' = (TextBase + table.first) % LongBase
    /\ Patch(adr')
    /\ reach' = table.first /\ places' = {reach'}
    /\ phase' = "relocate"
    /\ UNCHANGED <<head, super, table, image, behind, d0, call, left>>

patchAtSkip(b) == TRUE                                          \* mutant

(* A byte of the table, other than the 1 that only moves on, is a place.   *)
IsPlace(b) == b # 1

Distance(b) == IF b = 1 THEN Skip ELSE b

(* The history, by the format of the table: a 1 is a distance and no       *)
(* place, every other byte is a distance to a place.                       *)
Follow(b) ==
    /\ reach' = reach + (IF b = 1 THEN Skip ELSE b)
    /\ places' = IF b = 1 THEN places ELSE places \cup {reach'}

RelocateByte ==
    /\ phase = "relocate"
    /\ LET b == Head(table.bytes)
       IN  /\ b # 0
           /\ adr' = (adr + Distance(b)) % LongBase
           /\ IF IsPlace(b) THEN Patch(adr')
              ELSE UNCHANGED <<ram, keepongoing, access>>
           /\ Follow(b)
    /\ table' = [table EXCEPT !.bytes = Tail(@)]
    /\ UNCHANGED <<head, super, phase, image, behind, d0, call, left>>

RelocationEnds ==
    /\ phase = "relocate"
    /\ Head(table.bytes) = 0
    /\ phase' = "ready"
    /\ UNCHANGED <<head, ram, super, keepongoing, table, adr, image, reach, places, behind, d0, access, call, left>>

-----------------------------------------------------------------------------
(* The start of the processor, and the main loop                           *)

(* The end of init_tos_environment.                                        *)
Ready ==
    /\ phase = "ready"
    /\ keepongoing' = TRUE
    /\ phase' = "start"
    /\ access' = None
    /\ UNCHANGED <<head, ram, super, table, adr, image, reach, places, behind, d0, call, left>>

(* m68k_pulse_reset goes to supervisor mode.                               *)
Reset ==
    /\ phase = "start"
    /\ super' = TRUE
    /\ phase' = "reset"
    /\ access' = None
    /\ UNCHANGED <<head, ram, keepongoing, table, adr, image, reach, places, behind, d0, call, left>>

(* main sets the registers, stores the base page's address where the user  *)
(* stack begins and only then leaves supervisor mode.                      *)
StartCpu ==
    /\ phase = "reset"
    /\ SetMemory(WriteMemory(Memory, 4, TESize, BasePage))
    /\ access' = [kind |-> "write", n |-> 4, a |-> TESize, v |-> BasePage]
    /\ phase' = "loop"
    /\ super' = FALSE
    /\ UNCHANGED <<head, table, adr, image, reach, places, behind, d0, call, left>>

loopsOn == TRUE                                                 \* mutant

GoesOn == keepongoing

(* while (keepongoing) m68k_execute(1): one instruction for each round.    *)
BeginInstruction ==
    /\ phase = "loop" /\ GoesOn
    /\ left.instructions > 0
    /\ left' = [accesses |-> MaxAccesses, instructions |-> left.instructions - 1]
    /\ phase' = "instruction"
    /\ access' = None
    /\ UNCHANGED <<head, ram, super, keepongoing, table, adr, image, reach, places, behind, d0, call>>

EndInstruction ==
    /\ phase = "instruction"
    /\ phase' = "loop"
    /\ access' = None
    /\ UNCHANGED <<head, ram, super, keepongoing, table, adr, image, reach, places, behind, d0, call, left>>

(* free_tos_environment, and the end of main.                              *)
Leave ==
    /\ phase = "loop" /\ ~ GoesOn
    /\ phase' = "left"
    /\ head' = <<>>
    /\ access' = None
    /\ UNCHANGED <<ram, super, keepongoing, table, adr, image, reach, places, behind, d0, call, left>>

-----------------------------------------------------------------------------
(* The program (external), and the calls it makes                          *)

(* One access of an instruction.  The read of magic memory by which        *)
(* Supexec returns belongs to module Supervisor.                           *)
ReadAccess(n, a) ==
    /\ phase = "instruction" /\ left.accesses > 0
    /\ ~ (super /\ Layout["magicmem0"].base + 1 \in a .. a + n - 1)
    /\ SetMemory(AfterRead(Memory, n, a))
    /\ access' = [kind |-> "read", n |-> n, a |-> a, v |-> ReadMemory(Memory, n, a)]
    /\ left' = [left EXCEPT !.accesses = @ - 1]
    /\ UNCHANGED <<head, super, phase, table, adr, image, reach, places, behind, d0, call>>

WriteAccess(n, a, v) ==
    /\ phase = "instruction" /\ left.accesses > 0
    /\ v < Bound(n)
    /\ SetMemory(WriteMemory(Memory, n, a, v))
    /\ access' = [kind |-> "write", n |-> n, a |-> a, v |-> v]
    /\ left' = [left EXCEPT !.accesses = @ - 1]
    /\ UNCHANGED <<head, super, phase, table, adr, image, reach, places, behind, d0, call>>

(* The entry a trap finds for a number: the first one with that number in  *)
(* the table or in the record behind it, which the loop looks at too.      *)
lastEntry(vector, fnct) ==                                      \* mutant
    LET entries == Append(Functions[vector], behind[vector])
        hits    == {i \in DOMAIN entries : entries[i].id = fnct}
    IN  IF hits = {} THEN "NULL" ELSE entries[Max(hits)].fnct

Entry(vector, fnct) ==
    LET entries == Append(Functions[vector], behind[vector])
        hits    == {i \in DOMAIN entries : entries[i].id = fnct}
    IN  IF hits = {} THEN "NULL" ELSE entries[Min(hits)].fnct

(* m68k_trap and gemdos_trap, bios_trap or xbios_trap: the only thing an   *)
(* instruction that traps does.  AES and VDI have no table.                *)
Called(vector, fnct, name) ==
    /\ phase = "instruction" /\ left.accesses = MaxAccesses
    /\ name = IF vector \in Vectors THEN Entry(vector, fnct) ELSE "NULL"
    /\ left' = [left EXCEPT !.accesses = 0]
    /\ call' = [kind |-> "call", vector |-> vector, fnct |-> fnct, name |-> name]
    /\ UNCHANGED <<head, table, adr, image, reach, places, behind>>

(* A call that no table knows, or that has no function.                    *)
NotImplemented(vector, fnct) ==
    /\ Called(vector, fnct, "NULL")
    /\ keepongoing' = FALSE
    /\ access' = None
    /\ UNCHANGED <<ram, super, phase, d0>>

(* The record behind the table is taken for an entry and jumped to.        *)
CallGarbage(vector, fnct) ==
    /\ Called(vector, fnct, "garbage")
    /\ phase' = "crashed"
    /\ access' = None
    /\ UNCHANGED <<ram, super, keepongoing, d0>>

GEMDOS_Pterm(vector, fnct) ==
    /\ Called(vector, fnct, "Pterm")
    /\ phase' = "exited"
    /\ access' = None
    /\ UNCHANGED <<ram, super, keepongoing, d0>>

(* Calls that MiNT has and TOS has not: EINVFN, here -32.                  *)
GEMDOS_Unknown(vector, fnct) ==
    /\ Called(vector, fnct, "Unknown")
    /\ d0' = -32
    /\ access' = None
    /\ UNCHANGED <<ram, super, keepongoing, phase>>

(* Cconout and Bconout: a character is printed.                            *)
Putchar(vector, fnct) ==
    /\ Called(vector, fnct, "Putchar")
    /\ d0' = 0
    /\ access' = None
    /\ UNCHANGED <<ram, super, keepongoing, phase>>

(* The number of characters in front of the first byte that reads as zero, *)
(* because it is one or because it may not be read.                        *)
StringLength(a) ==
    CHOOSE n \in 0 .. LongBase :
        /\ tos_read(Memory, (a + n) % LongBase) = 0
        /\ \A i \in 0 .. n - 1 : tos_read(Memory, (a + i) % LongBase) # 0

GEMDOS_Cconws(vector, fnct, a) ==
    /\ Called(vector, fnct, "Cconws")
    /\ d0' = StringLength(a)
    /\ LET last == (a + d0') % LongBase
       IN  /\ SetMemory(AfterRead(Memory, 1, last))
           /\ access' = [kind |-> "read", n |-> 1, a |-> last, v |-> tos_read(Memory, last)]
    /\ UNCHANGED <<super, phase>>

(* Setexc returns the old vector and sets the new one, whatever it is.     *)
BIOS_Setexc(vector, fnct, nm, vec) ==
    /\ Called(vector, fnct, "Setexc")
    /\ d0' = ReadMemory(Memory, 4, 4 * nm)
    /\ Exchange(4 * nm, vec)
    /\ UNCHANGED <<super, phase>>

(* Super and Supexec, seen from memory: the mode changes.                  *)
SwitchMode(vector, fnct, s) ==
    /\ Called(vector, fnct, "Super")
    /\ super' = s
    /\ d0' = 0
    /\ access' = None
    /\ UNCHANGED <<ram, keepongoing, phase>>

AnyCall(vector, fnct) ==
    \/ NotImplemented(vector, fnct)
    \/ CallGarbage(vector, fnct)
    \/ GEMDOS_Pterm(vector, fnct)
    \/ GEMDOS_Unknown(vector, fnct)
    \/ Putchar(vector, fnct)
    \/ \E a \in Places : GEMDOS_Cconws(vector, fnct, a)
    \/ \E nm \in {0, 1}, v \in Values : BIOS_Setexc(vector, fnct, nm, v)
    \/ \E s \in BOOLEAN : SwitchMode(vector, fnct, s)

MainStep == \/ NoRelocation \/ FirstPatch \/ RelocateByte \/ RelocationEnds
            \/ Ready \/ Reset \/ StartCpu
            \/ BeginInstruction \/ EndInstruction \/ Leave

Next == \/ MainStep
        \/ \E n \in Sizes, a \in Places :
             \/ ReadAccess(n, a)
             \/ \E v \in Values : WriteAccess(n, a, v)
        \/ \E vector \in Vectors \cup {34}, fnct \in Numbers : AnyCall(vector, fnct)

(* tosemu is one thread: it goes on as long as it has something to do, and *)
(* an instruction ends after at most MaxAccesses accesses.                 *)
Spec == Init /\ [][Next]_vars /\ WF_vars(MainStep)

-----------------------------------------------------------------------------
(* Properties                                                              *)

(* The areas are laid out without overlap, so that the order in which they *)
(* are added does not matter.                                              *)
ASSUME LayoutAssumption ==
    /\ Blocks = DOMAIN Flags
    /\ Magic = "magicmem0"
    /\ Layout \in [Blocks -> [base : Nat, len : Nat]]
    /\ \A b, c \in Blocks : b # c =>
          \/ Layout[b].base + Layout[b].len <= Layout[c].base
          \/ Layout[c].base + Layout[c].len <= Layout[b].base
    /\ \A b \in Blocks : Layout[b].base + Layout[b].len < LongBase

(* A program file: bytes, and a table that ends with a zero.               *)
ASSUME ProgramAssumption ==
    /\ Garbage \subseteq Byte
    /\ \A text \in Texts : text \in Seq(Byte)
    /\ Tables \subseteq [absflag : BOOLEAN, first : 0 .. LongBase - 1,
                         bytes : Seq(0 .. LongBase - 1)]
    /\ \A t \in Tables : \E i \in DOMAIN t.bytes : t.bytes[i] = 0
    /\ Skip \in Nat \ {0}

Entries == [id : Nat, fnct : STRING]

ASSUME CallAssumption ==
    /\ Vectors \subseteq Nat
    /\ Functions \in [Vectors -> Seq(Entries)]
    /\ Behind \subseteq [Vectors -> Entries]

ASSUME AccessAssumption ==
    /\ Sizes \subseteq {1, 2, 4}
    /\ Places \subseteq 0 .. LongBase - 1
    /\ Values \subseteq 0 .. LongBase - 1
    /\ MaxAccesses \in Nat /\ MaxInstructions \in Nat

(* The places lie in user RAM and do not overlap.                          *)
SaneTable ==
    /\ \A o \in places : o + 4 <= TESize
    /\ \A o, p \in places : o # p => o + 4 <= p \/ p + 4 <= o

LongAt(bytes, o) ==
    ((bytes[o] * ByteBase + bytes[o + 1]) * ByteBase + bytes[o + 2]) * ByteBase + bytes[o + 3]

(* When relocation is done, TextBase has been added once to each longword  *)
(* the table names, and nothing else of the program has changed            *)
(* (tossystem.c 187-220).                                                  *)
Relocated ==
    phase \in {"ready", "start", "reset"} /\ SaneTable =>
        /\ \A o \in places :
              LongAt(ram["userram"], o) = (LongAt(image, o) + TextBase) % LongBase
        /\ \A o \in DOMAIN image :
              (\A p \in places : o \notin p .. p + 3) => ram["userram"][o] = image[o]

(* What has been written without a refusal, and may be read, is read back  *)
(* as it was written, whatever the size of the access and wherever the     *)
(* areas meet: both take a number apart in the same order (memory.c).      *)
ReadsBack ==
    access.kind = "write" =>
        ((\A i \in 0 .. access.n - 1 : \A right \in {"READ", "WRITE"} :
             Allowed(right, super, (access.a + i) % LongBase))
         => ReadMemory(Memory, access.n, access.a) = access.v)

(* A call whose number a table lists reaches the function listed first,    *)
(* whatever lies behind the table; a number that neither the table nor the *)
(* memory behind it holds ends the emulation (gemdos.c, bios.c, xbios.c).  *)
CallsReachTheirFunction ==
    [][(call' # call /\ call'.vector \in Vectors) =>
        LET entries == Functions[call'.vector]
            listed  == {i \in DOMAIN entries : entries[i].id = call'.fnct}
        IN  IF listed # {}
            THEN \E i \in listed : /\ call'.name = entries[i].fnct
                                   /\ \A j \in listed : i <= j
            ELSE call'.fnct = behind[call'.vector].id \/ ~ keepongoing']_vars

(* Once an access or a call has been refused the emulation comes to its    *)
(* end: the instruction is finished, and main leaves its loop.             *)
HaltEnds ==
    (phase \in {"loop", "instruction"} /\ ~ keepongoing)
        ~> phase \in {"left", "exited", "crashed"}

(* The list of areas behaves as one array of bytes: an access reads and    *)
(* writes the bytes it names, those it may not use read as zero and are    *)
(* left alone, every other byte of it takes part, and one refused byte is  *)
(* enough to stop the emulation.                                           *)
Span(name) == Layout[name].base .. Layout[name].base + Layout[name].len - 1

Mapped == {a \in 0 .. LongBase - 1 : \E name \in Blocks : a \in Span(name)}

\* the area an address lies in
Holder == [a \in Mapped |-> CHOOSE name \in Blocks : a \in Span(name)]

\* magic memory is a function of the address
Content(a) ==
    LET name == Holder[a]
        offset == a - Layout[name].base
    IN  IF name = Magic THEN offset % ByteBase ELSE ram[name][offset]

RegionFlags(a) == Flags[Holder[a]]

Flat == INSTANCE FlatMemory WITH
            Address <- Mapped,
            Rights  <- RegionFlags,
            bytes   <- [a \in Mapped |-> Content(a)],
            run     <- keepongoing,
            request <- access

ImplementsFlatMemory == Flat!FlatSpec
=============================================================================
