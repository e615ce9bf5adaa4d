# tosemu in TLA+

tosemu runs Atari ST (TOS) programs on a POSIX host: the Musashi core executes the 68000 code, and the
traps by which a TOS program calls its operating system (GEMDOS, BIOS, XBIOS) are answered in C on the host.
This directory holds TLA+ models of that C code, TLC configurations that check them on small instances, and
proofs of the most important facts for every instance.

## 1. Inventory

The emulator is one process and one thread. What makes it hard is not parallel threads but *long sequences of
calls made by a program nobody has seen* on state that lives in C statics and is never validated, wrap-around
32-bit arithmetic, callbacks out of the CPU core in the middle of an instruction, state kept twice (in the
emulator and in the host: FILE streams, file descriptors, the terminal), and a process that may end at any
point.

| Component | State | Operations | Interacts with | What makes it correct |
|---|---|---|---|---|
| GEMDOS memory (`gemdosmem.c`) | `mem_list`, `mem_allocatable_top` | Malloc (with size query), Mshrink, Mfree, init, free | arguments peeked off the user stack | areas sorted, disjoint, inside managed memory; the query answers what Malloc grants; freed space comes back |
| CPU helpers, XBIOS Supexec, GEMDOS Super (`cpu.c`, `xbios.c`, `gemdos.c`) | S bit, banked stack pointers, one saved register set | Supexec, the read at the magic address 0x200 by which it returns, Super, push/pop/peek | Musashi's trap and memory callbacks | a callback runs once, in supervisor mode, and the caller goes on behind its trap with its own registers and mode |
| GEMDOS files (`gemdosfile.c`) | the table `handles[10]`, host FILE streams with buffers, host descriptors | Fcreate, Fopen, Fclose, Fread, Fwrite, Fseek, Fdatime, Fdelete, Fattrib, Dcreate, Dsetpath, ... | the host's stdio and file system | a handle names one open stream; streams are not lost; data written are read back where expected |
| GEMDOS searches (`gemdosfile.c`) | `dta_addr`, list of glob results, ids and indices kept in the program's memory (DTA) | Fsetdta, Fgetdta, Fsfirst, Fsnext | the program's memory | Fsnext goes on with the search its DTA began, each match once |
| Memory map (`memory.c`) | list of areas with access flags | add, reset, find, read/write of 8/16/32 bits, translation to host pointers | Musashi's memory callbacks, halt | access rules; an access is done whole or stops the program |
| Console (`gemdoscon.c`, `bios.c`, `utils.c`) | terminal mode, stdin's stdio buffer and the kernel's queue | Cconin, Crawio, Cconis, Cconrs, Bconin, Bconstat, ... | select(2) and stdio on the same descriptor | input that is there is reported and read once, in order; the terminal mode is restored |
| Loader and main loop (`tossystem.c`, `main.c`) | `keepongoing`, base page, memory map | init, relocation, trap dispatch, halt, free | all of the above | relocation patches the places the table names; a halt stops the program |
| Trap tables (`gemdos.c`, `bios.c`, `xbios.c`) | constant tables | look-up by number | the handlers | a known number reaches its handler, an unknown one is refused |
| Musashi (`Musashi/m68k_in.c`, `m68kcpu.h`, `m68kcpu.c`) | the 68000's registers, status register, both stack pointers | one handler per instruction and addressing mode, exceptions | memory and trap callbacks | each instruction changes what it names and nothing else, sets the flags the next one tests, and takes all its words; what an exception saves is enough to return |
| Tests, build, m68kmake, disassembler | - | - | - | not modelled |

## 2. Plan

In this order, the most state and the most delicate invariants first. "done" marks what is on disk.

| # | Modules | Abstract specification | Runs | Theorems | |
|---|---|---|---|---|---|
| 1 | `GemdosMem`, `MCGemdosMem`, `GemdosMemProofs` | `Arena`: disjoint regions of managed memory | `mem_*` | type, well-formedness, stability, exact query, freed space, refinement of `Arena` | done |
| 2 | `Supervisor`, `SupervisorProofs`, `MCSupervisor` | - (history of calls) | `sup_user` | `TypeOK`, both invariants, `SupexecReturns`, `RtsReachesMagic` | done |
| 3 | `ByteFiles`, `GemdosFile`, `MCGemdosFile`, `GemdosFileProofs` | `OpenFiles`: handle = file, mode, position | `file_*` | type, ownership of streams, leaks, refinement of `OpenFiles` | done |
| 4 | `Dta`, `MCDta`, `DtaProofs` | `Searches`: each DTA delivers what its Fsfirst found | `dta` | type, refinement of `Searches` | done |
| 5 | `Console`, `ConsoleProofs`, `MCConsole` | `Keyboard`: characters in order and once, a poll that says yes is true | `console` | `TypeOK`, both invariants, the refinement | done |
| 6 | `MemoryMap`, `Boot`, `BootProofs`, `MCBoot`: areas, relocation, start, main loop, trap tables | `FlatMemory`: one array of bytes with rights | `boot` | types, `Relocated`, `ReadsBack`, `CallsReachTheirFunction`, refinement of `FlatMemory` | done |
| 7 | `Adder`, `Decimal`, `Shifter`, `Multiplier`, `Arithmetic`, `ArithmeticProofs`, `MCArithmetic` | numbers | `arithmetic` | exactness of sums and differences, `BranchesDecide`, `MultiPrecision`, `DivisionRebuilds`, `FormsAgree`, `OneBitMore` | done |
| 8 | `Machine`, `Instructions`, `Transfers`, `Cpu`, `CpuProofs`, `MCCpu` | sequences of instructions that must amount to the same | `cpu` | `TypeOK`, `Footprint`, `FlagsTell`, `ExceptionsSave`, `ModeIsKept`, `Sequential` | done |
| 9 | Paths and directories | - | - | - | left out, see section 7 |

Modules to be proved about use no RECURSIVE operator; parameters are CONSTANTS with named assumptions. Runs whose
only purpose was to show a divergence that is easy to see in the source have given way to the runs `boot`,
`arithmetic` and `cpu`; section 6 describes what they showed.

## 3. Modules

### GemdosMem (`gemdosmem.c`)

The linked list `mem_list` is a sequence of records `[base, len]` in list order; `mem_allocatable_top` is a
definition, as nothing changes it after `gemdos_mem_init`. `uint32_t` is `0 .. WordSize - 1`, and `Plus` and
`Minus` wrap. `Malloc` branches as the code does: the query for -1 (`MallocQuery`), the first gap that is
strictly larger than the request (`MallocGrant`: the new area is inserted behind the i-th one) and the refusal.
The two loops of the C function are the operators `Gaps`, `GapLen`, `Fits`, `FirstFit`, `LargestGap`: there is
one gap behind each area, and one behind the base page only when the list is empty. `Mshrink` and `Mfree` act on
the first area with the given base, or return `GEMDOS_EIMBA`. `gemdos_mem_free` empties the list when the process
has ended. `d0` is what the call returned.

There are two specifications. `Spec` starts with the area `gemdos_mem_init` makes, in which
`mem_allocatable_top` lies *below* the end of that area, so the gap at its end wraps. `TrimmedSpec` starts right
behind the first call any TOS program makes, an `Mshrink` of that area to a size inside managed memory.

`Arena` promises disjoint regions of managed memory, with no list and no arithmetic that wraps. The mapping
drops areas of length zero: `Malloc(0)` makes one, and so can `Mshrink`; two areas can then have one base.

### Supervisor (`cpu.c`, `xbios.c`, `gemdos.c`, `main.c`)

The machine `m` has the S bit, a stack pointer per mode (Musashi exchanges them when S changes), the PC, the
registers D3-D7/A3-A6 as one value, D0, and the stacks' memory; a slot holds a longword or a trap's arguments.
`push_u32`, `pop_u32`, `enable_supervisor_mode`, `disable_supervisor_mode`, `XBIOS_Supexec`, `GEMDOS_Super` and
`magic_xbios_supexec_read` are functions from machine to machine named as in C. `saved` is the one set of
registers in `xbios.c`. The steps are: the program calls `Supexec`, its subroutine computes and executes RTS, the
PC reaches the magic address, and the read of its second byte (by the fetch, or with `-v` by the disassembler in
`cpu_instr_callback`) pops the return address, leaves supervisor mode and restores the registers; the program then
drops the trap's arguments (`Resume`). `SuperEnter` and `SuperLeave` are Super(0) and Super(old). `calls` and
`back` are history variables. The program is external: any program that balances its stack.

### GemdosFile (`gemdosfile.c`, handles)

`handles` is the C table (stream or `NULL`, and the flag `HANDLE_ALLOCATED`); `host` holds the open FILE streams
by descriptor, each with file, mode, the descriptor's offset, the bytes read ahead, the bytes not written yet, and
the error flag; `content` is the host's file system. The host part is external and does what glibc and the
kernel do: lowest free descriptor, reading ahead and writing behind by buffers, an error flag set by use in the
wrong direction and never cleared. `Fcreate`/`Fopen` open the stream, and empty the file, before they look for a
handle, as the code does. `Fclose` clears the flag and keeps the pointer. Handles 2 to 5 have the flag and no
stream: using one ends the emulator (`NullStream`). `Fseek` gives the *handle* to `lseek`: it moves the stream
whose *descriptor* is that number, and no buffer. `Pterm` is `exit`, which writes all streams.

`OpenFiles` promises: a handle stands for a file, a mode and a position; what is read is what the file holds
there. The mapping: position = descriptor offset - bytes read ahead + bytes not yet written; content = what is in
the file once the stream has been written out. A program that uses a handle without a stream is
killed, and may lose what it wrote to the files it had open (`Kill`).

### Dta (`gemdosfile.c`, searches)

`globs` is the list from `globhead`, by id; `memory` the id and index that Fsfirst writes into the reserved bytes
of a DTA *in the program's memory*; `dta_addr` the current DTA. Fsfirst adds to the list whatever it finds and
writes the DTA only when something matched; Fsnext looks the id up, counts the index on in any case and delivers
the next name, or ENMFIL. A DTA that is no memory, or that holds no id of the list, makes Fsnext follow a null
pointer: `FsnextNull`, `NullPointer`. The program may copy a DTA's bytes or use them for something else, and files
come and go on the host.

`Searches` promises: Fsfirst begins a search in the current DTA; Fsnext delivers the next of its names; a copy of a
DTA is a search of its own. The mapping: what is left of a DTA's search is the tail of its list from the index on.

### Console (`gemdoscon.c`, `bios.c`, `utils.c`; input)

Input passes two queues: the kernel's, `tty`, and stdio's buffer, `stdin`. In line mode a read of the kernel's
queue ends at the first of `marks` (the terminal driver's read flags): a newline, or the place up to which the queue
counts as a line because the terminal was switched back to line mode or the input ended. Out of line mode, and from
a pipe, a read gives all there is. `getchar(c)` takes from stdio's buffer, and refills it by one read when it is
empty; where it would wait it is disabled. `console_input_available` is `select` on the descriptor: it sees `tty` and
not `stdin`.

`Cconis`, `Bconstat`, `Cconin`, `Bconin` are one step. `Crawio(0xff)` and `Crawcin` are three, as keys and signals arrive between
them: poll and switch the terminal (`SwitchTerminal`), read (`RawRead`), switch back (`RestoreTerminal`). `Cconrs`
starts `fgets`, which takes one character per step until it has `maxlen - 1` of them or a newline, or input ends.
What the code copies to the LINE when `fgets` has not written its buffer is a free choice; `line.spill` marks that
bytes behind the LINE are overwritten.

`Keyboard` is one queue. The mapping: what is pending is `buf \o stdin \o tty`.

### MemoryMap and Boot (`memory.c`, `tossystem.c`, `main.c`, `gemdos.c`, `bios.c`, `xbios.c`)

`MemoryMap` is `memory.c`: `head`, the list of areas, the one added last in front; the blocks of host memory behind
them (`ram`); `find_memarea` with its first match and its sum that wraps; `tos_read` and `tos_write` with the
flags of the current mode; and the reads and writes of 1, 2 and 4 bytes that Musashi calls, which take a number
apart into bytes, the last byte written first. `halt_execution` clears `keepongoing` and nothing else: the access
goes on, and so does the instruction.

`Boot` follows the process from the program file on. `Init` is `init_tos_environment` up to the relocation, with the areas in the
order of the code; `FirstPatch`, `RelocateByte` and `RelocationEnds` are the loop over the relocation table, one
byte of the table at a time; `Ready`, `Reset` and `StartCpu` are the rest of the start: `keepongoing` is set *after*
the relocation, `m68k_pulse_reset` goes to supervisor mode (its read of the reset vector is compiled out), `main` stores
the pointer to the base page in that mode and leaves it. `reach` and `places` are history: they follow the relocation
table by its format, apart from the address the code keeps in `adr`. `BeginInstruction`, `EndInstruction` and `Leave` are the main loop. An instruction makes up to
`MaxAccesses` accesses of any size at any place, or calls the system: `AnyCall` is `m68k_trap`, the look-up in the
table of the vector with the one record behind the table that the loop reads too, and the function found.
Functions other than those that touch memory or end the emulation are modelled in the other modules or
answer a constant.

`FlatMemory` promises one array of bytes with rights, around an address space that wraps: a read yields the bytes
that are there, and zero for those it may not use; a write changes exactly the bytes it may; one refused byte stops the
emulation. The mapping: contents and rights of an address are those of the area that answers for it, and what was
asked of memory, with the answer, is `access`.

### Adder, Decimal, Shifter, Multiplier and Arithmetic (`Musashi/m68k_in.c`, `m68kcpu.h`)

The arithmetic of the handlers, for operands of any width: `h` is the value of the highest bit, `wide` says that
the handler is one of the 32-bit ones, which rebuild the carry from three signs since the host's `uint` has no bit
for it. `Adder` has sums, differences, negation, comparison and the sixteen conditions; `Decimal` the BCD
handlers with their correction of each digit; `Shifter` the eight shifts and rotates in all three forms (count in
the instruction, count in a register, memory), branch by branch, as the handlers have a form for counts below,
at and above the width; `Multiplier` multiplication and division.

`Arithmetic` puts them to work the way programs do: numbers of several parts, part by part with X and Z carried
over; a comparison and the branches behind it; a shift by one bit more each step; a division put together again.

### Machine, Instructions, Transfers and Cpu (`Musashi/`)

`Machine` is the state of the core as a record and the inline functions of `m68kcpu.h`: memory, effective
addresses, stack, status register, exceptions. `Instructions` and `Transfers` have one operator per handler
family, named as in the opcode table (`add_er`, `movem_re`, ...): the C file has one function per family, size and
kind of operand, the operators take size and modes from the decoded instruction. `Rows` is the opcode table: which
sizes and modes a family has; what is not in it goes to `exception_illegal`. `late` and `undef` are choices C
leaves to the compiler: whether ADDA and SUBA read the destination before or after the operand steps it, and the
flags a handler computes from an undefined shift. MOVEM and MOVEP move several values at once (`WriteAll`, `ReadAll`)
instead of one after the other: their places never overlap, and no register they load counts for a later address. `And`, `Or` and
`Xor` put a result together from the bits of its bytes.

`Cpu` fetches and executes. A program is a map from addresses to decoded instructions, so a wrong length or a word
left over leads to an address without an instruction. `After` and `Amounts` execute a second sequence of
instructions without fetching, to compare with. `MachinesWith` says what a machine is, `Fitting` what the fields of an
instruction word can hold: a shift by 1 to 8, a vector of 0 to 15. `m68k_trap`, which the traps of the operating system go to, is
external here: it answers in D0.

## 4. Runs

| Run | Shows |
|---|---|
| `mem_trimmed` | every sequence of calls of a trimmed program: `WellFormed`, `QueryExact`, `FreedSpaceReusable`, refinement of `Arena` |
| `mem_fresh` | the same from the very start, with gaps that wrap: `TypeOK`, and a heap that is once well formed stays so |
| `mem_overlap` (violation) | Malloc before Mshrink can hand out memory in use |
| `sup_user` | Supexec from user mode and Super, traced or not: `StacksBalanced`, `ModeIsRight`, `SupexecReturns`, `RtsReachesMagic`, and `ControlComesBack` (liveness) |
| `file_data` | reads, writes, reopening and deletion of one file through small buffers: refinement of `OpenFiles` |
| `file_table` | a table with one free entry and a host with two free descriptors, reserved handles closed, reused and used without a stream: `HandlesOwnStreams`, `LeaksOnlyWhenFull`, refinement of `OpenFiles` |
| `file_seek` (violation) | Fseek moves another file than the handle's |
| `dta` | two searches in two DTAs, interleaved, copied, overwritten: refinement of `Searches` |
| `console` | polls and reads of every kind with keys, end of input and signals between all steps: `TerminalRestored`, `YesMeansInput`, refinement of `Keyboard` |
| `boot` | relocation patches each place the table names, once (`Relocated`); what is written is read back (`ReadsBack`); a number reaches the first function listed for it (`CallsReachTheirFunction`); a refused access ends the emulation (`HaltEnds`, liveness); refinement of `FlatMemory` |
| `arithmetic` | numbers of several parts are computed right, with their flags (`MultiPrecision`); branches decide the relation they are named for (`BranchesDecide`); a shift by k + 1 is one by k and one bit more (`OneBitMore`), in all forms (`FormsAgree`); quotient and remainder make up the dividend (`DivisionRebuilds`) |
| `cpu` | single instructions of every family, size and mode, legal or not: they change what they name (`Footprint`), their flags tell of their result (`FlagsTell`), control goes to the next one (`Sequential`), exceptions save what is needed to return (`ExceptionsSave`), a user program gets no privilege (`ModeIsKept`); programs that undo themselves, do a thing in two ways, call, loop or fault come to the end they must (`Meaning`) |

### Bounds

- `mem_*`: managed memory is five addresses, the first of them the base page, and up to four areas lie in it, with
  every length from 0, so that gaps occur in front of, between and behind areas; the word size leaves addresses above memory,
  so that sizes that are negative as `int32_t` are requested too. `MCGemdosMem` asserts that the end of RAM is not
  the last word. `mem_fresh` uses a smaller memory since every word is a possible size.
- `sup_user`: two code addresses, two values of the registers, and stacks with room for the calls. `CallerModes`
  and `MaxDepth` name who calls Supexec and how deep.
- `file_data`: one file of at most four bytes and a buffer of two, so that a write is shorter than, equal to and
  longer than the buffer and a read crosses its end. `file_table`: one free entry of the table
  and a second once handle 0 is closed, two descriptors above the standard ones, two files of one byte: the table
  fills before the descriptors run out, and a lost stream uses up the last. No Fseek is made there, since on a
  reused handle 0, which has descriptor 0, it would work. `file_seek` has four files, as the first handle is 6 and the fourth descriptor
  is 6. `Named` is the handles the program passes.
- `dta`: two DTAs, three files, three patterns that overlap, two calls of Fsfirst, an index up to 4, which lies
  beyond the end of the longest list.
- `console`: a letter and the newline, at most four characters on their way, LINEs of one and three bytes: lines
  that are shorter and longer than the LINE, several lines in a buffer, and a terminal found with any flags.
- `boot`: bytes of three values, so that a longword still has four of them and every carry between bytes occurs;
  six areas in the order of the real ones, with the same neighbours and gaps; relocation tables of up to four bytes with
  no place, places apart, places that overlap, skips, and places outside user RAM; `Skip` is as far as a byte of
  the table reaches and more; one instruction of two accesses, at the edges of the areas, beyond them and around the end of the address space. Two
  instructions would show no more, as nothing but memory and `keepongoing` passes from one to the next.
- `arithmetic`: bytes of two bits, words of three, longs of four, since the handlers do nothing by a bit's
  number; every operand; chains of two parts, after which a third behaves as the second did; decimal bytes with their
  real nibbles; counts up to twice the longest width, as the code masks them to 63 for 32 bits.
- `cpu`: bytes of six bits, because T, S and the interrupt mask share the upper byte of the status register; one or
  two operands of each mode, with the stack pointer, the ends of memory and addresses without memory among them;
  ten machines with boundary values in the data registers, odd and even addresses, both modes, traced
  and not.

Deadlock is checked for Supervisor. The other systems really stop: the process ends, a program has come to its
end, or a bound is reached.

### Fairness

`Supervisor` and `Boot` have liveness properties. `Boot` has `WF(MainStep)`: tosemu is one thread, and the start, the main
loop and the end of an instruction, which makes finitely many accesses, do not wait for anything. In
`Supervisor`, `WF(cpu_instr_callback \/ Fetch)` and `WF(Resume)` are the main loop
`while (keepongoing) m68k_execute(1)`: nothing halts the CPU in the modelled part, so it goes on. `WF(Rts)` says
that a subroutine the program passes to Supexec ends; without it no emulator could return.

## 5. Proofs

`GemdosMemProofs` proves about every layout, word size and number of areas (`LayoutAssumption`: memory does
not start at 0 and the end of RAM is not near the last address):

- `TypeCorrect`, for `Spec` and (within `HeapWellFormed`) for `TrimmedSpec`.
- `HeapWellFormed`: `WellFormed = SortedApart /\ InsideManaged` is inductive together with `TypeOK`. Both
  conjuncts are needed: only inside managed memory is word arithmetic exact (`GapExact`: a gap's length is the
  real distance, never a wrapped one), and only for sorted areas is a gap free. A grant then splits a gap
  (`InsertAtProps`), a shrink or release only makes room.
- `HeapStable`: the same step lemma, for heaps of any history. `QueryIsExact`, `FreedSpaceComesBack` follow from
  `GapExact`; `HeapImplementsArena` maps each call to one step of `Arena` or to a stutter.

`GemdosFileProofs` proves, for every table, buffer size, descriptor limit and program: `TypeCorrect`,
`HandlesOwn`, `LeakTheorem`. The invariant is `TypeOK /\ HandlesOwnStreams /\ StreamsHaveFiles`: an open takes a
descriptor outside `DOMAIN host`, and by ownership no handle in use has it; a close frees the descriptor of the one
handle that had it. `StreamsHaveFiles` is needed for the types of what is read and written.

Its second part proves that the same component implements `OpenFiles`, for every table, buffer size and content. The
one call the code gets wrong is Fseek, which gives the handle to `lseek` as if it were a descriptor. So `Refinement`
assumes that every Fseek is refused, and `RefinementWithoutSeeks` derives that from what a program does: it does not seek, or
none of its handles is the number of a descriptor. The runs `file_table` and `file_data` are such programs. The
inductive invariant is `BufferInv`. To the ownership of streams it adds that no two handles are on one file
(`OneEach`: the model's programs open none twice, see section 7), that a stream no handle owns has nothing left to write
(`LostEmpty`), and that buffers agree with the file (`AllFit`): what has been read ahead is what the file holds
just before the descriptor's offset, and a stream never has bytes read ahead and bytes to write at a time. The byte lemmas say what the buffers do to that: a read that takes
some bytes read ahead and reads on in the file gives the bytes that lie there (`OverlaySplit`, `AheadShrinks`,
`AheadGrows`), and written-behind bytes that reach the file a buffer at a time leave in it what one write would
have left (`OverlayConcat`, `WholeBuffers`).

`DtaProofs` proves `TypeCorrect` and `SearchesImplemented` with the invariant that no DTA holds an id that has
not been given out (`IdsGivenOut`): a new id then differs from all that lie in memory, so an Fsfirst changes what is
left of no DTA but the current one.

`SupervisorProofs` proves `TypeCorrect`, `StacksStayBalanced`, `ModeStaysRight`, `SupexecAlwaysReturns` and
`RtsAlwaysReachesMagic` for every program that is `Plain`: it lies below 64K and calls Supexec from user mode. Both
hypotheses are what the code needs (section 6, `cpu.c:73` and `xbios.c:107`); they are not assumptions of the model.
The addresses, the stacks and the values of registers are arbitrary. The invariant `Inv` names the five places such
a program can be in, each with the whole machine: in user mode; between Super(0) and Super(old), where the arguments of the
first call still lie on the user stack; in a subroutine, which finds the magic address and below it the
return address on its stack; at the magic address; behind the trap. `PlacesAreAll` is its theorem. What the
model checker sees, that the properties hold, does not say what lies on the stack, and without that a step from one
place to the next cannot be justified.

`ConsoleProofs` proves `TypeCorrect`, `TerminalIsRestored`, `YesIsTrue` and the refinement `KeyboardImplemented` for
all characters, lengths of LINEs and amounts of input. Besides the two properties and the types the invariant
has `Switched` (while the terminal is switched its flags are kept in `temp`), `MarksRight` (a terminal in raw
mode has no marks where a read must end, and input that has ended can be read to its last character: otherwise a
poll could say yes to a read that then waits) and `LineBegun` (the part of a line that fgets has taken holds no
newline). The refinement maps what a program has not been given to `buf \o stdin \o tty`: a read from the terminal
into stdio's buffer, or from there into fgets's, moves characters within that sequence and is a stutter.

`BootProofs` proves `TypesHold`, `FlatMemoryImplemented`, `RelocationIsRight`, `ReadBack` and `CallsReach` for every base
of the bytes, every layout of the six areas without overlap that ends below the last address
(`LayoutAssumption`), every program, relocation table and table of calls. The lemmas go up from one byte to an access:
`Found` (the first match in the list that six additions build is the area that holds the address), `ReadOne` and
`WriteOne` (a byte is read from and written to its place and no other), `WroteMore` and `WriteMany` (the loop of a
write, round by round, with the exact set of bytes written and refused so far), `ReadMany` and `SameDigits` (a number is
known by its bytes). With these each step of `Boot` is one step of `FlatMemory` or none (`StepTypes`), in an
invariant `Types` that says, beyond types, that memory still is the list of `Init` and that the rest of the relocation
table ends with a zero. `ReadsBack` is not inductive: `Held` says byte by byte what the last write left, and holds when
supervisor mode ends with the write, as in `StartCpu`, since rights only get fewer. `Relocated` speaks of the
end only; `Followed` is its invariant: no place met so far lies beyond `reach` and each distance is positive, so no
longword is patched twice, and `adr` is where `reach` says, modulo 2^32. Where an induction is needed
(strings end, the first entry wins) the least element of a set of numbers, `NatMin`, gives it.

`ArithmeticProofs` proves for operands of any width that a sum or a difference, read with its carry or borrow, is the exact
number, and that V tells that the signed number does not fit (`AddExact`, `SubExact`), whether the carry
is read off a wider sum, as for bytes and words, or rebuilt from three sign bits, as for longs. From `SubExact`
follows `BranchesAlwaysDecide`: whatever the widths are, each conditional branch behind a CMP decides the
relation it is named for. `ChainsAreExact` proves `MultiPrecision` for numbers of any length: `ChainInv` says that
behind each part `r` is the exact sum or difference of what has been taken in, brought into its range, X whether
it had left it, Z whether the whole is zero, and N and V what the last part makes of the whole. For decimal numbers
this needs that a nibble holds more than the ten digits (`DecimalAssumption`): NBCD tests a digit for being ten.
`DivisionsRebuild` proves `DivisionRebuilds`: no two pairs of quotient and remainder make up a dividend
(`DivModUnique`).

`OneBitAtATime` proves `OneBitMore` for every width and every count, beyond the width too, and `FormsAlwaysAgree`
`FormsAgree` for every count an instruction holds that does not exceed the width (`ArithmeticAssumption`; in the code 8,
with widths from 8 up). Each handler gets a closed form that holds at all counts: the upper bits (`Above`), the lower ones
moved up (`Moved`), the copies of the sign (`Filled`), a rotate of the operand (`RotatedRight`, `RotatedLeft`), or
of the operand with X above it, which the 32-bit handlers do not have as a number (`ByHand`). Then a number is written once
as 2h + b and once as h' + b' 2^(n-1), and a bit more moves b or b' (`Further`). For ASL's V, `ChangedStep`
says that the bits that pass the sign are all alike if they were so far and the next one is. `ShiftInv` ties a job
to its handler: it holds X and V before the first bit too, which is all that the next bit depends on.

`CpuProofs` proves for bytes of six, seven or eight bits, every memory, read-only memory and program of
decoded instructions, and every machine to start on (`MachineAssumption`, `CpuAssumption`):

- `TypesHold`: registers, program counter and memory hold values of their width; no handler forgets to cut a
  sum, a product, a decimal digit or a shifted value, and no condition code is anything but true or false.
- `FootprintKept`: each instruction changes the registers and bytes it names and no others, of a data register the
  part of its size only; MOVEM and MOVEP exactly the places of their list.
- `FlagsAreTold`, `StepsAreSequential`: the condition codes are those of what is then in the register or memory;
  the next instruction is found behind all words of the one before.
- `ExceptionsAreSaved`, `ModeKept`: what an exception leaves on the supervisor's stack, read back after both
  pushes, is the status register as it was and the address to go on at; a user program changes nothing of
  the supervisor's and becomes one through a vector only.

The argument goes up from the machinery to the handlers. `Effect` says what fetching an operand, storing, pushing or setting
a register leaves of a machine; effects compose (`EffectThen`). What the arithmetic computes is shown to fit its
size once per operation (`SumsAre`, `BitwiseAre`, `DecimalsAre`, `MultipliesAre`, `DividesAre`, `ShiftsAre`). `ModesAre` and
`WordsTaken` are the facts about the opcode table that a handler relies on: which modes a family has, and which of them
take further words. With these there is one lemma per family, whatever size and modes the table allows: the instruction is
`Done`, or it has `Failed`, refused or trapped, which `ExceptionIs` describes for all vectors at once. `EveryStep` joins
them: every step is such an `Outcome`, and each property looks at a part of it. The invariant is `TypeOK` and that the
program stays one of `Programs`: with more knowledge about a program than that its instructions fit their
words, more would follow, but nothing here needs it. Two facts came out of the proof only: the arms of `VectorOf` overlapped
for an illegal TRAP, and a vector has to be read after the pushes, as the frame may lie on it.

Only model-checked: liveness (`HaltEnds`, `ControlComesBack`), which is out of the prover's reach, and `Meaning`, which
compares a program with another one executed by a fold over its instructions: what a fold computes for every sequence would need an
induction that none of the provers can instantiate. Nothing is assumed but the named assumptions on constants.

## 6. Divergences between code and comments

The two runs marked violation, which PROJECT.json lists as findings. Seen as well, with no run of their own:

- `cpu.c:73`: `pop_u32` keeps the longword in a `uint16_t`, so a Supexec whose trap lies beyond 64K does not return
  behind its trap. The model has the truncation; `sup_user` stays below it.
- `xbios.c:107`: the return from a Supexec always leaves supervisor mode, and the registers are saved once, so a Supexec
  within a Supexec drops to user mode, and the outer RTS takes its address from the user's stack.
- `utils.c:71`: `select` does not see what `getchar` has already taken into stdio's buffer, so polls say that there
  is no input while the rest of a line is there. `YesMeansInput` is the direction that holds.
- `m68k_in.c:4422`: DIVS of the lowest long by -1 leaves zero and no V; `DivisionRebuilds` names the exception.
- `m68k_in.c:8484`: ROL.L by a register count of 32 shifts by the width of the type, undefined in C; `OneBitMore` names it.
- `m68k_in.c:1222,1246,9443,9467`: ADDA and SUBA leave it to the compiler whether `(An)+` of the destination itself is
  stepped before the register is read (`late`).
- `m68k_in.c:9237`: STOP waits for an interrupt, which nothing raises: the main loop goes round for ever.
- `main.c:152`: the user stack begins at `te.size - 4` and the pointer to the base page is written to `te.size`: a size is
  used as an address, and an odd size makes the stack odd.
- `gemdos.c:386`, `bios.c:165`, `xbios.c:400`: the look-up reads one record behind its table. A number listed twice
  (0x05 in the table of XBIOS) reaches the first function.
- `bios.c:35`: Setexc writes the vector also when it is only asked for it (-1).
- `memory.c:186`: an access that is refused clears a flag; the other bytes of it and the rest of the instruction
  take place. `memory.c:109`: the byte 0x1ff has no memory.
- `tossystem.c`: the BSS is not cleared. `tossystem.c:92`: the length of the command line is stored in one byte
  and is -1 without arguments; nothing bounds the text to the base page.
- `gemdosmem.c:246`: `mem_allocatable_top` is a length, not an end ("from 0x800 to mem_allocatable_top", l.85);
  l.156: a request of exactly the size of the largest gap is refused ("gaps of the right size", l.94).
- `gemdosmem.c:147`: once the first area is freed and another is left, the memory in front of that one is not looked
  at ("Memory can be allocated from 0x900", l.87).
- `xbios.c:76` says D0 is 0 behind a Supexec; the code leaves what the subroutine put there.
- `main.c:151` starts the supervisor stack at the low end of the memory made for it (`tossystem.c:115`).
- `gemdosfile.c:839` "Handles 0-5 are reserved": they can be closed and are then given out again;
  handle 2, documented as standard error (l.82), has no stream and kills the emulator.
- `gemdoscon.c:193` "Disable buffering and echoing": this happens after `select` has said that a whole line is there,
  which was typed with buffering and echo.
- `tossystem.c:112`: the area at 0 has length 0x1ff, its comment says "0x0 - 0x1ff".
- `tossystem.c:239`: `keepongoing = 1` comes after the relocation and takes back a halt it raised.

## 7. Abstractions, and what is not modelled

- Failure of the host's `malloc`. Formatting, tracing and the translation of paths.
- Files: two handles on one file; reads and writes of length 0; more than `MaxLen` bytes; writing on a stream whose
  descriptor Fseek moved to before the bytes read ahead (bounded away in `fwrite`); stdin as console input (an
  empty file here; `Console` models it); end-of-file flags, which a program that is alone on a file cannot see.
- Searches: attributes, date and length in the DTA; the result of `stat` is not checked by the code; items of the
  list are never freed, by the code and the model.
- Supervisor: data reads of 0x201 by the program; exceptions and interrupts.
- Boot: the command line and the environment variable, options, failure of the host's `open` and `malloc`; arguments of
  calls beyond the number.
- Cpu: decoding of instruction words (a program is a map to decoded instructions, so self-modifying code and a fetch
  from memory that is not there are left out), cycle counts, interrupts, trace and address errors (compiled out
  in `m68kconf.h`), handlers of the 68010 and 68020, which tosemu never selects. Memory outside the machine's cells reads as
  zero and halts.
- Console: output, which is `putchar`; NUL characters; editing of a line in the terminal.
- Paths and directories: `Dgetpath`, `Dsetpath`, `Dcreate`, `Fattrib`, `Fdatime` work on strings and the host's
  directory tree and keep no state of the emulator. Calls that return constants or the host's clock, and `Keytbl`.
- The disassembler and the generator `m68kmake` produce text.
