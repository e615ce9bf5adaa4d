------------------------------- MODULE Machine -------------------------------
(***************************************************************************)
(* The state of the Musashi 68000 and the machinery its handlers share:    *)
(* registers, memory, effective addresses, the stack, the status register  *)
(* and exceptions (m68kcpu.h).                                             *)
(*                                                                         *)
(* A machine m is a record:                                                *)
(*   da       D0 .. D7 as 0 .. 7 and A0 .. A7 as 8 .. 15                   *)
(*   banked   the stack pointer of the mode the processor is not in        *)
(*   pc, ppc  the program counter, and that of the instruction begun       *)
(*   ccr      the five condition codes; s, t1, im the rest of the SR       *)
(*   stopped  after STOP; run is the main loop's keepongoing               *)
(*   ram      the bytes a program may write, by address                    *)
(*                                                                         *)
(* A byte has ByteBits bits, a word two bytes, a long four and an address  *)
(* three: the code's 8, 16, 32 and 24.  Sizes are counted in bytes.        *)
(***************************************************************************)
EXTENDS Adder

CONSTANTS ByteBits,   \* at least six: T1, S and the interrupt mask share one
          Rom         \* the memory that can only be read, by address

Bits(n) == n * ByteBits

Half(n) == 2^(Bits(n) - 1)

Bytes == Values(Half(1))

ASSUME MachineAssumption ==
    /\ ByteBits \in {6, 7, 8}
    /\ DOMAIN Rom \subseteq Nat
    /\ \A x \in DOMAIN Rom : Rom[x] \in Bytes

\* MASK_OUT_ABOVE_8, _16 and _32; MASK_OUT_BELOW_8 and _16; MAKE_INT_8 and _16
Low(x, n) == Wrap(x, Half(n))

Upper(x, n) == x - Low(x, n)

MAKE_INT(x, n) == Signed(Low(x, n), Half(n))

Long(x) == Low(x, 4)

ADDRESS_68K(a) == Low(a, 3)

A7 == 15

-----------------------------------------------------------------------------
\* Memory: what lies outside of it reads as zero, keeps nothing, and halts.

Byte(m, x) ==
    IF x \in DOMAIN m.ram THEN m.ram[x] ELSE IF x \in DOMAIN Rom THEN Rom[x] ELSE 0

Word(m, x) == Byte(m, x) * 2^Bits(1) + Byte(m, x + 1)

Value(m, x, n) ==
    CASE n = 1 -> Byte(m, x)
      [] n = 2 -> Word(m, x)
      [] n = 4 -> Word(m, x) * 2^Bits(2) + Word(m, x + 2)

Place(a, n) == ADDRESS_68K(a) .. ADDRESS_68K(a) + n - 1

Read(m, a, n) ==
    [v |-> Value(m, ADDRESS_68K(a), n),
     m |-> [m EXCEPT !.run = @ /\ Place(a, n) \subseteq DOMAIN m.ram \cup DOMAIN Rom]]

ByteOf(v, k) == (v \div 2^Bits(k)) % 2^Bits(1)

Write(m, a, n, v) ==
    [m EXCEPT !.ram = [x \in DOMAIN @ |->
                          IF x \in Place(a, n)
                          THEN ByteOf(v, ADDRESS_68K(a) + n - 1 - x)
                          ELSE @[x]],
              !.run = @ /\ Place(a, n) \subseteq DOMAIN m.ram]

-----------------------------------------------------------------------------
(* Addressing modes.  e.mode names the mode, e.r the register, e.d the     *)
(* displacement, address or operand that follows the instruction, and e.x  *)
(* and e.long the index register and whether all of it counts.  "i" is an  *)
(* operand that follows the instruction, "w" one that takes a word of it   *)
(* whatever the size, "q" one within the instruction word itself.          *)

Skip(m, n) == [m EXCEPT !.pc = Long(@ + n)]

\* a plausible slip: the stack pointer stepped like any other register
byteOnStack(e, n) == n

\* a byte goes onto the stack as a word
StepOf(e, n) == IF n = 1 /\ e.r = 7 THEN 2 ELSE n

get_ea_ix(m, base, e) ==
    Long(base + (IF e.long THEN m.da[e.x] ELSE MAKE_INT(m.da[e.x], 2)) + MAKE_INT(e.d, 1))

EA(m, e, n) ==
    LET an == m.da[8 + e.r]
    IN  CASE e.mode \in {"ai", "pi"} -> an
          [] e.mode = "pd"   -> Long(an - StepOf(e, n))
          [] e.mode = "di"   -> Long(an + MAKE_INT(e.d, 2))
          [] e.mode = "ix"   -> get_ea_ix(m, an, e)
          [] e.mode = "aw"   -> Long(MAKE_INT(e.d, 2))
          [] e.mode = "al"   -> e.d
          [] e.mode = "pcdi" -> Long(m.pc + MAKE_INT(e.d, 2))
          [] e.mode = "pcix" -> get_ea_ix(m, m.pc, e)

\* how far a mode's extension words take the program counter
Extension(e, n) ==
    CASE e.mode \in {"di", "ix", "aw", "pcdi", "pcix", "w"} -> 2
      [] e.mode = "al" -> 4
      [] e.mode = "i"  -> IF n = 4 THEN 4 ELSE 2
      [] OTHER         -> 0

\* the machine after the mode was used
Used(m, e, n) ==
    CASE e.mode = "pi" -> [m EXCEPT !.da[8 + e.r] = Long(@ + StepOf(e, n))]
      [] e.mode = "pd" -> [m EXCEPT !.da[8 + e.r] = Long(@ - StepOf(e, n))]
      [] OTHER         -> Skip(m, Extension(e, n))

Operand(m, e, n) ==
    CASE e.mode = "d"    -> [m |-> m, v |-> Low(m.da[e.r], n)]
      [] e.mode = "a"    -> [m |-> m, v |-> Low(m.da[8 + e.r], n)]
      [] e.mode \in {"i", "w"} -> [m |-> Used(m, e, n), v |-> Low(e.d, n)]
      [] e.mode = "q"    -> [m |-> m, v |-> e.d]
      [] e.mode = "none" -> [m |-> m, v |-> 0]
      [] OTHER           -> Read(Used(m, e, n), EA(m, e, n), n)

\* a plausible slip: a register replaced as a whole
wholeRegister(m, e, at, n, v) ==
    IF e.mode = "d" THEN [m EXCEPT !.da[e.r] = Low(v, n)] ELSE Write(m, at, n, v)

\* A data register keeps what lies above the operand.
Store(m, e, at, n, v) ==
    IF e.mode = "d" THEN [m EXCEPT !.da[e.r] = Upper(@, n) + Low(v, n)]
    ELSE Write(m, at, n, v)

-----------------------------------------------------------------------------
push(m, n, v) ==
    LET sp == Long(m.da[A7] - n)
    IN  Write([m EXCEPT !.da[A7] = sp], sp, n, v)

pull(m, n) == Read([m EXCEPT !.da[A7] = Long(@ + n)], m.da[A7], n)

jump(m, new_pc) == [m EXCEPT !.pc = new_pc]

branch(m, offset) == [m EXCEPT !.pc = Long(@ + offset)]

-----------------------------------------------------------------------------
\* The status register: T1 is the highest bit of its upper byte, S the third
\* highest, the interrupt mask the lowest three; CPU_SR_MASK drops the others.

get_ccr(f) ==
    16 * AsOne(f.X) + 8 * AsOne(f.N) + 4 * AsOne(f.Z) + 2 * AsOne(f.V) + AsOne(f.C)

BitSet(w, k) == (w \div 2^k) % 2 = 1

set_ccr(w) ==
    [X |-> BitSet(w, 4), N |-> BitSet(w, 3), Z |-> BitSet(w, 2),
     V |-> BitSet(w, 1), C |-> BitSet(w, 0)]

get_sr(m) ==
    AsOne(m.t1) * 2^(Bits(2) - 1) + AsOne(m.s) * 2^(Bits(2) - 3)
        + m.im * 2^Bits(1) + get_ccr(m.ccr)

\* the two modes have a stack pointer each
set_s_flag(m, s) ==
    IF s = m.s THEN m
    ELSE [m EXCEPT !.s = s, !.banked = m.da[A7], !.da[A7] = m.banked]

set_sr(m, w) ==
    set_s_flag([m EXCEPT !.t1 = BitSet(w, Bits(2) - 1),
                         !.im = (w \div 2^Bits(1)) % 8,
                         !.ccr = set_ccr(w)],
               BitSet(w, Bits(2) - 3))

-----------------------------------------------------------------------------
\* exceptions: supervisor mode, PC and SR on its stack, PC from the vector

EXCEPTION_ILLEGAL_INSTRUCTION == 4
EXCEPTION_ZERO_DIVIDE == 5
EXCEPTION_CHK == 6
EXCEPTION_TRAPV == 7
EXCEPTION_PRIVILEGE_VIOLATION == 8
EXCEPTION_1010 == 10
EXCEPTION_1111 == 11
EXCEPTION_TRAP_BASE == 32

init_exception(m) == set_s_flag([m EXCEPT !.t1 = FALSE], TRUE)

\* a plausible slip: the two halves of the frame the other way round
statusFirst(m, pc, sr) == push(push(m, 2, sr), 4, pc)

stack_frame_3word(m, pc, sr) == push(push(m, 4, pc), 2, sr)

jump_vector(m, vector) ==
    LET o == Read(m, 4 * vector, 4) IN jump(o.m, o.v)

Exception(m, vector, pc) ==
    jump_vector(stack_frame_3word(init_exception(m), pc, get_sr(m)), vector)

exception_trap(m, vector) == Exception(m, vector, m.pc)

exception_privilege_violation(m) == Exception(m, EXCEPTION_PRIVILEGE_VIOLATION, m.ppc)

exception_1010(m) == Exception(m, EXCEPTION_1010, m.ppc)

exception_1111(m) == Exception(m, EXCEPTION_1111, m.ppc)

exception_illegal(m) == Exception(m, EXCEPTION_ILLEGAL_INSTRUCTION, m.ppc)

\* The host answers the traps of GEMDOS, BIOS and XBIOS in D0; what else a call
\* changes is the business of the modules about them.  AES and VDI halt.
m68k_trap(m, vector, answer) ==
    IF vector = 34 THEN [m EXCEPT !.run = FALSE] ELSE [m EXCEPT !.da[0] = answer]

exception_trapN(m, vector, answer) ==
    IF vector \in {33, 34, 45, 46} THEN m68k_trap(m, vector, answer)
    ELSE Exception(m, vector, m.pc)

=============================================================================
