-------------------------------- MODULE Cpu ---------------------------------
(***************************************************************************)
(* The processor at work: m68k_execute fetches the instruction at the      *)
(* program counter and calls its handler, until the main loop is told to   *)
(* halt.  A program is a map from addresses to decoded instructions; where *)
(* it has none the run ends.                                               *)
(***************************************************************************)
EXTENDS Transfers, FiniteSets

CONSTANTS Machines,   \* the machines a program is started on
          Programs,   \* [code, stop]; what it amounts to, [same], but for [regs, flags, scratch]
          Answers     \* what the host may answer a trap

-----------------------------------------------------------------------------
(* What machines and decoded instructions are.                             *)

Flags == [X : BOOLEAN, N : BOOLEAN, Z : BOOLEAN, V : BOOLEAN, C : BOOLEAN]

Longs == Values(Half(4))

\* the machines whose program may write the bytes at the addresses S
MachinesWith(S) ==
    [da : [0 .. 15 -> Longs], banked : Longs, pc : Longs, ppc : Longs, ccr : Flags,
     s : BOOLEAN, t1 : BOOLEAN, im : 0 .. 7, stopped : BOOLEAN, run : BOOLEAN,
     ram : [S -> Bytes]]

Operands ==
    [mode : AD \cup Everything \cup {"w", "q", "none"}, r : 0 .. 7, d : Longs, x : 0 .. 15,
     long : BOOLEAN]

Decoded ==
    [op : STRING, n : All, src : Operands, dst : Operands, how : STRING,
     list : SUBSET (0 .. 15)]

Shiftings == {"shift_s", "shift_r", "shift_m"}

\* the fields of an instruction word: 1 to 8 as a count, 0 to 15 as a vector
Fitting(i) ==
    /\ i \in Decoded
    /\ i.op \in Shiftings => i.how \in Shifts
    /\ i.op = "shift_s" => i.src.d \in 1 .. 8 /\ i.src.d <= Bits(i.n)
    /\ i.op = "trap" => i.src.d \in 0 .. 15

ASSUME CpuAssumption ==
    /\ \A b \in Machines : b \in MachinesWith(DOMAIN b.ram) /\ b.ppc = b.pc
    /\ \A p \in Programs : \A x \in DOMAIN p.code : Fitting(p.code[x])
    /\ Answers \subseteq Longs

VARIABLES m, program, begin

vars == <<m, program, begin>>

Init ==
    /\ begin \in Machines
    /\ program \in Programs
    /\ m = begin

Instruction == program.code[m.pc]

-----------------------------------------------------------------------------
\* the handlers by their names, m68ki_instruction_jump_table

Arithmetic(b, j, late) ==
    CASE j.op = "abcd_rr" -> abcd_rr(b, j)  [] j.op = "abcd_mm" -> abcd_mm(b, j)
      [] j.op = "add_er" -> add_er(b, j)    [] j.op = "add_re" -> add_re(b, j)
      [] j.op = "adda" -> adda(b, j, late)  [] j.op = "suba" -> suba(b, j, late)
      [] j.op = "addi" -> addi(b, j)        [] j.op = "subi" -> subi(b, j)
      [] j.op = "addq" -> addq(b, j)        [] j.op = "subq" -> subq(b, j)
      [] j.op = "addq_a" -> addq_a(b, j)    [] j.op = "subq_a" -> subq_a(b, j)
      [] j.op = "addx_rr" -> addx_rr(b, j)  [] j.op = "addx_mm" -> addx_mm(b, j)
      [] j.op = "sub_er" -> sub_er(b, j)    [] j.op = "sub_re" -> sub_re(b, j)
      [] j.op = "subx_rr" -> subx_rr(b, j)  [] j.op = "subx_mm" -> subx_mm(b, j)
      [] j.op = "sbcd_rr" -> sbcd_rr(b, j)  [] j.op = "sbcd_mm" -> sbcd_mm(b, j)
      [] j.op = "nbcd" -> nbcd_(b, j)       [] j.op = "neg" -> neg(b, j)
      [] j.op = "negx" -> negx(b, j)        [] j.op = "ext" -> ext(b, j)
      [] j.op = "cmp" -> cmp(b, j)          [] j.op = "cmpa" -> cmpa(b, j)
      [] j.op = "cmpi" -> cmpi(b, j)        [] j.op = "cmpm" -> cmpm(b, j)
      [] j.op = "tst" -> tst(b, j)          [] j.op = "clr" -> clr(b, j)
      [] j.op = "multiply" -> multiply(b, j) [] j.op = "divide" -> divide(b, j)
      [] j.op = "chk" -> chk(b, j)

ArithmeticOps ==
    {"abcd_rr", "abcd_mm", "add_er", "add_re", "adda", "suba", "addi", "subi", "addq",
     "subq", "addq_a", "subq_a", "addx_rr", "addx_mm", "sub_er", "sub_re", "subx_rr",
     "subx_mm", "sbcd_rr", "sbcd_mm", "nbcd", "neg", "negx", "ext", "cmp", "cmpa",
     "cmpi", "cmpm", "tst", "clr", "multiply", "divide", "chk"}

BitwiseOf(b, j, undef) ==
    CASE j.op = "and_er" -> and_er(b, j)    [] j.op = "and_re" -> and_re(b, j)
      [] j.op = "andi" -> andi(b, j)        [] j.op = "not" -> not(b, j)
      [] j.op = "or_er" -> or_er(b, j)      [] j.op = "or_re" -> or_re(b, j)
      [] j.op = "ori" -> ori(b, j)          [] j.op = "eor" -> eor(b, j)
      [] j.op = "eori" -> eori(b, j)        [] j.op = "tas" -> tas(b, j)
      [] j.op \in {"bchg_r", "bchg_rd", "bchg_s", "bchg_sd"} -> bchg(b, j)
      [] j.op \in {"bclr_r", "bclr_rd", "bclr_s", "bclr_sd"} -> bclr(b, j)
      [] j.op \in {"bset_r", "bset_rd", "bset_s", "bset_sd"} -> bset(b, j)
      [] j.op \in {"btst_r", "btst_rd", "btst_s", "btst_sd"} -> btst(b, j)
      [] j.op = "scc" -> scc(b, j)          [] j.op = "shift_s" -> shift_s(b, j)
      [] j.op = "shift_m" -> shift_m(b, j)  [] j.op = "shift_r" -> shift_r(b, j, undef)

BitwiseOps ==
    {"and_er", "and_re", "andi", "not", "or_er", "or_re", "ori", "eor", "eori", "tas",
     "bchg_r", "bchg_rd", "bchg_s", "bchg_sd", "bclr_r", "bclr_rd", "bclr_s", "bclr_sd",
     "bset_r", "bset_rd", "bset_s", "bset_sd", "btst_r", "btst_rd", "btst_s", "btst_sd",
     "scc", "shift_s", "shift_m", "shift_r"}

Transfer(b, j) ==
    CASE j.op = "move_8" -> move_8(b, j)      [] j.op = "move_16" -> move_16(b, j)
      [] j.op = "move_32" -> move_32(b, j)    [] j.op = "movea" -> movea(b, j)
      [] j.op = "moveq" -> moveq(b, j)        [] j.op = "swap" -> swap(b, j)
      [] j.op = "exg_da" -> exg(b, j)         [] j.op = "exg_aa" -> exg(b, j)
      [] j.op = "lea" -> lea(b, j)            [] j.op = "pea" -> pea(b, j)
      [] j.op = "movem_re" -> movem_re(b, j)  [] j.op = "movem_er" -> movem_er(b, j)
      [] j.op = "movep_re" -> movep_re(b, j)  [] j.op = "movep_er" -> movep_er(b, j)
      [] j.op = "link" -> link(b, j)          [] j.op = "unlk" -> unlk(b, j)

TransferOps ==
    {"move_8", "move_16", "move_32", "movea", "moveq", "swap", "exg_da", "exg_aa", "lea",
     "pea", "movem_re", "movem_er", "movep_re", "movep_er", "link", "unlk"}

Flow(b, j, answer) ==
    CASE j.op = "bra" -> bra(b, j)    [] j.op = "bcc" -> bcc(b, j)
      [] j.op = "bsr" -> bsr(b, j)    [] j.op = "dbcc" -> dbcc(b, j)
      [] j.op = "jmp" -> jmp(b, j)    [] j.op = "jsr" -> jsr(b, j)
      [] j.op = "rts" -> rts(b)       [] j.op = "rtr" -> rtr(b)
      [] j.op = "nop" -> nop(b)       [] j.op = "trapv" -> trapv(b)
      [] j.op = "trap" -> trap(b, j, answer)

FlowOps == {"bra", "bcc", "bsr", "dbcc", "jmp", "jsr", "rts", "rtr", "nop", "trapv", "trap"}

Status(b, j) ==
    CASE j.op = "andi_toc" -> andi_toc(b, j)  [] j.op = "andi_tos" -> andi_tos(b, j)
      [] j.op = "ori_toc" -> ori_toc(b, j)    [] j.op = "ori_tos" -> ori_tos(b, j)
      [] j.op = "eori_toc" -> eori_toc(b, j)  [] j.op = "eori_tos" -> eori_tos(b, j)
      [] j.op = "move_toc" -> move_toc(b, j)  [] j.op = "move_tos" -> move_tos(b, j)
      [] j.op = "move_frs" -> move_frs(b, j)  [] j.op = "move_fru" -> move_fru(b, j)
      [] j.op = "move_tou" -> move_tou(b, j)  [] j.op = "stop" -> stop(b, j)
      [] j.op = "reset" -> reset(b)           [] j.op = "rte" -> rte(b)

Privileged == {"andi_tos", "ori_tos", "eori_tos", "move_tos", "move_fru", "move_tou",
               "stop", "reset", "rte"}

StatusOps == Privileged \cup {"andi_toc", "ori_toc", "eori_toc", "move_toc", "move_frs"}

Illegal(b, j) ==
    CASE j.op = "1010" -> exception_1010(b)
      [] j.op = "1111" -> exception_1111(b)
      [] OTHER         -> exception_illegal(b)

-----------------------------------------------------------------------------
\* m68k_execute: while not stopped, and as long as the main loop goes on

Running == m.run /\ ~m.stopped /\ m.pc \in DOMAIN program.code

Begun(b) == [b EXCEPT !.ppc = b.pc, !.pc = Long(@ + 2)]

Ended(b) == [b EXCEPT !.ppc = b.pc]

Step(o) == m' = Ended(o) /\ UNCHANGED <<program, begin>>

ExecuteArithmetic ==
    /\ Running /\ Legal(Instruction) /\ Instruction.op \in ArithmeticOps
    /\ \E late \in BOOLEAN : Step(Arithmetic(Begun(m), Instruction, late))

ExecuteBitwise ==
    /\ Running /\ Legal(Instruction) /\ Instruction.op \in BitwiseOps
    /\ \E undef \in BOOLEAN : Step(BitwiseOf(Begun(m), Instruction, undef))

ExecuteTransfer ==
    /\ Running /\ Legal(Instruction) /\ Instruction.op \in TransferOps
    /\ Step(Transfer(Begun(m), Instruction))

ExecuteFlow ==
    /\ Running /\ Legal(Instruction) /\ Instruction.op \in FlowOps
    /\ \E answer \in Answers : Step(Flow(Begun(m), Instruction, answer))

ExecuteStatus ==
    /\ Running /\ Legal(Instruction) /\ Instruction.op \in StatusOps
    /\ Step(Status(Begun(m), Instruction))

ExecuteIllegal ==
    /\ Running /\ ~Legal(Instruction)
    /\ Step(Illegal(Begun(m), Instruction))

Next ==
    \/ ExecuteArithmetic \/ ExecuteBitwise \/ ExecuteTransfer
    \/ ExecuteFlow \/ ExecuteStatus \/ ExecuteIllegal

Spec == Init /\ [][Next]_vars

-----------------------------------------------------------------------------
(* What the 68000's manual says of each instruction, by which the steps    *)
(* are judged.                                                             *)

LengthOf(j) ==
    2 + Extension(j.src, j.n) + Extension(j.dst, j.n)
      + (IF j.op \in {"movem_re", "movem_er"} THEN 2 ELSE 0)

\* refused: there the program counter to return to is the instruction's own
Refused(b, j) == ~Legal(j) \/ (j.op \in Privileged /\ ~b.s)

HostTraps == {1, 2, 13, 14}

\* done, and trapped
Trapped(b, j) ==
    /\ ~Refused(b, j)
    /\ LET v == Operand(Begun(b), j.src, 2).v
           d == MAKE_INT(b.da[j.dst.r], 2)
       IN  \/ j.op = "divide" /\ v = 0
           \/ j.op = "chk" /\ (d < 0 \/ d > Signed(v, Half(2)))
           \/ j.op = "trapv" /\ b.ccr.V
           \/ j.op = "trap" /\ j.src.d \notin HostTraps

Excepted(b, j) == Refused(b, j) \/ Trapped(b, j)

VectorOf(j) ==
    CASE j.op = "1010" -> 10
      [] j.op = "1111" -> 11
      [] j.op \notin {"1010", "1111"} /\ ~Legal(j) -> 4
      [] j.op \in Privileged /\ Legal(j) -> 8
      [] j.op = "divide" /\ Legal(j) -> 5
      [] j.op = "chk" /\ Legal(j) -> 6
      [] j.op = "trapv" /\ Legal(j) -> 7
      [] j.op = "trap" /\ Legal(j) -> 32 + j.src.d

Vectors == {4, 5, 6, 7, 8, 10, 11} \cup 32 .. 47

\* whether the instruction sends the program elsewhere
Jumps(b, j) ==
    \/ j.op \in {"bra", "bsr", "jmp", "jsr", "rts", "rtr", "rte"}
    \/ j.op = "bcc" /\ Holds(j.how, b.ccr)
    \/ j.op = "dbcc" /\ ~Holds(j.how, b.ccr) /\ Low(b.da[j.dst.r], 2) # 0

BitOps == {"bchg_r", "bchg_rd", "bchg_s", "bchg_sd", "bclr_r", "bclr_rd", "bclr_s", "bclr_sd",
           "bset_r", "bset_rd", "bset_s", "bset_sd", "btst_r", "btst_rd", "btst_s", "btst_sd"}

\* the instructions that leave N and Z of their result, and V and C clear
Testing ==
    {"move_8", "move_16", "move_32", "moveq", "swap", "ext", "clr", "multiply",
     "and_er", "and_re", "andi", "or_er", "or_re", "ori", "eor", "eori", "not"}

KeepingFlags ==
    {"adda", "suba", "addq_a", "subq_a", "scc", "move_frs", "move_fru", "move_tou", "reset"}
    \cup (TransferOps \ Testing) \cup (FlowOps \ {"rtr"})

KeepingX == Testing \cup {"tst", "cmp", "cmpa", "cmpi", "cmpm", "divide", "chk", "tas"}

\* the flags an instruction may change
FlagsOf(j) ==
    IF ~Legal(j) \/ j.op \in KeepingFlags THEN {}
    ELSE IF j.op \in BitOps THEN {"Z"}
    ELSE IF j.op \in KeepingX \/ (j.op \in Shiftings /\ j.how \in {"rol", "ror"})
    THEN {"N", "Z", "V", "C"}
    ELSE {"X", "N", "Z", "V", "C"}

ReadOnly ==
    {"cmp", "cmpa", "cmpi", "cmpm", "tst", "chk", "btst_r", "btst_rd", "btst_s", "btst_sd"}

Pushing == {"pea", "link", "bsr", "jsr"}

OnStack == Pushing \cup {"unlk", "rts", "rtr", "rte"}

Stepped(e) == IF e.mode \in {"pi", "pd"} THEN {8 + e.r} ELSE {}

\* the registers an instruction may change
RegistersOf(j) ==
    Stepped(j.src) \cup Stepped(j.dst)
    \cup (IF j.dst.mode \in AD /\ j.op \notin ReadOnly THEN {NumberOf(j.dst)} ELSE {})
    \cup (IF j.op \in OnStack THEN {A7} ELSE {})
    \cup (IF j.op \in {"exg_da", "exg_aa"} THEN {NumberOf(j.src)} ELSE {})
    \cup (IF j.op = "movem_er" THEN j.list ELSE {})
    \cup (IF j.op = "trap" THEN {0} ELSE {})

\* where a mode has pointed, seen from the machine b it has left
Pointed(b, e, n) ==
    CASE e.mode = "pd" -> b.da[8 + e.r]
      [] e.mode = "pi" -> b.da[8 + e.r] - StepOf(e, n)
      [] OTHER         -> EA(b, e, n)

\* the bytes that a destination in memory comes to, one place or several
Target(b, j) ==
    LET at == Pointed(b, j.dst, j.n)
    IN  CASE j.op = "movem_re" ->
                UNION {Place(at + j.n * k, j.n) : k \in 0 .. Cardinality(j.list) - 1}
          [] j.op = "movep_re" -> UNION {Place(at + 2 * k, 1) : k \in 0 .. j.n - 1}
          [] OTHER -> Place(at, j.n)

\* the bytes an instruction may change: between a and b, its two ends
BytesOf(a, b, j) ==
    IF Excepted(a, j) THEN Place(b.da[A7], 2) \cup Place(b.da[A7] + 2, 4)
    ELSE IF j.op \in Pushing THEN Place(a.da[A7] - 4, 4)
    ELSE IF j.dst.mode \in Memory /\ j.op \notin ReadOnly
    THEN Target(b, j)
    ELSE {}

ResultOf(b, j) ==
    IF j.dst.mode = "d" THEN Low(b.da[j.dst.r], IF j.op = "multiply" THEN 4 ELSE j.n)
    ELSE Value(b, ADDRESS_68K(Pointed(b, j.dst, j.n)), j.n)

-----------------------------------------------------------------------------
(* What a program amounts to: the machine that another sequence of         *)
(* instructions makes of the one the program began with.                   *)

LOCAL SX == INSTANCE SequencesExt

After(b, j) ==
    CASE ~Legal(j)               -> Ended(Illegal(Begun(b), j))
      [] Legal(j) /\ j.op \in ArithmeticOps -> Ended(Arithmetic(Begun(b), j, FALSE))
      [] Legal(j) /\ j.op \in BitwiseOps  -> Ended(BitwiseOf(Begun(b), j, FALSE))
      [] Legal(j) /\ j.op \in TransferOps -> Ended(Transfer(Begun(b), j))
      [] Legal(j) /\ j.op \in StatusOps   -> Ended(Status(Begun(b), j))

Amounts == SX!FoldLeft(After, begin, program.same)

Finished == program.stop # 0 /\ m.run /\ ~m.stopped /\ m.pc \notin DOMAIN program.code

Outside(f, S) == [x \in DOMAIN f \ S |-> f[x]]

-----------------------------------------------------------------------------
\* Registers, program counter and memory hold values of their width, and
\* between instructions both program counters agree.
TypeOK ==
    /\ m \in MachinesWith(DOMAIN begin.ram)
    /\ m.ppc = m.pc

\* A program whose end is known gets there, and leaves what the instructions it
\* is written to be equal to leave, but for the scratch it names: what was
\* pushed comes back, what an exception interrupted goes on, a word that was
\* stored byte by byte is read as one, two ways to one flag agree.
Meaning == [][
    LET e == Amounts
    IN  Finished' =>
           /\ m'.pc = program.stop
           /\ Outside(m'.da, program.regs) = Outside(e.da, program.regs)
           /\ Outside(m'.ccr, program.flags) = Outside(e.ccr, program.flags)
           /\ Outside(m'.ram, program.scratch) = Outside(e.ram, program.scratch)
           /\ <<m'.s, m'.t1, m'.im, m'.banked>> = <<e.s, e.t1, e.im, e.banked>>
    ]_vars

\* Only the flags of its kind change by an instruction, and after one that
\* tests its result they are those of what it has left behind.
FlagsTell == [][
    LET j == Instruction
    IN  /\ \A f \in DOMAIN m.ccr : m'.ccr[f] # m.ccr[f] => f \in FlagsOf(j)
        /\ Legal(j) /\ j.op \in Testing /\ m'.run =>
               m'.ccr = Tested(ResultOf(m', j), m.ccr, IF j.op = "multiply" THEN 4 ELSE j.n)
    ]_vars

\* An instruction changes the registers and bytes it names and no others, and
\* of a data register the part of its size.
Footprint == [][
    LET j == Instruction
        wide == j.n = 4 \/ j.op \in {"multiply", "divide"}
    IN  /\ \A k \in DOMAIN m.da :
               m'.da[k] # m.da[k] =>
                   \/ Legal(j) /\ k \in RegistersOf(j)
                   \/ k = A7 /\ (Excepted(m, j) \/ m.s # m'.s)
        /\ Legal(j) /\ j.dst.mode = "d" /\ ~wide =>
               Upper(m'.da[j.dst.r], j.n) = Upper(m.da[j.dst.r], j.n)
        /\ {x \in DOMAIN m.ram : m'.ram[x] # m.ram[x]} \subseteq BytesOf(m, m', j)
    ]_vars

\* An exception goes through its vector in supervisor mode, untraced, and what
\* it leaves on the supervisor's stack is enough to go on: the status register
\* before it, and the address of the instruction refused or of the next one.
ExceptionsSave == [][
    LET j == Instruction
        sp == m'.da[A7]
    IN  Excepted(m, j) /\ m'.run =>
           /\ m'.s /\ ~m'.t1 /\ m'.im = m.im
           /\ m'.pc = Value(m', 4 * VectorOf(j), 4)
           /\ Value(m', ADDRESS_68K(sp), 2) = get_sr([m EXCEPT !.ccr = m'.ccr])
           /\ Value(m', ADDRESS_68K(sp + 2), 4)
                  = IF Refused(m, j) THEN m.pc ELSE Long(m.pc + LengthOf(j))
           /\ A7 \notin Stepped(j.src) =>
                  /\ sp = Long((IF m.s THEN m.da[A7] ELSE m.banked) - 6)
                  /\ m'.banked = IF m.s THEN m.banked ELSE m.da[A7]
    ]_vars

\* A program in user mode never changes the interrupt mask, the trace bit, the
\* other stack pointer or the mode itself: it becomes a supervisor only at the
\* address in a vector, untraced.  A supervisor changes them by privileged
\* instructions only.
ModeIsKept == [][
    LET Kept == <<m'.s, m'.t1, m'.im, m'.stopped, m'.banked>>
                    = <<m.s, m.t1, m.im, m.stopped, m.banked>>
        Entered == /\ \E v \in Vectors : m'.pc = Value(m', 4 * v, 4)
                   /\ m'.s /\ ~m'.t1 /\ ~m'.stopped /\ m'.im = m.im
    IN  IF m.s THEN Kept \/ Entered \/ Instruction.op \in Privileged
        ELSE Kept \/ Entered
    ]_vars

\* An instruction that neither jumps nor fails is followed by the next one:
\* every handler takes all the words that belong to it, however it ends.
Sequential == [][
    ~Excepted(m, Instruction) /\ ~Jumps(m, Instruction) =>
        m'.pc = Long(m.pc + LengthOf(Instruction))
    ]_vars

=============================================================================
