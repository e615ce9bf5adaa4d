------------------------------- MODULE MCCpu --------------------------------
(***************************************************************************)
(* Bytes of six bits, words of twelve, longs of twenty-four.  Addresses:   *)
(*    16 ..  47   the vectors 4 to 11, each of the address of Handler      *)
(*    52 ..  59   Handler: steps over the instruction that was refused     *)
(*    60 ..  61   Return: where the vectors of completed instructions lead *)
(*    64 ..       the program                                              *)
(*    88 .. 125   its data, from below, and its stack, from above          *)
(*   128 .. 131   the vector of trap #0                                    *)
(*   132 .. 149   the supervisor's stack                                   *)
(***************************************************************************)
EXTENDS Cpu, SequencesExt

MCRom ==
    LET to(v) == IF v \in {5, 6, 7, 32} THEN 60 ELSE 52
    IN  [x \in 16 .. 47 \cup 128 .. 131 |-> IF x % 4 = 3 THEN to(x \div 4) ELSE 0]

Cells == 88 .. 125 \cup 132 .. 149

-----------------------------------------------------------------------------
(* The machines: operands at the boundaries of their sizes, flags, modes.  *)

Start(d0, d1, x, s, t1, a0) ==
    [da |-> [k \in 0 .. 15 |->
                CASE k = 0 -> d0
                  [] k = 1 -> d1
                  [] k = 2 -> 2
                  [] k = 8 -> a0
                  [] k = 9 -> 110
                  [] k = 15 -> IF s THEN 144 ELSE 120
                  [] OTHER -> 0],
     banked |-> IF s THEN 120 ELSE 144,
     pc |-> 64, ppc |-> 64,
     ccr |-> [X |-> x, N |-> ~x, Z |-> x, V |-> d0 > d1, C |-> ~x],
     s |-> s, t1 |-> t1, im |-> IF t1 THEN 5 ELSE 3,
     stopped |-> FALSE, run |-> TRUE,
     ram |-> [a \in Cells |-> (a * 11 + d0) % 64]]

MCMachines ==
    {Start(0, 16777215, FALSE, FALSE, FALSE, 100),
     Start(1, 8388608, TRUE, TRUE, FALSE, 100),
     Start(31, 32, TRUE, FALSE, FALSE, 102),
     Start(2047, 2048, FALSE, TRUE, TRUE, 100),
     Start(4095, 4096, TRUE, FALSE, FALSE, 99),
     Start(8388607, 1, FALSE, FALSE, FALSE, 100),
     Start(8388608, 4095, TRUE, TRUE, FALSE, 97),
     Start(16777215, 8388607, FALSE, TRUE, FALSE, 104),
     Start(5592405, 11184810, TRUE, FALSE, TRUE, 100),
     Start(88, 6, FALSE, TRUE, FALSE, 98)}

-----------------------------------------------------------------------------
(* Operands and instructions.                                              *)

Operand_(mode, r, d) == [mode |-> mode, r |-> r, d |-> d, x |-> 2, long |-> r = 1]

d(r) == Operand_("d", r, 0)
a(r) == Operand_("a", r, 0)
none == Operand_("none", 0, 0)
ai(r) == Operand_("ai", r, 0)
pi(r) == Operand_("pi", r, 0)
pd(r) == Operand_("pd", r, 0)
di(r, o) == Operand_("di", r, o)
al(o) == Operand_("al", 0, o)
q(v) == Operand_("q", 0, v)
w(v) == Operand_("w", 0, v)
imm(v) == Operand_("i", 0, v)

Ins(op, n, src, dst, how, list) ==
    [op |-> op, n |-> n, src |-> src, dst |-> dst, how |-> how, list |-> list]

I(op, n, src, dst) == Ins(op, n, src, dst, "", {})

Hows(op) ==
    CASE op \in {"shift_s", "shift_r", "shift_m"} -> Shifts
      [] op \in {"scc", "dbcc"} -> Conditions \cup {"t", "f"}
      [] op = "bcc"      -> Conditions
      [] op = "multiply" -> {"mulu", "muls"}
      [] op = "divide"   -> {"divu", "divs"}
      [] OTHER           -> {""}

Lists(op) ==
    CASE op \in {"movem_re", "movem_er"} -> {{}, {1, 8}, {0, 1, 15}}
      [] OTHER -> {{}}

Quick(op, n) ==
    CASE op \in {"addq", "subq", "addq_a", "subq_a"} -> {1, 8}
      [] op = "shift_s" -> IF n = 1 THEN {1, 2, 6} ELSE {1, 5, 8}
      [] op = "moveq"   -> {0, 31, 40}
      [] op = "trap"    -> {0, 1, 2}
      [] OTHER          -> {4, 60}

\* one or two of each mode
Modes(op, n, mode) ==
    CASE mode = "d"  -> {d(0), d(1)}
      [] mode = "a"  -> {a(0), a(7)}
      [] mode = "ai" -> {ai(0)}
      [] mode = "pi" -> {pi(0), pi(7)}
      [] mode = "pd" -> {pd(0), pd(7)}
      [] mode = "di" -> {di(0, 3), di(0, 4095)}
      [] mode = "ix" -> {Operand_("ix", 0, 63), Operand_("ix", 1, 1)}
      [] mode = "aw" -> {Operand_("aw", 0, 98), Operand_("aw", 0, 20)}
      [] mode = "al" -> {al(101)}
      [] mode = "pcdi" -> {Operand_("pcdi", 0, 36)}
      [] mode = "pcix" -> {Operand_("pcix", 0, 30)}
      [] mode = "i"  -> {imm(0), imm(6), imm(33), imm(16777215)}
      [] mode = "w"  -> {w(1), w(34)} \cup (IF op = "dbcc" THEN {} ELSE {w(4094)})
      [] mode = "q"  -> {q(v) : v \in Quick(op, n)}
      [] mode = "none" -> {none}

Targets(op, n, mode) ==
    IF mode = "d" THEN {d(1)} ELSE IF mode = "a" THEN {a(0)} ELSE Modes(op, n, mode)

Forms(op) ==
    UNION {UNION {UNION {
        {Ins(op, n, src, dst, how, list) :
            src \in Modes(op, n, sm), dst \in Targets(op, n, dm),
            how \in Hows(op), list \in Lists(op)}
        : dm \in Rows(op).dst} : sm \in Rows(op).src} : n \in Rows(op).n}

Ops == UNION {DOMAIN RowsAdd, DOMAIN RowsBra, DOMAIN RowsMove, DOMAIN RowsShift}

\* what the 68000 does not have, and modes an instruction does not take
Foreign ==
    {I("1010", 2, none, none), I("1111", 2, none, none), I("illegal", 2, none, none),
     I("rtd", 2, w(4), none), I("move_frc", 2, none, d(1)),
     I("add_er", 1, a(0), d(1)), I("addi", 2, imm(1), a(0)), I("tst", 2, none, a(0)),
     I("lea", 4, pi(0), a(0)), I("jmp", 4, d(0), none), I("btst_s", 1, w(1), imm(1)),
     I("bcc", 1, q(0), none), I("bra", 1, q(63), none)}

-----------------------------------------------------------------------------
(* The programs.  One of a single instruction ends anywhere.               *)

Nowhere == 0

Single(i) == [code |-> 64 :> i, stop |-> Nowhere, same |-> <<>>, regs |-> {}, flags |-> {},
              scratch |-> {}]

Handlers == 52 :> I("addq", 4, q(2), di(7, 2)) @@ 56 :> I("rte", 2, none, none)
            @@ 60 :> I("rte", 2, none, none)

\* consecutive instructions from address 64 on, and the address behind them
Placed(s) ==
    FoldLeft(LAMBDA o, j : [at |-> o.at + LengthOf(j), code |-> o.code @@ (o.at :> j)],
             [at |-> 64, code |-> Handlers], s)

Line(s, same, regs, flags, scratch) ==
    [code |-> Placed(s).code, stop |-> Placed(s).at,
     same |-> same, regs |-> regs, flags |-> flags, scratch |-> scratch]

Stacks == 104 .. 119 \cup 132 .. 143

Tests == {"N", "Z", "V", "C"}
AllFlags == Tests \cup {"X"}

MoveOf(n) == CASE n = 1 -> "move_8" [] n = 2 -> "move_16" [] n = 4 -> "move_32"

Move(n, src, dst) == I(MoveOf(n), n, src, dst)

\* what undoes itself
Undone(n) ==
    {Line(<<I("neg", n, none, d(0)), I("neg", n, none, d(0))>>, <<>>, {}, AllFlags, {}),
     Line(<<I("not", n, none, d(0)), I("not", n, none, d(0))>>, <<>>, {}, Tests, {}),
     Line(<<I("eor", n, d(0), d(1)), I("eor", n, d(0), d(1))>>, <<>>, {}, Tests, {}),
     Line(<<I("add_er", n, d(0), d(1)), I("sub_er", n, d(0), d(1))>>, <<>>, {}, AllFlags, {}),
     Line(<<I("sub_re", n, d(0), ai(0)), I("add_re", n, d(0), ai(0))>>, <<>>, {}, AllFlags, {})}
    \cup
    {Line(<<Ins("shift_s", n, q(k), d(0), x[1], {}), Ins("shift_s", n, q(k), d(0), x[2], {})>>,
          <<>>, {}, Tests, {}) :
        k \in Quick("shift_s", n), x \in {<<"rol", "ror">>, <<"roxl", "roxr">>, <<"roxr", "roxl">>}}

\* two ways to one thing
Equal(n) ==
    {Line(<<Ins("shift_s", n, q(1), d(0), "asl", {})>>, <<I("add_er", n, d(0), d(0))>>, {}, {}, {}),
     Line(<<Ins("shift_s", n, q(1), d(0), "roxl", {})>>, <<I("addx_rr", n, d(0), d(0))>>,
          {}, {"Z", "V"}, {}),
     Line(<<I("neg", n, none, d(0))>>,
          <<I("moveq", 4, q(0), d(1)), I("sub_er", n, d(0), d(1))>>, {0, 1}, {}, {}),
     Line(<<I("cmp", n, d(0), d(1))>>, <<I("sub_er", n, d(0), d(1))>>, {1}, {"X"}, {}),
     Line(<<I("tst", n, none, d(0))>>, <<I("cmpi", n, imm(0), d(0))>>, {}, {}, {}),
     Line(<<I("clr", n, none, ai(0))>>, <<I("andi", n, imm(0), ai(0))>>, {}, {}, {}),
     Line(<<I("move_toc", 2, imm(4), none), I("negx", n, none, d(0))>>,
          <<I("neg", n, none, d(0))>>, {}, {}, {}),
     Line(<<I("move_toc", 2, imm(4), none), I("subx_rr", n, d(0), d(1))>>,
          <<I("sub_er", n, d(0), d(1))>>, {}, {}, {}),
     Line(<<I("cmpm", n, pi(0), pi(1))>>,
          <<Move(n, pi(0), d(0)), Move(n, pi(1), d(1)), I("cmp", n, d(0), d(1))>>, {0, 1}, {}, {}),
     Line(<<I("addx_mm", n, pd(0), pd(1))>>,
          <<Move(n, pd(0), d(0)), Move(n, pd(1), d(1)), I("addx_rr", n, d(0), d(1)),
            Move(n, d(1), ai(1))>>, {0, 1}, Tests, {}),
     Line(<<Move(n, d(0), pd(7)), Move(n, pi(7), d(0))>>,
          <<I("tst", n, none, d(0))>>, {}, {}, Stacks)}

\* data moved in several ways
Data ==
    {Line(<<I("exg_da", 4, d(0), a(0)), I("exg_da", 4, d(0), a(0))>>, <<>>, {}, {}, {}),
     Line(<<I("swap", 4, none, d(0)), I("swap", 4, none, d(0))>>, <<>>, {}, Tests, {}),
     Line(<<I("eor", 4, d(0), d(1)), I("eor", 4, d(1), d(0)), I("eor", 4, d(0), d(1))>>,
          <<I("exg_da", 4, d(0), d(1))>>, {}, Tests, {}),
     Line(<<I("lea", 4, di(0, 4093), a(1))>>,
          <<I("movea", 4, a(0), a(1)), I("adda", 2, imm(4093), a(1))>>, {}, {}, {}),
     Line(<<I("lea", 4, di(0, 5), a(0))>>, <<I("addq_a", 2, q(5), a(0))>>, {}, {}, {}),
     Line(<<I("pea", 4, di(0, 3), none)>>,
          <<I("lea", 4, di(0, 3), a(1)), Move(4, a(1), pd(7))>>, {9}, Tests, {}),
     Line(<<I("movea", 2, d(0), a(1))>>,
          <<Move(2, d(0), d(1)), I("ext", 4, none, d(1)), I("movea", 4, d(1), a(1))>>,
          {1}, Tests, {}),
     \* in the list of -(An) register k has bit 15 - k; a byte moves the stack by two
     Line(<<Move(1, d(0), pd(7)), I("addq_a", 2, q(2), a(7))>>,
          <<I("tst", 1, none, d(0))>>, {}, {}, Stacks),
     Line(<<Ins("movem_re", 2, none, pd(7), "", {15}), Ins("movem_er", 2, pi(7), none, "", {0})>>,
          <<I("ext", 4, none, d(0))>>, {}, Tests, Stacks),
     Line(<<Ins("movem_re", 4, none, pd(7), "", {15, 14, 7}), I("moveq", 4, q(0), d(0)),
            I("moveq", 4, q(1), d(1)), I("movea", 4, d(0), a(0)),
            Ins("movem_er", 4, pi(7), none, "", {0, 1, 8})>>, <<>>, {}, Tests, Stacks),
     Line(<<Ins("movem_re", 4, none, pd(0), "", {15, 14})>>,
          <<Move(4, d(1), pd(0)), Move(4, d(0), pd(0))>>, {}, Tests, {}),
     Line(<<Ins("movem_re", 2, none, di(0, 2), "", {0, 1})>>,
          <<Move(2, d(0), di(0, 2)), Move(2, d(1), di(0, 4))>>, {}, Tests, {}),
     Line(<<Ins("movem_er", 4, pi(0), none, "", {0, 1})>>,
          <<Move(4, pi(0), d(0)), Move(4, pi(0), d(1))>>, {}, Tests, {}),
     Line(<<I("movep_re", 4, d(0), di(0, 0)), I("movep_er", 4, di(0, 0), d(1))>>,
          <<Move(4, d(0), d(1))>>, {}, Tests, 96 .. 112),
     Line(<<I("add_re", 2, d(0), ai(0))>>,
          <<Move(2, ai(0), d(1)), I("add_er", 2, d(0), d(1)), Move(2, d(1), ai(0))>>,
          {1}, Tests, {}),
     Line(<<I("tas", 1, none, ai(0))>>,
          <<I("tst", 1, none, ai(0)), I("bset_s", 1, w(5), ai(0))>>, {}, {"Z"}, {}),
     Line(<<I("bchg_rd", 4, d(1), d(0)), I("bchg_rd", 4, d(1), d(0))>>, <<>>, {}, {"Z"}, {}),
     Line(<<Ins("multiply", 2, imm(4), d(0), "mulu", {})>>,
          <<I("andi", 4, imm(4095), d(0)), Ins("shift_s", 4, q(2), d(0), "lsl", {})>>,
          {}, {"X"}, {}),
     Line(<<Ins("multiply", 2, imm(4095), d(0), "muls", {})>>,
          <<I("ext", 4, none, d(0)), I("neg", 4, none, d(0))>>, {}, {"X", "V", "C"}, {})}

\* what is called, framed, interrupted or looped comes to its end
Calls ==
    {Line(<<I("link", 2, w(4092), a(k)), I("unlk", 4, none, a(k))>>, <<>>, {}, {}, Stacks) :
        k \in {0, 6}}
    \cup
    {Line(<<call, I("bra", 1, q(2), none), I("rts", 2, none, none)>>, <<>>, {}, {}, Stacks) :
        call \in {I("bsr", 1, q(2), none), I("bsr", 2, w(4), none), I("jsr", 4, al(72), none)}}
    \cup
    {Line(<<I("pea", 4, al(74), none), I("move_frs", 2, none, pd(7)), I("rtr", 2, none, none)>>,
          <<>>, {}, {}, Stacks),
     Line(<<I("moveq", 4, q(3), d(1)), I("lea", 4, al(98), a(1)), I("clr", 1, none, pi(1)),
            Ins("dbcc", 2, w(4092), d(1), "f", {})>>,
          <<I("lea", 4, al(98), a(1)), I("clr", 4, none, pi(1)), I("moveq", 4, q(3), d(1)),
            I("subq", 2, q(4), d(1))>>, {}, AllFlags, {}),
     Line(<<I("move_frs", 2, none, d(0)), I("move_tos", 2, d(0), none)>>,
          <<I("move_frs", 2, none, d(0))>>, {}, {}, Stacks),
     Line(<<I("move_fru", 4, none, a(1)), I("move_tou", 4, a(1), none)>>, <<>>, {9}, {}, Stacks),
     Line(<<I("andi_toc", 2, imm(11), none), I("ori_toc", 2, imm(4), none),
            I("eori_toc", 2, imm(5), none)>>,
          <<I("andi_toc", 2, imm(10), none), I("andi_toc", 2, imm(58), none),
            I("ori_toc", 2, imm(0), none)>>, {}, {"C"}, {})}
    \cup
    {Line(<<j>>, <<>>, {}, {}, Stacks) :
        j \in {I("trap", 2, q(0), none), I("reset", 2, none, none), I("nop", 2, none, none),
               I("1010", 2, none, none), I("1111", 2, none, none), I("illegal", 2, none, none)}}
    \cup
    {Line(<<I("trapv", 2, none, none)>>, <<>>, {}, {}, Stacks),
     Line(<<Ins("divide", 2, imm(0), d(0), "divs", {})>>, <<>>, {}, {}, Stacks),
     Line(<<I("chk", 2, imm(9), d(1))>>, <<>>, {}, Tests, Stacks)}
    \cup
    {Line(<<Ins("bcc", 2, w(6), none, c, {}), Ins("scc", 1, none, d(0), "f", {}),
            I("bra", 1, q(2), none), Ins("scc", 1, none, d(0), "t", {})>>,
          <<Ins("scc", 1, none, d(0), c, {})>>, {}, {}, {}) : c \in Conditions}

MCPrograms ==
    {Single(i) : i \in UNION {Forms(op) : op \in Ops} \cup Foreign}
    \cup UNION {Undone(n) \cup Equal(n) : n \in {1, 2, 4}} \cup Data \cup Calls

MCAnswers == {0, 16777215}

=============================================================================
