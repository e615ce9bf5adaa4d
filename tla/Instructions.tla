---------------------------- MODULE Instructions ----------------------------
(***************************************************************************)
(* The instruction handlers of m68k_in.c for the 68000: what each does to  *)
(* a machine.  An instruction i is decoded: i.op names the handler family  *)
(* (the name and the "spec proc" column of the opcode table), i.n is its   *)
(* size in bytes, i.src and i.dst are addressing modes, i.how a condition, *)
(* a shift or a kind of multiplication, i.list the registers of MOVEM.     *)
(* ppc and pc are those at the start of the handler: of the instruction,   *)
(* and behind its first word.                                              *)
(*                                                                         *)
(* The operand of the source is always evaluated before the destination's  *)
(* address, so a register both use is stepped in that order.               *)
(***************************************************************************)
EXTENDS Machine, Decimal, Shifter, Multiplier

-----------------------------------------------------------------------------
(* The opcode table: sizes and modes of each family.                       *)

Memory == {"ai", "pi", "pd", "di", "ix", "aw", "al"}     \* A+-DXWL...

Everything == Memory \cup {"pcdi", "pcix", "i"}          \* A+-DXWLdxI

Control == Memory \ {"pi", "pd"}                         \* A..DXWL...

ControlPc == Control \cup {"pcdi", "pcix"}               \* A..DXWLdx.

D == {"d"}
A == {"a"}
AD == {"a", "d"}
None == {"none"}

Row(n, src, dst) == [n |-> n, src |-> src, dst |-> dst]

All == {1, 2, 4}

RowsAdd ==
    [abcd_rr |-> Row({1}, D, D),
     abcd_mm |-> Row({1}, {"pd"}, {"pd"}),
     add_er  |-> Row(All, AD \cup Everything, D),
     add_re  |-> Row(All, D, Memory),
     adda    |-> Row({2, 4}, AD \cup Everything, A),
     addi    |-> Row(All, {"i"}, D \cup Memory),
     addq    |-> Row(All, {"q"}, D \cup Memory),
     addq_a  |-> Row({2, 4}, {"q"}, A),
     addx_rr |-> Row(All, D, D),
     addx_mm |-> Row(All, {"pd"}, {"pd"}),
     and_er  |-> Row(All, D \cup Everything, D),
     and_re  |-> Row(All, D, Memory),
     andi    |-> Row(All, {"i"}, D \cup Memory),
     andi_toc |-> Row({2}, {"i"}, None),
     andi_tos |-> Row({2}, {"i"}, None),
     bcc     |-> Row({1, 2}, {"q", "w"}, None),
     bchg_r  |-> Row({1}, D, Memory), bchg_s |-> Row({1}, {"w"}, Memory),
     bchg_rd |-> Row({4}, D, D),      bchg_sd |-> Row({4}, {"w"}, D),
     bclr_r  |-> Row({1}, D, Memory), bclr_s |-> Row({1}, {"w"}, Memory),
     bclr_rd |-> Row({4}, D, D),      bclr_sd |-> Row({4}, {"w"}, D)]

RowsBra ==
    [bra     |-> Row({1, 2}, {"q", "w"}, None),
     bset_r  |-> Row({1}, D, Memory), bset_s |-> Row({1}, {"w"}, Memory),
     bset_rd |-> Row({4}, D, D),      bset_sd |-> Row({4}, {"w"}, D),
     bsr     |-> Row({1, 2}, {"q", "w"}, None),
     btst_r  |-> Row({1}, D, Everything),
     btst_s  |-> Row({1}, {"w"}, Everything \ {"i"}),
     btst_rd |-> Row({4}, D, D),      btst_sd |-> Row({4}, {"w"}, D),
     chk     |-> Row({2}, D \cup Everything, D),
     clr     |-> Row(All, None, D \cup Memory),
     cmp     |-> Row(All, AD \cup Everything, D),
     cmpa    |-> Row({2, 4}, AD \cup Everything, A),
     cmpi    |-> Row(All, {"i"}, D \cup Memory),
     cmpm    |-> Row(All, {"pi"}, {"pi"}),
     dbcc    |-> Row({2}, {"w"}, D),
     divide  |-> Row({2}, D \cup Everything, D),
     eor     |-> Row(All, D, D \cup Memory),
     eori    |-> Row(All, {"i"}, D \cup Memory),
     eori_toc |-> Row({2}, {"i"}, None),
     eori_tos |-> Row({2}, {"i"}, None),
     exg_da  |-> Row({4}, D, AD),     exg_aa |-> Row({4}, A, A),
     ext     |-> Row({2, 4}, None, D),
     jmp     |-> Row({4}, ControlPc, None),
     jsr     |-> Row({4}, ControlPc, None),
     lea     |-> Row({4}, ControlPc, A),
     link    |-> Row({2}, {"w"}, A)]

RowsMove ==
    [move_8  |-> Row({1}, D \cup Everything, D \cup Memory),
     move_16 |-> Row({2}, AD \cup Everything, D \cup Memory),
     move_32 |-> Row({4}, AD \cup Everything, D \cup Memory),
     movea   |-> Row({2, 4}, AD \cup Everything, A),
     move_toc |-> Row({2}, D \cup Everything, None),
     move_frs |-> Row({2}, None, D \cup Memory),
     move_tos |-> Row({2}, D \cup Everything, None),
     move_fru |-> Row({4}, None, A),
     move_tou |-> Row({4}, A, None),
     movem_re |-> Row({2, 4}, None, {"pd"} \cup Control),
     movem_er |-> Row({2, 4}, {"pi"} \cup ControlPc, None),
     movep_re |-> Row({2, 4}, D, {"di"}),
     movep_er |-> Row({2, 4}, {"di"}, D),
     moveq   |-> Row({4}, {"q"}, D),
     multiply |-> Row({2}, D \cup Everything, D),
     nbcd    |-> Row({1}, None, D \cup Memory),
     neg     |-> Row(All, None, D \cup Memory),
     negx    |-> Row(All, None, D \cup Memory),
     nop     |-> Row({2}, None, None),
     not     |-> Row(All, None, D \cup Memory),
     or_er   |-> Row(All, D \cup Everything, D),
     or_re   |-> Row(All, D, Memory),
     ori     |-> Row(All, {"i"}, D \cup Memory),
     ori_toc |-> Row({2}, {"i"}, None),
     ori_tos |-> Row({2}, {"i"}, None),
     pea     |-> Row({4}, ControlPc, None),
     reset   |-> Row({2}, None, None)]

RowsShift ==
    [shift_s |-> Row(All, {"q"}, D),
     shift_r |-> Row(All, D, D),
     shift_m |-> Row({2}, None, Memory),
     rte     |-> Row({2}, None, None),
     rtr     |-> Row({2}, None, None),
     rts     |-> Row({2}, None, None),
     sbcd_rr |-> Row({1}, D, D),
     sbcd_mm |-> Row({1}, {"pd"}, {"pd"}),
     scc     |-> Row({1}, None, D \cup Memory),
     stop    |-> Row({2}, {"w"}, None),
     sub_er  |-> Row(All, AD \cup Everything, D),
     sub_re  |-> Row(All, D, Memory),
     suba    |-> Row({2, 4}, AD \cup Everything, A),
     subi    |-> Row(All, {"i"}, D \cup Memory),
     subq    |-> Row(All, {"q"}, D \cup Memory),
     subq_a  |-> Row({2, 4}, {"q"}, A),
     subx_rr |-> Row(All, D, D),
     subx_mm |-> Row(All, {"pd"}, {"pd"}),
     swap    |-> Row({4}, None, D),
     tas     |-> Row({1}, None, D \cup Memory),
     trap    |-> Row({2}, {"q"}, None),
     trapv   |-> Row({2}, None, None),
     tst     |-> Row(All, None, D \cup Memory),
     unlk    |-> Row({4}, None, A)]

Rows(op) ==
    CASE op \in DOMAIN RowsAdd   -> RowsAdd[op]
      [] op \in DOMAIN RowsBra   -> RowsBra[op]
      [] op \in DOMAIN RowsMove  -> RowsMove[op]
      [] op \in DOMAIN RowsShift -> RowsShift[op]
      [] OTHER                   -> Row({}, {}, {})

\* Bytes are never taken from an address register.  A branch holds a byte's
\* displacement itself; there 0 means the next word, and -1 a 32-bit branch.
Branches == {"bcc", "bra", "bsr"}

Legal(i) ==
    /\ i.n \in Rows(i.op).n
    /\ i.src.mode \in Rows(i.op).src
    /\ i.dst.mode \in Rows(i.op).dst
    /\ i.n = 1 => i.src.mode # "a"
    /\ i.op \in Branches /\ i.n = 1 => i.src.mode = "q" /\ i.src.d \notin {0, Low(-1, 1)}
    /\ i.op \in Branches /\ i.n = 2 => i.src.mode = "w"

-----------------------------------------------------------------------------
(* What most handlers do: fetch a source, then read, compute, set the      *)
(* condition codes and write back.                                         *)

Calculated(m, i, F(_, _, _, _)) ==
    LET s == Operand(m, i.src, i.n)
        d == Operand(s.m, i.dst, i.n)
        o == F(s.v, d.v, m.ccr, i.n)
    IN  Store([d.m EXCEPT !.ccr = o.ccr], i.dst, EA(s.m, i.dst, i.n), i.n, o.value)

Compared(m, i, F(_, _, _, _)) ==
    LET s == Operand(m, i.src, i.n)
        d == Operand(s.m, i.dst, i.n)
    IN  [d.m EXCEPT !.ccr = F(s.v, d.v, m.ccr, i.n)]

\* a value put there without a look at what was there
Put(m, i, v) == Store(Used(m, i.dst, i.n), i.dst, EA(m, i.dst, i.n), i.n, v)

Tested(r, f, n) ==
    [X |-> f.X, N |-> Negative(r, Half(n)), Z |-> r = 0, V |-> FALSE, C |-> FALSE]

Wide(n) == n = 4

Plus(s, d, f, n)   == Add(Wide(n), s, d, 0, Half(n))
PlusX(s, d, f, n)  == AddX(Wide(n), s, d, f, Half(n))
Minus(s, d, f, n)  == Sub(Wide(n), s, d, 0, Half(n))
MinusX(s, d, f, n) == SubX(Wide(n), s, d, f, Half(n))
Against(s, d, f, n) == Cmp(Wide(n), s, d, f, Half(n))

\* the &, | and ^ of C: what F makes of each bit of two bytes, and of four bytes
OfBytes(F(_, _), x, y) ==
    LET At(k) == AsOne(F(Bit(x, k), Bit(y, k)))
    IN  At(0) + 2 * At(1) + 4 * At(2) + 8 * At(3)
        + 16 * At(4) + 32 * At(5) + 64 * At(6) + 128 * At(7)

OfBits(F(_, _), x, y) ==
    LET At(k) == OfBytes(F, ByteOf(x, k), ByteOf(y, k))
    IN  At(0) + At(1) * 2^Bits(1) + At(2) * 2^Bits(2) + At(3) * 2^Bits(3)

And(x, y) == OfBits(LAMBDA p, q : p /\ q, x, y)
Or(x, y)  == OfBits(LAMBDA p, q : p \/ q, x, y)
Xor(x, y) == OfBits(LAMBDA p, q : p # q, x, y)

With(s, d, f, n)   == [value |-> And(s, d), ccr |-> Tested(And(s, d), f, n)]
Either(s, d, f, n) == [value |-> Or(s, d),  ccr |-> Tested(Or(s, d), f, n)]
Differ(s, d, f, n) == [value |-> Xor(s, d), ccr |-> Tested(Xor(s, d), f, n)]

-----------------------------------------------------------------------------
abcd_rr(m, i) == Calculated(m, i, LAMBDA s, d, f, n : abcd(s, d, f))
abcd_mm(m, i) == Calculated(m, i, LAMBDA s, d, f, n : abcd(s, d, f))
add_er(m, i) == Calculated(m, i, Plus)
add_re(m, i) == Calculated(m, i, Plus)
addi(m, i) == Calculated(m, i, Plus)
addq(m, i) == Calculated(m, i, Plus)
addx_rr(m, i) == Calculated(m, i, PlusX)
addx_mm(m, i) == Calculated(m, i, PlusX)
and_er(m, i) == Calculated(m, i, With)
and_re(m, i) == Calculated(m, i, With)
andi(m, i) == Calculated(m, i, With)

\* a plausible slip: the sum not cut to the width of a register
uncut(m, i, sign, late) ==
    LET s == Operand(m, i.src, i.n)
    IN  [s.m EXCEPT !.da[8 + i.dst.r] =
            (IF late THEN s.m ELSE m).da[8 + i.dst.r] + sign * MAKE_INT(s.v, i.n)]

\* An address register always changes as a whole, by the source sign-extended.
\* C does not say whether the register is read before or after the operand's
\* own steps: late tells which the build does.
AddToAddress(m, i, sign, late) ==
    LET s == Operand(m, i.src, i.n)
        base == (IF late THEN s.m ELSE m).da[8 + i.dst.r]
    IN  [s.m EXCEPT !.da[8 + i.dst.r] = Long(base + sign * MAKE_INT(s.v, i.n))]

adda(m, i, late) == AddToAddress(m, i, 1, late)
suba(m, i, late) == AddToAddress(m, i, -1, late)

addq_a(m, i) == [m EXCEPT !.da[8 + i.dst.r] = Long(@ + i.src.d)]
subq_a(m, i) == [m EXCEPT !.da[8 + i.dst.r] = Long(@ - i.src.d)]

sbcd_rr(m, i) == Calculated(m, i, LAMBDA s, d, f, n : sbcd(s, d, f))
sbcd_mm(m, i) == Calculated(m, i, LAMBDA s, d, f, n : sbcd(s, d, f))
sub_er(m, i) == Calculated(m, i, Minus)
sub_re(m, i) == Calculated(m, i, Minus)
subi(m, i) == Calculated(m, i, Minus)
subq(m, i) == Calculated(m, i, Minus)
subx_rr(m, i) == Calculated(m, i, MinusX)
subx_mm(m, i) == Calculated(m, i, MinusX)
nbcd_(m, i) == Calculated(m, i, LAMBDA s, d, f, n : nbcd(d, f))
neg(m, i) == Calculated(m, i, LAMBDA s, d, f, n : Neg(Wide(n), d, Half(n)))
negx(m, i) == Calculated(m, i, LAMBDA s, d, f, n : NegX(Wide(n), d, f, Half(n)))

not(m, i) ==
    Calculated(m, i, LAMBDA s, d, f, n : [value |-> Low(-1 - d, n),
                                          ccr |-> Tested(Low(-1 - d, n), f, n)])

or_er(m, i) == Calculated(m, i, Either)
or_re(m, i) == Calculated(m, i, Either)
ori(m, i) == Calculated(m, i, Either)
eor(m, i) == Calculated(m, i, Differ)
eori(m, i) == Calculated(m, i, Differ)

cmp(m, i) == Compared(m, i, Against)
cmpi(m, i) == Compared(m, i, Against)
cmpm(m, i) == Compared(m, i, Against)

cmpa(m, i) ==
    LET s == Operand(m, i.src, i.n)
        src == Long(MAKE_INT(s.v, i.n))
    IN  [s.m EXCEPT !.ccr = Cmp(TRUE, src, s.m.da[8 + i.dst.r], m.ccr, Half(4))]

tst(m, i) == Compared(m, i, LAMBDA s, d, f, n : Tested(d, f, n))

clr(m, i) == [Put(m, i, 0) EXCEPT !.ccr = Tested(0, m.ccr, i.n)]

\* the divisor or bound or factor is a word, the destination a data register
multiply(m, i) ==
    LET s == Operand(m, i.src, 2)
        d == Low(m.da[i.dst.r], 2)
        o == IF i.how = "mulu" THEN mulu(s.v, d, m.ccr, Half(2))
             ELSE muls(s.v, d, m.ccr, Half(2))
    IN  [s.m EXCEPT !.ccr = o.ccr, !.da[i.dst.r] = o.value]

divide(m, i) ==
    LET s == Operand(m, i.src, 2)
        d == m.da[i.dst.r]
        o == IF i.how = "divu" THEN divu(s.v, d, m.ccr, Half(2))
             ELSE divs(s.v, d, m.ccr, Half(2))
    IN  IF s.v = 0 THEN exception_trap(s.m, EXCEPTION_ZERO_DIVIDE)
        ELSE [s.m EXCEPT !.ccr = o.ccr, !.da[i.dst.r] = o.value]

chk(m, i) ==
    LET s == Operand(m, i.src, 2)
        src == MAKE_INT(m.da[i.dst.r], 2)
        f == [m.ccr EXCEPT !.Z = src = 0, !.V = FALSE, !.C = FALSE]
    IN  IF src >= 0 /\ src <= Signed(s.v, Half(2)) THEN [s.m EXCEPT !.ccr = f]
        ELSE exception_trap([s.m EXCEPT !.ccr = [f EXCEPT !.N = src < 0]], EXCEPTION_CHK)

\* sign extension of the lower half
ext(m, i) ==
    LET r == Low(MAKE_INT(m.da[i.dst.r], i.n \div 2), i.n)
    IN  [m EXCEPT !.da[i.dst.r] = Upper(@, i.n) + r, !.ccr = Tested(r, @, i.n)]

swap(m, i) ==
    LET d == m.da[i.dst.r]
        r == Low(d, 2) * 2^Bits(2) + (d \div 2^Bits(2))
    IN  [m EXCEPT !.da[i.dst.r] = r, !.ccr = Tested(r, @, 4)]

-----------------------------------------------------------------------------
(* Bits: of a whole data register or of a byte of memory.  Only Z changes, *)
(* to what the bit was not.                                                *)

BitOp(m, i, F(_)) ==
    LET Changed(s, d, f, n) ==
            LET k == s % Bits(n)
                w == 2^k
                set == Bit(d, k)
            IN  [value |-> d - (IF set THEN w ELSE 0) + (IF F(set) THEN w ELSE 0),
                 ccr |-> [f EXCEPT !.Z = ~set]]
    IN  Calculated(m, i, Changed)

bchg(m, i) == BitOp(m, i, LAMBDA set : ~set)
bclr(m, i) == BitOp(m, i, LAMBDA set : FALSE)
bset(m, i) == BitOp(m, i, LAMBDA set : TRUE)

btst(m, i) ==
    Compared(m, i, LAMBDA s, d, f, n : [f EXCEPT !.Z = ~Bit(d, s % Bits(n))])

tas(m, i) ==
    Calculated(m, i, LAMBDA s, d, f, n :
        [value |-> IF Msb(d, Bits(1)) THEN d ELSE d + Half(1), ccr |-> Tested(d, f, 1)])

\* st and sf are scc with the conditions that are constant
scc(m, i) == Put(m, i, IF Holds(i.how, m.ccr) THEN Low(-1, 1) ELSE 0)

shift_s(m, i) ==
    Calculated(m, i, LAMBDA s, d, f, n : ByImmediate(i.how, d, s, Bits(n), Wide(n), f))

\* the count is the register modulo 64
shift_r(m, i, undef) ==
    LET count == m.da[i.src.r] % 64
    IN  Calculated(m, i, LAMBDA s, d, f, n :
            ByRegister(i.how, d, count, Bits(n), Wide(n), undef, f))

shift_m(m, i) ==
    Calculated(m, i, LAMBDA s, d, f, n : InMemory(i.how, d, Bits(2), f))

=============================================================================
