------------------------------ MODULE Shifter -------------------------------
(***************************************************************************)
(* The shifts and rotates of m68k_in.c.  n is the width in bits, k the     *)
(* count, ccr the condition codes before.  Every operation exists three    *)
(* times in the code: with the count in the instruction (_s: 1 to 8), with *)
(* the count in a register (_r: 0 to 63) and on a word of memory, by one   *)
(* (_m).  wide is TRUE for the 32-bit rotates through X, which have no     *)
(* room for the extra bit and put it in its place by hand.                 *)
(***************************************************************************)
EXTENDS Integers

Bit(x, k) == (x \div 2^k) % 2 = 1

Msb(x, n) == Bit(x, n - 1)

LSL(x, k, n) == (x % 2^(n - k)) * 2^k

LSR(x, k) == x \div 2^k

\* the tables m68ki_shift_8_table, _16_ and _32_: the k highest bits
shift_table(k, n) == IF k < n THEN 2^n - 2^(n - k) ELSE 2^n - 1

Result(r, n, x, v, c) ==
    [value |-> r, ccr |-> [X |-> x, N |-> Msb(r, n), Z |-> r = 0, V |-> v, C |-> c]]

\* a count of zero: the operand's own flags, C clear, X as it was
ByNone(src, n, ccr) == Result(src, n, ccr.X, FALSE, FALSE)

-----------------------------------------------------------------------------
asr_s(src, k, n, ccr) ==
    LET filled == IF Msb(src, n) THEN shift_table(k, n) ELSE 0
    IN  Result(LSR(src, k) + filled, n, Bit(src, k - 1), FALSE, Bit(src, k - 1))

asr_r(src, k, n, ccr) ==
    IF k = 0 THEN ByNone(src, n, ccr)
    ELSE IF k < n THEN asr_s(src, k, n, ccr)
    ELSE LET sign == Msb(src, n)
         IN  Result(IF sign THEN 2^n - 1 ELSE 0, n, sign, FALSE, sign)

asr_m(src, n, ccr) == asr_s(src, 1, n, ccr)

\* a plausible slip: V tells whether the sign changed in the end
lastSignOnly(src, k, n, ccr) ==
    LET r == LSL(src, k, n)
    IN  Result(r, n, Bit(src, n - k), Msb(r, n) # Msb(src, n), Bit(src, n - k))

\* V: not all of the bits that pass the sign are the same
asl_s(src, k, n, ccr) ==
    LET passing == src - (src % 2^(IF k < n THEN n - k - 1 ELSE 0))
        same == \/ passing = 0
                \/ passing = shift_table(k + 1, n) /\ k < n
    IN  Result(LSL(src, k, n), n, Bit(src, n - k), ~same, Bit(src, n - k))

asl_r(src, k, n, ccr) ==
    IF k = 0 THEN ByNone(src, n, ccr)
    ELSE IF k < n THEN asl_s(src, k, n, ccr)
    ELSE LET last == k = n /\ Bit(src, 0)
         IN  Result(0, n, last, src # 0, last)

asl_m(src, n, ccr) == asl_s(src, 1, n, ccr)

-----------------------------------------------------------------------------
lsr_s(src, k, n, ccr) ==
    Result(LSR(src, k), n, Bit(src, k - 1), FALSE, Bit(src, k - 1))

lsr_r(src, k, n, ccr) ==
    IF k = 0 THEN ByNone(src, n, ccr)
    ELSE IF k <= n THEN lsr_s(src, k, n, ccr)
    ELSE Result(0, n, FALSE, FALSE, FALSE)

lsr_m(src, n, ccr) == lsr_s(src, 1, n, ccr)

lsl_s(src, k, n, ccr) ==
    Result(LSL(src, k, n), n, Bit(src, n - k), FALSE, Bit(src, n - k))

lsl_r(src, k, n, ccr) ==
    IF k = 0 THEN ByNone(src, n, ccr)
    ELSE IF k <= n THEN lsl_s(src, k, n, ccr)
    ELSE Result(0, n, FALSE, FALSE, FALSE)

lsl_m(src, n, ccr) == lsl_s(src, 1, n, ccr)

-----------------------------------------------------------------------------
\* the rotates leave X alone

ROR(src, k, n) == LSR(src, k % n) + LSL(src, n - (k % n), n)

ROL(src, k, n) == LSL(src, k % n, n) + LSR(src, n - (k % n))

\* a plausible slip: the bit behind the last one rotated
rorNextBit(src, k, n, ccr) ==
    IF k = 0 THEN ByNone(src, n, ccr)
    ELSE Result(ROR(src, k, n), n, ccr.X, FALSE, Bit(src, k % n))

ror_s(src, k, n, ccr) == Result(ROR(src, k, n), n, ccr.X, FALSE, Bit(src, k - 1))

ror_r(src, k, n, ccr) ==
    IF k = 0 THEN ByNone(src, n, ccr)
    ELSE Result(ROR(src, k, n), n, ccr.X, FALSE, Bit(src, (k - 1) % n))

ror_m(src, n, ccr) == ror_s(src, 1, n, ccr)

rol_s(src, k, n, ccr) == Result(ROL(src, k, n), n, ccr.X, FALSE, Bit(src, n - k))

\* Rotated by the whole width, the 32-bit handler shifts a 32-bit value by 32
\* for the carry, which C leaves undefined: undef is what the build makes of it.
rol_r(src, k, n, wide, undef, ccr) ==
    IF k = 0 THEN ByNone(src, n, ccr)
    ELSE Result(ROL(src, k, n), n, ccr.X, FALSE,
                IF k % n # 0 THEN Bit(src, n - (k % n))
                ELSE IF wide THEN undef ELSE Bit(src, 0))

rol_m(src, n, ccr) == rol_s(src, 1, n, ccr)

-----------------------------------------------------------------------------
\* the rotates through X, of n + 1 bits: XFLAG_AS_1() << n and the operand

WithX(src, n, ccr) == src + (IF ccr.X THEN 2^n ELSE 0)

Through(y, n) == Result(y % 2^n, n, Bit(y, n), FALSE, Bit(y, n))

\* ROR_33 and ROL_33 of the operand alone, and the old X put into the gap
ror33(src, k, n, ccr) ==
    LET r == LSR(src, k) + LSL(src, n + 1 - k, n)
             + (IF ccr.X THEN 2^(n - k) ELSE 0)
    IN  Result(r, n, Bit(src, k - 1), FALSE, Bit(src, k - 1))

rol33(src, k, n, ccr) ==
    LET r == LSL(src, k, n) + LSR(src, n + 1 - k)
             + (IF ccr.X THEN 2^(k - 1) ELSE 0)
    IN  Result(r, n, Bit(src, n - k), FALSE, Bit(src, n - k))

roxr_s(src, k, n, wide, ccr) ==
    IF wide THEN ror33(src, k, n, ccr)
    ELSE Through(ROR(WithX(src, n, ccr), k, n + 1), n)

roxr_r(src, k, n, wide, ccr) ==
    IF k % (n + 1) = 0 THEN Result(src, n, ccr.X, FALSE, ccr.X)
    ELSE roxr_s(src, k % (n + 1), n, wide, ccr)

roxr_m(src, n, ccr) == roxr_s(src, 1, n, FALSE, ccr)

roxl_s(src, k, n, wide, ccr) ==
    IF wide THEN rol33(src, k, n, ccr)
    ELSE Through(ROL(WithX(src, n, ccr), k, n + 1), n)

roxl_r(src, k, n, wide, ccr) ==
    IF k % (n + 1) = 0 THEN Result(src, n, ccr.X, FALSE, ccr.X)
    ELSE roxl_s(src, k % (n + 1), n, wide, ccr)

roxl_m(src, n, ccr) == roxl_s(src, 1, n, FALSE, ccr)

-----------------------------------------------------------------------------
\* the eight of each form

Shifts == {"asr", "asl", "lsr", "lsl", "ror", "rol", "roxr", "roxl"}

ByImmediate(op, src, k, n, wide, f) ==
    CASE op = "asr"  -> asr_s(src, k, n, f)
      [] op = "asl"  -> asl_s(src, k, n, f)
      [] op = "lsr"  -> lsr_s(src, k, n, f)
      [] op = "lsl"  -> lsl_s(src, k, n, f)
      [] op = "ror"  -> ror_s(src, k, n, f)
      [] op = "rol"  -> rol_s(src, k, n, f)
      [] op = "roxr" -> roxr_s(src, k, n, wide, f)
      [] op = "roxl" -> roxl_s(src, k, n, wide, f)

ByRegister(op, src, k, n, wide, undef, f) ==
    CASE op = "asr"  -> asr_r(src, k, n, f)
      [] op = "asl"  -> asl_r(src, k, n, f)
      [] op = "lsr"  -> lsr_r(src, k, n, f)
      [] op = "lsl"  -> lsl_r(src, k, n, f)
      [] op = "ror"  -> ror_r(src, k, n, f)
      [] op = "rol"  -> rol_r(src, k, n, wide, undef, f)
      [] op = "roxr" -> roxr_r(src, k, n, wide, f)
      [] op = "roxl" -> roxl_r(src, k, n, wide, f)

InMemory(op, src, n, f) ==
    CASE op = "asr"  -> asr_m(src, n, f)
      [] op = "asl"  -> asl_m(src, n, f)
      [] op = "lsr"  -> lsr_m(src, n, f)
      [] op = "lsl"  -> lsl_m(src, n, f)
      [] op = "ror"  -> ror_m(src, n, f)
      [] op = "rol"  -> rol_m(src, n, f)
      [] op = "roxr" -> roxr_m(src, n, f)
      [] op = "roxl" -> roxl_m(src, n, f)

=============================================================================
