----------------------------- MODULE Arithmetic -----------------------------
(***************************************************************************)
(* The arithmetic of the 68000 core at work: what programs build from      *)
(* several instructions and their condition codes.                         *)
(*                                                                         *)
(*   chain    numbers of several parts are added, subtracted or negated    *)
(*            part by part, the lowest first, the X and Z flags carrying   *)
(*            over; in binary or in decimal digits;                        *)
(*   compare  a comparison is followed by conditional branches;            *)
(*   shift    an operand is shifted or rotated by one bit more each time;  *)
(*   divide   a dividend is divided and put together again.                *)
(*                                                                         *)
(* Every part of a chain is one instruction of m68k_in.c.  The variables   *)
(* a, b and r hold the numbers of the parts done so far, each in           *)
(* 0 .. range - 1.                                                         *)
(***************************************************************************)
EXTENDS Decimal, Shifter, Multiplier

CONSTANTS Width,      \* the bits of the sizes "b", "w" and "l"
          Parts,      \* how many parts a number has at most, by size
          Digits,     \* the decimal bytes used behind the first one
          Immediate   \* the highest count an instruction holds

Sizes == {"b", "w", "l"}

ASSUME ArithmeticAssumption ==
    /\ Width \in [Sizes -> Nat \ {0}]
    /\ Parts \in [Sizes -> Nat]
    /\ Digits \subseteq 0 .. Nibble * Nibble - 1
    /\ Immediate \in Nat \ {0}
    /\ \A size \in Sizes : Immediate <= Width[size]
    /\ Immediate < Width["l"]

VARIABLES job,        \* what is being computed: what, op, size and the flags before
          a, b, r,    \* two operands and the result
          range,      \* how many numbers the parts done so far can hold
          parts,      \* parts, counts or instructions done
          ccr

vars == <<job, a, b, r, range, parts, ccr>>

Half(size) == 2^(Width[size] - 1)

Wide(size) == size = "l"

Flags == [X : BOOLEAN, N : BOOLEAN, Z : BOOLEAN, V : BOOLEAN, C : BOOLEAN]

\* move #4,ccr, as a program starts a chain: Z set, and X as the case may be
Start(x) == [X |-> x, N |-> FALSE, Z |-> TRUE, V |-> FALSE, C |-> FALSE]

Binary == {"add", "sub", "neg"}

Decimals == {"abcd", "sbcd", "nbcd"}

Divisions == {"divu", "divs"}

Jobs ==
    [what : {"chain"}, op : Binary, size : Sizes, x : BOOLEAN]
    \cup [what : {"chain"}, op : Decimals, size : {"b"}, x : BOOLEAN]
    \cup [what : {"compare"}, op : {"cmp"}, size : Sizes, x : BOOLEAN]
    \cup [what : {"shift"}, op : Shifts, size : Sizes, x : BOOLEAN]
    \cup [what : {"divide"}, op : Divisions, size : {"w"}, x : BOOLEAN]

\* the numbers one part of a number may be
Valid(byte) == LOW_NIBBLE(byte) < Ten /\ HIGH_NIBBLE(byte) < Ten * Nibble

PartValues(j, k) ==
    IF j.op \in Decimals
    THEN {x \in IF k = 0 THEN 0 .. Nibble * Nibble - 1 ELSE Digits : Valid(x)}
    ELSE Values(Half(j.size))

\* what a part counts in the number: two digits, or the values of the size
Base(j) == IF j.op \in Decimals THEN Ten * Ten ELSE 2 * Half(j.size)

Digit2(byte) == (byte \div Nibble) * Ten + LOW_NIBBLE(byte)

Number(j, part) == IF j.op \in Decimals THEN Digit2(part) ELSE part

Init ==
    /\ job \in Jobs
    /\ ccr = Start(job.x)
    /\ parts = 0 /\ range = 1
    /\ \/ job.what = "shift" /\ a \in Values(Half(job.size)) /\ b = 0 /\ r = a
       \/ job.what # "shift" /\ a = 0 /\ b = 0 /\ r = 0

-----------------------------------------------------------------------------
\* one part of a number: the first in binary by add, sub or neg, the others
\* and all decimal ones by the instructions that take in X

AnyPart(j, s, d, k, f) ==
    LET h == Half(j.size)
        wide == Wide(j.size)
    IN  CASE j.op = "abcd" -> abcd(s, d, f)
          [] j.op = "sbcd" -> sbcd(s, d, f)
          [] j.op = "nbcd" -> nbcd(s, f)
          [] j.op = "add" -> IF k = 0 THEN Add(wide, s, d, 0, h)
                             ELSE AddX(wide, s, d, f, h)
          [] j.op = "sub" -> IF k = 0 THEN Sub(wide, s, d, 0, h)
                             ELSE SubX(wide, s, d, f, h)
          [] j.op = "neg" -> IF k = 0 THEN Neg(wide, s, h)
                             ELSE NegX(wide, s, f, h)

Unary(j) == j.op \in {"neg", "nbcd"}

AddPart ==
    /\ job.what = "chain"
    /\ parts < Parts[job.size]
    /\ \E s \in PartValues(job, parts) :
       \E d \in IF Unary(job) THEN {0} ELSE PartValues(job, parts) :
          LET o == AnyPart(job, s, d, parts, ccr)
          IN  /\ a' = a + range * Number(job, s)
              /\ b' = b + range * Number(job, d)
              /\ r' = r + range * Number(job, o.value)
              /\ ccr' = o.ccr
    /\ range' = range * Base(job)
    /\ parts' = parts + 1
    /\ UNCHANGED job

Compare ==
    /\ job.what = "compare"
    /\ parts = 0
    /\ \E s, d \in Values(Half(job.size)) :
          /\ a' = s
          /\ b' = d
          /\ ccr' = Cmp(Wide(job.size), s, d, ccr, Half(job.size))
    /\ parts' = 1
    /\ UNCHANGED <<job, r, range>>

\* DX & 0x3f: less than twice the longest width
MaxCount == 2 * Width["l"] - 1

\* the operand shifted again from the start, by one bit more
ShiftFurther ==
    /\ job.what = "shift"
    /\ parts < MaxCount
    /\ \E undef \in BOOLEAN :
          LET o == ByRegister(job.op, a, parts + 1, Width[job.size],
                              Wide(job.size), undef, Start(job.x))
          IN  r' = o.value /\ ccr' = o.ccr
    /\ parts' = parts + 1
    /\ UNCHANGED <<job, a, b, range>>

Divide ==
    /\ job.what = "divide"
    /\ parts = 0
    /\ \E s \in Values(Half("w")) \ {0}, d \in Values(LongHalf(Half("w"))) :
          LET o == IF job.op = "divu" THEN divu(s, d, ccr, Half("w"))
                   ELSE divs(s, d, ccr, Half("w"))
          IN  a' = s /\ b' = d /\ r' = o.value /\ ccr' = o.ccr
    /\ parts' = 1
    /\ UNCHANGED <<job, range>>

\* clr.l, move.w, swap and mulu or muls: quotient times divisor, plus the
\* remainder, which for muls is sign-extended
Rebuild ==
    /\ job.what = "divide"
    /\ parts = 1
    /\ ~ccr.V
    /\ LET h == Half("w")
           q == r % (2 * h)
           rest == r \div (2 * h)
           o == IF job.op = "divu" THEN mulu(q, a, ccr, h) ELSE muls(q, a, ccr, h)
           more == IF job.op = "divu" THEN rest ELSE Wrap(Signed(rest, h), LongHalf(h))
           total == Add(TRUE, more, o.value, 0, LongHalf(h))
       IN  r' = total.value /\ ccr' = total.ccr
    /\ parts' = 2
    /\ UNCHANGED <<job, a, b, range>>

Next == AddPart \/ Compare \/ ShiftFurther \/ Divide \/ Rebuild

Spec == Init /\ [][Next]_vars

-----------------------------------------------------------------------------
(* A chain computes what it is for: after any number of parts the result   *)
(* is that of the whole numbers, X and C tell whether it went past their   *)
(* range, Z whether all of it is zero, and in binary N and V are those of  *)
(* the whole.  Z is the one a chain easily loses: ADDX and its kin may     *)
(* only clear it (FLAG_Z |= res), or the test after the last part sees     *)
(* that part alone.                                                        *)
MultiPrecision ==
    LET half == range \div 2
        x == IF job.op \in Decimals THEN AsOne(job.x) ELSE 0
        exact == IF job.op \in {"add", "abcd"} THEN b + a + x ELSE b - a - x
        signed == IF job.op = "add" THEN Signed(b, half) + Signed(a, half)
                  ELSE Signed(b, half) - Signed(a, half)
    IN  job.what = "chain" /\ parts > 0 =>
            /\ r = exact % range
            /\ ccr.X = (exact \notin 0 .. range - 1)
            /\ ccr.C = ccr.X
            /\ ccr.Z = (r = 0)
            /\ job.op \in Binary =>
                 /\ ccr.N = (r >= half)
                 /\ ccr.V = (signed \notin -half .. half - 1)

(* After CMP the conditional branches decide the relation they are named   *)
(* for, of the destination to the source, unsigned and signed, at every    *)
(* width - and X, which a chain may still need, is untouched.              *)
BranchesDecide ==
    LET h == Half(job.size)
    IN  job.what = "compare" /\ parts = 1 =>
            /\ Holds("eq", ccr) = (b = a) /\ Holds("ne", ccr) = (b # a)
            /\ Holds("hi", ccr) = (b > a) /\ Holds("ls", ccr) = (b <= a)
            /\ Holds("cc", ccr) = (b >= a) /\ Holds("cs", ccr) = (b < a)
            /\ Holds("gt", ccr) = (Signed(b, h) > Signed(a, h))
            /\ Holds("le", ccr) = (Signed(b, h) <= Signed(a, h))
            /\ Holds("ge", ccr) = (Signed(b, h) >= Signed(a, h))
            /\ Holds("lt", ccr) = (Signed(b, h) < Signed(a, h))
            /\ ccr.X = job.x

\* one bit, by the 68000's definition: the bit that leaves and the one that enters
Leftwards == {"asl", "lsl", "rol", "roxl"}

Leaving(op, x, n) == IF op \in Leftwards THEN Msb(x, n) ELSE Bit(x, 0)

Entering(op, x, f, n) ==
    CASE op \in {"asl", "lsl", "lsr"} -> FALSE
      [] op = "asr" -> Msb(x, n)
      [] op \in {"ror", "rol"} -> Leaving(op, x, n)
      [] op \in {"roxr", "roxl"} -> f.X

OneBit(op, x, f, n) ==
    IF op \in Leftwards
    THEN ((2 * x) % 2^n) + AsOne(Entering(op, x, f, n))
    ELSE (x \div 2) + 2^(n - 1) * AsOne(Entering(op, x, f, n))

(* A shift or rotate by k + 1 is a shift by k and one bit more: the value, *)
(* the bit in C, the X of those that have it, and for ASL the V that       *)
(* remembers any change of the sign on the way.  It holds for counts       *)
(* beyond the width, where the handlers branch, but for the C of a 32-bit  *)
(* ROL by the whole width, which the code leaves to the compiler.          *)
OneBitMore ==
    [][LET n == Width[job.size]
           out == Leaving(job.op, r, n)
       IN  job.what = "shift" =>
             /\ r' = OneBit(job.op, r, ccr, n)
             /\ ccr'.N = Msb(r', n) /\ ccr'.Z = (r' = 0)
             /\ ccr'.C = out \/ (job.op = "rol" /\ job.size = "l" /\ parts' % n = 0)
             /\ ccr'.X = IF job.op \in {"ror", "rol"} THEN ccr.X ELSE out
             /\ ccr'.V = (job.op = "asl" /\ (ccr.V \/ Msb(r, n) # Msb(r', n)))]_vars

(* The handlers with the count in the instruction, and those for memory,   *)
(* do what the one with the count in a register does.                      *)
FormsAgree ==
    job.what = "shift" /\ parts \in 1 .. Immediate =>
        LET n == Width[job.size]
            o == [value |-> r, ccr |-> ccr]
        IN  /\ ByImmediate(job.op, a, parts, n, Wide(job.size), Start(job.x)) = o
            /\ parts = 1 /\ job.size = "w" => InMemory(job.op, a, n, Start(job.x)) = o

(* A division either leaves quotient and remainder that make up the        *)
(* dividend again - the remainder smaller than the divisor and of the      *)
(* dividend's sign - or says by V that no quotient fits and leaves the     *)
(* register alone.  The exception is the lowest dividend by -1: the code   *)
(* leaves zero and no V.                                                   *)
LowestByMinusOne ==
    job.op = "divs" /\ b = LongHalf(Half("w")) /\ Signed(a, Half("w")) = -1

Number2(x, h) == IF job.op = "divs" THEN Signed(x, h) ELSE x

Fits(q, rest, d, s) ==
    /\ d = q * s + rest
    /\ rest < (IF s < 0 THEN -s ELSE s) /\ -rest < (IF s < 0 THEN -s ELSE s)
    /\ rest # 0 => (rest < 0) = (d < 0)

DivisionRebuilds ==
    LET h == Half("w")
        d == Number2(b, LongHalf(h))
        s == Number2(a, h)
        quotients == IF job.op = "divs" THEN -h .. h - 1 ELSE Values(h)
    IN  job.what = "divide" /\ parts > 0 /\ ~LowestByMinusOne =>
            /\ parts = 1 /\ ~ccr.V =>
                 Fits(Number2(r % (2 * h), h), Number2(r \div (2 * h), h), d, s)
            /\ parts = 1 /\ ccr.V =>
                 r = b /\ \A q \in quotients : ~Fits(q, d - q * s, d, s)
            /\ parts = 2 => r = b

=============================================================================
