----------------------------- MODULE Multiplier -----------------------------
(***************************************************************************)
(* MULU, MULS, DIVU and DIVS of m68k_in.c: a word by a word to a long, and *)
(* a long by a word to a quotient and, in the upper half, a remainder.  h  *)
(* is the weight of a word's sign bit.  A divisor of zero is an exception  *)
(* and does not come here.                                                 *)
(***************************************************************************)
EXTENDS Adder

LongHalf(h) == 2 * h * h

Product(r, ccr, h) ==
    [value |-> r,
     ccr |-> [X |-> ccr.X, N |-> Negative(r, LongHalf(h)), Z |-> r = 0,
              V |-> FALSE, C |-> FALSE]]

mulu(s, d, ccr, h) == Product(s * d, ccr, h)

muls(s, d, ccr, h) ==
    Product(Wrap(Signed(s, h) * Signed(d, h), LongHalf(h)), ccr, h)

\* MASK_OUT_ABOVE_16(quotient) | (remainder << 16)
Divided(q, r, ccr, h) ==
    [value |-> Wrap(q, h) + Wrap(r, h) * 2 * h,
     ccr |-> [X |-> ccr.X, N |-> Negative(Wrap(q, h), h), Z |-> q = 0,
              V |-> FALSE, C |-> FALSE]]

\* the quotient does not fit: V, and nothing else
Overflown(d, ccr) == [value |-> d, ccr |-> [ccr EXCEPT !.V = TRUE]]

divu(s, d, ccr, h) ==
    LET q == d \div s
    IN  IF q < 2 * h THEN Divided(q, d % s, ccr, h) ELSE Overflown(d, ccr)

\* the quotient of C, towards zero
Towards0(a, b) ==
    LET size == (IF a < 0 THEN -a ELSE a) \div (IF b < 0 THEN -b ELSE b)
    IN  IF (a < 0) = (b < 0) THEN size ELSE -size

\* a plausible slip: the quotient rounded down and a remainder of the divisor's sign
divsFloor(s, d, ccr, h) ==
    LET a == Signed(d, LongHalf(h))
        b == Signed(s, h)
        q == IF b > 0 THEN a \div b ELSE (-a) \div (-b)
    IN  IF -h <= q /\ q < h THEN Divided(q, a - q * b, ccr, h) ELSE Overflown(d, ccr)

\* The one dividend whose quotient does not even fit a long has a case of its
\* own in the code, which leaves zero.
divs(s, d, ccr, h) ==
    LET a == Signed(d, LongHalf(h))
        b == Signed(s, h)
        q == Towards0(a, b)
    IN  IF d = LongHalf(h) /\ b = -1 THEN Divided(0, 0, ccr, h)
        ELSE IF -h <= q /\ q < h THEN Divided(q, a - q * b, ccr, h)
        ELSE Overflown(d, ccr)

=============================================================================
