------------------------------- MODULE Adder --------------------------------
(***************************************************************************)
(* Addition, subtraction and comparison as the handlers of m68k_in.c do    *)
(* them, with the condition codes they leave and the conditions that read  *)
(* them.  A width is given by h, the weight of its sign bit: the values of *)
(* that width are 0 .. 2h - 1, the code's 8, 16 and 32 bits are 2^7, 2^15  *)
(* and 2^31.  wide is TRUE for the 32-bit handlers, which have no bit to   *)
(* spare for the carry and compute it from the three sign bits.            *)
(*                                                                         *)
(* A flag is a Boolean; the code keeps it as one bit of a word.            *)
(***************************************************************************)
EXTENDS Integers

Values(h) == 0 .. 2 * h - 1

Negative(x, h) == x >= h

Signed(x, h) == IF x >= h THEN x - 2 * h ELSE x

Wrap(x, h) == x % (2 * h)

Carried(wide, s, d, r, total, h) ==
    IF wide
    THEN \/ Negative(s, h) /\ Negative(d, h)
         \/ ~Negative(r, h) /\ (Negative(s, h) \/ Negative(d, h))
    ELSE total >= 2 * h

\* a plausible slip: the 32-bit borrow without the operands of equal sign
borrowOfOperands(wide, s, d, r, total, h) ==
    IF wide THEN Negative(s, h) /\ ~Negative(d, h) ELSE total < 0

Borrowed(wide, s, d, r, total, h) ==
    IF wide
    THEN \/ Negative(s, h) /\ Negative(r, h)
         \/ ~Negative(d, h) /\ (Negative(s, h) \/ Negative(r, h))
    ELSE total < 0

OverflowAdd(s, d, r, h) ==
    /\ Negative(s, h) # Negative(r, h)
    /\ Negative(d, h) # Negative(r, h)

OverflowSub(s, d, r, h) ==
    /\ Negative(s, h) # Negative(d, h)
    /\ Negative(r, h) # Negative(d, h)

AsOne(flag) == IF flag THEN 1 ELSE 0

-----------------------------------------------------------------------------
\* add, addi, addq, with x = 0; addx, with the X flag

Add(wide, s, d, x, h) ==
    LET r == Wrap(s + d + x, h)
        c == Carried(wide, s, d, r, s + d + x, h)
    IN  [value |-> r,
         ccr |-> [X |-> c, N |-> Negative(r, h), Z |-> r = 0,
                  V |-> OverflowAdd(s, d, r, h), C |-> c]]

\* sub, subi, subq, and neg with d = 0; subx and negx with the X flag
Sub(wide, s, d, x, h) ==
    LET r == Wrap(d - s - x, h)
        c == Borrowed(wide, s, d, r, d - s - x, h)
    IN  [value |-> r,
         ccr |-> [X |-> c, N |-> Negative(r, h), Z |-> r = 0,
                  V |-> OverflowSub(s, d, r, h), C |-> c]]

\* a plausible slip: Z of the last part only
zeroOfLastPart(wide, s, d, ccr, h) == Add(wide, s, d, AsOne(ccr.X), h)

\* addx, subx, negx: FLAG_Z |= res, so Z stays clear once a part was not zero
AddX(wide, s, d, ccr, h) ==
    LET o == Add(wide, s, d, AsOne(ccr.X), h)
    IN  [o EXCEPT !.ccr.Z = @ /\ ccr.Z]

SubX(wide, s, d, ccr, h) ==
    LET o == Sub(wide, s, d, AsOne(ccr.X), h)
    IN  [o EXCEPT !.ccr.Z = @ /\ ccr.Z]

\* neg: the overflow is *r_dst & res, the carry CFLAG_8 or CFLAG_SUB_32
Neg(wide, s, h) ==
    LET o == Sub(wide, s, 0, 0, h)
    IN  [o EXCEPT !.ccr.V = Negative(s, h) /\ Negative(o.value, h)]

NegX(wide, s, ccr, h) ==
    LET o == SubX(wide, s, 0, ccr, h)
    IN  [o EXCEPT !.ccr.V = Negative(s, h) /\ Negative(o.value, h)]

\* cmp: the flags of a subtraction but X, and no result
Cmp(wide, s, d, ccr, h) ==
    [Sub(wide, s, d, 0, h).ccr EXCEPT !.X = ccr.X]

-----------------------------------------------------------------------------
\* the conditions of Bcc, DBcc and Scc

Holds(cc, f) ==
    CASE cc = "t"  -> TRUE
      [] cc = "f"  -> FALSE
      [] cc = "cs" -> f.C
      [] cc = "cc" -> ~f.C
      [] cc = "vs" -> f.V
      [] cc = "vc" -> ~f.V
      [] cc = "eq" -> f.Z
      [] cc = "ne" -> ~f.Z
      [] cc = "mi" -> f.N
      [] cc = "pl" -> ~f.N
      [] cc = "lt" -> f.N # f.V
      [] cc = "ge" -> f.N = f.V
      [] cc = "hi" -> ~f.C /\ ~f.Z
      [] cc = "ls" -> f.C \/ f.Z
      [] cc = "gt" -> f.N = f.V /\ ~f.Z
      [] cc = "le" -> f.N # f.V \/ f.Z

Conditions == {"cs", "cc", "vs", "vc", "eq", "ne", "mi", "pl",
               "lt", "ge", "hi", "ls", "gt", "le"}

=============================================================================
