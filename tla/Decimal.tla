------------------------------ MODULE Decimal -------------------------------
(***************************************************************************)
(* ABCD, SBCD and NBCD of m68k_in.c: arithmetic on a byte that holds two   *)
(* decimal digits.  A digit has Nibble values, of which Ten are digits:    *)
(* 16 and 10 in the code, so that its 6 is Nibble - Ten, its 0x99 the two  *)
(* digits Ten - 1 and its 0xa0 Ten * Nibble.  N and V, which the 68000's   *)
(* manual leaves undefined, are what the code computes.                    *)
(***************************************************************************)
EXTENDS Adder

CONSTANTS Nibble, Ten

ASSUME DecimalAssumption == Nibble \in Nat /\ Ten \in 2 .. Nibble - 1

LOW_NIBBLE(x) == x % Nibble

HIGH_NIBBLE(x) == ((x \div Nibble) % Nibble) * Nibble

Highest == (Ten - 1) * Nibble + Ten - 1

Top(x) == x % (Nibble * Nibble) >= (Nibble * Nibble) \div 2

\* what makes the sum of two digits a digit and a carry: res > 9, res += 6
Adjustment(digits) == IF digits > Ten - 1 \/ digits < 0 THEN Nibble - Ten ELSE 0

abcd(s, d, ccr) ==
    LET digits == LOW_NIBBLE(s) + LOW_NIBBLE(d) + AsOne(ccr.X)
        sum == digits + Adjustment(digits) + HIGH_NIBBLE(s) + HIGH_NIBBLE(d)
        c == sum > Highest
        r == IF c THEN sum - Ten * Nibble ELSE sum
    IN  [value |-> r % (Nibble * Nibble),
         ccr |-> [X |-> c, N |-> Top(r), V |-> ~Top(digits) /\ Top(r), C |-> c,
                  Z |-> ccr.Z /\ r % (Nibble * Nibble) = 0]]

sbcd(s, d, ccr) ==
    LET digits == LOW_NIBBLE(d) - LOW_NIBBLE(s) - AsOne(ccr.X)
        rest == digits - Adjustment(digits) + HIGH_NIBBLE(d) - HIGH_NIBBLE(s)
        c == rest > Highest \/ rest < 0
        r == IF c THEN rest + Ten * Nibble ELSE rest
    IN  [value |-> r % (Nibble * Nibble),
         ccr |-> [X |-> c, N |-> Top(r), V |-> ~Top(digits) /\ Top(r), C |-> c,
                  Z |-> ccr.Z /\ r % (Nibble * Nibble) = 0]]

\* 0x9a - dst - X; when that is 0x9a nothing is written and Z stays as it is
nbcd(d, ccr) ==
    LET full == Highest + 1
        first == (full - d - AsOne(ccr.X)) % (Nibble * Nibble)
        r == IF LOW_NIBBLE(first) = Ten
             THEN (HIGH_NIBBLE(first) + Nibble) % (Nibble * Nibble)
             ELSE first
    IN  IF first = full
        THEN [value |-> d,
              ccr |-> [ccr EXCEPT !.X = FALSE, !.C = FALSE, !.V = FALSE,
                                  !.N = Top(first)]]
        ELSE [value |-> r,
              ccr |-> [X |-> TRUE, N |-> Top(r), V |-> ~Top(first) /\ Top(r),
                       C |-> TRUE, Z |-> ccr.Z /\ r = 0]]

=============================================================================
