---------------------------- MODULE MCArithmetic ----------------------------
(***************************************************************************)
(* Bytes of two bits, words of three and longs of four: every operand of   *)
(* every width, chains of up to four parts.  Decimal bytes have their      *)
(* sixteen-valued nibbles and ten digits; a second byte takes the values   *)
(* at which the carries change.                                            *)
(***************************************************************************)
EXTENDS Arithmetic

MCWidth == [b |-> 2, w |-> 3, l |-> 4]

MCParts == [b |-> 2, w |-> 2, l |-> 2]

MCDigits == {0, 1, 9, 16, 25, 73, 144, 152, 153}

=============================================================================
