------------------------------ MODULE ByteFiles ------------------------------
(***************************************************************************)
(* Files as sequences of bytes, as the host's kernel keeps them.           *)
(***************************************************************************)
EXTENDS Integers, Sequences

CONSTANT Zero   \* the byte a gap in a file is filled with

Readable(mode) == mode \in {"r", "r+"}
Writable(mode) == mode \in {"w", "r+"}

(* bytes with data written at offset off.                                  *)
Overlay(bytes, off, data) ==
    IF data = <<>> THEN bytes
    ELSE LET end == off + Len(data)
         IN  [i \in 1 .. IF end > Len(bytes) THEN end ELSE Len(bytes) |->
                IF off < i /\ i <= end THEN data[i - off]
                ELSE IF i <= Len(bytes) THEN bytes[i] ELSE Zero]

(* At most n bytes from offset off.                                        *)
Slice(bytes, off, n) ==
    SubSeq(bytes, off + 1, IF off + n < Len(bytes) THEN off + n ELSE Len(bytes))

(* A table with an entry for x, and without one.                           *)
Set(f, x, value) == [y \in DOMAIN f \cup {x} |-> IF y = x THEN value ELSE f[y]]
Drop(f, x) == [y \in DOMAIN f \ {x} |-> f[y]]
=============================================================================
