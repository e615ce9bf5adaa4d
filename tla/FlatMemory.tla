----------------------------- MODULE FlatMemory -----------------------------
(***************************************************************************)
(* What a TOS program may expect of memory: one array of bytes in which    *)
(* each byte carries the rights of its region, and accesses of one, two or *)
(* four bytes, the most significant byte first, around the address space.  *)
(* An access reads what is there and changes what it may change and        *)
(* nothing else; an access to a byte that does not exist or may not be     *)
(* used so ends the emulation, which is what run says, and reads it as     *)
(* zero.  The loader and BIOS Setexc read a longword and store another.    *)
(***************************************************************************)
EXTENDS Integers

CONSTANTS
    ByteBase,   \* the number of values of a byte, 256
    Address,    \* the addresses that exist
    Rights(_)   \* the rights of the byte at an address, a set of names

VARIABLES
    bytes,      \* the contents
    super,      \* the processor is in supervisor mode
    run,        \* the emulation goes on
    request     \* what was asked of memory, and what it answered

flatvars == <<bytes, super, run, request>>

Space == ByteBase * ByteBase * ByteBase * ByteBase

Bound(n) == CASE n = 1 -> ByteBase [] n = 2 -> ByteBase * ByteBase [] n = 4 -> Space

Requests ==
    [kind : {"read", "write"}, n : {1, 2, 4}, a : 0 .. Space - 1, v : 0 .. Space - 1]
        \cup [kind : {"exchange"}, n : {4}, a : 0 .. Space - 1, v : 0 .. Space - 1,
              old : 0 .. Space - 1]

(* May the mode s read, or write, at address b?                            *)
May(right, s, b) ==
    /\ b \in Address
    /\ \/ right \in Rights(b)
       \/ s /\ [READ |-> "SUPERREAD", WRITE |-> "SUPERWRITE"][right] \in Rights(b)

(* Byte number i, from the left, of an n byte number v.                    *)
Digit(v, n, i) ==
    LET below == n - 1 - i
    IN  CASE below = 0 -> v % ByteBase
          [] below = 1 -> (v \div ByteBase) % ByteBase
          [] below = 2 -> ((v \div ByteBase) \div ByteBase) % ByteBase
          [] below = 3 -> (((v \div ByteBase) \div ByteBase) \div ByteBase) % ByteBase

(* The number of the byte at address b in an access at a.                  *)
Index(b, a) == (b - a) % Space

At(a, i) == (a + i) % Space

MayAll(right, n, a) == \A i \in 0 .. n - 1 : May(right, super, At(a, i))

(* v is what an access of n bytes at a reads.                              *)
Loads(v, n, a) ==
    /\ v \in 0 .. Bound(n) - 1
    /\ \A i \in 0 .. n - 1 :
          Digit(v, n, i) = IF May("READ", super, At(a, i)) THEN bytes[At(a, i)] ELSE 0

Stores(v, n, a) ==
    bytes' = [b \in Address |->
                IF Index(b, a) < n /\ May("WRITE", super, b)
                THEN Digit(v, n, Index(b, a)) ELSE bytes[b]]

Write == /\ request'.kind = "write"
         /\ Stores(request'.v, request'.n, request'.a)
         /\ run' = (run /\ MayAll("WRITE", request'.n, request'.a))
         /\ super' \in {super, FALSE}

Read == /\ request'.kind = "read"
        /\ Loads(request'.v, request'.n, request'.a)
        /\ run' = (run /\ MayAll("READ", request'.n, request'.a))
        /\ UNCHANGED <<bytes, super>>

(* A longword is read and another one written in its place.                *)
Exchange == /\ request'.kind = "exchange"
            /\ Loads(request'.old, 4, request'.a)
            /\ Stores(request'.v, 4, request'.a)
            /\ run' = (run /\ MayAll("READ", 4, request'.a) /\ MayAll("WRITE", 4, request'.a))
            /\ UNCHANGED super

(* The emulation is started, stopped by a call, or changes its mode:       *)
(* nothing is asked of memory.                                             *)
Other == /\ request'.kind = "none"
         /\ run' \in BOOLEAN /\ super' \in BOOLEAN
         /\ UNCHANGED bytes

FlatNext == /\ request' \in Requests \cup {[kind |-> "none"]}
            /\ Write \/ Read \/ Exchange \/ Other

FlatInit == /\ run \in BOOLEAN /\ super \in BOOLEAN
            /\ request = [kind |-> "none"]

FlatSpec == FlatInit /\ [][FlatNext]_flatvars
=============================================================================
