------------------------------ MODULE Keyboard ------------------------------
(***************************************************************************)
(* What a program is promised of its console input: characters arrive in   *)
(* the order they were typed and each is read once, one by one or by       *)
(* lines.  A poll that says yes is true; one that says no may be late.     *)
(***************************************************************************)
EXTENDS Integers, Sequences

CONSTANTS
    Chars, NL,      \* characters, and the one that ends a line
    EndOfInput,     \* what is read when nothing will be typed any more
    MaxLens         \* lengths of the program's line buffers

VARIABLES
    pending,    \* typed and not yet read
    ended,      \* nothing more will be typed
    d0,         \* what the last call returned
    line        \* the last line read: [text, spill]

vars == <<pending, ended, d0, line>>

Init == /\ pending = <<>> /\ ended = FALSE /\ d0 = 0
        /\ line = [text |-> <<>>, spill |-> FALSE]

Type(c) == /\ ~ ended
           /\ pending' = Append(pending, c)
           /\ UNCHANGED <<ended, d0, line>>

End == ended' = TRUE /\ UNCHANGED <<pending, d0, line>>

Exhausted == ended /\ pending = <<>>

Yes == /\ pending # <<>> \/ ended
       /\ d0' = -1
       /\ UNCHANGED <<pending, ended, line>>

Nothing == d0' = 0 /\ UNCHANGED <<pending, ended, line>>

Read == /\ IF Exhausted THEN d0' = EndOfInput /\ UNCHANGED pending
           ELSE /\ pending # <<>>
                /\ d0' = Head(pending)
                /\ pending' = Tail(pending)
        /\ UNCHANGED <<ended, line>>

(* The first n characters are a line, or all a buffer of max bytes holds.  *)
IsLine(n, max) ==
    /\ n \in 1 .. Len(pending) /\ n < max
    /\ \A i \in 1 .. n - 1 : pending[i] # NL
    /\ n = max - 1 \/ pending[n] = NL \/ (ended /\ n = Len(pending))

ReadLine(max) ==
    \E n \in 1 .. Len(pending) :
        /\ IsLine(n, max)
        /\ line' = [text |-> SubSeq(pending, 1, IF pending[n] = NL THEN n - 1 ELSE n),
                    spill |-> FALSE]
        /\ pending' = SubSeq(pending, n + 1, Len(pending))
        /\ d0' = 0
        /\ UNCHANGED ended

(* No line to be had, or no room for one: nothing is promised of line.     *)
NoLine(max) == /\ Exhausted \/ max < 2
               /\ line'.text \in UNION {[1 .. n -> Chars] : n \in 0 .. max}
               /\ d0' = 0
               /\ UNCHANGED <<pending, ended>>

Next == \/ \E c \in Chars : Type(c)
        \/ End \/ Yes \/ Nothing \/ Read
        \/ \E max \in MaxLens : ReadLine(max) \/ NoLine(max)

Spec == Init /\ [][Next]_vars
=============================================================================
