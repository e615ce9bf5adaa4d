------------------------------- MODULE Arena -------------------------------
(***************************************************************************)
(* What GEMDOS memory management promises a program, without lists, gaps   *)
(* or 32-bit arithmetic: a set of disjoint, non-empty regions of managed   *)
(* memory.  A region is handed out where nothing is held, may only shrink  *)
(* from its end, and is given back whole.                                  *)
(***************************************************************************)
EXTENDS Integers

CONSTANTS
    Lo,     \* first managed address
    Hi      \* first address past managed memory

VARIABLE held   \* the regions in use

(* No byte is in both r and s.                                             *)
Apart(r, s) == r.base + r.len <= s.base \/ s.base + s.len <= r.base

(* The process starts with nothing but (at most) the region it runs in.    *)
Init == \/ held = {}
        \/ \E base, end \in Lo..Hi :
              base < end /\ held = {[base |-> base, len |-> end - base]}

Acquire == \E base, end \in Lo..Hi :
              /\ base < end
              /\ \A s \in held : Apart([base |-> base, len |-> end - base], s)
              /\ held' = held \cup {[base |-> base, len |-> end - base]}

Trim == \E r \in held : \E n \in 1..r.len :
           held' = (held \ {r}) \cup {[base |-> r.base, len |-> n]}

Release == \E r \in held : held' = held \ {r}

ReleaseAll == held' = {}

Next == Acquire \/ Trim \/ Release \/ ReleaseAll

Spec == Init /\ [][Next]_held

=============================================================================
