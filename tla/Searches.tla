------------------------------ MODULE Searches ------------------------------
(***************************************************************************)
(* What GEMDOS promises of directory searches.  The state of a search is   *)
(* in the program's memory, in a DTA.  Fsfirst begins a search in the      *)
(* current DTA, Fsnext goes on with it: each name that matched is          *)
(* delivered once, in order, whatever other searches run meanwhile.        *)
(***************************************************************************)
EXTENDS Naturals, Sequences

CONSTANTS
    Addresses,  \* where DTAs can lie
    Nowhere,    \* an address that is no memory
    Lists,      \* what searches may find
    NoSearch,   \* a DTA that holds no search
    NoName,     \* no name is delivered
    First       \* the address of the DTA at the start

VARIABLES
    left,       \* for each DTA, the names still to be delivered
    dta,        \* the address of the current DTA
    name        \* the name the last call delivered, or NoName

vars == <<left, dta, name>>

Init == /\ left = [a \in Addresses |-> NoSearch]
        /\ dta = First /\ name = NoName

SetDta(a) == dta' = a /\ UNCHANGED <<left, name>>

Begin(list) == /\ dta # Nowhere /\ list # <<>>
               /\ name' = Head(list)
               /\ left' = [left EXCEPT ![dta] = Tail(list)]
               /\ UNCHANGED dta

(* Nothing matches: the DTA keeps the search it holds.                     *)
NothingFound == name' = NoName /\ UNCHANGED <<left, dta>>

Continue == /\ dta # Nowhere /\ left[dta] # NoSearch
            /\ IF left[dta] = <<>>
               THEN name' = NoName /\ UNCHANGED left
               ELSE /\ name' = Head(left[dta])
                    /\ left' = [left EXCEPT ![dta] = Tail(@)]
            /\ UNCHANGED dta

(* A program keeps a search by keeping the bytes of its DTA.               *)
Copy(a, b) == left' = [left EXCEPT ![b] = left[a]] /\ UNCHANGED <<dta, name>>

(* The program uses the memory of a DTA for something else.                *)
Forget(a) == left' = [left EXCEPT ![a] = NoSearch] /\ UNCHANGED <<dta, name>>

Next == \/ SetDta(Nowhere)
        \/ \E a \in Addresses : SetDta(a) \/ Forget(a)
        \/ \E list \in Lists : Begin(list)
        \/ NothingFound \/ Continue
        \/ \E a, b \in Addresses : Copy(a, b)

Spec == Init /\ [][Next]_vars
=============================================================================
