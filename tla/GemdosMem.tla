----------------------------- MODULE GemdosMem -----------------------------
(***************************************************************************)
(* GEMDOS memory management (gemdosmem.c): the list of areas in use and    *)
(* the calls Malloc, Mshrink and Mfree that a TOS program makes on it.     *)
(*                                                                         *)
(* The linked list mem_list is a sequence.  Addresses and sizes are        *)
(* uint32_t: words of WordSize values on which + and - wrap.  d0 is what   *)
(* the last call returned to the program.                                  *)
(***************************************************************************)
EXTENDS Integers, Sequences, SequencesExt

CONSTANTS
    LowTPA,         \* 0x800, where the base page and managed memory start
    BasePageLen,    \* 0x100
    TESize,         \* te->size, the bytes of user RAM behind the base page
    WordSize,       \* 2^32
    MaxAreas        \* bound: Malloc is not called with this many areas in use

ASSUME LayoutAssumption ==
    /\ LowTPA \in Nat \ {0}
    /\ BasePageLen \in Nat \ {0}
    /\ TESize \in Nat
    /\ WordSize \in Nat
    /\ MaxAreas \in Nat
    /\ LowTPA <= TESize
    /\ LowTPA + BasePageLen + TESize < WordSize - 1

VARIABLES
    mem_list,   \* the areas in use, in list order
    d0,         \* result of the last call
    loaded      \* the process exists: between gemdos_mem_init and ..._free

vars == <<mem_list, d0, loaded>>

-----------------------------------------------------------------------------
(* Data                                                                    *)

Word == 0 .. WordSize - 1
Area == [base : Word, len : Word]

GEMDOS_EIMBA == -40
GEMDOS_EGSBF == -67

PlusWide(a, b) == a + b                                         \* mutant

Plus(a, b)  == (a + b) % WordSize
Minus(a, b) == (a - b) % WordSize

(* The program passes the word 0xffffffff, -1, to ask for the largest gap. *)
Query == WordSize - 1

(* gemdos_mem_init forgets that managed memory starts at 0x800: the end it *)
(* computes is the length of managed memory.                               *)
mem_allocatable_top == TESize + BasePageLen

-----------------------------------------------------------------------------
(* The gaps Malloc looks at: one behind each area, and when the list is    *)
(* empty one (numbered 0) behind the base page.                            *)

GapAtEndOnly(list) == {Len(list)}                               \* mutant

Gaps(list) == IF list = <<>> THEN {0} ELSE 1 .. Len(list)

prev_top(list, i) == IF i = 0 THEN LowTPA + BasePageLen
                              ELSE Plus(list[i].base, list[i].len)

GapLen(list, i) ==
    Minus(IF i < Len(list) THEN list[i + 1].base ELSE mem_allocatable_top,
          prev_top(list, i))

FitsSigned(list, i, newsiz) ==                                  \* mutant
    newsiz >= WordSize \div 2 \/ newsiz < GapLen(list, i)

Fits(list, i, newsiz) == newsiz < GapLen(list, i)

FirstFit(list, i, newsiz) ==
    /\ i \in Gaps(list)
    /\ Fits(list, i, newsiz)
    /\ \A j \in Gaps(list) : j < i => ~ Fits(list, j, newsiz)

(* The answer to Malloc(-1).                                               *)
LargestGapForgetsEnd(list, n) ==                                \* mutant
    LET inner == 1 .. Len(list) - 1
    IN  /\ n \in {0} \cup {GapLen(list, i) : i \in inner}
        /\ \A i \in inner : GapLen(list, i) <= n

LargestGap(list, n) ==
    /\ n \in {GapLen(list, i) : i \in Gaps(list)}
    /\ \A i \in Gaps(list) : GapLen(list, i) <= n

(* find_mem_area(base) stops at the i-th area, or runs off the list.       *)
find_mem_area(base, i) ==
    /\ i \in DOMAIN mem_list
    /\ mem_list[i].base = base
    /\ \A j \in 1 .. i - 1 : mem_list[j].base # base

NoArea(base) == \A i \in DOMAIN mem_list : mem_list[i].base # base

-----------------------------------------------------------------------------
(* gemdos_mem_init: one area that holds the base page and all of user RAM. *)
Init == /\ mem_list = <<[base |-> LowTPA, len |-> TESize + BasePageLen]>>
        /\ d0 = 0
        /\ loaded = TRUE

MallocQuery == /\ \E n \in Word : LargestGap(mem_list, n) /\ d0' = n
               /\ UNCHANGED mem_list

MallocGrant(newsiz) ==
    \E i \in 0 .. Len(mem_list) :
       /\ FirstFit(mem_list, i, newsiz)
       /\ mem_list' = InsertAt(mem_list, i + 1,
                               [base |-> prev_top(mem_list, i), len |-> newsiz])
       /\ d0' = prev_top(mem_list, i)

MallocRefuse(newsiz) ==
    /\ \A i \in Gaps(mem_list) : ~ Fits(mem_list, i, newsiz)
    /\ d0' = 0
    /\ UNCHANGED mem_list

Malloc(newsiz) ==
    /\ loaded
    /\ Len(mem_list) < MaxAreas
    /\ IF newsiz = Query
         THEN MallocQuery
         ELSE MallocGrant(newsiz) \/ MallocRefuse(newsiz)
    /\ UNCHANGED loaded

TooLargeByOne(i, newsiz) == mem_list[i].len + 1 < newsiz        \* mutant

TooLarge(i, newsiz) == mem_list[i].len < newsiz

Mshrink(block, newsiz) ==
    /\ loaded
    /\ \/ /\ NoArea(block)
          /\ d0' = GEMDOS_EIMBA
          /\ UNCHANGED mem_list
       \/ \E i \in DOMAIN mem_list :
             /\ find_mem_area(block, i)
             /\ IF TooLarge(i, newsiz)
                  THEN /\ d0' = GEMDOS_EGSBF
                       /\ UNCHANGED mem_list
                  ELSE /\ d0' = 0
                       /\ mem_list' = [mem_list EXCEPT ![i].len = newsiz]
    /\ UNCHANGED loaded

Mfree(block) ==
    /\ loaded
    /\ \/ /\ NoArea(block)
          /\ d0' = GEMDOS_EIMBA
          /\ UNCHANGED mem_list
       \/ \E i \in DOMAIN mem_list :
             /\ find_mem_area(block, i)
             /\ d0' = 0
             /\ mem_list' = RemoveAt(mem_list, i)
    /\ UNCHANGED loaded

(* Called by free_tos_environment once the process has ended.              *)
gemdos_mem_free ==
    /\ loaded
    /\ loaded' = FALSE
    /\ mem_list' = <<>>
    /\ UNCHANGED d0

Next == \/ \E newsiz \in Word : Malloc(newsiz)
        \/ \E block, newsiz \in Word : Mshrink(block, newsiz)
        \/ \E block \in Word : Mfree(block)
        \/ gemdos_mem_free

Spec == Init /\ [][Next]_vars

(* A TOS program begins by giving back what it does not need: it shrinks   *)
(* the initial area so that it ends inside managed memory.  The states     *)
(* right after that call.                                                  *)
TrimmedInit ==
    /\ \E len \in Word :
          /\ LowTPA + len <= mem_allocatable_top
          /\ mem_list = <<[base |-> LowTPA, len |-> len]>>
    /\ d0 = 0
    /\ loaded = TRUE

TrimmedSpec == TrimmedInit /\ [][Next]_vars

-----------------------------------------------------------------------------
(* Invariants                                                              *)

TypeOK == /\ mem_list \in Seq(Area)
          /\ d0 \in Word \cup {GEMDOS_EIMBA, GEMDOS_EGSBF}
          /\ loaded \in BOOLEAN

AreaEnd(i) == mem_list[i].base + mem_list[i].len

SortedApart == \A i, j \in DOMAIN mem_list :
                  i < j => AreaEnd(i) <= mem_list[j].base

InsideManaged == \A i \in DOMAIN mem_list :
                    /\ LowTPA <= mem_list[i].base
                    /\ AreaEnd(i) <= mem_allocatable_top

(* The heap of a program that has trimmed its initial area: whatever it    *)
(* asks for, areas stay sorted by address, never overlap, never leave      *)
(* managed memory and never wrap round the end of the address space.       *)
WellFormed == SortedApart /\ InsideManaged

Grantable(newsiz) == \E i \in Gaps(mem_list) : Fits(mem_list, i, newsiz)

(* No area reaches into the bytes from lo up to hi.                        *)
Unused(lo, hi) == \A i \in DOMAIN mem_list :
                     AreaEnd(i) <= lo \/ hi <= mem_list[i].base

(* Malloc(-1) tells the truth: its answer n is the length of a run of      *)
(* managed memory that no area uses, and, up to the exclusive comparison   *)
(* in Malloc, exactly the smaller requests would be granted, though sizes  *)
(* are compared as unsigned and gaps are differences of words.             *)
QueryExact ==
    loaded => \A n \in Word : LargestGap(mem_list, n) =>
       /\ \E lo \in LowTPA .. mem_allocatable_top - n : Unused(lo, lo + n)
       /\ \A newsiz \in Word : Grantable(newsiz) <=> newsiz < n

-----------------------------------------------------------------------------
(* Action properties                                                       *)

(* No call, whatever its arguments, ever damages a well-formed heap, also  *)
(* when the heap became well formed only by a late Mshrink or Mfree.       *)
WellFormedStable == [][WellFormed => WellFormed']_vars

(* Freed memory comes back: after Mfree of any area but the first, any     *)
(* request smaller than the freed area is granted.                         *)
FreedSpaceReusable ==
    [][\A i \in 2 .. Len(mem_list) :
          loaded' /\ WellFormed /\ mem_list' = RemoveAt(mem_list, i) =>
             \A n \in Word : n < mem_list[i].len => Grantable(n)']_vars

-----------------------------------------------------------------------------
(* A trimmed heap implements Arena: the regions held are the non-empty     *)
(* areas.                                                                  *)

Held == {r \in Range(mem_list) : r.len > 0}

A == INSTANCE Arena WITH Lo <- LowTPA, Hi <- mem_allocatable_top, held <- Held

ImplementsArena == A!Spec

-----------------------------------------------------------------------------
(* What the comment above Malloc's algorithm says and the code does not    *)
(* keep.                                                                   *)

(* "mem_area structures ... never overlap": no byte is in two areas.       *)
NeverOverlap ==
    \A i, j \in DOMAIN mem_list :
       i # j /\ mem_list[i].len > 0 /\ mem_list[j].len > 0 =>
          AreaEnd(i) <= mem_list[j].base \/ AreaEnd(j) <= mem_list[i].base
=============================================================================
