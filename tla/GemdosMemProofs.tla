--------------------------- MODULE GemdosMemProofs ---------------------------
(***************************************************************************)
(* Theorems about GemdosMem, for every layout of memory, every word size   *)
(* and every number of areas.                                              *)
(***************************************************************************)
EXTENDS GemdosMem, SequenceTheorems, TLAPS

(* Word arithmetic gives words, and is exact where nothing wraps.          *)
LEMMA WordArithmetic ==
  ASSUME NEW a \in Int, NEW b \in Int
  PROVE  /\ Plus(a, b) \in Word
         /\ Minus(a, b) \in Word
         /\ a + b \in Word => Plus(a, b) = a + b
         /\ a - b \in Word => Minus(a, b) = a - b
<1>1. \A x \in Int : x % WordSize \in Word /\ (x \in Word => x % WordSize = x)
  BY LayoutAssumption DEF Word
<1> QED
  BY <1>1 DEF Plus, Minus

LEMMA InsertAtProps ==
  ASSUME NEW S, NEW s \in Seq(S), NEW i \in 1 .. Len(s) + 1, NEW e \in S
  PROVE  /\ InsertAt(s, i, e) \in Seq(S)
         /\ Len(InsertAt(s, i, e)) = Len(s) + 1
         /\ \A k \in 1 .. Len(s) : k < i => InsertAt(s, i, e)[k] = s[k]
         /\ InsertAt(s, i, e)[i] = e
         /\ \A k \in 1 .. Len(s) : i <= k => InsertAt(s, i, e)[k + 1] = s[k]
<1> DEFINE l == SubSeq(s, 1, i - 1)
           m == l \o <<e>>
           r == SubSeq(s, i, Len(s))
<1>1. l \in Seq(S) /\ Len(l) = i - 1 /\ \A k \in 1 .. i - 1 : l[k] = s[k]
  <2>1. \A k \in 1 .. i - 1 : s[k] \in S
    BY ElementOfSeq
  <2> QED  BY <2>1, SubSeqProperties
<1>2. r \in Seq(S) /\ Len(r) = Len(s) - i + 1
      /\ \A k \in 1 .. Len(s) - i + 1 : r[k] = s[i + k - 1]
  <2>1. \A k \in i .. Len(s) : s[k] \in S
    BY ElementOfSeq
  <2> QED  BY <2>1, SubSeqProperties
<1>3. <<e>> \in Seq(S) /\ Len(<<e>>) = 1 /\ <<e>>[1] = e
  OBVIOUS
<1> HIDE DEF l, r
<1>4. m \in Seq(S) /\ Len(m) = i /\ (\A k \in 1 .. i : m[k] = IF k < i THEN l[k] ELSE e)
  BY <1>1, <1>3, ConcatProperties
<1> HIDE DEF m
<1>5. /\ m \o r \in Seq(S)
      /\ Len(m \o r) = i + (Len(s) - i + 1)
      /\ \A k \in 1 .. Len(s) + 1 : (m \o r)[k] = IF k <= i THEN m[k] ELSE r[k - i]
  BY <1>2, <1>4, ConcatProperties
<1>6. InsertAt(s, i, e) = m \o r
  BY DEF InsertAt, l, m, r
<1> QED
  BY <1>1, <1>2, <1>4, <1>5, <1>6

LEMMA RemoveAtProps ==
  ASSUME NEW S, NEW s \in Seq(S), NEW i \in 1 .. Len(s)
  PROVE  /\ RemoveAt(s, i) \in Seq(S)
         /\ Len(RemoveAt(s, i)) = Len(s) - 1
         /\ \A k \in 1 .. Len(s) - 1 :
               RemoveAt(s, i)[k] = IF k < i THEN s[k] ELSE s[k + 1]
<1> DEFINE l == SubSeq(s, 1, i - 1)
           r == SubSeq(s, i + 1, Len(s))
<1>1. l \in Seq(S) /\ Len(l) = i - 1 /\ \A k \in 1 .. i - 1 : l[k] = s[k]
  <2>1. \A k \in 1 .. i - 1 : s[k] \in S
    BY ElementOfSeq
  <2> QED  BY <2>1, SubSeqProperties
<1>2. r \in Seq(S) /\ Len(r) = Len(s) - i
      /\ \A k \in 1 .. Len(s) - i : r[k] = s[i + k]
  <2>1. \A k \in i + 1 .. Len(s) : s[k] \in S
    BY ElementOfSeq
  <2> QED  BY <2>1, SubSeqProperties
<1> HIDE DEF l, r
<1>3. /\ l \o r \in Seq(S)
      /\ Len(l \o r) = Len(s) - 1
      /\ \A k \in 1 .. Len(s) - 1 : (l \o r)[k] = IF k < i THEN l[k] ELSE r[k - i + 1]
  BY <1>1, <1>2, ConcatProperties
<1>4. RemoveAt(s, i) = l \o r
  BY DEF RemoveAt, l, r
<1> QED
  BY <1>1, <1>2, <1>3, <1>4
LEMMA AreaWords ==
  ASSUME TypeOK, NEW j \in 1 .. Len(mem_list)
  PROVE  /\ mem_list[j].base \in Word /\ mem_list[j].base \in Nat
         /\ mem_list[j].len \in Word /\ mem_list[j].len \in Nat
         /\ AreaEnd(j) = mem_list[j].base + mem_list[j].len
         /\ AreaEnd(j) \in Nat
<1>1. mem_list[j] \in Area
  BY ElementOfSeq DEF TypeOK
<1>2. mem_list[j].base \in Word /\ mem_list[j].len \in Word
  BY <1>1 DEF Area
<1>3. \A x \in Word : x \in Nat
  BY DEF Word
<1> QED
  BY <1>2, <1>3 DEF AreaEnd

LEMMA PrevTopInWord ==
  ASSUME TypeOK, NEW i \in Gaps(mem_list)
  PROVE  prev_top(mem_list, i) \in Word
<1>1. CASE i = 0
  BY <1>1, LayoutAssumption DEF prev_top, Word
<1>2. CASE i \in 1 .. Len(mem_list)
  <2>1. mem_list[i] \in Area
    BY <1>2, ElementOfSeq DEF TypeOK
  <2>2. mem_list[i].base \in Int /\ mem_list[i].len \in Int
    BY <2>1 DEF Area, Word
  <2>3. prev_top(mem_list, i) = Plus(mem_list[i].base, mem_list[i].len)
    BY <1>2 DEF prev_top
  <2> QED
    BY <2>2, <2>3, WordArithmetic
<1> QED
  BY <1>1, <1>2 DEF Gaps

LEMMA GapLenInWord ==
  ASSUME TypeOK, NEW i \in Gaps(mem_list)
  PROVE  GapLen(mem_list, i) \in Word
<1>1. (IF i < Len(mem_list) THEN mem_list[i + 1].base ELSE mem_allocatable_top) \in Int
  <2>1. i \in Nat /\ Len(mem_list) \in Nat /\ (i < Len(mem_list) => i + 1 \in 1 .. Len(mem_list))
    BY LenProperties DEF Gaps, TypeOK
  <2>2. i < Len(mem_list) => mem_list[i + 1] \in Area
    BY <2>1, ElementOfSeq DEF TypeOK
  <2> QED
    BY <2>1, <2>2, LayoutAssumption DEF Area, Word, mem_allocatable_top
<1> QED
  <2>1. prev_top(mem_list, i) \in Int
    BY PrevTopInWord, LayoutAssumption DEF Word
  <2> QED
    BY <1>1, <2>1, WordArithmetic DEF GapLen

LEMMA TypeStep == TypeOK /\ [Next]_vars => TypeOK'
<1> SUFFICES ASSUME TypeOK, [Next]_vars
             PROVE  TypeOK'
  OBVIOUS
<1> USE DEF TypeOK
<1>0. 0 \in Word /\ \A a \in Area : a.base \in Word /\ a.len \in Word
  BY LayoutAssumption DEF Word, Area
<1>1. ASSUME NEW newsiz \in Word, Malloc(newsiz)
      PROVE  TypeOK'
  <2>1. CASE MallocQuery
    <3>1. \A n \in Word : d0' = n => d0' \in Word
      OBVIOUS
    <3> QED
      BY <1>1, <2>1 DEF Malloc, MallocQuery
  <2>2. CASE MallocGrant(newsiz)
    <3>1. PICK i \in 0 .. Len(mem_list) :
             /\ FirstFit(mem_list, i, newsiz)
             /\ mem_list' = InsertAt(mem_list, i + 1,
                               [base |-> prev_top(mem_list, i), len |-> newsiz])
             /\ d0' = prev_top(mem_list, i)
      BY <2>2 DEF MallocGrant
    <3>2. prev_top(mem_list, i) \in Word
      BY <3>1, PrevTopInWord DEF FirstFit
    <3>3. [base |-> prev_top(mem_list, i), len |-> newsiz] \in Area
      BY <3>2 DEF Area
    <3>4. i + 1 \in 1 .. Len(mem_list) + 1
      BY LenProperties
    <3>5. mem_list' \in Seq(Area)
      BY <3>1, <3>3, <3>4, InsertAtProps
    <3> QED
      BY <1>1, <3>1, <3>2, <3>5 DEF Malloc
  <2>3. CASE MallocRefuse(newsiz)
    BY <1>0, <1>1, <2>3 DEF Malloc, MallocRefuse
  <2> QED
    BY <1>1, <2>1, <2>2, <2>3 DEF Malloc
<1>2. ASSUME NEW block \in Word, NEW newsiz \in Word, Mshrink(block, newsiz)
      PROVE  TypeOK'
  <2>1. ASSUME NEW i \in DOMAIN mem_list
        PROVE  [mem_list EXCEPT ![i].len = newsiz] \in Seq(Area)
    <3>1. i \in 1 .. Len(mem_list) /\ mem_list[i] \in Area
      BY ElementOfSeq, LenProperties
    <3>2. [mem_list[i] EXCEPT !.len = newsiz] \in Area
      BY <3>1 DEF Area
    <3>3. [mem_list EXCEPT ![i] = [mem_list[i] EXCEPT !.len = newsiz]] \in Seq(Area)
      BY <3>1, <3>2, ExceptSeq
    <3> QED
      BY <3>3
  <2> QED
    BY <1>0, <1>2, <2>1 DEF Mshrink
<1>3. ASSUME NEW block \in Word, Mfree(block)
      PROVE  TypeOK'
  <2>1. ASSUME NEW i \in DOMAIN mem_list
        PROVE  RemoveAt(mem_list, i) \in Seq(Area)
    BY RemoveAtProps, LenProperties
  <2> QED
    BY <1>0, <1>3, <2>1 DEF Mfree
<1>4. CASE gemdos_mem_free
  BY <1>4, EmptySeq DEF gemdos_mem_free
<1>5. CASE UNCHANGED vars
  BY <1>5 DEF vars
<1> QED
  BY <1>1, <1>2, <1>3, <1>4, <1>5 DEF Next

(* Under Spec, where the heap may be broken, words stay words.             *)
THEOREM TypeCorrect == Spec => []TypeOK
<1>1. Init => TypeOK
  BY LayoutAssumption DEF Init, TypeOK, Area, Word
<1> QED
  BY <1>1, TypeStep, PTL DEF Spec
-----------------------------------------------------------------------------
(* In a well-formed heap the arithmetic on words does not wrap.            *)

Limit(i) == IF i < Len(mem_list) THEN mem_list[i + 1].base ELSE mem_allocatable_top
Start(i) == IF i = 0 THEN LowTPA + BasePageLen ELSE AreaEnd(i)

LEMMA GapExact ==
  ASSUME TypeOK, WellFormed, NEW i \in Gaps(mem_list)
  PROVE  /\ prev_top(mem_list, i) = Start(i)
         /\ GapLen(mem_list, i) = Limit(i) - Start(i)
         /\ Start(i) \in Nat /\ Limit(i) \in Nat
         /\ LowTPA <= Start(i) /\ Start(i) <= Limit(i) /\ Limit(i) <= mem_allocatable_top
<1>0. Len(mem_list) \in Nat /\ DOMAIN mem_list = 1 .. Len(mem_list)
  BY LenProperties DEF TypeOK
<1>1. \A j \in 1 .. Len(mem_list) :
         /\ mem_list[j].base \in Word /\ mem_list[j].len \in Word
         /\ AreaEnd(j) \in Nat
         /\ LowTPA <= mem_list[j].base /\ AreaEnd(j) <= mem_allocatable_top
  BY <1>0, AreaWords DEF WellFormed, InsideManaged
<1>2. mem_allocatable_top \in Word
  BY LayoutAssumption DEF mem_allocatable_top, Word
<1>3. CASE i = 0
  <2>1. Len(mem_list) = 0
    BY <1>0, <1>3, EmptySeq DEF Gaps, TypeOK
  <2>2. Start(i) = LowTPA + BasePageLen /\ Limit(i) = mem_allocatable_top
    BY <1>3, <2>1 DEF Start, Limit
  <2>3. /\ Start(i) \in Nat
        /\ LowTPA <= Start(i) /\ Start(i) <= mem_allocatable_top
        /\ mem_allocatable_top - Start(i) \in Word
    BY <2>2, LayoutAssumption DEF mem_allocatable_top, Word
  <2>4. prev_top(mem_list, i) = Start(i)
    BY <1>3, <2>2 DEF prev_top
  <2>5. GapLen(mem_list, i) = Minus(mem_allocatable_top, Start(i))
    BY <1>3, <2>1, <2>4 DEF GapLen
  <2>6. GapLen(mem_list, i) = mem_allocatable_top - Start(i)
    BY <1>2, <2>3, <2>5, WordArithmetic DEF Word
  <2> QED
    BY <1>2, <2>2, <2>3, <2>4, <2>6 DEF Word
<1>4. CASE i \in 1 .. Len(mem_list)
  <2>1. Start(i) = AreaEnd(i) /\ AreaEnd(i) \in Word
    <3>1. AreaEnd(i) \in Nat /\ AreaEnd(i) <= mem_allocatable_top
      BY <1>1, <1>4
    <3>2. Start(i) = AreaEnd(i)
      BY <1>4 DEF Start
    <3>3. \A x \in Nat : x <= mem_allocatable_top => x \in Word
      BY <1>2, LayoutAssumption DEF Word
    <3> QED
      BY <3>1, <3>2, <3>3
  <2>2. prev_top(mem_list, i) = Start(i)
    <3>1. prev_top(mem_list, i) = Plus(mem_list[i].base, mem_list[i].len)
      BY <1>4 DEF prev_top
    <3>2. /\ mem_list[i].base \in Int /\ mem_list[i].len \in Int
          /\ AreaEnd(i) = mem_list[i].base + mem_list[i].len
      BY <1>4, AreaWords
    <3> QED
      BY <2>1, <3>1, <3>2, WordArithmetic
  <2>3. Limit(i) \in Word /\ Start(i) <= Limit(i) /\ Limit(i) <= mem_allocatable_top
    <3>1. CASE i < Len(mem_list)
      <4>1. i + 1 \in 1 .. Len(mem_list) /\ Limit(i) = mem_list[i + 1].base
        BY <1>0, <1>4, <3>1 DEF Limit
      <4>2. AreaEnd(i) <= mem_list[i + 1].base
        BY <1>0, <1>4, <4>1 DEF WellFormed, SortedApart
      <4>3. mem_list[i + 1].base <= AreaEnd(i + 1)
        BY <4>1, AreaWords
      <4>4. mem_list[i + 1].base \in Word /\ AreaEnd(i + 1) \in Nat
            /\ AreaEnd(i + 1) <= mem_allocatable_top
        BY <1>1, <4>1
      <4> QED
        BY <1>2, <2>1, <4>1, <4>2, <4>3, <4>4 DEF Word
    <3>2. CASE ~ (i < Len(mem_list))
      <4>1. Limit(i) = mem_allocatable_top
        BY <3>2 DEF Limit
      <4>2. AreaEnd(i) <= mem_allocatable_top
        BY <1>1, <1>4
      <4> QED
        BY <1>2, <2>1, <4>1, <4>2 DEF Word
    <3> QED
      BY <3>1, <3>2
  <2>4. GapLen(mem_list, i) = Minus(Limit(i), Start(i))
    BY <2>2 DEF GapLen, Limit
  <2>5. Limit(i) - Start(i) \in Word
    BY <2>1, <2>3, LayoutAssumption DEF Word
  <2>6. Start(i) \in Nat /\ Limit(i) \in Nat /\ LowTPA <= Start(i)
    <3>1. LowTPA <= mem_list[i].base
      BY <1>1, <1>4
    <3>2. LowTPA <= AreaEnd(i)
      BY <1>4, <3>1, AreaWords, LayoutAssumption
    <3> QED
      BY <2>1, <2>3, <3>2 DEF Word
  <2> QED
    BY <2>2, <2>3, <2>4, <2>5, <2>6, WordArithmetic
<1> QED
  BY <1>3, <1>4 DEF Gaps
LEMMA GapUnused ==
  ASSUME TypeOK, WellFormed, NEW i \in Gaps(mem_list), NEW j \in 1 .. Len(mem_list)
  PROVE  /\ j <= i => AreaEnd(j) <= Start(i)
         /\ i < j  => Limit(i) <= mem_list[j].base
<1>0. Len(mem_list) \in Nat /\ DOMAIN mem_list = 1 .. Len(mem_list)
  BY LenProperties DEF TypeOK
<1>1. \A k \in 1 .. Len(mem_list) :
         /\ mem_list[k].base \in Nat /\ mem_list[k].len \in Nat
         /\ AreaEnd(k) = mem_list[k].base + mem_list[k].len
  BY AreaWords
<1>2. \A l, k \in 1 .. Len(mem_list) : l < k => AreaEnd(l) <= mem_list[k].base
  BY <1>0 DEF WellFormed, SortedApart
<1>3. i \in 1 .. Len(mem_list)
  BY <1>0, EmptySeq DEF Gaps
<1>4. j <= i => AreaEnd(j) <= Start(i)
  <2>1. Start(i) = AreaEnd(i)
    BY <1>3 DEF Start
  <2>2. CASE j < i
    <3>1. AreaEnd(j) <= mem_list[i].base
      BY <1>2, <1>3, <2>2
    <3> QED
      BY <1>1, <1>3, <2>1, <3>1
  <2>3. CASE j = i
    BY <1>1, <2>1, <2>3
  <2> QED
    BY <1>3, <2>2, <2>3
<1>5. i < j => Limit(i) <= mem_list[j].base
  <2> SUFFICES ASSUME i < j PROVE Limit(i) <= mem_list[j].base
    OBVIOUS
  <2>1. i + 1 \in 1 .. Len(mem_list) /\ Limit(i) = mem_list[i + 1].base
    BY <1>0, <1>3 DEF Limit
  <2> QED
    BY <1>1, <1>2, <1>3, <2>1
<1> QED
  BY <1>4, <1>5

-----------------------------------------------------------------------------
(* What the calls do to a well-formed heap, area by area.                  *)

LEMMA GrantEffect ==
  ASSUME TypeOK, WellFormed, NEW newsiz \in Word, MallocGrant(newsiz)
  PROVE  \E i \in Gaps(mem_list) :
            /\ Start(i) + newsiz < Limit(i)
            /\ DOMAIN mem_list' = 1 .. Len(mem_list) + 1
            /\ \A k \in 1 .. Len(mem_list) : k <= i => mem_list'[k] = mem_list[k]
            /\ mem_list'[i + 1] = [base |-> Start(i), len |-> newsiz]
            /\ \A k \in 1 .. Len(mem_list) : i < k => mem_list'[k + 1] = mem_list[k]
<1>0. Len(mem_list) \in Nat /\ mem_list \in Seq(Area)
  BY LenProperties DEF TypeOK
<1>1. PICK i \in 0 .. Len(mem_list) :
         /\ FirstFit(mem_list, i, newsiz)
         /\ mem_list' = InsertAt(mem_list, i + 1,
                               [base |-> prev_top(mem_list, i), len |-> newsiz])
  BY DEF MallocGrant
<1> DEFINE n == [base |-> Start(i), len |-> newsiz]
           p == i + 1
           new == InsertAt(mem_list, p, n)
<1>2. i \in Gaps(mem_list) /\ newsiz < GapLen(mem_list, i)
  BY <1>1 DEF FirstFit, Fits
<1>3. Start(i) + newsiz < Limit(i)
  <2>1. newsiz \in Nat
    BY DEF Word
  <2> QED
    BY <1>2, <2>1, GapExact
<1>4. prev_top(mem_list, i) = Start(i) /\ prev_top(mem_list, i) \in Word
  BY <1>2, GapExact, PrevTopInWord
<1>5. n \in Area
  BY <1>4 DEF Area
<1>6. p \in 1 .. Len(mem_list) + 1
  BY <1>0
<1>7. mem_list' = new
  BY <1>1, <1>4
<1> HIDE DEF n, p, new
<1>8. new = InsertAt(mem_list, p, n)
  BY DEF new
<1>9. new \in Seq(Area)
  BY <1>0, <1>5, <1>6, <1>8, InsertAtProps
<1>10. Len(new) = Len(mem_list) + 1
  BY <1>0, <1>5, <1>6, <1>8, InsertAtProps
<1>11. \A k \in 1 .. Len(mem_list) : k < p => new[k] = mem_list[k]
  BY <1>0, <1>5, <1>6, <1>8, InsertAtProps
<1>12. new[p] = n
  BY <1>0, <1>5, <1>6, <1>8, InsertAtProps
<1>13. \A k \in 1 .. Len(mem_list) : p <= k => new[k + 1] = mem_list[k]
  BY <1>0, <1>5, <1>6, <1>8, InsertAtProps
<1>14. DOMAIN new = 1 .. Len(mem_list) + 1
  BY <1>9, <1>10, LenProperties
<1>15. \A k \in 1 .. Len(mem_list) : (k <= i <=> k < p) /\ (i < k <=> p <= k)
  BY <1>0 DEF p
<1> QED
  BY <1>2, <1>3, <1>7, <1>11, <1>12, <1>13, <1>14, <1>15 DEF n, p

(* Mfree: the k-th area left is the old(k)-th area before.                 *)
LEMMA FreeEffect ==
  ASSUME TypeOK, NEW i \in DOMAIN mem_list, mem_list' = RemoveAt(mem_list, i)
  PROVE  /\ Len(mem_list) \in Nat /\ i \in 1 .. Len(mem_list)
         /\ DOMAIN mem_list' = 1 .. Len(mem_list) - 1
         /\ Len(mem_list') = Len(mem_list) - 1
         /\ \A k \in DOMAIN mem_list' :
               mem_list'[k] = IF k < i THEN mem_list[k] ELSE mem_list[k + 1]
<1>1. /\ mem_list \in Seq(Area) /\ Len(mem_list) \in Nat /\ i \in 1 .. Len(mem_list)
  BY LenProperties DEF TypeOK
<1>2. mem_list' \in Seq(Area) /\ Len(mem_list') = Len(mem_list) - 1
  BY <1>1, RemoveAtProps
<1>3. \A k \in 1 .. Len(mem_list) - 1 :
         mem_list'[k] = IF k < i THEN mem_list[k] ELSE mem_list[k + 1]
  BY <1>1, RemoveAtProps
<1>4. DOMAIN mem_list' = 1 .. Len(mem_list')
  BY <1>2, LenProperties
<1> QED
  BY <1>1, <1>2, <1>3, <1>4

-----------------------------------------------------------------------------
(* The three calls preserve a well-formed heap.                            *)

LEMMA GrantKeepsWellFormed ==
  ASSUME TypeOK, WellFormed, NEW newsiz \in Word, MallocGrant(newsiz)
  PROVE  WellFormed'
<1>0. Len(mem_list) \in Nat /\ DOMAIN mem_list = 1 .. Len(mem_list) /\ newsiz \in Nat
  BY LenProperties DEF TypeOK, Word
<1>1. PICK i \in Gaps(mem_list) :
            /\ Start(i) + newsiz < Limit(i)
            /\ DOMAIN mem_list' = 1 .. Len(mem_list) + 1
            /\ \A k \in 1 .. Len(mem_list) : k <= i => mem_list'[k] = mem_list[k]
            /\ mem_list'[i + 1] = [base |-> Start(i), len |-> newsiz]
            /\ \A k \in 1 .. Len(mem_list) : i < k => mem_list'[k + 1] = mem_list[k]
  BY GrantEffect
<1>2. i \in 0 .. Len(mem_list)
  BY <1>0 DEF Gaps
<1>3. /\ Start(i) \in Nat /\ Limit(i) \in Nat
      /\ LowTPA <= Start(i) /\ Limit(i) <= mem_allocatable_top
  BY GapExact
<1>4. /\ \A k \in 1 .. Len(mem_list) : k <= i =>
            mem_list'[k].base = mem_list[k].base /\ AreaEnd(k)' = AreaEnd(k)
      /\ mem_list'[i + 1].base = Start(i) /\ AreaEnd(i + 1)' = Start(i) + newsiz
      /\ \A k \in 1 .. Len(mem_list) : i < k =>
            mem_list'[k + 1].base = mem_list[k].base /\ AreaEnd(k + 1)' = AreaEnd(k)
  BY <1>1 DEF AreaEnd
<1>5. \A k \in 1 .. Len(mem_list) :
          /\ mem_list[k].base \in Nat /\ AreaEnd(k) \in Nat
          /\ LowTPA <= mem_list[k].base /\ AreaEnd(k) <= mem_allocatable_top
  BY <1>0, AreaWords DEF WellFormed, InsideManaged
<1>6. \A j, k \in 1 .. Len(mem_list) : j < k => AreaEnd(j) <= mem_list[k].base
  BY <1>0 DEF WellFormed, SortedApart
<1>7. \A j \in 1 .. Len(mem_list) : j <= i => AreaEnd(j) <= Start(i)
  BY GapUnused
<1>8. \A k \in 1 .. Len(mem_list) : i < k => Start(i) + newsiz <= mem_list[k].base
  <2>1. \A k \in 1 .. Len(mem_list) : i < k => Limit(i) <= mem_list[k].base
    BY GapUnused
  <2> QED
    BY <1>0, <1>1, <1>3, <1>5, <2>1
<1>9. SortedApart'
  <2> SUFFICES ASSUME NEW j \in 1 .. Len(mem_list) + 1, NEW k \in 1 .. Len(mem_list) + 1, j < k
               PROVE  AreaEnd(j)' <= mem_list'[k].base
    BY <1>1 DEF SortedApart
  <2>1. CASE j <= i /\ k <= i
    BY <1>0, <1>2, <1>4, <1>6, <2>1
  <2>2. CASE j <= i /\ k = i + 1
    BY <1>0, <1>2, <1>4, <1>7, <2>2
  <2>3. CASE j <= i /\ i + 1 < k
    <3>1. j \in 1 .. Len(mem_list) /\ k - 1 \in 1 .. Len(mem_list)
          /\ j < k - 1 /\ i < k - 1 /\ (k - 1) + 1 = k
      BY <1>0, <1>2, <2>3
    <3> QED
      BY <1>4, <1>6, <2>3, <3>1
  <2>4. CASE j = i + 1 /\ i + 1 < k
    <3>1. k - 1 \in 1 .. Len(mem_list) /\ i < k - 1 /\ (k - 1) + 1 = k
      BY <1>0, <1>2, <2>4
    <3> QED
      BY <1>4, <1>8, <2>4, <3>1
  <2>5. CASE i + 1 < j
    <3>1. /\ j - 1 \in 1 .. Len(mem_list) /\ k - 1 \in 1 .. Len(mem_list)
          /\ j - 1 < k - 1 /\ i < j - 1 /\ i < k - 1
          /\ (j - 1) + 1 = j /\ (k - 1) + 1 = k
      BY <1>0, <1>2, <2>5
    <3> QED
      BY <1>4, <1>6, <3>1
  <2> QED
    BY <1>0, <1>2, <2>1, <2>2, <2>3, <2>4, <2>5
<1>10. InsideManaged'
  <2> SUFFICES ASSUME NEW k \in 1 .. Len(mem_list) + 1
               PROVE  LowTPA <= mem_list'[k].base /\ AreaEnd(k)' <= mem_allocatable_top
    BY <1>1 DEF InsideManaged, mem_allocatable_top
  <2>1. CASE k < i + 1
    <3>1. k \in 1 .. Len(mem_list) /\ k <= i
      BY <1>0, <1>2, <2>1
    <3> QED
      BY <1>4, <1>5, <3>1
  <2>2. CASE k = i + 1
    <3>1. mem_allocatable_top \in Nat /\ LowTPA \in Nat
      BY LayoutAssumption DEF mem_allocatable_top
    <3>2. Start(i) + newsiz <= mem_allocatable_top
      BY <1>0, <1>1, <1>3, <3>1
    <3> QED
      BY <1>3, <1>4, <2>2, <3>2
  <2>3. CASE i + 1 < k
    <3>1. k - 1 \in 1 .. Len(mem_list) /\ i < k - 1 /\ (k - 1) + 1 = k
      BY <1>0, <1>2, <2>3
    <3> QED
      BY <1>4, <1>5, <3>1
  <2> QED
    BY <1>0, <1>2, <2>1, <2>2, <2>3
<1> QED
  BY <1>9, <1>10 DEF WellFormed

LEMMA ShrinkKeepsWellFormed ==
  ASSUME TypeOK, WellFormed, NEW newsiz \in Word, NEW i \in DOMAIN mem_list,
         newsiz <= mem_list[i].len,
         mem_list' = [mem_list EXCEPT ![i].len = newsiz]
  PROVE  WellFormed'
<1>0. newsiz \in Nat /\ DOMAIN mem_list = 1 .. Len(mem_list) /\ mem_list \in Seq(Area)
  BY LenProperties DEF TypeOK, Word
<1>1. \A k \in DOMAIN mem_list :
         /\ mem_list[k].base \in Nat /\ mem_list[k].len \in Nat
         /\ AreaEnd(k) = mem_list[k].base + mem_list[k].len
  BY <1>0, AreaWords
<1>2. mem_list[i] \in [base : Word, len : Word]
  BY <1>0, ElementOfSeq DEF Area
<1>3. /\ DOMAIN mem_list' = DOMAIN mem_list
      /\ \A k \in DOMAIN mem_list : k # i => mem_list'[k] = mem_list[k]
      /\ mem_list'[i].base = mem_list[i].base /\ mem_list'[i].len = newsiz
  BY <1>0, <1>2
<1>4. \A k \in DOMAIN mem_list :
         /\ mem_list'[k].base = mem_list[k].base
         /\ mem_list'[k].len <= mem_list[k].len /\ mem_list'[k].len \in Nat
  BY <1>0, <1>1, <1>3
<1>5. \A k \in DOMAIN mem_list : AreaEnd(k)' <= AreaEnd(k) /\ AreaEnd(k)' \in Nat
  <2>1. \A k \in DOMAIN mem_list : AreaEnd(k)' = mem_list'[k].base + mem_list'[k].len
    BY DEF AreaEnd
  <2> QED
    BY <1>1, <1>4, <2>1
<1>6. SortedApart'
  <2> SUFFICES ASSUME NEW j \in DOMAIN mem_list, NEW k \in DOMAIN mem_list, j < k
               PROVE  AreaEnd(j)' <= mem_list'[k].base
    BY <1>3 DEF SortedApart
  <2>1. AreaEnd(j) <= mem_list[k].base
    BY DEF WellFormed, SortedApart
  <2>2. AreaEnd(j) \in Nat /\ mem_list[k].base \in Nat
    BY <1>0, AreaWords
  <2> QED
    BY <1>4, <1>5, <2>1, <2>2
<1>7. InsideManaged'
  <2> SUFFICES ASSUME NEW k \in DOMAIN mem_list
               PROVE  LowTPA <= mem_list'[k].base /\ AreaEnd(k)' <= mem_allocatable_top
    BY <1>3 DEF InsideManaged, mem_allocatable_top
  <2>1. LowTPA <= mem_list[k].base /\ AreaEnd(k) <= mem_allocatable_top
    BY DEF WellFormed, InsideManaged
  <2>2. AreaEnd(k) \in Nat /\ mem_list[k].base \in Nat
    BY <1>0, AreaWords
  <2> QED
    BY <1>4, <1>5, <2>1, <2>2, LayoutAssumption DEF mem_allocatable_top
<1> QED
  BY <1>6, <1>7 DEF WellFormed

LEMMA FreeKeepsWellFormed ==
  ASSUME TypeOK, WellFormed, NEW i \in DOMAIN mem_list,
         mem_list' = RemoveAt(mem_list, i)
  PROVE  WellFormed'
<1>0. Len(mem_list) \in Nat /\ DOMAIN mem_list = 1 .. Len(mem_list)
  BY LenProperties DEF TypeOK
<1>1. /\ DOMAIN mem_list' = 1 .. Len(mem_list) - 1
      /\ \A k \in 1 .. Len(mem_list) - 1 :
            mem_list'[k] = IF k < i THEN mem_list[k] ELSE mem_list[k + 1]
  BY FreeEffect
<1> DEFINE old(k) == IF k < i THEN k ELSE k + 1
<1>2. \A k \in DOMAIN mem_list' :
         /\ old(k) \in DOMAIN mem_list
         /\ mem_list'[k] = mem_list[old(k)]
  BY <1>0, <1>1
<1>3. \A k \in DOMAIN mem_list' : AreaEnd(k)' = AreaEnd(old(k))
  BY <1>2 DEF AreaEnd
<1>4. \A j, k \in DOMAIN mem_list' : j < k => old(j) < old(k)
  BY <1>0, <1>1
<1> HIDE DEF old
<1>5. SortedApart'
  BY <1>2, <1>3, <1>4 DEF WellFormed, SortedApart
<1>6. InsideManaged'
  BY <1>2, <1>3 DEF WellFormed, InsideManaged, mem_allocatable_top
<1> QED
  BY <1>5, <1>6 DEF WellFormed
LEMMA WellFormedStep == TypeOK /\ WellFormed /\ [Next]_vars => WellFormed'
<1> SUFFICES ASSUME TypeOK, WellFormed, [Next]_vars
             PROVE  WellFormed'
  OBVIOUS
<1>0. ASSUME mem_list' = mem_list PROVE WellFormed'
  BY <1>0 DEF WellFormed, SortedApart, InsideManaged, AreaEnd, mem_allocatable_top
<1>1. ASSUME NEW newsiz \in Word, Malloc(newsiz)
      PROVE  WellFormed'
  BY <1>0, <1>1, GrantKeepsWellFormed DEF Malloc, MallocQuery, MallocRefuse
<1>2. ASSUME NEW block \in Word, NEW newsiz \in Word, Mshrink(block, newsiz)
      PROVE  WellFormed'
  <2>1. ASSUME NEW i \in DOMAIN mem_list, ~ TooLarge(i, newsiz)
        PROVE  newsiz <= mem_list[i].len
    <3>1. mem_list[i].len \in Nat /\ newsiz \in Nat
      BY AreaWords, LenProperties DEF TypeOK, Word
    <3> QED
      BY <2>1, <3>1 DEF TooLarge
  <2> QED
    BY <1>0, <1>2, <2>1, ShrinkKeepsWellFormed DEF Mshrink
<1>3. ASSUME NEW block \in Word, Mfree(block)
      PROVE  WellFormed'
  BY <1>0, <1>3, FreeKeepsWellFormed DEF Mfree
<1>4. CASE gemdos_mem_free
  <2>1. DOMAIN mem_list' = {}
    BY <1>4 DEF gemdos_mem_free
  <2> QED
    BY <2>1 DEF WellFormed, SortedApart, InsideManaged
<1>5. CASE UNCHANGED vars
  BY <1>0, <1>5 DEF vars
<1> QED
  BY <1>1, <1>2, <1>3, <1>4, <1>5 DEF Next

LEMMA TrimmedInitOK == TrimmedInit => TypeOK /\ WellFormed
<1> SUFFICES ASSUME TrimmedInit PROVE TypeOK /\ WellFormed
  OBVIOUS
<1>1. PICK len \in Word : /\ LowTPA + len <= mem_allocatable_top
                          /\ mem_list = <<[base |-> LowTPA, len |-> len]>>
  BY DEF TrimmedInit
<1>2. LowTPA \in Word /\ 0 \in Word /\ len \in Nat
  BY LayoutAssumption DEF Word
<1>3. TypeOK
  BY <1>1, <1>2 DEF TypeOK, TrimmedInit, Area
<1>4. DOMAIN mem_list = {1} /\ mem_list[1].base = LowTPA /\ mem_list[1].len = len
  BY <1>1
<1>5. WellFormed
  BY <1>1, <1>2, <1>4, LayoutAssumption
  DEF WellFormed, SortedApart, InsideManaged, AreaEnd
<1> QED
  BY <1>3, <1>5

-----------------------------------------------------------------------------
(* Once the program has trimmed its initial area the heap stays sorted,    *)
(* disjoint and inside managed memory, whatever calls it makes.            *)
THEOREM HeapWellFormed == TrimmedSpec => [](TypeOK /\ WellFormed)
<1>1. TypeOK /\ WellFormed /\ [Next]_vars => (TypeOK /\ WellFormed)'
  BY TypeStep, WellFormedStep
<1> QED
  BY <1>1, TrimmedInitOK, PTL DEF TrimmedSpec

(* From the moment of the program's start, no call breaks a heap that is   *)
(* well formed, however broken it was before.                              *)
THEOREM HeapStable == Spec => WellFormedStable
<1>1. TypeOK /\ [Next]_vars => [WellFormed => WellFormed']_vars
  BY WellFormedStep
<1> QED
  BY <1>1, TypeCorrect, PTL DEF Spec, WellFormedStable

(* Malloc(-1) answers exactly the bound below which Malloc grants.         *)
THEOREM QueryIsExact == TrimmedSpec => []QueryExact
<1>1. TypeOK /\ WellFormed => QueryExact
  <2> SUFFICES ASSUME TypeOK, WellFormed, NEW n \in Word, LargestGap(mem_list, n)
               PROVE  /\ \E lo \in LowTPA .. mem_allocatable_top - n : Unused(lo, lo + n)
                      /\ \A newsiz \in Word : Grantable(newsiz) <=> newsiz < n
    BY DEF QueryExact
  <2>1. \A i \in Gaps(mem_list) : GapLen(mem_list, i) \in Nat /\ GapLen(mem_list, i) <= n
    BY GapLenInWord DEF LargestGap, Word
  <2>2. PICK i \in Gaps(mem_list) : n = GapLen(mem_list, i)
    BY DEF LargestGap
  <2>3. n \in Nat /\ \A newsiz \in Word : newsiz \in Nat
    BY DEF Word
  <2>4. \A newsiz \in Word : Grantable(newsiz) <=> newsiz < n
    BY <2>1, <2>2, <2>3 DEF Grantable, Fits
  <2>5. Start(i) + n = Limit(i) /\ Start(i) \in LowTPA .. mem_allocatable_top - n
    <3>1. mem_allocatable_top \in Nat
      BY LayoutAssumption DEF mem_allocatable_top
    <3> QED
      BY <2>2, <2>3, <3>1, GapExact, LayoutAssumption
  <2>6. Unused(Start(i), Limit(i))
    <3>1. DOMAIN mem_list = 1 .. Len(mem_list) /\ i \in Int /\ Len(mem_list) \in Nat
      BY LenProperties DEF TypeOK, Gaps
    <3>2. \A j \in 1 .. Len(mem_list) : j <= i \/ i < j
      BY <3>1
    <3> QED
      BY <3>1, <3>2, GapUnused DEF Unused
  <2> QED
    BY <2>4, <2>5, <2>6
<1> QED
  BY <1>1, HeapWellFormed, PTL

(* Memory given back with Mfree, but for the first area, can be had again. *)
THEOREM FreedSpaceComesBack == TrimmedSpec => FreedSpaceReusable
<1> DEFINE GapsExact == \A i \in Gaps(mem_list) :
                           /\ GapLen(mem_list, i) = Limit(i) - Start(i)
                           /\ Limit(i) \in Nat /\ Start(i) \in Nat
<1>1. TypeOK /\ WellFormed => GapsExact
  BY GapExact
<1>2. (TypeOK /\ WellFormed)' => GapsExact'
  BY <1>1, PTL
<1> DEFINE Reusable == \A i \in 2 .. Len(mem_list) :
          loaded' /\ WellFormed /\ mem_list' = RemoveAt(mem_list, i) =>
             \A n \in Word : n < mem_list[i].len => Grantable(n)'
<1>3. ASSUME TypeOK, (TypeOK /\ WellFormed)', NEW i \in 2 .. Len(mem_list),
             WellFormed, mem_list' = RemoveAt(mem_list, i),
             NEW n \in Word, n < mem_list[i].len
      PROVE  Grantable(n)'
  <2>0. i \in DOMAIN mem_list /\ i \in 1 .. Len(mem_list) /\ i - 1 \in 1 .. Len(mem_list)
        /\ i - 1 < i /\ Len(mem_list) \in Nat /\ DOMAIN mem_list = 1 .. Len(mem_list)
    BY <1>3, LenProperties DEF TypeOK
  <2>1. /\ DOMAIN mem_list' = 1 .. Len(mem_list) - 1
        /\ Len(mem_list') = Len(mem_list) - 1
        /\ \A k \in DOMAIN mem_list' :
               mem_list'[k] = IF k < i THEN mem_list[k] ELSE mem_list[k + 1]
    BY <1>3, <2>0, FreeEffect
  <2>2. i - 1 \in Gaps(mem_list)'
    <3>1. mem_list' # <<>>
      BY <2>0, <2>1
    <3> QED
      BY <2>0, <2>1, <3>1 DEF Gaps
  <2>3. Start(i - 1)' = AreaEnd(i - 1)
    <3>1. mem_list'[i - 1] = mem_list[i - 1] /\ i - 1 # 0
      BY <2>0, <2>1
    <3> QED
      BY <3>1 DEF Start, AreaEnd
  <2>4. AreaEnd(i) <= Limit(i - 1)'
    <3>1. CASE i = Len(mem_list)
      <4>1. Limit(i - 1)' = mem_allocatable_top
        BY <2>0, <2>1, <3>1 DEF Limit, mem_allocatable_top
      <4> QED
        BY <1>3, <2>0, <4>1 DEF WellFormed, InsideManaged
    <3>2. CASE i < Len(mem_list)
      <4>1. i + 1 \in 1 .. Len(mem_list) /\ i \in 1 .. Len(mem_list) - 1
            /\ i - 1 < Len(mem_list) - 1 /\ (i - 1) + 1 = i /\ ~ (i < i)
        BY <2>0, <3>2
      <4>2. Limit(i - 1)' = mem_list[i + 1].base
        BY <2>1, <4>1 DEF Limit
      <4> QED
        BY <1>3, <2>0, <4>1, <4>2, <3>2 DEF WellFormed, SortedApart
    <3> QED
      BY <2>0, <3>1, <3>2
  <2>5. AreaEnd(i - 1) <= mem_list[i].base
    BY <1>3, <2>0 DEF WellFormed, SortedApart
  <2>6. /\ AreaEnd(i) = mem_list[i].base + mem_list[i].len
        /\ mem_list[i].base \in Nat /\ mem_list[i].len \in Nat
        /\ AreaEnd(i - 1) \in Nat /\ n \in Nat
    BY <1>3, <2>0, AreaWords DEF Word
  <2>7. /\ GapLen(mem_list, i - 1)' = Limit(i - 1)' - Start(i - 1)'
        /\ Limit(i - 1)' \in Nat
    BY <1>2, <1>3, <2>2
  <2>8. n < GapLen(mem_list, i - 1)'
    BY <1>3, <2>3, <2>4, <2>5, <2>6, <2>7
  <2> QED
    BY <2>2, <2>8 DEF Grantable, Fits
<1>4. TypeOK /\ (TypeOK /\ WellFormed)' => [Reusable]_vars
  BY <1>3
<1> QED
  BY <1>4, HeapWellFormed, PTL DEF FreedSpaceReusable

-----------------------------------------------------------------------------
(* A trimmed heap implements Arena.                                        *)

LEMMA HeldMember ==
  ASSUME NEW r
  PROVE  r \in Held <=> \E k \in DOMAIN mem_list : r = mem_list[k] /\ r.len > 0
BY DEF Held, Range

(* Two areas that are the same region would overlap.                       *)
LEMMA HeldOnce ==
  ASSUME TypeOK, WellFormed, NEW i \in DOMAIN mem_list, NEW k \in DOMAIN mem_list,
         mem_list[i].len > 0, mem_list[k] = mem_list[i]
  PROVE  k = i
<1>1. DOMAIN mem_list = 1 .. Len(mem_list) /\ Len(mem_list) \in Nat
  BY LenProperties DEF TypeOK
<1>2. \A j \in DOMAIN mem_list :
         mem_list[j].base \in Nat /\ mem_list[j].len \in Nat
         /\ AreaEnd(j) = mem_list[j].base + mem_list[j].len
  BY <1>1, AreaWords
<1>3. \A j, l \in DOMAIN mem_list : j < l => AreaEnd(j) <= mem_list[l].base
  BY DEF WellFormed, SortedApart
<1> QED
  BY <1>1, <1>2, <1>3

LEMMA GrantAcquires ==
  ASSUME TypeOK, WellFormed, NEW newsiz \in Word, MallocGrant(newsiz)
  PROVE  A!Acquire \/ UNCHANGED Held
<1>0. Len(mem_list) \in Nat /\ DOMAIN mem_list = 1 .. Len(mem_list) /\ newsiz \in Nat
  BY LenProperties DEF TypeOK, Word
<1>1. PICK i \in Gaps(mem_list) :
            /\ Start(i) + newsiz < Limit(i)
            /\ DOMAIN mem_list' = 1 .. Len(mem_list) + 1
            /\ \A k \in 1 .. Len(mem_list) : k <= i => mem_list'[k] = mem_list[k]
            /\ mem_list'[i + 1] = [base |-> Start(i), len |-> newsiz]
            /\ \A k \in 1 .. Len(mem_list) : i < k => mem_list'[k + 1] = mem_list[k]
  BY GrantEffect
<1>2. i \in 0 .. Len(mem_list)
  BY <1>0 DEF Gaps
<1> DEFINE n == [base |-> Start(i), len |-> newsiz]
<1>3. \A r : r \in Held' <=> r \in Held \/ (r = n /\ newsiz > 0)
  <2>1. \A r : r \in Held' <=> \E k \in DOMAIN mem_list' : r = mem_list'[k] /\ r.len > 0
    BY DEF Held, Range
  <2>2. \A k \in DOMAIN mem_list' :
           \/ mem_list'[k] = n
           \/ \E j \in DOMAIN mem_list : mem_list'[k] = mem_list[j]
    <3> SUFFICES ASSUME NEW k \in 1 .. Len(mem_list) + 1
                 PROVE  \/ mem_list'[k] = n
                        \/ \E j \in DOMAIN mem_list : mem_list'[k] = mem_list[j]
      BY <1>1
    <3>1. CASE k <= i
      BY <1>0, <1>1, <1>2, <3>1
    <3>2. CASE k = i + 1
      BY <1>1, <3>2
    <3>3. CASE i + 1 < k
      <4>1. k - 1 \in 1 .. Len(mem_list) /\ i < k - 1 /\ (k - 1) + 1 = k
        BY <1>0, <1>2, <3>3
      <4> QED
        BY <1>0, <1>1, <4>1
    <3> QED
      BY <1>0, <1>2, <3>1, <3>2, <3>3
  <2>3. \A j \in DOMAIN mem_list : \E k \in DOMAIN mem_list' : mem_list'[k] = mem_list[j]
    <3> SUFFICES ASSUME NEW j \in 1 .. Len(mem_list)
                 PROVE  \E k \in DOMAIN mem_list' : mem_list'[k] = mem_list[j]
      BY <1>0
    <3>1. CASE j <= i
      BY <1>0, <1>1, <3>1
    <3>2. CASE i < j
      <4>1. j + 1 \in DOMAIN mem_list'
        BY <1>0, <1>1
      <4> QED
        BY <1>1, <3>2, <4>1
    <3> QED
      BY <1>0, <1>2, <3>1, <3>2
  <2>4. i + 1 \in DOMAIN mem_list' /\ mem_list'[i + 1] = n /\ n.len = newsiz
    BY <1>0, <1>1, <1>2
  <2> HIDE DEF n
  <2> QED
    BY <2>1, <2>2, <2>3, <2>4, HeldMember
<1>4. CASE newsiz = 0
  <2>1. ~ (newsiz > 0)
    BY <1>4
  <2> HIDE DEF n
  <2>2. \A r : r \in Held' <=> r \in Held
    BY <1>3, <2>1
  <2>3. Held' = {r \in Held' : TRUE} /\ Held = {r \in Held : TRUE}
    OBVIOUS
  <2> QED
    BY <2>2, <2>3
<1>5. CASE newsiz > 0
  <2> DEFINE end == Start(i) + newsiz
  <2>1. /\ Start(i) \in Nat /\ Limit(i) \in Nat /\ LowTPA <= Start(i)
        /\ Limit(i) <= mem_allocatable_top
    BY GapExact
  <2>2. mem_allocatable_top \in Nat /\ LowTPA \in Nat
    BY LayoutAssumption DEF mem_allocatable_top
  <2>3. /\ Start(i) \in LowTPA .. mem_allocatable_top
        /\ end \in LowTPA .. mem_allocatable_top
        /\ Start(i) < end /\ end - Start(i) = newsiz
    BY <1>0, <1>1, <1>5, <2>1, <2>2
  <2>4. n = [base |-> Start(i), len |-> end - Start(i)]
    BY <2>3
  <2>5. ASSUME NEW s \in Held PROVE A!Apart(n, s)
    <3>1. PICK j \in 1 .. Len(mem_list) : s = mem_list[j]
      BY <1>0, <2>5, HeldMember
    <3>2. /\ AreaEnd(j) = s.base + s.len /\ s.base \in Nat /\ s.len \in Nat
      BY <3>1, AreaWords
    <3>3. CASE j <= i
      <4>1. AreaEnd(j) <= Start(i)
        BY <3>3, GapUnused
      <4> QED
        BY <3>2, <4>1 DEF A!Apart
    <3>4. CASE i < j
      <4>1. Limit(i) <= s.base
        BY <3>1, <3>4, GapUnused
      <4>2. Start(i) + newsiz <= s.base
        BY <1>0, <1>1, <2>1, <3>2, <4>1
      <4> QED
        BY <4>2 DEF A!Apart
    <3> QED
      BY <1>0, <1>2, <3>3, <3>4
  <2>6. Held' = Held \cup {n}
    BY <1>3, <1>5
  <2> HIDE DEF end, n
  <2> QED
    BY <2>3, <2>4, <2>5, <2>6 DEF A!Acquire
<1> QED
  BY <1>0, <1>4, <1>5

LEMMA ShrinkTrims ==
  ASSUME TypeOK, WellFormed, NEW newsiz \in Word, NEW i \in DOMAIN mem_list,
         newsiz <= mem_list[i].len,
         mem_list' = [mem_list EXCEPT ![i].len = newsiz]
  PROVE  A!Trim \/ A!Release \/ UNCHANGED Held
<1> DEFINE r == mem_list[i]
           t == [base |-> r.base, len |-> newsiz]
<1>1. r \in [base : Word, len : Word] /\ r.len \in Nat /\ newsiz \in Nat
  <2>1. i \in 1 .. Len(mem_list) /\ mem_list \in Seq(Area)
    BY LenProperties DEF TypeOK
  <2>2. r \in [base : Word, len : Word]
    BY <2>1, ElementOfSeq DEF Area
  <2> QED
    BY <2>2 DEF Word
<1>2. /\ DOMAIN mem_list' = DOMAIN mem_list
      /\ mem_list'[i] = t
      /\ \A k \in DOMAIN mem_list : k # i => mem_list'[k] = mem_list[k]
  BY <1>1
<1>3. \A k \in DOMAIN mem_list : r.len > 0 /\ mem_list[k] = r => k = i
  BY HeldOnce
<1>4. \A s : s \in Held' <=>
         \/ s = t /\ newsiz > 0
         \/ \E k \in DOMAIN mem_list : k # i /\ s = mem_list[k] /\ s.len > 0
  <2>1. \A s : s \in Held' <=> \E k \in DOMAIN mem_list' : s = mem_list'[k] /\ s.len > 0
    BY DEF Held, Range
  <2>2. t.len = newsiz
    OBVIOUS
  <2> HIDE DEF t
  <2> QED
    BY <1>2, <2>1, <2>2
<1>5. \A s : s \in Held <=>
         \/ s = r /\ r.len > 0
         \/ \E k \in DOMAIN mem_list : k # i /\ s = mem_list[k] /\ s.len > 0
  BY HeldMember
<1>6. CASE r.len = 0
  <2>1. ~ (newsiz > 0) /\ ~ (r.len > 0)
    BY <1>1, <1>6
  <2> HIDE DEF t, r
  <2>2. \A s : s \in Held' <=> s \in Held
    BY <1>4, <1>5, <2>1
  <2>3. Held' = {s \in Held' : TRUE} /\ Held = {s \in Held : TRUE}
    OBVIOUS
  <2> QED
    BY <2>2, <2>3
<1>7. CASE r.len > 0
  <2> HIDE DEF t
  <2>1. r \in Held
    BY <1>5, <1>7
  <2>2. \A s : s \in Held \ {r} <=>
           \E k \in DOMAIN mem_list : k # i /\ s = mem_list[k] /\ s.len > 0
    BY <1>3, <1>5, <1>7
  <2>3. CASE newsiz > 0
    <3>1. Held' = (Held \ {r}) \cup {t}
      BY <1>4, <2>2, <2>3
    <3>2. newsiz \in 1 .. r.len
      BY <1>1, <2>3
    <3> HIDE DEF r
    <3> QED
      BY <2>1, <3>1, <3>2 DEF A!Trim, t
  <2>4. CASE newsiz = 0
    <3>0. ~ (newsiz > 0)
      BY <2>4
    <3>1. Held' = Held \ {r}
      BY <1>4, <2>2, <3>0
    <3> HIDE DEF r
    <3> QED
      BY <2>1, <3>1 DEF A!Release
  <2> QED
    BY <1>1, <2>3, <2>4
<1> QED
  BY <1>1, <1>6, <1>7

LEMMA FreeReleases ==
  ASSUME TypeOK, WellFormed, NEW i \in DOMAIN mem_list,
         mem_list' = RemoveAt(mem_list, i)
  PROVE  A!Release \/ UNCHANGED Held
<1> DEFINE r == mem_list[i]
<1>1. /\ Len(mem_list) \in Nat /\ i \in 1 .. Len(mem_list)
      /\ DOMAIN mem_list' = 1 .. Len(mem_list) - 1
      /\ \A k \in DOMAIN mem_list' :
               mem_list'[k] = IF k < i THEN mem_list[k] ELSE mem_list[k + 1]
      /\ DOMAIN mem_list = 1 .. Len(mem_list)
  BY FreeEffect, LenProperties DEF TypeOK
<1>2. \A k \in DOMAIN mem_list : r.len > 0 /\ mem_list[k] = r => k = i
  BY HeldOnce
<1>3. \A s : s \in Held' <=>
         \E k \in DOMAIN mem_list : k # i /\ s = mem_list[k] /\ s.len > 0
  <2>1. \A s : s \in Held' <=> \E k \in DOMAIN mem_list' : s = mem_list'[k] /\ s.len > 0
    BY DEF Held, Range
  <2>2. \A k \in DOMAIN mem_list' :
           \E j \in DOMAIN mem_list : j # i /\ mem_list'[k] = mem_list[j]
    BY <1>1
  <2>3. ASSUME NEW j \in DOMAIN mem_list, j # i
        PROVE  \E k \in DOMAIN mem_list' : mem_list'[k] = mem_list[j]
    <3>1. CASE j < i
      BY <1>1, <3>1
    <3>2. CASE i < j
      <4>1. j - 1 \in DOMAIN mem_list' /\ ~ (j - 1 < i) /\ (j - 1) + 1 = j
        BY <1>1, <3>2
      <4> QED
        BY <1>1, <4>1
    <3> QED
      BY <1>1, <2>3, <3>1, <3>2
  <2> QED
    BY <2>1, <2>2, <2>3
<1>4. \A s : s \in Held <=>
         \/ s = r /\ r.len > 0
         \/ \E k \in DOMAIN mem_list : k # i /\ s = mem_list[k] /\ s.len > 0
  BY HeldMember
<1> HIDE DEF r
<1>5. CASE r.len > 0
  <2>1. r \in Held
    BY <1>4, <1>5
  <2>2. \A s : s \in Held' <=> s \in Held /\ s # r
    BY <1>2, <1>3, <1>4, <1>5
  <2>3. Held' = {s \in Held' : TRUE}
    OBVIOUS
  <2>4. Held' = Held \ {r}
    BY <2>2, <2>3
  <2> QED
    BY <2>1, <2>4 DEF A!Release
<1>6. CASE ~ (r.len > 0)
  <2>1. \A s : s \in Held' <=> s \in Held
    BY <1>3, <1>4, <1>6
  <2>2. Held' = {s \in Held' : TRUE} /\ Held = {s \in Held : TRUE}
    OBVIOUS
  <2> QED
    BY <2>1, <2>2
<1> QED
  BY <1>5, <1>6

LEMMA ArenaStep == TypeOK /\ WellFormed /\ [Next]_vars => [A!Next]_Held
<1> SUFFICES ASSUME TypeOK, WellFormed, [Next]_vars
             PROVE  A!Next \/ UNCHANGED Held
  OBVIOUS
<1>0. ASSUME mem_list' = mem_list PROVE UNCHANGED Held
  BY <1>0 DEF Held
<1>1. ASSUME NEW newsiz \in Word, Malloc(newsiz)
      PROVE  A!Next \/ UNCHANGED Held
  BY <1>0, <1>1, GrantAcquires DEF Malloc, MallocQuery, MallocRefuse, A!Next
<1>2. ASSUME NEW block \in Word, NEW newsiz \in Word, Mshrink(block, newsiz)
      PROVE  A!Next \/ UNCHANGED Held
  <2>1. ASSUME NEW i \in DOMAIN mem_list, ~ TooLarge(i, newsiz)
        PROVE  newsiz <= mem_list[i].len
    <3>1. mem_list[i].len \in Nat /\ newsiz \in Nat
      BY AreaWords, LenProperties DEF TypeOK, Word
    <3> QED
      BY <2>1, <3>1 DEF TooLarge
  <2> QED
    BY <1>0, <1>2, <2>1, ShrinkTrims DEF Mshrink, A!Next
<1>3. ASSUME NEW block \in Word, Mfree(block)
      PROVE  A!Next \/ UNCHANGED Held
  BY <1>0, <1>3, FreeReleases DEF Mfree, A!Next
<1>4. CASE gemdos_mem_free
  <2>1. Held' = {}
    BY <1>4 DEF gemdos_mem_free, Held, Range
  <2> QED
    BY <2>1 DEF A!Next, A!ReleaseAll
<1>5. CASE UNCHANGED vars
  BY <1>0, <1>5 DEF vars
<1> QED
  BY <1>1, <1>2, <1>3, <1>4, <1>5 DEF Next

LEMMA ArenaInit == TrimmedInit => A!Init
<1> SUFFICES ASSUME TrimmedInit PROVE A!Init
  OBVIOUS
<1>1. PICK len \in Word : /\ LowTPA + len <= mem_allocatable_top
                          /\ mem_list = <<[base |-> LowTPA, len |-> len]>>
  BY DEF TrimmedInit
<1> DEFINE r == [base |-> LowTPA, len |-> len]
<1>2. len \in Nat /\ LowTPA \in Nat /\ mem_allocatable_top \in Nat
  BY LayoutAssumption DEF Word, mem_allocatable_top
<1>3. Held = IF len > 0 THEN {r} ELSE {}
  BY <1>1 DEF Held, Range
<1>4. CASE len > 0
  <2> DEFINE end == LowTPA + len
  <2>1. /\ LowTPA \in LowTPA .. mem_allocatable_top /\ end \in LowTPA .. mem_allocatable_top
        /\ LowTPA < end /\ end - LowTPA = len
    BY <1>1, <1>2, <1>4
  <2>2. Held = {[base |-> LowTPA, len |-> end - LowTPA]}
    BY <1>3, <1>4, <2>1
  <2> HIDE DEF end
  <2> QED
    BY <2>1, <2>2 DEF A!Init
<1>5. CASE ~ (len > 0)
  BY <1>3, <1>5 DEF A!Init
<1> QED
  BY <1>4, <1>5

(* Seen as a set of regions, a trimmed heap does what Arena promises.      *)
THEOREM HeapImplementsArena == TrimmedSpec => ImplementsArena
<1>1. TrimmedSpec => [][A!Next]_Held
  BY ArenaStep, HeapWellFormed, PTL DEF TrimmedSpec
<1> QED
  BY <1>1, ArenaInit, PTL DEF TrimmedSpec, ImplementsArena, A!Spec
=============================================================================
