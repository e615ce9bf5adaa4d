-------------------------- MODULE ArithmeticProofs --------------------------
(***************************************************************************)
(* The arithmetic of the 68000 core is right for operands of any width.    *)
(*                                                                         *)
(*   sums       the condition codes of additions, subtractions and         *)
(*              comparisons tell what they are for, whether the carry is   *)
(*              read off a wider sum or rebuilt from three sign bits, and  *)
(*              the branches behind a comparison decide;                   *)
(*   chains     parts computed one by one, in binary or in decimal, make   *)
(*              up the exact whole;                                        *)
(*   divisions  quotient and remainder make up the dividend again;         *)
(*   shifts     a shift or rotate by k + 1 is one by k and one bit more,   *)
(*              and all forms of the instruction agree.                    *)
(***************************************************************************)
EXTENDS Arithmetic, FiniteSetTheorems, TLAPS

(* 2^n counts the subsets of a set of n elements, one of which is empty.   *)
LEMMA PowerPositive ==
  ASSUME NEW n \in Nat
  PROVE  2^n \in Nat \ {0}
<1>1. IsFiniteSet(1 .. n) /\ Cardinality(1 .. n) = n
  BY FS_Interval
<1>2. IsFiniteSet(SUBSET (1 .. n)) /\ Cardinality(SUBSET (1 .. n)) = 2^n
  BY <1>1, FS_SUBSET
<1>3. SUBSET (1 .. n) # {}
  OBVIOUS
<1> QED
  BY <1>2, <1>3, FS_CardinalityType, FS_EmptySet

LEMMA HalfPositive ==
  ASSUME NEW size \in Sizes
  PROVE  Half(size) \in Nat \ {0}
<1>1. Width[size] - 1 \in Nat
  BY ArithmeticAssumption
<1> QED
  BY <1>1, PowerPositive DEF Half

LEMMA WrapOf ==
  ASSUME NEW h \in Nat \ {0}, NEW x \in Int, -2 * h <= x, x < 4 * h
  PROVE  Wrap(x, h) = IF x < 0 THEN x + 2 * h ELSE IF x < 2 * h THEN x ELSE x - 2 * h
<1> DEFINE n == 2 * h
<1>1. n \in Nat \ {0} /\ -n <= x /\ x < 2 * n
  OBVIOUS
<1>2. \A y \in 0 .. n - 1 : y % n = y /\ (y + n) % n = y /\ (y - n) % n = y
  BY <1>1
<1> QED
  BY <1>1, <1>2 DEF Wrap

(* A sum with its carry is the exact sum, of whichever width the handler   *)
(* computes it; V says that the signed sum does not fit.                   *)
THEOREM AddExact ==
  ASSUME NEW h \in Nat \ {0}, NEW s \in Values(h), NEW d \in Values(h),
         NEW x \in 0 .. 1, NEW wide \in BOOLEAN
  PROVE  LET o == Add(wide, s, d, x, h)
         IN  /\ o.value \in Values(h)
             /\ o.ccr.C => o.value = s + d + x - 2 * h
             /\ ~o.ccr.C => o.value = s + d + x
             /\ (o.ccr.C <=> s + d + x >= 2 * h)
             /\ (o.ccr.X <=> o.ccr.C)
             /\ (o.ccr.Z <=> o.value = 0) /\ (o.ccr.N <=> o.value >= h)
             /\ (o.ccr.V <=> Signed(s, h) + Signed(d, h) + x \notin -h .. h - 1)
<1> DEFINE t == s + d + x
           res == Wrap(t, h)
<1>1. /\ s \in Nat /\ d \in Nat /\ s < 2 * h /\ d < 2 * h /\ x \in {0, 1}
      /\ h \in Nat /\ h > 0
  BY DEF Values
<1>2. t \in Int /\ -2 * h <= t /\ t < 4 * h
  BY <1>1
<1>3. res = IF t < 2 * h THEN t ELSE t - 2 * h
  <2>1. ~(t < 0)
    BY <1>1
  <2> HIDE DEF t
  <2> QED
    BY <1>2, <2>1, WrapOf
<1>4. Carried(wide, s, d, res, t, h) <=> t >= 2 * h
  <2>1. CASE wide
    BY <1>1, <1>3, <2>1 DEF Carried, Negative
  <2>2. CASE ~wide
    BY <2>2 DEF Carried
  <2> QED
    BY <2>1, <2>2
<1>5. OverflowAdd(s, d, res, h) <=> Signed(s, h) + Signed(d, h) + x \notin -h .. h - 1
  BY <1>1, <1>3 DEF OverflowAdd, Negative, Signed
<1>6. res \in Values(h)
  BY <1>1, <1>3 DEF Values
<1> DEFINE o == Add(wide, s, d, x, h)
<1> HIDE DEF res
<1>7. o =
        [value |-> res,
         ccr |-> [X |-> Carried(wide, s, d, res, t, h), N |-> Negative(res, h), Z |-> res = 0,
                  V |-> OverflowAdd(s, d, res, h), C |-> Carried(wide, s, d, res, t, h)]]
  BY DEF Add, res
<1> HIDE DEF o, t
<1>8. /\ o.value = res
      /\ o.ccr.C <=> Carried(wide, s, d, res, t, h)
      /\ o.ccr.X <=> Carried(wide, s, d, res, t, h)
      /\ o.ccr.Z <=> res = 0
      /\ o.ccr.N <=> Negative(res, h)
      /\ o.ccr.V <=> OverflowAdd(s, d, res, h)
  BY <1>7, Zenon
<1>9. /\ o.ccr.C <=> t >= 2 * h
      /\ o.ccr.X <=> o.ccr.C
      /\ o.ccr.Z <=> o.value = 0
      /\ o.ccr.N <=> o.value >= h
      /\ o.ccr.V <=> Signed(s, h) + Signed(d, h) + x \notin -h .. h - 1
  BY <1>4, <1>5, <1>8 DEF Negative, t
<1>10. (o.ccr.C => o.value = t - 2 * h) /\ (~o.ccr.C => o.value = t)
  BY <1>1, <1>3, <1>4, <1>8 DEF t
<1> QED
  <2>1. o.value \in Values(h)
    BY <1>6, <1>8
  <2>2. t = s + d + x
    BY DEF t
  <2>3. o.ccr.C <=> s + d + x >= 2 * h
    BY <2>2, <1>9
  <2>4. (o.ccr.C => o.value = s + d + x - 2 * h) /\ (~o.ccr.C => o.value = s + d + x)
    BY <2>2, <1>10, <1>1
  <2> QED
    BY <2>1, <2>3, <2>4, <1>9 DEF o

(* A difference with its borrow is the exact difference; V says that the   *)
(* signed one does not fit.                                                *)
THEOREM SubExact ==
  ASSUME NEW h \in Nat \ {0}, NEW s \in Values(h), NEW d \in Values(h),
         NEW x \in 0 .. 1, NEW wide \in BOOLEAN
  PROVE  LET o == Sub(wide, s, d, x, h)
         IN  /\ o.value \in Values(h)
             /\ o.ccr.C => o.value = d - s - x + 2 * h
             /\ ~o.ccr.C => o.value = d - s - x
             /\ (o.ccr.C <=> d - s - x < 0)
             /\ (o.ccr.X <=> o.ccr.C)
             /\ (o.ccr.Z <=> o.value = 0) /\ (o.ccr.N <=> o.value >= h)
             /\ (o.ccr.V <=> Signed(d, h) - Signed(s, h) - x \notin -h .. h - 1)
<1> DEFINE t == d - s - x
           res == Wrap(t, h)
<1>1. /\ s \in Nat /\ d \in Nat /\ s < 2 * h /\ d < 2 * h /\ x \in {0, 1}
      /\ h \in Nat /\ h > 0
  BY DEF Values
<1>2. t \in Int /\ -2 * h <= t /\ t < 2 * h
  BY <1>1
<1>3. res = IF t < 0 THEN t + 2 * h ELSE t
  <2> HIDE DEF t
  <2> QED
    BY <1>1, <1>2, WrapOf
<1>4. Borrowed(wide, s, d, res, t, h) <=> t < 0
  <2>1. CASE wide
    BY <1>1, <1>3, <2>1 DEF Borrowed, Negative
  <2>2. CASE ~wide
    BY <2>2 DEF Borrowed
  <2> QED
    BY <2>1, <2>2
<1>5. OverflowSub(s, d, res, h) <=> Signed(d, h) - Signed(s, h) - x \notin -h .. h - 1
  BY <1>1, <1>3 DEF OverflowSub, Negative, Signed
<1>6. res \in Values(h)
  BY <1>1, <1>3 DEF Values
<1> DEFINE o == Sub(wide, s, d, x, h)
<1> HIDE DEF res
<1>7. o =
        [value |-> res,
         ccr |-> [X |-> Borrowed(wide, s, d, res, t, h), N |-> Negative(res, h), Z |-> res = 0,
                  V |-> OverflowSub(s, d, res, h), C |-> Borrowed(wide, s, d, res, t, h)]]
  BY DEF Sub, res
<1> HIDE DEF o, t
<1>8. /\ o.value = res
      /\ o.ccr.C <=> Borrowed(wide, s, d, res, t, h)
      /\ o.ccr.X <=> Borrowed(wide, s, d, res, t, h)
      /\ o.ccr.Z <=> res = 0
      /\ o.ccr.N <=> Negative(res, h)
      /\ o.ccr.V <=> OverflowSub(s, d, res, h)
  BY <1>7, Zenon
<1>9. /\ o.ccr.C <=> t < 0
      /\ o.ccr.X <=> o.ccr.C
      /\ o.ccr.Z <=> o.value = 0
      /\ o.ccr.N <=> o.value >= h
      /\ o.ccr.V <=> Signed(d, h) - Signed(s, h) - x \notin -h .. h - 1
  BY <1>4, <1>5, <1>8 DEF Negative, t
<1>10. (o.ccr.C => o.value = t + 2 * h) /\ (~o.ccr.C => o.value = t)
  BY <1>1, <1>3, <1>4, <1>8 DEF t
<1> QED
  <2>1. o.value \in Values(h)
    BY <1>6, <1>8
  <2>2. t = d - s - x
    BY DEF t
  <2>3. o.ccr.C <=> d - s - x < 0
    BY <2>2, <1>9
  <2>4. (o.ccr.C => o.value = d - s - x + 2 * h) /\ (~o.ccr.C => o.value = d - s - x)
    BY <2>2, <1>10, <1>1
  <2> QED
    BY <2>1, <2>3, <2>4, <1>9 DEF o

-----------------------------------------------------------------------------
(* An outcome is the record of its parts.                                  *)
LEMMA SubParts ==
  ASSUME NEW h, NEW s, NEW d, NEW x, NEW wide \in BOOLEAN
  PROVE  LET o == Sub(wide, s, d, x, h)
         IN  /\ o = [value |-> o.value,
                     ccr |-> [X |-> o.ccr.X, N |-> o.ccr.N, Z |-> o.ccr.Z,
                              V |-> o.ccr.V, C |-> o.ccr.C]]
             /\ o.ccr.X \in BOOLEAN /\ o.ccr.N \in BOOLEAN /\ o.ccr.Z \in BOOLEAN
             /\ o.ccr.V \in BOOLEAN /\ o.ccr.C \in BOOLEAN
<1> DEFINE res == Wrap(d - s - x, h)
           c == Borrowed(wide, s, d, res, d - s - x, h)
           v == OverflowSub(s, d, res, h)
           n == Negative(res, h)
           z == res = 0
<1>1. n \in BOOLEAN /\ z \in BOOLEAN
  BY DEF Negative
<1>2. v \in BOOLEAN
  BY Zenon DEF OverflowSub
<1>3. c \in BOOLEAN
  <2>1. CASE wide
    BY <2>1, Zenon DEF Borrowed
  <2>2. CASE ~wide
    BY <2>2 DEF Borrowed
  <2> QED
    BY <2>1, <2>2
<1> DEFINE o == Sub(wide, s, d, x, h)
<1>4. o = [value |-> res, ccr |-> [X |-> c, N |-> n, Z |-> z, V |-> v, C |-> c]]
  BY DEF Sub
<1> HIDE DEF c, v, n, z, o, res
<1>5. o.value = res /\ o.ccr.X = c /\ o.ccr.N = n /\ o.ccr.Z = z /\ o.ccr.V = v /\ o.ccr.C = c
  BY <1>4
<1>6. o = [value |-> o.value,
           ccr |-> [X |-> o.ccr.X, N |-> o.ccr.N, Z |-> o.ccr.Z, V |-> o.ccr.V, C |-> o.ccr.C]]
  BY <1>4, <1>5
<1> QED
  BY <1>1, <1>2, <1>3, <1>5, <1>6 DEF o

(* The flags of a comparison: below, equal and, from N and V together, less. *)
LEMMA CmpFlags ==
  ASSUME NEW h \in Nat \ {0}, NEW s \in Values(h), NEW d \in Values(h),
         NEW wide \in BOOLEAN, NEW f
  PROVE  LET o == Cmp(wide, s, d, f, h)
         IN  /\ o.C = (d < s)
             /\ o.Z = (d = s)
             /\ (o.N = o.V) = (Signed(d, h) >= Signed(s, h))
             /\ o.X = f.X
<1> DEFINE u == Sub(wide, s, d, 0, h)
           o == Cmp(wide, s, d, f, h)
<1>1. /\ u.value \in Values(h)
      /\ (u.ccr.C => u.value = d - s - 0 + 2 * h) /\ (~u.ccr.C => u.value = d - s - 0)
      /\ u.ccr.C <=> d - s - 0 < 0
      /\ u.ccr.Z <=> u.value = 0
      /\ u.ccr.N <=> u.value >= h
      /\ u.ccr.V <=> Signed(d, h) - Signed(s, h) - 0 \notin -h .. h - 1
  BY SubExact
<1>2. /\ u.ccr.C \in BOOLEAN /\ u.ccr.Z \in BOOLEAN /\ u.ccr.N \in BOOLEAN /\ u.ccr.V \in BOOLEAN
      /\ u.ccr = [X |-> u.ccr.X, N |-> u.ccr.N, Z |-> u.ccr.Z, V |-> u.ccr.V, C |-> u.ccr.C]
  BY SubParts
<1>3. o = [u.ccr EXCEPT !.X = f.X]
  BY DEF Cmp
<1> HIDE DEF u, o
<1>4. o.C = u.ccr.C /\ o.Z = u.ccr.Z /\ o.N = u.ccr.N /\ o.V = u.ccr.V /\ o.X = f.X
  BY <1>2, <1>3
<1>5. s \in Nat /\ d \in Nat /\ s < 2 * h /\ d < 2 * h /\ h \in Nat /\ h > 0 /\ u.value \in Int
  BY <1>1 DEF Values
<1>6. u.ccr.C <=> d < s
  BY <1>1, <1>5
<1>7. u.value = IF d < s THEN d - s + 2 * h ELSE d - s
  BY <1>1, <1>5, <1>6
<1>8. u.ccr.Z <=> d = s
  BY <1>1, <1>5, <1>7
<1>9. (u.ccr.N <=> u.ccr.V) <=> Signed(d, h) >= Signed(s, h)
  <2>1. /\ u.ccr.N <=> u.value >= h
        /\ u.ccr.V <=> Signed(d, h) - Signed(s, h) \notin -h .. h - 1
    BY <1>1, <1>5 DEF Signed
  <2>2. (u.value >= h <=> Signed(d, h) - Signed(s, h) \notin -h .. h - 1)
           <=> Signed(d, h) >= Signed(s, h)
    BY <1>5, <1>7 DEF Signed
  <2> QED
    BY <2>1, <2>2
<1>10. o.C = (d < s)
  BY <1>2, <1>4, <1>5, <1>6
<1>11. o.Z = (d = s)
  BY <1>2, <1>4, <1>5, <1>8
<1>12. (o.N = o.V) = (Signed(d, h) >= Signed(s, h))
  <2>1. Signed(d, h) \in Int /\ Signed(s, h) \in Int
    BY <1>5 DEF Signed
  <2> QED
    BY <2>1, <1>2, <1>4, <1>9
<1> QED
  BY <1>4, <1>10, <1>11, <1>12 DEF o

(* Behind a comparison nothing has touched its flags.                      *)
ComparisonInv ==
    /\ job \in Jobs
    /\ job.what = "compare" =>
          \/ parts = 0 /\ ccr = Start(job.x)
          \/ /\ parts = 1
             /\ a \in Values(Half(job.size)) /\ b \in Values(Half(job.size))
             /\ ccr = Cmp(Wide(job.size), a, b, Start(job.x), Half(job.size))

LEMMA JobSizes == ASSUME NEW j \in Jobs PROVE j.size \in Sizes
  BY DEF Jobs, Sizes

LEMMA ConditionsRead ==
  ASSUME NEW f
  PROVE  /\ Holds("eq", f) = f.Z          /\ Holds("ne", f) = ~f.Z
         /\ Holds("cs", f) = f.C          /\ Holds("cc", f) = ~f.C
         /\ Holds("hi", f) = (~f.C /\ ~f.Z)
         /\ Holds("ls", f) = (f.C \/ f.Z)
         /\ Holds("gt", f) = (f.N = f.V /\ ~f.Z)
         /\ Holds("le", f) = (f.N # f.V \/ f.Z)
         /\ Holds("ge", f) = (f.N = f.V)
         /\ Holds("lt", f) = (f.N # f.V)
  BY DEF Holds

LEMMA ComparisonInvDecides == ComparisonInv => BranchesDecide
<1> SUFFICES ASSUME ComparisonInv, job.what = "compare", parts = 1
             PROVE  BranchesDecide
  BY DEF BranchesDecide
<1> DEFINE h == Half(job.size)
<1>1. h \in Nat \ {0}
  BY JobSizes, HalfPositive DEF ComparisonInv
<1>2. /\ a \in Values(h) /\ b \in Values(h)
      /\ ccr = Cmp(Wide(job.size), a, b, Start(job.x), h)
  BY DEF ComparisonInv
<1>3. Wide(job.size) \in BOOLEAN
  BY DEF Wide
<1> HIDE DEF h
<1>4. /\ ccr.C = (b < a)
      /\ ccr.Z = (b = a)
      /\ (ccr.N = ccr.V) = (Signed(b, h) >= Signed(a, h))
      /\ ccr.X = Start(job.x).X
  BY <1>1, <1>2, <1>3, CmpFlags
<1>5. /\ a \in Nat /\ b \in Nat /\ Signed(a, h) \in Int /\ Signed(b, h) \in Int
      /\ (Signed(a, h) = Signed(b, h)) = (a = b)
  BY <1>1, <1>2 DEF Values, Signed
<1>6. /\ ccr.C \in BOOLEAN /\ (ccr.C <=> b < a)
      /\ ccr.Z \in BOOLEAN /\ (ccr.Z <=> b = a)
      /\ ccr.N = ccr.V <=> Signed(b, h) >= Signed(a, h)
  <2>1. (b < a) \in BOOLEAN /\ (b = a) \in BOOLEAN
    BY <1>5
  <2>2. ccr.C \in BOOLEAN /\ ccr.Z \in BOOLEAN
    BY <1>4, <2>1, Zenon
  <2>3. ccr.C <=> b < a
    BY <1>4, <2>1, Zenon
  <2>4. ccr.Z <=> b = a
    BY <1>4, Zenon
  <2>5. ccr.N = ccr.V <=> Signed(b, h) >= Signed(a, h)
    BY <1>4, Zenon
  <2> QED
    BY <2>2, <2>3, <2>4, <2>5
<1>7. Holds("eq", ccr) = (b = a)
  BY <1>5, <1>6, ConditionsRead
<1>8. Holds("ne", ccr) = (b # a)
  BY <1>5, <1>6, ConditionsRead
<1>9. Holds("cc", ccr) = (b >= a)
  BY <1>5, <1>6, ConditionsRead
<1>10. Holds("cs", ccr) = (b < a)
  BY <1>5, <1>6, ConditionsRead
<1>11. Holds("hi", ccr) = (b > a)
  BY <1>5, <1>6, ConditionsRead
<1>12. Holds("ls", ccr) = (b <= a)
  BY <1>5, <1>6, ConditionsRead
<1>13. Holds("ge", ccr) = (Signed(b, h) >= Signed(a, h))
  BY <1>5, <1>6, ConditionsRead
<1>14. Holds("lt", ccr) = (Signed(b, h) < Signed(a, h))
  BY <1>5, <1>6, ConditionsRead
<1>15. Holds("gt", ccr) = (Signed(b, h) > Signed(a, h))
  BY <1>5, <1>6, ConditionsRead
<1>16. Holds("le", ccr) = (Signed(b, h) <= Signed(a, h))
  BY <1>5, <1>6, ConditionsRead
<1>17. ccr.X = job.x
  BY <1>4 DEF Start
<1> QED
  BY <1>7, <1>8, <1>9, <1>10, <1>11, <1>12, <1>13, <1>14, <1>15, <1>16, <1>17 DEF BranchesDecide, h

LEMMA ComparisonInvStep == ComparisonInv /\ [Next]_vars => ComparisonInv'
<1> SUFFICES ASSUME ComparisonInv, [Next]_vars
             PROVE  ComparisonInv'
  OBVIOUS
<1>1. CASE Compare
  BY <1>1 DEF Compare, ComparisonInv
<1>2. CASE AddPart \/ ShiftFurther \/ Divide \/ Rebuild
  BY <1>2 DEF AddPart, ShiftFurther, Divide, Rebuild, ComparisonInv
<1>3. CASE UNCHANGED vars
  BY <1>3 DEF vars, ComparisonInv
<1> QED
  BY <1>1, <1>2, <1>3 DEF Next

(* Every conditional branch behind a comparison decides the relation it is *)
(* named for, unsigned and signed, whatever the three widths are.          *)
THEOREM BranchesAlwaysDecide == Spec => []BranchesDecide
<1>1. Init => ComparisonInv
  BY DEF Init, ComparisonInv
<1> QED
  BY <1>1, ComparisonInvStep, ComparisonInvDecides, PTL DEF Spec

-----------------------------------------------------------------------------
(* Numbers of several parts.                                               *)

(* A product of natural numbers, and what it does to order and sums.       *)
LEMMA Products ==
  ASSUME NEW R \in Nat \ {0}, NEW x \in Int, NEW y \in Int
  PROVE  /\ R * x \in Int
         /\ R * (x + y) = R * x + R * y
         /\ R * (x - y) = R * x - R * y
         /\ x >= 0 => R * x >= 0
         /\ x < y => R * x + R <= R * y
         /\ R * 0 = 0 /\ R * 1 = R
<1>1. /\ R * x \in Int /\ R * y \in Int
      /\ R * (x + y) = R * x + R * y
      /\ R * (x - y) = R * x - R * y
      /\ R * 0 = 0 /\ R * 1 = R
  OBVIOUS
<1>2. \A z \in Int : z >= 0 => R * z >= 0
  OBVIOUS
<1>3. ASSUME x < y PROVE R * x + R <= R * y
  <2> DEFINE z == y - x - 1
  <2>1. z \in Int /\ z >= 0
    BY <1>3
  <2>2. R * z >= 0
    BY <2>1, <1>2
  <2>3. R * z = R * y - R * x - R
    OBVIOUS
  <2> QED
    BY <1>1, <2>2, <2>3
<1> QED
  BY <1>1, <1>2, <1>3

(* A part more makes a number of the wider range.                          *)
LEMMA PartFits ==
  ASSUME NEW R \in Nat \ {0}, NEW B \in Nat \ {0},
         NEW a0 \in 0 .. R - 1, NEW s \in 0 .. B - 1
  PROVE  /\ a0 + R * s \in 0 .. R * B - 1
         /\ (a0 + R * s = 0 <=> a0 = 0 /\ s = 0)
         /\ R * B \in Nat \ {0}
<1>1. s < B /\ s \in Int /\ B \in Int /\ s >= 0
  OBVIOUS
<1>2. R * s \in Int /\ R * B \in Int /\ R * s >= 0 /\ R * s + R <= R * B
  BY <1>1, Products
<1>3. s > 0 => R * s >= R
  <2>1. 0 < s => R * 0 + R <= R * s
    BY Products
  <2> QED
    BY <1>2, <2>1
<1>4. R * 0 = 0
  OBVIOUS
<1> DEFINE p == R * s
           q == R * B
<1>5. p \in Int /\ q \in Int /\ p >= 0 /\ p + R <= q /\ (s > 0 => p >= R) /\ (s = 0 => p = 0)
  BY <1>2, <1>3, <1>4
<1> HIDE DEF p, q
<1>6. /\ a0 + p \in 0 .. q - 1
      /\ (a0 + p = 0 <=> a0 = 0 /\ s = 0)
      /\ q \in Nat \ {0}
  BY <1>5
<1> QED
  BY <1>6 DEF p, q

(* The sign of the whole is that of its highest part.                      *)
LEMMA PartSigned ==
  ASSUME NEW R \in Nat \ {0}, NEW h \in Nat \ {0},
         NEW a0 \in 0 .. R - 1, NEW s \in 0 .. 2 * h - 1
  PROVE  /\ R * (2 * h) = 2 * (R * h) /\ R * h \in Nat \ {0}
         /\ (a0 + R * s >= R * h <=> s >= h)
         /\ Signed(s, h) \in Int
         /\ Signed(a0 + R * s, R * h) = a0 + R * Signed(s, h)
<1>1. s \in Int /\ h \in Int /\ s >= 0
  OBVIOUS
<1>2. /\ R * s \in Int /\ R * h \in Int /\ R * (2 * h) = 2 * (R * h)
      /\ h < s + 1 /\ s + 1 \in Int => R * h + R <= R * (s + 1)
      /\ R * (s + 1) = R * s + R * 1
      /\ R * 1 = R
      /\ s < h => R * s + R <= R * h
      /\ 0 < h => R * 0 + R <= R * h
      /\ R * 0 = 0
      /\ R * (s - 2 * h) = R * s - R * (2 * h)
  BY <1>1, Products
<1> DEFINE p == R * s
           q == R * h
           n == R * (s - 2 * h)
<1>3. /\ p \in Int /\ q \in Int /\ q >= R
      /\ (s >= h => p >= q)
      /\ (s < h => p + R <= q)
      /\ n = p - 2 * q
  BY <1>1, <1>2
<1>4. R * (IF s >= h THEN s - 2 * h ELSE s) = IF s >= h THEN n ELSE p
  OBVIOUS
<1>5. R * (2 * h) = 2 * q
  BY <1>2
<1> HIDE DEF p, q, n
<1>6. /\ q \in Nat \ {0}
      /\ (a0 + p >= q <=> s >= h)
  BY <1>1, <1>3
<1>7. Signed(s, h) \in Int /\ R * Signed(s, h) = IF s >= h THEN n ELSE p
  BY <1>1, <1>4 DEF Signed
<1>8. Signed(a0 + p, q) = a0 + R * Signed(s, h)
  <2>1. Signed(a0 + p, q) = IF s >= h THEN a0 + p - 2 * q ELSE a0 + p
    BY <1>1, <1>3, <1>6 DEF Signed
  <2> QED
    BY <2>1, <1>7, <1>3, <1>1
<1> QED
  BY <1>5, <1>6, <1>7, <1>8 DEF p, q

LEMMA PartOverflow ==
  ASSUME NEW R \in Nat \ {0}, NEW h \in Nat \ {0}, NEW r0 \in 0 .. R - 1, NEW z \in Int
  PROVE  r0 + R * z \in -(R * h) .. R * h - 1 <=> z \in -h .. h - 1
<1>1. /\ R * z \in Int /\ R * h \in Int
      /\ R * (z + h) = R * z + R * h
      /\ R * (z + 1) = R * z + R * 1
      /\ R * 1 = R
      /\ z < h => R * z + R <= R * h
  BY Products
<1>2. /\ h < z + 1 => R * h + R <= R * (z + 1)
      /\ z + h >= 0 => R * (z + h) >= 0
      /\ z + h < 0 => R * (z + h) + R <= R * 0
      /\ R * 0 = 0
  <2>1. z + 1 \in Int /\ z + h \in Int /\ h \in Int
    OBVIOUS
  <2> QED
    BY <2>1, Products
<1> DEFINE p == R * z
           q == R * h
<1>3. /\ p \in Int /\ q \in Int
      /\ (z < h => p + R <= q)
      /\ (z >= h => p >= q)
      /\ (z + h >= 0 => p + q >= 0)
      /\ (z + h < 0 => p + q + R <= 0)
  BY <1>1, <1>2
<1> HIDE DEF p, q
<1>4. r0 + p \in -q .. q - 1 <=> z \in -h .. h - 1
  BY <1>3
<1> QED
  BY <1>4 DEF p, q

-----------------------------------------------------------------------------
(* What an outcome with another Z, or another V, holds.                    *)
LEMMA OtherZ ==
  ASSUME NEW v, NEW X, NEW N, NEW Z, NEW V, NEW C, NEW z
  PROVE  [[value |-> v, ccr |-> [X |-> X, N |-> N, Z |-> Z, V |-> V, C |-> C]]
            EXCEPT !.ccr.Z = @ /\ z]
         = [value |-> v, ccr |-> [X |-> X, N |-> N, Z |-> Z /\ z, V |-> V, C |-> C]]
<1> DEFINE new == Z /\ z
<1> HIDE DEF new
<1>1. [[value |-> v, ccr |-> [X |-> X, N |-> N, Z |-> Z, V |-> V, C |-> C]]
            EXCEPT !.ccr.Z = new]
         = [value |-> v, ccr |-> [X |-> X, N |-> N, Z |-> new, V |-> V, C |-> C]]
  OBVIOUS
<1>2. [[value |-> v, ccr |-> [X |-> X, N |-> N, Z |-> Z, V |-> V, C |-> C]]
            EXCEPT !.ccr.Z = @ /\ z]
      = [[value |-> v, ccr |-> [X |-> X, N |-> N, Z |-> Z, V |-> V, C |-> C]]
            EXCEPT !.ccr.Z = new]
  BY DEF new
<1> QED
  BY <1>1, <1>2 DEF new

LEMMA OtherV ==
  ASSUME NEW v, NEW X, NEW N, NEW Z, NEW V, NEW C, NEW new
  PROVE  [[value |-> v, ccr |-> [X |-> X, N |-> N, Z |-> Z, V |-> V, C |-> C]]
            EXCEPT !.ccr.V = new]
         = [value |-> v, ccr |-> [X |-> X, N |-> N, Z |-> Z, V |-> new, C |-> C]]
  OBVIOUS

LEMMA AddParts ==
  ASSUME NEW h, NEW s, NEW d, NEW x, NEW wide \in BOOLEAN
  PROVE  LET o == Add(wide, s, d, x, h)
         IN  /\ o = [value |-> o.value,
                     ccr |-> [X |-> o.ccr.X, N |-> o.ccr.N, Z |-> o.ccr.Z,
                              V |-> o.ccr.V, C |-> o.ccr.C]]
             /\ o.ccr.X \in BOOLEAN /\ o.ccr.N \in BOOLEAN /\ o.ccr.Z \in BOOLEAN
             /\ o.ccr.V \in BOOLEAN /\ o.ccr.C \in BOOLEAN
<1> DEFINE res == Wrap(s + d + x, h)
           c == Carried(wide, s, d, res, s + d + x, h)
           v == OverflowAdd(s, d, res, h)
           n == Negative(res, h)
           z == res = 0
<1>1. n \in BOOLEAN /\ z \in BOOLEAN
  BY DEF Negative
<1>2. v \in BOOLEAN
  BY Zenon DEF OverflowAdd
<1>3. c \in BOOLEAN
  <2>1. CASE wide
    BY <2>1, Zenon DEF Carried
  <2>2. CASE ~wide
    BY <2>2 DEF Carried
  <2> QED
    BY <2>1, <2>2
<1> DEFINE o == Add(wide, s, d, x, h)
<1>4. o = [value |-> res, ccr |-> [X |-> c, N |-> n, Z |-> z, V |-> v, C |-> c]]
  BY DEF Add
<1> HIDE DEF c, v, n, z, o, res
<1>5. o.value = res /\ o.ccr.X = c /\ o.ccr.N = n /\ o.ccr.Z = z /\ o.ccr.V = v /\ o.ccr.C = c
  BY <1>4
<1>6. o = [value |-> o.value,
           ccr |-> [X |-> o.ccr.X, N |-> o.ccr.N, Z |-> o.ccr.Z, V |-> o.ccr.V, C |-> o.ccr.C]]
  BY <1>4, <1>5
<1> QED
  BY <1>1, <1>2, <1>3, <1>5, <1>6 DEF o

(* A number of the range 0 .. n - 1 from an exact one just outside it.     *)
Into(total, n) ==
    IF total < 0 THEN total + n ELSE IF total < n THEN total ELSE total - n

(* An outcome is right that leaves the number v for an exact total, with   *)
(* X, C and Z, which stays clear once it is.                               *)
PartRight(o, v, total, B, z) ==
    /\ v \in 0 .. B - 1 /\ v = Into(total, B)
    /\ o.ccr.X \in BOOLEAN /\ o.ccr.C \in BOOLEAN /\ o.ccr.Z \in BOOLEAN
    /\ (o.ccr.X <=> total \notin 0 .. B - 1)
    /\ (o.ccr.C <=> o.ccr.X)
    /\ (o.ccr.Z <=> z /\ v = 0)

SignRight(o, signed, h) ==
    /\ o.ccr.N \in BOOLEAN /\ o.ccr.V \in BOOLEAN
    /\ (o.ccr.N <=> o.value >= h)
    /\ (o.ccr.V <=> signed \notin -h .. h - 1)

LEMMA AddXRight ==
  ASSUME NEW h \in Nat \ {0}, NEW s \in Values(h), NEW d \in Values(h),
         NEW wide \in BOOLEAN, NEW f, f.X \in BOOLEAN, f.Z \in BOOLEAN
  PROVE  LET o == AddX(wide, s, d, f, h)
             x == AsOne(f.X)
         IN  /\ PartRight(o, o.value, d + s + x, 2 * h, f.Z)
             /\ SignRight(o, Signed(d, h) + Signed(s, h) + x, h)
<1> DEFINE x == AsOne(f.X)
           o == Add(wide, s, d, x, h)
           p == AddX(wide, s, d, f, h)
<1>1. x \in 0 .. 1
  BY DEF AsOne
<1>2. /\ o.value \in Values(h)
      /\ o.ccr.C => o.value = s + d + x - 2 * h
      /\ ~o.ccr.C => o.value = s + d + x
      /\ (o.ccr.C <=> s + d + x >= 2 * h)
      /\ (o.ccr.X <=> o.ccr.C)
      /\ (o.ccr.Z <=> o.value = 0) /\ (o.ccr.N <=> o.value >= h)
      /\ (o.ccr.V <=> Signed(s, h) + Signed(d, h) + x \notin -h .. h - 1)
  <2> HIDE DEF x
  <2>1. o.value \in Values(h)
    BY <1>1, AddExact
  <2>2. o.ccr.C => o.value = s + d + x - 2 * h
    <3> DEFINE t == s + d + x
    <3>1. t \in Int /\ -2 * h <= t /\ t < 4 * h /\ t - 2 * h = s + d + x - 2 * h
      BY <1>1 DEF Values
    <3>2. o.value = Wrap(t, h)
      BY DEF Add
    <3>3. o.ccr.C <=> t >= 2 * h
      BY <1>1, AddExact
    <3> HIDE DEF t, o
    <3>4. o.ccr.C => o.value = t - 2 * h
      BY <3>1, <3>2, <3>3, WrapOf
    <3> QED
      BY <3>1, <3>4
  <2>3. ~o.ccr.C => o.value = s + d + x
    BY <1>1, AddExact
  <2>4. o.ccr.C <=> s + d + x >= 2 * h
    BY <1>1, AddExact
  <2>5. (o.ccr.X <=> o.ccr.C) /\ (o.ccr.Z <=> o.value = 0) /\ (o.ccr.N <=> o.value >= h)
    BY <1>1, AddExact
  <2>6. o.ccr.V <=> Signed(s, h) + Signed(d, h) + x \notin -h .. h - 1
    BY <1>1, AddExact
  <2> HIDE DEF o
  <2> QED
    BY <2>1, <2>2, <2>3, <2>4, <2>5, <2>6
<1>3. /\ o = [value |-> o.value,
              ccr |-> [X |-> o.ccr.X, N |-> o.ccr.N, Z |-> o.ccr.Z, V |-> o.ccr.V, C |-> o.ccr.C]]
      /\ o.ccr.X \in BOOLEAN /\ o.ccr.N \in BOOLEAN /\ o.ccr.Z \in BOOLEAN
      /\ o.ccr.V \in BOOLEAN /\ o.ccr.C \in BOOLEAN
  <2> HIDE DEF x
  <2> QED
    BY AddParts
<1>4. p = [o EXCEPT !.ccr.Z = @ /\ f.Z]
  BY DEF AddX
<1>5. Signed(s, h) \in Int /\ Signed(d, h) \in Int
  BY DEF Signed, Values
<1> HIDE DEF o, p, x
<1>6. p = [value |-> o.value,
           ccr |-> [X |-> o.ccr.X, N |-> o.ccr.N, Z |-> o.ccr.Z /\ f.Z, V |-> o.ccr.V, C |-> o.ccr.C]]
  BY <1>3, <1>4, OtherZ
<1>7. /\ p.value = o.value /\ p.ccr.X = o.ccr.X /\ p.ccr.N = o.ccr.N /\ p.ccr.V = o.ccr.V
      /\ p.ccr.C = o.ccr.C /\ p.ccr.Z = (o.ccr.Z /\ f.Z)
  BY <1>6, Zenon
<1>8. /\ p.value = o.value
      /\ (p.ccr.X <=> o.ccr.C) /\ (p.ccr.C <=> o.ccr.C)
      /\ (p.ccr.N <=> o.ccr.N) /\ (p.ccr.V <=> o.ccr.V)
      /\ (p.ccr.Z <=> o.ccr.Z /\ f.Z)
      /\ p.ccr.X \in BOOLEAN /\ p.ccr.N \in BOOLEAN /\ p.ccr.Z \in BOOLEAN
      /\ p.ccr.V \in BOOLEAN /\ p.ccr.C \in BOOLEAN
  BY <1>2, <1>3, <1>7, Zenon
<1>9. d + s + x = s + d + x /\ d + s + x >= 0 /\ s + d + x \in Int
  BY <1>1 DEF Values
<1>10. o.value = Into(d + s + x, 2 * h) /\ (o.ccr.C <=> d + s + x \notin 0 .. 2 * h - 1)
  BY <1>1, <1>2, <1>9 DEF Into, Values
<1>11. Signed(d, h) + Signed(s, h) + x = Signed(s, h) + Signed(d, h) + x
  BY <1>1, <1>5
<1>12. PartRight(p, p.value, d + s + x, 2 * h, f.Z)
  BY <1>2, <1>8, <1>10 DEF PartRight, Values
<1>13. SignRight(p, Signed(d, h) + Signed(s, h) + x, h)
  BY <1>2, <1>8, <1>11 DEF SignRight
<1> QED
  BY <1>12, <1>13 DEF p, x

LEMMA SubXRight ==
  ASSUME NEW h \in Nat \ {0}, NEW s \in Values(h), NEW d \in Values(h),
         NEW wide \in BOOLEAN, NEW f, f.X \in BOOLEAN, f.Z \in BOOLEAN
  PROVE  LET o == SubX(wide, s, d, f, h)
             x == AsOne(f.X)
         IN  /\ PartRight(o, o.value, d - s - x, 2 * h, f.Z)
             /\ SignRight(o, Signed(d, h) - Signed(s, h) - x, h)
<1> DEFINE x == AsOne(f.X)
           o == Sub(wide, s, d, x, h)
           p == SubX(wide, s, d, f, h)
<1>1. x \in 0 .. 1
  BY DEF AsOne
<1>2. /\ o.value \in Values(h)
      /\ o.ccr.C => o.value = d - s - x + 2 * h
      /\ ~o.ccr.C => o.value = d - s - x
      /\ (o.ccr.C <=> d - s - x < 0)
      /\ (o.ccr.X <=> o.ccr.C)
      /\ (o.ccr.Z <=> o.value = 0) /\ (o.ccr.N <=> o.value >= h)
      /\ (o.ccr.V <=> Signed(d, h) - Signed(s, h) - x \notin -h .. h - 1)
  <2> HIDE DEF x
  <2> QED
    BY <1>1, SubExact
<1>3. /\ o = [value |-> o.value,
              ccr |-> [X |-> o.ccr.X, N |-> o.ccr.N, Z |-> o.ccr.Z, V |-> o.ccr.V, C |-> o.ccr.C]]
      /\ o.ccr.X \in BOOLEAN /\ o.ccr.N \in BOOLEAN /\ o.ccr.Z \in BOOLEAN
      /\ o.ccr.V \in BOOLEAN /\ o.ccr.C \in BOOLEAN
  <2> HIDE DEF x
  <2> QED
    BY SubParts
<1>4. p = [o EXCEPT !.ccr.Z = @ /\ f.Z]
  BY DEF SubX
<1> HIDE DEF o, p, x
<1>6. p = [value |-> o.value,
           ccr |-> [X |-> o.ccr.X, N |-> o.ccr.N, Z |-> o.ccr.Z /\ f.Z, V |-> o.ccr.V, C |-> o.ccr.C]]
  BY <1>3, <1>4, OtherZ
<1>7. /\ p.value = o.value /\ p.ccr.X = o.ccr.X /\ p.ccr.N = o.ccr.N /\ p.ccr.V = o.ccr.V
      /\ p.ccr.C = o.ccr.C /\ p.ccr.Z = (o.ccr.Z /\ f.Z)
  BY <1>6, Zenon
<1>8. /\ p.value = o.value
      /\ (p.ccr.X <=> o.ccr.C) /\ (p.ccr.C <=> o.ccr.C)
      /\ (p.ccr.N <=> o.ccr.N) /\ (p.ccr.V <=> o.ccr.V)
      /\ (p.ccr.Z <=> o.ccr.Z /\ f.Z)
      /\ p.ccr.X \in BOOLEAN /\ p.ccr.N \in BOOLEAN /\ p.ccr.Z \in BOOLEAN
      /\ p.ccr.V \in BOOLEAN /\ p.ccr.C \in BOOLEAN
  BY <1>2, <1>3, <1>7, Zenon
<1>9. d - s - x < 2 * h /\ d - s - x \in Int
  BY <1>1 DEF Values
<1>10. o.value = Into(d - s - x, 2 * h) /\ (o.ccr.C <=> d - s - x \notin 0 .. 2 * h - 1)
  BY <1>1, <1>2, <1>9 DEF Into, Values
<1>12. PartRight(p, p.value, d - s - x, 2 * h, f.Z)
  BY <1>2, <1>8, <1>10 DEF PartRight, Values
<1>13. SignRight(p, Signed(d, h) - Signed(s, h) - x, h)
  BY <1>2, <1>8 DEF SignRight
<1> QED
  BY <1>12, <1>13 DEF p, x

(* The first part is done by an instruction without X, which is one with X *)
(* from the flags a chain starts with.                                     *)
LEMMA FirstAdd ==
  ASSUME NEW h, NEW s, NEW d, NEW wide \in BOOLEAN
  PROVE  Add(wide, s, d, 0, h) = AddX(wide, s, d, Start(FALSE), h)
<1> DEFINE o == Add(wide, s, d, 0, h)
<1>1. AddX(wide, s, d, Start(FALSE), h) = [o EXCEPT !.ccr.Z = @ /\ TRUE]
  BY DEF AddX, Start, AsOne
<1>2. /\ o = [value |-> o.value,
              ccr |-> [X |-> o.ccr.X, N |-> o.ccr.N, Z |-> o.ccr.Z, V |-> o.ccr.V, C |-> o.ccr.C]]
      /\ o.ccr.Z \in BOOLEAN
  BY AddParts
<1> HIDE DEF o
<1>3. [o EXCEPT !.ccr.Z = @ /\ TRUE]
      = [value |-> o.value,
         ccr |-> [X |-> o.ccr.X, N |-> o.ccr.N, Z |-> o.ccr.Z /\ TRUE, V |-> o.ccr.V, C |-> o.ccr.C]]
  BY <1>2, OtherZ
<1>4. (o.ccr.Z /\ TRUE) = o.ccr.Z
  BY <1>2
<1> QED
  BY <1>1, <1>2, <1>3, <1>4 DEF o

LEMMA FirstSub ==
  ASSUME NEW h, NEW s, NEW d, NEW wide \in BOOLEAN
  PROVE  Sub(wide, s, d, 0, h) = SubX(wide, s, d, Start(FALSE), h)
<1> DEFINE o == Sub(wide, s, d, 0, h)
<1>1. SubX(wide, s, d, Start(FALSE), h) = [o EXCEPT !.ccr.Z = @ /\ TRUE]
  BY DEF SubX, Start, AsOne
<1>2. /\ o = [value |-> o.value,
              ccr |-> [X |-> o.ccr.X, N |-> o.ccr.N, Z |-> o.ccr.Z, V |-> o.ccr.V, C |-> o.ccr.C]]
      /\ o.ccr.Z \in BOOLEAN
  BY SubParts
<1> HIDE DEF o
<1>3. [o EXCEPT !.ccr.Z = @ /\ TRUE]
      = [value |-> o.value,
         ccr |-> [X |-> o.ccr.X, N |-> o.ccr.N, Z |-> o.ccr.Z /\ TRUE, V |-> o.ccr.V, C |-> o.ccr.C]]
  BY <1>2, OtherZ
<1>4. (o.ccr.Z /\ TRUE) = o.ccr.Z
  BY <1>2
<1> QED
  BY <1>1, <1>2, <1>3, <1>4 DEF o

(* The overflow of NEG is that of a subtraction from 0.                    *)
LEMMA NegIsSub ==
  ASSUME NEW h \in Nat \ {0}, NEW s, NEW wide \in BOOLEAN, NEW f
  PROVE  NegX(wide, s, f, h) = SubX(wide, s, 0, f, h)
<1> DEFINE o == Sub(wide, s, 0, AsOne(f.X), h)
           p == SubX(wide, s, 0, f, h)
           new == Negative(s, h) /\ Negative(p.value, h)
<1>1. NegX(wide, s, f, h) = [p EXCEPT !.ccr.V = new]
  BY DEF NegX
<1>2. o = [value |-> o.value,
           ccr |-> [X |-> o.ccr.X, N |-> o.ccr.N, Z |-> o.ccr.Z, V |-> o.ccr.V, C |-> o.ccr.C]]
  BY SubParts
<1>3. p = [o EXCEPT !.ccr.Z = @ /\ f.Z]
  BY DEF SubX
<1>4. o.ccr.V = OverflowSub(s, 0, o.value, h)
  BY DEF Sub
<1> HIDE DEF o, p
<1>5. p = [value |-> o.value,
           ccr |-> [X |-> o.ccr.X, N |-> o.ccr.N, Z |-> o.ccr.Z /\ f.Z, V |-> o.ccr.V, C |-> o.ccr.C]]
  BY <1>2, <1>3, OtherZ
<1>6. p.value = o.value
  BY <1>5
<1>7. new = o.ccr.V
  <2>1. Negative(0, h) = FALSE
    BY DEF Negative
  <2>2. Negative(s, h) \in BOOLEAN /\ Negative(o.value, h) \in BOOLEAN
    BY DEF Negative
  <2>3. OverflowSub(s, 0, o.value, h) <=> Negative(s, h) /\ Negative(o.value, h)
    BY <2>1, <2>2, Zenon DEF OverflowSub
  <2>4. OverflowSub(s, 0, o.value, h) \in BOOLEAN
    BY Zenon DEF OverflowSub
  <2> QED
    BY <2>3, <2>4, <1>4, <1>6, Zenon
<1> HIDE DEF new
<1> DEFINE z == o.ccr.Z /\ f.Z
<1>8. p = [value |-> o.value,
           ccr |-> [X |-> o.ccr.X, N |-> o.ccr.N, Z |-> z, V |-> o.ccr.V, C |-> o.ccr.C]]
  BY <1>5
<1> HIDE DEF z
<1>9. [p EXCEPT !.ccr.V = new] = p
  BY <1>7, <1>8, OtherV
<1> QED
  BY <1>1, <1>9 DEF p

LEMMA FirstNeg ==
  ASSUME NEW h \in Nat \ {0}, NEW s, NEW wide \in BOOLEAN
  PROVE  Neg(wide, s, h) = SubX(wide, s, 0, Start(FALSE), h)
<1>1. NegX(wide, s, Start(FALSE), h) = SubX(wide, s, 0, Start(FALSE), h)
  BY NegIsSub
<1>2. Neg(wide, s, h) = NegX(wide, s, Start(FALSE), h)
  BY FirstSub DEF Neg, NegX
<1> QED
  BY <1>1, <1>2

(* What a part takes in: in binary the first takes in nothing.             *)
First(j, k, f) == IF k = 0 /\ j.op \in Binary THEN Start(FALSE) ELSE f

Adds(j) == j.op \in {"add", "abcd"}

Total(j, s, d, x) == IF Adds(j) THEN d + s + x ELSE d - s - x

SignedTotal(j, s, d, x, h) ==
    IF Adds(j) THEN Signed(d, h) + Signed(s, h) + x ELSE Signed(d, h) - Signed(s, h) - x

LEMMA BinaryPart ==
  ASSUME NEW j \in Jobs, j.op \in Binary, NEW k, NEW f,
         f.X \in BOOLEAN, f.Z \in BOOLEAN, k = 0 => f.Z,
         NEW s \in Values(Half(j.size)), NEW d \in Values(Half(j.size)),
         Unary(j) => d = 0
  PROVE  LET o == AnyPart(j, s, d, k, f)
             x == AsOne(First(j, k, f).X)
             h == Half(j.size)
         IN  /\ PartRight(o, o.value, Total(j, s, d, x), 2 * h, f.Z)
             /\ SignRight(o, SignedTotal(j, s, d, x, h), h)
<1> DEFINE h == Half(j.size)
           wide == Wide(j.size)
           g == First(j, k, f)
           o == AnyPart(j, s, d, k, f)
<1>1. h \in Nat \ {0} /\ wide \in BOOLEAN
  BY JobSizes, HalfPositive DEF Wide
<1>2. g.X \in BOOLEAN /\ g.Z \in BOOLEAN /\ (g.Z <=> f.Z)
  BY DEF First, Start
<1>3. j.op = "add" => o = AddX(wide, s, d, g, h)
  <2>1. j.op = "add" => o = IF k = 0 THEN Add(wide, s, d, 0, h) ELSE AddX(wide, s, d, f, h)
    BY DEF AnyPart
  <2>2. Add(wide, s, d, 0, h) = AddX(wide, s, d, Start(FALSE), h)
    BY <1>1, FirstAdd
  <2> QED
    BY <2>1, <2>2 DEF First
<1>4. j.op = "sub" => o = SubX(wide, s, d, g, h)
  <2>1. j.op = "sub" => o = IF k = 0 THEN Sub(wide, s, d, 0, h) ELSE SubX(wide, s, d, f, h)
    BY DEF AnyPart
  <2>2. Sub(wide, s, d, 0, h) = SubX(wide, s, d, Start(FALSE), h)
    BY <1>1, FirstSub
  <2> QED
    BY <2>1, <2>2 DEF First
<1>5. j.op = "neg" => d = 0 /\ o = SubX(wide, s, d, g, h)
  <2>1. j.op = "neg" => d = 0 /\ o = IF k = 0 THEN Neg(wide, s, h) ELSE NegX(wide, s, f, h)
    BY DEF AnyPart, Unary
  <2>2. /\ Neg(wide, s, h) = SubX(wide, s, 0, Start(FALSE), h)
        /\ NegX(wide, s, f, h) = SubX(wide, s, 0, f, h)
    BY <1>1, FirstNeg, NegIsSub
  <2> QED
    BY <2>1, <2>2 DEF First
<1>6. PartRight(o, o.value, Total(j, s, d, AsOne(g.X)), 2 * h, g.Z)
        => PartRight(o, o.value, Total(j, s, d, AsOne(g.X)), 2 * h, f.Z)
  BY <1>2 DEF PartRight
<1>7. CASE j.op = "add"
  <2>1. /\ Total(j, s, d, AsOne(g.X)) = d + s + AsOne(g.X)
        /\ SignedTotal(j, s, d, AsOne(g.X), h) = Signed(d, h) + Signed(s, h) + AsOne(g.X)
    BY <1>7 DEF Total, SignedTotal, Adds
  <2> HIDE DEF h, wide, g
  <2>2. /\ PartRight(AddX(wide, s, d, g, h), AddX(wide, s, d, g, h).value,
                     d + s + AsOne(g.X), 2 * h, g.Z)
        /\ SignRight(AddX(wide, s, d, g, h), Signed(d, h) + Signed(s, h) + AsOne(g.X), h)
    <3>1. s \in Values(h) /\ d \in Values(h)
      BY DEF h
    <3> QED
      BY <3>1, <1>1, <1>2, AddXRight
  <2>3. /\ PartRight(o, o.value, Total(j, s, d, AsOne(g.X)), 2 * h, g.Z)
        /\ SignRight(o, SignedTotal(j, s, d, AsOne(g.X), h), h)
    BY <2>1, <2>2, <1>3, <1>7
  <2> QED
    BY <2>3, <1>6 DEF g, h
<1>8. CASE j.op \in {"sub", "neg"}
  <2>1. /\ Total(j, s, d, AsOne(g.X)) = d - s - AsOne(g.X)
        /\ SignedTotal(j, s, d, AsOne(g.X), h) = Signed(d, h) - Signed(s, h) - AsOne(g.X)
    BY <1>8 DEF Total, SignedTotal, Adds
  <2> HIDE DEF h, wide, g
  <2>2. /\ PartRight(SubX(wide, s, d, g, h), SubX(wide, s, d, g, h).value,
                     d - s - AsOne(g.X), 2 * h, g.Z)
        /\ SignRight(SubX(wide, s, d, g, h), Signed(d, h) - Signed(s, h) - AsOne(g.X), h)
    <3>1. s \in Values(h) /\ d \in Values(h)
      BY DEF h
    <3> QED
      BY <3>1, <1>1, <1>2, SubXRight
  <2>3. /\ PartRight(o, o.value, Total(j, s, d, AsOne(g.X)), 2 * h, g.Z)
        /\ SignRight(o, SignedTotal(j, s, d, AsOne(g.X), h), h)
    BY <2>1, <2>2, <1>4, <1>5, <1>8
  <2> QED
    BY <2>3, <1>6 DEF g, h
<1> QED
  BY <1>7, <1>8 DEF Binary

-----------------------------------------------------------------------------
(* Decimal digits.                                                         *)

LEMMA DivMod ==
  ASSUME NEW n \in Nat \ {0}, NEW x \in Int
  PROVE  /\ x \div n \in Int /\ x % n \in 0 .. n - 1
         /\ x = n * (x \div n) + (x % n)
  OBVIOUS

(* Quotient and remainder are the only ones.                               *)
LEMMA DivModUnique ==
  ASSUME NEW n \in Nat \ {0}, NEW q \in Int, NEW m \in 0 .. n - 1
  PROVE  (n * q + m) \div n = q /\ (n * q + m) % n = m
<1> DEFINE x == n * q + m
           p == x \div n
           e == x % n
<1>1. n * q \in Int /\ x \in Int
  OBVIOUS
<1>2. p \in Int /\ e \in 0 .. n - 1 /\ x = n * p + e
  <2> HIDE DEF x
  <2> QED
    BY <1>1, DivMod
<1>3. x = n * q + m
  OBVIOUS
<1> HIDE DEF x, p, e
<1>4. ~(p < q)
  <2>1. p < q => n * p + n <= n * q
    BY <1>2, Products
  <2>2. n * p \in Int
    BY <1>2, Products
  <2> QED
    BY <1>1, <1>2, <1>3, <2>1, <2>2
<1>5. ~(q < p)
  <2>1. q < p => n * q + n <= n * p
    BY <1>2, Products
  <2>2. n * p \in Int
    BY <1>2, Products
  <2> QED
    BY <1>1, <1>2, <1>3, <2>1, <2>2
<1>6. p = q
  BY <1>2, <1>4, <1>5
<1>7. e = m
  BY <1>1, <1>2, <1>3, <1>6
<1> QED
  BY <1>6, <1>7 DEF x, p, e

LEMMA Bases ==
  /\ Nibble \in Nat \ {0} /\ Ten \in Nat \ {0} /\ 2 <= Ten /\ Ten < Nibble
  /\ Nibble * Nibble \in Nat \ {0} /\ Ten * Ten \in Nat \ {0}
<1>1. Nibble \in Nat \ {0} /\ Ten \in Nat \ {0} /\ 2 <= Ten /\ Ten < Nibble
  BY DecimalAssumption
<1>2. \A x \in Nat \ {0} : x * x \in Nat \ {0}
  OBVIOUS
<1> QED
  BY <1>1, <1>2

(* A byte made of two digits.                                              *)
LEMMA TwoDigits ==
  ASSUME NEW hi \in 0 .. Nibble - 1, NEW lo \in 0 .. Nibble - 1
  PROVE  LET byte == Nibble * hi + lo
         IN  /\ byte \in 0 .. Nibble * Nibble - 1
             /\ byte % (Nibble * Nibble) = byte
             /\ byte \div Nibble = hi /\ LOW_NIBBLE(byte) = lo
             /\ HIGH_NIBBLE(byte) = Nibble * hi
             /\ Digit2(byte) = Ten * hi + lo
<1> DEFINE byte == Nibble * hi + lo
           square == Nibble * Nibble
<1>1. /\ Nibble * hi \in Int /\ Nibble * hi >= 0
      /\ Nibble * hi + Nibble <= square
      /\ square \in Nat \ {0}
  <2>1. hi < Nibble /\ Nibble \in Int /\ hi \in Int /\ hi >= 0
    BY Bases
  <2> QED
    BY <2>1, Bases, Products
<1>2. byte \in 0 .. square - 1
  <2> DEFINE p == Nibble * hi
  <2>1. p \in Int /\ p >= 0 /\ p + Nibble <= square /\ square \in Int
    BY <1>1
  <2> HIDE DEF p, square
  <2>2. p + lo \in 0 .. square - 1
    BY <2>1, Bases
  <2> QED
    BY <2>2 DEF p
<1>3. byte % square = byte
  <2> HIDE DEF byte, square
  <2>1. \A x \in 0 .. square - 1 : x % square = x
    BY <1>1
  <2> QED
    BY <1>2, <2>1
<1>4. byte \div Nibble = hi /\ byte % Nibble = lo
  BY Bases, DivModUnique
<1>5. hi % Nibble = hi
  BY Bases
<1>6. hi * Nibble = Nibble * hi /\ hi * Ten = Ten * hi
  BY Bases
<1> QED
  BY <1>2, <1>3, <1>4, <1>5, <1>6 DEF LOW_NIBBLE, HIGH_NIBBLE, Digit2

(* A valid byte is two digits.                                             *)
LEMMA ValidByte ==
  ASSUME NEW byte \in 0 .. Nibble * Nibble - 1, Valid(byte)
  PROVE  \E hi, lo \in 0 .. Ten - 1 : byte = Nibble * hi + lo
<1> DEFINE hi == byte \div Nibble
           lo == byte % Nibble
           square == Nibble * Nibble
<1>1. byte \in Int /\ square \in Int /\ byte >= 0 /\ byte < square
  BY Bases
<1>2. hi \in Int /\ lo \in 0 .. Nibble - 1 /\ byte = Nibble * hi + lo
  BY <1>1, Bases, DivMod
<1>3. lo < Ten /\ (hi % Nibble) * Nibble < Ten * Nibble
  BY DEF Valid, LOW_NIBBLE, HIGH_NIBBLE
<1> HIDE DEF hi, lo
<1>4. hi >= 0
  <2>1. hi < 0 => Nibble * hi + Nibble <= Nibble * 0
    BY <1>2, Bases, Products
  <2>2. Nibble * hi \in Int /\ Nibble * 0 = 0
    BY <1>2, Bases, Products
  <2> QED
    BY <1>1, <1>2, <2>1, <2>2, Bases
<1>5. hi < Nibble
  <2>1. Nibble < hi => Nibble * Nibble + Nibble <= Nibble * hi
    BY <1>2, Bases, Products
  <2>2. Nibble * hi \in Int
    BY <1>2, Bases, Products
  <2>3. ~(Nibble < hi)
    <3> HIDE DEF square
    <3>1. Nibble < hi => square + Nibble <= Nibble * hi
      BY <2>1 DEF square
    <3> QED
      BY <1>1, <1>2, <2>2, <3>1, Bases
  <2>4. hi # Nibble
    <3>1. hi = Nibble => byte = square + lo
      BY <1>2
    <3> HIDE DEF square
    <3> QED
      BY <1>1, <1>2, <3>1, Bases
  <2> QED
    BY <1>2, <2>3, <2>4, Bases
<1>6. hi % Nibble = hi
  BY <1>2, <1>4, <1>5, Bases
<1>7. hi < Ten
  <2>1. Nibble * hi < Nibble * Ten
    <3>1. hi * Nibble < Ten * Nibble
      BY <1>3, <1>6
    <3>2. hi * Nibble = Nibble * hi /\ Ten * Nibble = Nibble * Ten
      BY <1>2, Bases
    <3> QED
      BY <3>1, <3>2
  <2>2. Ten < hi => Nibble * Ten + Nibble <= Nibble * hi
    BY <1>2, Bases, Products
  <2>3. Nibble * hi \in Int /\ Nibble * Ten \in Int
    BY <1>2, Bases, Products
  <2> QED
    BY <1>2, <2>1, <2>2, <2>3, Bases
<1>8. hi \in 0 .. Ten - 1 /\ lo \in 0 .. Ten - 1
  BY <1>2, <1>3, <1>4, <1>7, Bases
<1> QED
  BY <1>2, <1>8

(* An outcome whose digits are right is the right number.                  *)
LEMMA DigitsRight ==
  ASSUME NEW high \in -Ten .. 2 * Ten - 1, NEW low \in 0 .. Ten - 1, NEW o, NEW z \in BOOLEAN,
         o.value = Nibble * Into(high, Ten) + low,
         o.ccr.X \in BOOLEAN, o.ccr.C \in BOOLEAN, o.ccr.Z \in BOOLEAN,
         o.ccr.X <=> high \notin 0 .. Ten - 1,
         o.ccr.C <=> o.ccr.X,
         o.ccr.Z <=> z /\ o.value = 0
  PROVE  PartRight(o, Digit2(o.value), Ten * high + low, Ten * Ten, z)
<1> DEFINE hi == Into(high, Ten)
           square == Ten * Ten
           p == Ten * high
           q == Ten * hi
           v == Digit2(o.value)
<1>1. hi \in 0 .. Ten - 1 /\ high \in Int
  BY Bases DEF Into
<1>2. v = q + low
  <2>1. hi \in 0 .. Nibble - 1 /\ low \in 0 .. Nibble - 1 /\ o.value = Nibble * hi + low
    BY <1>1, Bases
  <2> HIDE DEF hi
  <2> QED
    BY <2>1, TwoDigits
<1>3. /\ p \in Int /\ q \in Int /\ square \in Int
      /\ q >= 0 /\ q + Ten <= square
      /\ (high < 0 => p + Ten <= 0)
      /\ (high < Ten => p + Ten <= square)
      /\ (high >= 0 => p >= 0)
      /\ (high >= Ten => p >= square)
  <2> HIDE DEF hi
  <2>1. /\ Ten * high \in Int /\ Ten * hi \in Int /\ Ten * Ten \in Int
        /\ (hi >= 0 => Ten * hi >= 0) /\ (hi < Ten => Ten * hi + Ten <= Ten * Ten)
    BY <1>1, Bases, Products
  <2>2. /\ (high < 0 => Ten * high + Ten <= Ten * 0) /\ Ten * 0 = 0
        /\ (high < Ten => Ten * high + Ten <= Ten * Ten)
        /\ (high >= 0 => Ten * high >= 0)
    BY <1>1, Bases, Products
  <2>3. high >= Ten => Ten * high >= Ten * Ten
    <3>1. /\ high - Ten \in Int /\ Ten * (high - Ten) = Ten * high - Ten * Ten
      BY <1>1, Bases, Products
    <3>2. high - Ten >= 0 => Ten * (high - Ten) >= 0
      BY <3>1, Bases, Products
    <3> QED
      BY <2>1, <3>1, <3>2, <1>1, Bases
  <2>4. /\ p \in Int /\ q \in Int /\ square \in Int
        /\ (hi >= 0 => q >= 0) /\ (hi < Ten => q + Ten <= square)
    BY <2>1
  <2>5. /\ (high < 0 => p + Ten <= 0)
        /\ (high < Ten => p + Ten <= square)
        /\ (high >= 0 => p >= 0)
    BY <2>2
  <2>6. high >= Ten => p >= square
    BY <2>3
  <2> HIDE DEF p, q, square
  <2> QED
    BY <1>1, <2>4, <2>5, <2>6, Bases
<1>4. q = IF high < 0 THEN p + square ELSE IF high < Ten THEN p ELSE p - square
  <2>1. /\ Ten * (high + Ten) = Ten * high + Ten * Ten
        /\ Ten * (high - Ten) = Ten * high - Ten * Ten
    BY <1>1, Bases, Products
  <2> QED
    BY <2>1 DEF Into
<1>5. o.value = 0 <=> v = 0
  <2>1. /\ Nibble * hi \in Int /\ (hi >= 0 => Nibble * hi >= 0)
        /\ (0 < hi => Nibble * 0 + Nibble <= Nibble * hi) /\ Nibble * 0 = 0
    <3> HIDE DEF hi
    <3> QED
      BY <1>1, Bases, Products
  <2>2. /\ (0 < hi => Ten * 0 + Ten <= Ten * hi) /\ Ten * 0 = 0
    <3> HIDE DEF hi
    <3> QED
      BY <1>1, Bases, Products
  <2> DEFINE m == Nibble * hi
  <2>3. o.value = m + low /\ m \in Int /\ (hi = 0 => m = 0) /\ (hi > 0 => m > 0)
    BY <2>1, <1>1, Bases
  <2>4. (hi = 0 => q = 0) /\ (hi > 0 => q > 0)
    BY <2>2, <1>1, <1>3, Bases
  <2> HIDE DEF m, q, v, hi
  <2> QED
    BY <1>1, <1>2, <1>3, <2>3, <2>4
<1> HIDE DEF hi, square, q, v, p
<1>6. v \in 0 .. square - 1
  BY <1>2, <1>3, Bases
<1>7. v = Into(p + low, square)
  BY <1>1, <1>2, <1>3, <1>4, Bases DEF Into
<1>8. o.ccr.X <=> p + low \notin 0 .. square - 1
  BY <1>1, <1>3, Bases
<1>9. o.ccr.Z <=> z /\ v = 0
  BY <1>5
<1>10. PartRight(o, v, p + low, square, z)
  BY <1>6, <1>7, <1>8, <1>9 DEF PartRight
<1> QED
  BY <1>10 DEF v, p, square

LEMMA Outcome ==
  ASSUME NEW v, NEW X, NEW N, NEW Z, NEW V, NEW C
  PROVE  LET o == [value |-> v, ccr |-> [X |-> X, N |-> N, V |-> V, C |-> C, Z |-> Z]]
         IN  o.value = v /\ o.ccr.X = X /\ o.ccr.C = C /\ o.ccr.Z = Z
  OBVIOUS

LEMMA AbcdRight ==
  ASSUME NEW s \in 0 .. Nibble * Nibble - 1, Valid(s),
         NEW d \in 0 .. Nibble * Nibble - 1, Valid(d),
         NEW f, f.X \in BOOLEAN, f.Z \in BOOLEAN
  PROVE  LET o == abcd(s, d, f)
         IN  PartRight(o, Digit2(o.value), Digit2(d) + Digit2(s) + AsOne(f.X), Ten * Ten, f.Z)
<1>1. PICK hs \in 0 .. Ten - 1, ls \in 0 .. Ten - 1 : s = Nibble * hs + ls
  BY ValidByte
<1>2. PICK hd \in 0 .. Ten - 1, ld \in 0 .. Ten - 1 : d = Nibble * hd + ld
  BY ValidByte
<1>3. /\ LOW_NIBBLE(s) = ls /\ HIGH_NIBBLE(s) = Nibble * hs /\ Digit2(s) = Ten * hs + ls
      /\ LOW_NIBBLE(d) = ld /\ HIGH_NIBBLE(d) = Nibble * hd /\ Digit2(d) = Ten * hd + ld
  <2>1. /\ hs \in 0 .. Nibble - 1 /\ ls \in 0 .. Nibble - 1
        /\ hd \in 0 .. Nibble - 1 /\ ld \in 0 .. Nibble - 1
    BY Bases
  <2> QED
    BY <2>1, <1>1, <1>2, TwoDigits
<1> DEFINE x == AsOne(f.X)
           digits == ls + ld + x
           k == IF digits < Ten THEN 0 ELSE 1
           low == IF digits < Ten THEN digits ELSE digits - Ten
           high == hs + hd + k
           sum == digits + Adjustment(digits) + Nibble * hs + Nibble * hd
           c == sum > Highest
           res == IF c THEN sum - Ten * Nibble ELSE sum
           square == Nibble * Nibble
<1>4. x \in 0 .. 1
  BY DEF AsOne
<1> HIDE DEF x
<1>5. digits \in 0 .. 2 * Ten - 1 /\ low \in 0 .. Ten - 1 /\ k \in 0 .. 1
  BY <1>4, Bases
<1>6. high \in 0 .. 2 * Ten - 1
  BY <1>5, Bases
<1>7. digits + Adjustment(digits) = Nibble * k + low
  BY <1>5, Bases DEF Adjustment
<1>8. Nibble * high = Nibble * hs + Nibble * hd + Nibble * k
  <2>1. hs \in Int /\ hd \in Int /\ k \in Int
    BY <1>5
  <2> HIDE DEF k
  <2>2. /\ Nibble * (hs + hd) = Nibble * hs + Nibble * hd
        /\ Nibble * (hs + hd + k) = Nibble * (hs + hd) + Nibble * k
    BY <2>1, Bases, Products
  <2> QED
    BY <2>2
<1>9. Ten * high + low = Digit2(d) + Digit2(s) + x
  <2>1. hs \in Int /\ hd \in Int /\ k \in Int
    BY <1>5
  <2>2. /\ Ten * (hs + hd) = Ten * hs + Ten * hd
        /\ Ten * (hs + hd + k) = Ten * (hs + hd) + Ten * k
        /\ Ten * hs \in Int /\ Ten * hd \in Int
    <3> HIDE DEF k
    <3> QED
      BY <2>1, Bases, Products
  <2>3. Ten * k + low = digits
    BY <1>5, Bases
  <2> DEFINE p == Ten * hs
             q == Ten * hd
  <2>4. Ten * high = p + q + Ten * k /\ Ten * k \in Int /\ p \in Int /\ q \in Int
    BY <2>1, <2>2, Bases
  <2> HIDE DEF high, low, k, p, q
  <2>5. (p + q + Ten * k) + low = (q + ld) + (p + ls) + x
    BY <2>3, <2>4, <1>4, <1>5, Bases
  <2> QED
    BY <2>4, <2>5, <1>3 DEF p, q
<1>10. sum = Nibble * high + low
  <2>1. Nibble * hs \in Int /\ Nibble * hd \in Int /\ Nibble * k \in Int
    BY <1>5, Bases
  <2> HIDE DEF digits, k, low, high
  <2> DEFINE p == Nibble * hs
             q == Nibble * hd
             n == Nibble * k
             t == digits + Adjustment(digits)
  <2>2. sum = t + p + q
    OBVIOUS
  <2>3. t = n + low /\ Nibble * high = p + q + n /\ p \in Int /\ q \in Int /\ n \in Int
    BY <1>7, <1>8, <2>1
  <2> HIDE DEF p, q, n, t, sum
  <2> QED
    BY <1>5, <2>2, <2>3
<1>11. /\ Highest = Nibble * Ten - Nibble + Ten - 1
       /\ Ten * Nibble = Nibble * Ten
       /\ Nibble * Ten \in Int /\ Nibble * high \in Int
       /\ (high < Ten => Nibble * high + Nibble <= Nibble * Ten)
       /\ (high >= Ten => Nibble * high >= Nibble * Ten)
       /\ Nibble * (high - Ten) = Nibble * high - Nibble * Ten
  <2> HIDE DEF high
  <2>1. /\ Nibble * Ten \in Int /\ Nibble * high \in Int
        /\ (high < Ten => Nibble * high + Nibble <= Nibble * Ten)
        /\ Nibble * (high - Ten) = Nibble * high - Nibble * Ten
        /\ high - Ten \in Int
    BY <1>6, Bases, Products
  <2>2. high - Ten >= 0 => Nibble * (high - Ten) >= 0
    BY <2>1, Bases, Products
  <2>3. high >= Ten => Nibble * high >= Nibble * Ten
    <3> DEFINE p == Nibble * Ten
               q == Nibble * high
               n == Nibble * (high - Ten)
    <3>1. p \in Int /\ q \in Int /\ n = q - p /\ (high - Ten >= 0 => n >= 0)
      BY <2>1, <2>2
    <3> HIDE DEF p, q, n
    <3>2. high >= Ten => q >= p
      BY <3>1, <1>6, Bases
    <3> QED
      BY <3>2 DEF p, q
  <2>4. Highest = Nibble * Ten - Nibble + Ten - 1 /\ Ten * Nibble = Nibble * Ten
    BY Bases DEF Highest
  <2> QED
    BY <2>1, <2>3, <2>4
<1>12. c <=> high >= Ten
  <2> DEFINE p == Nibble * Ten
             q == Nibble * high
  <2>1. /\ sum = q + low /\ Highest = p - Nibble + Ten - 1
        /\ p \in Int /\ q \in Int
        /\ (high < Ten => q + Nibble <= p) /\ (high >= Ten => q >= p)
    BY <1>10, <1>11
  <2> HIDE DEF p, q, sum, high, low
  <2> QED
    BY <2>1, <1>5, <1>6, Bases
<1>13. res = Nibble * Into(high, Ten) + low
  <2> DEFINE p == Nibble * Ten
             q == Nibble * high
             n == Nibble * (high - Ten)
  <2>1. /\ sum = q + low /\ Ten * Nibble = p /\ p \in Int /\ q \in Int
        /\ n = q - p
    BY <1>10, <1>11
  <2>2. Nibble * Into(high, Ten) = IF high < Ten THEN q ELSE n
    BY <1>6 DEF Into
  <2> HIDE DEF p, q, n, sum, high, low, c
  <2> QED
    BY <2>1, <2>2, <1>5, <1>6, <1>12, Bases
<1>14. res % square = res
  <2>1. Into(high, Ten) \in 0 .. Nibble - 1 /\ low \in 0 .. Nibble - 1
    BY <1>5, <1>6, Bases DEF Into
  <2> HIDE DEF res, high, low
  <2> QED
    BY <2>1, <1>13, TwoDigits
<1> DEFINE o == abcd(s, d, f)
           N == Top(res)
           V == ~Top(digits) /\ Top(res)
           Z == f.Z /\ res % square = 0
<1>15. o = [value |-> res % square, ccr |-> [X |-> c, N |-> N, V |-> V, C |-> c, Z |-> Z]]
  BY <1>3 DEF abcd, x
<1>16. Z <=> f.Z /\ res = 0
  BY <1>14
<1>17. c \in BOOLEAN /\ Z \in BOOLEAN
  OBVIOUS
<1> HIDE DEF o, N, V, Z, c, res, high, low, square
<1>18. o.value = res /\ o.ccr.X = c /\ o.ccr.C = c /\ o.ccr.Z = Z
  BY <1>14, <1>15, Outcome
<1>19. /\ o.value = Nibble * Into(high, Ten) + low
       /\ o.ccr.X \in BOOLEAN /\ o.ccr.C \in BOOLEAN /\ o.ccr.Z \in BOOLEAN
       /\ (o.ccr.X <=> high \notin 0 .. Ten - 1)
       /\ (o.ccr.C <=> o.ccr.X)
       /\ (o.ccr.Z <=> f.Z /\ o.value = 0)
  <2>1. o.value = Nibble * Into(high, Ten) + low
    BY <1>13, <1>18
  <2>2. o.ccr.X \in BOOLEAN /\ o.ccr.C \in BOOLEAN /\ o.ccr.Z \in BOOLEAN
    BY <1>17, <1>18, Zenon
  <2>3. o.ccr.X <=> high >= Ten
    BY <1>12, <1>18, Zenon
  <2>4. high >= Ten <=> high \notin 0 .. Ten - 1
    BY <1>6, Bases
  <2>5. o.ccr.C <=> o.ccr.X
    BY <1>18, Zenon
  <2>6. o.ccr.Z <=> f.Z /\ o.value = 0
    BY <1>16, <1>18, Zenon
  <2> QED
    BY <2>1, <2>2, <2>3, <2>4, <2>5, <2>6
<1>20. high \in -Ten .. 2 * Ten - 1
  BY <1>6, Bases
<1>21. PartRight(o, Digit2(o.value), Ten * high + low, Ten * Ten, f.Z)
  BY <1>5, <1>19, <1>20, DigitsRight
<1> QED
  BY <1>9, <1>21 DEF o, x

LEMMA SbcdRight ==
  ASSUME NEW s \in 0 .. Nibble * Nibble - 1, Valid(s),
         NEW d \in 0 .. Nibble * Nibble - 1, Valid(d),
         NEW f, f.X \in BOOLEAN, f.Z \in BOOLEAN
  PROVE  LET o == sbcd(s, d, f)
         IN  PartRight(o, Digit2(o.value), Digit2(d) - Digit2(s) - AsOne(f.X), Ten * Ten, f.Z)
<1>1. PICK hs \in 0 .. Ten - 1, ls \in 0 .. Ten - 1 : s = Nibble * hs + ls
  BY ValidByte
<1>2. PICK hd \in 0 .. Ten - 1, ld \in 0 .. Ten - 1 : d = Nibble * hd + ld
  BY ValidByte
<1>3. /\ LOW_NIBBLE(s) = ls /\ HIGH_NIBBLE(s) = Nibble * hs /\ Digit2(s) = Ten * hs + ls
      /\ LOW_NIBBLE(d) = ld /\ HIGH_NIBBLE(d) = Nibble * hd /\ Digit2(d) = Ten * hd + ld
  <2>1. /\ hs \in 0 .. Nibble - 1 /\ ls \in 0 .. Nibble - 1
        /\ hd \in 0 .. Nibble - 1 /\ ld \in 0 .. Nibble - 1
    BY Bases
  <2> QED
    BY <2>1, <1>1, <1>2, TwoDigits
<1> DEFINE x == AsOne(f.X)
           digits == ld - ls - x
           k == IF digits < 0 THEN 1 ELSE 0
           low == IF digits < 0 THEN digits + Ten ELSE digits
           high == hd - hs - k
           rest == digits - Adjustment(digits) + Nibble * hd - Nibble * hs
           c == rest > Highest \/ rest < 0
           res == IF c THEN rest + Ten * Nibble ELSE rest
           square == Nibble * Nibble
<1>4. x \in 0 .. 1
  BY DEF AsOne
<1> HIDE DEF x
<1>5. digits \in -Ten .. Ten - 1 /\ low \in 0 .. Ten - 1 /\ k \in 0 .. 1
  BY <1>4, Bases
<1>6. high \in -Ten .. Ten - 1
  BY <1>5, Bases
<1>7. digits - Adjustment(digits) = low - Nibble * k
  BY <1>5, Bases DEF Adjustment
<1>8. Nibble * high = Nibble * hd - Nibble * hs - Nibble * k
  <2>1. hs \in Int /\ hd \in Int /\ k \in Int
    BY <1>5
  <2> HIDE DEF k
  <2>2. /\ Nibble * (hd - hs) = Nibble * hd - Nibble * hs
        /\ Nibble * (hd - hs - k) = Nibble * (hd - hs) - Nibble * k
    BY <2>1, Bases, Products
  <2> QED
    BY <2>2
<1>9. Ten * high + low = Digit2(d) - Digit2(s) - x
  <2>1. hs \in Int /\ hd \in Int /\ k \in Int
    BY <1>5
  <2>2. /\ Ten * (hd - hs) = Ten * hd - Ten * hs
        /\ Ten * (hd - hs - k) = Ten * (hd - hs) - Ten * k
        /\ Ten * hs \in Int /\ Ten * hd \in Int
    <3> HIDE DEF k
    <3> QED
      BY <2>1, Bases, Products
  <2>3. low - Ten * k = digits
    BY <1>5, Bases
  <2> DEFINE p == Ten * hs
             q == Ten * hd
  <2>4. Ten * high = q - p - Ten * k /\ Ten * k \in Int /\ p \in Int /\ q \in Int
    BY <2>1, <2>2, Bases
  <2> HIDE DEF high, low, k, p, q
  <2>5. (q - p - Ten * k) + low = (q + ld) - (p + ls) - x
    BY <2>3, <2>4, <1>4, <1>5, Bases
  <2> QED
    BY <2>4, <2>5, <1>3 DEF p, q
<1>10. rest = Nibble * high + low
  <2>1. Nibble * hs \in Int /\ Nibble * hd \in Int /\ Nibble * k \in Int
    BY <1>5, Bases
  <2> HIDE DEF digits, k, low, high
  <2> DEFINE p == Nibble * hs
             q == Nibble * hd
             n == Nibble * k
             t == digits - Adjustment(digits)
  <2>2. rest = t + q - p
    OBVIOUS
  <2>3. t = low - n /\ Nibble * high = q - p - n /\ p \in Int /\ q \in Int /\ n \in Int
    BY <1>7, <1>8, <2>1
  <2> HIDE DEF p, q, n, t, rest
  <2> QED
    BY <1>5, <2>2, <2>3
<1>11. /\ Highest = Nibble * Ten - Nibble + Ten - 1
       /\ Ten * Nibble = Nibble * Ten
       /\ Nibble * Ten \in Int /\ Nibble * high \in Int
       /\ (high < Ten => Nibble * high + Nibble <= Nibble * Ten)
       /\ (high >= 0 => Nibble * high >= 0)
       /\ (high < 0 => Nibble * high + Nibble <= 0)
       /\ Nibble * (high + Ten) = Nibble * high + Nibble * Ten
  <2> HIDE DEF high
  <2>1. /\ Nibble * Ten \in Int /\ Nibble * high \in Int
        /\ (high < Ten => Nibble * high + Nibble <= Nibble * Ten)
        /\ (high >= 0 => Nibble * high >= 0)
        /\ Nibble * (high + Ten) = Nibble * high + Nibble * Ten
    BY <1>6, Bases, Products
  <2>2. (high < 0 => Nibble * high + Nibble <= Nibble * 0) /\ Nibble * 0 = 0
    BY <1>6, Bases, Products
  <2>3. Highest = Nibble * Ten - Nibble + Ten - 1 /\ Ten * Nibble = Nibble * Ten
    BY Bases DEF Highest
  <2> QED
    BY <2>1, <2>2, <2>3
<1>12. c <=> high < 0
  <2> DEFINE p == Nibble * Ten
             q == Nibble * high
  <2>1. /\ rest = q + low /\ Highest = p - Nibble + Ten - 1
        /\ p \in Int /\ q \in Int
        /\ (high < Ten => q + Nibble <= p)
        /\ (high >= 0 => q >= 0) /\ (high < 0 => q + Nibble <= 0)
    BY <1>10, <1>11
  <2> HIDE DEF p, q, rest, high, low
  <2> QED
    BY <2>1, <1>5, <1>6, Bases
<1>13. res = Nibble * Into(high, Ten) + low
  <2> DEFINE p == Nibble * Ten
             q == Nibble * high
             n == Nibble * (high + Ten)
  <2>1. /\ rest = q + low /\ Ten * Nibble = p /\ p \in Int /\ q \in Int
        /\ n = q + p
    BY <1>10, <1>11
  <2>2. Nibble * Into(high, Ten) = IF high < 0 THEN n ELSE q
    <3> HIDE DEF high
    <3> QED
      BY <1>6, Bases DEF Into
  <2> HIDE DEF p, q, n, rest, high, low, c
  <2> QED
    BY <2>1, <2>2, <1>5, <1>6, <1>12, Bases
<1>14. res % square = res
  <2>1. Into(high, Ten) \in 0 .. Nibble - 1 /\ low \in 0 .. Nibble - 1
    BY <1>5, <1>6, Bases DEF Into
  <2> HIDE DEF res, high, low
  <2> QED
    BY <2>1, <1>13, TwoDigits
<1> DEFINE o == sbcd(s, d, f)
           N == Top(res)
           V == ~Top(digits) /\ Top(res)
           Z == f.Z /\ res % square = 0
<1>15. o = [value |-> res % square, ccr |-> [X |-> c, N |-> N, V |-> V, C |-> c, Z |-> Z]]
  BY <1>3 DEF sbcd, x
<1>16. Z <=> f.Z /\ res = 0
  BY <1>14
<1>17. c \in BOOLEAN /\ Z \in BOOLEAN
  OBVIOUS
<1> HIDE DEF o, N, V, Z, c, res, high, low, square
<1>18. o.value = res /\ o.ccr.X = c /\ o.ccr.C = c /\ o.ccr.Z = Z
  BY <1>14, <1>15, Outcome
<1>19. /\ o.value = Nibble * Into(high, Ten) + low
       /\ o.ccr.X \in BOOLEAN /\ o.ccr.C \in BOOLEAN /\ o.ccr.Z \in BOOLEAN
       /\ (o.ccr.X <=> high \notin 0 .. Ten - 1)
       /\ (o.ccr.C <=> o.ccr.X)
       /\ (o.ccr.Z <=> f.Z /\ o.value = 0)
  <2>1. o.value = Nibble * Into(high, Ten) + low
    BY <1>13, <1>18
  <2>2. o.ccr.X \in BOOLEAN /\ o.ccr.C \in BOOLEAN /\ o.ccr.Z \in BOOLEAN
    BY <1>17, <1>18, Zenon
  <2>3. o.ccr.X <=> high < 0
    BY <1>12, <1>18, Zenon
  <2>4. high < 0 <=> high \notin 0 .. Ten - 1
    BY <1>6, Bases
  <2>5. o.ccr.C <=> o.ccr.X
    BY <1>18, Zenon
  <2>6. o.ccr.Z <=> f.Z /\ o.value = 0
    BY <1>16, <1>18, Zenon
  <2> QED
    BY <2>1, <2>2, <2>3, <2>4, <2>5, <2>6
<1>20. high \in -Ten .. 2 * Ten - 1
  BY <1>6, Bases
<1>21. PartRight(o, Digit2(o.value), Ten * high + low, Ten * Ten, f.Z)
  BY <1>5, <1>19, <1>20, DigitsRight
<1> QED
  BY <1>9, <1>21 DEF o, x

LEMMA OtherFour ==
  ASSUME NEW f, f = [X |-> f.X, N |-> f.N, Z |-> f.Z, V |-> f.V, C |-> f.C],
         NEW no, NEW n
  PROVE  [f EXCEPT !.X = no, !.C = no, !.V = no, !.N = n]
           = [X |-> no, N |-> n, Z |-> f.Z, V |-> no, C |-> no]
<1> DEFINE X == f.X
           N == f.N
           Z == f.Z
           V == f.V
           C == f.C
<1>1. f = [X |-> X, N |-> N, Z |-> Z, V |-> V, C |-> C]
  OBVIOUS
<1> HIDE DEF X, N, Z, V, C
<1>2. [[X |-> X, N |-> N, Z |-> Z, V |-> V, C |-> C]
         EXCEPT !.X = no, !.C = no, !.V = no, !.N = n]
        = [X |-> no, N |-> n, Z |-> Z, V |-> no, C |-> no]
  <2> DEFINE g == [X |-> X, N |-> N, Z |-> Z, V |-> V, C |-> C]
  <2>1. [g EXCEPT !.X = no, !.C = no, !.V = no, !.N = n]
          = [[[[g EXCEPT !.X = no] EXCEPT !.C = no] EXCEPT !.V = no] EXCEPT !.N = n]
    <3> HIDE DEF g
    <3> QED
      OBVIOUS
  <2>2. [g EXCEPT !.X = no] = [X |-> no, N |-> N, Z |-> Z, V |-> V, C |-> C]
    OBVIOUS
  <2>3. [[X |-> no, N |-> N, Z |-> Z, V |-> V, C |-> C] EXCEPT !.C = no]
          = [X |-> no, N |-> N, Z |-> Z, V |-> V, C |-> no]
    OBVIOUS
  <2>4. [[X |-> no, N |-> N, Z |-> Z, V |-> V, C |-> no] EXCEPT !.V = no]
          = [X |-> no, N |-> N, Z |-> Z, V |-> no, C |-> no]
    OBVIOUS
  <2>5. [[X |-> no, N |-> N, Z |-> Z, V |-> no, C |-> no] EXCEPT !.N = n]
          = [X |-> no, N |-> n, Z |-> Z, V |-> no, C |-> no]
    OBVIOUS
  <2> QED
    BY <2>1, <2>2, <2>3, <2>4, <2>5
<1> QED
  BY <1>1, <1>2 DEF Z

(* NBCD has a form of its own for 0 without a borrow, which it leaves as   *)
(* it is, and for a last digit of 0, which it makes a digit again.         *)
LEMMA NbcdRight ==
  ASSUME NEW d \in 0 .. Nibble * Nibble - 1, Valid(d),
         NEW f, f.X \in BOOLEAN, f.Z \in BOOLEAN,
         f = [X |-> f.X, N |-> f.N, Z |-> f.Z, V |-> f.V, C |-> f.C]
  PROVE  LET o == nbcd(d, f)
         IN  PartRight(o, Digit2(o.value), Digit2(0) - Digit2(d) - AsOne(f.X), Ten * Ten, f.Z)
<1>1. PICK hd \in 0 .. Ten - 1, ld \in 0 .. Ten - 1 : d = Nibble * hd + ld
  BY ValidByte
<1> DEFINE x == AsOne(f.X)
           left == Ten - ld - x
           high == Ten - 1 - hd
           first == Nibble * high + left
           square == Nibble * Nibble
           full == Highest + 1
           o == nbcd(d, f)
<1>2. x \in 0 .. 1 /\ (f.X <=> x = 1)
  BY DEF AsOne
<1>3. Digit2(d) = Ten * hd + ld /\ Digit2(0) = 0
  <2>1. hd \in 0 .. Nibble - 1 /\ ld \in 0 .. Nibble - 1 /\ 0 \in 0 .. Nibble - 1
    BY Bases
  <2>2. Digit2(Nibble * hd + ld) = Ten * hd + ld /\ Digit2(Nibble * 0 + 0) = Ten * 0 + 0
    BY <2>1, TwoDigits
  <2>3. Nibble * 0 + 0 = 0 /\ Ten * 0 + 0 = 0
    BY Bases
  <2> QED
    BY <2>2, <2>3, <1>1
<1> HIDE DEF x
<1>4. left \in 0 .. Ten /\ high \in 0 .. Ten - 1
  BY <1>2, Bases
<1>5. high \in 0 .. Nibble - 1 /\ left \in 0 .. Nibble - 1
  BY <1>4, Bases
<1>6. full - d - x = first
  <2>1. full = Nibble * Ten - Nibble + Ten
    BY Bases DEF Highest
  <2>2. /\ Nibble * (Ten - 1) = Nibble * Ten - Nibble * 1
        /\ Nibble * (Ten - 1 - hd) = Nibble * (Ten - 1) - Nibble * hd
        /\ Nibble * 1 = Nibble /\ Nibble * hd \in Int /\ Nibble * Ten \in Int
    <3>1. Ten - 1 \in Int /\ hd \in Int /\ Ten \in Int /\ 1 \in Int
      BY Bases
    <3> QED
      BY <3>1, Bases, Products
  <2> DEFINE p == Nibble * Ten
             q == Nibble * hd
             n == Nibble * (Ten - 1 - hd)
  <2>3. /\ full = p - Nibble + Ten /\ n = p - Nibble - q /\ d = q + ld
        /\ p \in Int /\ q \in Int
    BY <2>1, <2>2, <1>1
  <2> HIDE DEF p, q, n, full
  <2>4. full - d - x = n + left
    BY <2>3, <1>2, Bases
  <2> QED
    BY <2>4 DEF n
<1>7. /\ first \in 0 .. square - 1 /\ first % square = first
      /\ LOW_NIBBLE(first) = left /\ HIGH_NIBBLE(first) = Nibble * high
      /\ Digit2(first) = Ten * high + left
  <2> HIDE DEF high, left
  <2> QED
    BY <1>5, TwoDigits
<1>8. first = full <=> d = 0 /\ x = 0
  <2>1. d \in Int /\ d >= 0 /\ full \in Int
    BY Bases DEF Highest
  <2> HIDE DEF first, full
  <2> QED
    BY <2>1, <1>2, <1>6
<1> DEFINE up == IF LOW_NIBBLE(first) = Ten
                 THEN (HIGH_NIBBLE(first) + Nibble) % square
                 ELSE first
<1>9. o = IF first = full
          THEN [value |-> d,
                ccr |-> [f EXCEPT !.X = FALSE, !.C = FALSE, !.V = FALSE, !.N = Top(first)]]
          ELSE [value |-> up,
                ccr |-> [X |-> TRUE, N |-> Top(up), V |-> ~Top(first) /\ Top(up),
                         C |-> TRUE, Z |-> f.Z /\ up = 0]]
  <2>1. (full - d - x) % square = first
    BY <1>6, <1>7
  <2> QED
    BY <2>1 DEF nbcd, x
<1> HIDE DEF o
<1>10. CASE first = full
  <2> DEFINE N == Top(first)
             no == FALSE
  <2>1. o = [value |-> d, ccr |-> [f EXCEPT !.X = no, !.C = no, !.V = no, !.N = N]]
    BY <1>9, <1>10
  <2>2. no \in BOOLEAN /\ ~no
    OBVIOUS
  <2> HIDE DEF N, no
  <2>3. [f EXCEPT !.X = no, !.C = no, !.V = no, !.N = N]
          = [X |-> no, N |-> N, Z |-> f.Z, V |-> no, C |-> no]
    BY OtherFour
  <2>4. o.value = d /\ o.ccr.X = no /\ o.ccr.C = no /\ o.ccr.Z = f.Z
    BY <2>1, <2>3
  <2>5. d = 0 /\ x = 0 /\ Digit2(d) = 0
    BY <1>8, <1>10, <1>3
  <2>6. /\ 0 \in 0 .. Ten * Ten - 1 /\ 0 = Into(0, Ten * Ten)
        /\ 0 - 0 - 0 = 0
    BY Bases DEF Into
  <2>7. /\ o.ccr.X \in BOOLEAN /\ o.ccr.C \in BOOLEAN /\ o.ccr.Z \in BOOLEAN
        /\ ~o.ccr.X /\ ~o.ccr.C /\ (o.ccr.Z <=> f.Z)
    BY <2>2, <2>4, Zenon
  <2>8. PartRight(o, 0, 0, Ten * Ten, f.Z)
    BY <2>6, <2>7 DEF PartRight
  <2>9. Digit2(o.value) = 0 /\ Digit2(0) - Digit2(d) - x = 0
    BY <2>4, <2>5, <2>6
  <2> QED
    BY <2>8, <2>9 DEF o, x
<1>11. CASE first # full
  <2> DEFINE top == IF left = Ten THEN high + 1 ELSE high
             low == IF left = Ten THEN 0 ELSE left
             most == top - Ten
  <2>1. top \in 0 .. Ten - 1 /\ low \in 0 .. Ten - 1
    <3>1. left = Ten => hd # 0
      <4>1. left = Ten /\ hd = 0 => ld = 0 /\ x = 0 /\ d = 0
        BY <1>1, <1>2, Bases
      <4> HIDE DEF left
      <4> QED
        BY <4>1, <1>8, <1>11
    <3>2. high = Ten - 1 - hd
      OBVIOUS
    <3> HIDE DEF left, high
    <3> QED
      BY <3>1, <3>2, <1>4, Bases
  <2>2. most \in -Ten .. 2 * Ten - 1 /\ Into(most, Ten) = top /\ most \notin 0 .. Ten - 1
    BY <2>1, Bases DEF Into
  <2>3. up = Nibble * top + low
    <3>1. left = Ten => Nibble * high + Nibble = Nibble * top + low
      BY <1>4, Bases
    <3>2. (Nibble * top + low) % square = Nibble * top + low
      <4>1. top \in 0 .. Nibble - 1 /\ low \in 0 .. Nibble - 1
        BY <2>1, Bases
      <4> HIDE DEF top, low
      <4> QED
        BY <4>1, TwoDigits
    <3>3. left # Ten => first = Nibble * top + low
      OBVIOUS
    <3>4. up = IF left = Ten THEN (Nibble * high + Nibble) % square ELSE first
      BY <1>7
    <3> HIDE DEF up, first, top, low, left, high, square
    <3> QED
      BY <3>1, <3>2, <3>3, <3>4
  <2>4. Ten * most + low = Digit2(0) - Digit2(d) - x
    <3>1. Ten * most + low = left - Ten - Ten * hd
      <4>1. most = IF left = Ten THEN -hd ELSE -1 - hd
        BY Bases
      <4>2. /\ Ten * (0 - hd) = Ten * 0 - Ten * hd
            /\ Ten * (0 - 1 - hd) = Ten * (0 - 1) - Ten * hd
            /\ Ten * (0 - 1) = Ten * 0 - Ten * 1
            /\ Ten * 0 = 0 /\ Ten * 1 = Ten /\ Ten * hd \in Int
        <5>1. Ten * (0 - hd) = Ten * 0 - Ten * hd /\ Ten * hd \in Int
          BY Bases, Products
        <5> DEFINE one == 0 - 1
        <5>2. one \in Int /\ hd \in Int
          OBVIOUS
        <5>3. Ten * one = Ten * 0 - Ten * 1 /\ Ten * 0 = 0 /\ Ten * 1 = Ten
          BY Bases
        <5> HIDE DEF one
        <5>4. Ten * (one - hd) = Ten * one - Ten * hd
          BY <5>2, Bases, Products
        <5> QED
          BY <5>1, <5>3, <5>4 DEF one
      <4>3. -hd = 0 - hd /\ -1 - hd = 0 - 1 - hd
        OBVIOUS
      <4> DEFINE p == Ten * hd
      <4>4. Ten * most = (IF left = Ten THEN -p ELSE -Ten - p) /\ p \in Int
        BY <4>1, <4>2, <4>3, Bases
      <4> HIDE DEF most, left, p
      <4>5. Ten * most + low = left - Ten - p
        BY <4>4, <1>4, Bases
      <4> QED
        BY <4>5 DEF p
    <3> DEFINE p == Ten * hd
    <3>2. p \in Int
      BY Bases
    <3> HIDE DEF p
    <3>3. left - Ten - p = 0 - (p + ld) - x
      BY <3>2, <1>2, Bases
    <3> QED
      BY <3>1, <3>3, <1>3 DEF p
  <2> DEFINE N == Top(up)
             V == ~Top(first) /\ Top(up)
             Z == f.Z /\ up = 0
             yes == TRUE
  <2>5. o = [value |-> up, ccr |-> [X |-> yes, N |-> N, V |-> V, C |-> yes, Z |-> Z]]
    BY <1>9, <1>11
  <2>6. yes \in BOOLEAN /\ yes /\ Z \in BOOLEAN /\ (Z <=> f.Z /\ up = 0)
    OBVIOUS
  <2> HIDE DEF N, V, Z, yes, up, top, low, most
  <2>7. o.value = up /\ o.ccr.X = yes /\ o.ccr.C = yes /\ o.ccr.Z = Z
    BY <2>5, Outcome
  <2>8. /\ o.ccr.X \in BOOLEAN /\ o.ccr.C \in BOOLEAN /\ o.ccr.Z \in BOOLEAN
        /\ o.ccr.X /\ o.ccr.C /\ (o.ccr.Z <=> f.Z /\ o.value = 0)
    BY <2>6, <2>7, Zenon
  <2>9. o.value = Nibble * Into(most, Ten) + low
    BY <2>2, <2>3, <2>7
  <2>10. PartRight(o, Digit2(o.value), Ten * most + low, Ten * Ten, f.Z)
    BY <2>1, <2>2, <2>8, <2>9, DigitsRight
  <2> QED
    BY <2>4, <2>10 DEF o, x
<1> QED
  BY <1>10, <1>11

-----------------------------------------------------------------------------
(* The chain.                                                              *)

(* What a chain is to compute.                                             *)
Exact(j, a0, b0, e) == IF Adds(j) THEN b0 + a0 + e ELSE b0 - a0 - e

TakenIn(j) == IF j.op \in Decimals THEN AsOne(j.x) ELSE 0

LEMMA DecimalPart ==
  ASSUME NEW j \in Jobs, j.op \in Decimals, NEW k, NEW f,
         f.X \in BOOLEAN, f.Z \in BOOLEAN,
         j.op = "nbcd" => f = [X |-> f.X, N |-> f.N, Z |-> f.Z, V |-> f.V, C |-> f.C],
         NEW s \in 0 .. Nibble * Nibble - 1, Valid(s),
         NEW d \in 0 .. Nibble * Nibble - 1, Valid(d) \/ Unary(j),
         Unary(j) => d = 0
  PROVE  LET o == AnyPart(j, s, d, k, f)
         IN  PartRight(o, Digit2(o.value), Total(j, Digit2(s), Digit2(d), AsOne(f.X)),
                       Ten * Ten, f.Z)
<1>1. CASE j.op = "abcd"
  <2>1. /\ AnyPart(j, s, d, k, f) = abcd(s, d, f) /\ Valid(d)
        /\ Total(j, Digit2(s), Digit2(d), AsOne(f.X)) = Digit2(d) + Digit2(s) + AsOne(f.X)
    BY <1>1 DEF AnyPart, Total, Adds, Unary
  <2>2. PartRight(abcd(s, d, f), Digit2(abcd(s, d, f).value),
                  Digit2(d) + Digit2(s) + AsOne(f.X), Ten * Ten, f.Z)
    BY <2>1, AbcdRight
  <2> QED
    BY <2>1, <2>2
<1>2. CASE j.op = "sbcd"
  <2>1. /\ AnyPart(j, s, d, k, f) = sbcd(s, d, f) /\ Valid(d)
        /\ Total(j, Digit2(s), Digit2(d), AsOne(f.X)) = Digit2(d) - Digit2(s) - AsOne(f.X)
    BY <1>2 DEF AnyPart, Total, Adds, Unary
  <2>2. PartRight(sbcd(s, d, f), Digit2(sbcd(s, d, f).value),
                  Digit2(d) - Digit2(s) - AsOne(f.X), Ten * Ten, f.Z)
    BY <2>1, SbcdRight
  <2> QED
    BY <2>1, <2>2
<1>3. CASE j.op = "nbcd"
  <2>1. /\ AnyPart(j, s, d, k, f) = nbcd(s, f) /\ d = 0
        /\ Total(j, Digit2(s), Digit2(d), AsOne(f.X)) = Digit2(0) - Digit2(s) - AsOne(f.X)
    BY <1>3 DEF AnyPart, Total, Adds, Unary
  <2>2. PartRight(nbcd(s, f), Digit2(nbcd(s, f).value),
                  Digit2(0) - Digit2(s) - AsOne(f.X), Ten * Ten, f.Z)
    BY <1>3, NbcdRight
  <2> QED
    BY <2>1, <2>2
<1> QED
  BY <1>1, <1>2, <1>3 DEF Decimals

(* The digits of a part, or its value, are a number below Base.            *)
LEMMA PartNumbers ==
  ASSUME NEW j \in Jobs, j.what = "chain", NEW k, NEW s \in PartValues(j, k)
  PROVE  /\ Number(j, s) \in 0 .. Base(j) - 1
         /\ Base(j) \in Nat \ {0}
         /\ j.op \in Decimals => s \in 0 .. Nibble * Nibble - 1 /\ Valid(s)
                                 /\ Number(j, s) = Digit2(s)
         /\ j.op \notin Decimals => s \in Values(Half(j.size)) /\ Number(j, s) = s
<1>1. CASE j.op \in Decimals
  <2>1. s \in 0 .. Nibble * Nibble - 1 /\ Valid(s)
    BY <1>1, ArithmeticAssumption DEF PartValues
  <2>2. PICK hi \in 0 .. Ten - 1, lo \in 0 .. Ten - 1 : s = Nibble * hi + lo
    BY <2>1, ValidByte
  <2>3. hi \in 0 .. Nibble - 1 /\ lo \in 0 .. Nibble - 1
    BY Bases
  <2>4. Digit2(s) = Ten * hi + lo
    BY <2>2, <2>3, TwoDigits
  <2>5. lo + Ten * hi \in 0 .. Ten * Ten - 1 /\ Ten * Ten \in Nat \ {0}
    BY Bases, PartFits
  <2>6. Ten * hi + lo = lo + Ten * hi
    BY Bases
  <2> QED
    BY <1>1, <2>1, <2>4, <2>5, <2>6 DEF Number, Base
<1>2. CASE j.op \notin Decimals
  <2>1. Half(j.size) \in Nat \ {0}
    BY JobSizes, HalfPositive
  <2>2. s \in Values(Half(j.size)) /\ Number(j, s) = s /\ Base(j) = 2 * Half(j.size)
    BY <1>2 DEF PartValues, Number, Base
  <2> QED
    BY <1>2, <2>1, <2>2 DEF Values
<1> QED
  BY <1>1, <1>2

(* One part, of whichever kind.                                            *)
LEMMA AnyPartRight ==
  ASSUME NEW j \in Jobs, j.what = "chain", NEW k, NEW f,
         f.X \in BOOLEAN, f.Z \in BOOLEAN, k = 0 => f.Z,
         j.op = "nbcd" => f = [X |-> f.X, N |-> f.N, Z |-> f.Z, V |-> f.V, C |-> f.C],
         NEW s \in PartValues(j, k), NEW d \in IF Unary(j) THEN {0} ELSE PartValues(j, k)
  PROVE  LET o == AnyPart(j, s, d, k, f)
             x == AsOne(First(j, k, f).X)
             h == Half(j.size)
         IN  /\ Number(j, d) \in 0 .. Base(j) - 1
             /\ PartRight(o, Number(j, o.value),
                          Total(j, Number(j, s), Number(j, d), x), Base(j), f.Z)
             /\ j.op \in Binary =>
                   SignRight(o, SignedTotal(j, Number(j, s), Number(j, d), x, h), h)
<1> DEFINE o == AnyPart(j, s, d, k, f)
<1>1. /\ Number(j, s) \in 0 .. Base(j) - 1
      /\ Base(j) \in Nat \ {0}
      /\ j.op \in Decimals => s \in 0 .. Nibble * Nibble - 1 /\ Valid(s)
                              /\ Number(j, s) = Digit2(s)
      /\ j.op \notin Decimals => s \in Values(Half(j.size)) /\ Number(j, s) = s
  BY PartNumbers
<1>2. CASE j.op \in Decimals
  <2>1. d \in 0 .. Nibble * Nibble - 1 /\ (Valid(d) \/ Unary(j)) /\ (Unary(j) => d = 0)
    <3>1. CASE Unary(j)
      <4>1. d = 0
        BY <3>1
      <4> QED
        BY <3>1, <4>1, Bases
    <3>2. CASE ~Unary(j)
      <4>1. d \in PartValues(j, k)
        BY <3>2
      <4> QED
        BY <1>2, <3>2, <4>1, PartNumbers
    <3> QED
      BY <3>1, <3>2
  <2>2. PartRight(o, Digit2(o.value), Total(j, Digit2(s), Digit2(d), AsOne(f.X)),
                  Ten * Ten, f.Z)
    BY <1>1, <1>2, <2>1, DecimalPart
  <2>3. First(j, k, f) = f /\ Base(j) = Ten * Ten /\ j.op \notin Binary
    BY <1>2 DEF First, Base, Decimals, Binary
  <2>4. Number(j, o.value) = Digit2(o.value) /\ Number(j, s) = Digit2(s)
        /\ Number(j, d) = Digit2(d)
    BY <1>2 DEF Number
  <2>5. Number(j, d) \in 0 .. Base(j) - 1
    <3>1. CASE Unary(j)
      <4>1. Digit2(Nibble * 0 + 0) = Ten * 0 + 0 /\ Nibble * 0 + 0 = 0 /\ Ten * 0 + 0 = 0
        <5>1. 0 \in 0 .. Nibble - 1
          BY Bases
        <5> QED
          BY <5>1, Bases, TwoDigits
      <4>2. Digit2(d) = 0
        BY <2>1, <3>1, <4>1
      <4> QED
        BY <1>1, <2>4, <4>2
    <3>2. CASE ~Unary(j)
      BY <3>2, PartNumbers
    <3> QED
      BY <3>1, <3>2
  <2> QED
    BY <2>2, <2>3, <2>4, <2>5
<1>3. CASE j.op \notin Decimals
  <2>1. j.op \in Binary
    BY <1>3 DEF Jobs
  <2>2. Half(j.size) \in Nat \ {0}
    BY JobSizes, HalfPositive
  <2>3. d \in Values(Half(j.size)) /\ (Unary(j) => d = 0)
    <3>1. CASE Unary(j)
      <4>1. d = 0
        BY <3>1
      <4> QED
        BY <2>2, <4>1 DEF Values
    <3>2. CASE ~Unary(j)
      BY <3>2, <1>3, PartNumbers
    <3> QED
      BY <3>1, <3>2
  <2>4. s \in Values(Half(j.size))
    BY <1>1, <1>3
  <2>5. /\ PartRight(o, o.value, Total(j, s, d, AsOne(First(j, k, f).X)),
                     2 * Half(j.size), f.Z)
        /\ SignRight(o, SignedTotal(j, s, d, AsOne(First(j, k, f).X), Half(j.size)),
                     Half(j.size))
    BY <2>1, <2>3, <2>4, BinaryPart
  <2>6. Number(j, o.value) = o.value /\ Number(j, s) = s /\ Number(j, d) = d
        /\ Base(j) = 2 * Half(j.size)
    BY <1>3 DEF Number, Base
  <2>7. d \in 0 .. Base(j) - 1
    BY <2>2, <2>3, <2>6 DEF Values
  <2> QED
    BY <2>5, <2>6, <2>7
<1> QED
  BY <1>2, <1>3

-----------------------------------------------------------------------------
(* An exact number and its place in a range, one part further.             *)
LEMMA WholeGrows ==
  ASSUME NEW R \in Nat \ {0}, NEW B \in Nat \ {0}, NEW r0 \in 0 .. R - 1,
         NEW total \in Int, Into(total, B) \in 0 .. B - 1
  PROVE  /\ r0 + R * Into(total, B) = Into(r0 + R * total, R * B)
         /\ (r0 + R * total \in 0 .. R * B - 1 <=> total \in 0 .. B - 1)
<1> DEFINE p == R * total
           q == R * B
           v == Into(total, B)
<1>1. /\ p \in Int /\ q \in Int
      /\ (total < 0 => p + R <= 0)
      /\ (total >= 0 => p >= 0)
      /\ (total < B => p + R <= q)
      /\ (total >= B => p >= q)
      /\ R * (total + B) = p + q
      /\ R * (total - B) = p - q
  <2>1. /\ R * total \in Int /\ R * B \in Int
        /\ (total < 0 => R * total + R <= R * 0) /\ R * 0 = 0
        /\ (total >= 0 => R * total >= 0)
        /\ (total < B => R * total + R <= R * B)
        /\ R * (total + B) = R * total + R * B
        /\ R * (total - B) = R * total - R * B
    BY Products
  <2>2. total - B >= 0 => R * (total - B) >= 0
    BY Products
  <2> DEFINE n == R * (total - B)
  <2>3. n = p - q /\ (total - B >= 0 => n >= 0) /\ p \in Int /\ q \in Int
    BY <2>1, <2>2
  <2>4. total >= B => p >= q
    <3> HIDE DEF n, p, q
    <3> QED
      BY <2>3
  <2> QED
    BY <2>1, <2>4
<1>2. R * v = IF total < 0 THEN p + q ELSE IF total < B THEN p ELSE p - q
  BY <1>1 DEF Into
<1> DEFINE w == R * v
<1>3. w = IF total < 0 THEN p + q ELSE IF total < B THEN p ELSE p - q
  BY <1>2
<1> HIDE DEF p, q, v, w
<1>4. r0 + w = Into(r0 + p, q)
  BY <1>1, <1>3 DEF Into
<1>5. r0 + p \in 0 .. q - 1 <=> total \in 0 .. B - 1
  BY <1>1
<1> QED
  BY <1>4, <1>5 DEF p, q, v, w

(* The exact number is the one in the range and the carry, or the borrow.  *)
LEMMA ExactIs ==
  ASSUME NEW R \in Nat \ {0}, NEW a0 \in 0 .. R - 1, NEW b0 \in 0 .. R - 1,
         NEW e \in 0 .. 1, NEW j, NEW x \in 0 .. 1,
         x = 1 <=> Exact(j, a0, b0, e) \notin 0 .. R - 1
  PROVE  /\ Adds(j) => Exact(j, a0, b0, e) = Into(Exact(j, a0, b0, e), R) + R * x
         /\ ~Adds(j) => Exact(j, a0, b0, e) = Into(Exact(j, a0, b0, e), R) - R * x
<1>1. R * x = IF x = 1 THEN R ELSE 0
  BY Products
<1> QED
  BY <1>1 DEF Exact, Into

LEMMA ExactGrows ==
  ASSUME NEW R \in Nat \ {0}, NEW a0 \in 0 .. R - 1, NEW b0 \in 0 .. R - 1,
         NEW e \in 0 .. 1, NEW j, NEW x \in 0 .. 1, NEW s \in Int, NEW d \in Int,
         x = 1 <=> Exact(j, a0, b0, e) \notin 0 .. R - 1
  PROVE  /\ Exact(j, a0 + R * s, b0 + R * d, e)
               = Into(Exact(j, a0, b0, e), R) + R * Total(j, s, d, x)
         /\ Total(j, s, d, x) \in Int
<1> DEFINE p == R * s
           q == R * d
           n == R * x
           r0 == Into(Exact(j, a0, b0, e), R)
<1>1. p \in Int /\ q \in Int /\ n \in Int
  BY Products
<1>2. (Adds(j) => Exact(j, a0, b0, e) = r0 + n) /\ (~Adds(j) => Exact(j, a0, b0, e) = r0 - n)
  BY ExactIs
<1>3. R * (d + s + x) = q + p + n /\ R * (d - s - x) = q - p - n
  <2>1. R * (d + s) = R * d + R * s /\ R * (d - s) = R * d - R * s
    BY Products
  <2>2. d + s \in Int /\ d - s \in Int
    OBVIOUS
  <2>3. R * (d + s + x) = R * (d + s) + R * x /\ R * (d - s - x) = R * (d - s) - R * x
    BY <2>2, Products
  <2> QED
    BY <2>1, <2>3
<1>4. Exact(j, a0, b0, e) \in Int /\ r0 \in Int
  BY DEF Exact, Into
<1> HIDE DEF p, q, n, r0
<1>5. CASE Adds(j)
  <2>1. b0 + a0 + e = r0 + n
    BY <1>2, <1>5 DEF Exact
  <2>2. (b0 + q) + (a0 + p) + e = r0 + (q + p + n)
    BY <1>1, <1>4, <2>1
  <2>3. Exact(j, a0 + p, b0 + q, e) = (b0 + q) + (a0 + p) + e /\ Total(j, s, d, x) = d + s + x
    BY <1>5 DEF Exact, Total
  <2> QED
    BY <1>3, <2>2, <2>3 DEF p, q, r0
<1>6. CASE ~Adds(j)
  <2>1. b0 - a0 - e = r0 - n
    BY <1>2, <1>6 DEF Exact
  <2>2. (b0 + q) - (a0 + p) - e = r0 + (q - p - n)
    BY <1>1, <1>4, <2>1
  <2>3. Exact(j, a0 + p, b0 + q, e) = (b0 + q) - (a0 + p) - e /\ Total(j, s, d, x) = d - s - x
    BY <1>6 DEF Exact, Total
  <2> QED
    BY <1>3, <2>2, <2>3 DEF p, q, r0
<1> QED
  BY <1>5, <1>6

(* The same for the signed reading, which takes in nothing.                *)
LEMMA SignedGrows ==
  ASSUME NEW R \in Nat \ {0}, NEW h \in Nat \ {0},
         NEW a0 \in 0 .. R - 1, NEW b0 \in 0 .. R - 1, NEW j, NEW x \in 0 .. 1,
         NEW s \in 0 .. 2 * h - 1, NEW d \in 0 .. 2 * h - 1,
         x = 1 <=> Exact(j, a0, b0, 0) \notin 0 .. R - 1
  PROVE  /\ SignedTotal(j, a0 + R * s, b0 + R * d, 0, R * h)
               = Into(Exact(j, a0, b0, 0), R) + R * SignedTotal(j, s, d, x, h)
         /\ SignedTotal(j, s, d, x, h) \in Int
<1> DEFINE ss == Signed(s, h)
           sd == Signed(d, h)
<1>1. /\ ss \in Int /\ Signed(a0 + R * s, R * h) = a0 + R * ss
      /\ sd \in Int /\ Signed(b0 + R * d, R * h) = b0 + R * sd
  <2>1. ss \in Int /\ Signed(a0 + R * s, R * h) = a0 + R * ss
    BY PartSigned
  <2>2. sd \in Int /\ Signed(b0 + R * d, R * h) = b0 + R * sd
    BY PartSigned
  <2> QED
    BY <2>1, <2>2
<1> HIDE DEF ss, sd
<1>2. /\ Exact(j, a0 + R * ss, b0 + R * sd, 0)
           = Into(Exact(j, a0, b0, 0), R) + R * Total(j, ss, sd, x)
      /\ Total(j, ss, sd, x) \in Int
  <2>1. 0 \in 0 .. 1
    OBVIOUS
  <2> QED
    BY <1>1, <2>1, ExactGrows
<1>3. SignedTotal(j, s, d, x, h) = Total(j, ss, sd, x)
  BY DEF SignedTotal, Total, ss, sd
<1>4. SignedTotal(j, a0 + R * s, b0 + R * d, 0, R * h) = Exact(j, a0 + R * ss, b0 + R * sd, 0)
  BY <1>1 DEF SignedTotal, Exact
<1> QED
  BY <1>2, <1>3, <1>4

(* What is true of a chain after any number of its parts.                  *)
ChainCarries ==
    LET exact == Exact(job, a, b, TakenIn(job))
    IN  /\ r = Into(exact, range)
        /\ (First(job, parts, ccr).X <=> exact \notin 0 .. range - 1)
        /\ (ccr.Z <=> r = 0)

ChainSigns ==
    \E half \in Nat \ {0} :
        /\ range = 2 * half
        /\ ccr.N \in BOOLEAN /\ ccr.V \in BOOLEAN
        /\ (ccr.N <=> r >= half)
        /\ (ccr.V <=> SignedTotal(job, a, b, 0, half) \notin -half .. half - 1)

ChainType ==
    /\ parts \in Nat /\ range \in Nat \ {0}
    /\ a \in 0 .. range - 1 /\ b \in 0 .. range - 1 /\ r \in 0 .. range - 1
    /\ ccr.X \in BOOLEAN /\ ccr.Z \in BOOLEAN /\ ccr.C \in BOOLEAN
    /\ job.op = "nbcd" =>
          ccr = [X |-> ccr.X, N |-> ccr.N, Z |-> ccr.Z, V |-> ccr.V, C |-> ccr.C]

ChainInv ==
    /\ job \in Jobs
    /\ job.what = "chain" =>
          /\ ChainType
          /\ ChainCarries
          /\ parts = 0 => ccr = Start(job.x)
          /\ parts > 0 => (ccr.C <=> ccr.X) /\ (job.op \in Binary => ChainSigns)

LEMMA ChainInit == Init => ChainInv
<1> SUFFICES ASSUME Init, job.what = "chain" PROVE ChainInv
  BY DEF Init, ChainInv
<1>1. /\ job \in Jobs /\ ccr = Start(job.x) /\ parts = 0 /\ range = 1 /\ a = 0 /\ b = 0 /\ r = 0
  BY DEF Init
<1>2. job.x \in BOOLEAN
  BY <1>1 DEF Jobs
<1>3. /\ ccr.X = job.x /\ ccr.Z = TRUE /\ ccr.C = FALSE
      /\ ccr = [X |-> ccr.X, N |-> ccr.N, Z |-> ccr.Z, V |-> ccr.V, C |-> ccr.C]
  BY <1>1 DEF Start
<1>4. ChainType
  <2>1. ccr.X \in BOOLEAN /\ ccr.Z \in BOOLEAN /\ ccr.C \in BOOLEAN
    BY <1>2, <1>3
  <2>2. /\ parts \in Nat /\ range \in Nat \ {0}
        /\ a \in 0 .. range - 1 /\ b \in 0 .. range - 1 /\ r \in 0 .. range - 1
    BY <1>1
  <2> QED
    BY <2>1, <2>2, <1>3 DEF ChainType
<1>5. Exact(job, a, b, TakenIn(job)) = IF Adds(job) THEN TakenIn(job) ELSE 0 - TakenIn(job)
  BY <1>1 DEF Exact, TakenIn, AsOne
<1>6. First(job, parts, ccr).X <=> TakenIn(job) = 1
  <2>1. CASE job.op \in Decimals
    <3>1. First(job, parts, ccr) = ccr /\ TakenIn(job) = AsOne(job.x)
      BY <2>1 DEF First, TakenIn, Decimals, Binary
    <3>2. AsOne(job.x) = 1 <=> job.x
      BY <1>2 DEF AsOne
    <3> QED
      BY <3>1, <3>2, <1>3
  <2>2. CASE job.op \notin Decimals
    <3>1. job.op \in Binary
      BY <1>1, <2>2 DEF Jobs
    <3> QED
      BY <1>1, <3>1, <2>2 DEF First, TakenIn, Start
  <2> QED
    BY <2>1, <2>2
<1>7. TakenIn(job) \in 0 .. 1
  BY DEF TakenIn, AsOne
<1>8. ChainCarries
  <2>1. (First(job, parts, ccr).X <=> Exact(job, a, b, TakenIn(job)) \notin 0 .. range - 1)
    BY <1>1, <1>5, <1>6, <1>7
  <2>2. r = Into(Exact(job, a, b, TakenIn(job)), range)
    BY <1>1, <1>5, <1>7 DEF Into
  <2> QED
    BY <2>1, <2>2, <1>1, <1>3 DEF ChainCarries
<1> QED
  BY <1>1, <1>4, <1>8 DEF ChainInv

(* The record keeps its form.                                              *)
LEMMA NbcdShape ==
  ASSUME NEW s, NEW f, f = [X |-> f.X, N |-> f.N, Z |-> f.Z, V |-> f.V, C |-> f.C]
  PROVE  LET g == nbcd(s, f).ccr
         IN  g = [X |-> g.X, N |-> g.N, Z |-> g.Z, V |-> g.V, C |-> g.C]
<1> DEFINE full == Highest + 1
           first == (full - s - AsOne(f.X)) % (Nibble * Nibble)
           up == IF LOW_NIBBLE(first) = Ten
                 THEN (HIGH_NIBBLE(first) + Nibble) % (Nibble * Nibble)
                 ELSE first
           no == FALSE
           yes == TRUE
           m == Top(first)
           n == Top(up)
           v == ~Top(first) /\ Top(up)
           z == f.Z /\ up = 0
           g == nbcd(s, f).ccr
<1>1. g = IF first = full THEN [f EXCEPT !.X = no, !.C = no, !.V = no, !.N = m]
          ELSE [X |-> yes, N |-> n, V |-> v, C |-> yes, Z |-> z]
  BY DEF nbcd
<1> HIDE DEF no, yes, m, n, v, z, g, up, first, full
<1>2. [f EXCEPT !.X = no, !.C = no, !.V = no, !.N = m]
        = [X |-> no, N |-> m, Z |-> f.Z, V |-> no, C |-> no]
  BY OtherFour
<1>3. first = full => g = [X |-> g.X, N |-> g.N, Z |-> g.Z, V |-> g.V, C |-> g.C]
  BY <1>1, <1>2
<1>4. first # full => g = [X |-> g.X, N |-> g.N, Z |-> g.Z, V |-> g.V, C |-> g.C]
  BY <1>1
<1> QED
  BY <1>3, <1>4 DEF g

LEMMA AddPartStep ==
  ASSUME ChainInv, AddPart
  PROVE  ChainInv'
<1> DEFINE F == First(job, parts, ccr)
           x == AsOne(F.X)
           e == TakenIn(job)
           h == Half(job.size)
           B == Base(job)
<1>1. /\ job \in Jobs /\ job.what = "chain" /\ ChainType /\ ChainCarries
      /\ parts = 0 => ccr = Start(job.x)
      /\ parts' = parts + 1 /\ job' = job /\ range' = range * B
  BY DEF ChainInv, AddPart
<1>2. PICK s \in PartValues(job, parts),
           d \in IF Unary(job) THEN {0} ELSE PartValues(job, parts) :
         LET o == AnyPart(job, s, d, parts, ccr)
         IN  /\ a' = a + range * Number(job, s)
             /\ b' = b + range * Number(job, d)
             /\ r' = r + range * Number(job, o.value)
             /\ ccr' = o.ccr
  BY DEF AddPart
<1> DEFINE o == AnyPart(job, s, d, parts, ccr)
           sn == Number(job, s)
           dn == Number(job, d)
           v == Number(job, o.value)
           total == Total(job, sn, dn, x)
<1>3. ccr.X \in BOOLEAN /\ ccr.Z \in BOOLEAN /\ (parts = 0 => ccr.Z)
  BY <1>1 DEF ChainType, Start
<1>4. job.op = "nbcd" =>
         ccr = [X |-> ccr.X, N |-> ccr.N, Z |-> ccr.Z, V |-> ccr.V, C |-> ccr.C]
  BY <1>1 DEF ChainType
<1>5. /\ sn \in 0 .. B - 1 /\ B \in Nat \ {0}
      /\ dn \in 0 .. B - 1
      /\ PartRight(o, v, total, B, ccr.Z)
      /\ job.op \in Binary => SignRight(o, SignedTotal(job, sn, dn, x, h), h)
  <2>1. sn \in 0 .. B - 1 /\ B \in Nat \ {0}
    BY <1>1, PartNumbers
  <2>2. /\ dn \in 0 .. B - 1
        /\ PartRight(o, v, total, B, ccr.Z)
        /\ job.op \in Binary => SignRight(o, SignedTotal(job, sn, dn, x, h), h)
    BY <1>1, <1>3, <1>4, AnyPartRight
  <2> QED
    BY <2>1, <2>2
<1>6. x \in 0 .. 1 /\ (x = 1 <=> F.X) /\ e \in 0 .. 1
  BY DEF AsOne, TakenIn
<1>7. /\ a' = a + range * sn /\ b' = b + range * dn /\ r' = r + range * v /\ ccr' = o.ccr
  BY <1>2
<1>8. job.op = "nbcd" => o.ccr = [X |-> o.ccr.X, N |-> o.ccr.N, Z |-> o.ccr.Z,
                                  V |-> o.ccr.V, C |-> o.ccr.C]
  <2>1. job.op = "nbcd" => o = nbcd(s, ccr)
    BY DEF AnyPart
  <2>2. job.op = "nbcd" => nbcd(s, ccr).ccr = [X |-> nbcd(s, ccr).ccr.X, N |-> nbcd(s, ccr).ccr.N,
                                Z |-> nbcd(s, ccr).ccr.Z,
                                V |-> nbcd(s, ccr).ccr.V, C |-> nbcd(s, ccr).ccr.C]
    BY <1>4, NbcdShape
  <2> HIDE DEF o
  <2> QED
    BY <2>1, <2>2
<1>9. Number(job', o.value) = v /\ TakenIn(job') = e
  BY <1>1
<1>10. job.op \in Binary => e = 0 /\ B = 2 * h /\ h \in Nat \ {0}
  BY <1>1, JobSizes, HalfPositive DEF TakenIn, Base, Binary, Decimals
<1> HIDE DEF o, sn, dn, v, total, x, e, h, B, F
<1> DEFINE exact == Exact(job, a, b, e)
<1>11. /\ range \in Nat \ {0} /\ a \in 0 .. range - 1 /\ b \in 0 .. range - 1
       /\ r \in 0 .. range - 1 /\ parts \in Nat
       /\ r = Into(exact, range)
       /\ (x = 1 <=> exact \notin 0 .. range - 1)
       /\ (ccr.Z <=> r = 0)
  BY <1>1, <1>6 DEF ChainType, ChainCarries, e, F
<1>12. /\ a' \in 0 .. range * B - 1 /\ b' \in 0 .. range * B - 1
       /\ r' \in 0 .. range * B - 1 /\ range * B \in Nat \ {0}
       /\ (r' = 0 <=> r = 0 /\ v = 0)
  <2>1. v \in 0 .. B - 1
    BY <1>5 DEF PartRight
  <2>2. a + range * sn \in 0 .. range * B - 1 /\ range * B \in Nat \ {0}
    BY <1>5, <1>11, PartFits
  <2>3. b + range * dn \in 0 .. range * B - 1
    BY <1>5, <1>11, PartFits
  <2>4. r + range * v \in 0 .. range * B - 1 /\ (r + range * v = 0 <=> r = 0 /\ v = 0)
    BY <2>1, <1>5, <1>11, PartFits
  <2> QED
    BY <1>7, <2>2, <2>3, <2>4
<1>13. /\ Exact(job, a', b', e) = r + range * total
       /\ total \in Int
  <2>1. /\ Exact(job, a + range * sn, b + range * dn, e)
             = Into(exact, range) + range * Total(job, sn, dn, x)
        /\ Total(job, sn, dn, x) \in Int
    <3>1. sn \in Int /\ dn \in Int
      BY <1>5
    <3> QED
      BY <3>1, <1>6, <1>11, ExactGrows
  <2> QED
    BY <2>1, <1>7, <1>11 DEF total
<1>14. /\ r' = Into(Exact(job, a', b', e), range * B)
       /\ (Exact(job, a', b', e) \in 0 .. range * B - 1 <=> total \in 0 .. B - 1)
  <2>1. v = Into(total, B) /\ Into(total, B) \in 0 .. B - 1
    BY <1>5 DEF PartRight
  <2>2. /\ r + range * Into(total, B) = Into(r + range * total, range * B)
        /\ (r + range * total \in 0 .. range * B - 1 <=> total \in 0 .. B - 1)
    <3>1. range \in Nat \ {0} /\ B \in Nat \ {0} /\ r \in 0 .. range - 1 /\ total \in Int
      BY <1>5, <1>11, <1>13
    <3> QED
      BY <3>1, <2>1, WholeGrows
  <2> QED
    BY <2>1, <2>2, <1>7, <1>13
<1>15. /\ ccr'.X \in BOOLEAN /\ ccr'.Z \in BOOLEAN /\ ccr'.C \in BOOLEAN
       /\ (ccr'.X <=> Exact(job, a', b', e) \notin 0 .. range * B - 1)
       /\ (ccr'.C <=> ccr'.X)
       /\ (ccr'.Z <=> r' = 0)
  <2>1. /\ o.ccr.X \in BOOLEAN /\ o.ccr.Z \in BOOLEAN /\ o.ccr.C \in BOOLEAN
        /\ (o.ccr.X <=> total \notin 0 .. B - 1) /\ (o.ccr.C <=> o.ccr.X)
        /\ (o.ccr.Z <=> ccr.Z /\ v = 0)
    BY <1>5 DEF PartRight
  <2> QED
    BY <2>1, <1>7, <1>11, <1>12, <1>14
<1>16. ChainType'
  BY <1>1, <1>7, <1>8, <1>11, <1>12, <1>15 DEF ChainType
<1>17. ChainCarries'
  <2>1. First(job', parts', ccr') = ccr'
    <3>1. parts' # 0
      BY <1>1, <1>11
    <3> QED
      BY <3>1 DEF First
  <2>2. Exact(job', a', b', TakenIn(job')) = Exact(job, a', b', e)
    BY <1>1, <1>9
  <2> QED
    BY <2>1, <2>2, <1>1, <1>14, <1>15 DEF ChainCarries
<1>18. ASSUME job.op \in Binary PROVE ChainSigns'
  <2> DEFINE half == range * h
             st == SignedTotal(job, sn, dn, x, h)
  <2>1. /\ e = 0 /\ B = 2 * h /\ h \in Nat \ {0}
        /\ sn \in 0 .. 2 * h - 1 /\ dn \in 0 .. 2 * h - 1 /\ v \in 0 .. 2 * h - 1
    BY <1>5, <1>10, <1>18 DEF PartRight
  <2>2. /\ range * B = 2 * half /\ half \in Nat \ {0}
        /\ (r + range * v >= half <=> v >= h)
    BY <2>1, <1>11, PartSigned, ZenonT(40)
  <2>3. /\ SignedTotal(job, a', b', 0, half) = r + range * st
        /\ st \in Int
    <3>1. /\ SignedTotal(job, a + range * sn, b + range * dn, 0, range * h)
              = Into(Exact(job, a, b, 0), range) + range * SignedTotal(job, sn, dn, x, h)
          /\ SignedTotal(job, sn, dn, x, h) \in Int
      <4>1. x = 1 <=> Exact(job, a, b, 0) \notin 0 .. range - 1
        BY <1>11, <2>1
      <4> QED
        BY <4>1, <2>1, <1>6, <1>11, SignedGrows
    <3> QED
      BY <3>1, <2>1, <1>7, <1>11
  <2>4. r + range * st \in -half .. half - 1 <=> st \in -h .. h - 1
    BY <2>1, <2>3, <1>11, PartOverflow
  <2>5. /\ o.ccr.N \in BOOLEAN /\ o.ccr.V \in BOOLEAN
        /\ (o.ccr.N <=> o.value >= h)
        /\ (o.ccr.V <=> st \notin -h .. h - 1)
    BY <1>5, <1>18 DEF SignRight
  <2>6. v = o.value
    BY <1>18 DEF v, Number, Binary, Decimals
  <2> HIDE DEF half, st
  <2>7. /\ ccr'.N \in BOOLEAN /\ ccr'.V \in BOOLEAN
        /\ (ccr'.N <=> r' >= half)
        /\ (ccr'.V <=> SignedTotal(job, a', b', 0, half) \notin -half .. half - 1)
    BY <2>2, <2>3, <2>4, <2>5, <2>6, <1>7
  <2>8. range' = 2 * half /\ half \in Nat \ {0}
    BY <2>2, <1>1
  <2> QED
    BY <2>7, <2>8, <1>1 DEF ChainSigns
<1> QED
  BY <1>1, <1>11, <1>15, <1>16, <1>17, <1>18 DEF ChainInv

LEMMA ChainStep == ChainInv /\ [Next]_vars => ChainInv'
<1> SUFFICES ASSUME ChainInv, [Next]_vars PROVE ChainInv'
  OBVIOUS
<1>1. CASE AddPart
  BY <1>1, AddPartStep
<1>2. CASE Compare \/ ShiftFurther \/ Divide \/ Rebuild
  BY <1>2 DEF Compare, ShiftFurther, Divide, Rebuild, ChainInv
<1>3. CASE UNCHANGED vars
  BY <1>3 DEF vars, ChainInv, ChainType, ChainCarries, ChainSigns
<1> QED
  BY <1>1, <1>2, <1>3 DEF Next

LEMMA ChainComputes == ChainInv => MultiPrecision
<1> SUFFICES ASSUME ChainInv, job.what = "chain", parts > 0
             PROVE  MultiPrecision
  BY DEF MultiPrecision
<1> DEFINE e == TakenIn(job)
           exact == Exact(job, a, b, e)
           half == range \div 2
<1>1. /\ job \in Jobs /\ ChainType /\ ChainCarries /\ (ccr.C <=> ccr.X)
      /\ job.op \in Binary => ChainSigns
  BY DEF ChainInv
<1>2. /\ range \in Nat \ {0} /\ a \in 0 .. range - 1 /\ b \in 0 .. range - 1
      /\ r \in 0 .. range - 1
      /\ ccr.X \in BOOLEAN /\ ccr.Z \in BOOLEAN /\ ccr.C \in BOOLEAN
      /\ r = Into(exact, range) /\ (ccr.Z <=> r = 0)
      /\ (ccr.X <=> exact \notin 0 .. range - 1)
  <2>1. parts # 0
    BY <1>1 DEF ChainType
  <2>2. First(job, parts, ccr) = ccr
    BY <2>1 DEF First
  <2> QED
    BY <2>2, <1>1 DEF ChainType, ChainCarries
<1>3. e \in 0 .. 1
  BY DEF TakenIn, AsOne
<1> HIDE DEF e
<1>4. exact \in Int /\ -range <= exact /\ exact < 2 * range
  BY <1>2, <1>3 DEF Exact
<1>5. r = exact % range
  <2> HIDE DEF exact
  <2>1. \A y \in 0 .. range - 1 :
           y % range = y /\ (y + range) % range = y /\ (y - range) % range = y
    BY <1>2
  <2>2. exact = r \/ exact = r + range \/ exact = r - range
    BY <1>2, <1>4 DEF Into
  <2> QED
    BY <1>2, <2>1, <2>2
<1>6. job.op \in Binary =>
         /\ ccr.N = (r >= half)
         /\ ccr.V = (SignedTotal(job, a, b, 0, half) \notin -half .. half - 1)
  <2> SUFFICES ASSUME job.op \in Binary
               PROVE  /\ ccr.N = (r >= half)
                      /\ ccr.V = (SignedTotal(job, a, b, 0, half) \notin -half .. half - 1)
    OBVIOUS
  <2>1. PICK n \in Nat \ {0} :
           /\ range = 2 * n
           /\ ccr.N \in BOOLEAN /\ ccr.V \in BOOLEAN
           /\ (ccr.N <=> r >= n)
           /\ (ccr.V <=> SignedTotal(job, a, b, 0, n) \notin -n .. n - 1)
    BY <1>1 DEF ChainSigns
  <2>2. half = n
    BY <2>1
  <2>3. (r >= n) \in BOOLEAN
    BY <1>2, <2>1
  <2>4. ccr.N = (r >= n)
    BY <2>1, <2>3
  <2>5. ccr.V = (SignedTotal(job, a, b, 0, n) \notin -n .. n - 1)
    BY <2>1
  <2> QED
    BY <2>2, <2>4, <2>5
<1>7. /\ ccr.X = (exact \notin 0 .. range - 1) /\ ccr.C = ccr.X /\ ccr.Z = (r = 0)
  BY <1>1, <1>2
<1>8. exact = IF job.op \in {"add", "abcd"} THEN b + a + e ELSE b - a - e
  BY DEF Exact, Adds
<1>9. job.op \in Binary =>
        SignedTotal(job, a, b, 0, half) =
            IF job.op = "add" THEN Signed(b, half) + Signed(a, half)
            ELSE Signed(b, half) - Signed(a, half)
  <2>1. half \in Int
    BY <1>2
  <2> HIDE DEF half
  <2>2. Signed(a, half) \in Int /\ Signed(b, half) \in Int
    BY <1>2, <2>1 DEF Signed
  <2> QED
    BY <2>2 DEF SignedTotal, Adds, Binary
<1> HIDE DEF exact, half
<1> DEFINE x == IF job.op \in Decimals THEN AsOne(job.x) ELSE 0
           whole == IF job.op \in {"add", "abcd"} THEN b + a + x ELSE b - a - x
           signed == IF job.op = "add" THEN Signed(b, half) + Signed(a, half)
                     ELSE Signed(b, half) - Signed(a, half)
<1>10. whole = exact
  BY <1>8 DEF e, TakenIn
<1>11. job.op \in Binary => ccr.V = (signed \notin -half .. half - 1)
  <2> HIDE DEF signed
  <2>1. job.op \in Binary => SignedTotal(job, a, b, 0, half) = signed
    BY <1>9 DEF signed
  <2> QED
    BY <2>1, <1>6
<1> HIDE DEF whole, signed
<1>12. /\ r = whole % range
       /\ ccr.X = (whole \notin 0 .. range - 1)
       /\ ccr.C = ccr.X
       /\ ccr.Z = (r = 0)
       /\ job.op \in Binary =>
            /\ ccr.N = (r >= half)
            /\ ccr.V = (signed \notin -half .. half - 1)
  BY <1>5, <1>6, <1>7, <1>10, <1>11
<1> QED
  BY <1>12 DEF MultiPrecision, whole, signed, half

(* Whatever the widths and the number of parts: a chain of parts computes  *)
(* the whole number, X and C tell whether it went past its range, Z        *)
(* whether all of it is zero, and in binary N and V are those of the whole.*)
THEOREM ChainsAreExact == Spec => []MultiPrecision
  BY ChainInit, ChainStep, ChainComputes, PTL DEF Spec

-----------------------------------------------------------------------------
(* Divisions                                                               *)

(* A number keeps its value when it is wrapped and read signed again.      *)
LEMMA SignedOfWrap ==
  ASSUME NEW h \in Nat \ {0}, NEW x \in -h .. h - 1
  PROVE  Wrap(x, h) \in Values(h) /\ Signed(Wrap(x, h), h) = x
<1>1. Wrap(x, h) = IF x < 0 THEN x + 2 * h ELSE IF x < 2 * h THEN x ELSE x - 2 * h
  BY WrapOf
<1> DEFINE w == Wrap(x, h)
<1>2. w = IF x < 0 THEN x + 2 * h ELSE x
  BY <1>1
<1> HIDE DEF w
<1>3. w \in 0 .. 2 * h - 1 /\ (w >= h <=> x < 0)
  BY <1>2
<1>4. Signed(w, h) = x
  BY <1>2, <1>3 DEF Signed
<1> QED
  BY <1>3, <1>4 DEF w, Values

LEMMA WrapOfSigned ==
  ASSUME NEW h \in Nat \ {0}, NEW d \in Values(h)
  PROVE  Signed(d, h) \in -h .. h - 1 /\ Wrap(Signed(d, h), h) = d /\ Wrap(d, h) = d
<1>1. d \in Int /\ d >= 0 /\ d < 2 * h
  BY DEF Values
<1>2. Signed(d, h) \in -h .. h - 1 /\ Signed(d, h) = IF d >= h THEN d - 2 * h ELSE d
  BY <1>1 DEF Signed
<1> DEFINE x == Signed(d, h)
<1> HIDE DEF x
<1>3. Wrap(x, h) = IF x < 0 THEN x + 2 * h ELSE IF x < 2 * h THEN x ELSE x - 2 * h
  <2>1. x \in Int /\ -2 * h <= x /\ x < 4 * h
    BY <1>2 DEF x
  <2> QED
    BY <2>1, WrapOf
<1>4. Wrap(x, h) = d
  BY <1>1, <1>2, <1>3 DEF x
<1>5. Wrap(d, h) = IF d < 0 THEN d + 2 * h ELSE IF d < 2 * h THEN d ELSE d - 2 * h
  <2>1. -2 * h <= d /\ d < 4 * h
    BY <1>1
  <2> QED
    BY <1>1, <2>1, WrapOf
<1> QED
  BY <1>1, <1>2, <1>4, <1>5 DEF x

(* A sum may be wrapped before and after.                                  *)
LEMMA ModSum ==
  ASSUME NEW n \in Nat \ {0}, NEW x \in Int, NEW y \in Int
  PROVE  ((x % n) + (y % n)) % n = (x + y) % n
<1> DEFINE p == x \div n
           q == y \div n
           t == (x % n) + (y % n)
           u == t \div n
           m == t % n
<1>1. p \in Int /\ q \in Int /\ (x % n) \in Int /\ (y % n) \in Int
      /\ x = n * p + (x % n) /\ y = n * q + (y % n)
  BY DivMod
<1>2. t \in Int
  BY <1>1
<1> HIDE DEF p, q, t
<1>3. u \in Int /\ m \in 0 .. n - 1 /\ t = n * u + m
  BY <1>2, DivMod
<1> HIDE DEF u, m
<1>4. n * (p + q + u) = n * p + n * q + n * u
  <2>1. p + q \in Int /\ n * (p + q) = n * p + n * q
    BY <1>1, Products
  <2>2. n * ((p + q) + u) = n * (p + q) + n * u
    BY <2>1, <1>3, Products
  <2> QED
    BY <2>1, <2>2
<1>5. x + y = n * (p + q + u) + m
  <2>1. n * p \in Int /\ n * q \in Int /\ n * u \in Int
    BY <1>1, <1>3, Products
  <2> DEFINE np == n * p
             nq == n * q
             nu == n * u
             all == n * (p + q + u)
             xm == x % n
             ym == y % n
  <2>2. /\ x = np + xm /\ y = nq + ym /\ t = nu + m /\ t = xm + ym /\ all = np + nq + nu
        /\ np \in Int /\ nq \in Int /\ nu \in Int /\ xm \in Int /\ ym \in Int /\ m \in Int
    BY <1>1, <1>3, <1>4, <2>1 DEF t
  <2> HIDE DEF np, nq, nu, all, xm, ym
  <2>3. x + y = all + m
    BY <2>2
  <2> QED
    BY <2>3 DEF all
<1>6. (n * (p + q + u) + m) % n = m
  <2>1. p + q + u \in Int
    BY <1>1, <1>3
  <2> QED
    BY <2>1, <1>3, DivModUnique
<1> QED
  BY <1>5, <1>6 DEF m, t

-----------------------------------------------------------------------------
(* A quotient towards zero has a remainder that is smaller than the        *)
(* divisor and has the dividend's sign.                                    *)
LEMMA TowardsZero ==
  ASSUME NEW d \in Int, NEW s \in Int \ {0}
  PROVE  LET q == Towards0(d, s)
         IN  q \in Int /\ d - q * s \in Int /\ Fits(q, d - q * s, d, s)
<1> DEFINE m == IF d < 0 THEN -d ELSE d
           n == IF s < 0 THEN -s ELSE s
           size == m \div n
           rest == m % n
           q == Towards0(d, s)
<1>1. m \in Nat /\ n \in Nat \ {0}
  OBVIOUS
<1>2. q = IF (d < 0) = (s < 0) THEN size ELSE -size
  BY DEF Towards0
<1> HIDE DEF m, n, q
<1>3. size \in Int /\ rest \in 0 .. n - 1 /\ m = n * size + rest
  BY <1>1, DivMod
<1> HIDE DEF size, rest
<1> DEFINE p == n * size
<1>4. p \in Int /\ m = p + rest
  BY <1>1, <1>3, Products
<1>5. q * s = IF d < 0 THEN -p ELSE p
  <2>1. s * size = IF s < 0 THEN -p ELSE p
    <3>1. CASE s < 0
      <4>1. n = -s
        BY <3>1 DEF n
      <4>2. (-s) * size = -(s * size) /\ s * size \in Int
        BY <1>3
      <4> QED
        BY <3>1, <4>1, <4>2
    <3>2. CASE ~(s < 0)
      BY <3>2 DEF n
    <3> QED
      BY <3>1, <3>2
  <2>2. size * s = s * size /\ (-size) * s = -(s * size) /\ s * size \in Int
    BY <1>3
  <2>3. q * s = IF (d < 0) = (s < 0) THEN s * size ELSE -(s * size)
    BY <1>2, <2>2
  <2> DEFINE t == s * size
             qs == q * s
  <2>4. /\ t = (IF s < 0 THEN -p ELSE p) /\ t \in Int
        /\ qs = IF (d < 0) = (s < 0) THEN t ELSE -t
    BY <2>1, <2>2, <2>3
  <2> HIDE DEF t, qs, p
  <2>5. (d < 0) \in BOOLEAN /\ (s < 0) \in BOOLEAN
    OBVIOUS
  <2>6. qs = IF d < 0 THEN -p ELSE p
    BY <2>4, <2>5, <1>4
  <2> QED
    BY <2>6 DEF qs
<1> DEFINE qs == q * s
<1>6. qs = (IF d < 0 THEN -p ELSE p) /\ q \in Int
  BY <1>2, <1>3, <1>5
<1> HIDE DEF p, qs
<1>7. d - qs = (IF d < 0 THEN -rest ELSE rest) /\ d = qs + (d - qs)
  BY <1>3, <1>4, <1>6, <1>1 DEF m
<1> DEFINE z == d - qs
<1>8. z \in Int /\ z < n /\ -z < n /\ (z # 0 => (z < 0) = (d < 0)) /\ d = qs + z
  BY <1>1, <1>3, <1>7
<1> HIDE DEF z
<1>9. Fits(q, z, d, s)
  BY <1>8 DEF Fits, n, qs
<1> QED
  BY <1>6, <1>8, <1>9 DEF z, qs, q

(* There is only one.                                                      *)
LEMMA OneQuotient ==
  ASSUME NEW d \in Int, NEW s \in Int \ {0}, NEW q \in Int, NEW k \in Int,
         Fits(q, d - q * s, d, s), Fits(k, d - k * s, d, s)
  PROVE  q = k
<1> DEFINE n == IF s < 0 THEN -s ELSE s
           x == d - q * s
           y == d - k * s
<1>1. /\ n \in Nat \ {0} /\ q * s \in Int /\ k * s \in Int
  OBVIOUS
<1>2. /\ x \in Int /\ x < n /\ -x < n /\ (x # 0 => (x < 0) = (d < 0))
      /\ y \in Int /\ y < n /\ -y < n /\ (y # 0 => (y < 0) = (d < 0))
  <2>1. x \in Int /\ y \in Int
    BY <1>1
  <2> HIDE DEF x, y
  <2>2. Fits(q, x, d, s) /\ Fits(k, y, d, s)
    BY DEF x, y
  <2> QED
    BY <2>1, <2>2 DEF Fits
<1>3. y - x = q * s - k * s
  BY <1>1
<1> HIDE DEF x, y
<1>4. y - x < n /\ x - y < n
  <2>1. (d < 0) \in BOOLEAN /\ (x < 0) \in BOOLEAN /\ (y < 0) \in BOOLEAN
    BY <1>2
  <2>2. CASE d < 0
    <3>1. x <= 0 /\ y <= 0
      BY <1>2, <2>1, <2>2
    <3> QED
      BY <3>1, <1>1, <1>2
  <2>3. CASE ~(d < 0)
    <3>1. x >= 0 /\ y >= 0
      BY <1>2, <2>1, <2>3
    <3> QED
      BY <3>1, <1>1, <1>2
  <2> QED
    BY <2>2, <2>3
<1>5. n * (q - k) = (IF s < 0 THEN x - y ELSE y - x)
  <2>1. q * s - k * s = s * (q - k) /\ (-s) * (q - k) = -(s * (q - k)) /\ s * (q - k) \in Int
    OBVIOUS
  <2>2. CASE s < 0
    <3>1. n * (q - k) = -(s * (q - k))
      BY <2>1, <2>2
    <3> QED
      BY <2>1, <2>2, <3>1, <1>2, <1>3
  <2>3. CASE ~(s < 0)
    BY <2>1, <2>3, <1>3
  <2> QED
    BY <2>2, <2>3
<1> HIDE DEF n
<1>6. ~(q - k > 0)
  <2>1. /\ 0 < q - k => n * 0 + n <= n * (q - k)
        /\ n * 0 = 0 /\ n * (q - k) \in Int
    <3>1. q - k \in Int
      OBVIOUS
    <3> QED
      BY <1>1, <3>1, Products
  <2> DEFINE t == n * (q - k)
  <2>2. (0 < q - k => n <= t) /\ t \in Int /\ t < n
    BY <1>1, <1>2, <1>4, <1>5, <2>1
  <2> HIDE DEF t
  <2> QED
    BY <2>2, <1>1
<1>7. ~(q - k < 0)
  <2>1. /\ q - k < 0 => n * (q - k) + n <= n * 0
        /\ n * 0 = 0 /\ n * (q - k) \in Int
    <3>1. q - k \in Int
      OBVIOUS
    <3> QED
      BY <1>1, <3>1, Products
  <2> DEFINE t == n * (q - k)
  <2>2. (q - k < 0 => t + n <= 0) /\ t \in Int /\ -t < n
    BY <1>1, <1>2, <1>4, <1>5, <2>1
  <2> HIDE DEF t
  <2> QED
    BY <2>2, <1>1
<1> QED
  BY <1>6, <1>7

LEMMA LongHalfs ==
  ASSUME NEW h \in Nat \ {0}
  PROVE  LongHalf(h) \in Nat \ {0} /\ 2 * LongHalf(h) = 2 * h * (2 * h)
<1>1. h * h \in Nat \ {0}
  OBVIOUS
<1>2. 2 * h * h = 2 * (h * h) /\ 2 * h * (2 * h) = 4 * (h * h)
  OBVIOUS
<1> QED
  BY <1>1, <1>2 DEF LongHalf

LEMMA Wrapped ==
  ASSUME NEW h \in Nat \ {0}, NEW x \in Int
  PROVE  Wrap(x, h) \in Values(h)
<1> DEFINE n == 2 * h
<1>1. n \in Nat \ {0}
  OBVIOUS
<1>2. x % n \in 0 .. n - 1
  <2> HIDE DEF n
  <2> QED
    BY <1>1, DivMod
<1> QED
  BY <1>2 DEF Wrap, Values

(* Quotient and remainder of a division lie in the two halves of the long. *)
LEMMA DividedParts ==
  ASSUME NEW h \in Nat \ {0}, NEW q \in Int, NEW z \in Int, NEW f
  PROVE  LET o == Divided(q, z, f, h)
         IN  /\ o.value % (2 * h) = Wrap(q, h)
             /\ o.value \div (2 * h) = Wrap(z, h)
             /\ o.ccr.V = FALSE
<1> DEFINE lo == Wrap(q, h)
           hi == Wrap(z, h)
           n == 2 * h
           o == Divided(q, z, f, h)
<1>1. lo \in 0 .. n - 1 /\ hi \in 0 .. n - 1 /\ n \in Nat \ {0}
  BY Wrapped DEF Values
<1>2. o.value = lo + hi * 2 * h /\ o.ccr.V = FALSE
  BY DEF Divided
<1> HIDE DEF lo, hi, o
<1>3. o.value = n * hi + lo
  BY <1>1, <1>2
<1> HIDE DEF n
<1>4. (n * hi + lo) \div n = hi /\ (n * hi + lo) % n = lo
  BY <1>1, DivModUnique
<1> QED
  BY <1>2, <1>3, <1>4 DEF lo, hi, n, o

LEMMA OverflownParts ==
  ASSUME NEW d, NEW x
  PROVE  LET o == Overflown(d, Start(x))
         IN  o.value = d /\ o.ccr.V = TRUE
<1> DEFINE no == FALSE
           yes == TRUE
           o == Overflown(d, Start(x))
<1>1. o = [value |-> d,
           ccr |-> [[X |-> x, N |-> no, Z |-> yes, V |-> no, C |-> no] EXCEPT !.V = yes]]
  BY DEF Overflown, Start
<1> HIDE DEF no, yes, o
<1>2. [[X |-> x, N |-> no, Z |-> yes, V |-> no, C |-> no] EXCEPT !.V = yes]
         = [X |-> x, N |-> no, Z |-> yes, V |-> yes, C |-> no]
  OBVIOUS
<1>3. o.value = d /\ o.ccr.V = yes
  BY <1>1, <1>2
<1> QED
  BY <1>3 DEF yes, o

(* DIVU leaves quotient and remainder, or V where no quotient fits.        *)
LEMMA DivuRight ==
  ASSUME NEW h \in Nat \ {0}, NEW s \in Values(h) \ {0}, NEW d \in Values(LongHalf(h)), NEW x
  PROVE  LET o == divu(s, d, Start(x), h)
         IN  /\ o.ccr.V \in BOOLEAN
             /\ ~o.ccr.V => /\ o.value % (2 * h) \in Values(h)
                            /\ o.value \div (2 * h) \in Values(h)
                            /\ Fits(o.value % (2 * h), o.value \div (2 * h), d, s)
             /\ o.ccr.V => o.value = d /\ \A k \in Values(h) : ~Fits(k, d - k * s, d, s)
<1> DEFINE q == d \div s
           z == d % s
           o == divu(s, d, Start(x), h)
<1>1. /\ s \in Nat \ {0} /\ s < 2 * h /\ d \in Int /\ d >= 0
  BY LongHalfs DEF Values
<1>2. /\ q \in Int /\ z \in 0 .. s - 1 /\ d = s * q + z
  BY <1>1, DivMod
<1>3. o = IF q < 2 * h THEN Divided(q, z, Start(x), h) ELSE Overflown(d, Start(x))
  BY DEF divu
<1> HIDE DEF q, z, o
<1>4. q >= 0
  <2>1. q < 0 => s * q + s <= s * 0
    BY <1>1, <1>2, Products
  <2>2. s * 0 = 0 /\ s * q \in Int
    BY <1>1, <1>2, Products
  <2> DEFINE p == s * q
  <2>3. (q < 0 => p + s <= 0) /\ p \in Int /\ d = p + z
    BY <2>1, <2>2, <1>2
  <2> HIDE DEF p
  <2> QED
    BY <2>3, <1>1, <1>2
<1>5. q * s = s * q /\ d - q * s = z
  <2>1. q * s = s * q /\ s * q \in Int
    BY <1>1, <1>2
  <2> QED
    BY <2>1, <1>1, <1>2
<1>6. Fits(q, z, d, s)
  BY <1>1, <1>2, <1>5 DEF Fits
<1>7. CASE q < 2 * h
  <2>1. Wrap(q, h) = q /\ Wrap(z, h) = z /\ q \in Values(h) /\ z \in Values(h)
    <3>1. q \in Values(h) /\ z \in Values(h)
      BY <1>1, <1>2, <1>4, <1>7 DEF Values
    <3> QED
      BY <3>1, WrapOfSigned
  <2>2. /\ o.value % (2 * h) = q /\ o.value \div (2 * h) = z /\ o.ccr.V = FALSE
    <3>1. o = Divided(q, z, Start(x), h) /\ z \in Int
      BY <1>2, <1>3, <1>7
    <3> QED
      BY <2>1, <3>1, <1>2, DividedParts
  <2> QED
    BY <2>1, <2>2, <1>6 DEF o
<1>8. CASE ~(q < 2 * h)
  <2>1. o.value = d /\ o.ccr.V = TRUE
    BY <1>3, <1>8, OverflownParts
  <2>2. ASSUME NEW k \in Values(h), Fits(k, d - k * s, d, s) PROVE FALSE
    <3>1. k \in Int /\ k < 2 * h
      BY DEF Values
    <3>2. Fits(q, d - q * s, d, s)
      BY <1>5, <1>6
    <3>3. s \in Int \ {0}
      BY <1>1
    <3>4. q = k
      BY <2>2, <3>1, <3>2, <3>3, <1>1, <1>2, OneQuotient
    <3> QED
      BY <3>1, <3>4, <1>8
  <2> QED
    BY <2>1, <2>2 DEF o
<1> QED
  BY <1>7, <1>8

(* So does DIVS, but for the lowest dividend by -1.                        *)
LEMMA DivsRight ==
  ASSUME NEW h \in Nat \ {0}, NEW s \in Values(h) \ {0}, NEW d \in Values(LongHalf(h)), NEW x,
         ~(d = LongHalf(h) /\ Signed(s, h) = -1)
  PROVE  LET o == divs(s, d, Start(x), h)
             q == Signed(o.value % (2 * h), h)
             z == Signed(o.value \div (2 * h), h)
             dd == Signed(d, LongHalf(h))
             ss == Signed(s, h)
         IN  /\ o.ccr.V \in BOOLEAN
             /\ ~o.ccr.V => /\ o.value % (2 * h) \in Values(h)
                            /\ o.value \div (2 * h) \in Values(h)
                            /\ Fits(q, z, dd, ss)
             /\ o.ccr.V => o.value = d /\ \A k \in -h .. h - 1 : ~Fits(k, dd - k * ss, dd, ss)
<1> DEFINE L == LongHalf(h)
           dd == Signed(d, L)
           ss == Signed(s, h)
           q == Towards0(dd, ss)
           z == dd - q * ss
           o == divs(s, d, Start(x), h)
<1>1. ss \in -h .. h - 1 /\ ss # 0 /\ dd \in Int
  <2>1. s \in Int /\ s > 0 /\ s < 2 * h
    BY DEF Values
  <2>2. ss \in -h .. h - 1 /\ ss # 0
    BY <2>1 DEF Signed
  <2>3. L \in Nat \ {0}
    BY LongHalfs
  <2> HIDE DEF L
  <2>4. dd \in Int
    BY <2>3 DEF Signed, Values, L
  <2> QED
    BY <2>2, <2>4
<1>2. o = IF -h <= q /\ q < h THEN Divided(q, z, Start(x), h) ELSE Overflown(d, Start(x))
  BY DEF divs
<1> HIDE DEF L, dd, ss
<1>3. q \in Int /\ z \in Int /\ Fits(q, z, dd, ss)
  <2>1. ss \in Int \ {0} /\ dd \in Int
    BY <1>1
  <2> QED
    BY <2>1, TowardsZero
<1> HIDE DEF q, z, o
<1>4. z \in -h .. h - 1
  BY <1>1, <1>3 DEF Fits
<1>5. CASE -h <= q /\ q < h
  <2>1. q \in -h .. h - 1
    BY <1>3, <1>5
  <2>2. /\ Wrap(q, h) \in Values(h) /\ Signed(Wrap(q, h), h) = q
        /\ Wrap(z, h) \in Values(h) /\ Signed(Wrap(z, h), h) = z
    BY <2>1, <1>4, SignedOfWrap
  <2>3. /\ o.value % (2 * h) = Wrap(q, h) /\ o.value \div (2 * h) = Wrap(z, h)
        /\ o.ccr.V = FALSE
    <3>1. o = Divided(q, z, Start(x), h)
      BY <1>2, <1>5
    <3> QED
      BY <3>1, <1>3, DividedParts
  <2> QED
    BY <2>2, <2>3, <1>3 DEF o, dd, ss, L
<1>6. CASE ~(-h <= q /\ q < h)
  <2>1. o.value = d /\ o.ccr.V = TRUE
    BY <1>2, <1>6, OverflownParts
  <2>2. ASSUME NEW k \in -h .. h - 1, Fits(k, dd - k * ss, dd, ss) PROVE FALSE
    <3>1. k \in Int /\ ss \in Int \ {0}
      BY <1>1
    <3>2. Fits(q, dd - q * ss, dd, ss)
      BY <1>3 DEF z
    <3>3. q = k
      BY <2>2, <3>1, <3>2, <1>1, <1>3, OneQuotient
    <3> QED
      BY <3>3, <1>6
  <2> QED
    BY <2>1, <2>2 DEF o, dd, ss, L
<1> QED
  BY <1>5, <1>6

-----------------------------------------------------------------------------
(* Quotient times divisor, plus the remainder.                             *)
UnsignedTotal(q, z, s, f, h) == Add(TRUE, z, mulu(q, s, f, h).value, 0, LongHalf(h)).value

LEMMA UnsignedBack ==
  ASSUME NEW h \in Nat \ {0}, NEW s \in Values(h), NEW d \in Values(LongHalf(h)),
         NEW q \in Values(h), NEW z \in Values(h), NEW f, Fits(q, z, d, s)
  PROVE  UnsignedTotal(q, z, s, f, h) = d
<1>1. mulu(q, s, f, h).value = q * s
  BY DEF mulu, Product
<1>2. Add(TRUE, z, q * s, 0, LongHalf(h)).value = Wrap(z + q * s + 0, LongHalf(h))
  BY DEF Add
<1>3. z + q * s + 0 = d
  <2>1. d = q * s + z
    BY DEF Fits
  <2>2. q * s \in Int /\ z \in Int
    BY DEF Values
  <2> QED
    BY <2>1, <2>2
<1>4. Wrap(d, LongHalf(h)) = d
  BY LongHalfs, WrapOfSigned
<1> QED
  BY <1>1, <1>2, <1>3, <1>4 DEF UnsignedTotal

LEMMA SignedBack ==
  ASSUME NEW h \in Nat \ {0}, NEW s \in Values(h), NEW d \in Values(LongHalf(h)),
         NEW q \in Values(h), NEW z \in Values(h), NEW f,
         Fits(Signed(q, h), Signed(z, h), Signed(d, LongHalf(h)), Signed(s, h))
  PROVE  Add(TRUE, Wrap(Signed(z, h), LongHalf(h)), muls(q, s, f, h).value, 0, LongHalf(h)).value = d
<1> DEFINE L == LongHalf(h)
           p == Signed(q, h) * Signed(s, h)
           t == Signed(z, h)
           n == 2 * L
<1>1. p \in Int /\ t \in Int
  <2>1. Signed(q, h) \in Int /\ Signed(s, h) \in Int /\ t \in Int
    BY DEF Signed, Values
  <2> QED
    BY <2>1
<1>2. L \in Nat \ {0} /\ n \in Nat \ {0}
  BY LongHalfs
<1>3. muls(q, s, f, h).value = Wrap(p, L)
  BY DEF muls, Product
<1>4. Signed(d, L) = p + t
  BY DEF Fits
<1>5. Wrap(Signed(d, L), L) = d
  BY <1>2, WrapOfSigned
<1> HIDE DEF p, t
<1>6. Add(TRUE, Wrap(t, L), Wrap(p, L), 0, L).value = Wrap(Wrap(t, L) + Wrap(p, L) + 0, L)
  BY DEF Add
<1> HIDE DEF L
<1>7. Wrap(Wrap(t, L) + Wrap(p, L) + 0, L) = Wrap(t + p, L)
  <2>1. Wrap(t, L) \in Int /\ Wrap(p, L) \in Int
    <3>1. Wrap(t, L) \in Values(L) /\ Wrap(p, L) \in Values(L)
      BY <1>1, <1>2, Wrapped
    <3>2. Values(L) \subseteq Int
      BY <1>2 DEF Values
    <3> QED
      BY <3>1, <3>2
  <2>2. Wrap(t, L) + Wrap(p, L) + 0 = Wrap(t, L) + Wrap(p, L)
    BY <2>1
  <2>3. Wrap(Wrap(t, L) + Wrap(p, L), L) = Wrap(t + p, L)
    <3> HIDE DEF n
    <3>1. ((t % n) + (p % n)) % n = (t + p) % n
      BY <1>1, <1>2, ModSum
    <3> QED
      BY <3>1 DEF Wrap, n
  <2> QED
    BY <2>2, <2>3
<1>8. t + p = p + t
  BY <1>1
<1> QED
  BY <1>3, <1>4, <1>5, <1>6, <1>7, <1>8 DEF t, L

(* What a division has left, and what putting it together again leaves.    *)
Quotient(j, s, d, h) ==
    IF j.op = "divu" THEN divu(s, d, Start(j.x), h) ELSE divs(s, d, Start(j.x), h)

DivisionInv ==
    /\ job \in Jobs
    /\ job.what = "divide" =>
          \/ parts = 0 /\ ccr = Start(job.x)
          \/ /\ parts \in {1, 2}
             /\ a \in Values(Half("w")) \ {0} /\ b \in Values(LongHalf(Half("w")))
             /\ parts = 1 => [value |-> r, ccr |-> ccr] = Quotient(job, a, b, Half("w"))
             /\ parts = 2 /\ ~LowestByMinusOne => r = b

LEMMA WordHalf == Half("w") \in Nat \ {0}
  BY HalfPositive DEF Sizes

LEMMA OutcomeIs ==
  ASSUME NEW v, NEW f, NEW o, [value |-> v, ccr |-> f] = o
  PROVE  o.value = v /\ o.ccr = f
  OBVIOUS

LEMMA DivisionDone ==
  ASSUME DivisionInv, job.what = "divide", parts = 1, ~LowestByMinusOne
  PROVE  LET h == Half("w")
             q == r % (2 * h)
             z == r \div (2 * h)
         IN  /\ ccr.V \in BOOLEAN
             /\ ~ccr.V => /\ q \in Values(h) /\ z \in Values(h)
                          /\ Fits(Number2(q, h), Number2(z, h), Number2(b, LongHalf(h)), Number2(a, h))
             /\ ccr.V => /\ r = b
                         /\ \A k \in IF job.op = "divs" THEN -h .. h - 1 ELSE Values(h) :
                              ~Fits(k, Number2(b, LongHalf(h)) - k * Number2(a, h),
                                    Number2(b, LongHalf(h)), Number2(a, h))
<1> DEFINE h == Half("w")
           o == Quotient(job, a, b, h)
<1>1. /\ a \in Values(h) \ {0} /\ b \in Values(LongHalf(h))
      /\ [value |-> r, ccr |-> ccr] = o
  BY DEF DivisionInv
<1>2. h \in Nat \ {0}
  BY WordHalf
<1>3. job.op \in Divisions
  BY DEF DivisionInv, Jobs, Divisions
<1>4. r = o.value /\ ccr = o.ccr
  <2> HIDE DEF o
  <2> QED
    BY <1>1, OutcomeIs
<1>5. CASE job.op = "divu"
  <2>1. o = divu(a, b, Start(job.x), h)
    BY <1>5 DEF Quotient
  <2>2. \A y, w : Number2(y, w) = y
    BY <1>5 DEF Number2
  <2> HIDE DEF o, h
  <2>3. /\ o.ccr.V \in BOOLEAN
        /\ ~o.ccr.V => /\ o.value % (2 * h) \in Values(h)
                       /\ o.value \div (2 * h) \in Values(h)
                       /\ Fits(o.value % (2 * h), o.value \div (2 * h), b, a)
        /\ o.ccr.V => o.value = b /\ \A k \in Values(h) : ~Fits(k, b - k * a, b, a)
    BY <1>1, <1>2, <2>1, DivuRight
  <2> QED
    BY <2>2, <2>3, <1>4, <1>5 DEF h
<1>6. CASE job.op = "divs"
  <2>1. o = divs(a, b, Start(job.x), h)
    BY <1>6 DEF Quotient
  <2>2. \A y, w : Number2(y, w) = Signed(y, w)
    BY <1>6 DEF Number2
  <2>3. ~(b = LongHalf(h) /\ Signed(a, h) = -1)
    BY <1>6 DEF LowestByMinusOne
  <2> DEFINE q == Signed(o.value % (2 * h), h)
             z == Signed(o.value \div (2 * h), h)
             dd == Signed(b, LongHalf(h))
             ss == Signed(a, h)
  <2> HIDE DEF o, h
  <2>4. /\ o.ccr.V \in BOOLEAN
        /\ ~o.ccr.V => /\ o.value % (2 * h) \in Values(h)
                       /\ o.value \div (2 * h) \in Values(h)
                       /\ Fits(q, z, dd, ss)
        /\ o.ccr.V => o.value = b /\ \A k \in -h .. h - 1 : ~Fits(k, dd - k * ss, dd, ss)
    BY <1>1, <1>2, <2>1, <2>3, DivsRight
  <2> QED
    BY <2>2, <2>4, <1>4, <1>6 DEF h
<1> QED
  BY <1>3, <1>5, <1>6 DEF Divisions

LEMMA RebuildStep == DivisionInv /\ Rebuild => DivisionInv'
<1> SUFFICES ASSUME DivisionInv, Rebuild PROVE DivisionInv'
  OBVIOUS
<1> DEFINE h == Half("w")
           q == r % (2 * h)
           z == r \div (2 * h)
<1>1. /\ job \in Jobs /\ job.what = "divide" /\ parts = 1 /\ ~ccr.V
      /\ a \in Values(h) \ {0} /\ b \in Values(LongHalf(h))
      /\ parts' = 2 /\ job' = job /\ a' = a /\ b' = b
  BY DEF Rebuild, DivisionInv
<1>2. h \in Nat \ {0}
  BY WordHalf
<1>3. job.op \in Divisions
  BY <1>1 DEF Jobs, Divisions
<1>4. r' = Add(TRUE, IF job.op = "divu" THEN z ELSE Wrap(Signed(z, h), LongHalf(h)),
               (IF job.op = "divu" THEN mulu(q, a, ccr, h) ELSE muls(q, a, ccr, h)).value,
               0, LongHalf(h)).value
  BY DEF Rebuild
<1>5. ASSUME ~LowestByMinusOne PROVE r' = b
  <2>1. /\ q \in Values(h) /\ z \in Values(h)
        /\ Fits(Number2(q, h), Number2(z, h), Number2(b, LongHalf(h)), Number2(a, h))
    BY <1>1, <1>5, DivisionDone
  <2> HIDE DEF q, z, h
  <2>2. CASE job.op = "divu"
    <3>1. Fits(q, z, b, a)
      BY <2>1, <2>2 DEF Number2
    <3>2. UnsignedTotal(q, z, a, ccr, h) = b
      <4>1. a \in Values(h) /\ b \in Values(LongHalf(h)) /\ q \in Values(h) /\ z \in Values(h)
        BY <2>1, <1>1 DEF h
      <4> QED
        BY <4>1, <3>1, <1>2, UnsignedBack
    <3> QED
      BY <3>2, <2>2, <1>4 DEF UnsignedTotal, q, z, h
  <2>3. CASE job.op = "divs"
    <3>1. Fits(Signed(q, h), Signed(z, h), Signed(b, LongHalf(h)), Signed(a, h))
      BY <2>1, <2>3 DEF Number2
    <3>2. Add(TRUE, Wrap(Signed(z, h), LongHalf(h)), muls(q, a, ccr, h).value, 0,
              LongHalf(h)).value = b
      BY <3>1, <2>1, <1>1, <1>2, SignedBack
    <3> QED
      BY <3>2, <2>3, <1>4
  <2> QED
    BY <1>3, <2>2, <2>3 DEF Divisions
<1>6. LowestByMinusOne' <=> LowestByMinusOne
  BY <1>1 DEF LowestByMinusOne
<1> QED
  BY <1>1, <1>5, <1>6 DEF DivisionInv

LEMMA DivideStep == DivisionInv /\ Divide => DivisionInv'
<1> SUFFICES ASSUME DivisionInv, Divide PROVE DivisionInv'
  OBVIOUS
<1> DEFINE h == Half("w")
<1>1. /\ job \in Jobs /\ job.what = "divide" /\ parts = 0 /\ parts' = 1 /\ job' = job
      /\ ccr = Start(job.x)
  BY DEF Divide, DivisionInv
<1>2. PICK s \in Values(h) \ {0}, d \in Values(LongHalf(h)) :
         LET o == IF job.op = "divu" THEN divu(s, d, ccr, h) ELSE divs(s, d, ccr, h)
         IN  a' = s /\ b' = d /\ r' = o.value /\ ccr' = o.ccr
  BY DEF Divide
<1>3. /\ a' = s /\ b' = d
      /\ r' = Quotient(job, s, d, h).value /\ ccr' = Quotient(job, s, d, h).ccr
  BY <1>1, <1>2 DEF Quotient
<1>4. Quotient(job, s, d, h)
        = [value |-> Quotient(job, s, d, h).value, ccr |-> Quotient(job, s, d, h).ccr]
  <2>1. \A y, w, f, k : /\ Divided(y, w, f, k) = [value |-> Divided(y, w, f, k).value,
                                                  ccr |-> Divided(y, w, f, k).ccr]
                        /\ Overflown(y, f) = [value |-> Overflown(y, f).value,
                                              ccr |-> Overflown(y, f).ccr]
    BY DEF Divided, Overflown
  <2>2. CASE job.op = "divu"
    BY <2>1, <2>2 DEF Quotient, divu
  <2>3. CASE job.op # "divu"
    BY <2>1, <2>3 DEF Quotient, divs
  <2> QED
    BY <2>2, <2>3
<1> HIDE DEF h
<1>5. [value |-> r', ccr |-> ccr'] = Quotient(job, a', b', h)
  BY <1>3, <1>4
<1> QED
  BY <1>1, <1>2, <1>3, <1>5 DEF DivisionInv, h

LEMMA DivisionStep == DivisionInv /\ [Next]_vars => DivisionInv'
<1> SUFFICES ASSUME DivisionInv, [Next]_vars PROVE DivisionInv'
  OBVIOUS
<1>1. CASE Divide
  BY <1>1, DivideStep
<1>2. CASE Rebuild
  BY <1>2, RebuildStep
<1>3. CASE AddPart \/ Compare \/ ShiftFurther
  BY <1>3 DEF AddPart, Compare, ShiftFurther, DivisionInv
<1>4. CASE UNCHANGED vars
  BY <1>4 DEF vars, DivisionInv, LowestByMinusOne, Quotient
<1> QED
  BY <1>1, <1>2, <1>3, <1>4 DEF Next

LEMMA DivisionInvRebuilds == DivisionInv => DivisionRebuilds
<1> SUFFICES ASSUME DivisionInv, job.what = "divide", parts > 0, ~LowestByMinusOne
             PROVE  DivisionRebuilds
  BY DEF DivisionRebuilds
<1>1. parts \in {1, 2} /\ (parts = 2 => r = b)
  BY DEF DivisionInv
<1>2. CASE parts = 1
  BY <1>2, DivisionDone DEF DivisionRebuilds
<1>3. CASE parts = 2
  BY <1>1, <1>3 DEF DivisionRebuilds
<1> QED
  BY <1>1, <1>2, <1>3

(* A division of any width leaves a quotient and a remainder that make up  *)
(* the dividend again, or says that no quotient fits and leaves it alone;  *)
(* only the lowest dividend by -1 is left to the code's own case.          *)
THEOREM DivisionsRebuild == Spec => []DivisionRebuilds
<1>1. Init => DivisionInv
  BY DEF Init, DivisionInv
<1> QED
  BY <1>1, DivisionStep, DivisionInvRebuilds, PTL DEF Spec

-----------------------------------------------------------------------------
(* Powers of two                                                           *)

(* A subset of m + n elements is a subset of the first m and one of the     *)
(* last n, so that powers of two multiply as their exponents add.           *)
LEMMA PowerOfSum ==
  ASSUME NEW m \in Nat, NEW n \in Nat
  PROVE  2^(m + n) = 2^m * 2^n
<1> DEFINE S == 1 .. m
           T == m + 1 .. m + n
           U == 1 .. m + n
           P == (SUBSET S) \X (SUBSET T)
           f == [p \in P |-> p[1] \cup p[2]]
<1>1. /\ IsFiniteSet(S) /\ Cardinality(S) = m
      /\ IsFiniteSet(U) /\ Cardinality(U) = m + n
  <2> DEFINE k == m + n
  <2>1. k \in Nat /\ m \in Int /\ 1 \in Int
    OBVIOUS
  <2>2. U = 1 .. k
    OBVIOUS
  <2> HIDE DEF k, U
  <2>3. IsFiniteSet(1 .. m) /\ Cardinality(1 .. m) = IF 1 > m THEN 0 ELSE m - 1 + 1
    BY <2>1, FS_Interval
  <2>4. IsFiniteSet(1 .. k) /\ Cardinality(1 .. k) = IF 1 > k THEN 0 ELSE k - 1 + 1
    BY <2>1, FS_Interval
  <2>5. Cardinality(S) = m /\ Cardinality(U) = k
    BY <2>1, <2>2, <2>3, <2>4
  <2> QED
    BY <2>2, <2>3, <2>4, <2>5 DEF k
<1>2. IsFiniteSet(T) /\ Cardinality(T) = n
  <2>1. m + 1 \in Int /\ m + n \in Int
    OBVIOUS
  <2>2. Cardinality(T) = IF m + 1 > m + n THEN 0 ELSE m + n - (m + 1) + 1
    BY <2>1, FS_Interval
  <2> QED
    BY <2>1, <2>2, FS_Interval
<1>3. S \cap T = {} /\ S \cup T = U
  OBVIOUS
<1> HIDE DEF S, T, U
<1>4. /\ IsFiniteSet(SUBSET S) /\ Cardinality(SUBSET S) = 2^m
      /\ IsFiniteSet(SUBSET T) /\ Cardinality(SUBSET T) = 2^n
      /\ IsFiniteSet(SUBSET U) /\ Cardinality(SUBSET U) = 2^(m + n)
  BY <1>1, <1>2, FS_SUBSET
<1>5. IsFiniteSet(P) /\ Cardinality(P) = 2^m * 2^n
  BY <1>4, FS_Product, ZenonT(40)
<1>6. f \in Bijection(P, SUBSET U)
  <2>1. f \in [P -> SUBSET U]
    BY <1>3
  <2>2. ASSUME NEW p \in P, NEW q \in P, f[p] = f[q]
        PROVE  p = q
    <3>1. p = <<p[1], p[2]>> /\ q = <<q[1], q[2]>> /\ p[1] \subseteq S /\ p[2] \subseteq T
          /\ q[1] \subseteq S /\ q[2] \subseteq T
      OBVIOUS
    <3>2. p[1] \cup p[2] = q[1] \cup q[2]
      BY <2>2
    <3>3. p[1] = q[1] /\ p[2] = q[2]
      BY <1>3, <3>1, <3>2
    <3> QED
      BY <3>1, <3>3
  <2>3. ASSUME NEW u \in SUBSET U
        PROVE  \E p \in P : f[p] = u
    <3>1. <<u \cap S, u \cap T>> \in P /\ (u \cap S) \cup (u \cap T) = u
      BY <1>3
    <3> QED
      BY <3>1
  <2> HIDE DEF P, f
  <2>4. IsInjective(f)
    BY <2>1, <2>2 DEF IsInjective
  <2> QED
    BY <2>1, <2>3, <2>4 DEF Bijection, Injection, Surjection
<1>7. ExistsBijection(P, SUBSET U)
  BY <1>6 DEF ExistsBijection
<1>8. Cardinality(SUBSET U) = Cardinality(P)
  BY <1>5, <1>7, FS_Bijection
<1> QED
  BY <1>4, <1>5, <1>8

(* The first two powers.                                                   *)
LEMMA PowerOfOne == 2^0 = 1 /\ 2^1 = 2
<1>1. IsFiniteSet({}) /\ Cardinality({}) = 0 /\ IsFiniteSet({1}) /\ Cardinality({1}) = 1
  BY FS_EmptySet, FS_Singleton
<1>2. Cardinality(SUBSET {}) = 2^0 /\ Cardinality(SUBSET {1}) = 2^1
  BY <1>1, FS_SUBSET
<1>3. SUBSET {} = {{}} /\ SUBSET {1} = {{}} \cup {{1}}
  OBVIOUS
<1>4. IsFiniteSet({{}}) /\ Cardinality({{}}) = 1
  BY FS_Singleton
<1>5. {1} \notin {{}}
  OBVIOUS
<1>6. Cardinality({{}} \cup {{1}}) = 1 + 1
  BY <1>4, <1>5, FS_AddElement
<1> QED
  BY <1>2, <1>3, <1>4, <1>6

-----------------------------------------------------------------------------
(* Numbers by their bits                                                   *)

\* what a number counts in steps of k bits, and a number moved up by them.
Pow(k) == 2^k

Up(y, k) == y * Pow(k)

\* the bits of x from the k-th on, those below it, and the k-th
Above(x, k) == x \div Pow(k)

Low(x, k) == x % Pow(k)

OneAt(x, k) == Above(x, k) % 2

(* Moving up keeps sums, doubles and the order.                            *)
LEMMA UpIs ==
  ASSUME NEW k \in Nat, NEW y \in Int, NEW z \in Int
  PROVE  /\ Pow(k) \in Nat \ {0} /\ Up(y, k) \in Int /\ (y >= 0 => Up(y, k) >= 0)
         /\ Up(0, k) = 0 /\ Up(1, k) = Pow(k)
         /\ Up(y + z, k) = Up(y, k) + Up(z, k)
         /\ Up(2 * y, k) = 2 * Up(y, k)
         /\ y < z => Up(y, k) + Pow(k) <= Up(z, k)
<1> DEFINE p == Pow(k)
<1>1. p \in Nat \ {0}
  BY PowerPositive DEF Pow
<1>2. \A x : Up(x, k) = x * p
  BY DEF Up
<1> HIDE DEF p
<1>3. \A x \in Int : x * p = p * x
  BY <1>1
<1>4. /\ p * y \in Int /\ p * (y + z) = p * y + p * z /\ (y >= 0 => p * y >= 0)
      /\ (y < z => p * y + p <= p * z) /\ p * 0 = 0 /\ p * 1 = p
  BY <1>1, Products
<1>5. (2 * y) * p = 2 * (y * p)
  BY <1>1
<1>6. Up(y, k) = p * y /\ Up(z, k) = p * z /\ Up(0, k) = p * 0 /\ Up(1, k) = p * 1
  BY <1>2, <1>3
<1>7. Up(y + z, k) = p * (y + z)
  <2> DEFINE s == y + z
  <2>1. s \in Int
    OBVIOUS
  <2> HIDE DEF s
  <2>2. Up(s, k) = p * s
    BY <1>2, <1>3, <2>1
  <2> QED
    BY <2>2 DEF s
<1>8. Up(2 * y, k) = 2 * Up(y, k)
  BY <1>2, <1>5
<1> QED
  BY <1>1, <1>4, <1>6, <1>7, <1>8 DEF p

(* A power of two is positive.                                             *)
LEMMA PowIs == ASSUME NEW k \in Nat PROVE Pow(k) \in Nat \ {0}
  BY PowerPositive DEF Pow

(* One bit moved up is a power of two, or nothing.                         *)
LEMMA UpBits ==
  ASSUME NEW k \in Nat
  PROVE  /\ Up(0, k) = 0 /\ Up(1, k) = Pow(k)
         /\ \A one \in 0 .. 1 : Up(one, k) = IF one = 1 THEN Pow(k) ELSE 0
<1>1. 0 \in Int /\ 1 \in Int
  OBVIOUS
<1>2. Up(0, k) = 0 /\ Up(1, k) = Pow(k)
  BY <1>1, UpIs
<1>3. \A one \in 0 .. 1 : one = 0 \/ one = 1
  OBVIOUS
<1> QED
  BY <1>2, <1>3

(* What is moved up stays a number of its sign.                            *)
LEMMA UpInt ==
  ASSUME NEW k \in Nat, NEW y \in Int
  PROVE  Up(y, k) \in Int /\ (y >= 0 => Up(y, k) >= 0) /\ Up(2 * y, k) = 2 * Up(y, k)
  BY UpIs

(* A sum is moved up part by part.                                         *)
LEMMA UpSum ==
  ASSUME NEW k \in Nat, NEW y \in Int, NEW z \in Int
  PROVE  Up(y + z, k) = Up(y, k) + Up(z, k)
  BY UpIs

(* What is less stays less by a whole power when it is moved up.           *)
LEMMA UpOrder ==
  ASSUME NEW k \in Nat, NEW y \in Int, NEW z \in Int, y < z
  PROVE  Up(y, k) + Pow(k) <= Up(z, k)
  BY UpIs

(* One bit further is the double.                                          *)
LEMMA UpMore ==
  ASSUME NEW k \in Nat, NEW y \in Int
  PROVE  Up(y, k + 1) = 2 * Up(y, k) /\ Pow(k + 1) = 2 * Pow(k)
<1> DEFINE p == Pow(k)
           q == Pow(k + 1)
<1>1. p \in Nat \ {0}
  BY PowerPositive DEF Pow
<1>2. q = p * 2
  BY PowerOfSum, PowerOfOne DEF Pow
<1>3. Up(y, k + 1) = y * q /\ Up(y, k) = y * p
  BY DEF Up
<1> HIDE DEF p, q
<1>4. y * (p * 2) = 2 * (y * p)
  BY <1>1
<1>5. y * q = 2 * (y * p)
  BY <1>2, <1>4
<1> QED
  BY <1>1, <1>2, <1>3, <1>5 DEF p, q

(* A power moved up is a power.                                            *)
LEMMA UpPow ==
  ASSUME NEW m \in Nat, NEW k \in Nat
  PROVE  Up(Pow(m), k) = Pow(m + k)
  BY PowerOfSum DEF Up, Pow

(* Nothing is moved or cut off at bit zero.                                *)
LEMMA AtZero ==
  ASSUME NEW x \in Nat
  PROVE  Pow(0) = 1 /\ Up(x, 0) = x /\ Above(x, 0) = x /\ Low(x, 0) = 0
<1>1. Pow(0) = 1
  BY PowerOfOne DEF Pow
<1>2. x \div 1 = x /\ x % 1 = 0 /\ x * 1 = x
  OBVIOUS
<1> QED
  BY <1>1, <1>2 DEF Up, Above, Low

(* A number is its upper bits, moved up, and its lower ones.               *)
LEMMA TopLow ==
  ASSUME NEW k \in Nat, NEW x \in Nat
  PROVE  Above(x, k) \in Nat /\ Low(x, k) \in 0 .. Pow(k) - 1 /\ x = Up(Above(x, k), k) + Low(x, k)
<1> DEFINE p == Pow(k)
           t == x \div p
           l == x % p
<1>1. p \in Nat \ {0}
  BY PowIs
<1>2. Above(x, k) = t /\ Low(x, k) = l /\ Up(t, k) = t * p
  BY DEF Above, Low, Up
<1> HIDE DEF p
<1>3. t \in Int /\ l \in 0 .. p - 1 /\ x = p * t + l
  BY <1>1, DivMod
<1> HIDE DEF t, l
<1>4. p * t = t * p /\ p * t \in Int /\ (t < 0 => p * t + p <= p * 0) /\ p * 0 = 0
  BY <1>1, <1>3, Products
<1>5. t >= 0
  BY <1>1, <1>3, <1>4
<1> QED
  BY <1>2, <1>3, <1>4, <1>5 DEF p

(* There is one way to take a number apart.                                *)
LEMMA TopLowAre ==
  ASSUME NEW k \in Nat, NEW t \in Nat, NEW l \in 0 .. Pow(k) - 1
  PROVE  Above(Up(t, k) + l, k) = t /\ Low(Up(t, k) + l, k) = l
<1> DEFINE p == Pow(k)
<1>1. p \in Nat \ {0} /\ t \in Int /\ l \in 0 .. p - 1
  BY PowIs
<1>2. Up(t, k) = t * p /\ t * p = p * t
  BY <1>1 DEF Up
<1> HIDE DEF p
<1>3. (p * t + l) \div p = t /\ (p * t + l) % p = l
  BY <1>1, DivModUnique
<1> QED
  BY <1>2, <1>3 DEF Above, Low, p

(* A number and one bit more below it.                                     *)
LEMMA Halves ==
  ASSUME NEW h \in Nat, NEW one \in 0 .. 1
  PROVE  (2 * h + one) \div 2 = h /\ (2 * h + one) % 2 = one
  OBVIOUS

(* One bit further up.                                                     *)
LEMMA OneBitUp ==
  ASSUME NEW k \in Nat, NEW x \in Nat
  PROVE  /\ OneAt(x, k) \in 0 .. 1
         /\ Above(x, k) = 2 * Above(x, k + 1) + OneAt(x, k)
         /\ Low(x, k + 1) = Low(x, k) + Up(OneAt(x, k), k)
<1> DEFINE t == Above(x, k)
           l == Low(x, k)
           h == t \div 2
           one == t % 2
           u == Up(one, k)
           m == u + l
           j == k + 1
<1>1. t \in Nat /\ l \in 0 .. Pow(k) - 1 /\ x = Up(t, k) + l /\ Pow(k) \in Nat \ {0}
  BY TopLow, PowIs
<1>2. OneAt(x, k) = one
  BY DEF OneAt
<1> HIDE DEF t, l
<1>3. h \in Nat /\ one \in 0 .. 1 /\ t = 2 * h + one
  BY <1>1
<1> HIDE DEF h, one
<1>4. Up(t, k) = 2 * Up(h, k) + u
  <2> DEFINE y == 2 * h
  <2>1. y \in Int /\ h \in Int /\ one \in Int
    BY <1>3
  <2>2. Up(y, k) = 2 * Up(h, k)
    BY <2>1, UpInt
  <2> HIDE DEF y
  <2>3. Up(y + one, k) = Up(y, k) + Up(one, k)
    BY <2>1, UpSum
  <2>4. t = y + one
    BY <1>3 DEF y
  <2> QED
    BY <2>2, <2>3, <2>4
<1>5. Up(h, j) = 2 * Up(h, k) /\ Pow(j) = 2 * Pow(k) /\ j \in Nat /\ Up(h, k) \in Int
  <2>1. h \in Int
    BY <1>3
  <2>2. Up(h, k) \in Int
    BY <2>1, UpInt
  <2>3. Up(h, j) = 2 * Up(h, k) /\ Pow(j) = 2 * Pow(k)
    BY <2>1, UpMore
  <2> QED
    BY <2>2, <2>3
<1>6. u \in Int /\ u = IF one = 1 THEN Pow(k) ELSE 0
  <2>1. one = 0 \/ one = 1
    BY <1>3
  <2>2. Up(0, k) = 0 /\ Up(1, k) = Pow(k) /\ Pow(k) \in Int
    BY UpBits, PowIs
  <2> QED
    BY <2>1, <2>2
<1> HIDE DEF u, j
<1>7. m \in 0 .. Pow(j) - 1
  BY <1>1, <1>5, <1>6
<1>8. x = Up(h, j) + m
  BY <1>1, <1>4, <1>5, <1>6
<1> HIDE DEF m
<1>9. Above(Up(h, j) + m, j) = h /\ Low(Up(h, j) + m, j) = m
  BY <1>3, <1>5, <1>7, TopLowAre
<1>10. Above(x, j) = h /\ Low(x, j) = m
  BY <1>8, <1>9
<1>11. m = l + u
  BY <1>1, <1>6 DEF m
<1> QED
  BY <1>2, <1>3, <1>10, <1>11 DEF j, t, l, u

(* The highest bits of a number of n bits.                                 *)
LEMMA Within ==
  ASSUME NEW n \in Nat, NEW k \in 0 .. n, NEW x \in 0 .. Pow(n) - 1
  PROVE  Above(x, k) \in 0 .. Pow(n - k) - 1
<1> DEFINE t == Above(x, k)
           j == n - k
           q == Pow(j)
<1>1. k \in Nat /\ j \in Nat /\ j + k = n
  OBVIOUS
<1> HIDE DEF j
<1>2. Pow(n) \in Nat \ {0} /\ x \in Nat
  BY PowIs
<1>3. t \in Nat /\ x = Up(t, k) + Low(x, k) /\ Low(x, k) \in 0 .. Pow(k) - 1
  BY <1>1, <1>2, TopLow
<1>4. q \in Nat \ {0} /\ Up(q, k) = Pow(n)
  <2>1. Up(Pow(j), k) = Pow(j + k)
    BY <1>1, UpPow
  <2> QED
    BY <1>1, <2>1, PowIs
<1> HIDE DEF t, q
<1>5. Pow(k) \in Nat \ {0} /\ Up(t, k) \in Int /\ (q < t => Up(q, k) + Pow(k) <= Up(t, k))
  <2>1. t \in Int /\ q \in Int
    BY <1>3, <1>4
  <2>2. Pow(k) \in Nat \ {0}
    BY <1>1, PowIs
  <2>3. Up(t, k) \in Int
    BY <1>1, <2>1, UpInt
  <2>4. q < t => Up(q, k) + Pow(k) <= Up(t, k)
    BY <1>1, <2>1, UpOrder
  <2> QED
    BY <2>2, <2>3, <2>4
<1>6. ~(q < t) /\ t # q
  BY <1>2, <1>3, <1>4, <1>5
<1> QED
  BY <1>3, <1>4, <1>6 DEF t, q, j

(* Powers grow.                                                            *)
LEMMA PowGrows ==
  ASSUME NEW n \in Nat, NEW k \in Nat, n <= k
  PROVE  Pow(n) <= Pow(k)
<1> DEFINE j == k - n
           q == Pow(j)
<1>1. j \in Nat /\ j + n = k
  OBVIOUS
<1> HIDE DEF j
<1>2. q \in Nat \ {0} /\ Up(q, n) = Pow(k)
  <2>1. Up(Pow(j), n) = Pow(j + n)
    BY <1>1, UpPow
  <2> QED
    BY <1>1, <2>1, PowIs
<1> HIDE DEF q
<1>3. (1 < q => Up(1, n) + Pow(n) <= Up(q, n)) /\ Up(1, n) = Pow(n) /\ Pow(n) \in Nat \ {0}
  <2>1. 1 \in Int /\ q \in Int
    BY <1>2
  <2>2. 1 < q => Up(1, n) + Pow(n) <= Up(q, n)
    BY <2>1, UpOrder
  <2>3. Up(1, n) = Pow(n)
    BY UpBits
  <2>4. Pow(n) \in Nat \ {0}
    BY PowIs
  <2> QED
    BY <2>2, <2>3, <2>4
<1>4. q = 1 => Up(q, n) = Pow(n)
  BY <1>3
<1>5. Pow(k) \in Nat \ {0}
  BY PowIs
<1>6. Pow(k) = Up(q, n)
  BY <1>2
<1>7. CASE q = 1
  BY <1>3, <1>4, <1>5, <1>6, <1>7
<1>8. CASE 1 < q
  BY <1>3, <1>5, <1>6, <1>8
<1> QED
  BY <1>2, <1>7, <1>8

(* A number of n bits has nothing from the n-th bit on.                    *)
LEMMA Beyond ==
  ASSUME NEW n \in Nat, NEW k \in Nat, n <= k, NEW x \in 0 .. Pow(n) - 1
  PROVE  Above(x, k) = 0 /\ Low(x, k) = x /\ OneAt(x, k) = 0
<1>1. Pow(n) <= Pow(k) /\ Pow(n) \in Nat \ {0} /\ Pow(k) \in Nat \ {0} /\ Up(0, k) = 0
  BY PowGrows, PowIs, UpBits
<1>2. x \in 0 .. Pow(k) - 1 /\ 0 \in Nat /\ x \in Nat
  BY <1>1
<1>3. Above(Up(0, k) + x, k) = 0 /\ Low(Up(0, k) + x, k) = x
  BY <1>2, TopLowAre
<1>4. Up(0, k) + x = x
  BY <1>1, <1>2
<1>5. Above(x, k) = 0 /\ Low(x, k) = x
  BY <1>3, <1>4
<1> QED
  BY <1>5 DEF OneAt

-----------------------------------------------------------------------------
(* Bits of numbers                                                         *)

\* a condition as a number: p or nothing.
When(c, p) == IF c THEN p ELSE 0

(* Bit of the model is the bit between the upper and the lower ones.       *)
LEMMA BitIs ==
  ASSUME NEW x \in Nat, NEW k \in Nat
  PROVE  /\ Bit(x, k) \in BOOLEAN /\ OneAt(x, k) = When(Bit(x, k), 1)
         /\ Bit(x, k) = (OneAt(x, k) = 1)
<1>1. OneAt(x, k) \in 0 .. 1
  BY OneBitUp
<1>2. Bit(x, k) = (OneAt(x, k) = 1)
  BY DEF Bit, OneAt, Above, Pow
<1>3. Bit(x, k) \in BOOLEAN
  BY DEF Bit
<1>4. CASE OneAt(x, k) = 1
  <2>1. Bit(x, k)
    BY <1>2, <1>4
  <2> QED
    BY <1>2, <1>3, <1>4, <2>1 DEF When
<1>5. CASE OneAt(x, k) # 1
  <2>1. ~Bit(x, k)
    BY <1>2, <1>5
  <2>2. OneAt(x, k) = 0
    BY <1>1, <1>5
  <2> QED
    BY <1>2, <1>3, <2>1, <2>2 DEF When
<1> QED
  BY <1>4, <1>5

(* Bit zero is oddness.                                                    *)
LEMMA LowestBit ==
  ASSUME NEW x \in Nat
  PROVE  Bit(x, 0) = (x % 2 = 1)
<1>1. Above(x, 0) = x
  BY AtZero
<1> QED
  BY <1>1 DEF Bit, Above, Pow

(* The highest of n bits says which half a number is in.                   *)
LEMMA HighestBit ==
  ASSUME NEW m \in Nat, NEW y \in 0 .. Pow(m + 1) - 1
  PROVE  /\ Bit(y, m) = (y >= Pow(m)) /\ Pow(m + 1) = 2 * Pow(m)
         /\ Pow(m) \in Nat \ {0}
<1>1. Pow(m) \in Nat \ {0} /\ 0 \in Int
  BY PowIs
<1>2. Pow(m + 1) = 2 * Pow(m)
  BY <1>1, UpMore
<1>3. Up(0, m) = 0 /\ Up(1, m) = Pow(m)
  BY UpBits
<1>4. CASE y < Pow(m)
  <2>1. y \in 0 .. Pow(m) - 1 /\ 0 \in Nat
    BY <1>1, <1>2, <1>4
  <2>2. Above(Up(0, m) + y, m) = 0
    BY <2>1, TopLowAre
  <2>3. Up(0, m) + y = y
    BY <1>3, <2>1
  <2>4. Above(y, m) = 0
    BY <2>2, <2>3
  <2>5. OneAt(y, m) = 0
    BY <2>4 DEF OneAt
  <2>6. Bit(y, m) = (OneAt(y, m) = 1)
    BY DEF Bit, OneAt, Above, Pow
  <2>7. ~(y >= Pow(m)) /\ OneAt(y, m) # 1
    BY <1>1, <1>4, <2>1, <2>5
  <2>9. ~Bit(y, m) /\ Bit(y, m) \in BOOLEAN
    BY <2>6, <2>7, Zenon
  <2> DEFINE g == y >= Pow(m)
  <2>10. ~g /\ g \in BOOLEAN
    BY <2>7
  <2> HIDE DEF g
  <2>11. Bit(y, m) = g
    BY <2>9, <2>10, Zenon
  <2>8. Bit(y, m) = (y >= Pow(m))
    BY <2>11 DEF g
  <2> QED
    BY <1>1, <1>2, <2>8
<1>5. CASE ~(y < Pow(m))
  <2> DEFINE l == y - Pow(m)
  <2>1. l \in 0 .. Pow(m) - 1 /\ 1 \in Nat /\ y = Pow(m) + l
    BY <1>1, <1>2, <1>5
  <2> HIDE DEF l
  <2>2. Above(Up(1, m) + l, m) = 1
    BY <2>1, TopLowAre
  <2>3. Up(1, m) + l = y
    BY <1>3, <2>1
  <2>4. Above(y, m) = 1
    BY <2>2, <2>3
  <2>5. OneAt(y, m) = 1
    BY <2>4 DEF OneAt
  <2>6. Bit(y, m) = (OneAt(y, m) = 1)
    BY DEF Bit, OneAt, Above, Pow
  <2>7. y >= Pow(m)
    BY <1>1, <2>1
  <2>8. Bit(y, m) = (y >= Pow(m))
    BY <2>5, <2>6, <2>7, Zenon
  <2> QED
    BY <1>1, <1>2, <2>8
<1> QED
  BY <1>4, <1>5

(* A shift to the right.                                                   *)
LEMMA RightStep ==
  ASSUME NEW x \in Nat, NEW k \in Nat
  PROVE  /\ Above(x, k) = 2 * Above(x, k + 1) + When(Bit(x, k), 1)
         /\ Low(x, k + 1) = Low(x, k) + When(Bit(x, k), Pow(k))
         /\ Above(x, k) \in Nat /\ Above(x, k + 1) \in Nat
<1>1. /\ Above(x, k) = 2 * Above(x, k + 1) + OneAt(x, k)
      /\ Low(x, k + 1) = Low(x, k) + Up(OneAt(x, k), k)
  BY OneBitUp
<1>2. OneAt(x, k) = When(Bit(x, k), 1) /\ Bit(x, k) \in BOOLEAN
  BY BitIs
<1>3. Up(0, k) = 0 /\ Up(1, k) = Pow(k)
  BY UpBits
<1>4. Up(OneAt(x, k), k) = When(Bit(x, k), Pow(k))
  BY <1>2, <1>3 DEF When
<1>5. Above(x, k) \in Nat
  BY TopLow
<1>6. Above(x, k + 1) \in Nat
  <2> DEFINE j == k + 1
  <2>1. j \in Nat
    OBVIOUS
  <2> HIDE DEF j
  <2>2. Above(x, j) \in Nat
    BY <2>1, TopLow
  <2> QED
    BY <2>2 DEF j
<1> QED
  BY <1>1, <1>2, <1>4, <1>5, <1>6

(* The lower i bits of x, moved up by k, and the bit above them.           *)
LEMMA LeftStep ==
  ASSUME NEW i \in Nat, NEW k \in Nat, NEW x \in Nat
  PROVE  /\ Up(Low(x, i), k) \in Nat
         /\ Up(Low(x, i), k) + Pow(k) <= Pow(i + k)
         /\ Up(Low(x, i + 1), k) = Up(Low(x, i), k) + When(Bit(x, i), Pow(i + k))
         /\ Up(Low(x, i), k + 1) = 2 * Up(Low(x, i), k)
<1> DEFINE l == Low(x, i)
           w == When(Bit(x, i), Pow(i))
<1>1. l \in 0 .. Pow(i) - 1 /\ Low(x, i + 1) = l + w
  BY TopLow, RightStep
<1>2. Pow(i) \in Nat \ {0} /\ Bit(x, i) \in BOOLEAN
  BY PowIs, BitIs
<1>3. w \in Nat
  BY <1>2 DEF When
<1>4. Up(w, k) = When(Bit(x, i), Pow(i + k))
  <2>1. Up(Pow(i), k) = Pow(i + k)
    BY UpPow
  <2>2. Up(0, k) = 0
    BY UpBits
  <2> QED
    BY <1>2, <2>1, <2>2 DEF When
<1> HIDE DEF l, w
<1>5. l \in Int /\ w \in Int /\ l >= 0
  BY <1>1, <1>2, <1>3
<1>6. Up(l + w, k) = Up(l, k) + Up(w, k)
  BY <1>5, UpSum
<1>7. Up(l, k) \in Int /\ Up(l, k) >= 0
  BY <1>5, UpInt
<1>8. Up(l, k + 1) = 2 * Up(l, k)
  BY <1>5, UpMore
<1>9. Up(l, k) + Pow(k) <= Pow(i + k)
  <2> DEFINE q == Pow(i)
  <2>1. q \in Int /\ l < q
    BY <1>1, <1>2
  <2>2. Up(q, k) = Pow(i + k)
    BY UpPow
  <2> HIDE DEF q
  <2>3. Up(l, k) + Pow(k) <= Up(q, k)
    BY <1>5, <2>1, UpOrder
  <2> QED
    BY <2>2, <2>3
<1> QED
  BY <1>1, <1>4, <1>6, <1>7, <1>8, <1>9 DEF l
-----------------------------------------------------------------------------
\* a number of j and i bits rotated by j, to the right and to the left.
Right(x, j, i) == Above(x, j) + Up(Low(x, j), i)

Left(x, j, i) == Up(Low(x, i), j) + Above(x, i)

(* A rotate by nothing, or by the whole width, leaves the number.          *)
LEMMA RotateNone ==
  ASSUME NEW n \in Nat, NEW x \in 0 .. Pow(n) - 1
  PROVE  /\ Right(x, 0, n) = x /\ Right(x, n, 0) = x
         /\ Left(x, 0, n) = x /\ Left(x, n, 0) = x
<1>1. Pow(n) \in Nat \ {0}
  BY PowIs
<1>2. x \in Nat
  BY <1>1
<1>3. Above(x, 0) = x /\ Low(x, 0) = 0 /\ Up(x, 0) = x
  BY <1>2, AtZero
<1>4. Above(x, n) = 0 /\ Low(x, n) = x
  BY Beyond
<1>5. Up(0, n) = 0
  BY UpBits
<1> QED
  BY <1>2, <1>3, <1>4, <1>5 DEF Right, Left

(* Rotated right by j of i + j + 1 bits, and by one more.                  *)
LEMMA RotateRight ==
  ASSUME NEW i \in Nat, NEW j \in Nat, NEW x \in 0 .. Pow(i + j + 1) - 1
  PROVE  \E h \in Nat :
            /\ Right(x, j, i + 1) = 2 * h + When(Bit(x, j), 1)
            /\ Right(x, j + 1, i) = h + When(Bit(x, j), Pow(i + j))
            /\ h < Pow(i + j)
<1> DEFINE t == Above(x, j + 1)
           l == Low(x, j)
           w == When(Bit(x, j), Pow(j))
           u == Up(l, i)
<1>1. Pow(j) \in Nat \ {0} /\ x \in Nat
  BY PowIs
<1>2. /\ Above(x, j) = 2 * t + When(Bit(x, j), 1) /\ Low(x, j + 1) = l + w
      /\ t \in Nat
  BY <1>1, RightStep
<1>3. l \in 0 .. Pow(j) - 1 /\ Bit(x, j) \in BOOLEAN
  BY <1>1, TopLow, BitIs
<1>4. w \in Nat
  BY <1>1, <1>3 DEF When
<1>5. Up(w, i) = When(Bit(x, j), Pow(i + j))
  <2>1. Up(Pow(j), i) = Pow(j + i)
    BY UpPow
  <2>2. Up(0, i) = 0
    BY UpBits
  <2>3. j + i = i + j
    OBVIOUS
  <2> QED
    BY <1>3, <2>1, <2>2, <2>3 DEF When
<1>6. t < Pow(i)
  <2> DEFINE n == i + j + 1
             m == j + 1
  <2>1. n \in Nat /\ m \in 0 .. n /\ x \in 0 .. Pow(n) - 1 /\ n - m = i
    OBVIOUS
  <2> HIDE DEF n, m
  <2>2. Above(x, m) \in 0 .. Pow(n - m) - 1
    BY <2>1, Within
  <2>3. Above(x, m) \in 0 .. Pow(i) - 1
    BY <2>1, <2>2
  <2>4. t \in 0 .. Pow(i) - 1
    BY <2>3 DEF m
  <2>5. Pow(i) \in Nat
    BY PowIs
  <2> QED
    BY <2>4, <2>5
<1> HIDE DEF t, l, w
<1>7. l \in Int /\ w \in Int /\ l >= 0 /\ Pow(i) \in Nat
  BY <1>1, <1>3, <1>4, PowIs
<1>8. Up(l + w, i) = u + Up(w, i)
  BY <1>7, UpSum
<1>9. u \in Int /\ u >= 0
  BY <1>7, UpInt
<1>10. Up(l, i + 1) = 2 * u
  BY <1>7, UpMore
<1>11. u + Pow(i) <= Pow(j + i)
  <2>1. l < Pow(j) /\ Pow(j) \in Int
    BY <1>1, <1>3
  <2>2. Up(Pow(j), i) = Pow(j + i)
    BY UpPow
  <2> DEFINE q == Pow(j)
  <2> HIDE DEF q
  <2>3. l < q /\ q \in Int
    BY <2>1 DEF q
  <2>4. u + Pow(i) <= Up(q, i)
    BY <1>7, <2>3, UpOrder
  <2> QED
    BY <2>2, <2>4 DEF q
<1>12. Pow(j + i) = Pow(i + j) /\ Pow(i + j) \in Nat
  <2> DEFINE m == i + j
  <2>1. m \in Nat /\ j + i = m
    OBVIOUS
  <2> HIDE DEF m
  <2>2. Pow(m) \in Nat
    BY <2>1, PowIs
  <2> QED
    BY <2>1, <2>2 DEF m
<1> HIDE DEF u
<1> DEFINE h == t + u
<1>13. h \in Nat /\ h < Pow(i + j)
  BY <1>2, <1>6, <1>7, <1>9, <1>11, <1>12
<1>14. Right(x, j, i + 1) = 2 * h + When(Bit(x, j), 1)
  <2>1. Right(x, j, i + 1) = 2 * t + When(Bit(x, j), 1) + 2 * u
    BY <1>2, <1>10 DEF Right, l
  <2>2. When(Bit(x, j), 1) \in Int
    BY <1>3 DEF When
  <2> QED
    BY <1>2, <1>9, <2>1, <2>2
<1>15. Right(x, j + 1, i) = h + When(Bit(x, j), Pow(i + j))
  <2>1. Right(x, j + 1, i) = t + (u + When(Bit(x, j), Pow(i + j)))
    BY <1>2, <1>5, <1>8 DEF Right, t
  <2>2. When(Bit(x, j), Pow(i + j)) \in Int
    BY <1>3, <1>12 DEF When
  <2> QED
    BY <1>2, <1>9, <2>1, <2>2
<1> QED
  BY <1>13, <1>14, <1>15

(* A rotate by one bit more to the left: the highest bit is the next lowest.*)
LEMMA RotateLeft ==
  ASSUME NEW i \in Nat, NEW j \in Nat, NEW x \in 0 .. Pow(i + j + 1) - 1
  PROVE  \E h \in Nat :
            /\ Left(x, j, i + 1) = h + When(Bit(x, i), Pow(i + j))
            /\ Left(x, j + 1, i) = 2 * h + When(Bit(x, i), 1)
            /\ h < Pow(i + j)
<1> DEFINE t == Above(x, i + 1)
           u == Up(Low(x, i), j)
<1>1. x \in Nat /\ i + j \in Nat
  <2> DEFINE n == i + j + 1
  <2>1. n \in Nat
    OBVIOUS
  <2> HIDE DEF n
  <2>2. Pow(n) \in Nat
    BY <2>1, PowIs
  <2> QED
    BY <2>2 DEF n
<1>2. Above(x, i) = 2 * t + When(Bit(x, i), 1) /\ t \in Nat
  BY <1>1, RightStep
<1>3. /\ u \in Nat /\ u + Pow(j) <= Pow(i + j)
      /\ Up(Low(x, i + 1), j) = u + When(Bit(x, i), Pow(i + j))
      /\ Up(Low(x, i), j + 1) = 2 * u
  BY <1>1, LeftStep
<1>4. Bit(x, i) \in BOOLEAN /\ Pow(j) \in Nat
  BY <1>1, BitIs, PowIs
<1>5. t < Pow(j)
  <2> DEFINE n == i + j + 1
             m == i + 1
  <2>1. n \in Nat /\ m \in 0 .. n /\ x \in 0 .. Pow(n) - 1 /\ n - m = j
    OBVIOUS
  <2> HIDE DEF n, m
  <2>2. Above(x, m) \in 0 .. Pow(n - m) - 1
    BY <2>1, Within
  <2>3. Above(x, m) \in 0 .. Pow(j) - 1
    BY <2>1, <2>2
  <2>4. t \in 0 .. Pow(j) - 1
    BY <2>3 DEF m
  <2> QED
    BY <1>4, <2>4
<1>6. Pow(i + j) \in Nat
  <2> DEFINE m == i + j
  <2>1. m \in Nat
    OBVIOUS
  <2> HIDE DEF m
  <2>2. Pow(m) \in Nat
    BY <2>1, PowIs
  <2> QED
    BY <2>2 DEF m
<1> HIDE DEF t, u
<1> DEFINE h == u + t
<1>7. h \in Nat /\ h < Pow(i + j)
  BY <1>2, <1>3, <1>4, <1>5, <1>6
<1>8. Left(x, j, i + 1) = h + When(Bit(x, i), Pow(i + j))
  <2>1. Left(x, j, i + 1) = u + When(Bit(x, i), Pow(i + j)) + t
    BY <1>3 DEF Left, t
  <2>2. When(Bit(x, i), Pow(i + j)) \in Int
    BY <1>4, <1>6 DEF When
  <2> QED
    BY <1>2, <1>3, <2>1, <2>2
<1>9. Left(x, j + 1, i) = 2 * h + When(Bit(x, i), 1)
  <2>1. Left(x, j + 1, i) = 2 * u + (2 * t + When(Bit(x, i), 1))
    BY <1>2, <1>3 DEF Left
  <2>2. When(Bit(x, i), 1) \in Int
    BY <1>4 DEF When
  <2> QED
    BY <1>2, <1>3, <2>1, <2>2
<1> QED
  BY <1>7, <1>8, <1>9

-----------------------------------------------------------------------------
(* One bit, by the definition                                              *)

(* What Result holds.                                                      *)
LEMMA ResultHas ==
  ASSUME NEW res, NEW n, NEW x, NEW v, NEW c, NEW o, o = Result(res, n, x, v, c)
  PROVE  /\ o.value = res /\ o.ccr.X = x /\ o.ccr.V = v /\ o.ccr.C = c
         /\ o.ccr.N = Msb(res, n) /\ o.ccr.Z = (res = 0)
  BY DEF Result

(* A condition as a number is a number, and AsOne is a case of it.         *)
LEMMA WhenIs ==
  ASSUME NEW c \in BOOLEAN, NEW p \in Nat
  PROVE  /\ When(c, p) \in Nat /\ When(c, p) <= p
         /\ (c => When(c, p) = p) /\ (~c => When(c, p) = 0)
         /\ AsOne(c) = When(c, 1) /\ p * AsOne(c) = When(c, p)
<1>1. CASE c
  <2>1. When(c, p) = p /\ AsOne(c) = 1 /\ When(c, 1) = 1
    BY <1>1 DEF When, AsOne
  <2>2. When(c, p) \in Nat /\ When(c, p) <= p /\ p * AsOne(c) = When(c, p)
    BY <2>1
  <2> QED
    BY <1>1, <2>1, <2>2, Zenon
<1>2. CASE ~c
  <2>1. When(c, p) = 0 /\ AsOne(c) = 0 /\ When(c, 1) = 0
    BY <1>2 DEF When, AsOne
  <2>2. When(c, p) \in Nat /\ When(c, p) <= p /\ p * AsOne(c) = When(c, p)
    BY <2>1
  <2> QED
    BY <1>2, <2>1, <2>2, Zenon
<1> QED
  BY <1>1, <1>2

(* The double of a number and a bit: halved, and its lowest bit.           *)
LEMMA LowestOf ==
  ASSUME NEW h \in Nat, NEW c \in BOOLEAN, NEW res, res = 2 * h + When(c, 1)
  PROVE  res \in Nat /\ res \div 2 = h /\ Bit(res, 0) = c
<1>1. When(c, 1) \in 0 .. 1 /\ (c => When(c, 1) = 1) /\ (~c => When(c, 1) = 0)
  BY WhenIs
<1>2. res \in Nat /\ res \div 2 = h /\ res % 2 = When(c, 1)
  BY <1>1
<1>3. Bit(res, 0) = (res % 2 = 1)
  BY <1>2, LowestBit
<1>4. CASE c
  <2>1. res % 2 = 1
    BY <1>1, <1>2, <1>4
  <2> QED
    BY <1>2, <1>3, <1>4, <2>1
<1>5. CASE ~c
  <2>1. res % 2 # 1
    BY <1>1, <1>2, <1>5
  <2>2. ~Bit(res, 0) /\ Bit(res, 0) \in BOOLEAN
    BY <1>3, <2>1, Zenon
  <2>3. Bit(res, 0) = c
    BY <1>5, <2>2, Zenon
  <2> QED
    BY <1>2, <2>3
<1> QED
  BY <1>4, <1>5

(* OneBit to the right, of a number given by its lowest bit.               *)
LEMMA OneBitRight ==
  ASSUME NEW op \in Shifts \ Leftwards, NEW m \in Nat, NEW n, n = m + 1,
         NEW h \in Nat, NEW c \in BOOLEAN, NEW res, res = 2 * h + When(c, 1),
         NEW f, NEW e \in BOOLEAN, Entering(op, res, f, n) = e
  PROVE  Leaving(op, res, n) = c /\ OneBit(op, res, f, n) = h + When(e, Pow(m))
<1>1. res \in Nat /\ res \div 2 = h /\ Bit(res, 0) = c
  BY LowestOf
<1>2. n - 1 = m
  OBVIOUS
<1>3. Leaving(op, res, n) = c
  BY <1>1 DEF Leaving
<1>4. OneBit(op, res, f, n) = (res \div 2) + 2^(n - 1) * AsOne(e)
  BY DEF OneBit
<1>5. Pow(m) * AsOne(e) = When(e, Pow(m)) /\ Pow(m) = 2^m
  BY PowIs, WhenIs DEF Pow
<1>6. OneBit(op, res, f, n) = h + When(e, Pow(m))
  BY <1>1, <1>2, <1>4, <1>5
<1> QED
  BY <1>3, <1>6

(* A number given by its highest bit.                                      *)
LEMMA SignOf ==
  ASSUME NEW m \in Nat, NEW n, n = m + 1, NEW h \in Nat, h < Pow(m),
         NEW c \in BOOLEAN, NEW res, res = h + When(c, Pow(m))
  PROVE  Msb(res, n) = c /\ res \in 0 .. Pow(n) - 1
<1> DEFINE p == Pow(m)
<1>1. p \in Nat \ {0}
  BY PowIs
<1>2. When(c, p) \in Nat /\ (c => When(c, p) = p) /\ (~c => When(c, p) = 0)
  BY <1>1, WhenIs
<1>3. Pow(n) = 2 * p
  BY <1>1, UpMore
<1>4. n - 1 = m /\ n \in Nat
  OBVIOUS
<1>5. h < p
  OBVIOUS
<1>6. res = h + When(c, p)
  OBVIOUS
<1> HIDE DEF p
<1>7. res \in 0 .. Pow(n) - 1 /\ (res >= p) = c
  <2>1. CASE c
    <3>2. res = h + p
      BY <1>2, <1>6, <2>1
    <3>1. res >= p /\ res \in 0 .. Pow(n) - 1
      BY <1>1, <1>3, <1>5, <3>2
    <3> QED
      BY <2>1, <3>1
  <2>2. CASE ~c
    <3>2. res = h + 0
      BY <1>2, <1>6, <2>2
    <3>1. ~(res >= p) /\ res \in 0 .. Pow(n) - 1
      BY <1>1, <1>3, <1>5, <3>2
    <3> QED
      BY <2>2, <3>1
  <2> QED
    BY <2>1, <2>2
<1>8. Bit(res, m) = (res >= p)
  BY <1>7, HighestBit DEF p
<1>9. Msb(res, n) = c
  <2>1. Bit(res, m) = c
    BY <1>7, <1>8
  <2> QED
    BY <1>4, <2>1 DEF Msb
<1> QED
  BY <1>7, <1>9

(* OneBit to the left, of a number given by its highest bit.               *)
LEMMA OneBitLeft ==
  ASSUME NEW op \in Leftwards, NEW m \in Nat, NEW n, n = m + 1,
         NEW h \in Nat, h < Pow(m), NEW c \in BOOLEAN, NEW res, res = h + When(c, Pow(m)),
         NEW f, NEW e \in BOOLEAN, Entering(op, res, f, n) = e
  PROVE  /\ Leaving(op, res, n) = c /\ Msb(res, n) = c
         /\ OneBit(op, res, f, n) = 2 * h + When(e, 1)
<1> DEFINE p == Pow(m)
<1>1. p \in Nat \ {0}
  BY PowIs
<1>2. When(c, p) \in Nat /\ (c => When(c, p) = p) /\ (~c => When(c, p) = 0)
  BY <1>1, WhenIs
<1>3. Pow(n) = 2 * p
  BY <1>1, UpMore
<1>4. n - 1 = m /\ n \in Nat
  OBVIOUS
<1>5. h < p
  OBVIOUS
<1>6. res = h + When(c, p)
  OBVIOUS
<1> HIDE DEF p
<1>9. Msb(res, n) = c
  BY SignOf
<1>10. Leaving(op, res, n) = c
  BY <1>9 DEF Leaving
<1>11. (2 * res) % Pow(n) = 2 * h
  <2> DEFINE q == 2 * p
             g == 2 * h
  <2>1. q \in Nat \ {0} /\ g \in 0 .. q - 1 /\ Pow(n) = q
    BY <1>1, <1>3, <1>5
  <2>2. 2 * res = g \/ 2 * res = q + g
    BY <1>1, <1>2, <1>6
  <2> HIDE DEF q, g
  <2>3. q * 0 = 0 /\ q * 1 = q
    BY <2>1
  <2>4. 0 \in Int /\ 1 \in Int
    OBVIOUS
  <2>5. (q * 0 + g) % q = g
    BY <2>1, <2>4, DivModUnique
  <2>6. (q * 1 + g) % q = g
    BY <2>1, <2>4, DivModUnique
  <2>7. 0 + g = g
    BY <2>1
  <2>8. (2 * res) % q = g
    BY <2>2, <2>3, <2>5, <2>6, <2>7
  <2> QED
    BY <2>1, <2>8 DEF g
<1>12. OneBit(op, res, f, n) = ((2 * res) % 2^n) + AsOne(e)
  BY DEF OneBit
<1>13. AsOne(e) = When(e, 1)
  BY WhenIs
<1>14. OneBit(op, res, f, n) = 2 * h + When(e, 1)
  BY <1>11, <1>12, <1>13 DEF Pow
<1> QED
  BY <1>9, <1>10, <1>14

-----------------------------------------------------------------------------
(* Logical shifts to the right                                             *)

\* p is what o becomes by one bit more
Further(op, o, p, n, lost) ==
    LET out == Leaving(op, o.value, n)
    IN  /\ p.value = OneBit(op, o.value, o.ccr, n)
        /\ p.ccr.N = Msb(p.value, n) /\ p.ccr.Z = (p.value = 0)
        /\ p.ccr.C = out \/ lost
        /\ p.ccr.X = IF op \in {"ror", "rol"} THEN o.ccr.X ELSE out
        /\ p.ccr.V = (op = "asl" /\ (o.ccr.V \/ Msb(o.value, n) # Msb(p.value, n)))

(* An outcome that is put together as OneBitMore asks is a bit further.    *)
LEMMA FurtherBy ==
  ASSUME NEW op, NEW o, NEW p, NEW n, NEW w, NEW x, NEW v, NEW c, NEW lost \in BOOLEAN,
         p = Result(w, n, x, v, c),
         w = OneBit(op, o.value, o.ccr, n),
         c = Leaving(op, o.value, n) \/ lost,
         x = IF op \in {"ror", "rol"} THEN o.ccr.X ELSE Leaving(op, o.value, n),
         v = (op = "asl" /\ (o.ccr.V \/ Msb(o.value, n) # Msb(w, n)))
  PROVE  Further(op, o, p, n, lost)
<1>1. /\ p.value = w /\ p.ccr.X = x /\ p.ccr.V = v /\ p.ccr.C = c
      /\ p.ccr.N = Msb(w, n) /\ p.ccr.Z = (w = 0)
  BY ResultHas
<1> QED
  BY <1>1 DEF Further

(* The same to the right, where the lowest bit leaves.                     *)
LEMMA FurtherRight ==
  ASSUME NEW op \in Shifts \ Leftwards, NEW m \in Nat, NEW n, n = m + 1,
         NEW h \in Nat, NEW c \in BOOLEAN, NEW e \in BOOLEAN, NEW lost \in BOOLEAN,
         NEW o, o.value = 2 * h + When(c, 1), Entering(op, o.value, o.ccr, n) = e,
         NEW px, px = IF op \in {"ror", "rol"} THEN o.ccr.X ELSE c,
         NEW pc, pc = c \/ lost,
         NEW p, p = Result(h + When(e, Pow(m)), n, px, FALSE, pc)
  PROVE  Further(op, o, p, n, lost)
<1> DEFINE res == o.value
           g == o.ccr
           w == h + When(e, Pow(m))
<1>1. res = 2 * h + When(c, 1) /\ Entering(op, res, g, n) = e /\ w = h + When(e, Pow(m))
  OBVIOUS
<1> HIDE DEF res, g, w
<1>2. Leaving(op, res, n) = c /\ OneBit(op, res, g, n) = w
  BY <1>1, OneBitRight
<1>3. op # "asl"
  BY DEF Leftwards
<1>4. FALSE = (op = "asl" /\ (o.ccr.V \/ Msb(o.value, n) # Msb(w, n)))
  BY <1>3
<1>5. p = Result(w, n, px, FALSE, pc)
  BY DEF w
<1>6. w = OneBit(op, o.value, o.ccr, n) /\ Leaving(op, o.value, n) = c
  BY <1>2 DEF res, g
<1> QED
  BY <1>4, <1>5, <1>6, FurtherBy

(* The same to the left, where the highest bit leaves.                     *)
LEMMA FurtherLeft ==
  ASSUME NEW op \in Leftwards, NEW m \in Nat, NEW n, n = m + 1,
         NEW h \in Nat, h < Pow(m), NEW c \in BOOLEAN, NEW e \in BOOLEAN,
         NEW lost \in BOOLEAN,
         NEW o, o.value = h + When(c, Pow(m)), Entering(op, o.value, o.ccr, n) = e,
         NEW px, px = IF op \in {"ror", "rol"} THEN o.ccr.X ELSE c,
         NEW pc, pc = c \/ lost,
         NEW w, w = 2 * h + When(e, 1),
         NEW pv, pv = (op = "asl" /\ (o.ccr.V \/ c # Msb(w, n))),
         NEW p, p = Result(w, n, px, pv, pc)
  PROVE  Further(op, o, p, n, lost)
<1> DEFINE res == o.value
           g == o.ccr
<1>1. res = h + When(c, Pow(m)) /\ Entering(op, res, g, n) = e
  OBVIOUS
<1> HIDE DEF res, g
<1>2. Leaving(op, res, n) = c /\ Msb(res, n) = c /\ OneBit(op, res, g, n) = w
  BY <1>1, OneBitLeft
<1>6. /\ w = OneBit(op, o.value, o.ccr, n) /\ Leaving(op, o.value, n) = c
      /\ Msb(o.value, n) = c
  BY <1>2 DEF res, g
<1> QED
  BY <1>6, FurtherBy

\* a bit beyond the operand
LEMMA BitBeyond ==
  ASSUME NEW n \in Nat, NEW k \in Nat, n <= k, NEW x \in 0 .. Pow(n) - 1
  PROVE  ~Bit(x, k) /\ Bit(x, k) = FALSE
<1>1. OneAt(x, k) = 0 /\ Pow(n) \in Nat
  BY Beyond, PowIs
<1>2. x \in Nat
  BY <1>1
<1>3. Bit(x, k) = (OneAt(x, k) = 1) /\ Bit(x, k) \in BOOLEAN
  BY <1>2, BitIs
<1>4. OneAt(x, k) # 1
  BY <1>1
<1> QED
  BY <1>3, <1>4, Zenon

(* LSR leaves the upper bits, and the last one cut off in C, at every count.*)
LEMMA LsrIs ==
  ASSUME NEW n \in Nat \ {0}, NEW k \in Nat, NEW x \in 0 .. Pow(n) - 1, NEW f
  PROVE  /\ lsr_r(x, k, n, f).value = Above(x, k)
         /\ k > 0 => lsr_r(x, k, n, f)
                       = Result(Above(x, k), n, Bit(x, k - 1), FALSE, Bit(x, k - 1))
<1> DEFINE o == lsr_r(x, k, n, f)
<1>1. CASE k = 0
  <2>1. lsr_r(x, k, n, f) = ByNone(x, n, f)
    BY <1>1 DEF lsr_r
  <2>2. lsr_r(x, k, n, f).value = x
    BY <2>1 DEF ByNone, Result
  <2>3. Pow(n) \in Nat
    BY PowIs
  <2>4. x \in Nat
    BY <2>3
  <2>5. Above(x, 0) = x
    BY <2>4, AtZero
  <2> QED
    BY <1>1, <2>2, <2>5
<1>2. CASE k \in 1 .. n
  <2>1. k # 0 /\ k <= n
    BY <1>2
  <2>2. lsr_r(x, k, n, f) = lsr_s(x, k, n, f)
    BY <2>1 DEF lsr_r
  <2>3. LSR(x, k) = Above(x, k)
    BY DEF LSR, Above, Pow
  <2>4. lsr_r(x, k, n, f) = Result(Above(x, k), n, Bit(x, k - 1), FALSE, Bit(x, k - 1))
    BY <2>2, <2>3 DEF lsr_s
  <2> HIDE DEF o
  <2>5. o = Result(Above(x, k), n, Bit(x, k - 1), FALSE, Bit(x, k - 1))
    BY <2>4 DEF o
  <2>6. o.value = Above(x, k)
    BY <2>5 DEF Result
  <2> QED
    BY <2>5, <2>6 DEF o
<1>3. CASE k > n
  <2> DEFINE i == k - 1
  <2>1. i \in Nat /\ n <= i /\ n <= k /\ n \in Nat /\ ~(k <= n) /\ k # 0
    BY <1>3
  <2> HIDE DEF i
  <2>2. Bit(x, i) = FALSE
    BY <2>1, BitBeyond
  <2>3. Above(x, k) = 0
    BY <2>1, Beyond
  <2>4. lsr_r(x, k, n, f) = Result(0, n, FALSE, FALSE, FALSE)
    BY <2>1 DEF lsr_r
  <2>5. lsr_r(x, k, n, f) = Result(Above(x, k), n, Bit(x, i), FALSE, Bit(x, i))
    BY <2>2, <2>3, <2>4
  <2> HIDE DEF o
  <2>6. o = Result(Above(x, k), n, Bit(x, i), FALSE, Bit(x, i))
    BY <2>5 DEF o
  <2>7. o.value = Above(x, k)
    BY <2>6 DEF Result
  <2> QED
    BY <2>5, <2>7 DEF i, o
<1>4. k = 0 \/ k \in 1 .. n \/ k > n
  OBVIOUS
<1> QED
  BY <1>1, <1>2, <1>3, <1>4

(* LSR by k + 1 is LSR by k and one bit more.                              *)
LEMMA LsrFurther ==
  ASSUME NEW n \in Nat \ {0}, NEW k \in Nat, NEW x \in 0 .. Pow(n) - 1, NEW f
  PROVE  Further("lsr", lsr_r(x, k, n, f), lsr_r(x, k + 1, n, f), n, FALSE)
<1> DEFINE o == lsr_r(x, k, n, f)
           j == k + 1
           p == lsr_r(x, j, n, f)
           h == Above(x, j)
           c == Bit(x, k)
           m == n - 1
           e == Entering("lsr", o.value, o.ccr, n)
<1>1. j \in Nat /\ j > 0 /\ j - 1 = k /\ m \in Nat /\ n = m + 1 /\ Pow(n) \in Nat
  BY PowIs
<1>2. x \in Nat
  BY <1>1
<1>3. o.value = Above(x, k)
  BY LsrIs
<1>4. Above(x, k) = 2 * h + When(c, 1) /\ h \in Nat /\ c \in BOOLEAN
  BY <1>2, RightStep, BitIs
<1> HIDE DEF j, m
<1>5. p = Result(h, n, Bit(x, j - 1), FALSE, Bit(x, j - 1))
  BY <1>1, LsrIs, ZenonT(40)
<1>6. p = Result(h, n, c, FALSE, c)
  BY <1>1, <1>5
<1>7. "lsr" \in Shifts \ Leftwards /\ "lsr" \notin {"ror", "rol"}
  BY DEF Shifts, Leftwards
<1>8. e = FALSE
  BY DEF Entering
<1> HIDE DEF o, p, h, c, e
<1>9. h + When(e, Pow(m)) = h
  BY <1>4, <1>8 DEF When
<1>10. o.value = 2 * h + When(c, 1) /\ p = Result(h + When(e, Pow(m)), n, c, FALSE, c)
  BY <1>3, <1>4, <1>6, <1>9
<1>11. e \in BOOLEAN /\ Entering("lsr", o.value, o.ccr, n) = e
  BY <1>8 DEF e
<1>12. Further("lsr", o, p, n, FALSE)
  BY <1>1, <1>4, <1>7, <1>10, <1>11, FurtherRight, ZenonT(40)
<1> QED
  BY <1>12 DEF o, p, j

-----------------------------------------------------------------------------
(* Arithmetic shifts to the right                                          *)

\* the bits an arithmetic shift leaves below those it fills
Kept(k, n) == Pow(IF k < n THEN n - k ELSE 0)

Filled(x, k, n) == Above(x, k) + When(Msb(x, n), Pow(n) - Kept(k, n))

(* The sign of a number of n bits.                                         *)
LEMMA MsbIs ==
  ASSUME NEW n \in Nat \ {0}, NEW x \in 0 .. Pow(n) - 1
  PROVE  /\ x \in Nat /\ Msb(x, n) = Bit(x, n - 1) /\ Msb(x, n) \in BOOLEAN
         /\ Msb(x, n) = (x >= Pow(n - 1)) /\ Pow(n) = 2 * Pow(n - 1)
         /\ n - 1 \in Nat /\ n = (n - 1) + 1 /\ Pow(n - 1) \in Nat \ {0}
<1> DEFINE m == n - 1
<1>1. m \in Nat /\ n = m + 1 /\ n \in Nat
  OBVIOUS
<1>2. Pow(n) \in Nat
  BY PowIs
<1>3. x \in Nat
  BY <1>2
<1>4. Msb(x, n) = Bit(x, m)
  BY DEF Msb
<1> HIDE DEF m
<1>5. x \in 0 .. Pow(m + 1) - 1
  BY <1>1
<1>6. Bit(x, m) = (x >= Pow(m)) /\ Pow(m + 1) = 2 * Pow(m) /\ Pow(m) \in Nat \ {0}
  BY <1>1, <1>5, HighestBit
<1>7. Bit(x, m) \in BOOLEAN
  BY <1>1, <1>3, BitIs
<1>8. Msb(x, n) \in BOOLEAN /\ Msb(x, n) = (x >= Pow(m))
  BY <1>4, <1>6, <1>7
<1> QED
  BY <1>1, <1>3, <1>4, <1>6, <1>8 DEF m

(* What Kept is at its ends.                                               *)
LEMMA KeptIs ==
  ASSUME NEW n \in Nat \ {0}, NEW k \in Nat
  PROVE  /\ Kept(k, n) \in Nat \ {0} /\ Kept(k, n) <= Pow(n)
         /\ k = 0 => Kept(k, n) = Pow(n)
         /\ k >= n => Kept(k, n) = 1
<1> DEFINE g == IF k < n THEN n - k ELSE 0
<1>1. g \in Nat /\ g <= n /\ n \in Nat /\ (k = 0 => g = n) /\ (k >= n => g = 0)
  OBVIOUS
<1>2. Kept(k, n) = Pow(g)
  BY DEF Kept
<1> HIDE DEF g
<1>3. Pow(g) \in Nat \ {0}
  BY <1>1, PowIs
<1>4. Pow(g) <= Pow(n)
  BY <1>1, PowGrows
<1>5. Pow(0) = 1
  BY PowerOfOne DEF Pow
<1> QED
  BY <1>1, <1>2, <1>3, <1>4, <1>5

(* ASR leaves the upper bits below the copies of the sign.                 *)
LEMMA AsrIs ==
  ASSUME NEW n \in Nat \ {0}, NEW k \in Nat, NEW x \in 0 .. Pow(n) - 1, NEW f
  PROVE  LET c == IF k <= n THEN Bit(x, k - 1) ELSE Msb(x, n)
         IN  /\ asr_r(x, k, n, f).value = Filled(x, k, n)
             /\ k > 0 => asr_r(x, k, n, f) = Result(Filled(x, k, n), n, c, FALSE, c)
<1> DEFINE o == asr_r(x, k, n, f)
           s == Msb(x, n)
           v == Filled(x, k, n)
<1>1. x \in Nat /\ s \in BOOLEAN /\ s = Bit(x, n - 1) /\ n \in Nat /\ Pow(n) \in Nat
  BY MsbIs, PowIs
<1>2. v = Above(x, k) + When(s, Pow(n) - Kept(k, n))
  BY DEF Filled
<1>3. Above(x, k) \in Nat
  BY <1>1, TopLow
<1>4. /\ Kept(k, n) \in Nat \ {0} /\ Kept(k, n) <= Pow(n)
      /\ (k = 0 => Kept(k, n) = Pow(n)) /\ (k >= n => Kept(k, n) = 1)
  BY KeptIs
<1>5. CASE k = 0
  <2>1. o = ByNone(x, n, f)
    BY <1>5 DEF asr_r
  <2>2. o.value = x
    BY <2>1 DEF ByNone, Result
  <2>3. Above(x, 0) = x
    BY <1>1, AtZero
  <2>4. When(s, 0) = 0
    BY DEF When
  <2>5. Pow(n) - Kept(k, n) = 0
    BY <1>1, <1>4, <1>5
  <2>6. v = x + 0
    BY <1>2, <1>5, <2>3, <2>4, <2>5
  <2>7. o.value = v
    BY <1>1, <2>2, <2>6
  <2> QED
    BY <1>5, <2>7
<1>6. CASE k \in 1 .. n - 1
  <2>1. k # 0 /\ k < n /\ k <= n
    BY <1>6
  <2>2. o = asr_s(x, k, n, f)
    BY <2>1 DEF asr_r
  <2>3. LSR(x, k) = Above(x, k)
    BY DEF LSR, Above, Pow
  <2>4. shift_table(k, n) = Pow(n) - Kept(k, n)
    BY <2>1 DEF shift_table, Pow, Kept
  <2>5. v = LSR(x, k) + (IF s THEN shift_table(k, n) ELSE 0)
    BY <1>2, <2>3, <2>4 DEF When
  <2>6. o = Result(v, n, Bit(x, k - 1), FALSE, Bit(x, k - 1))
    BY <2>2, <2>5 DEF asr_s
  <2> HIDE DEF o, v
  <2>7. o.value = v
    BY <2>6 DEF Result
  <2> QED
    BY <2>1, <2>6, <2>7 DEF o, v
<1>7. CASE k >= n
  <2>1. k # 0 /\ ~(k < n)
    BY <1>7
  <2>2. o = Result(IF s THEN 2^n - 1 ELSE 0, n, s, FALSE, s)
    BY <2>1 DEF asr_r
  <2>3. Above(x, k) = 0
    BY <1>1, <1>7, Beyond
  <2>4. v = 0 + (IF s THEN Pow(n) - 1 ELSE 0)
    BY <1>2, <1>4, <1>7, <2>3 DEF When
  <2>5. v = IF s THEN Pow(n) - 1 ELSE 0
    BY <1>1, <2>4
  <2>6. o = Result(v, n, s, FALSE, s)
    BY <2>2, <2>5 DEF Pow
  <2>7. k <= n => Bit(x, k - 1) = s
    BY <1>1, <1>7
  <2> HIDE DEF o, v, s
  <2>8. o.value = v
    BY <2>6 DEF Result
  <2>9. s = IF k <= n THEN Bit(x, k - 1) ELSE s
    BY <2>7
  <2> QED
    BY <2>6, <2>8, <2>9 DEF o, v, s
<1>8. k = 0 \/ k \in 1 .. n - 1 \/ k >= n
  OBVIOUS
<1> QED
  BY <1>5, <1>6, <1>7, <1>8

(* What an arithmetic shift leaves keeps the sign, and one bit more goes   *)
(* out at the other end.                                                   *)
LEMMA FilledStep ==
  ASSUME NEW n \in Nat \ {0}, NEW k \in Nat, NEW x \in 0 .. Pow(n) - 1
  PROVE  \E h \in Nat :
            LET c == IF k < n THEN Bit(x, k) ELSE Msb(x, n)
            IN  /\ Filled(x, k, n) = 2 * h + When(c, 1)
                /\ Filled(x, k + 1, n) = h + When(Msb(x, n), Pow(n - 1))
                /\ Msb(Filled(x, k, n), n) = Msb(x, n)
<1> DEFINE m == n - 1
           s == Msb(x, n)
           v == Filled(x, k, n)
           w == Filled(x, k + 1, n)
           P == Pow(m)
           t == Above(x, k)
           u == Above(x, k + 1)
<1>1. /\ m \in Nat /\ n = m + 1 /\ n \in Nat /\ x \in Nat /\ s \in BOOLEAN
      /\ P \in Nat \ {0} /\ Pow(n) = 2 * P /\ s = (x >= P)
  BY MsbIs
<1>2. v = t + When(s, Pow(n) - Kept(k, n)) /\ w = u + When(s, Pow(n) - Kept(k + 1, n))
  BY DEF Filled
<1>3. t = 2 * u + When(Bit(x, k), 1) /\ t \in Nat /\ u \in Nat /\ Bit(x, k) \in BOOLEAN
  BY <1>1, RightStep, BitIs
<1>4. \A y \in 0 .. 2 * P - 1 :
         Msb(y, n) \in BOOLEAN /\ (y >= P => Msb(y, n)) /\ (~(y >= P) => ~Msb(y, n))
  BY <1>1, MsbIs
<1> HIDE DEF m, s, v, w, P, t, u
<1>5. CASE k < n
  <2> DEFINE i == m - k
             K == Pow(i)
             c == Bit(x, k)
             h == u + When(s, P - K)
             d == When(c, 1)
  <2>1. i \in Nat /\ i <= m /\ n - k = i + 1 /\ (k > 0 => i + 1 <= m) /\ k \in 0 .. n
    BY <1>1, <1>5
  <2> HIDE DEF i
  <2>2. K \in Nat \ {0} /\ Pow(i + 1) = 2 * K
    BY <2>1, UpMore, PowIs
  <2>3. K <= P
    BY <1>1, <2>1, PowGrows DEF P
  <2>4. k > 0 => 2 * K <= P
    <3> DEFINE g == i + 1
    <3>1. g \in Nat
      BY <2>1
    <3>2. g <= m => Pow(g) <= Pow(m)
      BY <1>1, <3>1, PowGrows
    <3> QED
      BY <2>1, <2>2, <3>2 DEF P
  <2>5. Kept(k, n) = 2 * K
    BY <1>5, <2>1, <2>2 DEF Kept
  <2>6. Kept(k + 1, n) = K
    <3>1. (IF k + 1 < n THEN n - (k + 1) ELSE 0) = i
      BY <1>1, <1>5, <2>1
    <3> QED
      BY <3>1 DEF Kept
  <2>7. t < 2 * K
    <3>1. t \in 0 .. Pow(n - k) - 1
      BY <1>1, <2>1, Within DEF t
    <3> QED
      BY <2>1, <2>2, <3>1
  <2>8. d \in 0 .. 1
    BY <1>3 DEF When
  <2> HIDE DEF K, c, d
  <2>9. CASE s
    <3>1. When(s, Pow(n) - 2 * K) = 2 * P - 2 * K /\ When(s, Pow(n) - K) = 2 * P - K
          /\ When(s, P - K) = P - K /\ When(s, P) = P
      BY <1>1, <2>9 DEF When
    <3>2. v = t + (2 * P - 2 * K) /\ w = u + (2 * P - K) /\ h = u + (P - K)
      BY <1>2, <2>5, <2>6, <3>1
    <3> HIDE DEF h
    <3>3. t = 2 * u + d
      BY <1>3 DEF d, c
    <3>4. h \in Nat /\ v = 2 * h + d /\ w = h + When(s, P)
      BY <1>1, <1>3, <2>2, <2>3, <2>8, <3>1, <3>2, <3>3
    <3>5. v \in 0 .. 2 * P - 1
      BY <1>1, <1>3, <2>2, <2>3, <2>7, <3>2
    <3>6. v >= P
      <4>1. CASE k > 0
        BY <1>1, <1>3, <2>2, <2>4, <3>2, <4>1
      <4>2. CASE k = 0
        <5>1. t = x
          BY <1>1, <4>2, AtZero DEF t
        <5>2. x >= P
          BY <1>1, <2>9
        <5> QED
          BY <1>1, <2>2, <2>3, <3>2, <5>1, <5>2
      <4> QED
        BY <4>1, <4>2
    <3>7. Msb(v, n) \in BOOLEAN /\ Msb(v, n)
      BY <1>4, <3>5, <3>6
    <3>8. Msb(v, n) = s
      BY <1>1, <2>9, <3>7, Zenon
    <3>9. c = IF k < n THEN Bit(x, k) ELSE Msb(x, n)
      BY <1>5 DEF c
    <3> QED
      BY <3>4, <3>8, <3>9 DEF v, w, d, m, s, P
  <2>10. CASE ~s
    <3>1. \A z : When(s, z) = 0
      BY <2>10 DEF When
    <3>2. v = t + 0 /\ w = u + 0 /\ h = u + 0
      BY <1>2, <3>1
    <3> HIDE DEF h
    <3>3. t = 2 * u + d
      BY <1>3 DEF d, c
    <3>4. h \in Nat /\ v = 2 * h + d /\ w = h + When(s, P)
      BY <1>1, <1>3, <2>8, <3>1, <3>2, <3>3
    <3>5. v < P
      <4>1. x \in 0 .. Pow(m) - 1 /\ k \in 0 .. m
        <5>1. ~(x >= P)
          BY <1>1, <2>10
        <5> QED
          BY <1>1, <1>5, <5>1 DEF P
      <4>2. t \in 0 .. Pow(m - k) - 1
        BY <1>1, <4>1, Within DEF t
      <4>3. t < K
        BY <2>2, <4>2 DEF i, K
      <4> QED
        BY <1>1, <1>3, <2>2, <2>3, <3>2, <4>3
    <3>6. v \in 0 .. 2 * P - 1
      BY <1>1, <1>3, <3>2, <3>5
    <3>7. Msb(v, n) \in BOOLEAN /\ ~Msb(v, n)
      <4>1. ~(v >= P)
        BY <1>1, <3>5, <3>6
      <4> QED
        BY <1>4, <3>6, <4>1
    <3>8. Msb(v, n) = s
      BY <1>1, <2>10, <3>7, Zenon
    <3>9. c = IF k < n THEN Bit(x, k) ELSE Msb(x, n)
      BY <1>5 DEF c
    <3> QED
      BY <3>4, <3>8, <3>9 DEF v, w, d, m, s, P
  <2> QED
    BY <1>1, <2>9, <2>10
<1>6. CASE k >= n
  <2> DEFINE h == When(s, P - 1)
  <2>1. k + 1 \in Nat /\ n <= k + 1 /\ n <= k
    BY <1>1, <1>6
  <2>2. t = 0 /\ u = 0
    <3> DEFINE j == k + 1
    <3>1. j \in Nat /\ n <= j
      BY <2>1
    <3> HIDE DEF j
    <3>2. Above(x, j) = 0
      BY <1>1, <3>1, Beyond
    <3>3. Above(x, k) = 0
      BY <1>1, <2>1, Beyond
    <3> QED
      BY <3>2, <3>3 DEF j, t, u
  <2>3. Kept(k, n) = 1 /\ Kept(k + 1, n) = 1
    <3>1. Pow(0) = 1
      BY PowerOfOne DEF Pow
    <3> QED
      BY <1>1, <1>6, <3>1 DEF Kept
  <2>4. s = IF k < n THEN Bit(x, k) ELSE Msb(x, n)
    BY <1>1, <1>6 DEF s
  <2>5. CASE s
    <3>1. v = 2 * P - 1 /\ w = 2 * P - 1 /\ h = P - 1 /\ When(s, 1) = 1 /\ When(s, P) = P
      BY <1>1, <1>2, <2>2, <2>3, <2>5 DEF When
    <3> HIDE DEF h
    <3>2. h \in Nat /\ v = 2 * h + When(s, 1) /\ w = h + When(s, P)
      BY <1>1, <3>1
    <3>3. v \in 0 .. 2 * P - 1 /\ v >= P
      BY <1>1, <3>1
    <3>5. Msb(v, n) \in BOOLEAN /\ Msb(v, n)
      BY <1>4, <3>3
    <3>4. Msb(v, n) = s
      BY <1>1, <2>5, <3>5, Zenon
    <3> QED
      BY <2>4, <3>2, <3>4 DEF v, w, m, s, P
  <2>6. CASE ~s
    <3>1. v = 0 /\ w = 0 /\ h = 0 /\ When(s, 1) = 0 /\ When(s, P) = 0
      BY <1>1, <1>2, <2>2, <2>3, <2>6 DEF When
    <3> HIDE DEF h
    <3>2. h \in Nat /\ v = 2 * h + When(s, 1) /\ w = h + When(s, P)
      BY <1>1, <3>1
    <3>3. v \in 0 .. 2 * P - 1 /\ ~(v >= P)
      BY <1>1, <3>1
    <3>5. Msb(v, n) \in BOOLEAN /\ ~Msb(v, n)
      BY <1>4, <3>3
    <3>4. Msb(v, n) = s
      BY <1>1, <2>6, <3>5, Zenon
    <3> QED
      BY <2>4, <3>2, <3>4 DEF v, w, m, s, P
  <2> QED
    BY <1>1, <2>5, <2>6
<1> QED
  BY <1>1, <1>5, <1>6

(* ASR by k + 1 is ASR by k and one bit more.                              *)
LEMMA AsrFurther ==
  ASSUME NEW n \in Nat \ {0}, NEW k \in Nat, NEW x \in 0 .. Pow(n) - 1, NEW f
  PROVE  Further("asr", asr_r(x, k, n, f), asr_r(x, k + 1, n, f), n, FALSE)
<1> DEFINE o == asr_r(x, k, n, f)
           j == k + 1
           p == asr_r(x, j, n, f)
           s == Msb(x, n)
           c == IF k < n THEN Bit(x, k) ELSE s
           m == n - 1
           v == Filled(x, k, n)
           w == Filled(x, j, n)
<1>1. j \in Nat /\ j > 0 /\ j - 1 = k /\ m \in Nat /\ n = m + 1 /\ (j <= n) = (k < n)
  OBVIOUS
<1>2. s \in BOOLEAN /\ x \in Nat
  BY MsbIs
<1>3. c \in BOOLEAN
  BY <1>2, BitIs
<1>4. o.value = v
  BY AsrIs
<1>5. PICK h \in Nat : /\ v = 2 * h + When(c, 1) /\ w = h + When(s, Pow(m))
                       /\ Msb(v, n) = s
  BY FilledStep
<1>6. p = Result(w, n, c, FALSE, c)
  <2> HIDE DEF j
  <2>1. p = Result(Filled(x, j, n), n, IF j <= n THEN Bit(x, j - 1) ELSE Msb(x, n), FALSE,
                   IF j <= n THEN Bit(x, j - 1) ELSE Msb(x, n))
    BY <1>1, AsrIs
  <2>2. c = IF j <= n THEN Bit(x, j - 1) ELSE Msb(x, n)
    BY <1>1
  <2> QED
    BY <2>1, <2>2
<1>7. "asr" \in Shifts \ Leftwards /\ "asr" \notin {"ror", "rol"}
  BY DEF Shifts, Leftwards
<1>8. Entering("asr", o.value, o.ccr, n) = s
  BY <1>4, <1>5 DEF Entering
<1> HIDE DEF o, p, c, v, w, s, m
<1>9. o.value = 2 * h + When(c, 1) /\ p = Result(h + When(s, Pow(m)), n, c, FALSE, c)
  BY <1>4, <1>5, <1>6
<1>10. Further("asr", o, p, n, FALSE)
  BY <1>1, <1>2, <1>3, <1>5, <1>7, <1>8, <1>9, FurtherRight, ZenonT(40)
<1> QED
  BY <1>10 DEF o, p

-----------------------------------------------------------------------------
(* Logical shifts to the left                                              *)

\* what is left of x, moved up by k in n bits, and the bit that leaves next
Moved(x, k, n) == IF k <= n THEN Up(Low(x, n - k), k) ELSE 0

NextOut(x, k, n) == k < n /\ Bit(x, n - k - 1)

(* One bit further to the left drops the highest bit.                      *)
LEMMA MovedStep ==
  ASSUME NEW n \in Nat \ {0}, NEW k \in Nat, NEW x \in 0 .. Pow(n) - 1
  PROVE  /\ NextOut(x, k, n) \in BOOLEAN
         /\ \E h \in Nat :
              /\ h < Pow(n - 1)
              /\ Moved(x, k, n) = h + When(NextOut(x, k, n), Pow(n - 1))
              /\ Moved(x, k + 1, n) = 2 * h
<1> DEFINE m == n - 1
           c == NextOut(x, k, n)
<1>1. x \in Nat /\ m \in Nat /\ n = m + 1 /\ Pow(m) \in Nat \ {0}
  BY MsbIs
<1>2. CASE k < n
  <2> DEFINE i == m - k
             h == Up(Low(x, i), k)
             one == Bit(x, i)
  <2>1. /\ i \in Nat /\ n - k - 1 = i /\ n - k = i + 1 /\ i + k = m /\ k <= n /\ k + 1 <= n
        /\ n - (k + 1) = i
    BY <1>1, <1>2
  <2> HIDE DEF i
  <2>2. /\ h \in Nat /\ h + Pow(k) <= Pow(i + k)
        /\ Up(Low(x, i + 1), k) = h + When(one, Pow(i + k))
        /\ Up(Low(x, i), k + 1) = 2 * h
    <3>1. i \in Nat /\ x \in Nat
      BY <1>1, <2>1
    <3> QED
      BY <3>1, LeftStep
  <2>3. one \in BOOLEAN /\ Pow(k) \in Nat \ {0}
    BY <1>1, <2>1, BitIs, PowIs
  <2>4. c = one
    <3>1. c = Bit(x, n - k - 1)
      BY <1>2, <2>1, <2>3 DEF NextOut
    <3> QED
      BY <2>1, <3>1
  <2>5. Moved(x, k, n) = h + When(one, Pow(m))
    BY <2>1, <2>2 DEF Moved
  <2>6. Moved(x, k + 1, n) = 2 * h
    BY <2>1, <2>2 DEF Moved
  <2>7. h < Pow(m)
    BY <1>1, <2>1, <2>2, <2>3
  <2> HIDE DEF c, one, h, m
  <2> QED
    BY <2>2, <2>3, <2>4, <2>5, <2>6, <2>7 DEF c, m
<1>3. CASE k >= n
  <2>1. ~(k < n) /\ ~(k + 1 <= n)
    BY <1>3
  <2>2. c = FALSE
    BY <2>1 DEF NextOut
  <2>3. Moved(x, k + 1, n) = 0
    BY <2>1 DEF Moved
  <2>4. Moved(x, k, n) = 0
    <3>1. CASE k = n
      <4>1. n - k = 0 /\ k <= n
        BY <3>1
      <4>2. Low(x, 0) = 0
        BY <1>1, AtZero
      <4>3. Up(0, k) = 0
        BY UpBits
      <4> QED
        BY <4>1, <4>2, <4>3 DEF Moved
    <3>2. CASE k # n
      BY <1>3, <3>2 DEF Moved
    <3> QED
      BY <3>1, <3>2
  <2>5. When(c, Pow(m)) = 0
    BY <2>2 DEF When
  <2> HIDE DEF c, m
  <2>6. /\ 0 \in Nat /\ 0 < Pow(m) /\ Moved(x, k, n) = 0 + When(c, Pow(m))
        /\ Moved(x, k + 1, n) = 2 * 0
    BY <1>1, <2>3, <2>4, <2>5
  <2> QED
    BY <2>2, <2>6 DEF c, m
<1> QED
  BY <1>2, <1>3

(* The bit dropped next is the sign.                                       *)
LEMMA MovedSign ==
  ASSUME NEW n \in Nat \ {0}, NEW k \in Nat, NEW x \in 0 .. Pow(n) - 1
  PROVE  Msb(Moved(x, k, n), n) = NextOut(x, k, n)
<1> DEFINE m == n - 1
           c == NextOut(x, k, n)
           v == Moved(x, k, n)
           f == [X |-> FALSE]
           e == Entering("lsl", v, f, n)
<1>1. m \in Nat /\ n = m + 1 /\ c \in BOOLEAN
  BY MovedStep
<1>2. PICK h \in Nat : h < Pow(m) /\ v = h + When(c, Pow(m))
  BY MovedStep
<1>3. "lsl" \in Leftwards
  BY DEF Leftwards
<1>4. e \in BOOLEAN
  BY DEF Entering
<1> HIDE DEF m, c, v, f, e
<1>6. Entering("lsl", v, f, n) = e
  BY DEF e
<1>5. Msb(v, n) = c
  BY <1>1, <1>2, <1>3, <1>4, <1>6, OneBitLeft
<1> QED
  BY <1>5 DEF c, v

(* LSL leaves the lower bits moved up, and the last one that left in C.    *)
LEMMA LslIs ==
  ASSUME NEW n \in Nat \ {0}, NEW k \in Nat, NEW x \in 0 .. Pow(n) - 1, NEW f
  PROVE  LET c == k <= n /\ Bit(x, n - k)
         IN  /\ lsl_r(x, k, n, f).value = Moved(x, k, n)
             /\ k > 0 => lsl_r(x, k, n, f) = Result(Moved(x, k, n), n, c, FALSE, c)
<1> DEFINE o == lsl_r(x, k, n, f)
           v == Moved(x, k, n)
<1>1. CASE k = 0
  <2>1. o = ByNone(x, n, f)
    BY <1>1 DEF lsl_r
  <2>2. o.value = x
    BY <2>1 DEF ByNone, Result
  <2>3. Pow(n) \in Nat /\ n \in Nat
    BY PowIs
  <2>4. x \in Nat /\ n - 0 = n /\ 0 <= n
    BY <2>3
  <2>5. Low(x, n) = x /\ Up(x, 0) = x
    BY <2>3, <2>4, Beyond, AtZero
  <2>6. v = x
    BY <1>1, <2>4, <2>5 DEF Moved
  <2> QED
    BY <1>1, <2>2, <2>6
<1>2. CASE k \in 1 .. n
  <2>1. k # 0 /\ k <= n
    BY <1>2
  <2>2. o = lsl_s(x, k, n, f)
    BY <2>1 DEF lsl_r
  <2>3. LSL(x, k, n) = v
    BY <2>1 DEF LSL, Moved, Up, Low, Pow
  <2>4. o = Result(v, n, Bit(x, n - k), FALSE, Bit(x, n - k))
    BY <2>2, <2>3 DEF lsl_s
  <2>5. Bit(x, n - k) = (k <= n /\ Bit(x, n - k))
    BY <2>1 DEF Bit
  <2> HIDE DEF o, v
  <2>6. o.value = v
    BY <2>4 DEF Result
  <2> QED
    BY <2>4, <2>5, <2>6 DEF o, v
<1>3. CASE k > n
  <2>1. ~(k <= n) /\ k # 0
    BY <1>3
  <2>2. v = 0
    BY <2>1 DEF Moved
  <2>3. o = Result(0, n, FALSE, FALSE, FALSE)
    BY <2>1 DEF lsl_r
  <2>4. FALSE = (k <= n /\ Bit(x, n - k))
    BY <2>1
  <2> HIDE DEF o, v
  <2>5. o.value = v
    BY <2>2, <2>3 DEF Result
  <2> QED
    BY <2>2, <2>3, <2>4, <2>5 DEF o, v
<1>4. k = 0 \/ k \in 1 .. n \/ k > n
  OBVIOUS
<1> QED
  BY <1>1, <1>2, <1>3, <1>4

\* the bit that left is the one that was to leave next
LEMMA LeftLast ==
  ASSUME NEW n \in Nat \ {0}, NEW k \in Nat, NEW x
  PROVE  (k + 1 <= n /\ Bit(x, n - (k + 1))) = NextOut(x, k, n)
<1>1. (k + 1 <= n) = (k < n) /\ n - (k + 1) = n - k - 1
  OBVIOUS
<1> QED
  BY <1>1 DEF NextOut

(* LSL by k + 1 is LSL by k and one bit more.                              *)
LEMMA LslFurther ==
  ASSUME NEW n \in Nat \ {0}, NEW k \in Nat, NEW x \in 0 .. Pow(n) - 1, NEW f
  PROVE  Further("lsl", lsl_r(x, k, n, f), lsl_r(x, k + 1, n, f), n, FALSE)
<1> DEFINE o == lsl_r(x, k, n, f)
           j == k + 1
           p == lsl_r(x, j, n, f)
           c == NextOut(x, k, n)
           m == n - 1
           w == Moved(x, j, n)
<1>1. j \in Nat /\ j > 0 /\ m \in Nat /\ n = m + 1
  OBVIOUS
<1>2. c \in BOOLEAN
  BY MovedStep
<1>3. PICK h \in Nat : h < Pow(m) /\ Moved(x, k, n) = h + When(c, Pow(m)) /\ w = 2 * h
  BY MovedStep
<1>4. o.value = h + When(c, Pow(m))
  BY <1>3, LslIs
<1>5. p = Result(w, n, c, FALSE, c)
  <2>1. (j <= n /\ Bit(x, n - j)) = c
    BY LeftLast
  <2> HIDE DEF j, c
  <2>2. p = Result(w, n, j <= n /\ Bit(x, n - j), FALSE, j <= n /\ Bit(x, n - j))
    BY <1>1, LslIs
  <2> QED
    BY <2>1, <2>2
<1>6. "lsl" \in Leftwards /\ "lsl" \notin {"ror", "rol"} /\ "lsl" # "asl"
  BY DEF Leftwards
<1> DEFINE e == Entering("lsl", o.value, o.ccr, n)
<1>7. e = FALSE
  BY DEF Entering
<1> HIDE DEF e, o, p, c, m, w
<1>8. w = 2 * h + When(e, 1)
  BY <1>3, <1>7 DEF When
<1>9. e \in BOOLEAN /\ Entering("lsl", o.value, o.ccr, n) = e
  BY <1>7 DEF e
<1>10. FALSE = ("lsl" = "asl" /\ (o.ccr.V \/ c # Msb(w, n)))
  BY <1>6
<1>11. c = (c \/ FALSE)
  BY <1>2
<1>12. Further("lsl", o, p, n, FALSE)
  BY <1>1, <1>2, <1>3, <1>4, <1>5, <1>6, <1>8, <1>9, <1>10, <1>11, FurtherLeft, ZenonT(40)
<1> QED
  BY <1>12 DEF o, p

-----------------------------------------------------------------------------
(* Arithmetic shifts to the left                                           *)

\* not all of the bits at or above the place are the same
Changed(x, k, n) ==
    IF k < n THEN Above(x, n - k - 1) \notin {0, Pow(k + 1) - 1} ELSE x # 0

(* The test of the code: the bits that pass the sign, in their places, are *)
(* none or those of the table.                                             *)
LEMMA PassingIs ==
  ASSUME NEW n \in Nat \ {0}, NEW k \in Nat, k < n, NEW x \in 0 .. Pow(n) - 1
  PROVE  LET passing == x - Low(x, n - k - 1)
         IN  (passing = 0 \/ passing = Pow(n) - Pow(n - k - 1)) = ~Changed(x, k, n)
<1> DEFINE j == n - k - 1
           g == k + 1
           t == Above(x, j)
           l == Low(x, j)
           q == Pow(g) - 1
           rest == x - l
           z == Pow(n) - Pow(j)
<1>1. j \in Nat /\ g \in Nat /\ g + j = n /\ n \in Nat /\ Pow(n) \in Nat
  BY PowIs
<1>2. x \in Nat
  BY <1>1
<1> HIDE DEF j, g
<1>3. t \in Nat /\ l \in 0 .. Pow(j) - 1 /\ x = Up(t, j) + l
  BY <1>1, <1>2, TopLow
<1>4. Pow(j) \in Nat \ {0} /\ Pow(g) \in Nat \ {0}
  BY <1>1, PowIs
<1>5. Up(Pow(g), j) = Pow(n)
  BY <1>1, UpPow
<1>6. q \in Int /\ 1 \in Int /\ 0 \in Int /\ t \in Int /\ Pow(g) = q + 1
  BY <1>3, <1>4
<1> HIDE DEF q, t, l
<1>7. Up(q + 1, j) = Up(q, j) + Up(1, j)
  BY <1>1, <1>6, UpSum
<1>8. Up(1, j) = Pow(j) /\ Up(0, j) = 0
  BY <1>1, UpBits
<1>9. Up(q, j) \in Int /\ Up(t, j) \in Int
  BY <1>1, <1>6, UpInt
<1>10. rest = Up(t, j) /\ z = Up(q, j)
  BY <1>1, <1>3, <1>4, <1>5, <1>6, <1>7, <1>8, <1>9
<1>11. /\ 0 < t => Up(0, j) + Pow(j) <= Up(t, j)
       /\ t < q => Up(t, j) + Pow(j) <= Up(q, j)
       /\ q < t => Up(q, j) + Pow(j) <= Up(t, j)
  BY <1>1, <1>6, UpOrder
<1>12. (rest = 0 <=> t = 0) /\ (rest = z <=> t = q)
  BY <1>3, <1>4, <1>6, <1>8, <1>9, <1>10, <1>11
<1>13. Changed(x, k, n) = (t \notin {0, q})
  BY DEF Changed, t, q, j, g
<1> HIDE DEF rest, z
<1>14. (rest = 0 \/ rest = z) = ~Changed(x, k, n)
  BY <1>12, <1>13
<1> QED
  BY <1>14 DEF rest, z, l, j

(* All bits of a number and one more are the same when those of the number *)
(* are and the last two are.                                               *)
LEMMA TwoBits ==
  ASSUME NEW t \in Nat, NEW d \in 0 .. 1, NEW g \in Nat \ {0}
  PROVE  (2 * t + d # 0 /\ 2 * t + d # 4 * g - 1)
           <=> ((t # 0 /\ t # 2 * g - 1) \/ ~(t % 2 = 1 <=> d = 1))
<1>1. PICK h \in Nat, c \in 0 .. 1 : t = 2 * h + c
  <2>1. t \div 2 \in Nat /\ t % 2 \in 0 .. 1 /\ t = 2 * (t \div 2) + (t % 2)
    OBVIOUS
  <2> QED
    BY <2>1
<1>2. t % 2 = c
  BY <1>1
<1>3. CASE c = 0
  <2>1. t % 2 # 1 /\ t = 2 * h
    BY <1>1, <1>2, <1>3
  <2>2. CASE d = 0
    BY <2>1, <2>2
  <2>3. CASE d = 1
    BY <2>1, <2>3
  <2> QED
    BY <2>2, <2>3
<1>4. CASE c = 1
  <2>1. t % 2 = 1 /\ t = 2 * h + 1
    BY <1>1, <1>2, <1>4
  <2>2. CASE d = 0
    BY <2>1, <2>2
  <2>3. CASE d = 1
    BY <2>1, <2>3
  <2> QED
    BY <2>2, <2>3
<1> QED
  BY <1>1, <1>3, <1>4

(* V remembers: the sign has changed by k + 1 if it had by k, or does now. *)
LEMMA ChangedStep ==
  ASSUME NEW n \in Nat \ {0}, NEW k \in Nat, NEW x \in 0 .. Pow(n) - 1
  PROVE  Changed(x, k + 1, n)
           = (Changed(x, k, n) \/ NextOut(x, k, n) # NextOut(x, k + 1, n))
<1> DEFINE A == Changed(x, k, n)
           B == Changed(x, k + 1, n)
           C == NextOut(x, k, n)
           D == NextOut(x, k + 1, n)
<1>1. n \in Nat /\ Pow(n) \in Nat
  BY PowIs
<1>2. x \in Nat
  BY <1>1
<1>3. A \in BOOLEAN /\ B \in BOOLEAN
  BY DEF Changed
<1>4. C \in BOOLEAN /\ D \in BOOLEAN
  BY <1>2, BitIs DEF NextOut
<1> SUFFICES B <=> (A \/ ~(C <=> D))
  <2> HIDE DEF A, B, C, D
  <2>1. (C # D) <=> ~(C <=> D)
    BY <1>4
  <2>2. ASSUME B <=> (A \/ ~(C <=> D))
        PROVE  B = (A \/ C # D)
    BY <1>3, <2>1, <2>2
  <2> QED
    BY <2>2 DEF A, B, C, D
<1>5. CASE k + 1 < n
  <2> DEFINE j == n - k - 2
             i == j + 1
             y == k + 1
             t == Above(x, i)
             u == Above(x, j)
             d == When(Bit(x, j), 1)
             g == Pow(k)
  <2>1. /\ j \in Nat /\ i \in Nat /\ k < n /\ y \in Nat /\ y < n
        /\ n - k - 1 = i /\ n - y - 1 = j
    BY <1>5
  <2>2. /\ u = 2 * t + d /\ t \in Nat /\ u \in Nat
    BY <1>2, <2>1, RightStep
  <2>3. g \in Nat \ {0} /\ Pow(k + 1) = 2 * g
    BY PowIs, UpMore
  <2>4. Pow(y + 1) = 4 * g
    <3> HIDE DEF y
    <3>1. Pow(y + 1) = 2 * Pow(y)
      BY <2>1, UpMore
    <3> QED
      BY <2>3, <3>1 DEF y
  <2> HIDE DEF j, i
  <2>5. C <=> t % 2 = 1
    <3>1. C <=> Bit(x, i)
      BY <2>1 DEF NextOut
    <3>2. Bit(x, i) = (OneAt(x, i) = 1)
      BY <1>2, <2>1, BitIs
    <3> QED
      BY <3>1, <3>2 DEF OneAt
  <2>6. Bit(x, j) \in BOOLEAN
    BY <1>2, <2>1, BitIs
  <2>7. (D <=> d = 1) /\ d \in 0 .. 1
    <3>1. D <=> Bit(x, j)
      BY <2>1 DEF NextOut
    <3>2. CASE Bit(x, j)
      <4>1. d = 1
        BY <3>2 DEF When
      <4>2. d \in 0 .. 1
        BY <4>1
      <4> HIDE DEF d, D
      <4> QED
        BY <3>1, <3>2, <4>1, <4>2, Zenon
    <3>3. CASE ~Bit(x, j)
      <4>1. d = 0
        BY <3>3 DEF When
      <4>2. d \in 0 .. 1 /\ d # 1
        BY <4>1
      <4> HIDE DEF d, D
      <4> QED
        BY <3>1, <3>3, <4>2, Zenon
    <3> QED
      BY <3>2, <3>3
  <2>8. A <=> (t # 0 /\ t # 2 * g - 1)
    BY <2>1, <2>3 DEF Changed
  <2>9. B <=> (u # 0 /\ u # 4 * g - 1)
    BY <2>1, <2>4 DEF Changed
  <2> HIDE DEF A, B, C, D, t, u, d, g
  <2>10. (2 * t + d # 0 /\ 2 * t + d # 4 * g - 1)
           <=> ((t # 0 /\ t # 2 * g - 1) \/ ~(t % 2 = 1 <=> d = 1))
    BY <2>2, <2>3, <2>7, TwoBits
  <2> QED
    BY <2>2, <2>5, <2>7, <2>8, <2>9, <2>10
<1>6. CASE k + 1 = n
  <2> DEFINE g == Pow(k)
  <2>1. k < n /\ ~(k + 1 < n) /\ n - k - 1 = 0
    BY <1>6
  <2>2. g \in Nat \ {0} /\ Pow(k + 1) = 2 * g
    BY PowIs, UpMore
  <2>3. Above(x, 0) = x
    BY <1>2, AtZero
  <2>4. A <=> (x # 0 /\ x # 2 * g - 1)
    BY <2>1, <2>2, <2>3 DEF Changed
  <2>5. B <=> x # 0
    BY <2>1 DEF Changed
  <2>6. Bit(x, 0) = (x % 2 = 1)
    BY <1>2, LowestBit
  <2>7. C <=> x % 2 = 1
    BY <2>1, <2>6 DEF NextOut
  <2>8. ~D
    BY <2>1 DEF NextOut
  <2> HIDE DEF A, B, C, D, g
  <2>9. x = 2 * g - 1 => x % 2 = 1
    BY <1>2, <2>2
  <2>10. x = 0 => x % 2 # 1
    OBVIOUS
  <2> QED
    BY <2>4, <2>5, <2>7, <2>8, <2>9, <2>10
<1>7. CASE k >= n
  <2>1. ~(k < n) /\ ~(k + 1 < n)
    BY <1>7
  <2>2. (A <=> x # 0) /\ (B <=> x # 0)
    BY <2>1 DEF Changed
  <2>3. ~C /\ ~D
    BY <2>1 DEF NextOut
  <2> HIDE DEF A, B, C, D
  <2> QED
    BY <2>2, <2>3
<1> QED
  BY <1>1, <1>5, <1>6, <1>7

(* The handler with the count in the instruction, also at the whole width. *)
LEMMA AslS ==
  ASSUME NEW n \in Nat \ {0}, NEW k \in 1 .. n, NEW x \in 0 .. Pow(n) - 1, NEW f
  PROVE  asl_s(x, k, n, f)
           = Result(Moved(x, k, n), n, Bit(x, n - k), Changed(x, k, n), Bit(x, n - k))
<1> DEFINE g == IF k < n THEN n - k - 1 ELSE 0
           passing == x - (x % 2^g)
           same == passing = 0 \/ (passing = shift_table(k + 1, n) /\ k < n)
           v == Moved(x, k, n)
<1>1. n \in Nat /\ k \in Nat /\ k <= n /\ Pow(n) \in Nat
  BY PowIs
<1>2. x \in Nat
  BY <1>1
<1>3. LSL(x, k, n) = v
  BY <1>1 DEF LSL, Moved, Up, Low, Pow
<1>4. (~same) = Changed(x, k, n)
  <2>1. CASE k < n
    <3> DEFINE y == x - Low(x, n - k - 1)
               z == Pow(n) - Pow(n - k - 1)
    <3>1. g = n - k - 1
      BY <2>1
    <3>2. passing = y
      BY <3>1 DEF Low, Pow
    <3>3. shift_table(k + 1, n) = z
      <4>1. CASE k + 1 < n
        <5>1. n - (k + 1) = n - k - 1
          BY <1>1
        <5>2. shift_table(k + 1, n) = 2^n - 2^(n - (k + 1))
          BY <4>1 DEF shift_table
        <5> QED
          BY <5>1, <5>2 DEF Pow
      <4>2. CASE ~(k + 1 < n)
        <5>1. n - k - 1 = 0
          BY <1>1, <2>1, <4>2
        <5>2. Pow(0) = 1
          BY <1>2, AtZero
        <5>3. shift_table(k + 1, n) = 2^n - 1
          BY <4>2 DEF shift_table
        <5> QED
          BY <5>1, <5>2, <5>3 DEF Pow
      <4> QED
        BY <4>1, <4>2
    <3>4. (y = 0 \/ y = z) = ~Changed(x, k, n)
      BY <1>1, <2>1, PassingIs
    <3>5. same = (y = 0 \/ y = z)
      <4> HIDE DEF passing, y, z
      <4>1. same = (passing = 0 \/ (passing = z /\ k < n))
        BY <3>3
      <4> QED
        BY <2>1, <3>2, <4>1
    <3>6. Changed(x, k, n) \in BOOLEAN
      BY DEF Changed
    <3> HIDE DEF same, y, z
    <3> QED
      BY <3>4, <3>5, <3>6
  <2>2. CASE k = n
    <3>1. ~(k < n) /\ g = 0
      BY <2>2, <1>1
    <3>2. 2^0 = 1
      BY <1>2, AtZero DEF Pow
    <3>3. x % 1 = 0 /\ x - 0 = x
      BY <1>2
    <3>4. passing = x
      BY <3>1, <3>2, <3>3
    <3> HIDE DEF passing
    <3>5. same = (x = 0)
      BY <3>1, <3>4
    <3>6. Changed(x, k, n) = (x # 0)
      BY <3>1 DEF Changed
    <3> HIDE DEF same
    <3> QED
      BY <3>5, <3>6
  <2> QED
    BY <1>1, <2>1, <2>2
<1>5. asl_s(x, k, n, f) = Result(LSL(x, k, n), n, Bit(x, n - k), ~same, Bit(x, n - k))
  BY DEF asl_s
<1> HIDE DEF same, v
<1> QED
  BY <1>3, <1>4, <1>5 DEF v

(* ASL with the count in a register, at every count.                       *)
LEMMA AslIs ==
  ASSUME NEW n \in Nat \ {0}, NEW k \in Nat, NEW x \in 0 .. Pow(n) - 1, NEW f
  PROVE  LET c == k <= n /\ Bit(x, n - k)
         IN  /\ asl_r(x, k, n, f).value = Moved(x, k, n)
             /\ asl_r(x, k, n, f).ccr.V = Changed(x, k, n)
             /\ k > 0 => asl_r(x, k, n, f)
                           = Result(Moved(x, k, n), n, c, Changed(x, k, n), c)
<1> DEFINE o == asl_r(x, k, n, f)
           v == Moved(x, k, n)
           w == Changed(x, k, n)
<1>1. n \in Nat /\ Pow(n) \in Nat
  BY PowIs
<1>2. x \in Nat
  BY <1>1
<1>3. CASE k = 0
  <2>1. o = ByNone(x, n, f)
    BY <1>3 DEF asl_r
  <2>2. o.value = x /\ o.ccr.V = FALSE
    BY <2>1 DEF ByNone, Result
  <2>3. n - 0 = n /\ 0 <= n
    BY <1>1
  <2>4. Low(x, n) = x /\ Up(x, 0) = x
    BY <1>1, <1>2, <2>3, Beyond, AtZero
  <2>5. v = x
    BY <1>3, <2>3, <2>4 DEF Moved
  <2>6. w = FALSE
    <3> DEFINE m == n - 1
               t == Above(x, m)
    <3>1. m \in 0 .. n /\ n - m = 1 /\ n - k - 1 = m /\ k < n /\ k + 1 = 1
      BY <1>3
    <3> HIDE DEF m
    <3>2. Above(x, m) \in 0 .. Pow(n - m) - 1
      BY <1>1, <3>1, Within
    <3>3. Pow(1) = 2
      BY PowerOfOne DEF Pow
    <3>4. Above(x, m) \in {0, 1}
      BY <3>1, <3>2, <3>3
    <3>5. w = (Above(x, m) \notin {0, 2 - 1})
      BY <3>1, <3>3 DEF Changed
    <3>6. 2 - 1 = 1
      OBVIOUS
    <3>7. w <=> Above(x, m) \notin {0, 1}
      BY <3>5, <3>6
    <3>8. ~w /\ w \in BOOLEAN
      BY <3>4, <3>7 DEF Changed
    <3> QED
      BY <3>8, Zenon
  <2>7. ~(k > 0)
    BY <1>3
  <2>8. o.value = v /\ o.ccr.V = w
    BY <2>2, <2>5, <2>6
  <2> HIDE DEF o, v, w
  <2> QED
    BY <2>7, <2>8 DEF o, v, w
<1>4. CASE k \in 1 .. n - 1
  <2>1. k # 0 /\ k < n /\ k <= n /\ k \in 1 .. n
    BY <1>4
  <2>2. o = asl_s(x, k, n, f)
    BY <2>1 DEF asl_r
  <2>3. o = Result(v, n, Bit(x, n - k), w, Bit(x, n - k))
    BY <2>1, <2>2, AslS
  <2>4. Bit(x, n - k) = (k <= n /\ Bit(x, n - k))
    BY <2>1 DEF Bit
  <2> HIDE DEF o, v, w
  <2>5. o.value = v /\ o.ccr.V = w
    BY <2>3 DEF Result
  <2> QED
    BY <2>3, <2>4, <2>5 DEF o, v, w
<1>5. CASE k >= n
  <2> DEFINE last == k = n /\ Bit(x, 0)
  <2>1. k # 0 /\ ~(k < n)
    BY <1>5
  <2>2. o = Result(0, n, last, x # 0, last)
    BY <2>1 DEF asl_r
  <2>3. v = 0
    <3>1. CASE k = n
      <4>1. n - k = 0 /\ k <= n
        BY <3>1
      <4>2. Low(x, 0) = 0
        BY <1>2, AtZero
      <4>3. Up(0, k) = 0
        BY UpBits
      <4> QED
        BY <4>1, <4>2, <4>3 DEF Moved
    <3>2. CASE k # n
      BY <1>5, <3>2 DEF Moved
    <3> QED
      BY <3>1, <3>2
  <2>4. w = (x # 0)
    BY <2>1 DEF Changed
  <2>5. last = (k <= n /\ Bit(x, n - k))
    <3>1. CASE k = n
      <4>1. k <= n /\ n - k = 0
        BY <3>1, <1>1
      <4> QED
        BY <3>1, <4>1
    <3>2. CASE k # n
      <4>1. ~(k <= n)
        BY <3>2, <1>5, <1>1
      <4> QED
        BY <3>2, <4>1
    <3> QED
      BY <3>1, <3>2
  <2> HIDE DEF o, v, w, last
  <2>6. o = Result(v, n, last, w, last)
    BY <2>2, <2>3, <2>4
  <2>7. o.value = v /\ o.ccr.V = w
    BY <2>6 DEF Result
  <2> QED
    BY <2>5, <2>6, <2>7 DEF o, v, w
<1>6. k = 0 \/ k \in 1 .. n - 1 \/ k >= n
  OBVIOUS
<1> QED
  BY <1>3, <1>4, <1>5, <1>6

(* ASL by k + 1 is ASL by k and one bit more, V and all.                   *)
LEMMA AslFurther ==
  ASSUME NEW n \in Nat \ {0}, NEW k \in Nat, NEW x \in 0 .. Pow(n) - 1, NEW f
  PROVE  Further("asl", asl_r(x, k, n, f), asl_r(x, k + 1, n, f), n, FALSE)
<1> DEFINE o == asl_r(x, k, n, f)
           j == k + 1
           p == asl_r(x, j, n, f)
           c == NextOut(x, k, n)
           m == n - 1
           w == Moved(x, j, n)
           pv == Changed(x, j, n)
<1>1. j \in Nat /\ j > 0 /\ m \in Nat /\ n = m + 1
  OBVIOUS
<1>2. c \in BOOLEAN
  BY MovedStep
<1>3. PICK h \in Nat : h < Pow(m) /\ Moved(x, k, n) = h + When(c, Pow(m)) /\ w = 2 * h
  BY MovedStep
<1>4. o.value = h + When(c, Pow(m))
  BY <1>3, AslIs
<1>5. p = Result(w, n, c, pv, c)
  <2>1. (j <= n /\ Bit(x, n - j)) = c
    BY LeftLast
  <2> HIDE DEF j, c
  <2>2. p = Result(w, n, j <= n /\ Bit(x, n - j), pv, j <= n /\ Bit(x, n - j))
    BY <1>1, AslIs
  <2> QED
    BY <2>1, <2>2
<1>6. "asl" \in Leftwards /\ "asl" \notin {"ror", "rol"}
  BY DEF Leftwards
<1>7. pv = (o.ccr.V \/ c # Msb(w, n))
  <2>1. o.ccr.V = Changed(x, k, n)
    BY AslIs
  <2>2. Changed(x, j, n) = (Changed(x, k, n) \/ NextOut(x, k, n) # NextOut(x, j, n))
    BY ChangedStep
  <2> HIDE DEF j
  <2>3. Msb(w, n) = NextOut(x, j, n)
    BY <1>1, MovedSign
  <2> HIDE DEF w, c
  <2> QED
    BY <2>1, <2>2, <2>3 DEF c
<1> DEFINE e == Entering("asl", o.value, o.ccr, n)
<1>8. e = FALSE
  BY DEF Entering
<1> HIDE DEF e, o, p, c, m, w, pv
<1>9. w = 2 * h + When(e, 1)
  BY <1>3, <1>8 DEF When
<1>10. e \in BOOLEAN /\ Entering("asl", o.value, o.ccr, n) = e
  BY <1>8 DEF e
<1>11. pv = ("asl" = "asl" /\ (o.ccr.V \/ c # Msb(w, n)))
  BY <1>7
<1>12. c = (c \/ FALSE)
  BY <1>2
<1>13. Further("asl", o, p, n, FALSE)
  BY <1>1, <1>2, <1>3, <1>4, <1>5, <1>6, <1>9, <1>10, <1>11, <1>12, FurtherLeft, ZenonT(40)
<1> QED
  BY <1>13 DEF o, p

-----------------------------------------------------------------------------
(* Rotates                                                                 *)

(* The count of a rotate goes round.                                       *)
LEMMA NextPlace ==
  ASSUME NEW n \in Nat \ {0}, NEW k \in Nat
  PROVE  /\ k % n \in 0 .. n - 1
         /\ (k + 1) % n = IF (k % n) + 1 < n THEN (k % n) + 1 ELSE 0
         /\ 0 % n = 0 /\ (k < n => k % n = k) /\ n % n = 0
<1> DEFINE j == k % n
           q == k \div n
           i == j + 1
           z == k + 1
<1>1. q \in Int /\ j \in 0 .. n - 1 /\ k = n * q + j /\ n \in Nat \ {0} /\ k \in Int
  BY DivMod
<1> HIDE DEF j, q, i, z
<1>2. 0 \in Int /\ 1 \in Int /\ 0 \in 0 .. n - 1 /\ n * 0 = 0 /\ n * 1 = n
  OBVIOUS
<1>3. ASSUME i < n PROVE z % n = i
  <2>1. i \in 0 .. n - 1
    BY <1>1, <1>3 DEF i
  <2>2. (n * q + i) % n = i
    BY <1>1, <2>1, DivModUnique
  <2>3. n * q \in Int
    BY <1>1
  <2>4. z = n * q + i
    BY <1>1, <2>3 DEF z, i
  <2> QED
    BY <2>2, <2>4
<1>4. ASSUME ~(i < n) PROVE z % n = 0
  <2> DEFINE y == q + 1
             u == n * q
  <2>1. y \in Int
    BY <1>1
  <2>2. n * y = u + n /\ u \in Int
    BY <1>1, <1>2
  <2> HIDE DEF y, u
  <2>3. (n * y + 0) % n = 0
    BY <1>2, <2>1, DivModUnique
  <2>4. z = n * y + 0
    <3>1. k = u + j
      BY <1>1 DEF u
    <3>2. j + 1 = n
      BY <1>1, <1>4 DEF i
    <3> QED
      BY <1>1, <2>2, <3>1, <3>2 DEF z
  <2> QED
    BY <2>3, <2>4
<1>5. (k + 1) % n = IF j + 1 < n THEN j + 1 ELSE 0
  BY <1>3, <1>4 DEF i, z, j
<1>6. (n * 0 + 0) % n = 0 /\ (n * 1 + 0) % n = 0
  BY <1>2, DivModUnique
<1>7. k < n => k % n = k
  <2> SUFFICES ASSUME k < n PROVE k % n = k
    OBVIOUS
  <2>1. k \in 0 .. n - 1
    OBVIOUS
  <2>2. (n * 0 + k) % n = k
    BY <1>2, <2>1, DivModUnique
  <2> QED
    BY <1>2, <2>2
<1>8. 0 % n = 0 /\ n % n = 0
  BY <1>2, <1>6
<1> QED
  BY <1>1, <1>5, <1>7, <1>8 DEF j

\* the rotates at any count.
RotatedRight(x, k, n) == Right(x, k % n, n - (k % n))

RotatedLeft(x, k, n) == Left(x, k % n, n - (k % n))

(* ROR and ROL of the model are those, and by zero they leave the number.  *)
LEMMA RotatedAre ==
  ASSUME NEW n \in Nat \ {0}, NEW k \in Nat, NEW x \in 0 .. Pow(n) - 1
  PROVE  /\ ROR(x, k, n) = RotatedRight(x, k, n) /\ ROL(x, k, n) = RotatedLeft(x, k, n)
         /\ RotatedRight(x, 0, n) = x /\ RotatedLeft(x, 0, n) = x
<1> DEFINE j == k % n
<1>1. j \in 0 .. n - 1 /\ 0 % n = 0 /\ n \in Nat
  BY NextPlace
<1> HIDE DEF j
<1>2. n - (n - j) = j /\ n - 0 = n
  BY <1>1
<1>3. LSR(x, j) + LSL(x, n - j, n) = Right(x, j, n - j)
  BY <1>2 DEF LSR, LSL, Right, Above, Low, Up, Pow
<1>4. LSL(x, j, n) + LSR(x, n - j) = Left(x, j, n - j)
  BY <1>2 DEF LSR, LSL, Left, Above, Low, Up, Pow
<1>5. Right(x, 0, n) = x /\ Left(x, 0, n) = x
  BY <1>1, RotateNone
<1>6. ROR(x, k, n) = RotatedRight(x, k, n)
  BY <1>3 DEF ROR, RotatedRight, j
<1>7. ROL(x, k, n) = RotatedLeft(x, k, n)
  BY <1>4 DEF ROL, RotatedLeft, j
<1>8. RotatedRight(x, 0, n) = x /\ RotatedLeft(x, 0, n) = x
  BY <1>1, <1>2, <1>5 DEF RotatedRight, RotatedLeft
<1> QED
  BY <1>6, <1>7, <1>8

(* A rotate by k + 1 is one by k and one bit more, round the whole width too.*)
LEMMA RotatedSteps ==
  ASSUME NEW n \in Nat \ {0}, NEW k \in Nat, NEW x \in 0 .. Pow(n) - 1
  PROVE  LET one == Bit(x, k % n)
             c == Bit(x, n - 1 - (k % n))
         IN  /\ \E h \in Nat :
                   /\ RotatedRight(x, k, n) = 2 * h + When(one, 1)
                   /\ RotatedRight(x, k + 1, n) = h + When(one, Pow(n - 1))
                   /\ h < Pow(n - 1)
             /\ \E h \in Nat :
                   /\ RotatedLeft(x, k, n) = h + When(c, Pow(n - 1))
                   /\ RotatedLeft(x, k + 1, n) = 2 * h + When(c, 1)
                   /\ h < Pow(n - 1)
             /\ one \in BOOLEAN /\ c \in BOOLEAN
<1> DEFINE j == k % n
           i == n - 1 - j
           m == n - 1
<1>1. /\ j \in 0 .. n - 1 /\ (k + 1) % n = IF j + 1 < n THEN j + 1 ELSE 0
      /\ n \in Nat /\ Pow(n) \in Nat
  BY NextPlace, PowIs
<1>2. x \in Nat
  BY <1>1
<1> HIDE DEF j, i, m
<1>3. i \in Nat /\ j \in Nat /\ n - j = i + 1 /\ i + j = m /\ m \in Nat /\ i + j + 1 = n
  BY <1>1 DEF i, m
<1>4. x \in 0 .. Pow(i + j + 1) - 1
  BY <1>3
<1>5. /\ RotatedRight(x, k, n) = Right(x, j, i + 1)
      /\ RotatedLeft(x, k, n) = Left(x, j, i + 1)
  BY <1>3 DEF RotatedRight, RotatedLeft, j
<1>6. /\ RotatedRight(x, k + 1, n) = Right(x, j + 1, i)
      /\ RotatedLeft(x, k + 1, n) = Left(x, j + 1, i)
  <2>1. CASE j + 1 < n
    <3>1. (k + 1) % n = j + 1 /\ n - (j + 1) = i
      BY <1>1, <1>3, <2>1
    <3> QED
      BY <3>1 DEF RotatedRight, RotatedLeft
  <2>2. CASE ~(j + 1 < n)
    <3>1. (k + 1) % n = 0 /\ n - 0 = n /\ j + 1 = n /\ i = 0
      BY <1>1, <1>3, <2>2
    <3>2. /\ Right(x, 0, n) = x /\ Right(x, n, 0) = x
          /\ Left(x, 0, n) = x /\ Left(x, n, 0) = x
      BY <1>1, RotateNone
    <3> QED
      BY <3>1, <3>2 DEF RotatedRight, RotatedLeft
  <2> QED
    BY <2>1, <2>2
<1>7. \E h \in Nat : /\ Right(x, j, i + 1) = 2 * h + When(Bit(x, j), 1)
                     /\ Right(x, j + 1, i) = h + When(Bit(x, j), Pow(i + j))
                     /\ h < Pow(i + j)
  BY <1>3, <1>4, RotateRight
<1>8. \E h \in Nat : /\ Left(x, j, i + 1) = h + When(Bit(x, i), Pow(i + j))
                     /\ Left(x, j + 1, i) = 2 * h + When(Bit(x, i), 1)
                     /\ h < Pow(i + j)
  BY <1>3, <1>4, RotateLeft
<1>9. Bit(x, j) \in BOOLEAN /\ Bit(x, i) \in BOOLEAN
  BY <1>2, <1>3, BitIs
<1> QED
  BY <1>3, <1>5, <1>6, <1>7, <1>8, <1>9 DEF i, j, m

(* ROR with the count in a register.                                       *)
LEMMA RorIs ==
  ASSUME NEW n \in Nat \ {0}, NEW k \in Nat \ {0}, NEW x \in 0 .. Pow(n) - 1, NEW f
  PROVE  ror_r(x, k, n, f)
           = Result(RotatedRight(x, k, n), n, f.X, FALSE, Bit(x, (k - 1) % n))
<1>1. ROR(x, k, n) = RotatedRight(x, k, n) /\ k # 0
  BY RotatedAre
<1> QED
  BY <1>1 DEF ror_r

(* Its value and X, by a count of zero too.                                *)
LEMMA RorValue ==
  ASSUME NEW n \in Nat \ {0}, NEW k \in Nat, NEW x \in 0 .. Pow(n) - 1, NEW f
  PROVE  ror_r(x, k, n, f).value = RotatedRight(x, k, n) /\ ror_r(x, k, n, f).ccr.X = f.X
<1> DEFINE o == ror_r(x, k, n, f)
           v == RotatedRight(x, k, n)
           c == Bit(x, (k - 1) % n)
<1>1. CASE k = 0
  <2>1. o = ByNone(x, n, f)
    BY <1>1 DEF ror_r
  <2>2. o.value = x /\ o.ccr.X = f.X
    BY <2>1 DEF ByNone, Result
  <2>3. v = x
    BY <1>1, RotatedAre
  <2> HIDE DEF o, v
  <2> QED
    BY <2>2, <2>3 DEF o, v
<1>2. CASE k # 0
  <2>1. k \in Nat \ {0}
    BY <1>2
  <2>2. o = Result(v, n, f.X, FALSE, c)
    BY <2>1, RorIs
  <2> HIDE DEF v, c, o
  <2>3. o.value = v /\ o.ccr.X = f.X
    BY <2>2 DEF Result
  <2> QED
    BY <2>3 DEF v, o
<1> QED
  BY <1>1, <1>2

(* ROR by k + 1 is ROR by k and one bit more.                              *)
LEMMA RorFurther ==
  ASSUME NEW n \in Nat \ {0}, NEW k \in Nat, NEW x \in 0 .. Pow(n) - 1, NEW f
  PROVE  Further("ror", ror_r(x, k, n, f), ror_r(x, k + 1, n, f), n, FALSE)
<1> DEFINE o == ror_r(x, k, n, f)
           j == k + 1
           p == ror_r(x, j, n, f)
           c == Bit(x, k % n)
           m == n - 1
           v == RotatedRight(x, k, n)
           w == RotatedRight(x, j, n)
           px == f.X
<1>1. j \in Nat \ {0} /\ j - 1 = k /\ m \in Nat /\ n = m + 1
  OBVIOUS
<1>2. c \in BOOLEAN
  BY RotatedSteps
<1>3. o.value = v /\ o.ccr.X = px
  BY RorValue
<1>4. PICK h \in Nat : v = 2 * h + When(c, 1) /\ w = h + When(c, Pow(m))
  BY RotatedSteps
<1>5. p = Result(w, n, px, FALSE, c)
  <2> HIDE DEF j
  <2>1. p = Result(w, n, px, FALSE, Bit(x, (j - 1) % n))
    BY <1>1, RorIs
  <2> QED
    BY <1>1, <2>1
<1>6. "ror" \in Shifts \ Leftwards /\ "ror" \in {"ror", "rol"}
  BY DEF Shifts, Leftwards
<1> HIDE DEF o, p, c, v, w, m, px
<1>7. Bit(v, 0) = c
  BY <1>2, <1>4, LowestOf
<1>8. Entering("ror", o.value, o.ccr, n) = c
  BY <1>3, <1>7 DEF Entering, Leaving, Leftwards
<1>9. o.value = 2 * h + When(c, 1) /\ p = Result(h + When(c, Pow(m)), n, px, FALSE, c)
  BY <1>3, <1>4, <1>5
<1>10. px = IF "ror" \in {"ror", "rol"} THEN o.ccr.X ELSE c
  BY <1>3, <1>6
<1>11. c = c \/ FALSE
  OBVIOUS
<1>12. Further("ror", o, p, n, FALSE)
  BY <1>1, <1>2, <1>6, <1>8, <1>9, <1>10, <1>11, FurtherRight, ZenonT(40)
<1> QED
  BY <1>12 DEF o, p

(* ROL with the count in a register: its value and X.                      *)
LEMMA RolValue ==
  ASSUME NEW n \in Nat \ {0}, NEW k \in Nat, NEW x \in 0 .. Pow(n) - 1,
         NEW wide, NEW undef, NEW f
  PROVE  /\ rol_r(x, k, n, wide, undef, f).value = RotatedLeft(x, k, n)
         /\ rol_r(x, k, n, wide, undef, f).ccr.X = f.X
<1> DEFINE o == rol_r(x, k, n, wide, undef, f)
           v == RotatedLeft(x, k, n)
<1>1. CASE k = 0
  <2>1. o = ByNone(x, n, f)
    BY <1>1 DEF rol_r
  <2>2. o.value = x /\ o.ccr.X = f.X
    BY <2>1 DEF ByNone, Result
  <2>3. v = x
    BY <1>1, RotatedAre
  <2> HIDE DEF o, v
  <2> QED
    BY <2>2, <2>3 DEF o, v
<1>2. CASE k # 0
  <2> DEFINE c == IF k % n # 0 THEN Bit(x, n - (k % n))
                  ELSE IF wide THEN undef ELSE Bit(x, 0)
  <2>1. ROL(x, k, n) = v
    BY RotatedAre
  <2>2. o = Result(v, n, f.X, FALSE, c)
    BY <1>2, <2>1, Zenon DEF rol_r
  <2> HIDE DEF v, o, c
  <2>3. o.value = v /\ o.ccr.X = f.X
    BY <2>2 DEF Result
  <2> QED
    BY <2>3 DEF v, o
<1> QED
  BY <1>1, <1>2

(* ROL by k + 1 is ROL by k and one bit more; lost allows for the C the    *)
(* code leaves undefined.                                                  *)
LEMMA RolFurther ==
  ASSUME NEW n \in Nat \ {0}, NEW k \in Nat, NEW x \in 0 .. Pow(n) - 1,
         NEW wide \in BOOLEAN, NEW u, NEW undef, NEW f,
         NEW lost \in BOOLEAN, wide /\ (k + 1) % n = 0 => lost
  PROVE  Further("rol", rol_r(x, k, n, wide, u, f), rol_r(x, k + 1, n, wide, undef, f), n,
                 lost)
<1> DEFINE o == rol_r(x, k, n, wide, u, f)
           j == k + 1
           p == rol_r(x, j, n, wide, undef, f)
           i == k % n
           c == Bit(x, n - 1 - i)
           m == n - 1
           v == RotatedLeft(x, k, n)
           w == RotatedLeft(x, j, n)
           px == f.X
<1>1. j \in Nat \ {0} /\ m \in Nat /\ n = m + 1
  OBVIOUS
<1>2. c \in BOOLEAN
  BY RotatedSteps
<1>3. o.value = v /\ o.ccr.X = px
  BY RolValue
<1>4. PICK h \in Nat : v = h + When(c, Pow(m)) /\ w = 2 * h + When(c, 1) /\ h < Pow(m)
  BY RotatedSteps
<1>5. \E pc : p = Result(w, n, px, FALSE, pc) /\ ((pc = c) \/ lost)
  <2>1. i \in 0 .. n - 1 /\ j % n = IF i + 1 < n THEN i + 1 ELSE 0
    BY NextPlace
  <2>2. p = Result(w, n, px, FALSE, IF j % n # 0 THEN Bit(x, n - (j % n))
                                    ELSE IF wide THEN undef ELSE Bit(x, 0))
    <3>1. j # 0
      BY <1>1
    <3> HIDE DEF j
    <3>2. ROL(x, j, n) = RotatedLeft(x, j, n)
      BY <1>1, RotatedAre
    <3> QED
      BY <3>1, <3>2, Zenon DEF rol_r
  <2> HIDE DEF i, p, w, px
  <2>3. CASE i + 1 < n
    <3>1. j % n = i + 1 /\ j % n # 0 /\ n - (i + 1) = n - 1 - i
      BY <2>1, <2>3
    <3>2. Bit(x, n - (j % n)) = c
      BY <3>1
    <3> HIDE DEF j, c
    <3> QED
      BY <2>2, <3>1, <3>2, Zenon
  <2>4. CASE ~(i + 1 < n)
    <3>1. ~(j % n # 0) /\ n - 1 - i = 0
      BY <2>1, <2>4
    <3>2. wide => lost
      BY <3>1
    <3>3. c = Bit(x, 0)
      BY <3>1
    <3> HIDE DEF j, c
    <3> QED
      BY <2>2, <3>1, <3>2, <3>3, Zenon
  <2> QED
    BY <2>3, <2>4
<1>6. PICK pc : p = Result(w, n, px, FALSE, pc) /\ ((pc = c) \/ lost)
  BY <1>5
<1>7. "rol" \in Leftwards /\ "rol" \in {"ror", "rol"} /\ "rol" # "asl"
  BY DEF Leftwards
<1> HIDE DEF o, p, c, v, w, m, px, i
<1>8. Msb(v, n) = c
  BY <1>1, <1>2, <1>4, SignOf
<1>9. Entering("rol", o.value, o.ccr, n) = c
  BY <1>3, <1>8 DEF Entering, Leaving, Leftwards
<1>10. o.value = h + When(c, Pow(m)) /\ w = 2 * h + When(c, 1) /\ h < Pow(m)
  BY <1>3, <1>4
<1>13. m \in Nat /\ n = m + 1 /\ h \in Nat /\ "rol" \in Leftwards
  BY <1>1, <1>4, <1>7
<1> HIDE DEF j
<1>14. Leaving("rol", o.value, n) = c
  BY <1>9 DEF Entering
<1>15. OneBit("rol", o.value, o.ccr, n) = w
  <2> DEFINE res == o.value
             g == o.ccr
  <2>1. res = h + When(c, Pow(m)) /\ Entering("rol", res, g, n) = c
    BY <1>9, <1>10
  <2> HIDE DEF res, g
  <2>2. OneBit("rol", res, g, n) = w
    BY <1>2, <1>10, <1>13, <2>1, OneBitLeft
  <2> QED
    BY <2>2 DEF res, g
<1>16. FALSE = ("rol" = "asl" /\ (o.ccr.V \/ Msb(o.value, n) # Msb(w, n)))
  BY <1>7
<1>17. px = IF "rol" \in {"ror", "rol"} THEN o.ccr.X ELSE Leaving("rol", o.value, n)
  BY <1>3, <1>7
<1>18. (pc = Leaving("rol", o.value, n)) \/ lost
  BY <1>6, <1>14
<1>19. Further("rol", o, p, n, lost)
  BY <1>6, <1>15, <1>16, <1>17, <1>18, FurtherBy
<1> QED
  BY <1>19 DEF o, p, j

-----------------------------------------------------------------------------
(* Rotates through X                                                       *)

(* The operand with X above it: its parts, by the count.                   *)
LEMMA Joined ==
  ASSUME NEW n \in Nat, NEW x \in 0 .. Pow(n) - 1, NEW c \in BOOLEAN,
         NEW y, y = x + When(c, Pow(n))
  PROVE  y \in 0 .. Pow(n + 1) - 1 /\ Low(y, n) = x /\ Bit(y, n) = c
<1> DEFINE t == When(c, 1)
           w == When(c, Pow(n))
<1>1. Pow(n) \in Nat \ {0} /\ x \in Nat /\ x < Pow(n)
  <2>1. Pow(n) \in Nat \ {0}
    BY PowIs
  <2> QED
    BY <2>1
<1>2. Msb(y, n + 1) = c /\ y \in 0 .. Pow(n + 1) - 1
  <2> DEFINE m == n + 1
  <2>1. m = n + 1
    OBVIOUS
  <2> HIDE DEF m
  <2>2. Msb(y, m) = c /\ y \in 0 .. Pow(m) - 1
    BY <1>1, <2>1, SignOf
  <2> QED
    BY <2>2 DEF m
<1>3. Bit(y, n) = c
  <2>1. (n + 1) - 1 = n
    OBVIOUS
  <2> QED
    BY <1>2, <2>1 DEF Msb
<1>4. t \in Nat /\ Up(t, n) = w
  <2>1. Up(0, n) = 0 /\ Up(1, n) = Pow(n)
    BY UpBits
  <2>2. CASE c
    BY <2>1, <2>2 DEF When
  <2>3. CASE ~c
    BY <2>1, <2>3 DEF When
  <2> QED
    BY <2>2, <2>3
<1> HIDE DEF t
<1>5. Low(Up(t, n) + x, n) = x
  BY <1>4, TopLowAre
<1>6. w \in Int
  BY <1>1, WhenIs
<1> HIDE DEF w
<1>7. y = w + x
  BY <1>1, <1>6 DEF w
<1> QED
  BY <1>2, <1>3, <1>4, <1>5, <1>7

(* The operand with X above it: its parts at any bit.                      *)
LEMMA JoinedParts ==
  ASSUME NEW n \in Nat, NEW x \in 0 .. Pow(n) - 1, NEW c \in BOOLEAN,
         NEW i \in Nat, NEW g \in Nat, i + g = n,
         NEW y, y = x + When(c, Pow(n))
  PROVE  /\ Above(y, i) = Above(x, i) + When(c, Pow(g)) /\ Low(y, i) = Low(x, i)
         /\ Above(x, i) \in 0 .. Pow(g) - 1
<1> DEFINE t == Above(x, i)
           l == Low(x, i)
           w == When(c, Pow(g))
<1>1. Pow(n) \in Nat \ {0} /\ Pow(g) \in Nat \ {0}
  BY PowIs
<1>2. x \in Nat
  BY <1>1
<1>3. t \in Nat /\ l \in 0 .. Pow(i) - 1 /\ x = Up(t, i) + l
  BY <1>2, TopLow
<1>4. w \in Nat
  BY <1>1, WhenIs
<1>5. Up(w, i) = When(c, Pow(n))
  <2>1. Up(0, i) = 0
    BY UpBits
  <2>2. Up(Pow(g), i) = Pow(g + i)
    BY UpPow
  <2>3. g + i = n
    OBVIOUS
  <2>4. CASE c
    BY <2>2, <2>3, <2>4 DEF When
  <2>5. CASE ~c
    BY <2>1, <2>5 DEF When
  <2> QED
    BY <2>4, <2>5
<1>6. Above(x, i) \in 0 .. Pow(g) - 1
  <2>1. i \in 0 .. n /\ n - i = g
    OBVIOUS
  <2>2. Above(x, i) \in 0 .. Pow(n - i) - 1
    BY <2>1, Within
  <2> QED
    BY <2>1, <2>2
<1> HIDE DEF t, l, w
<1> DEFINE s == t + w
<1>7. Up(s, i) = Up(t, i) + Up(w, i) /\ s \in Nat
  <2>1. t \in Int /\ w \in Int
    BY <1>3, <1>4
  <2>2. Up(t + w, i) = Up(t, i) + Up(w, i)
    BY <2>1, UpSum
  <2> QED
    BY <1>3, <1>4, <2>2
<1>8. Up(t, i) \in Int /\ Up(w, i) \in Int /\ l \in Int
  <2>1. t \in Int /\ w \in Int
    BY <1>3, <1>4
  <2>2. Up(t, i) \in Int
    BY <2>1, UpInt
  <2>3. Up(w, i) \in Int
    BY <2>1, UpInt
  <2>4. Pow(i) \in Nat
    BY PowIs
  <2> QED
    BY <1>3, <2>2, <2>3, <2>4
<1> HIDE DEF s
<1>9. Above(Up(s, i) + l, i) = s /\ Low(Up(s, i) + l, i) = l
  BY <1>3, <1>7, TopLowAre
<1>10. y = Up(s, i) + l
  BY <1>3, <1>5, <1>7, <1>8
<1>11. Above(y, i) = s /\ Low(y, i) = l
  BY <1>9, <1>10
<1> QED
  BY <1>6, <1>11 DEF s, t, l, w

(* What ROR_33 and ROL_33 put together by hand is the rotate of the longer *)
(* number.                                                                 *)
LEMMA ByHand ==
  ASSUME NEW n \in Nat \ {0}, NEW x \in 0 .. Pow(n) - 1, NEW c \in BOOLEAN,
         NEW i \in Nat, NEW g \in Nat, i + g + 1 = n,
         NEW y, y = x + When(c, Pow(n))
  PROVE  /\ LET v == Above(x, i + 1) + Up(Low(x, i), g + 1) + When(c, Pow(g))
            IN  /\ v \in 0 .. Pow(n) - 1
                /\ Right(y, i + 1, g + 1) = v + When(Bit(x, i), Pow(n))
         /\ LET v == Up(Low(x, g), i + 1) + Above(x, g + 1) + When(c, Pow(i))
            IN  /\ v \in 0 .. Pow(n) - 1
                /\ Left(y, i + 1, g + 1) = v + When(Bit(x, g), Pow(n))
<1>1. Pow(n) \in Nat \ {0} /\ n \in Nat
  BY PowIs
<1>2. x \in Nat
  BY <1>1
<1>3. ASSUME NEW d \in Nat, NEW e \in Nat, d + e + 1 = n
      PROVE  /\ Low(y, d + 1) = Low(x, d + 1)
             /\ Above(y, d + 1) = Above(x, d + 1) + When(c, Pow(e))
             /\ Above(x, d + 1) \in 0 .. Pow(e) - 1
             /\ When(c, Pow(e)) \in 0 .. Pow(e)
             /\ Pow(e + 1) = 2 * Pow(e) /\ Pow(e) \in Nat
             /\ Up(Low(x, d), e + 1) \in Nat
             /\ Up(Low(x, d), e + 1) + Pow(e + 1) <= Pow(n)
             /\ Up(Low(x, d + 1), e + 1)
                  = Up(Low(x, d), e + 1) + When(Bit(x, d), Pow(n))
             /\ When(Bit(x, d), Pow(n)) \in Nat
  <2> DEFINE a1 == d + 1
             e1 == e + 1
  <2>1. a1 \in Nat /\ a1 + e = n /\ e1 \in Nat /\ d + e1 = n
    BY <1>3
  <2>2. Pow(e) \in Nat \ {0} /\ Pow(e1) = 2 * Pow(e)
    BY UpMore, PowIs
  <2>3. When(c, Pow(e)) \in Nat /\ When(c, Pow(e)) <= Pow(e)
    BY <2>2, WhenIs
  <2>4. Bit(x, d) \in BOOLEAN
    BY <1>2, BitIs
  <2>5. When(Bit(x, d), Pow(n)) \in Nat
    BY <1>1, <2>4, WhenIs
  <2> HIDE DEF a1, e1
  <2>6. /\ Above(y, a1) = Above(x, a1) + When(c, Pow(e)) /\ Low(y, a1) = Low(x, a1)
        /\ Above(x, a1) \in 0 .. Pow(e) - 1
    BY <1>1, <2>1, JoinedParts
  <2>7. /\ Up(Low(x, d), e1) \in Nat
        /\ Up(Low(x, d), e1) + Pow(e1) <= Pow(d + e1)
        /\ Up(Low(x, d + 1), e1) = Up(Low(x, d), e1) + When(Bit(x, d), Pow(d + e1))
    BY <1>2, <2>1, LeftStep, ZenonT(40)
  <2>8. /\ Up(Low(x, d), e1) + Pow(e1) <= Pow(n)
        /\ Up(Low(x, d + 1), e1) = Up(Low(x, d), e1) + When(Bit(x, d), Pow(n))
    BY <2>1, <2>7
  <2>9. When(c, Pow(e)) \in 0 .. Pow(e)
    BY <2>2, <2>3
  <2> QED
    BY <2>2, <2>5, <2>6, <2>7, <2>8, <2>9 DEF a1, e1
<1>4. i + g + 1 = n /\ g + i + 1 = n
  OBVIOUS
<1>6. LET v == Above(x, i + 1) + Up(Low(x, i), g + 1) + When(c, Pow(g))
      IN  /\ v \in 0 .. Pow(n) - 1
          /\ Right(y, i + 1, g + 1) = v + When(Bit(x, i), Pow(n))
  <2> DEFINE t == Above(x, i + 1)
             u == Up(Low(x, i), g + 1)
             w == When(c, Pow(g))
             z == When(Bit(x, i), Pow(n))
             q == Pow(g + 1)
             p == Pow(g)
  <2>1. /\ t \in 0 .. p - 1 /\ w \in 0 .. p /\ q = 2 * p /\ p \in Nat /\ u \in Nat
        /\ u + q <= Pow(n) /\ z \in Nat
        /\ Up(Low(x, i + 1), g + 1) = u + z
        /\ Low(y, i + 1) = Low(x, i + 1) /\ Above(y, i + 1) = t + w
    BY <1>3, <1>4
  <2>2. Right(y, i + 1, g + 1) = (t + w) + (u + z)
    BY <2>1 DEF Right
  <2> HIDE DEF t, u, w, z, q, p
  <2>3. t \in Int /\ u \in Int /\ w \in Int /\ z \in Int
    BY <2>1
  <2>4. t + u + w \in 0 .. Pow(n) - 1
    BY <1>1, <2>1
  <2>5. (t + w) + (u + z) = (t + u + w) + z
    BY <2>3
  <2> QED
    BY <2>2, <2>4, <2>5 DEF t, u, w, z
<1>7. LET v == Up(Low(x, g), i + 1) + Above(x, g + 1) + When(c, Pow(i))
      IN  /\ v \in 0 .. Pow(n) - 1
          /\ Left(y, i + 1, g + 1) = v + When(Bit(x, g), Pow(n))
  <2> DEFINE t == Above(x, g + 1)
             u == Up(Low(x, g), i + 1)
             w == When(c, Pow(i))
             z == When(Bit(x, g), Pow(n))
             q == Pow(i + 1)
             p == Pow(i)
  <2>1. /\ t \in 0 .. p - 1 /\ w \in 0 .. p /\ q = 2 * p /\ p \in Nat /\ u \in Nat
        /\ u + q <= Pow(n) /\ z \in Nat
        /\ Up(Low(x, g + 1), i + 1) = u + z
        /\ Low(y, g + 1) = Low(x, g + 1) /\ Above(y, g + 1) = t + w
    BY <1>3, <1>4
  <2>2. Left(y, i + 1, g + 1) = (u + z) + (t + w)
    BY <2>1 DEF Left
  <2> HIDE DEF t, u, w, z, q, p
  <2>3. t \in Int /\ u \in Int /\ w \in Int /\ z \in Int
    BY <2>1
  <2>4. u + t + w \in 0 .. Pow(n) - 1
    BY <1>1, <2>1
  <2>5. (u + z) + (t + w) = (u + t + w) + z
    BY <2>3
  <2> QED
    BY <2>2, <2>4, <2>5 DEF t, u, w, z
<1> QED
  BY <1>6, <1>7

(* The operand and the X that a rotate through X leaves.                   *)
LEMMA ThroughIs ==
  ASSUME NEW n \in Nat, NEW v \in 0 .. Pow(n) - 1, NEW one \in BOOLEAN,
         NEW z, z = v + When(one, Pow(n))
  PROVE  Through(z, n) = Result(v, n, one, FALSE, one)
<1>1. Low(z, n) = v /\ Bit(z, n) = one
  BY Joined
<1>2. Through(z, n) = Result(Low(z, n), n, Bit(z, n), FALSE, Bit(z, n))
  BY DEF Through, Low, Pow
<1> QED
  BY <1>1, <1>2

(* ROXR is a rotate of the longer number, in the narrow handlers and in the*)
(* long one that has no room for it.                                       *)
LEMMA RoxrIs ==
  ASSUME NEW n \in Nat \ {0}, NEW k \in Nat, NEW x \in 0 .. Pow(n) - 1,
         NEW wide, NEW f, NEW c \in BOOLEAN, c = f.X,
         NEW y, y = x + When(c, Pow(n))
  PROVE  roxr_r(x, k, n, wide, f) = Through(RotatedRight(y, k, n + 1), n)
<1> DEFINE m == n + 1
           j == k % m
           o == roxr_r(x, k, n, wide, f)
<1>1. m \in Nat \ {0} /\ n \in Nat
  OBVIOUS
<1>2. y \in 0 .. Pow(m) - 1
  BY <1>1, Joined
<1> HIDE DEF m
<1>3. j \in 0 .. m - 1
  BY <1>1, NextPlace
<1>4. RotatedRight(y, k, m) = Right(y, j, m - j)
  BY DEF RotatedRight
<1>5. y = WithX(x, n, f)
  BY DEF WithX, When, Pow
<1> HIDE DEF j
<1>6. CASE j = 0
  <2>1. roxr_r(x, k, n, wide, f) = Result(x, n, c, FALSE, c)
    BY <1>6 DEF roxr_r, j, m
  <2>2. Right(y, 0, m) = y /\ m - 0 = m
    BY <1>1, <1>2, RotateNone
  <2>3. RotatedRight(y, k, m) = y
    BY <1>4, <1>6, <2>2
  <2>4. Through(y, n) = Result(x, n, c, FALSE, c)
    BY <1>1, ThroughIs
  <2> QED
    BY <2>1, <2>3, <2>4 DEF m
<1>7. CASE j # 0 /\ ~wide
  <2>1. roxr_r(x, k, n, wide, f) = Through(ROR(y, j, m), n)
    BY <1>5, <1>7 DEF roxr_r, roxr_s, j, m
  <2>2. j \in Nat /\ j < m
    BY <1>1, <1>3
  <2>3. j % m = j
    BY <1>1, <2>2, NextPlace
  <2>4. ROR(y, j, m) = RotatedRight(y, j, m)
    BY <1>1, <1>2, <2>2, RotatedAre
  <2>5. ROR(y, j, m) = RotatedRight(y, k, m)
    BY <1>4, <2>3, <2>4 DEF RotatedRight
  <2> QED
    BY <2>1, <2>5 DEF m
<1>8. CASE j # 0 /\ wide
  <2> DEFINE i == j - 1
             g == n - j
             v == Above(x, i + 1) + Up(Low(x, i), g + 1) + When(c, Pow(g))
             one == Bit(x, i)
             w == LSR(x, j) + LSL(x, n + 1 - j, n) + (IF f.X THEN 2^(n - j) ELSE 0)
  <2>1. /\ i \in Nat /\ g \in Nat /\ i + g + 1 = n /\ i + 1 = j /\ m - j = g + 1
        /\ n + 1 - j = g + 1 /\ n - (g + 1) = i
    BY <1>1, <1>3, <1>8 DEF m
  <2>2. roxr_r(x, k, n, wide, f) = Result(w, n, Bit(x, j - 1), FALSE, Bit(x, j - 1))
    BY <1>8, Zenon DEF roxr_r, roxr_s, ror33, j, m
  <2>3. w = v
    <3> HIDE DEF i, g
    <3>1. LSR(x, j) = Above(x, i + 1)
      BY <2>1 DEF LSR, Above, Pow
    <3>2. LSL(x, n + 1 - j, n) = Up(Low(x, i), g + 1)
      BY <2>1 DEF LSL, Up, Low, Pow
    <3>3. (IF f.X THEN 2^(n - j) ELSE 0) = When(c, Pow(g))
      BY DEF When, Pow, g
    <3> QED
      BY <3>1, <3>2, <3>3
  <2> HIDE DEF v, w, i, g, one
  <2>4. /\ v \in 0 .. Pow(n) - 1
        /\ Right(y, i + 1, g + 1) = v + When(one, Pow(n))
    BY <2>1, ByHand, SMTT(30) DEF v, one
  <2>5. RotatedRight(y, k, m) = v + When(one, Pow(n))
    BY <1>4, <2>1, <2>4
  <2>6. one \in BOOLEAN
    <3>1. x \in Nat
      BY <1>1, PowIs
    <3> QED
      BY <2>1, <3>1, BitIs DEF one
  <2>7. Through(RotatedRight(y, k, m), n) = Result(v, n, one, FALSE, one)
    BY <1>1, <2>4, <2>5, <2>6, ThroughIs
  <2>8. roxr_r(x, k, n, wide, f) = Result(v, n, one, FALSE, one)
    BY <2>2, <2>3 DEF one, i
  <2> QED
    BY <2>7, <2>8 DEF m
<1> QED
  BY <1>6, <1>7, <1>8

(* ROXL is a rotate of the longer number, in all handlers.                 *)
LEMMA RoxlIs ==
  ASSUME NEW n \in Nat \ {0}, NEW k \in Nat, NEW x \in 0 .. Pow(n) - 1,
         NEW wide, NEW f, NEW c \in BOOLEAN, c = f.X,
         NEW y, y = x + When(c, Pow(n))
  PROVE  roxl_r(x, k, n, wide, f) = Through(RotatedLeft(y, k, n + 1), n)
<1> DEFINE m == n + 1
           j == k % m
<1>1. m \in Nat \ {0} /\ n \in Nat
  OBVIOUS
<1>2. y \in 0 .. Pow(m) - 1
  BY <1>1, Joined
<1> HIDE DEF m
<1>3. j \in 0 .. m - 1
  BY <1>1, NextPlace
<1>4. RotatedLeft(y, k, m) = Left(y, j, m - j)
  BY DEF RotatedLeft
<1>5. y = WithX(x, n, f)
  BY DEF WithX, When, Pow
<1> HIDE DEF j
<1>6. CASE j = 0
  <2>1. roxl_r(x, k, n, wide, f) = Result(x, n, c, FALSE, c)
    BY <1>6 DEF roxl_r, j, m
  <2>2. Left(y, 0, m) = y /\ m - 0 = m
    BY <1>1, <1>2, RotateNone
  <2>3. RotatedLeft(y, k, m) = y
    BY <1>4, <1>6, <2>2
  <2>4. Through(y, n) = Result(x, n, c, FALSE, c)
    BY <1>1, ThroughIs
  <2> QED
    BY <2>1, <2>3, <2>4 DEF m
<1>7. CASE j # 0 /\ ~wide
  <2>1. roxl_r(x, k, n, wide, f) = Through(ROL(y, j, m), n)
    BY <1>5, <1>7 DEF roxl_r, roxl_s, j, m
  <2>2. j \in Nat /\ j < m
    BY <1>1, <1>3
  <2>3. j % m = j
    BY <1>1, <2>2, NextPlace
  <2>4. ROL(y, j, m) = RotatedLeft(y, j, m)
    BY <1>1, <1>2, <2>2, RotatedAre
  <2>5. ROL(y, j, m) = RotatedLeft(y, k, m)
    BY <1>4, <2>3, <2>4 DEF RotatedLeft
  <2> QED
    BY <2>1, <2>5 DEF m
<1>8. CASE j # 0 /\ wide
  <2> DEFINE i == j - 1
             g == n - j
             v == Up(Low(x, g), i + 1) + Above(x, g + 1) + When(c, Pow(i))
             one == Bit(x, g)
             w == LSL(x, j, n) + LSR(x, n + 1 - j) + (IF f.X THEN 2^(j - 1) ELSE 0)
  <2>1. /\ i \in Nat /\ g \in Nat /\ i + g + 1 = n /\ i + 1 = j /\ m - j = g + 1
        /\ n + 1 - j = g + 1
    BY <1>1, <1>3, <1>8 DEF m
  <2>2. roxl_r(x, k, n, wide, f) = Result(w, n, Bit(x, n - j), FALSE, Bit(x, n - j))
    BY <1>8, Zenon DEF roxl_r, roxl_s, rol33, j, m
  <2>3. w = v
    <3>1. LSR(x, n + 1 - j) = Above(x, g + 1)
      <4> HIDE DEF g
      <4> QED
        BY <2>1 DEF LSR, Above, Pow
    <3>2. LSL(x, j, n) = Up(Low(x, g), i + 1)
      <4> HIDE DEF i
      <4> QED
        BY <2>1 DEF LSL, Up, Low, Pow
    <3>3. (IF f.X THEN 2^(j - 1) ELSE 0) = When(c, Pow(i))
      BY DEF When, Pow
    <3> HIDE DEF i, g
    <3> QED
      BY <3>1, <3>2, <3>3
  <2> HIDE DEF v, w, i, g, one
  <2>4. /\ v \in 0 .. Pow(n) - 1
        /\ Left(y, i + 1, g + 1) = v + When(one, Pow(n))
    BY <2>1, ByHand, SMTT(30) DEF v, one
  <2>5. RotatedLeft(y, k, m) = v + When(one, Pow(n))
    BY <1>4, <2>1, <2>4
  <2>6. one \in BOOLEAN
    <3>1. x \in Nat
      BY <1>1, PowIs
    <3> QED
      BY <2>1, <3>1, BitIs DEF one
  <2>7. Through(RotatedLeft(y, k, m), n) = Result(v, n, one, FALSE, one)
    BY <1>1, <2>4, <2>5, <2>6, ThroughIs
  <2>8. roxl_r(x, k, n, wide, f) = Result(v, n, one, FALSE, one)
    BY <2>2, <2>3 DEF one, g
  <2> QED
    BY <2>7, <2>8 DEF m
<1> QED
  BY <1>6, <1>7, <1>8

(* A number without its highest bit, and the double of it.                 *)
LEMMA HighestAway ==
  ASSUME NEW m \in Nat, NEW n, n = m + 1, NEW h \in Nat, h < Pow(n), NEW c \in BOOLEAN
  PROVE  \E l \in Nat, one \in BOOLEAN :
            /\ h = l + When(one, Pow(m)) /\ l < Pow(m)
            /\ 2 * l + When(c, 1) \in 0 .. Pow(n) - 1
            /\ 2 * h + When(c, 1) = (2 * l + When(c, 1)) + When(one, Pow(n))
<1> DEFINE l == Low(h, m)
           one == Bit(h, m)
           p == Pow(m)
           t == When(c, 1)
           w == When(one, p)
           u == When(one, Pow(n))
<1>1. p \in Nat \ {0} /\ n \in Nat /\ Pow(n) = 2 * p
  <2>1. Pow(m + 1) = 2 * Pow(m) /\ Pow(m) \in Nat \ {0}
    BY UpMore, PowIs
  <2> QED
    BY <2>1
<1>2. one \in BOOLEAN
  BY BitIs
<1>3. l \in 0 .. p - 1
  BY TopLow
<1>4. h = l + w
  <2>1. Low(h, m + 1) = Low(h, m) + When(Bit(h, m), Pow(m))
    BY RightStep
  <2>2. h \in 0 .. Pow(n) - 1
    BY <1>1
  <2>3. Low(h, n) = h
    BY <1>1, <2>2, Beyond
  <2> QED
    BY <2>1, <2>3
<1>5. t \in 0 .. 1
  <2>1. t \in Nat /\ t <= 1
    BY WhenIs
  <2> QED
    BY <2>1
<1>6. w \in Nat /\ u = 2 * w
  <2>1. CASE one
    BY <1>1, <2>1 DEF When
  <2>2. CASE ~one
    BY <1>1, <2>2 DEF When
  <2> QED
    BY <2>1, <2>2
<1> HIDE DEF l, one, p, t, w, u
<1>7. 2 * l + t \in 0 .. Pow(n) - 1 /\ 2 * h + t = (2 * l + t) + u /\ l \in Nat /\ l < p
  BY <1>1, <1>3, <1>4, <1>5, <1>6
<1> QED
  BY <1>2, <1>4, <1>7 DEF p, t, w, u

(* A rotate of the longer number to the right is one bit further through X.*)
LEMMA ThroughRight ==
  ASSUME NEW n \in Nat \ {0}, NEW k \in Nat, NEW y \in 0 .. Pow(n + 1) - 1,
         NEW o, o = Through(RotatedRight(y, k, n + 1), n),
         NEW p, p = Through(RotatedRight(y, k + 1, n + 1), n)
  PROVE  Further("roxr", o, p, n, FALSE)
<1> DEFINE m == n - 1
           i == n + 1
           j == k + 1
           z == RotatedRight(y, k, i)
           w == RotatedRight(y, j, i)
           one == Bit(y, k % i)
<1>1. n \in Nat /\ m \in Nat /\ n = m + 1 /\ i \in Nat \ {0} /\ j \in Nat /\ i - 1 = n
  OBVIOUS
<1>2. y \in 0 .. Pow(i) - 1
  OBVIOUS
<1>3. o = Through(z, n)
  OBVIOUS
<1>4. p = Through(w, n)
  OBVIOUS
<1> HIDE DEF m, j, one, i
<1>6. \E h \in Nat : z = 2 * h + When(one, 1) /\ w = h + When(one, Pow(i - 1)) /\ h < Pow(i - 1)
  BY <1>1, <1>2, RotatedSteps DEF one, j
<1>7. one \in BOOLEAN
  BY <1>1, <1>2, RotatedSteps DEF one
<1> HIDE DEF z, w
<1>8. PICK h \in Nat, d \in BOOLEAN :
         z = 2 * h + When(d, 1) /\ w = h + When(d, Pow(n)) /\ h < Pow(n)
  BY <1>1, <1>6, <1>7
<1>9. PICK l \in Nat, e \in BOOLEAN :
         /\ h = l + When(e, Pow(m)) /\ l < Pow(m)
         /\ 2 * l + When(d, 1) \in 0 .. Pow(n) - 1
         /\ 2 * h + When(d, 1) = (2 * l + When(d, 1)) + When(e, Pow(n))
  BY <1>1, <1>8, HighestAway
<1> DEFINE v == 2 * l + When(d, 1)
<1>10. v \in 0 .. Pow(n) - 1 /\ e \in BOOLEAN /\ z = v + When(e, Pow(n)) /\ n \in Nat
  BY <1>1, <1>8, <1>9
<1>11. h \in 0 .. Pow(n) - 1 /\ d \in BOOLEAN /\ n \in Nat /\ w = h + When(d, Pow(n))
  BY <1>1, <1>8, PowIs
<1> HIDE DEF v
<1>12. o = Result(v, n, e, FALSE, e)
  BY <1>3, <1>10, ThroughIs
<1>13. p = Result(h, n, d, FALSE, d)
  BY <1>4, <1>11, ThroughIs
<1>14. o.value = v /\ o.ccr.X = e
  BY <1>12 DEF Result
<1>15. "roxr" \in Shifts \ Leftwards /\ ~("roxr" \in {"ror", "rol"})
  BY DEF Shifts, Leftwards
<1>16. Entering("roxr", o.value, o.ccr, n) = e
  BY <1>14 DEF Entering
<1>17. o.value = 2 * l + When(d, 1) /\ p = Result(l + When(e, Pow(m)), n, d, FALSE, d)
  BY <1>9, <1>13, <1>14 DEF v
<1>18. d = IF "roxr" \in {"ror", "rol"} THEN o.ccr.X ELSE d
  BY <1>15
<1>19. d = d \/ FALSE
  OBVIOUS
<1>20. l \in Nat /\ e \in BOOLEAN
  BY <1>9
<1>21. Further("roxr", o, p, n, FALSE)
  BY <1>1, <1>15, <1>16, <1>17, <1>18, <1>19, <1>20, FurtherRight, ZenonT(40)
<1> QED
  BY <1>21

(* ROXR by k + 1 is ROXR by k and one bit more.                            *)
LEMMA RoxrFurther ==
  ASSUME NEW n \in Nat \ {0}, NEW k \in Nat, NEW x \in 0 .. Pow(n) - 1,
         NEW wide, NEW f, NEW c \in BOOLEAN, c = f.X
  PROVE  Further("roxr", roxr_r(x, k, n, wide, f), roxr_r(x, k + 1, n, wide, f), n, FALSE)
<1> DEFINE y == x + When(c, Pow(n))
           j == k + 1
<1>1. n \in Nat /\ j \in Nat
  OBVIOUS
<1> HIDE DEF y, j
<1>2. y \in 0 .. Pow(n + 1) - 1
  BY <1>1, Joined DEF y
<1>3. roxr_r(x, k, n, wide, f) = Through(RotatedRight(y, k, n + 1), n)
  BY RoxrIs DEF y
<1>4. roxr_r(x, j, n, wide, f) = Through(RotatedRight(y, j, n + 1), n)
  BY <1>1, RoxrIs DEF y
<1> QED
  BY <1>2, <1>3, <1>4, ThroughRight DEF j

(* A rotate of the longer number to the left is one bit further through X. *)
LEMMA ThroughLeft ==
  ASSUME NEW n \in Nat \ {0}, NEW k \in Nat, NEW y \in 0 .. Pow(n + 1) - 1,
         NEW o, o = Through(RotatedLeft(y, k, n + 1), n),
         NEW p, p = Through(RotatedLeft(y, k + 1, n + 1), n)
  PROVE  Further("roxl", o, p, n, FALSE)
<1> DEFINE m == n - 1
           i == n + 1
           j == k + 1
           z == RotatedLeft(y, k, i)
           w == RotatedLeft(y, j, i)
           c == Bit(y, i - 1 - (k % i))
<1>1. n \in Nat /\ m \in Nat /\ n = m + 1 /\ i \in Nat \ {0} /\ j \in Nat /\ i - 1 = n
  OBVIOUS
<1>2. y \in 0 .. Pow(i) - 1
  OBVIOUS
<1>3. o = Through(z, n)
  OBVIOUS
<1>4. p = Through(w, n)
  OBVIOUS
<1> HIDE DEF m, j, c, i
<1>6. \E h \in Nat : z = h + When(c, Pow(i - 1)) /\ w = 2 * h + When(c, 1) /\ h < Pow(i - 1)
  BY <1>1, <1>2, RotatedSteps DEF c, j
<1>7. c \in BOOLEAN
  BY <1>1, <1>2, RotatedSteps DEF c
<1> HIDE DEF z, w
<1>8. PICK h \in Nat, d \in BOOLEAN :
         z = h + When(d, Pow(n)) /\ w = 2 * h + When(d, 1) /\ h < Pow(n)
  BY <1>1, <1>6, <1>7
<1>9. PICK l \in Nat, one \in BOOLEAN :
         /\ h = l + When(one, Pow(m)) /\ l < Pow(m)
         /\ 2 * l + When(d, 1) \in 0 .. Pow(n) - 1
         /\ 2 * h + When(d, 1) = (2 * l + When(d, 1)) + When(one, Pow(n))
  BY <1>1, <1>8, HighestAway
<1> DEFINE v == 2 * l + When(d, 1)
<1>10. v \in 0 .. Pow(n) - 1 /\ one \in BOOLEAN /\ w = v + When(one, Pow(n)) /\ n \in Nat
  BY <1>1, <1>8, <1>9
<1>11. h \in 0 .. Pow(n) - 1 /\ d \in BOOLEAN /\ n \in Nat /\ z = h + When(d, Pow(n))
  BY <1>1, <1>8, PowIs
<1> HIDE DEF v
<1>12. p = Result(v, n, one, FALSE, one)
  BY <1>4, <1>10, ThroughIs
<1>13. o = Result(h, n, d, FALSE, d)
  BY <1>3, <1>11, ThroughIs
<1>14. o.value = h /\ o.ccr.X = d
  BY <1>13 DEF Result
<1>15. "roxl" \in Leftwards /\ ~("roxl" \in {"ror", "rol"}) /\ "roxl" # "asl"
  BY DEF Leftwards
<1> DEFINE s == o.value
           g == o.ccr
<1>16. Entering("roxl", s, g, n) = d
  BY <1>14 DEF Entering
<1>17. s = l + When(one, Pow(m)) /\ v = 2 * l + When(d, 1)
  BY <1>9, <1>14 DEF v
<1>18. l \in Nat /\ one \in BOOLEAN /\ l < Pow(m)
  BY <1>9
<1> HIDE DEF s, g
<1>19. Leaving("roxl", s, n) = one /\ OneBit("roxl", s, g, n) = v
  <2>1. /\ Leaving("roxl", s, n) = one /\ Msb(s, n) = one
        /\ OneBit("roxl", s, g, n) = 2 * l + When(d, 1)
    BY <1>1, <1>15, <1>16, <1>17, <1>18, OneBitLeft
  <2> QED
    BY <1>17, <2>1
<1>20. v = OneBit("roxl", o.value, o.ccr, n) /\ Leaving("roxl", o.value, n) = one
  BY <1>19 DEF s, g
<1>21. one = Leaving("roxl", o.value, n) \/ FALSE
  BY <1>20
<1>22. one = IF "roxl" \in {"ror", "rol"} THEN o.ccr.X ELSE Leaving("roxl", o.value, n)
  BY <1>15, <1>20
<1>23. FALSE = ("roxl" = "asl" /\ (o.ccr.V \/ Msb(o.value, n) # Msb(v, n)))
  BY <1>15
<1>24. Further("roxl", o, p, n, FALSE)
  BY <1>12, <1>20, <1>21, <1>22, <1>23, FurtherBy
<1> QED
  BY <1>24

(* ROXL by k + 1 is ROXL by k and one bit more.                            *)
LEMMA RoxlFurther ==
  ASSUME NEW n \in Nat \ {0}, NEW k \in Nat, NEW x \in 0 .. Pow(n) - 1,
         NEW wide, NEW f, NEW c \in BOOLEAN, c = f.X
  PROVE  Further("roxl", roxl_r(x, k, n, wide, f), roxl_r(x, k + 1, n, wide, f), n, FALSE)
<1> DEFINE y == x + When(c, Pow(n))
           j == k + 1
<1>1. n \in Nat /\ j \in Nat
  OBVIOUS
<1> HIDE DEF y, j
<1>2. y \in 0 .. Pow(n + 1) - 1
  BY <1>1, Joined DEF y
<1>3. roxl_r(x, k, n, wide, f) = Through(RotatedLeft(y, k, n + 1), n)
  BY RoxlIs DEF y
<1>4. roxl_r(x, j, n, wide, f) = Through(RotatedLeft(y, j, n + 1), n)
  BY <1>1, RoxlIs DEF y
<1> QED
  BY <1>2, <1>3, <1>4, ThroughLeft DEF j

-----------------------------------------------------------------------------
(* The forms of an instruction                                             *)

(* ASR by a count in the instruction and by one in a register; the register's*)
(* handler has its own case from the whole width on.                       *)
LEMMA AsrForms ==
  ASSUME NEW n \in Nat \ {0}, NEW k \in 1 .. n, NEW x \in 0 .. Pow(n) - 1, NEW f
  PROVE  asr_s(x, k, n, f) = asr_r(x, k, n, f)
<1>1. CASE k < n
  <2>1. k # 0
    OBVIOUS
  <2> QED
    BY <1>1, <2>1 DEF asr_r
<1>2. CASE k = n
  <2> DEFINE s == Msb(x, n)
             v == IF s THEN 2^n - 1 ELSE 0
             w == LSR(x, n) + (IF s THEN shift_table(n, n) ELSE 0)
  <2>1. n # 0 /\ ~(n < n) /\ n \in Nat
    OBVIOUS
  <2>2. asr_r(x, n, n, f) = Result(v, n, s, FALSE, s)
    BY <2>1, Zenon DEF asr_r
  <2>3. asr_s(x, n, n, f) = Result(w, n, s, FALSE, s)
    BY Zenon DEF asr_s, Msb
  <2>4. LSR(x, n) = 0
    <3>1. Above(x, n) = 0
      BY <2>1, Beyond
    <3> QED
      BY <3>1 DEF LSR, Above, Pow
  <2>5. shift_table(n, n) = 2^n - 1 /\ 2^n - 1 \in Int
    <3>1. Pow(n) \in Nat
      BY <2>1, PowIs
    <3> QED
      BY <2>1, <3>1 DEF shift_table, Pow
  <2> HIDE DEF s
  <2>6. w = v
    <3>1. CASE s
      BY <2>4, <2>5, <3>1
    <3>2. CASE ~s
      BY <2>4, <3>2
    <3> QED
      BY <3>1, <3>2
  <2> QED
    BY <1>2, <2>2, <2>3, <2>6
<1> QED
  BY <1>1, <1>2

(* The same for ASL.                                                       *)
LEMMA AslForms ==
  ASSUME NEW n \in Nat \ {0}, NEW k \in 1 .. n, NEW x \in 0 .. Pow(n) - 1, NEW f
  PROVE  asl_s(x, k, n, f) = asl_r(x, k, n, f)
<1>1. k \in Nat /\ k # 0 /\ k > 0 /\ k <= n
  OBVIOUS
<1>2. CASE k < n
  BY <1>1, <1>2 DEF asl_r
<1>3. CASE k = n
  <2> DEFINE c == k <= n /\ Bit(x, n - k)
             one == Bit(x, n - k)
             v == Moved(x, k, n)
             z == Changed(x, k, n)
  <2>1. asl_s(x, k, n, f) = Result(v, n, one, z, one)
    BY AslS
  <2>2. asl_r(x, k, n, f) = Result(v, n, c, z, c)
    BY <1>1, AslIs
  <2>3. x \in Nat /\ n - k \in Nat
    BY <1>1, PowIs
  <2>4. one \in BOOLEAN
    BY <2>3, BitIs
  <2> HIDE DEF one
  <2>5. c = one
    BY <1>1, <2>4 DEF one
  <2> HIDE DEF c
  <2> QED
    BY <2>1, <2>2, <2>5
<1> QED
  BY <1>1, <1>2, <1>3

(* The same for the rotates, whose register handlers reduce the count.     *)
LEMMA RotateForms ==
  ASSUME NEW n \in Nat \ {0}, NEW k \in 1 .. n, NEW x, NEW wide, wide => k < n, NEW u, NEW f
  PROVE  /\ ror_s(x, k, n, f) = ror_r(x, k, n, f)
         /\ rol_s(x, k, n, f) = rol_r(x, k, n, wide, u, f)
         /\ roxr_s(x, k, n, wide, f) = roxr_r(x, k, n, wide, f)
         /\ roxl_s(x, k, n, wide, f) = roxl_r(x, k, n, wide, f)
<1> DEFINE j == k - 1
           m == n + 1
<1>1. /\ k \in Nat /\ k # 0 /\ k <= n /\ n \in Nat \ {0} /\ j \in Nat /\ j < n
      /\ m \in Nat \ {0} /\ k < m
  OBVIOUS
<1> HIDE DEF j, m
<1>2. j % n = j
  BY <1>1, NextPlace
<1>3. k % m = k
  BY <1>1, NextPlace
<1>4. ror_s(x, k, n, f) = ror_r(x, k, n, f)
  BY <1>1, <1>2, Zenon DEF ror_s, ror_r, j
<1>5. k % n # 0 => k % n = k
  <2>1. k < n => k % n = k
    BY <1>1, NextPlace
  <2>2. n % n = 0
    BY <1>1, NextPlace
  <2>3. k < n \/ k = n
    BY <1>1
  <2> QED
    BY <2>1, <2>2, <2>3
<1>6. ~(k % n # 0) => ~wide /\ n - k = 0
  <2>1. k < n => k % n = k
    BY <1>1, NextPlace
  <2> QED
    BY <1>1, <2>1
<1>7. rol_s(x, k, n, f) = rol_r(x, k, n, wide, u, f)
  <2>1. CASE k % n # 0
    <3>1. k % n = k
      BY <1>5, <2>1
    <3> QED
      BY <1>1, <2>1, <3>1, Zenon DEF rol_s, rol_r
  <2>2. CASE ~(k % n # 0)
    <3>1. ~wide /\ Bit(x, n - k) = Bit(x, 0)
      BY <1>6, <2>2
    <3> QED
      BY <1>1, <2>2, <3>1, Zenon DEF rol_s, rol_r
  <2> QED
    BY <2>1, <2>2
<1>8. roxr_s(x, k, n, wide, f) = roxr_r(x, k, n, wide, f)
  BY <1>1, <1>3, Zenon DEF roxr_r, m
<1>9. roxl_s(x, k, n, wide, f) = roxl_r(x, k, n, wide, f)
  BY <1>1, <1>3, Zenon DEF roxl_r, m
<1> QED
  BY <1>4, <1>7, <1>8, <1>9

(* A count in the instruction does what the same count in a register does. *)
LEMMA ImmediateForm ==
  ASSUME NEW n \in Nat \ {0}, NEW k \in 1 .. n, NEW x \in 0 .. Pow(n) - 1,
         NEW wide, wide => k < n, NEW u, NEW f, NEW op \in Shifts
  PROVE  ByImmediate(op, x, k, n, wide, f) = ByRegister(op, x, k, n, wide, u, f)
<1>1. asr_s(x, k, n, f) = asr_r(x, k, n, f)
  BY AsrForms
<1>2. asl_s(x, k, n, f) = asl_r(x, k, n, f)
  BY AslForms
<1>3. lsr_s(x, k, n, f) = lsr_r(x, k, n, f) /\ lsl_s(x, k, n, f) = lsl_r(x, k, n, f)
  <2>1. k # 0 /\ k <= n
    OBVIOUS
  <2> QED
    BY <2>1 DEF lsr_r, lsl_r
<1>4. /\ ror_s(x, k, n, f) = ror_r(x, k, n, f)
      /\ rol_s(x, k, n, f) = rol_r(x, k, n, wide, u, f)
      /\ roxr_s(x, k, n, wide, f) = roxr_r(x, k, n, wide, f)
      /\ roxl_s(x, k, n, wide, f) = roxl_r(x, k, n, wide, f)
  BY RotateForms
<1> QED
  BY <1>1, <1>2, <1>3, <1>4 DEF ByImmediate, ByRegister, Shifts

(* The handlers for memory do what a count of one does.                    *)
LEMMA MemoryForm ==
  ASSUME NEW n, NEW x, NEW wide, ~wide, NEW f, NEW op \in Shifts
  PROVE  InMemory(op, x, n, f) = ByImmediate(op, x, 1, n, wide, f)
<1>1. roxr_m(x, n, f) = roxr_s(x, 1, n, wide, f) /\ roxl_m(x, n, f) = roxl_s(x, 1, n, wide, f)
  BY DEF roxr_m, roxr_s, roxl_m, roxl_s
<1> QED
  BY <1>1 DEF InMemory, ByImmediate, Shifts, asr_m, asl_m, lsr_m, lsl_m, ror_m, rol_m

(* Every shift and rotate by k + 1 is the one by k and one bit more.       *)
LEMMA RegisterFurther ==
  ASSUME NEW n \in Nat \ {0}, NEW k \in Nat, NEW x \in 0 .. Pow(n) - 1,
         NEW wide \in BOOLEAN, NEW u, NEW undef, NEW f, NEW c \in BOOLEAN, c = f.X,
         NEW op \in Shifts,
         NEW lost \in BOOLEAN, op = "rol" /\ wide /\ (k + 1) % n = 0 => lost
  PROVE  Further(op, ByRegister(op, x, k, n, wide, u, f),
                 ByRegister(op, x, k + 1, n, wide, undef, f), n, lost)
<1> DEFINE o == ByRegister(op, x, k, n, wide, u, f)
           p == ByRegister(op, x, k + 1, n, wide, undef, f)
<1>1. \A y, z : Further(op, y, z, n, FALSE) => Further(op, y, z, n, lost)
  BY Zenon DEF Further
<1>2. CASE op = "asr"
  BY <1>1, <1>2, AsrFurther DEF ByRegister
<1>3. CASE op = "asl"
  BY <1>1, <1>3, AslFurther DEF ByRegister
<1>4. CASE op = "lsr"
  BY <1>1, <1>4, LsrFurther DEF ByRegister
<1>5. CASE op = "lsl"
  BY <1>1, <1>5, LslFurther DEF ByRegister
<1>6. CASE op = "ror"
  BY <1>1, <1>6, RorFurther DEF ByRegister
<1>7. CASE op = "rol"
  <2>1. wide /\ (k + 1) % n = 0 => lost
    BY <1>7
  <2>2. Further("rol", rol_r(x, k, n, wide, u, f), rol_r(x, k + 1, n, wide, undef, f), n, lost)
    BY <2>1, RolFurther
  <2> QED
    BY <1>7, <2>2 DEF ByRegister
<1>8. CASE op = "roxr"
  <2>1. Further("roxr", roxr_r(x, k, n, wide, f), roxr_r(x, k + 1, n, wide, f), n, FALSE)
    BY RoxrFurther
  <2> QED
    BY <1>1, <1>8, <2>1 DEF ByRegister
<1>9. CASE op = "roxl"
  <2>1. Further("roxl", roxl_r(x, k, n, wide, f), roxl_r(x, k + 1, n, wide, f), n, FALSE)
    BY RoxlFurther
  <2> QED
    BY <1>1, <1>9, <2>1 DEF ByRegister
<1> QED
  BY <1>2, <1>3, <1>4, <1>5, <1>6, <1>7, <1>8, <1>9 DEF Shifts

-----------------------------------------------------------------------------
(* Shifts at work                                                          *)

\* the outcome of a shift job after k bits.
Shifted(j, x, k, undef) ==
    ByRegister(j.op, x, k, Width[j.size], Wide(j.size), undef, Start(j.x))

\* a shift job holds the outcome of the handler; before the first bit, all of
\* it that the next bit depends on.
ShiftInv ==
    /\ job \in Jobs
    /\ job.what = "shift" =>
         /\ a \in Values(Half(job.size)) /\ parts \in Nat
         /\ \E undef \in BOOLEAN :
               LET o == Shifted(job, a, parts, undef)
               IN  /\ r = o.value /\ ccr.X = o.ccr.X /\ ccr.V = o.ccr.V
                   /\ parts > 0 => ccr = o.ccr

(* What a shift job is.                                                    *)
LEMMA ShiftJobs ==
  ASSUME job \in Jobs, job.what = "shift"
  PROVE  /\ job.op \in Shifts /\ job.size \in Sizes /\ job.x \in BOOLEAN
         /\ Width[job.size] \in Nat \ {0}
         /\ Values(Half(job.size)) = 0 .. Pow(Width[job.size]) - 1
<1>1. job.op \in Shifts /\ job.size \in Sizes /\ job.x \in BOOLEAN
  BY DEF Jobs
<1> DEFINE n == Width[job.size]
           m == n - 1
<1>2. n \in Nat \ {0}
  BY <1>1, ArithmeticAssumption
<1> HIDE DEF n
<1>3. m \in Nat /\ n = m + 1
  BY <1>2
<1> HIDE DEF m
<1>4. Pow(n) = 2 * Pow(m)
  BY <1>3, UpMore
<1>5. Half(job.size) = Pow(m)
  BY DEF Half, Pow, m, n
<1>6. Values(Half(job.size)) = 0 .. Pow(n) - 1
  BY <1>4, <1>5 DEF Values
<1> QED
  BY <1>1, <1>2, <1>6 DEF n

\* a value and condition codes, and nothing else.
IsOutcome(o) == o = [value |-> o.value, ccr |-> o.ccr]

(* The handlers leave an outcome.                                          *)
LEMMA RegisterOutcome ==
  ASSUME NEW n, NEW x, NEW k, NEW wide, NEW u, NEW f, NEW op \in Shifts
  PROVE  IsOutcome(ByRegister(op, x, k, n, wide, u, f))
<1>1. \A v, y, z, c : IsOutcome(Result(v, n, y, z, c))
  BY DEF IsOutcome, Result
<1>2. IsOutcome(asr_r(x, k, n, f)) /\ IsOutcome(asl_r(x, k, n, f))
  BY <1>1, Zenon DEF asr_r, asr_s, asl_r, asl_s, ByNone
<1>3. IsOutcome(lsr_r(x, k, n, f)) /\ IsOutcome(lsl_r(x, k, n, f))
  BY <1>1, Zenon DEF lsr_r, lsr_s, lsl_r, lsl_s, ByNone
<1>4. IsOutcome(ror_r(x, k, n, f)) /\ IsOutcome(rol_r(x, k, n, wide, u, f))
  BY <1>1, Zenon DEF ror_r, rol_r, ByNone
<1>5. IsOutcome(roxr_r(x, k, n, wide, f)) /\ IsOutcome(roxl_r(x, k, n, wide, f))
  BY <1>1, Zenon DEF roxr_r, roxr_s, roxl_r, roxl_s, Through, ror33, rol33
<1> QED
  BY <1>2, <1>3, <1>4, <1>5 DEF ByRegister, Shifts

(* The invariant holds at first: a shift by nothing.                       *)
LEMMA ShiftInit == Init => ShiftInv
<1> SUFFICES ASSUME Init, job.what = "shift" PROVE ShiftInv
  BY DEF Init, ShiftInv
<1> DEFINE o == Shifted(job, a, parts, FALSE)
<1>1. /\ job \in Jobs /\ parts = 0 /\ r = a /\ a \in Values(Half(job.size))
      /\ ccr = Start(job.x)
  BY DEF Init
<1>2. ccr.X = job.x /\ ccr.V = FALSE /\ Start(job.x).X = job.x
  BY <1>1 DEF Start
<1>3. o.value = a /\ o.ccr.X = Start(job.x).X /\ o.ccr.V = FALSE
  <2>1. job.op \in Shifts /\ Width[job.size] \in Nat \ {0}
    BY <1>1, ShiftJobs
  <2> DEFINE n == Width[job.size]
             wide == Wide(job.size)
             u == FALSE
             f == Start(job.x)
             op == job.op
  <2>2. n \in Nat \ {0} /\ op \in Shifts
    BY <2>1
  <2>3. o = ByRegister(op, a, 0, n, wide, u, f)
    BY <1>1 DEF Shifted
  <2> HIDE DEF n, wide, u, f, op, o
  <2>4. o = Result(a, n, f.X, FALSE, FALSE) \/ o = Result(a, n, f.X, FALSE, f.X)
    <3> DEFINE m == n + 1
    <3>1. m \in Nat \ {0}
      BY <2>2
    <3> HIDE DEF m
    <3>2. 0 % m = 0
      BY <3>1, NextPlace
    <3>3. 0 % (n + 1) = 0
      BY <3>2 DEF m
    <3> QED
      BY <2>2, <2>3, <3>3, Zenon
         DEF ByRegister, Shifts, ByNone, asr_r, asl_r, lsr_r, lsl_r, ror_r, rol_r,
             roxr_r, roxl_r
  <2>5. o.value = a /\ o.ccr.X = f.X /\ o.ccr.V = FALSE
    BY <2>4 DEF Result
  <2> QED
    BY <2>5 DEF f
<1> HIDE DEF o
<1>4. r = o.value /\ ccr.X = o.ccr.X /\ ccr.V = o.ccr.V
  BY <1>1, <1>2, <1>3, Zenon
<1>6. ~(parts > 0) /\ parts \in Nat
  BY <1>1
<1>5. FALSE \in BOOLEAN
  OBVIOUS
<1> QED
  BY <1>1, <1>4, <1>6, <1>5, Zenon DEF ShiftInv, o

(* And in every step.                                                      *)
LEMMA ShiftStep == ShiftInv /\ [Next]_vars => ShiftInv'
<1> SUFFICES ASSUME ShiftInv, [Next]_vars PROVE ShiftInv'
  OBVIOUS
<1>1. CASE ShiftFurther
  <2>1. /\ job \in Jobs /\ job.what = "shift" /\ a \in Values(Half(job.size)) /\ parts \in Nat
        /\ job' = job /\ a' = a /\ parts' = parts + 1
    BY <1>1 DEF ShiftFurther, ShiftInv
  <2>2. PICK undef \in BOOLEAN :
           LET o == Shifted(job, a, parts + 1, undef)
           IN  r' = o.value /\ ccr' = o.ccr
    BY <1>1 DEF ShiftFurther, Shifted
  <2>3. parts + 1 \in Nat
    BY <2>1
  <2> QED
    BY <2>1, <2>2, <2>3 DEF ShiftInv, Shifted, Half
<1>2. CASE AddPart \/ Compare \/ Divide \/ Rebuild
  BY <1>2 DEF AddPart, Compare, Divide, Rebuild, ShiftInv
<1>3. CASE UNCHANGED vars
  BY <1>3 DEF vars, ShiftInv, Shifted, Half
<1> QED
  BY <1>1, <1>2, <1>3 DEF Next

(* It is what FormsAgree asks.                                             *)
LEMMA ShiftForms == ShiftInv => FormsAgree
<1> SUFFICES ASSUME ShiftInv, job.what = "shift", parts \in 1 .. Immediate
             PROVE  FormsAgree
  BY DEF FormsAgree
<1> DEFINE n == Width[job.size]
           wide == Wide(job.size)
           f == Start(job.x)
           o == [value |-> r, ccr |-> ccr]
<1>1. job \in Jobs /\ a \in Values(Half(job.size)) /\ parts \in Nat /\ parts > 0
  BY DEF ShiftInv
<1>2. /\ job.op \in Shifts /\ job.size \in Sizes /\ n \in Nat \ {0} /\ a \in 0 .. Pow(n) - 1
  BY <1>1, ShiftJobs
<1>3. PICK undef \in BOOLEAN :
         LET q == Shifted(job, a, parts, undef) IN r = q.value /\ ccr = q.ccr
  BY <1>1 DEF ShiftInv
<1> DEFINE q == ByRegister(job.op, a, parts, n, wide, undef, f)
<1>4. o = q
  <2>1. IsOutcome(q)
    BY <1>2, RegisterOutcome
  <2> HIDE DEF q
  <2>2. r = q.value /\ ccr = q.ccr
    BY <1>3 DEF Shifted, q
  <2> QED
    BY <2>1, <2>2 DEF IsOutcome
<1>5. parts \in 1 .. n /\ (wide => parts < n)
  <2>1. Immediate \in Nat /\ Immediate <= n /\ Immediate < Width["l"]
    BY <1>2, ArithmeticAssumption
  <2>2. wide => n = Width["l"]
    BY DEF Wide
  <2> QED
    BY <1>2, <2>1, <2>2
<1> HIDE DEF n, wide, f, o
<1>6. ByImmediate(job.op, a, parts, n, wide, f) = q
  BY <1>2, <1>5, ImmediateForm
<1>7. ASSUME parts = 1, job.size = "w" PROVE InMemory(job.op, a, n, f) = q
  <2>1. ~wide
    BY <1>7 DEF wide, Wide
  <2>2. InMemory(job.op, a, n, f) = ByImmediate(job.op, a, 1, n, wide, f)
    BY <1>2, <2>1, MemoryForm
  <2> QED
    BY <1>6, <1>7, <2>2
<1> HIDE DEF q
<1> QED
  BY <1>4, <1>6, <1>7, Zenon DEF FormsAgree, n, wide, f, o

(* At every width of the operand and every count an instruction can hold, a*)
(* shift by a count in the instruction or of a word of memory has the value*)
(* and the condition codes of the same shift by a count in a register.     *)
THEOREM FormsAlwaysAgree == Spec => []FormsAgree
  BY ShiftInit, ShiftStep, ShiftForms, PTL DEF Spec

\* what OneBitMore asks of a step.
BitFurther(n) ==
    LET out == Leaving(job.op, r, n)
    IN  /\ r' = OneBit(job.op, r, ccr, n)
        /\ ccr'.N = Msb(r', n) /\ ccr'.Z = (r' = 0)
        /\ ccr'.C = out \/ (job.op = "rol" /\ job.size = "l" /\ parts' % n = 0)
        /\ ccr'.X = IF job.op \in {"ror", "rol"} THEN ccr.X ELSE out
        /\ ccr'.V = (job.op = "asl" /\ (ccr.V \/ Msb(r, n) # Msb(r', n)))

(* A step of a shift job is one bit more.                                  *)
LEMMA ShiftedFurther ==
  ASSUME ShiftInv, ShiftFurther
  PROVE  BitFurther(Width[job.size])
<1> DEFINE n == Width[job.size]
           wide == Wide(job.size)
           f == Start(job.x)
           x1 == job.x
           k == parts
           op == job.op
           lost == op = "rol" /\ job.size = "l" /\ (k + 1) % n = 0
<1>1. job \in Jobs /\ job.what = "shift" /\ a \in Values(Half(job.size)) /\ k \in Nat
      /\ parts' = k + 1
  BY DEF ShiftInv, ShiftFurther
<1>2. /\ op \in Shifts /\ n \in Nat \ {0} /\ a \in 0 .. Pow(n) - 1 /\ x1 \in BOOLEAN
  BY <1>1, ShiftJobs
<1>3. PICK u \in BOOLEAN :
         LET o == Shifted(job, a, k, u) IN r = o.value /\ ccr.X = o.ccr.X /\ ccr.V = o.ccr.V
  BY <1>1 DEF ShiftInv
<1>4. PICK undef \in BOOLEAN :
         LET p == Shifted(job, a, k + 1, undef) IN r' = p.value /\ ccr' = p.ccr
  BY DEF ShiftFurther, Shifted
<1> DEFINE o == ByRegister(op, a, k, n, wide, u, f)
           p == ByRegister(op, a, k + 1, n, wide, undef, f)
<1>5. r = o.value /\ ccr.X = o.ccr.X /\ ccr.V = o.ccr.V
  BY <1>3 DEF Shifted
<1>6. r' = p.value /\ ccr' = p.ccr
  BY <1>4 DEF Shifted
<1>7. x1 = f.X
  BY DEF Start
<1>8. wide \in BOOLEAN /\ lost \in BOOLEAN /\ (op = "rol" /\ wide /\ (k + 1) % n = 0 => lost)
  BY DEF Wide
<1>9. ccr'.C = Leaving(op, r, n) \/ (op = "rol" /\ job.size = "l" /\ parts' % n = 0)
        <=> ccr'.C = Leaving(op, r, n) \/ lost
  BY <1>1
<1> HIDE DEF n, wide, f, x1, lost, o, p, op, k
<1>10. Further(op, o, p, n, lost)
  BY <1>1, <1>2, <1>7, <1>8, RegisterFurther DEF o, p
<1>11. OneBit(op, r, ccr, n) = OneBit(op, o.value, o.ccr, n)
  <2>1. Entering(op, r, ccr, n) = Entering(op, o.value, o.ccr, n)
    BY <1>5 DEF Entering, Leaving
  <2> QED
    BY <1>5, <2>1 DEF OneBit
<1>12. /\ r' = OneBit(op, r, ccr, n)
       /\ ccr'.N = Msb(r', n) /\ ccr'.Z = (r' = 0)
       /\ ccr'.C = Leaving(op, r, n) \/ lost
       /\ ccr'.X = IF op \in {"ror", "rol"} THEN ccr.X ELSE Leaving(op, r, n)
       /\ ccr'.V = (op = "asl" /\ (ccr.V \/ Msb(r, n) # Msb(r', n)))
  BY <1>5, <1>6, <1>10, <1>11, Zenon DEF Further
<1> QED
  BY <1>9, <1>12, Zenon DEF BitFurther, op, n

(* At every width and every count, beyond the width too, a shift or rotate by*)
(* one more is the shift so far and one bit, in the value and in all condition*)
(* codes: the handlers' cases for large counts, their tables and the rotates*)
(* put together by hand agree with moving one bit at a time.               *)
THEOREM OneBitAtATime == Spec => OneBitMore
<1>1. ShiftInv /\ [Next]_vars =>
        [LET n == Width[job.size]
             out == Leaving(job.op, r, n)
         IN  job.what = "shift" =>
               /\ r' = OneBit(job.op, r, ccr, n)
               /\ ccr'.N = Msb(r', n) /\ ccr'.Z = (r' = 0)
               /\ ccr'.C = out \/ (job.op = "rol" /\ job.size = "l" /\ parts' % n = 0)
               /\ ccr'.X = IF job.op \in {"ror", "rol"} THEN ccr.X ELSE out
               /\ ccr'.V = (job.op = "asl" /\ (ccr.V \/ Msb(r, n) # Msb(r', n)))]_vars
  <2> SUFFICES ASSUME ShiftInv, Next, job.what = "shift" PROVE BitFurther(Width[job.size])
    BY Zenon DEF BitFurther
  <2>1. ShiftFurther
    BY DEF Next, AddPart, Compare, Divide, Rebuild
  <2> QED
    BY <2>1, ShiftedFurther
<1> QED
  BY <1>1, ShiftInit, ShiftStep, PTL DEF Spec, OneBitMore

=============================================================================
