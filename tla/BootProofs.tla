------------------------------ MODULE BootProofs ------------------------------
(***************************************************************************)
(* What holds of Boot for every layout without overlap, every program and  *)
(* every relocation table.                                                 *)
(***************************************************************************)
EXTENDS Boot, WellFoundedInduction, TLAPS

-----------------------------------------------------------------------------
(* Numbers                                                                 *)

(* A set of numbers that is not empty has a least one: all the induction   *)
(* here needs.                                                             *)
LEMMA NatMin ==
  ASSUME NEW T \in SUBSET Nat, T # {}
  PROVE  Min(T) \in T /\ \A y \in T : Min(T) <= y
<1>1. PICK x \in T : \A y \in T : ~ (<<y, x>> \in OpToRel(<, Nat))
  BY NatLessThanWellFounded, WFMin, Zenon
<1>2. \A y \in T : y \in Nat /\ x \in Nat
  OBVIOUS
<1>3. \A y \in T : ~ (y < x)
  BY <1>1, <1>2, Zenon DEF OpToRel
<1>4. \A y \in T : x =< y
  BY <1>2, <1>3
<1> QED
  BY <1>4 DEF Min

(* The address space has room for the longwords the loader and Setexc use. *)
LEMMA LongIs == ByteBase \in Nat \ {0, 1} /\ LongBase \in Nat /\ LongBase >= 16
<1>1. ByteBase \in Nat \ {0, 1}
  BY MemoryAssumption
<1> DEFINE b == ByteBase
           b2 == b * b
           b3 == b2 * b
<1>2. b2 \in Nat /\ b2 >= 4
  BY <1>1
<1> HIDE DEF b2
<1>3. b3 \in Nat /\ b3 >= 8
  BY <1>1, <1>2
<1> HIDE DEF b3
<1>4. b3 * b \in Nat /\ b3 * b >= 16
  BY <1>1, <1>3
<1>5. LongBase = b3 * b
  BY DEF LongBase, b3, b2
<1> QED
  BY <1>1, <1>4, <1>5

(* Quotient and remainder.                                                 *)
LEMMA Division ==
  ASSUME NEW n \in Nat \ {0}, NEW x \in Int
  PROVE  /\ x \div n \in Int /\ x % n \in 0 .. n - 1
         /\ x = n * (x \div n) + (x % n)
  OBVIOUS

(* Addresses go round.                                                     *)
LEMMA Around ==
  ASSUME NEW n \in Nat \ {0}, NEW x \in -n .. 2 * n - 1
  PROVE  x % n = IF x < 0 THEN x + n ELSE IF x < n THEN x ELSE x - n
<1> DEFINE q == x \div n
           m == x % n
           p == n * q
<1>1. q \in Int /\ m \in 0 .. n - 1 /\ x = p + m /\ p \in Int
  BY Division
<1>2. CASE q = 0
  <2>1. p = 0
    BY <1>2
  <2> QED
    BY <1>1, <2>1
<1>3. CASE q = 1
  <2>1. p = n
    BY <1>3
  <2> QED
    BY <1>1, <2>1
<1>4. CASE q = -1
  <2>1. p = -n
    BY <1>4
  <2> QED
    BY <1>1, <2>1
<1>5. q \notin {-1, 0, 1} => FALSE
  <2> HIDE DEF q
  <2>1. q >= 2 => p >= 2 * n
    BY <1>1
  <2>2. q <= -2 => p <= -2 * n
    BY <1>1
  <2>3. q \notin {-1, 0, 1} => q >= 2 \/ q <= -2
    BY <1>1
  <2> HIDE DEF m, p
  <2>4. ~(p >= 2 * n) /\ ~(p <= -2 * n)
    BY <1>1
  <2> QED
    BY <2>1, <2>2, <2>3, <2>4
<1> QED
  BY <1>2, <1>3, <1>4, <1>5

Address == 0 .. LongBase - 1

(* The bytes of an access go round the address space at most once.         *)
LEMMA ByteAt ==
  ASSUME NEW a \in Address, NEW i \in 0 .. 3
  PROVE  /\ (a + i) % LongBase \in Address
         /\ (a + i) % LongBase = IF a + i < LongBase THEN a + i ELSE a + i - LongBase
<1> DEFINE L == LongBase
<1>1. L \in Nat \ {0} /\ L >= 16
  BY LongIs
<1>2. a \in 0 .. L - 1
  BY DEF Address
<1> HIDE DEF L
<1>3. (a + i) % L = IF a + i < 0 THEN a + i + L ELSE IF a + i < L THEN a + i ELSE a + i - L
  <2> DEFINE y == a + i
  <2>1. y \in -L .. 2 * L - 1
    BY <1>1, <1>2
  <2> HIDE DEF y
  <2>2. y % L = IF y < 0 THEN y + L ELSE IF y < L THEN y ELSE y - L
    BY <1>1, <2>1, Around
  <2> QED
    BY <1>1, <1>2, <2>2 DEF y
<1> QED
  BY <1>1, <1>2, <1>3 DEF L, Address

(* Byte b is byte i of an access at a if i is its distance.                *)
LEMMA IndexOf ==
  ASSUME NEW a \in Address, NEW b \in Address
  PROVE  /\ (b - a) % LongBase \in Address
         /\ (b - a) % LongBase = IF b < a THEN b - a + LongBase ELSE b - a
         /\ \A i \in 0 .. 3 : (b = (a + i) % LongBase) <=> ((b - a) % LongBase = i)
<1> DEFINE L == LongBase
<1>1. L \in Nat \ {0} /\ L >= 16
  BY LongIs
<1>2. a \in 0 .. L - 1 /\ b \in 0 .. L - 1
  BY DEF Address
<1>3. \A i \in 0 .. 3 : (a + i) % L = IF a + i < L THEN a + i ELSE a + i - L
  BY ByteAt
<1> HIDE DEF L
<1>4. (b - a) % L = IF b - a < 0 THEN b - a + L ELSE IF b - a < L THEN b - a ELSE b - a - L
  <2> DEFINE y == b - a
  <2>1. y \in -L .. 2 * L - 1
    BY <1>1, <1>2
  <2> HIDE DEF y
  <2>2. y % L = IF y < 0 THEN y + L ELSE IF y < L THEN y ELSE y - L
    BY <1>1, <2>1, Around
  <2> QED
    BY <1>1, <1>2, <2>2 DEF y
<1>5. (b - a) % L = IF b < a THEN b - a + L ELSE b - a
  BY <1>1, <1>2, <1>4
<1>6. \A i \in 0 .. 3 : (b = (a + i) % L) <=> ((b - a) % L = i)
  BY <1>1, <1>2, <1>3, <1>5
<1> QED
  BY <1>1, <1>2, <1>5, <1>6 DEF L, Address

-----------------------------------------------------------------------------
(* The areas                                                               *)

(* The blocks, by name.                                                    *)
LEMMA SixBlocks ==
  Blocks = {"staticmem0", "magicmem0", "staticmem1", "basepage", "userram", "superram"}
  BY LayoutAssumption DEF Flags

(* The layout, and what the addresses of an area are.                      *)
LEMMA LayoutIs ==
  ASSUME NEW b \in Blocks
  PROVE  /\ Layout[b].base \in Nat /\ Layout[b].len \in Nat
         /\ Layout[b].base + Layout[b].len < LongBase
         /\ Span(b) \subseteq Address
         /\ \A a \in Address : a \in Span(b) <=>
              a >= Layout[b].base /\ a < (Layout[b].base + Layout[b].len) % LongBase
<1> DEFINE x == Layout[b].base
           n == Layout[b].len
           L == LongBase
<1>1. x \in Nat /\ n \in Nat /\ x + n < L
  BY LayoutAssumption
<1>2. L \in Nat \ {0}
  BY LongIs
<1>3. Span(b) = x .. x + n - 1
  BY DEF Span
<1>4. Address = 0 .. L - 1
  BY DEF Address
<1> HIDE DEF x, n, L
<1>5. (x + n) % L = x + n
  <2> DEFINE y == x + n
  <2>1. y \in -L .. 2 * L - 1 /\ ~(y < 0) /\ y < L
    BY <1>1, <1>2
  <2> HIDE DEF y
  <2>2. y % L = y
    BY <1>2, <2>1, Around
  <2> QED
    BY <1>1, <1>2, <2>2 DEF y
<1>6. Span(b) \subseteq Address
  BY <1>1, <1>2, <1>3, <1>4
<1>7. \A a \in Address : a \in Span(b) <=> a >= x /\ a < (x + n) % L
  BY <1>1, <1>2, <1>3, <1>4, <1>5
<1> QED
  BY <1>1, <1>6, <1>7 DEF x, n, L

(* An address lies in one area at most.                                    *)
LEMMA Apart ==
  ASSUME NEW b \in Blocks, NEW c \in Blocks, NEW a \in Span(b), a \in Span(c)
  PROVE  b = c
<1>1. /\ Layout[b].base \in Nat /\ Layout[b].len \in Nat
      /\ Layout[c].base \in Nat /\ Layout[c].len \in Nat
  BY LayoutIs
<1>2. a \in Layout[b].base .. Layout[b].base + Layout[b].len - 1
  BY DEF Span
<1>3. a \in Layout[c].base .. Layout[c].base + Layout[c].len - 1
  BY DEF Span
<1>4. b # c => \/ Layout[b].base + Layout[b].len <= Layout[c].base
               \/ Layout[c].base + Layout[c].len <= Layout[b].base
  BY LayoutAssumption
<1> QED
  BY <1>1, <1>2, <1>3, <1>4

(* Each mapped address lies in its holder, and in no other area.           *)
LEMMA HolderIs ==
  /\ Mapped \subseteq Address
  /\ \A a \in Mapped : Holder[a] \in Blocks /\ a \in Span(Holder[a])
  /\ \A b \in Blocks : \A a \in Span(b) : a \in Mapped /\ Holder[a] = b
<1>1. Address = 0 .. LongBase - 1
  BY DEF Address
<1>2. Mapped = {a \in Address : \E name \in Blocks : a \in Span(name)}
  BY <1>1 DEF Mapped
<1>3. \A a \in Mapped : Holder[a] \in Blocks /\ a \in Span(Holder[a])
  BY <1>2 DEF Holder
<1>4. \A b \in Blocks : \A a \in Span(b) : a \in Mapped
  BY <1>2, LayoutIs
<1> QED
  BY <1>2, <1>3, <1>4, Apart

(* An area that is added goes in front, and moves the others back.         *)
LEMMA AddedInFront ==
  ASSUME NEW S, NEW x \in S, NEW s \in Seq(S)
  PROVE  /\ add_ptr_memory_area(s, x) \in Seq(S)
         /\ Len(add_ptr_memory_area(s, x)) = Len(s) + 1
         /\ add_ptr_memory_area(s, x)[1] = x
         /\ \A i \in 2 .. Len(s) + 1 : add_ptr_memory_area(s, x)[i] = s[i - 1]
  BY DEF add_ptr_memory_area

(* The six areas in the order of the list.                                 *)
Order == <<"superram", "userram", "basepage", "staticmem1", "magicmem0", "staticmem0">>

(* The list that six additions build.                                      *)
LEMMA AreasAre ==
  DOMAIN MemoryAreas = 1 .. 6 /\ \A i \in 1 .. 6 : MemoryAreas[i] = Area(Order[i])
<1> DEFINE S == {Area(name) : name \in Blocks}
           x1 == Area("staticmem0")
           x2 == Area("magicmem0")
           x3 == Area("staticmem1")
           x4 == Area("basepage")
           x5 == Area("userram")
           x6 == Area("superram")
           t0 == <<>>
           t1 == add_ptr_memory_area(t0, x1)
           t2 == add_ptr_memory_area(t1, x2)
           t3 == add_ptr_memory_area(t2, x3)
           t4 == add_ptr_memory_area(t3, x4)
           t5 == add_ptr_memory_area(t4, x5)
           t6 == add_ptr_memory_area(t5, x6)
<1>1. x1 \in S /\ x2 \in S /\ x3 \in S /\ x4 \in S /\ x5 \in S /\ x6 \in S
  BY SixBlocks
<1>2. MemoryAreas = t6
  BY DEF MemoryAreas
<1>3. Area(Order[1]) = x6 /\ Area(Order[2]) = x5 /\ Area(Order[3]) = x4
      /\ Area(Order[4]) = x3 /\ Area(Order[5]) = x2 /\ Area(Order[6]) = x1
  BY DEF Order
<1> HIDE DEF S, x1, x2, x3, x4, x5, x6
<1>4. t0 \in Seq(S) /\ Len(t0) = 0
  OBVIOUS
<1> HIDE DEF t0
<1>5. t1 \in Seq(S) /\ Len(t1) = 1 /\ t1[1] = x1
  <2>5. t0 \in Seq(S) /\ x1 \in S
    BY <1>1, <1>4
  <2>1. t1 \in Seq(S)
    BY <2>5, AddedInFront
  <2>2. Len(t1) = Len(t0) + 1
    BY <2>5, AddedInFront
  <2>3. t1[1] = x1
    BY <2>5, AddedInFront
  <2>4. \A i \in 2 .. Len(t0) + 1 : t1[i] = t0[i - 1]
    BY <2>5, AddedInFront
  <2> HIDE DEF t1
  <2> QED
    BY <1>4, <2>1, <2>2, <2>3, <2>4
<1> HIDE DEF t1
<1>6. t2 \in Seq(S) /\ Len(t2) = 2 /\ t2[1] = x2 /\ t2[2] = x1
  <2>5. t1 \in Seq(S) /\ x2 \in S
    BY <1>1, <1>5
  <2>1. t2 \in Seq(S)
    BY <2>5, AddedInFront
  <2>2. Len(t2) = Len(t1) + 1
    BY <2>5, AddedInFront
  <2>3. t2[1] = x2
    BY <2>5, AddedInFront
  <2>4. \A i \in 2 .. Len(t1) + 1 : t2[i] = t1[i - 1]
    BY <2>5, AddedInFront
  <2> HIDE DEF t2
  <2> QED
    BY <1>5, <2>1, <2>2, <2>3, <2>4
<1> HIDE DEF t2
<1>7. t3 \in Seq(S) /\ Len(t3) = 3 /\ t3[1] = x3 /\ t3[2] = x2 /\ t3[3] = x1
  <2>5. t2 \in Seq(S) /\ x3 \in S
    BY <1>1, <1>6
  <2>1. t3 \in Seq(S)
    BY <2>5, AddedInFront
  <2>2. Len(t3) = Len(t2) + 1
    BY <2>5, AddedInFront
  <2>3. t3[1] = x3
    BY <2>5, AddedInFront
  <2>4. \A i \in 2 .. Len(t2) + 1 : t3[i] = t2[i - 1]
    BY <2>5, AddedInFront
  <2> HIDE DEF t3
  <2> QED
    BY <1>6, <2>1, <2>2, <2>3, <2>4
<1> HIDE DEF t3
<1>8. /\ t4 \in Seq(S) /\ Len(t4) = 4 /\ t4[1] = x4 /\ t4[2] = x3
       /\ t4[3] = x2 /\ t4[4] = x1
  <2>5. t3 \in Seq(S) /\ x4 \in S
    BY <1>1, <1>7
  <2>1. t4 \in Seq(S)
    BY <2>5, AddedInFront
  <2>2. Len(t4) = Len(t3) + 1
    BY <2>5, AddedInFront
  <2>3. t4[1] = x4
    BY <2>5, AddedInFront
  <2>4. \A i \in 2 .. Len(t3) + 1 : t4[i] = t3[i - 1]
    BY <2>5, AddedInFront
  <2> HIDE DEF t4
  <2> QED
    BY <1>7, <2>1, <2>2, <2>3, <2>4
<1> HIDE DEF t4
<1>9. /\ t5 \in Seq(S) /\ Len(t5) = 5 /\ t5[1] = x5 /\ t5[2] = x4
       /\ t5[3] = x3 /\ t5[4] = x2 /\ t5[5] = x1
  <2>5. t4 \in Seq(S) /\ x5 \in S
    BY <1>1, <1>8
  <2>1. t5 \in Seq(S)
    BY <2>5, AddedInFront
  <2>2. Len(t5) = Len(t4) + 1
    BY <2>5, AddedInFront
  <2>3. t5[1] = x5
    BY <2>5, AddedInFront
  <2>4. \A i \in 2 .. Len(t4) + 1 : t5[i] = t4[i - 1]
    BY <2>5, AddedInFront
  <2> HIDE DEF t5
  <2> QED
    BY <1>8, <2>1, <2>2, <2>3, <2>4
<1> HIDE DEF t5
<1>10. /\ t6 \in Seq(S) /\ Len(t6) = 6 /\ t6[1] = x6 /\ t6[2] = x5
       /\ t6[3] = x4 /\ t6[4] = x3 /\ t6[5] = x2 /\ t6[6] = x1
  <2>5. t5 \in Seq(S) /\ x6 \in S
    BY <1>1, <1>9
  <2>1. t6 \in Seq(S)
    BY <2>5, AddedInFront
  <2>2. Len(t6) = Len(t5) + 1
    BY <2>5, AddedInFront
  <2>3. t6[1] = x6
    BY <2>5, AddedInFront
  <2>4. \A i \in 2 .. Len(t5) + 1 : t6[i] = t5[i - 1]
    BY <2>5, AddedInFront
  <2> HIDE DEF t6
  <2> QED
    BY <1>9, <2>1, <2>2, <2>3, <2>4
<1> HIDE DEF t6
<1> QED
  BY <1>2, <1>3, <1>10

(* What the search of the list finds.                                      *)
LEMMA Found ==
  ASSUME NEW a \in Address
  PROVE  LET i == find_memarea(MemoryAreas, a)
         IN  IF a \in Mapped
             THEN /\ i # 0
                  /\ MemoryAreas[i].block = Holder[a]
                  /\ MemoryAreas[i].base = Layout[Holder[a]].base
                  /\ MemoryAreas[i].flags = Flags[Holder[a]]
             ELSE i = 0
<1> DEFINE names == Order
           list == MemoryAreas
           hits == {i \in DOMAIN list :
                      a >= list[i].base /\ a < (list[i].base + list[i].len) % LongBase}
<1>1. DOMAIN list = 1 .. 6 /\ \A i \in 1 .. 6 : list[i] = Area(names[i])
  BY AreasAre
<1>2. \A i \in 1 .. 6 : names[i] \in Blocks
  BY SixBlocks DEF Order
<1>3. \A b \in Blocks : \E i \in 1 .. 6 : names[i] = b
  BY SixBlocks DEF Order
<1>4. \A i \in 1 .. 6 : /\ list[i].base = Layout[names[i]].base
                        /\ list[i].len = Layout[names[i]].len
                        /\ list[i].flags = Flags[names[i]]
                        /\ list[i].block = names[i]
  BY <1>1 DEF Area
<1> HIDE DEF names, list
<1>5. \A i \in 1 .. 6 : i \in hits <=> a \in Span(names[i])
  BY <1>1, <1>2, <1>4, LayoutIs
<1>6. hits \subseteq 1 .. 6
  BY <1>1
<1>7. find_memarea(list, a) = IF hits = {} THEN 0 ELSE Min(hits)
  BY DEF find_memarea
<1> HIDE DEF hits
<1>8. CASE a \in Mapped
  <2>1. PICK i \in 1 .. 6 : names[i] = Holder[a]
    BY <1>3, <1>8, HolderIs
  <2>2. hits # {}
    BY <1>5, <1>8, <2>1, HolderIs
  <2>3. Min(hits) \in hits
    BY <1>6, <2>2, NatMin
  <2>4. names[Min(hits)] = Holder[a]
    BY <1>2, <1>5, <1>6, <1>8, <2>3, HolderIs
  <2>5. find_memarea(list, a) = Min(hits) /\ Min(hits) \in 1 .. 6
    BY <1>6, <1>7, <2>2, <2>3
  <2> QED
    BY <1>4, <1>8, <2>4, <2>5 DEF list
<1>9. CASE a \notin Mapped
  <2>1. hits = {}
    BY <1>2, <1>5, <1>6, <1>9, HolderIs
  <2> QED
    BY <1>7, <1>9, <2>1 DEF list
<1> QED
  BY <1>8, <1>9

-----------------------------------------------------------------------------
(* One byte                                                                *)

RamOK(blocks) ==
    /\ DOMAIN blocks = Blocks
    /\ \A b \in Blocks : blocks[b] \in [0 .. Layout[b].len - 1 -> Byte]

MemOK(mem) ==
    /\ mem = [ram |-> mem.ram, keepongoing |-> mem.keepongoing]
    /\ RamOK(mem.ram)
    /\ mem.keepongoing \in BOOLEAN

(* The byte that lies at an address, and all of them.                      *)
ByteIn(blocks, a) ==
    IF Holder[a] = Magic THEN (a - Layout[Holder[a]].base) % ByteBase
    ELSE blocks[Holder[a]][a - Layout[Holder[a]].base]

(* The byte of the host that an address stands for is one of its block.    *)
LEMMA CellIs ==
  ASSUME head = MemoryAreas, NEW a \in Mapped
  PROVE  /\ Cell(a)[1] = Holder[a] /\ Cell(a)[2] = a - Layout[Holder[a]].base
         /\ Cell(a)[1] \in Blocks /\ Cell(a)[2] \in 0 .. Layout[Cell(a)[1]].len - 1
<1> DEFINE i == find_memarea(MemoryAreas, a)
           h == Holder[a]
<1>1. a \in Address /\ h \in Blocks /\ a \in Span(h)
  BY HolderIs
<1>2. MemoryAreas[i].block = h /\ MemoryAreas[i].base = Layout[h].base
  BY <1>1, Found
<1>3. Cell(a) = <<h, a - Layout[h].base>>
  BY <1>2 DEF Cell
<1>4. Layout[h].base \in Nat /\ Layout[h].len \in Nat
  BY <1>1, LayoutIs
<1>5. a \in Layout[h].base .. Layout[h].base + Layout[h].len - 1
  BY <1>1 DEF Span
<1> HIDE DEF h
<1>6. a - Layout[h].base \in 0 .. Layout[h].len - 1
  BY <1>4, <1>5
<1> QED
  BY <1>1, <1>3, <1>6 DEF h

(* Who may use an address is what the flags of its holder say.             *)
LEMMA AllowedIs ==
  ASSUME head = MemoryAreas, NEW a \in Address, NEW right, NEW s
  PROVE  Allowed(right, s, a) <=> a \in Mapped /\ Flags[Holder[a]] \cap Mask(right, s) # {}
<1>1. CASE a \in Mapped
  BY <1>1, Found DEF Allowed
<1>2. CASE a \notin Mapped
  BY <1>2, Found DEF Allowed
<1> QED
  BY <1>1, <1>2

(* Nobody writes to magic memory.                                          *)
LEMMA MagicReadsOnly ==
  ASSUME head = MemoryAreas, NEW a \in Address, Allowed("WRITE", super, a)
  PROVE  a \in Mapped /\ Holder[a] # Magic
<1>1. a \in Mapped /\ Flags[Holder[a]] \cap Mask("WRITE", super) # {}
  BY AllowedIs
<1>2. Mask("WRITE", super) \subseteq {"WRITE", "SUPERWRITE"}
  BY DEF Mask
<1>3. Flags[Magic] = {"SUPERREAD"}
  BY LayoutAssumption DEF Flags
<1> QED
  BY <1>1, <1>2, <1>3

(* What lies at a mapped address is a byte.                                *)
LEMMA ByteInIs ==
  ASSUME NEW blocks, RamOK(blocks), NEW a \in Mapped
  PROVE  ByteIn(blocks, a) \in Byte
<1> DEFINE h == Holder[a]
           o == a - Layout[h].base
<1>1. a \in Address /\ h \in Blocks /\ a \in Span(h)
  BY HolderIs
<1>2. Layout[h].base \in Nat /\ Layout[h].len \in Nat
  BY <1>1, LayoutIs
<1>3. a \in Layout[h].base .. Layout[h].base + Layout[h].len - 1
  BY <1>1 DEF Span
<1>4. o \in Int /\ o \in 0 .. Layout[h].len - 1
  BY <1>2, <1>3
<1>5. blocks[h][o] \in Byte
  BY <1>1, <1>4 DEF RamOK
<1>6. o % ByteBase \in Byte
  <2> HIDE DEF o
  <2>1. ByteBase \in Nat \ {0}
    BY LongIs
  <2> QED
    BY <1>4, <2>1, Division DEF Byte
<1> QED
  BY <1>5, <1>6 DEF ByteIn

(* A byte is read from where it lies; one that may not be read is zero.    *)
LEMMA ReadOne ==
  ASSUME head = MemoryAreas, NEW mem, MemOK(mem), NEW a \in Address
  PROVE  /\ tos_read(mem, a) = IF Allowed("READ", super, a) THEN ByteIn(mem.ram, a) ELSE 0
         /\ tos_read(mem, a) \in Byte
<1>1. Allowed("READ", super, a) => a \in Mapped
  BY AllowedIs
<1>2. ASSUME a \in Mapped
      PROVE  CellValue(mem, a) = ByteIn(mem.ram, a)
  BY <1>2, CellIs DEF CellValue, ByteIn
<1>3. tos_read(mem, a) = IF Allowed("READ", super, a) THEN ByteIn(mem.ram, a) ELSE 0
  BY <1>1, <1>2 DEF tos_read
<1>4. 0 \in Byte
  BY LongIs DEF Byte
<1> QED
  BY <1>1, <1>3, <1>4, ByteInIs DEF MemOK

(* halt_execution changes nothing but keepongoing.                         *)
LEMMA HaltOnly ==
  ASSUME NEW mem, MemOK(mem)
  PROVE  /\ MemOK(halt_execution(mem))
         /\ halt_execution(mem).ram = mem.ram
         /\ halt_execution(mem).keepongoing = FALSE
<1> DEFINE no == FALSE
           r == mem.ram
<1>1. no \in BOOLEAN
  OBVIOUS
<1>2. halt_execution(mem) = [mem EXCEPT !.keepongoing = no]
  BY DEF halt_execution
<1> HIDE DEF no
<1>3. mem = [ram |-> r, keepongoing |-> mem.keepongoing]
  BY DEF MemOK
<1>4. halt_execution(mem) = [ram |-> r, keepongoing |-> no]
  BY <1>2, <1>3
<1> QED
  BY <1>1, <1>4 DEF MemOK, no

(* A change of one byte changes it and nothing else.                       *)
LEMMA StoredIs ==
  ASSUME NEW blocks, RamOK(blocks), NEW cell, NEW byte \in Byte,
         cell[1] \in Blocks, cell[2] \in 0 .. Layout[cell[1]].len - 1
  PROVE  /\ RamOK(Stored(blocks, cell, byte))
         /\ \A b \in Blocks : \A o \in 0 .. Layout[b].len - 1 :
               Stored(blocks, cell, byte)[b][o] =
                 IF b = cell[1] /\ o = cell[2] THEN byte ELSE blocks[b][o]
<1> DEFINE c == cell[1]
           k == cell[2]
           inner == [blocks[c] EXCEPT ![k] = byte]
           new == Stored(blocks, cell, byte)
<1>1. new = [blocks EXCEPT ![c] = inner]
  BY DEF Stored
<1>2. blocks[c] \in [0 .. Layout[c].len - 1 -> Byte]
  BY DEF RamOK
<1>3. inner \in [0 .. Layout[c].len - 1 -> Byte]
      /\ \A o \in 0 .. Layout[c].len - 1 : inner[o] = IF o = k THEN byte ELSE blocks[c][o]
  BY <1>2
<1> HIDE DEF inner, new
<1>4. DOMAIN new = Blocks /\ \A b \in Blocks : new[b] = IF b = c THEN inner ELSE blocks[b]
  BY <1>1 DEF RamOK
<1>5. RamOK(new)
  BY <1>3, <1>4 DEF RamOK
<1>6. \A b \in Blocks : \A o \in 0 .. Layout[b].len - 1 :
         new[b][o] = IF b = c /\ o = k THEN byte ELSE blocks[b][o]
  BY <1>3, <1>4
<1> QED
  BY <1>5, <1>6 DEF new

(* A write that is allowed changes the byte at its address, one that is    *)
(* not ends the emulation.                                                 *)
LEMMA WriteOne ==
  ASSUME head = MemoryAreas, NEW mem, MemOK(mem), NEW a \in Address, NEW byte \in Byte
  PROVE  /\ MemOK(tos_write(mem, a, byte))
         /\ tos_write(mem, a, byte).keepongoing
              <=> mem.keepongoing /\ Allowed("WRITE", super, a)
         /\ \A b \in Mapped :
              ByteIn(tos_write(mem, a, byte).ram, b) =
                IF b = a /\ Allowed("WRITE", super, a) THEN byte ELSE ByteIn(mem.ram, b)
<1>1. CASE ~Allowed("WRITE", super, a)
  <2>1. tos_write(mem, a, byte) = halt_execution(mem)
    BY <1>1 DEF tos_write
  <2>2. /\ MemOK(halt_execution(mem))
        /\ halt_execution(mem).ram = mem.ram
        /\ halt_execution(mem).keepongoing = FALSE
    BY HaltOnly
  <2> QED
    BY <1>1, <2>1, <2>2
<1>2. CASE Allowed("WRITE", super, a)
  <2> DEFINE new == Stored(mem.ram, Cell(a), byte)
             m == tos_write(mem, a, byte)
  <2>1. a \in Mapped /\ Holder[a] # Magic
    BY <1>2, MagicReadsOnly
  <2>2. /\ Cell(a)[1] = Holder[a] /\ Cell(a)[2] = a - Layout[Holder[a]].base
        /\ Cell(a)[1] \in Blocks /\ Cell(a)[2] \in 0 .. Layout[Cell(a)[1]].len - 1
    BY <2>1, CellIs
  <2>3. /\ RamOK(new)
        /\ \A b \in Blocks : \A o \in 0 .. Layout[b].len - 1 :
              new[b][o] = IF b = Cell(a)[1] /\ o = Cell(a)[2] THEN byte ELSE mem.ram[b][o]
    BY <2>2, StoredIs DEF MemOK
  <2>4. m = [mem EXCEPT !.ram = new]
    BY <1>2 DEF tos_write
  <2> HIDE DEF new, m
  <2>5. m = [ram |-> new, keepongoing |-> mem.keepongoing]
    BY <2>4 DEF MemOK
  <2>6. MemOK(m) /\ m.ram = new
    BY <2>3, <2>5 DEF MemOK
  <2>7. m.keepongoing <=> mem.keepongoing
    BY <2>5
  <2>8. ASSUME NEW b \in Mapped
        PROVE  ByteIn(new, b) = IF b = a THEN byte ELSE ByteIn(mem.ram, b)
    <3> DEFINE h == Holder[b]
               o == b - Layout[h].base
    <3>1. b \in Address /\ h \in Blocks /\ b \in Span(h)
      BY HolderIs
    <3>2. Layout[h].base \in Nat /\ Layout[h].len \in Nat
      BY <3>1, LayoutIs
    <3>3. b \in Layout[h].base .. Layout[h].base + Layout[h].len - 1
      BY <3>1 DEF Span
    <3>4. o \in 0 .. Layout[h].len - 1 /\ b = o + Layout[h].base /\ b \in Int /\ o \in Int
      BY <3>2, <3>3
    <3>5. a \in Int
      BY LongIs DEF Address
    <3>6. (h = Cell(a)[1] /\ o = Cell(a)[2]) <=> b = a
      BY <2>2, <3>2, <3>4, <3>5
    <3>7. new[h][o] = IF b = a THEN byte ELSE mem.ram[h][o]
      BY <2>3, <3>1, <3>4, <3>6
    <3> QED
      BY <2>1, <3>7 DEF ByteIn
  <2> QED
    BY <1>2, <2>6, <2>7, <2>8 DEF m
<1> QED
  BY <1>1, <1>2

-----------------------------------------------------------------------------
(* Accesses of several bytes                                               *)

LowDigit(v, k) == Shifted(v, k) % ByteBase

(* Shifting yields numbers, and taking a byte of them bytes.               *)
LEMMA LowDigitIs ==
  ASSUME NEW v \in Nat, NEW k \in 0 .. 3
  PROVE  Shifted(v, k) \in Nat /\ LowDigit(v, k) \in Byte
<1> DEFINE n == ByteBase
           v1 == v \div n
           v2 == v1 \div n
           v3 == v2 \div n
<1>1. n \in Nat \ {0}
  BY LongIs
<1>2. \A x \in Nat : x \div n \in Nat /\ x % n \in 0 .. n - 1
  BY <1>1
<1>3. v1 \in Nat
  BY <1>2
<1>4. v2 \in Nat
  BY <1>2, <1>3
<1>5. v3 \in Nat
  BY <1>2, <1>4
<1>6. Shifted(v, k) \in {v, v1, v2, v3}
  BY DEF Shifted
<1>7. Shifted(v, k) \in Nat
  BY <1>3, <1>4, <1>5, <1>6
<1> QED
  BY <1>2, <1>7 DEF LowDigit, Byte

Index(b, a) == (b - a) % LongBase

ByteAddress(a, i) == (a + i) % LongBase

(* m is mem once the j lowest of n bytes of v have been written at a.      *)
Wrote(mem, m, n, a, v, j) ==
    /\ MemOK(m)
    /\ m.keepongoing <=>
          /\ mem.keepongoing
          /\ \A i \in n - j .. n - 1 : Allowed("WRITE", super, ByteAddress(a, i))
    /\ \A b \in Mapped :
          ByteIn(m.ram, b) =
            IF Index(b, a) \in n - j .. n - 1 /\ Allowed("WRITE", super, b)
            THEN LowDigit(v, n - 1 - Index(b, a)) ELSE ByteIn(mem.ram, b)

(* Before the first round nothing has been written.                        *)
LEMMA WroteNothing ==
  ASSUME NEW mem, MemOK(mem), NEW n \in 1 .. 4, NEW a \in Address, NEW v \in Nat
  PROVE  Wrote(mem, mem, n, a, v, 0)
<1>1. n - 0 .. n - 1 = {}
  OBVIOUS
<1> QED
  BY <1>1 DEF Wrote

(* One more round of the loop writes one more byte.                        *)
LEMMA WroteMore ==
  ASSUME head = MemoryAreas, NEW mem, NEW m, NEW n \in 1 .. 4, NEW a \in Address, NEW v \in Nat,
         NEW j \in 0 .. n - 1, Wrote(mem, m, n, a, v, j)
  PROVE  Wrote(mem, WriteByte(m, n, a, v, j), n, a, v, j + 1)
<1> DEFINE x == n - 1 - j
           at == ByteAddress(a, x)
           d == LowDigit(v, j)
           w == WriteByte(m, n, a, v, j)
           yes(b) == Allowed("WRITE", super, b)
<1>1. x \in 0 .. 3 /\ j \in 0 .. 3 /\ n - j = x + 1 /\ n - (j + 1) = x /\ n - 1 - x = j
  OBVIOUS
<1>2. at \in Address
  BY <1>1, ByteAt DEF ByteAddress
<1>3. d \in Byte
  BY <1>1, LowDigitIs
<1>4. w = tos_write(m, at, d)
  <2>1. a + n - 1 - j = a + x
    BY LongIs DEF Address
  <2> QED
    BY <2>1 DEF WriteByte, LowDigit, ByteAddress
<1>5. \A b \in Mapped : (b = at) <=> (Index(b, a) = x)
  <2> TAKE b \in Mapped
  <2>1. b \in Address
    BY HolderIs
  <2> QED
    BY <1>1, <2>1, IndexOf DEF Index, ByteAddress
<1>6. \A b \in Mapped : Index(b, a) \in Int
  <2> TAKE b \in Mapped
  <2>1. b \in Address
    BY HolderIs
  <2>2. Index(b, a) \in Address
    BY <2>1, IndexOf DEF Index
  <2> QED
    BY <2>2, LongIs DEF Address
<1>7. MemOK(m)
  BY DEF Wrote
<1> HIDE DEF at, d, w
<1>8. /\ MemOK(w)
      /\ w.keepongoing <=> m.keepongoing /\ yes(at)
      /\ \A b \in Mapped : ByteIn(w.ram, b) = IF b = at /\ yes(at) THEN d ELSE ByteIn(m.ram, b)
  BY <1>2, <1>3, <1>4, <1>7, WriteOne
<1>9. \A i \in Int : i \in n - (j + 1) .. n - 1 <=> i = x \/ i \in n - j .. n - 1
  BY <1>1
<1>10. w.keepongoing <=>
         /\ mem.keepongoing
         /\ \A i \in n - (j + 1) .. n - 1 : yes(ByteAddress(a, i))
  <2>1. m.keepongoing <=>
          mem.keepongoing /\ \A i \in n - j .. n - 1 : yes(ByteAddress(a, i))
    BY DEF Wrote
  <2>2. (\A i \in n - (j + 1) .. n - 1 : yes(ByteAddress(a, i)))
          <=> yes(at) /\ \A i \in n - j .. n - 1 : yes(ByteAddress(a, i))
    BY <1>1, <1>9 DEF at
  <2> QED
    BY <1>8, <2>1, <2>2
<1>11. ASSUME NEW b \in Mapped
       PROVE  ByteIn(w.ram, b) =
                IF Index(b, a) \in n - (j + 1) .. n - 1 /\ yes(b)
                THEN LowDigit(v, n - 1 - Index(b, a)) ELSE ByteIn(mem.ram, b)
  <2>1. ByteIn(m.ram, b) =
          IF Index(b, a) \in n - j .. n - 1 /\ yes(b)
          THEN LowDigit(v, n - 1 - Index(b, a)) ELSE ByteIn(mem.ram, b)
    BY DEF Wrote
  <2>2. CASE b = at
    <3>1. Index(b, a) = x /\ n - 1 - Index(b, a) = j
      BY <1>1, <1>5, <2>2
    <3>2. Index(b, a) \in n - (j + 1) .. n - 1 /\ ~(Index(b, a) \in n - j .. n - 1)
      BY <1>1, <3>1
    <3>3. ByteIn(w.ram, b) = IF yes(b) THEN d ELSE ByteIn(m.ram, b)
      BY <1>8, <2>2
    <3>4. d = LowDigit(v, n - 1 - Index(b, a))
      BY <3>1 DEF d
    <3> QED
      BY <2>1, <3>2, <3>3, <3>4
  <2>3. CASE b # at
    <3>1. Index(b, a) # x
      BY <1>5, <2>3
    <3>2. Index(b, a) \in n - (j + 1) .. n - 1 <=> Index(b, a) \in n - j .. n - 1
      BY <1>6, <1>9, <3>1
    <3>3. ByteIn(w.ram, b) = ByteIn(m.ram, b)
      BY <1>8, <2>3
    <3> QED
      BY <2>1, <3>2, <3>3
  <2> QED
    BY <2>2, <2>3
<1> QED
  BY <1>8, <1>10, <1>11 DEF Wrote, w

(* m68k_write_memory_8, _16 and _32.                                       *)
LEMMA WriteMany ==
  ASSUME head = MemoryAreas, NEW mem, MemOK(mem), NEW n \in {1, 2, 4}, NEW a \in Address,
         NEW v \in Nat
  PROVE  Wrote(mem, WriteMemory(mem, n, a, v), n, a, v, n)
<1> DEFINE w1 == WriteByte(mem, n, a, v, 0)
           w2 == WriteByte(w1, n, a, v, 1)
           w3 == WriteByte(w2, n, a, v, 2)
           w4 == WriteByte(w3, n, a, v, 3)
<1>1. n \in 1 .. 4
  OBVIOUS
<1>2. Wrote(mem, mem, n, a, v, 0)
  BY <1>1, WroteNothing
<1>3. Wrote(mem, w1, n, a, v, 1)
  <2>1. 0 \in 0 .. n - 1 /\ 0 + 1 = 1
    BY <1>1
  <2>2. Wrote(mem, w1, n, a, v, 0 + 1)
    BY <1>1, <1>2, <2>1, WroteMore
  <2> QED
    BY <2>1, <2>2
<1> HIDE DEF w1
<1>4. n > 1 => Wrote(mem, w2, n, a, v, 2)
  <2>1. n > 1 => 1 \in 0 .. n - 1 /\ 1 + 1 = 2
    BY <1>1
  <2>2. n > 1 => Wrote(mem, w2, n, a, v, 1 + 1)
    BY <1>1, <1>3, <2>1, WroteMore
  <2> QED
    BY <2>1, <2>2
<1> HIDE DEF w2
<1>5. n > 2 => Wrote(mem, w3, n, a, v, 3)
  <2>1. n > 2 => 2 \in 0 .. n - 1 /\ 2 + 1 = 3 /\ n > 1
    BY <1>1
  <2>2. n > 2 => Wrote(mem, w3, n, a, v, 2 + 1)
    BY <1>1, <1>4, <2>1, WroteMore
  <2> QED
    BY <2>1, <2>2
<1> HIDE DEF w3
<1>6. n > 3 => Wrote(mem, w4, n, a, v, 4)
  <2>1. n > 3 => 3 \in 0 .. n - 1 /\ 3 + 1 = 4 /\ n > 2
    BY <1>1
  <2>2. n > 3 => Wrote(mem, w4, n, a, v, 3 + 1)
    BY <1>1, <1>5, <2>1, WroteMore
  <2> QED
    BY <2>1, <2>2
<1>7. WriteMemory(mem, n, a, v) = IF n = 1 THEN w1 ELSE IF n = 2 THEN w2 ELSE w4
  BY DEF WriteMemory, w1, w2, w3
<1> HIDE DEF w4
<1> QED
  BY <1>3, <1>4, <1>6, <1>7

-----------------------------------------------------------------------------
(* Numbers and their bytes                                                 *)

(* Products of the base of the bytes.                                      *)
LEMMA Products ==
  ASSUME NEW n \in Nat \ {0}, NEW x \in Int, NEW y \in Int
  PROVE  /\ n * x \in Int
         /\ x < y => n * x + n <= n * y
         /\ n * (x + 1) = n * x + n
  OBVIOUS

(* One more byte behind a number, and what is in front of the last one.    *)
LEMMA Glue ==
  ASSUME NEW n \in Nat \ {0}, NEW bound \in Nat, NEW x \in 0 .. bound - 1, NEW b \in 0 .. n - 1
  PROVE  /\ x * n + b \in 0 .. bound * n - 1
         /\ (x * n + b) \div n = x /\ (x * n + b) % n = b
<1> DEFINE y == x * n + b
           p == n * x
           t == n * bound
           q == y \div n
           m == y % n
           u == n * q
<1>1. x * n = p /\ bound * n = t
  OBVIOUS
<1>2. p \in Int /\ t \in Int /\ p + n <= t
  BY Products
<1>3. p >= 0
  OBVIOUS
<1>4. y = p + b
  BY <1>1
<1> HIDE DEF p, t, y
<1>5. y \in 0 .. t - 1 /\ y \in Int
  BY <1>2, <1>3, <1>4
<1>6. q \in Int /\ m \in 0 .. n - 1 /\ y = u + m
  BY <1>5, Division
<1> HIDE DEF q, m
<1>7. u \in Int /\ (q < x => u + n <= p) /\ (x < q => p + n <= u)
  BY <1>6, Products DEF p
<1> HIDE DEF u
<1>8. ~(q < x) /\ ~(x < q)
  BY <1>2, <1>4, <1>6, <1>7
<1>9. q = x
  BY <1>6, <1>8
<1>10. u = p
  BY <1>9 DEF u, p
<1>11. m = b
  BY <1>2, <1>4, <1>6, <1>10
<1> QED
  BY <1>1, <1>5, <1>9, <1>11 DEF q, m, y, t

(* A number is its last byte and what is in front of it.                   *)
LEMMA Unglue ==
  ASSUME NEW n \in Nat \ {0}, NEW bound \in Nat, NEW y \in 0 .. bound * n - 1
  PROVE  /\ y \div n \in 0 .. bound - 1 /\ y % n \in 0 .. n - 1
         /\ y = n * (y \div n) + (y % n)
<1> DEFINE q == y \div n
           m == y % n
           u == n * q
           t == n * bound
<1>1. bound * n = t /\ t \in Int
  OBVIOUS
<1>2. y \in Int /\ y >= 0 /\ y < t
  BY <1>1
<1>3. q \in Int /\ m \in 0 .. n - 1 /\ y = u + m
  BY <1>2, Division
<1> HIDE DEF q, m
<1>4. u \in Int /\ (q < 0 => u + n <= n * 0) /\ (bound < q => t + n <= u)
  BY <1>3, Products
<1>5. q = bound => u = t
  OBVIOUS
<1>6. n * 0 = 0
  OBVIOUS
<1> HIDE DEF u, t
<1>7. ~(q < 0) /\ ~(bound < q) /\ q # bound
  BY <1>1, <1>2, <1>3, <1>4, <1>5, <1>6
<1>8. q \in 0 .. bound - 1
  BY <1>3, <1>7
<1> QED
  BY <1>3, <1>8 DEF q, m, u

(* Numbers of one, two and four bytes.                                     *)
LEMMA Bounds ==
  /\ Bound(1) = 1 * ByteBase
  /\ Bound(2) = Bound(1) * ByteBase
  /\ LongBase = Bound(2) * ByteBase * ByteBase
  /\ Bound(4) = Bound(2) * ByteBase * ByteBase
  /\ Bound(1) \in Nat /\ Bound(2) \in Nat /\ Bound(2) * ByteBase \in Nat /\ Bound(4) \in Nat
<1>1. ByteBase \in Nat
  BY LongIs
<1>2. Bound(1) = ByteBase /\ Bound(2) = ByteBase * ByteBase /\ Bound(4) = LongBase
  BY DEF Bound
<1>3. LongBase = ByteBase * ByteBase * ByteBase * ByteBase
  BY DEF LongBase
<1>4. ByteBase * ByteBase \in Nat
  BY <1>1
<1>5. ByteBase * ByteBase * ByteBase \in Nat
  BY <1>1, <1>4
<1> QED
  BY <1>1, <1>2, <1>3, <1>4, <1>5, LongIs

(* A number is known by its bytes.                                         *)
LEMMA SameDigits ==
  ASSUME NEW n \in {1, 2, 4}, NEW v \in 0 .. Bound(n) - 1, NEW w \in 0 .. Bound(n) - 1,
         \A k \in 0 .. n - 1 : LowDigit(v, k) = LowDigit(w, k)
  PROVE  v = w
<1> DEFINE m == ByteBase
           b1 == Bound(1)
           b2 == Bound(2)
           b3 == Bound(2) * ByteBase
           b4 == Bound(4)
           s1(x) == x \div m
           s2(x) == s1(x) \div m
           s3(x) == s2(x) \div m
<1>1. m \in Nat \ {0} /\ b1 \in Nat /\ b2 \in Nat /\ b3 \in Nat /\ b4 \in Nat
  BY Bounds, LongIs
<1>2. b1 = 1 * m /\ b2 = b1 * m /\ b3 = b2 * m /\ b4 = b3 * m
  BY Bounds
<1>3. \A x : /\ LowDigit(x, 0) = x % m
             /\ LowDigit(x, 1) = s1(x) % m
             /\ LowDigit(x, 2) = s2(x) % m
             /\ LowDigit(x, 3) = s3(x) % m
  BY DEF LowDigit, Shifted
<1> HIDE DEF m, b1, b2, b3, b4
<1>4. ASSUME NEW bound \in Nat, NEW x \in 0 .. bound * m - 1, NEW y \in 0 .. bound * m - 1
      PROVE  /\ s1(x) \in 0 .. bound - 1 /\ s1(y) \in 0 .. bound - 1
             /\ s1(x) = s1(y) /\ x % m = y % m => x = y
  BY <1>1, Unglue
<1>5. ASSUME NEW x \in 0 .. b1 - 1, NEW y \in 0 .. b1 - 1, x % m = y % m
      PROVE  x = y
  <2>1. s1(x) \in 0 .. 1 - 1 /\ s1(y) \in 0 .. 1 - 1
    BY <1>2, <1>4
  <2>2. s1(x) = s1(y)
    BY <2>1
  <2> QED
    BY <1>2, <1>4, <1>5, <2>2
<1>6. ASSUME NEW x \in 0 .. b2 - 1, NEW y \in 0 .. b2 - 1, x % m = y % m, s1(x) % m = s1(y) % m
      PROVE  x = y
  <2>1. s1(x) \in 0 .. b1 - 1 /\ s1(y) \in 0 .. b1 - 1
    BY <1>1, <1>2, <1>4
  <2>2. s1(x) = s1(y)
    BY <1>5, <1>6, <2>1
  <2> QED
    BY <1>1, <1>2, <1>4, <1>6, <2>2
<1>7. ASSUME NEW x \in 0 .. b3 - 1, NEW y \in 0 .. b3 - 1, x % m = y % m, s1(x) % m = s1(y) % m,
             s2(x) % m = s2(y) % m
      PROVE  x = y
  <2>1. s1(x) \in 0 .. b2 - 1 /\ s1(y) \in 0 .. b2 - 1
    BY <1>1, <1>2, <1>4
  <2>2. s1(x) = s1(y)
    BY <1>6, <1>7, <2>1
  <2> QED
    BY <1>1, <1>2, <1>4, <1>7, <2>2
<1>8. ASSUME NEW x \in 0 .. b4 - 1, NEW y \in 0 .. b4 - 1, x % m = y % m, s1(x) % m = s1(y) % m,
             s2(x) % m = s2(y) % m, s3(x) % m = s3(y) % m
      PROVE  x = y
  <2>1. s1(x) \in 0 .. b3 - 1 /\ s1(y) \in 0 .. b3 - 1
    BY <1>1, <1>2, <1>4
  <2>2. s1(x) = s1(y)
    BY <1>7, <1>8, <2>1
  <2> QED
    BY <1>1, <1>2, <1>4, <1>8, <2>2
<1> HIDE DEF s1, s2, s3
<1>9. CASE n = 1
  <2>1. v % m = w % m
    BY <1>3, <1>9
  <2> QED
    BY <1>5, <1>9, <2>1 DEF b1
<1>10. CASE n = 2
  <2>1. v % m = w % m /\ s1(v) % m = s1(w) % m
    BY <1>3, <1>10
  <2> QED
    BY <1>6, <1>10, <2>1 DEF b2
<1>11. CASE n = 4
  <2>1. v % m = w % m /\ s1(v) % m = s1(w) % m /\ s2(v) % m = s2(w) % m /\ s3(v) % m = s3(w) % m
    BY <1>3, <1>11
  <2> QED
    BY <1>8, <1>11, <2>1 DEF b4
<1> QED
  BY <1>9, <1>10, <1>11

(* m68k_read_memory_8, _16 and _32.                                        *)
LEMMA ReadMany ==
  ASSUME head = MemoryAreas, NEW mem, MemOK(mem), NEW n \in {1, 2, 4}, NEW a \in Address
  PROVE  /\ ReadMemory(mem, n, a) \in 0 .. Bound(n) - 1
         /\ \A i \in 0 .. n - 1 :
              LowDigit(ReadMemory(mem, n, a), n - 1 - i) = tos_read(mem, ByteAddress(a, i))
<1> DEFINE m == ByteBase
           r(i) == tos_read(mem, ByteAddress(a, i))
           b1 == Bound(1)
           b2 == Bound(2)
           b3 == Bound(2) * ByteBase
           b4 == Bound(4)
           x2 == r(0) * m + r(1)
           x3 == x2 * m + r(2)
           x4 == x3 * m + r(3)
           v == ReadMemory(mem, n, a)
<1>1. m \in Nat \ {0} /\ b1 \in Nat /\ b2 \in Nat /\ b3 \in Nat /\ b4 \in Nat
  BY Bounds, LongIs
<1>2. b1 = m /\ b2 = b1 * m /\ b3 = b2 * m /\ b4 = b3 * m
  BY Bounds, LongIs
<1>3. \A x : /\ LowDigit(x, 0) = x % m
             /\ LowDigit(x, 1) = (x \div m) % m
             /\ LowDigit(x, 2) = ((x \div m) \div m) % m
             /\ LowDigit(x, 3) = (((x \div m) \div m) \div m) % m
  BY DEF LowDigit, Shifted
<1>4. \A i \in 0 .. 3 : r(i) \in 0 .. m - 1
  <2> TAKE i \in 0 .. 3
  <2>1. ByteAddress(a, i) \in Address
    BY ByteAt DEF ByteAddress
  <2> QED
    BY <2>1, ReadOne DEF Byte
<1>5. v = IF n = 1 THEN r(0) ELSE IF n = 2 THEN x2 ELSE x4
  BY DEF ReadMemory, ByteAddress
<1>6. r(0) \in 0 .. m - 1 /\ r(1) \in 0 .. m - 1 /\ r(2) \in 0 .. m - 1 /\ r(3) \in 0 .. m - 1
  BY <1>4
<1> DEFINE r0 == r(0)
           r1 == r(1)
           r2 == r(2)
           r3 == r(3)
           y2 == r0 * m + r1
           y3 == y2 * m + r2
           y4 == y3 * m + r3
<1>7. v = (IF n = 1 THEN r0 ELSE IF n = 2 THEN y2 ELSE y4) /\ r0 \in 0 .. m - 1
      /\ r1 \in 0 .. m - 1 /\ r2 \in 0 .. m - 1 /\ r3 \in 0 .. m - 1
  BY <1>5, <1>6
<1> HIDE DEF m, b1, b2, b3, b4, v, r0, r1, r2, r3
<1>8. r0 \in 0 .. b1 - 1 /\ r0 % m = r0
  <2>1. r0 \in 0 .. b1 - 1
    BY <1>2, <1>7
  <2>2. r0 \in -m .. 2 * m - 1 /\ ~(r0 < 0) /\ r0 < m
    BY <1>1, <1>7
  <2> QED
    BY <1>1, <2>1, <2>2, Around
<1>9. y2 \in 0 .. b2 - 1 /\ y2 \div m = r0 /\ y2 % m = r1
  BY <1>1, <1>2, <1>7, <1>8, Glue
<1> HIDE DEF y2
<1>10. y3 \in 0 .. b3 - 1 /\ y3 \div m = y2 /\ y3 % m = r2
  BY <1>1, <1>2, <1>7, <1>9, Glue
<1> HIDE DEF y3
<1>11. y4 \in 0 .. b4 - 1 /\ y4 \div m = y3 /\ y4 % m = r3
  BY <1>1, <1>2, <1>7, <1>10, Glue
<1> HIDE DEF y4
<1>12. r(0) = r0 /\ r(1) = r1 /\ r(2) = r2 /\ r(3) = r3
  BY DEF r0, r1, r2, r3
<1> HIDE DEF r
<1>13. CASE n = 1
  <2>1. v = r0
    BY <1>7, <1>13
  <2>2. LowDigit(v, 0) = r(0)
    BY <1>3, <1>8, <1>12, <2>1
  <2>3. \A i \in 0 .. n - 1 : i = 0
    BY <1>13
  <2>5. n - 1 - 0 = 0
    BY <1>13
  <2>4. v \in 0 .. Bound(n) - 1
    BY <1>8, <1>13, <2>1 DEF b1
  <2>6. \A i \in 0 .. n - 1 : LowDigit(v, n - 1 - i) = r(i)
    BY <2>2, <2>3, <2>5
  <2> QED
    BY <2>4, <2>6 DEF v, r
<1>14. CASE n = 2
  <2>1. v = y2
    BY <1>7, <1>14
  <2>2. LowDigit(v, 0) = r(1) /\ LowDigit(v, 1) = r(0)
    BY <1>3, <1>8, <1>9, <1>12, <2>1
  <2>3. \A i \in 0 .. n - 1 : \/ i = 0 /\ n - 1 - i = 1
                              \/ i = 1 /\ n - 1 - i = 0
    BY <1>14
  <2>4. v \in 0 .. Bound(n) - 1
    BY <1>9, <1>14, <2>1 DEF b2
  <2>5. \A i \in 0 .. n - 1 : LowDigit(v, n - 1 - i) = r(i)
    BY <2>2, <2>3
  <2> QED
    BY <2>4, <2>5 DEF v, r
<1>15. CASE n = 4
  <2>1. v = y4
    BY <1>7, <1>15
  <2>2. LowDigit(v, 0) = r(3) /\ LowDigit(v, 1) = r(2) /\ LowDigit(v, 2) = r(1) /\ LowDigit(v, 3) = r(0)
    BY <1>3, <1>8, <1>9, <1>10, <1>11, <1>12, <2>1
  <2>3. \A i \in 0 .. n - 1 : \/ i = 0 /\ n - 1 - i = 3
                              \/ i = 1 /\ n - 1 - i = 2
                              \/ i = 2 /\ n - 1 - i = 1
                              \/ i = 3 /\ n - 1 - i = 0
    BY <1>15
  <2>4. v \in 0 .. Bound(n) - 1
    BY <1>11, <1>15, <2>1 DEF b4
  <2>5. \A i \in 0 .. n - 1 : LowDigit(v, n - 1 - i) = r(i)
    BY <2>2, <2>3
  <2> QED
    BY <2>4, <2>5 DEF v, r
<1> QED
  BY <1>13, <1>14, <1>15

-----------------------------------------------------------------------------
(* The memory a program may expect                                         *)

FlatBytes == [a \in Mapped |-> Content(a)]

(* The rights a program may expect are those the list grants.              *)
LEMMA MayIs ==
  ASSUME head = MemoryAreas, NEW a \in Address, NEW right \in {"READ", "WRITE"}, NEW s \in BOOLEAN
  PROVE  Flat!May(right, s, a) <=> Allowed(right, s, a)
<1> DEFINE f == Flags[Holder[a]]
           super2 == [READ |-> "SUPERREAD", WRITE |-> "SUPERWRITE"][right]
<1>1. Flat!May(right, s, a) <=> a \in Mapped /\ (right \in f \/ (s /\ super2 \in f))
  BY DEF Flat!May, RegionFlags
<1>2. Allowed(right, s, a) <=> a \in Mapped /\ f \cap Mask(right, s) # {}
  BY AllowedIs
<1>3. Mask(right, s) = IF s THEN {right, super2} ELSE {right}
  BY DEF Mask
<1> HIDE DEF f, super2
<1> QED
  BY <1>1, <1>2, <1>3

(* Both specifications count bytes and addresses alike.                    *)
LEMMA FlatNumbers ==
  /\ Flat!Space = LongBase
  /\ \A n \in {1, 2, 4} : Flat!Bound(n) = Bound(n)
  /\ \A a, i : Flat!At(a, i) = ByteAddress(a, i)
  /\ \A a, b : Flat!Index(b, a) = Index(b, a)
  /\ \A v : \A n \in {1, 2, 4} : \A i \in 0 .. n - 1 : Flat!Digit(v, n, i) = LowDigit(v, n - 1 - i)
<1>1. Flat!Space = LongBase
  BY DEF Flat!Space, LongBase
<1>2. \A n \in {1, 2, 4} : Flat!Bound(n) = Bound(n)
  BY <1>1 DEF Flat!Bound, Bound
<1>3. \A a, i : Flat!At(a, i) = ByteAddress(a, i)
  BY <1>1 DEF Flat!At, ByteAddress
<1>4. \A a, b : Flat!Index(b, a) = Index(b, a)
  BY <1>1 DEF Flat!Index, Index
<1>5. ASSUME NEW v, NEW n \in {1, 2, 4}, NEW i \in 0 .. n - 1
      PROVE  Flat!Digit(v, n, i) = LowDigit(v, n - 1 - i)
  BY DEF Flat!Digit, LowDigit, Shifted
<1> QED
  BY <1>1, <1>2, <1>3, <1>4, <1>5

(* The flat memory holds what lies in the areas.                           *)
LEMMA FlatBytesIs ==
  ASSUME NEW a \in Mapped
  PROVE  FlatBytes[a] = ByteIn(ram, a)
  BY DEF FlatBytes, Content, ByteIn

(* What is read is what the flat memory holds.                             *)
LEMMA LoadsIs ==
  ASSUME head = MemoryAreas, super \in BOOLEAN, MemOK(Memory), NEW n \in {1, 2, 4}, NEW a \in Address
  PROVE  Flat!Loads(ReadMemory(Memory, n, a), n, a)
<1> DEFINE v == ReadMemory(Memory, n, a)
<1>1. /\ v \in 0 .. Bound(n) - 1
      /\ \A i \in 0 .. n - 1 : LowDigit(v, n - 1 - i) = tos_read(Memory, ByteAddress(a, i))
  BY ReadMany
<1> HIDE DEF v
<1>2. Memory.ram = ram
  BY DEF Memory
<1>3. ASSUME NEW i \in 0 .. n - 1
      PROVE  Flat!Digit(v, n, i) = IF Flat!May("READ", super, Flat!At(a, i))
                                   THEN FlatBytes[Flat!At(a, i)] ELSE 0
  <2> DEFINE b == ByteAddress(a, i)
  <2>1. i \in 0 .. 3
    OBVIOUS
  <2>2. b \in Address
    BY <2>1, ByteAt DEF ByteAddress
  <2>3. Flat!Digit(v, n, i) = tos_read(Memory, b) /\ Flat!At(a, i) = b
    BY <1>1, FlatNumbers
  <2> HIDE DEF b
  <2>4. tos_read(Memory, b) = IF Allowed("READ", super, b) THEN ByteIn(ram, b) ELSE 0
    BY <1>2, <2>2, ReadOne
  <2>5. Allowed("READ", super, b) => b \in Mapped
    BY <2>2, AllowedIs
  <2>6. Flat!May("READ", super, b) <=> Allowed("READ", super, b)
    BY <2>2, MayIs
  <2> QED
    BY <2>3, <2>4, <2>5, <2>6, FlatBytesIs
<1>4. v \in 0 .. Flat!Bound(n) - 1
  BY <1>1, FlatNumbers
<1> QED
  BY <1>3, <1>4 DEF Flat!Loads, FlatBytes, v

(* A write changes the flat memory as it should.                           *)
LEMMA StoresIs ==
  ASSUME head = MemoryAreas, super \in BOOLEAN, NEW mem, MemOK(mem), mem.ram = ram,
         NEW n \in {1, 2, 4}, NEW a \in Address, NEW v \in Nat,
         ram' = WriteMemory(mem, n, a, v).ram
  PROVE  Flat!Stores(v, n, a)
<1>1. /\ n \in 1 .. 4
      /\ Wrote(mem, WriteMemory(mem, n, a, v), n, a, v, n)
  BY WriteMany
<1>2. ASSUME NEW b \in Mapped
      PROVE  Content(b)' = IF Flat!Index(b, a) < n /\ Flat!May("WRITE", super, b)
                           THEN Flat!Digit(v, n, Flat!Index(b, a)) ELSE FlatBytes[b]
  <2> DEFINE i == Index(b, a)
  <2>1. b \in Address
    BY HolderIs
  <2>2. i \in 0 .. LongBase - 1
    BY <2>1, IndexOf DEF Index, Address
  <2>3. Content(b)' = ByteIn(ram', b)
    BY DEF Content, ByteIn
  <2>4. ByteIn(ram', b) = IF i \in n - n .. n - 1 /\ Allowed("WRITE", super, b)
                          THEN LowDigit(v, n - 1 - i) ELSE ByteIn(ram, b)
    BY <1>1 DEF Wrote
  <2>5. Flat!Index(b, a) = i
    BY FlatNumbers
  <2> HIDE DEF i
  <2>6. i \in n - n .. n - 1 <=> i < n
    BY <2>2, LongIs
  <2>7. i < n => Flat!Digit(v, n, i) = LowDigit(v, n - 1 - i)
    BY <2>2, LongIs, FlatNumbers
  <2>8. Flat!May("WRITE", super, b) <=> Allowed("WRITE", super, b)
    BY <2>1, MayIs
  <2> QED
    BY <2>3, <2>4, <2>5, <2>6, <2>7, <2>8, FlatBytesIs
<1> QED
  BY <1>2 DEF Flat!Stores, FlatBytes

(* An access may use all its bytes in both specifications or in none.      *)
LEMMA MayAllIs ==
  ASSUME head = MemoryAreas, super \in BOOLEAN, NEW right \in {"READ", "WRITE"},
         NEW n \in {1, 2, 4}, NEW a \in Address
  PROVE  Flat!MayAll(right, n, a) <=> \A i \in 0 .. n - 1 : Allowed(right, super, ByteAddress(a, i))
<1>1. ASSUME NEW i \in 0 .. n - 1
      PROVE  Flat!May(right, super, Flat!At(a, i)) <=> Allowed(right, super, ByteAddress(a, i))
  <2>1. i \in 0 .. 3
    OBVIOUS
  <2>2. ByteAddress(a, i) \in Address
    BY <2>1, ByteAt DEF ByteAddress
  <2>3. Flat!At(a, i) = ByteAddress(a, i)
    BY FlatNumbers
  <2> QED
    BY <2>2, <2>3, MayIs
<1> QED
  BY <1>1 DEF Flat!MayAll

(* A read ends the emulation if one of its bytes may not be read.          *)
LEMMA AfterReadIs ==
  ASSUME head = MemoryAreas, super \in BOOLEAN, NEW mem, MemOK(mem), NEW n \in {1, 2, 4}, NEW a \in Address
  PROVE  /\ MemOK(AfterRead(mem, n, a)) /\ AfterRead(mem, n, a).ram = mem.ram
         /\ AfterRead(mem, n, a).keepongoing <=> mem.keepongoing /\ Flat!MayAll("READ", n, a)
<1> DEFINE all == \A i \in 0 .. n - 1 : Allowed("READ", super, ByteAddress(a, i))
<1>1. Flat!MayAll("READ", n, a) <=> all
  BY MayAllIs
<1>2. AfterRead(mem, n, a) = IF all THEN mem ELSE halt_execution(mem)
  BY DEF AfterRead, ByteAddress
<1> HIDE DEF all
<1> QED
  BY <1>1, <1>2, HaltOnly

(* A write ends the emulation if one of its bytes may not be written.      *)
LEMMA AfterWriteIs ==
  ASSUME head = MemoryAreas, super \in BOOLEAN, NEW mem, MemOK(mem), NEW n \in {1, 2, 4}, NEW a \in Address,
         NEW v \in Nat
  PROVE  /\ MemOK(WriteMemory(mem, n, a, v))
         /\ WriteMemory(mem, n, a, v).keepongoing <=> mem.keepongoing /\ Flat!MayAll("WRITE", n, a)
<1>1. Wrote(mem, WriteMemory(mem, n, a, v), n, a, v, n)
  BY WriteMany
<1>2. n - n = 0
  OBVIOUS
<1>3. Flat!MayAll("WRITE", n, a) <=> \A i \in 0 .. n - 1 : Allowed("WRITE", super, ByteAddress(a, i))
  BY MayAllIs
<1> QED
  BY <1>1, <1>2, <1>3 DEF Wrote

-----------------------------------------------------------------------------
(* Types                                                                   *)

Phases == {"load", "relocate", "ready", "start", "reset", "loop", "instruction",
           "left", "exited", "crashed"}

TableOK == /\ table \in [absflag : BOOLEAN, first : Address, bytes : Seq(Address)]
           /\ phase \in {"load", "relocate"} =>
                 \E i \in DOMAIN table.bytes : table.bytes[i] = 0

AccessOK == access = None \/ access \in Flat!Requests

Types ==
    /\ phase \in Phases
    /\ phase # "left" => head = MemoryAreas
    /\ super \in BOOLEAN
    /\ MemOK(Memory)
    /\ TableOK
    /\ adr \in Address
    /\ image \in [0 .. TESize - 1 -> Byte]
    /\ reach \in Nat
    /\ behind \in Behind
    /\ AccessOK

(* The program's memory, and the addresses main and the loader use.        *)
LEMMA UserRam ==
  /\ "userram" \in Blocks /\ "basepage" \in Blocks /\ "userram" # Magic
  /\ TextBase \in Nat /\ TESize \in Nat /\ TextBase + TESize < LongBase
  /\ TESize \in Address /\ TextBase \in Address /\ BasePage \in Address
<1>1. "userram" \in Blocks /\ "basepage" \in Blocks /\ "userram" # Magic
  BY SixBlocks, LayoutAssumption
<1>2. TextBase \in Nat /\ TESize \in Nat /\ TextBase + TESize < LongBase
  BY <1>1, LayoutIs DEF TextBase, TESize
<1>3. /\ Layout["basepage"].base \in Nat /\ Layout["basepage"].len \in Nat
      /\ Layout["basepage"].base + Layout["basepage"].len < LongBase
  BY <1>1, LayoutIs
<1> QED
  BY <1>1, <1>2, <1>3, LongIs DEF Address, BasePage

(* The machine starts well formed.                                         *)
LEMMA TypesInit == Init => Types
<1> SUFFICES ASSUME Init PROVE Types
  OBVIOUS
<1>1. PICK g \in Garbage, text \in Texts :
        ram = [block \in Blocks |-> [i \in 0 .. Layout[block].len - 1 |->
                 IF block = "basepage" THEN 0
                 ELSE IF block = "userram" /\ i < Len(text) THEN text[i + 1] ELSE g]]
  BY DEF Init
<1>2. g \in Byte /\ text \in Seq(Byte) /\ 0 \in Byte
  BY ProgramAssumption, LongIs DEF Byte
<1>3. ASSUME NEW b \in Blocks
      PROVE  ram[b] \in [0 .. Layout[b].len - 1 -> Byte]
  <2>1. ASSUME NEW i \in 0 .. Layout[b].len - 1, i < Len(text)
        PROVE  text[i + 1] \in Byte
    <3>1. Layout[b].len \in Nat
      BY LayoutIs
    <3>2. i \in Nat /\ i < Len(text) /\ Len(text) \in Nat
      BY <1>2, <2>1, <3>1
    <3>3. i + 1 \in 1 .. Len(text)
      BY <3>2
    <3> QED
      BY <1>2, <3>3
  <2> DEFINE f == [i \in 0 .. Layout[b].len - 1 |->
                     IF b = "basepage" THEN 0
                     ELSE IF b = "userram" /\ i < Len(text) THEN text[i + 1] ELSE g]
  <2>2. ram[b] = f
    BY <1>1
  <2>3. f \in [0 .. Layout[b].len - 1 -> Byte]
    BY <1>2, <2>1
  <2> QED
    BY <2>2, <2>3
<1>4. RamOK(ram)
  BY <1>1, <1>3 DEF RamOK
<1>5. MemOK(Memory)
  BY <1>4 DEF MemOK, Memory, Init
<1>6. image \in [0 .. TESize - 1 -> Byte]
  BY <1>3, UserRam DEF Init, TESize
<1>7. TableOK
  BY ProgramAssumption DEF Init, TableOK, Address
<1>8. phase \in Phases /\ head = MemoryAreas /\ super \in BOOLEAN /\ AccessOK /\ behind \in Behind
  BY DEF Init, Phases, AccessOK
<1>9. adr \in Address /\ reach \in Nat
  BY LongIs DEF Init, Address
<1> QED
  BY <1>5, <1>6, <1>7, <1>8, <1>9 DEF Types

-----------------------------------------------------------------------------
(* What a step does to memory                                              *)

(* A byte, a word and a longword fit a longword.                           *)
LEMMA BoundIs == \A n \in {1, 2, 4} : Bound(n) \in Nat /\ Bound(n) <= LongBase
<1> DEFINE m == ByteBase
           b2 == m * m
           b3 == b2 * m
           b4 == b3 * m
<1>1. m \in Nat \ {0}
  BY LongIs
<1>2. ASSUME NEW x \in Nat
      PROVE  x * m \in Nat /\ x <= x * m
  BY <1>1
<1>3. b2 \in Nat /\ m <= b2
  BY <1>1, <1>2
<1>4. b3 \in Nat /\ b2 <= b3
  BY <1>2, <1>3
<1>5. b4 \in Nat /\ b3 <= b4
  BY <1>2, <1>4
<1>6. LongBase = b4 /\ Bound(1) = m /\ Bound(2) = b2 /\ Bound(4) = b4
  BY DEF LongBase, Bound
<1> HIDE DEF b2, b3, b4
<1> QED
  BY <1>1, <1>3, <1>4, <1>5, <1>6

(* The state an access finds.                                              *)
Running == head = MemoryAreas /\ super \in BOOLEAN /\ MemOK(Memory)

(* A memory that has been set is the memory.                               *)
LEMMA NextMemory ==
  ASSUME NEW mem, MemOK(mem), SetMemory(mem)
  PROVE  MemOK(Memory)' /\ Memory' = mem
<1>1. ram' = mem.ram /\ keepongoing' = mem.keepongoing
  BY DEF SetMemory
<1>2. Memory' = mem
  BY <1>1 DEF MemOK, Memory
<1>3. MemOK(Memory)' <=> /\ Memory' = [ram |-> Memory'.ram, keepongoing |-> Memory'.keepongoing]
                         /\ RamOK(Memory'.ram) /\ Memory'.keepongoing \in BOOLEAN
  BY DEF MemOK, RamOK
<1> QED
  BY <1>2, <1>3 DEF MemOK

(* A read is a read of the flat memory.                                    *)
LEMMA ReadStep ==
  ASSUME Running, NEW n \in {1, 2, 4}, NEW a \in Address, NEW v,
         SetMemory(AfterRead(Memory, n, a)), v = ReadMemory(Memory, n, a),
         access' = [kind |-> "read", n |-> n, a |-> a, v |-> v], super' = super
  PROVE  MemOK(Memory)' /\ AccessOK' /\ Flat!FlatNext
<1> DEFINE m == AfterRead(Memory, n, a)
<1>1. /\ MemOK(m) /\ m.ram = ram
      /\ m.keepongoing <=> keepongoing /\ Flat!MayAll("READ", n, a)
  BY AfterReadIs DEF Running, Memory
<1>2. ram' = ram /\ keepongoing' = m.keepongoing
  BY <1>1 DEF SetMemory
<1>3. MemOK(Memory)'
  BY <1>1, NextMemory
<1>4. v \in 0 .. Bound(n) - 1 /\ Flat!Loads(v, n, a)
  BY ReadMany, LoadsIs DEF Running
<1>5. v \in 0 .. Flat!Space - 1 /\ a \in 0 .. Flat!Space - 1
  BY <1>4, BoundIs, FlatNumbers, LongIs DEF Address
<1>6. access' \in Flat!Requests
  BY <1>5 DEF Flat!Requests
<1>7. access'.kind = "read" /\ access'.n = n /\ access'.a = a /\ access'.v = v
  OBVIOUS
<1>8. \A b \in Mapped : Content(b)' = Content(b)
  BY <1>2 DEF Content
<1>9. keepongoing' = (keepongoing /\ Flat!MayAll("READ", n, a))
  BY <1>1, <1>2, <1>3 DEF MemOK, Memory, Running
<1>10. Flat!Read
  BY <1>4, <1>7, <1>8, <1>9 DEF Flat!Read
<1> QED
  BY <1>3, <1>6, <1>10 DEF Flat!FlatNext, AccessOK

(* A write is a write of the flat memory.                                  *)
LEMMA WriteStep ==
  ASSUME Running, NEW n \in {1, 2, 4}, NEW a \in Address, NEW v \in Address,
         SetMemory(WriteMemory(Memory, n, a, v)),
         access' = [kind |-> "write", n |-> n, a |-> a, v |-> v], super' \in {super, FALSE}
  PROVE  MemOK(Memory)' /\ AccessOK' /\ Flat!FlatNext
<1> DEFINE m == WriteMemory(Memory, n, a, v)
<1>1. v \in Nat /\ Memory.ram = ram /\ Memory.keepongoing = keepongoing
  BY LongIs DEF Address, Memory
<1>2. /\ MemOK(m)
      /\ m.keepongoing <=> keepongoing /\ Flat!MayAll("WRITE", n, a)
  BY <1>1, AfterWriteIs DEF Running
<1>3. ram' = m.ram /\ keepongoing' = m.keepongoing
  BY DEF SetMemory
<1>4. MemOK(Memory)'
  BY <1>2, NextMemory
<1>5. Flat!Stores(v, n, a)
  BY <1>1, <1>3, StoresIs DEF Running
<1>6. v \in 0 .. Flat!Space - 1 /\ a \in 0 .. Flat!Space - 1
  BY FlatNumbers DEF Address
<1>7. access' \in Flat!Requests
  BY <1>6 DEF Flat!Requests
<1>8. access'.kind = "write" /\ access'.n = n /\ access'.a = a /\ access'.v = v
  OBVIOUS
<1>9. keepongoing' = (keepongoing /\ Flat!MayAll("WRITE", n, a))
  BY <1>2, <1>3, <1>4 DEF MemOK, Memory, Running
<1>10. Flat!Write
  BY <1>5, <1>8, <1>9 DEF Flat!Write
<1> QED
  BY <1>4, <1>7, <1>10 DEF Flat!FlatNext, AccessOK

(* A longword read and written is an exchange of the flat memory.          *)
LEMMA ExchangeStep ==
  ASSUME Running, NEW a \in Address, NEW v \in Address, Exchange(a, v), super' = super
  PROVE  MemOK(Memory)' /\ AccessOK' /\ Flat!FlatNext
<1> DEFINE r == AfterRead(Memory, 4, a)
           m == WriteMemory(r, 4, a, v)
           old == ReadMemory(Memory, 4, a)
<1>1. v \in Nat /\ Memory.ram = ram /\ Memory.keepongoing = keepongoing
  BY LongIs DEF Address, Memory
<1>2. /\ MemOK(r) /\ r.ram = ram
      /\ r.keepongoing <=> keepongoing /\ Flat!MayAll("READ", 4, a)
  BY <1>1, AfterReadIs DEF Running
<1> HIDE DEF r
<1>3. /\ MemOK(m)
      /\ m.keepongoing <=> r.keepongoing /\ Flat!MayAll("WRITE", 4, a)
  BY <1>1, <1>2, AfterWriteIs DEF Running
<1>4. SetMemory(m) /\ access' = [kind |-> "exchange", n |-> 4, a |-> a, v |-> v, old |-> old]
  BY DEF Exchange, r
<1>5. ram' = m.ram /\ keepongoing' = m.keepongoing
  BY <1>4 DEF SetMemory
<1>6. MemOK(Memory)'
  BY <1>3, <1>4, NextMemory
<1>7. Flat!Stores(v, 4, a)
  BY <1>1, <1>2, <1>5, StoresIs DEF Running
<1>8. old \in 0 .. Bound(4) - 1 /\ Flat!Loads(old, 4, a)
  BY ReadMany, LoadsIs DEF Running
<1>9. v \in 0 .. Flat!Space - 1 /\ a \in 0 .. Flat!Space - 1 /\ old \in 0 .. Flat!Space - 1
  BY <1>8, BoundIs, FlatNumbers, LongIs DEF Address
<1> HIDE DEF old, m
<1>10. access' \in Flat!Requests
  BY <1>4, <1>9 DEF Flat!Requests
<1>11. access'.kind = "exchange" /\ access'.a = a /\ access'.v = v /\ access'.old = old
  BY <1>4
<1>12. keepongoing' = (keepongoing /\ Flat!MayAll("READ", 4, a) /\ Flat!MayAll("WRITE", 4, a))
  BY <1>2, <1>3, <1>5, <1>6 DEF MemOK, Memory, Running
<1>13. Flat!Exchange
  BY <1>7, <1>8, <1>11, <1>12 DEF Flat!Exchange
<1> QED
  BY <1>6, <1>10, <1>13 DEF Flat!FlatNext, AccessOK

(* A step that asks nothing of memory leaves it alone.                     *)
LEMMA QuietStep ==
  ASSUME MemOK(Memory), super \in BOOLEAN, ram' = ram, super' \in BOOLEAN, keepongoing' \in BOOLEAN, access' = None
  PROVE  MemOK(Memory)' /\ AccessOK' /\ Flat!FlatNext
<1>1. RamOK(ram)' <=> RamOK(ram)
  BY DEF RamOK
<1>2. MemOK(Memory)'
  BY <1>1 DEF MemOK, Memory
<1>3. access'.kind = "none"
  BY DEF None
<1>4. \A b \in Mapped : Content(b)' = Content(b)
  BY DEF Content
<1>5. Flat!Other
  BY <1>3, <1>4 DEF Flat!Other
<1> QED
  BY <1>2, <1>5 DEF Flat!FlatNext, AccessOK, None

(* A step that touches neither memory nor its history is no step of it.    *)
LEMMA NoStep ==
  ASSUME MemOK(Memory), AccessOK, UNCHANGED <<ram, super, keepongoing, access>>
  PROVE  MemOK(Memory)' /\ AccessOK' /\ UNCHANGED Flat!flatvars
<1>1. RamOK(ram)' <=> RamOK(ram)
  BY DEF RamOK
<1>2. MemOK(Memory)'
  BY <1>1 DEF MemOK, Memory
<1>3. \A b \in Mapped : Content(b)' = Content(b)
  BY DEF Content
<1>4. AccessOK'
  BY DEF AccessOK, Flat!Requests
<1> QED
  BY <1>2, <1>3, <1>4 DEF Flat!flatvars

(* Every string ends: nothing is mapped at the last address of all.        *)
LEMMA StringsEnd ==
  ASSUME Running, NEW a \in Address
  PROVE  StringLength(a) \in Nat
<1> DEFINE L == LongBase
           zero(n) == tos_read(Memory, (a + n) % LongBase) = 0
           zeros == {n \in Nat : zero(n)}
           n0 == L - 1 - a
<1>1. L \in Nat /\ L >= 16 /\ a \in 0 .. L - 1
  BY LongIs DEF Address
<1>2. \A b \in Blocks : L - 1 \notin Span(b)
  <2> TAKE b \in Blocks
  <2>1. /\ Layout[b].base \in Nat /\ Layout[b].len \in Nat
        /\ Layout[b].base + Layout[b].len < L
    BY LayoutIs
  <2> HIDE DEF L
  <2> QED
    BY <1>1, <2>1 DEF Span
<1>3. L - 1 \notin Mapped
  BY <1>2 DEF Mapped
<1>4. tos_read(Memory, L - 1) = 0
  <2>1. L - 1 \in Address
    BY <1>1 DEF Address
  <2> QED
    BY <1>3, <2>1, AllowedIs, ReadOne DEF Running
<1>5. n0 \in zeros
  <2>1. n0 \in Nat /\ a + n0 = L - 1
    BY <1>1
  <2>2. (a + n0) % L = L - 1
    <3> DEFINE y == a + n0
    <3>1. y \in -L .. 2 * L - 1 /\ ~(y < 0) /\ y < L /\ L \in Nat \ {0}
      BY <1>1, <2>1
    <3> HIDE DEF y, L
    <3>2. y % L = y
      BY <3>1, Around
    <3> QED
      BY <2>1, <3>2 DEF y
  <2> QED
    BY <1>4, <2>1, <2>2
<1> DEFINE n1 == Min(zeros)
<1>6. n1 \in zeros /\ \A n \in zeros : n1 <= n
  <2> HIDE DEF zeros
  <2>1. zeros # {} /\ zeros \in SUBSET Nat
    BY <1>5 DEF zeros
  <2> QED
    BY <2>1, NatMin
<1>7. n1 \in Nat /\ n1 <= n0 /\ zero(n1)
  BY <1>5, <1>6
<1>8. \A i \in 0 .. n1 - 1 : ~zero(i)
  <2> HIDE DEF n1, zero
  <2> QED
    BY <1>6, <1>7
<1> HIDE DEF n1, zero
<1>9. n1 \in 0 .. LongBase
  <2> HIDE DEF L
  <2>1. n1 \in 0 .. L
    BY <1>1, <1>7
  <2> QED
    BY <2>1 DEF L
<1>10. \E n \in 0 .. LongBase : zero(n) /\ \A i \in 0 .. n - 1 : ~zero(i)
  BY <1>7, <1>8, <1>9
<1>11. StringLength(a) \in 0 .. LongBase
  BY <1>10 DEF StringLength, zero
<1> QED
  BY <1>11, LongIs

-----------------------------------------------------------------------------
(* Every step                                                              *)

FlatStep == Flat!FlatNext \/ UNCHANGED Flat!flatvars

Behaved == MemOK(Memory)' /\ AccessOK' /\ FlatStep

(* A patch is an exchange.                                                 *)
LEMMA PatchStep ==
  ASSUME Running, NEW a \in Address, Patch(a), super' = super
  PROVE  Behaved
<1> DEFINE v == (ReadMemory(Memory, 4, a) + TextBase) % LongBase
<1>1. ReadMemory(Memory, 4, a) \in 0 .. Bound(4) - 1
  BY ReadMany DEF Running
<1>2. v \in Address
  <2> DEFINE x == ReadMemory(Memory, 4, a) + TextBase
  <2>1. x \in Int
    BY <1>1, BoundIs, UserRam
  <2> HIDE DEF x
  <2>2. x % LongBase \in Address
    BY <2>1, LongIs DEF Address
  <2> QED
    BY <2>2 DEF x
<1>3. Exchange(a, v)
  BY DEF Patch
<1> HIDE DEF v
<1> QED
  BY <1>2, <1>3, ExchangeStep DEF Behaved, FlatStep

(* Moving on stays within the address space.                               *)
LEMMA AddressMoves ==
  ASSUME NEW x \in Address, NEW d \in Nat
  PROVE  (x + d) % LongBase \in Address
<1> DEFINE y == x + d
<1>1. y \in Int
  BY LongIs DEF Address
<1> HIDE DEF y
<1>2. y % LongBase \in Address
  BY <1>1, LongIs DEF Address
<1> QED
  BY <1>2 DEF y

(* The byte at the head of the table, and the table behind it.             *)
LEMMA NextByte ==
  ASSUME Types, phase = "relocate"
  PROVE  /\ Head(table.bytes) \in Nat
         /\ Head(table.bytes) # 0 =>
               /\ [table EXCEPT !.bytes = Tail(@)] \in
                     [absflag : BOOLEAN, first : Address, bytes : Seq(Address)]
               /\ \E i \in DOMAIN Tail(table.bytes) : Tail(table.bytes)[i] = 0
<1> DEFINE s == table.bytes
<1>1. table \in [absflag : BOOLEAN, first : Address, bytes : Seq(Address)]
  BY DEF Types, TableOK
<1>2. s \in Seq(Address) /\ \E i \in DOMAIN s : s[i] = 0
  BY DEF Types, TableOK
<1> HIDE DEF s
<1>3. PICK i \in 1 .. Len(s) : s[i] = 0
  BY <1>2
<1>4. s # <<>> /\ Head(s) \in Address /\ Head(s) = s[1]
  BY <1>2, <1>3
<1>5. Head(s) \in Nat
  BY <1>4, LongIs DEF Address
<1>6. ASSUME Head(s) # 0
      PROVE  \E j \in DOMAIN Tail(s) : Tail(s)[j] = 0
  <2>1. i # 1
    BY <1>3, <1>4, <1>6
  <2>2. i - 1 \in 1 .. Len(s) - 1 /\ (i - 1) + 1 = i
    BY <1>2, <1>3, <2>1
  <2>3. Tail(s) \in Seq(Address) /\ Len(Tail(s)) = Len(s) - 1
    BY <1>2, <1>4
  <2>4. \A j \in 1 .. Len(s) - 1 : Tail(s)[j] = s[j + 1]
    BY <1>2, <1>4
  <2>5. DOMAIN Tail(s) = 1 .. Len(s) - 1
    BY <2>3
  <2> QED
    BY <1>3, <2>2, <2>4, <2>5
<1>7. Tail(s) \in Seq(Address)
  BY <1>2, <1>4
<1>8. [table EXCEPT !.bytes = Tail(@)] \in [absflag : BOOLEAN, first : Address, bytes : Seq(Address)]
  BY <1>1, <1>7 DEF s
<1> QED
  BY <1>5, <1>6, <1>8 DEF s

(* Each step of init_tos_environment and main.                             *)
LEMMA MainStepTypes ==
  ASSUME Types, MainStep
  PROVE  Types' /\ Behaved
<1>1. super \in BOOLEAN /\ MemOK(Memory) /\ AccessOK /\ keepongoing \in BOOLEAN
  BY DEF Types, MemOK, Memory
<1>2. phase # "left" => Running
  BY DEF Types, Running
<1>3. CASE NoRelocation
  <2>1. Behaved
    BY <1>1, <1>3, NoStep DEF NoRelocation, Behaved, FlatStep
  <2>2. TableOK'
    BY <1>3 DEF NoRelocation, TableOK, Types
  <2> QED
    BY <1>3, <2>1, <2>2 DEF NoRelocation, Types, Behaved, Phases
<1>4. CASE FirstPatch
  <2>1. table.first \in Nat
    BY LongIs DEF Types, TableOK, Address
  <2>2. adr' \in Address
    BY <1>4, <2>1, UserRam, AddressMoves DEF FirstPatch
  <2>3. Behaved
    BY <1>2, <1>4, <2>2, PatchStep DEF FirstPatch
  <2>4. TableOK'
    BY <1>4 DEF FirstPatch, TableOK, Types
  <2> QED
    BY <1>4, <2>1, <2>2, <2>3, <2>4 DEF FirstPatch, Types, Behaved, Phases
<1>5. CASE RelocateByte
  <2> DEFINE b == Head(table.bytes)
  <2>1. b \in Nat /\ b # 0 /\ adr' = (adr + Distance(b)) % LongBase
    BY <1>5, NextByte DEF RelocateByte
  <2>2. Distance(b) \in Nat
    BY <2>1, ProgramAssumption DEF Distance
  <2>3. adr' \in Address
    BY <2>1, <2>2, AddressMoves DEF Types
  <2>4. Behaved
    <3>1. CASE IsPlace(b)
      BY <1>2, <1>5, <2>3, <3>1, PatchStep DEF RelocateByte
    <3>2. CASE ~IsPlace(b)
      BY <1>1, <1>5, <3>2, NoStep DEF RelocateByte, Behaved, FlatStep
    <3> QED
      BY <3>1, <3>2
  <2>5. TableOK'
    <3>1. phase = "relocate" /\ table' = [table EXCEPT !.bytes = Tail(@)]
      BY <1>5 DEF RelocateByte
    <3>2. /\ table' \in [absflag : BOOLEAN, first : Address, bytes : Seq(Address)]
          /\ \E i \in DOMAIN Tail(table.bytes) : Tail(table.bytes)[i] = 0
      BY <2>1, <3>1, NextByte
    <3>3. table'.bytes = Tail(table.bytes)
      BY <3>1 DEF Types, TableOK
    <3> QED
      BY <3>2, <3>3 DEF TableOK
  <2>6. reach' \in Nat
    <3>1. reach' = reach + Distance(b) /\ reach \in Nat
      BY <1>5 DEF RelocateByte, Follow, Distance, Types
    <3> QED
      BY <2>2, <3>1
  <2> QED
    BY <1>5, <2>3, <2>4, <2>5, <2>6 DEF RelocateByte, Types, Behaved, Phases
<1>6. CASE RelocationEnds
  <2>1. Behaved
    BY <1>1, <1>6, NoStep DEF RelocationEnds, Behaved, FlatStep
  <2>2. TableOK'
    BY <1>6 DEF RelocationEnds, TableOK, Types
  <2> QED
    BY <1>6, <2>1, <2>2 DEF RelocationEnds, Types, Behaved, Phases
<1>7. CASE Ready
  <2>1. Behaved
    BY <1>1, <1>7, QuietStep DEF Ready, Behaved, FlatStep
  <2>2. TableOK'
    BY <1>7 DEF Ready, TableOK, Types
  <2> QED
    BY <1>7, <2>1, <2>2 DEF Ready, Types, Behaved, Phases
<1>8. CASE Reset
  <2>1. Behaved
    BY <1>1, <1>8, QuietStep DEF Reset, Behaved, FlatStep
  <2>2. TableOK'
    BY <1>8 DEF Reset, TableOK, Types
  <2> QED
    BY <1>8, <2>1, <2>2 DEF Reset, Types, Behaved, Phases
<1>9. CASE StartCpu
  <2>1. Behaved
    BY <1>2, <1>9, UserRam, WriteStep DEF StartCpu, Behaved, FlatStep
  <2>2. TableOK'
    BY <1>9 DEF StartCpu, TableOK, Types
  <2> QED
    BY <1>9, <2>1, <2>2 DEF StartCpu, Types, Behaved, Phases
<1>10. CASE BeginInstruction
  <2>1. Behaved
    BY <1>1, <1>10, QuietStep DEF BeginInstruction, Behaved, FlatStep
  <2>2. TableOK'
    BY <1>10 DEF BeginInstruction, TableOK, Types
  <2> QED
    BY <1>10, <2>1, <2>2 DEF BeginInstruction, Types, Behaved, Phases
<1>11. CASE EndInstruction
  <2>1. Behaved
    BY <1>1, <1>11, QuietStep DEF EndInstruction, Behaved, FlatStep
  <2>2. TableOK'
    BY <1>11 DEF EndInstruction, TableOK, Types
  <2> QED
    BY <1>11, <2>1, <2>2 DEF EndInstruction, Types, Behaved, Phases
<1>12. CASE Leave
  <2>1. Behaved
    BY <1>1, <1>12, QuietStep DEF Leave, Behaved, FlatStep
  <2>2. TableOK'
    BY <1>12 DEF Leave, TableOK, Types
  <2> QED
    BY <1>12, <2>1, <2>2 DEF Leave, Types, Behaved, Phases
<1> QED
  BY <1>3, <1>4, <1>5, <1>6, <1>7, <1>8, <1>9, <1>10, <1>11, <1>12 DEF MainStep

(* What no instruction changes.                                            *)
LEMMA InstructionTypes ==
  ASSUME Types, phase = "instruction", Behaved, phase' \in {"instruction", "exited", "crashed"},
         super' \in BOOLEAN, UNCHANGED <<head, table, adr, image, reach, behind>>
  PROVE  Types'
<1>1. TableOK'
  BY DEF TableOK, Types
<1> QED
  BY <1>1 DEF Types, Behaved, Phases

(* Each access of an instruction.                                          *)
LEMMA AccessTypes ==
  ASSUME Types, NEW n \in Sizes, NEW a \in Places,
         ReadAccess(n, a) \/ \E v \in Values : WriteAccess(n, a, v)
  PROVE  Types' /\ Behaved
<1>1. n \in {1, 2, 4} /\ a \in Address /\ Values \subseteq Address
  BY AccessAssumption DEF Address
<1>2. phase = "instruction" /\ Running
  BY DEF ReadAccess, WriteAccess, Types, Running
<1>3. CASE ReadAccess(n, a)
  <2>1. /\ SetMemory(AfterRead(Memory, n, a)) /\ super' = super
        /\ access' = [kind |-> "read", n |-> n, a |-> a, v |-> ReadMemory(Memory, n, a)]
    BY <1>3 DEF ReadAccess
  <2>2. Behaved
    BY <1>1, <1>2, <2>1, ReadStep DEF Behaved, FlatStep
  <2> QED
    BY <1>2, <1>3, <2>2, InstructionTypes DEF ReadAccess, Types
<1>4. ASSUME NEW v \in Values, WriteAccess(n, a, v)
      PROVE  Types' /\ Behaved
  <2>1. /\ SetMemory(WriteMemory(Memory, n, a, v)) /\ super' = super
        /\ access' = [kind |-> "write", n |-> n, a |-> a, v |-> v]
    BY <1>4 DEF WriteAccess
  <2>2. v \in Address
    BY <1>1
  <2>3. Behaved
    BY <1>1, <1>2, <2>1, <2>2, WriteStep DEF Behaved, FlatStep
  <2> QED
    BY <1>2, <1>4, <2>3, InstructionTypes DEF WriteAccess, Types
<1> QED
  BY <1>3, <1>4

(* Each call.                                                              *)
LEMMA CallTypes ==
  ASSUME Types, NEW vector, NEW fnct, AnyCall(vector, fnct)
  PROVE  Types' /\ Behaved
<1>1. phase = "instruction" /\ UNCHANGED <<head, table, adr, image, reach, behind>>
  BY DEF AnyCall, NotImplemented, CallGarbage, GEMDOS_Pterm, GEMDOS_Unknown, Putchar,
         GEMDOS_Cconws, BIOS_Setexc, SwitchMode, Called
<1>2. Running /\ super \in BOOLEAN /\ MemOK(Memory) /\ keepongoing \in BOOLEAN
  BY <1>1 DEF Types, Running, MemOK, Memory
<1>3. CASE \/ NotImplemented(vector, fnct) \/ CallGarbage(vector, fnct)
           \/ GEMDOS_Pterm(vector, fnct) \/ GEMDOS_Unknown(vector, fnct)
           \/ Putchar(vector, fnct) \/ \E s \in BOOLEAN : SwitchMode(vector, fnct, s)
  <2>1. /\ ram' = ram /\ super' \in BOOLEAN /\ keepongoing' \in BOOLEAN /\ access' = None
        /\ phase' \in {"instruction", "exited", "crashed"}
    BY <1>1, <1>2, <1>3 DEF NotImplemented, CallGarbage, GEMDOS_Pterm, GEMDOS_Unknown, Putchar,
                            SwitchMode
  <2>2. Behaved
    BY <1>2, <2>1, QuietStep DEF Behaved, FlatStep
  <2> QED
    BY <1>1, <2>1, <2>2, InstructionTypes
<1>4. ASSUME NEW a \in Places, GEMDOS_Cconws(vector, fnct, a)
      PROVE  Types' /\ Behaved
  <2> DEFINE last == (a + d0') % LongBase
  <2>1. a \in Address
    BY AccessAssumption DEF Address
  <2>2. d0' \in Nat
    BY <1>2, <1>4, <2>1, StringsEnd DEF GEMDOS_Cconws
  <2>3. last \in Address
    BY <2>1, <2>2, AddressMoves
  <2>4. /\ SetMemory(AfterRead(Memory, 1, last)) /\ super' = super /\ phase' = phase
        /\ access' = [kind |-> "read", n |-> 1, a |-> last, v |-> tos_read(Memory, last)]
    BY <1>4 DEF GEMDOS_Cconws
  <2> HIDE DEF last
  <2>5. tos_read(Memory, last) = ReadMemory(Memory, 1, last)
    <3>1. (last + 0) % LongBase = last
      BY <2>3, ByteAt, LongIs DEF Address
    <3> QED
      BY <3>1 DEF ReadMemory
  <2>6. Behaved
    BY <1>2, <2>3, <2>4, <2>5, ReadStep DEF Behaved, FlatStep
  <2> QED
    BY <1>1, <1>2, <2>4, <2>6, InstructionTypes
<1>5. ASSUME NEW nm \in {0, 1}, NEW v \in Values, BIOS_Setexc(vector, fnct, nm, v)
      PROVE  Types' /\ Behaved
  <2>1. v \in Address /\ 4 * nm \in Address
    BY AccessAssumption, LongIs DEF Address
  <2>2. Exchange(4 * nm, v) /\ super' = super /\ phase' = phase
    BY <1>5 DEF BIOS_Setexc
  <2>3. Behaved
    <3> DEFINE a == 4 * nm
    <3>1. a \in Address /\ Exchange(a, v)
      BY <2>1, <2>2
    <3> HIDE DEF a
    <3> QED
      BY <1>2, <2>1, <2>2, <3>1, ExchangeStep DEF Behaved, FlatStep
  <2> QED
    BY <1>1, <1>2, <2>2, <2>3, InstructionTypes
<1> QED
  BY <1>3, <1>4, <1>5 DEF AnyCall

(* Every step keeps the machine well formed and is one of the flat memory. *)
LEMMA StepTypes == Types /\ [Next]_vars => Types' /\ FlatStep
<1> SUFFICES ASSUME Types, [Next]_vars PROVE Types' /\ FlatStep
  OBVIOUS
<1>1. CASE MainStep
  BY <1>1, MainStepTypes DEF Behaved
<1>2. ASSUME NEW n \in Sizes, NEW a \in Places,
             ReadAccess(n, a) \/ \E v \in Values : WriteAccess(n, a, v)
      PROVE  Types' /\ FlatStep
  BY <1>2, AccessTypes DEF Behaved
<1>3. ASSUME NEW vector, NEW fnct, AnyCall(vector, fnct)
      PROVE  Types' /\ FlatStep
  BY <1>3, CallTypes DEF Behaved
<1>4. CASE UNCHANGED vars
  <2>1. TableOK'
    BY <1>4 DEF vars, bootvars, Types, TableOK
  <2>2. MemOK(Memory)' /\ AccessOK' /\ UNCHANGED Flat!flatvars
    BY <1>4, NoStep DEF vars, bootvars, Types
  <2> QED
    BY <1>4, <2>1, <2>2 DEF vars, bootvars, Types, FlatStep
<1> QED
  BY <1>1, <1>2, <1>3, <1>4 DEF Next

(* Whatever the program, its table and its layout: memory holds bytes, the *)
(* processor's accesses are accesses of one, two or four bytes, and the    *)
(* relocation never looks for a byte behind its table (tossystem.c         *)
(* 187-220, memory.c).                                                     *)
THEOREM TypesHold == Spec => []Types
<1> QED
  BY TypesInit, StepTypes, PTL DEF Spec

(* The list of areas implements one flat array of bytes (memory.c 97-196). *)
THEOREM FlatMemoryImplemented == Spec => ImplementsFlatMemory
<1>1. Init => Flat!FlatInit
  BY DEF Init, Flat!FlatInit, None
<1>2. Types /\ [Next]_vars => [Flat!FlatNext]_(Flat!flatvars)
  BY StepTypes DEF FlatStep
<1> QED
  BY <1>1, <1>2, TypesHold, PTL DEF Spec, ImplementsFlatMemory, Flat!FlatSpec

-----------------------------------------------------------------------------
(* Reading back                                                            *)

(* What the last write was allowed to change is what it wrote.             *)
Held ==
    access.kind = "write" =>
        /\ access.n \in {1, 2, 4} /\ access.a \in Address /\ access.v \in 0 .. Bound(access.n) - 1
        /\ phase # "left"
        /\ \A i \in 0 .. access.n - 1 :
              LET b == ByteAddress(access.a, i)
              IN  Allowed("WRITE", super, b) =>
                    ByteIn(ram, b) = LowDigit(access.v, access.n - 1 - i)

(* What is held is what a read yields.                                     *)
LEMMA HeldReadsBack ==
  ASSUME Types, Held
  PROVE  ReadsBack
<1> DEFINE n == access.n
           a == access.a
           v == access.v
           w == ReadMemory(Memory, n, a)
<1> SUFFICES ASSUME access.kind = "write",
                    \A i \in 0 .. n - 1 : \A right \in {"READ", "WRITE"} :
                       Allowed(right, super, (a + i) % LongBase)
             PROVE  w = v
  BY DEF ReadsBack
<1>1. n \in {1, 2, 4} /\ a \in Address /\ v \in 0 .. Bound(n) - 1
  BY DEF Held
<1>2. Running
  BY DEF Types, Running, Held
<1>3. \A i \in 0 .. n - 1 : LET b == ByteAddress(a, i)
                            IN  Allowed("WRITE", super, b) => ByteIn(ram, b) = LowDigit(v, n - 1 - i)
  BY DEF Held
<1>4. \A i \in 0 .. n - 1 : Allowed("READ", super, ByteAddress(a, i))
                            /\ Allowed("WRITE", super, ByteAddress(a, i))
  BY DEF ByteAddress
<1> HIDE DEF n, a, v, w
<1>5. w \in 0 .. Bound(n) - 1
      /\ \A i \in 0 .. n - 1 : LowDigit(w, n - 1 - i) = tos_read(Memory, ByteAddress(a, i))
  BY <1>1, <1>2, ReadMany DEF w, Running
<1>6. ASSUME NEW i \in 0 .. n - 1
      PROVE  LowDigit(w, n - 1 - i) = LowDigit(v, n - 1 - i)
  <2> DEFINE b == ByteAddress(a, i)
  <2>1. i \in 0 .. 3
    BY <1>1
  <2>2. b \in Address
    BY <1>1, <2>1, ByteAt DEF ByteAddress
  <2>3. tos_read(Memory, b) = ByteIn(Memory.ram, b)
    BY <1>2, <1>4, <2>2, ReadOne DEF Running
  <2>4. Memory.ram = ram
    BY DEF Memory
  <2> QED
    BY <1>3, <1>4, <1>5, <2>3, <2>4
<1>7. ASSUME NEW k \in 0 .. n - 1
      PROVE  LowDigit(v, k) = LowDigit(w, k)
  <2>1. n - 1 - k \in 0 .. n - 1 /\ n - 1 - (n - 1 - k) = k
    BY <1>1
  <2> QED
    BY <1>6, <2>1
<1> QED
  BY <1>1, <1>5, <1>7, SameDigits

(* Leaving supervisor mode allows nothing new.                             *)
LEMMA FewerRights ==
  ASSUME head' = head, super' \in {super, FALSE}, super \in BOOLEAN,
         NEW b \in Address, Allowed("WRITE", super, b)'
  PROVE  Allowed("WRITE", super, b)
<1>1. Allowed("WRITE", super, b)' <=>
         LET i == find_memarea(head, b)
         IN  i # 0 /\ head[i].flags \cap Mask("WRITE", super') # {}
  BY DEF Allowed, find_memarea
<1>2. Mask("WRITE", super') \subseteq Mask("WRITE", super)
  <2>1. CASE super' = super
    BY <2>1
  <2>2. CASE super' = FALSE
    BY <2>2, Zenon DEF Mask
  <2> QED
    BY <2>1, <2>2
<1> QED
  BY <1>1, <1>2 DEF Allowed

(* A write is held, even if supervisor mode ends with it.                  *)
LEMMA WriteHeld ==
  ASSUME Running, NEW n \in {1, 2, 4}, NEW a \in Address, NEW v \in 0 .. Bound(n) - 1,
         SetMemory(WriteMemory(Memory, n, a, v)), head' = head, phase' # "left",
         access' = [kind |-> "write", n |-> n, a |-> a, v |-> v], super' \in {super, FALSE}
  PROVE  Held'
<1> DEFINE m == WriteMemory(Memory, n, a, v)
<1>1. v \in Nat
  BY BoundIs
<1>2. Wrote(Memory, m, n, a, v, n)
  BY <1>1, WriteMany DEF Running
<1>3. ram' = m.ram
  BY DEF SetMemory
<1>4. access'.n = n /\ access'.a = a /\ access'.v = v
  OBVIOUS
<1> HIDE DEF m
<1>5. ASSUME NEW i \in 0 .. n - 1, Allowed("WRITE", super, ByteAddress(a, i))'
      PROVE  ByteIn(ram', ByteAddress(a, i)) = LowDigit(v, n - 1 - i)
  <2> DEFINE b == ByteAddress(a, i)
  <2>1. i \in 0 .. 3
    OBVIOUS
  <2>2. b \in Address
    BY <2>1, ByteAt DEF ByteAddress
  <2>3. Allowed("WRITE", super, b)
    BY <1>5, <2>2, FewerRights DEF Running
  <2>4. b \in Mapped
    BY <2>2, <2>3, AllowedIs DEF Running
  <2>5. Index(b, a) = i
    BY <2>1, <2>2, IndexOf DEF Index, ByteAddress
  <2> HIDE DEF b
  <2>6. i \in n - n .. n - 1
    OBVIOUS
  <2>7. ByteIn(m.ram, b) = IF Index(b, a) \in n - n .. n - 1 /\ Allowed("WRITE", super, b)
                           THEN LowDigit(v, n - 1 - Index(b, a)) ELSE ByteIn(Memory.ram, b)
    BY <1>2, <2>4 DEF Wrote
  <2>8. ByteIn(ram', b) = LowDigit(v, n - 1 - i)
    BY <1>3, <2>3, <2>5, <2>6, <2>7
  <2> QED
    BY <2>8 DEF b
<1> QED
  BY <1>4, <1>5 DEF Held, ByteIn

(* What is held stays so while nothing changes.                            *)
LEMMA SameHeld ==
  ASSUME Held, UNCHANGED <<head, ram, super, access>>, phase' # "left"
  PROVE  Held'
<1>1. \A right, s, b : Allowed(right, s, b)' <=> Allowed(right, s', b)
  BY DEF Allowed, find_memarea
<1> QED
  BY <1>1 DEF Held, ByteIn

(* Only a write has to be held.                                            *)
LEMMA NoneHeld ==
  ASSUME access'.kind # "write"
  PROVE  Held'
  BY DEF Held

(* Every step keeps what was held, or asks something else.                 *)
LEMMA StepHeld == Types /\ Held /\ [Next]_vars => Held'
<1> SUFFICES ASSUME Types, Held, [Next]_vars, access'.kind = "write" PROVE Held'
  BY NoneHeld
<1>1. phase # "left" => Running
  BY DEF Types, Running
<1>2. CASE NoRelocation
  BY <1>2, SameHeld DEF NoRelocation
<1>3. CASE FirstPatch
  BY <1>3 DEF FirstPatch, Patch, Exchange
<1>4. CASE RelocateByte
  BY <1>4, SameHeld DEF RelocateByte, Patch, Exchange
<1>5. CASE RelocationEnds
  BY <1>5, SameHeld DEF RelocationEnds
<1>6. CASE Ready \/ Reset \/ BeginInstruction \/ EndInstruction \/ Leave
  BY <1>6 DEF Ready, Reset, BeginInstruction, EndInstruction, Leave, None
<1>7. CASE StartCpu
  <2>1. TESize \in Address /\ BasePage \in 0 .. Bound(4) - 1
    BY UserRam DEF Address, Bound
  <2> QED
    BY <1>1, <1>7, <2>1, WriteHeld DEF StartCpu
<1>8. ASSUME NEW n \in Sizes, NEW a \in Places, NEW v \in Values, WriteAccess(n, a, v)
      PROVE  Held'
  <2>1. n \in {1, 2, 4} /\ a \in Address /\ v \in Address
    BY AccessAssumption DEF Address
  <2>2. v \in 0 .. Bound(n) - 1
    BY <1>8, <2>1, BoundIs, LongIs DEF WriteAccess, Address
  <2> QED
    BY <1>1, <1>8, <2>1, <2>2, WriteHeld DEF WriteAccess
<1>9. ASSUME NEW n, NEW a, ReadAccess(n, a)
      PROVE  Held'
  BY <1>9 DEF ReadAccess
<1>10. ASSUME NEW vector, NEW fnct, AnyCall(vector, fnct)
       PROVE  Held'
  BY <1>10 DEF AnyCall, NotImplemented, CallGarbage, GEMDOS_Pterm, GEMDOS_Unknown, Putchar,
              GEMDOS_Cconws, BIOS_Setexc, SwitchMode, Exchange, None
<1>11. CASE UNCHANGED vars
  <2>1. phase' # "left"
    BY <1>11 DEF Held, vars, bootvars
  <2> QED
    BY <1>11, <2>1, SameHeld DEF vars, bootvars
<1> QED
  BY <1>2, <1>3, <1>4, <1>5, <1>6, <1>7, <1>8, <1>9, <1>10, <1>11 DEF Next, MainStep

(* What has been written is read back, for every size of an access, every  *)
(* layout and every way a write may straddle areas (memory.c 97-196).      *)
THEOREM ReadBack == Spec => []ReadsBack
<1>1. Init => Held
  BY DEF Init, Held, None
<1> QED
  BY <1>1, StepHeld, HeldReadsBack, TypesHold, PTL DEF Spec

-----------------------------------------------------------------------------
(* Calls                                                                   *)

(* The first entry of a table with a number wins, wherever else it occurs. *)
LEMMA EntryIs ==
  ASSUME Types, NEW vector \in Vectors, NEW fnct
  PROVE  LET entries == Functions[vector]
             listed  == {i \in DOMAIN entries : entries[i].id = fnct}
         IN  IF listed # {}
             THEN \E i \in listed : /\ Entry(vector, fnct) = entries[i].fnct
                                    /\ \A j \in listed : i <= j
             ELSE fnct = behind[vector].id \/ Entry(vector, fnct) = "NULL"
<1> DEFINE entries == Functions[vector]
           last == behind[vector]
           listed == {i \in DOMAIN entries : entries[i].id = fnct}
           all == Append(entries, last)
           hits == {i \in DOMAIN all : all[i].id = fnct}
           n == Len(entries)
<1>1. entries \in Seq(Entries) /\ last \in Entries
  BY CallAssumption DEF Types
<1> HIDE DEF entries, last
<1>2. n \in Nat /\ DOMAIN entries = 1 .. n /\ DOMAIN all = 1 .. n + 1
      /\ all[n + 1] = last /\ \A i \in 1 .. n : all[i] = entries[i]
  BY <1>1
<1>3. Entry(vector, fnct) = IF hits = {} THEN "NULL" ELSE all[Min(hits)].fnct
  BY DEF Entry, entries, last
<1> HIDE DEF all
<1>4. listed \subseteq 1 .. n /\ listed \subseteq hits /\ hits \subseteq listed \cup {n + 1}
      /\ (n + 1 \in hits => last.id = fnct)
  BY <1>2
<1> HIDE DEF listed, hits, n
<1>5. CASE listed # {}
  <2>1. hits # {} /\ hits \in SUBSET Nat
    <3>1. \A i \in listed \cup {n + 1} : i \in Nat
      BY <1>2, <1>4
    <3> QED
      BY <1>4, <1>5, <3>1
  <2>2. Min(hits) \in hits /\ \A y \in hits : Min(hits) <= y
    BY <2>1, NatMin
  <2>3. PICK i \in listed : TRUE
    BY <1>5
  <2>4. i \in 1 .. n /\ i \in hits /\ Min(hits) <= i
    BY <1>4, <2>2, <2>3
  <2>5. Min(hits) # n + 1
    BY <1>2, <2>4
  <2>6. Min(hits) \in listed
    BY <1>4, <2>2, <2>5
  <2>7. all[Min(hits)] = entries[Min(hits)]
    BY <1>2, <1>4, <2>6
  <2>8. Entry(vector, fnct) = entries[Min(hits)].fnct /\ \A j \in listed : Min(hits) <= j
    BY <1>3, <1>4, <2>1, <2>2, <2>7
  <2> QED
    BY <1>5, <2>6, <2>8 DEF entries, listed
<1>6. CASE listed = {}
  <2>1. hits = {} \/ last.id = fnct
    BY <1>4, <1>6
  <2> QED
    BY <1>3, <1>6, <2>1 DEF listed, entries, last
<1> QED
  BY <1>5, <1>6

(* A trap finds the function that its table lists first for the number,    *)
(* whatever the tables hold and whatever lies behind them; a number that   *)
(* neither holds ends the emulation (gemdos.c, bios.c, xbios.c).           *)
THEOREM CallsReach == Spec => CallsReachTheirFunction
<1> DEFINE Reached ==
      (call' # call /\ call'.vector \in Vectors) =>
        LET entries == Functions[call'.vector]
            listed  == {i \in DOMAIN entries : entries[i].id = call'.fnct}
        IN  IF listed # {}
            THEN \E i \in listed : /\ call'.name = entries[i].fnct
                                   /\ \A j \in listed : i <= j
            ELSE call'.fnct = behind[call'.vector].id \/ ~ keepongoing'
<1>1. Types /\ [Next]_vars => [Reached]_vars
  <2> SUFFICES ASSUME Types, Next, call' # call, call'.vector \in Vectors PROVE Reached
    OBVIOUS
  <2>1. ~MainStep
    BY DEF MainStep, NoRelocation, FirstPatch, RelocateByte, RelocationEnds, Ready, Reset, StartCpu,
           BeginInstruction, EndInstruction, Leave
  <2>2. \A n, a : ~ReadAccess(n, a) /\ \A v : ~WriteAccess(n, a, v)
    BY DEF ReadAccess, WriteAccess
  <2>3. PICK vector, fnct : AnyCall(vector, fnct)
    BY <2>1, <2>2 DEF Next
  <2>4. PICK name : /\ Called(vector, fnct, name)
                    /\ name = "NULL" => ~ keepongoing'
    <3>1. CASE NotImplemented(vector, fnct)
      BY <3>1 DEF NotImplemented
    <3>2. CASE CallGarbage(vector, fnct)
      BY <3>2 DEF CallGarbage
    <3>3. CASE GEMDOS_Pterm(vector, fnct)
      BY <3>3 DEF GEMDOS_Pterm
    <3>4. CASE GEMDOS_Unknown(vector, fnct)
      BY <3>4 DEF GEMDOS_Unknown
    <3>5. CASE Putchar(vector, fnct)
      BY <3>5 DEF Putchar
    <3>6. CASE \E a \in Places : GEMDOS_Cconws(vector, fnct, a)
      BY <3>6 DEF GEMDOS_Cconws
    <3>7. CASE \E nm \in {0, 1}, v \in Values : BIOS_Setexc(vector, fnct, nm, v)
      BY <3>7 DEF BIOS_Setexc
    <3>8. CASE \E s \in BOOLEAN : SwitchMode(vector, fnct, s)
      BY <3>8 DEF SwitchMode
    <3> QED
      BY <2>3, <3>1, <3>2, <3>3, <3>4, <3>5, <3>6, <3>7, <3>8 DEF AnyCall
  <2>5. /\ call'.vector = vector /\ call'.fnct = fnct /\ call'.name = name
        /\ name = IF vector \in Vectors THEN Entry(vector, fnct) ELSE "NULL"
    BY <2>4 DEF Called
  <2>6. vector \in Vectors /\ name = Entry(vector, fnct)
    BY <2>5
  <2> QED
    BY <2>4, <2>5, <2>6, EntryIs
<1> QED
  BY <1>1, TypesHold, PTL DEF Spec, CallsReachTheirFunction

-----------------------------------------------------------------------------
(* Relocation                                                              *)

Patched ==
    /\ \A o \in places :
          LongAt(ram["userram"], o) = (LongAt(image, o) + TextBase) % LongBase
    /\ \A o \in DOMAIN image :
          (\A p \in places : o \notin p .. p + 3) => ram["userram"][o] = image[o]

(* The history and the address move together, so a place is patched where  *)
(* the table says and no place is met twice; and what the places met so    *)
(* far were to become, they have become.                                   *)
Followed ==
    phase \in {"load", "relocate", "ready", "start", "reset"} =>
        /\ places \subseteq 0 .. reach
        /\ phase = "load" => places = {}
        /\ phase \in {"load", "relocate"} => ~ super
        /\ phase = "relocate" => adr = (TextBase + reach) % LongBase
        /\ SaneTable => Patched

(* (x % n + d) % n is (x + d) % n.                                         *)
LEMMA Addition ==
  ASSUME NEW n \in Nat \ {0}, NEW x \in Int, NEW d \in Int
  PROVE  ((x % n) + d) % n = (x + d) % n
<1> DEFINE q == x \div n
           m == x % n
           y == m + d
           z == x + d
           qy == y \div n
           my == y % n
           qz == z \div n
           mz == z % n
           k == qz - q
           ky == n * qy
           kq == n * q
           kz == n * qz
           kk == n * k
<1>1. q \in Int /\ m \in 0 .. n - 1 /\ x = kq + m
  BY Division
<1> HIDE DEF q, m
<1>2. y \in Int /\ z \in Int
  BY <1>1
<1>3. qy \in Int /\ my \in 0 .. n - 1 /\ y = ky + my
  BY <1>2, Division
<1>4. qz \in Int /\ mz \in 0 .. n - 1 /\ z = kz + mz
  BY <1>2, Division
<1> HIDE DEF qy, my, qz, mz
<1>5. k \in Int /\ kk \in Int /\ kz \in Int /\ kq \in Int /\ ky \in Int /\ kz = kq + kk
  BY <1>1, <1>3, <1>4
<1>6. z = y + kq
  BY <1>1, <1>5
<1>7. (k < qy => kk + n <= ky) /\ (qy < k => ky + n <= kk)
  BY <1>3, <1>5, Products
<1>8. k = qy => kk = ky
  OBVIOUS
<1> HIDE DEF k, kk, ky, kz, kq, y, z
<1>9. ~(k < qy) /\ ~(qy < k)
  BY <1>2, <1>3, <1>4, <1>5, <1>6, <1>7
<1>10. my = mz
  BY <1>2, <1>3, <1>4, <1>5, <1>6, <1>8, <1>9
<1> QED
  BY <1>10 DEF my, mz, y, z, m

(* A longword is put together from its bytes.                              *)
LEMMA Rebuilt ==
  ASSUME NEW v \in Address
  PROVE  ((LowDigit(v, 3) * ByteBase + LowDigit(v, 2)) * ByteBase + LowDigit(v, 1)) * ByteBase
            + LowDigit(v, 0) = v
<1> DEFINE m == ByteBase
           b1 == Bound(1)
           b2 == Bound(2)
           b3 == Bound(2) * ByteBase
           b4 == Bound(4)
           v1 == v \div m
           v2 == v1 \div m
           v3 == v2 \div m
           d0_ == v % m
           d1 == v1 % m
           d2 == v2 % m
           d3 == v3 % m
<1>1. m \in Nat \ {0} /\ b1 \in Nat /\ b2 \in Nat /\ b3 \in Nat /\ b4 \in Nat
  BY Bounds, LongIs
<1>2. b1 = m /\ b2 = b1 * m /\ b3 = b2 * m /\ b4 = b3 * m /\ v \in 0 .. b4 - 1
  BY Bounds, LongIs DEF Address
<1>3. LowDigit(v, 0) = d0_ /\ LowDigit(v, 1) = d1 /\ LowDigit(v, 2) = d2 /\ LowDigit(v, 3) = d3
  BY DEF LowDigit, Shifted
<1> HIDE DEF m, b1, b2, b3, b4
<1>4. v1 \in 0 .. b3 - 1 /\ d0_ \in 0 .. m - 1 /\ v = m * v1 + d0_
  BY <1>1, <1>2, Unglue
<1> HIDE DEF v1, d0_
<1>5. v2 \in 0 .. b2 - 1 /\ d1 \in 0 .. m - 1 /\ v1 = m * v2 + d1
  BY <1>1, <1>2, <1>4, Unglue
<1> HIDE DEF v2, d1
<1>6. v3 \in 0 .. b1 - 1 /\ d2 \in 0 .. m - 1 /\ v2 = m * v3 + d2
  BY <1>1, <1>2, <1>5, Unglue
<1> HIDE DEF v3, d2
<1>7. d3 = v3
  <2>1. v3 \in -m .. 2 * m - 1 /\ ~(v3 < 0) /\ v3 < m
    BY <1>1, <1>2, <1>6
  <2> QED
    BY <1>1, <2>1, Around
<1> HIDE DEF d3
<1>8. d3 * m + d2 = v2
  BY <1>1, <1>2, <1>6, <1>7
<1>9. v2 * m + d1 = v1
  BY <1>1, <1>2, <1>5
<1>10. v1 * m + d0_ = v
  BY <1>1, <1>2, <1>4
<1> QED
  BY <1>3, <1>8, <1>9, <1>10 DEF m

(* User RAM, by its offsets: anybody may read and write it.                *)
LEMMA UserByte ==
  ASSUME Running, NEW o \in 0 .. TESize - 1
  PROVE  /\ TextBase + o \in Address /\ TextBase + o \in Mapped
         /\ \A blocks : ByteIn(blocks, TextBase + o) = blocks["userram"][o]
         /\ Allowed("READ", super, TextBase + o) /\ Allowed("WRITE", super, TextBase + o)
<1> DEFINE a == TextBase + o
           f == {"READ", "WRITE"}
<1>1. TextBase \in Nat /\ TESize \in Nat /\ "userram" \in Blocks /\ "userram" # Magic
  BY UserRam
<1>2. a \in TextBase .. TextBase + TESize - 1 /\ a - TextBase = o
  BY <1>1
<1> HIDE DEF a
<1>3. a \in Span("userram")
  BY <1>2 DEF Span, TextBase, TESize
<1>4. a \in Mapped /\ Holder[a] = "userram"
  BY <1>1, <1>3, HolderIs
<1>5. a \in Address
  BY <1>4, HolderIs
<1>6. \A blocks : ByteIn(blocks, a) = blocks["userram"][o]
  BY <1>1, <1>2, <1>4 DEF ByteIn, TextBase
<1>7. Flags["userram"] = f
  BY DEF Flags
<1> HIDE DEF f
<1>8. "READ" \in Mask("READ", super) /\ "WRITE" \in Mask("WRITE", super)
  BY DEF Mask
<1>9. \A right \in {"READ", "WRITE"} : f \cap Mask(right, super) # {}
  BY <1>8 DEF f
<1>10. Allowed("READ", super, a) /\ Allowed("WRITE", super, a)
  BY <1>4, <1>5, <1>7, <1>9, AllowedIs DEF Running
<1> QED
  BY <1>4, <1>5, <1>6, <1>10 DEF a

(* A patch adds TextBase to one longword of user RAM and changes no other  *)
(* byte of it.                                                             *)
LEMMA PatchIs ==
  ASSUME Running, NEW p \in Nat, p + 4 <= TESize, Patch(TextBase + p)
  PROVE  /\ LongAt(ram'["userram"], p) = (LongAt(ram["userram"], p) + TextBase) % LongBase
         /\ \A o \in 0 .. TESize - 1 :
               o \notin p .. p + 3 => ram'["userram"][o] = ram["userram"][o]
<1> DEFINE a == TextBase + p
           old == ReadMemory(Memory, 4, a)
           v == (old + TextBase) % LongBase
           r == AfterRead(Memory, 4, a)
           w == WriteMemory(r, 4, a, v)
           u == ram["userram"]
           u2 == ram'["userram"]
<1>1. TextBase \in Nat /\ TESize \in Nat /\ TextBase + TESize < LongBase /\ LongBase \in Nat
      /\ LongBase >= 16
  BY UserRam, LongIs
<1>2. \A i \in 0 .. 3 : p + i \in 0 .. TESize - 1
  BY <1>1
<1>3. a \in Address
  <2>1. p \in 0 .. TESize - 1
    BY <1>1
  <2> QED
    BY <2>1, UserByte
<1>4. \A i \in 0 .. 3 : (a + i) % LongBase = TextBase + (p + i)
  <2> TAKE i \in 0 .. 3
  <2>1. p + i \in 0 .. TESize - 1
    BY <1>2
  <2>2. a + i = TextBase + (p + i) /\ a + i < LongBase
    BY <1>1, <2>1
  <2>3. (a + i) % LongBase = IF a + i < LongBase THEN a + i ELSE a + i - LongBase
    BY <1>3, ByteAt
  <2> QED
    BY <2>2, <2>3
<1>5. \A i \in 0 .. 3 : tos_read(Memory, (a + i) % LongBase) = u[p + i]
  <2> TAKE i \in 0 .. 3
  <2> DEFINE o == p + i
  <2>1. o \in 0 .. TESize - 1 /\ (a + i) % LongBase = TextBase + o
    BY <1>2, <1>4
  <2> HIDE DEF o
  <2>2. /\ TextBase + o \in Address /\ Allowed("READ", super, TextBase + o)
        /\ ByteIn(ram, TextBase + o) = u[o]
    BY <2>1, UserByte
  <2>3. tos_read(Memory, TextBase + o) = ByteIn(Memory.ram, TextBase + o)
    BY <2>2, ReadOne DEF Running
  <2>4. Memory.ram = ram
    BY DEF Memory
  <2> QED
    BY <2>1, <2>2, <2>3, <2>4 DEF o
<1>6. old = LongAt(u, p)
  <2>1. p + 0 = p
    OBVIOUS
  <2>2. old = ((tos_read(Memory, (a + 0) % LongBase) * ByteBase
                 + tos_read(Memory, (a + 1) % LongBase)) * ByteBase
                 + tos_read(Memory, (a + 2) % LongBase)) * ByteBase
                 + tos_read(Memory, (a + 3) % LongBase)
    BY DEF ReadMemory
  <2>3. old = ((u[p + 0] * ByteBase + u[p + 1]) * ByteBase + u[p + 2]) * ByteBase + u[p + 3]
    <3> DEFINE t(i) == tos_read(Memory, (a + i) % LongBase)
    <3>1. t(0) = u[p + 0] /\ t(1) = u[p + 1] /\ t(2) = u[p + 2] /\ t(3) = u[p + 3]
      BY <1>5
    <3>2. old = ((t(0) * ByteBase + t(1)) * ByteBase + t(2)) * ByteBase + t(3)
      BY <2>2
    <3> HIDE DEF t, old, u
    <3> QED
      BY <3>1, <3>2
  <2> QED
    BY <2>1, <2>3 DEF LongAt
<1>7. old \in Int /\ v \in Address
  <2>1. old \in 0 .. Bound(4) - 1 /\ Bound(4) \in Nat
    BY <1>3, ReadMany, BoundIs DEF Running
  <2> DEFINE y == old + TextBase
  <2>2. y \in Int /\ old \in Int
    BY <1>1, <2>1
  <2> HIDE DEF y
  <2>3. y % LongBase \in Address
    BY <1>1, <2>2 DEF Address
  <2> QED
    BY <2>2, <2>3 DEF y
<1>8. MemOK(r) /\ r.ram = ram
  BY <1>3, AfterReadIs DEF Running, Memory
<1>9. ram' = w.ram
  BY DEF Patch, Exchange, SetMemory
<1> HIDE DEF old, r
<1>10. Wrote(r, w, 4, a, v, 4)
  <2>1. v \in Nat /\ 4 \in {1, 2, 4}
    BY <1>1, <1>7 DEF Address
  <2> HIDE DEF a, v
  <2> QED
    BY <1>3, <1>8, <2>1, WriteMany DEF Running
<1> HIDE DEF w, v
<1>11. ASSUME NEW o \in 0 .. TESize - 1
       PROVE  u2[o] = IF o \in p .. p + 3 THEN LowDigit(v, 3 - (o - p)) ELSE u[o]
  <2> DEFINE b == TextBase + o
             i == Index(b, a)
  <2>1. /\ b \in Address /\ b \in Mapped /\ Allowed("WRITE", super, b)
        /\ ByteIn(ram, b) = u[o] /\ ByteIn(ram', b) = u2[o]
    BY UserByte
  <2>2. ByteIn(w.ram, b) = IF i \in 4 - 4 .. 4 - 1 /\ Allowed("WRITE", super, b)
                           THEN LowDigit(v, 4 - 1 - i) ELSE ByteIn(r.ram, b)
    BY <1>10, <2>1 DEF Wrote
  <2>3. i = IF b < a THEN b - a + LongBase ELSE b - a
    BY <1>3, <2>1, IndexOf DEF Index
  <2>4. o \in Int /\ b = TextBase + o /\ a = TextBase + p
    BY <1>1
  <2> HIDE DEF b, i, a
  <2>5. (i \in 4 - 4 .. 4 - 1 <=> o \in p .. p + 3) /\ (o \in p .. p + 3 => i = o - p)
    BY <1>1, <2>3, <2>4
  <2>6. o \in p .. p + 3 => 4 - 1 - i = 3 - (o - p)
    BY <2>4, <2>5
  <2> QED
    BY <1>8, <1>9, <2>1, <2>2, <2>5, <2>6
<1>12. u2[p] = LowDigit(v, 3) /\ u2[p + 1] = LowDigit(v, 2) /\ u2[p + 2] = LowDigit(v, 1)
       /\ u2[p + 3] = LowDigit(v, 0)
  <2>1. /\ p \in 0 .. TESize - 1 /\ p + 1 \in 0 .. TESize - 1 /\ p + 2 \in 0 .. TESize - 1
        /\ p + 3 \in 0 .. TESize - 1
    BY <1>1
  <2>2. /\ 3 - (p - p) = 3 /\ 3 - (p + 1 - p) = 2 /\ 3 - (p + 2 - p) = 1 /\ 3 - (p + 3 - p) = 0
    OBVIOUS
  <2>3. p \in p .. p + 3 /\ p + 1 \in p .. p + 3 /\ p + 2 \in p .. p + 3 /\ p + 3 \in p .. p + 3
    OBVIOUS
  <2> HIDE DEF u2, u
  <2>4. u2[p] = LowDigit(v, 3)
    BY <1>11, <2>1, <2>2, <2>3
  <2>5. u2[p + 1] = LowDigit(v, 2)
    BY <1>11, <2>1, <2>2, <2>3
  <2>6. u2[p + 2] = LowDigit(v, 1)
    BY <1>11, <2>1, <2>2, <2>3
  <2>7. u2[p + 3] = LowDigit(v, 0)
    BY <1>11, <2>1, <2>2, <2>3
  <2> QED
    BY <2>4, <2>5, <2>6, <2>7
<1>13. LongAt(u2, p) = v
  BY <1>7, <1>12, Rebuilt DEF LongAt
<1> QED
  BY <1>6, <1>11, <1>13 DEF v

(* One more place, behind all the places met so far.                       *)
LEMMA OneMorePlace ==
  ASSUME Types, Running, places \subseteq 0 .. reach, SaneTable => Patched,
         reach' \in Nat, places = {} \/ reach < reach', places' = places \cup {reach'},
         adr' = (TextBase + reach') % LongBase, Patch(adr'), image' = image,
         SaneTable'
  PROVE  Patched'
<1> DEFINE p == reach'
           u == ram["userram"]
           u2 == ram'["userram"]
<1>1. /\ \A o \in places' : o + 4 <= TESize
      /\ \A o, q \in places' : o # q => o + 4 <= q \/ q + 4 <= o
  BY DEF SaneTable
<1>2. reach \in Nat /\ \A q \in places : q \in Nat /\ q <= reach
  BY DEF Types
<1>3. SaneTable
  BY <1>1 DEF SaneTable
<1>4. p \in Nat /\ p + 4 <= TESize /\ p \notin places
  BY <1>1, <1>2
<1>5. adr' = TextBase + p
  <2> DEFINE L == LongBase
             t == TextBase
             n == TESize
             y == t + p
  <2>1. t \in Nat /\ n \in Nat /\ t + n < L /\ L \in Nat \ {0}
    BY UserRam, LongIs
  <2>2. p \in Nat /\ p + 4 <= n
    BY <1>4
  <2> HIDE DEF p, t, n, L
  <2>3. y \in -L .. 2 * L - 1 /\ ~(y < 0) /\ y < L
    BY <2>1, <2>2
  <2> HIDE DEF y
  <2>4. y % L = y
    BY <2>1, <2>3, Around
  <2> QED
    BY <2>4 DEF y, p, t, L
<1>6. /\ LongAt(u2, p) = (LongAt(u, p) + TextBase) % LongBase
      /\ \A o \in 0 .. TESize - 1 : o \notin p .. p + 3 => u2[o] = u[o]
  <2> DEFINE y == TextBase + p
  <2>1. Patch(y)
    BY <1>5
  <2> HIDE DEF p
  <2> QED
    BY <1>4, <2>1, PatchIs
<1>7. /\ \A o \in places : LongAt(u, o) = (LongAt(image, o) + TextBase) % LongBase
      /\ \A o \in DOMAIN image : (\A q \in places : o \notin q .. q + 3) => u[o] = image[o]
  BY <1>3 DEF Patched
<1>8. DOMAIN image = 0 .. TESize - 1 /\ TESize \in Nat
  BY UserRam DEF Types
<1>9. \A q \in places : q + 4 <= p \/ p + 4 <= q
  <2> TAKE q \in places
  <2>1. q \in places' /\ p \in places' /\ q # p
    BY <1>4
  <2> HIDE DEF p
  <2> QED
    BY <1>1, <2>1
<1> HIDE DEF u, u2, p
<1>10. LongAt(u, p) = LongAt(image, p)
  <2>1. ASSUME NEW i \in 0 .. 3
        PROVE  u[p + i] = image[p + i]
    <3> DEFINE o == p + i
    <3>1. o \in Int /\ o \in 0 .. TESize - 1 /\ p <= o /\ o <= p + 3
      BY <1>4, <1>8
    <3> HIDE DEF o
    <3>2. \A q \in places : o \notin q .. q + 3
      BY <1>2, <1>4, <1>9, <3>1
    <3>3. u[o] = image[o]
      BY <1>7, <1>8, <3>1, <3>2
    <3> QED
      BY <3>3 DEF o
  <2>2. p + 0 = p
    BY <1>4
  <2>3. u[p] = image[p]
    <3>1. u[p + 0] = image[p + 0]
      BY <2>1
    <3> QED
      BY <2>2, <3>1
  <2>4. u[p + 1] = image[p + 1] /\ u[p + 2] = image[p + 2] /\ u[p + 3] = image[p + 3]
    BY <2>1
  <2> QED
    BY <2>3, <2>4 DEF LongAt
<1>11. ASSUME NEW q \in places
       PROVE  LongAt(u2, q) = LongAt(u, q)
  <2>1. q \in Nat /\ q + 4 <= TESize
    BY <1>1, <1>2
  <2>2. ASSUME NEW o \in {q, q + 1, q + 2, q + 3}
        PROVE  u2[o] = u[o]
    <3>1. o \in 0 .. TESize - 1 /\ q <= o /\ o <= q + 3
      BY <1>8, <2>1
    <3>2. o \notin p .. p + 3
      BY <1>4, <1>9, <2>1, <3>1
    <3> QED
      BY <1>6, <3>1, <3>2
  <2> QED
    BY <2>2 DEF LongAt
<1>12. ASSUME NEW o \in places'
       PROVE  LongAt(u2, o) = (LongAt(image, o) + TextBase) % LongBase
  <2>1. CASE o \in places
    BY <1>7, <1>11, <2>1
  <2>2. CASE o = p
    BY <1>6, <1>10, <2>2
  <2> QED
    BY <2>1, <2>2 DEF p
<1>13. ASSUME NEW o \in DOMAIN image, \A q \in places' : o \notin q .. q + 3
       PROVE  u2[o] = image[o]
  <2>1. o \notin p .. p + 3
    BY <1>13 DEF p
  <2>2. u[o] = image[o]
    BY <1>7, <1>13
  <2> QED
    BY <1>6, <1>8, <2>1, <2>2
<1> QED
  BY <1>12, <1>13 DEF Patched, LongAt, u2

(* The end of the relocation, and the reset, leave the program alone.      *)
LEMMA SameFollowed ==
  ASSUME Followed, UNCHANGED <<ram, image, places, reach>>,
         phase \in {"load", "relocate", "ready", "start", "reset"},
         phase' \notin {"load", "relocate"}
  PROVE  Followed'
<1>1. SaneTable' <=> SaneTable
  BY DEF SaneTable
<1>2. Patched' <=> Patched
  BY DEF Patched, LongAt
<1> QED
  BY <1>1, <1>2 DEF Followed

(* Before the relocation the program is as loaded.                         *)
LEMMA InitFollowed == Init => Followed
<1> SUFFICES ASSUME Init PROVE Followed
  OBVIOUS
<1>1. image = ram["userram"] /\ places = {} /\ phase = "load" /\ super = FALSE
  BY DEF Init
<1>2. Patched
  BY <1>1 DEF Patched
<1> QED
  BY <1>1, <1>2 DEF Followed

(* Every step follows the table.                                           *)
LEMMA StepFollowed == Types /\ Followed /\ [Next]_vars => Followed'
<1> SUFFICES ASSUME Types, Followed, [Next]_vars,
                    phase' \in {"load", "relocate", "ready", "start", "reset"}
             PROVE  Followed'
  BY DEF Followed
<1>1. phase # "left" => Running
  BY DEF Types, Running
<1>2. TextBase \in Nat /\ LongBase \in Nat \ {0}
  BY UserRam, LongIs
<1>3. CASE NoRelocation
  BY <1>3, SameFollowed DEF NoRelocation
<1>4. CASE FirstPatch
  <2>1. reach' = table.first /\ places = {} /\ places' = {reach'} /\ image' = image
        /\ phase = "load" /\ phase' = "relocate" /\ super' = super /\ ~super
    BY <1>4 DEF FirstPatch, Followed
  <2>2. reach' \in Nat
    BY <2>1, LongIs DEF Types, TableOK, Address
  <2>3. adr' = (TextBase + reach') % LongBase /\ Patch(adr')
    BY <1>4, <2>1 DEF FirstPatch
  <2>4. places \subseteq 0 .. reach /\ (SaneTable => Patched) /\ places' = places \cup {reach'}
    BY <2>1 DEF Followed
  <2>5. SaneTable' => Patched'
    BY <1>1, <2>1, <2>2, <2>3, <2>4, OneMorePlace
  <2>6. places' \subseteq 0 .. reach'
    BY <2>1, <2>2
  <2> QED
    BY <2>1, <2>3, <2>5, <2>6 DEF Followed
<1>5. CASE RelocateByte
  <2> DEFINE b == Head(table.bytes)
             d == Distance(b)
  <2>1. /\ phase = "relocate" /\ phase' = phase /\ super' = super /\ image' = image /\ ~super
        /\ adr = (TextBase + reach) % LongBase /\ places \subseteq 0 .. reach
        /\ SaneTable => Patched
    BY <1>5 DEF RelocateByte, Followed
  <2>2. b \in Nat /\ b # 0 /\ adr' = (adr + d) % LongBase
    BY <1>5, NextByte DEF RelocateByte
  <2>3. d \in Nat \ {0} /\ reach \in Nat
    BY <2>2, ProgramAssumption DEF Distance, Types
  <2>4. /\ reach' = reach + d
        /\ places' = IF b = 1 THEN places ELSE places \cup {reach'}
    BY <1>5 DEF RelocateByte, Follow, Distance
  <2>5. reach' \in Nat /\ reach < reach'
    BY <2>3, <2>4
  <2>6. adr' = (TextBase + reach') % LongBase
    <3> DEFINE x == TextBase + reach
    <3>1. x \in Int /\ TextBase + reach' = x + d
      BY <1>2, <2>3, <2>4
    <3>2. adr = x % LongBase
      BY <2>1
    <3> HIDE DEF x, d
    <3>3. ((x % LongBase) + d) % LongBase = (x + d) % LongBase
      <4> DEFINE n == LongBase
      <4>1. n \in Nat \ {0} /\ x \in Int /\ d \in Int
        BY <1>2, <2>3, <3>1
      <4> HIDE DEF n
      <4>2. ((x % n) + d) % n = (x + d) % n
        BY <4>1, Addition
      <4> QED
        BY <4>2 DEF n
    <3> QED
      BY <2>2, <3>1, <3>2, <3>3
  <2>7. places' \subseteq 0 .. reach'
    <3>1. 0 .. reach \subseteq 0 .. reach'
      BY <2>3, <2>5
    <3>2. reach' \in 0 .. reach'
      BY <2>5
    <3> QED
      BY <2>1, <2>4, <3>1, <3>2
  <2> HIDE DEF b, d
  <2>8. SaneTable' => Patched'
    <3>1. CASE b = 1
      <4>1. ram' = ram /\ places' = places
        BY <1>5, <2>4, <3>1 DEF RelocateByte, IsPlace, b
      <4>2. SaneTable' <=> SaneTable
        BY <4>1 DEF SaneTable
      <4>3. Patched' <=> Patched
        BY <2>1, <4>1 DEF Patched, LongAt
      <4> QED
        BY <2>1, <4>2, <4>3
    <3>2. CASE b # 1
      <4>1. Patch(adr') /\ places' = places \cup {reach'}
        BY <1>5, <2>4, <3>2 DEF RelocateByte, IsPlace, b
      <4> QED
        BY <1>1, <2>1, <2>5, <2>6, <4>1, OneMorePlace
    <3> QED
      BY <3>1, <3>2
  <2> QED
    BY <2>1, <2>6, <2>7, <2>8 DEF Followed
<1>6. CASE RelocationEnds
  BY <1>6, SameFollowed DEF RelocationEnds
<1>7. CASE Ready
  BY <1>7, SameFollowed DEF Ready
<1>8. CASE Reset
  BY <1>8, SameFollowed DEF Reset
<1>9. CASE UNCHANGED vars
  <2>1. SaneTable' <=> SaneTable
    BY <1>9 DEF SaneTable, vars, bootvars
  <2>2. Patched' <=> Patched
    BY <1>9 DEF Patched, LongAt, vars, bootvars
  <2> QED
    BY <1>9, <2>1, <2>2 DEF Followed, vars, bootvars
<1>10. CASE StartCpu \/ BeginInstruction \/ EndInstruction \/ Leave
  BY <1>10 DEF StartCpu, BeginInstruction, EndInstruction, Leave
<1>11. ASSUME NEW n, NEW a, ReadAccess(n, a) \/ \E v \in Values : WriteAccess(n, a, v)
       PROVE  Followed'
  BY <1>11 DEF ReadAccess, WriteAccess
<1>12. ASSUME NEW vector, NEW fnct, AnyCall(vector, fnct)
       PROVE  Followed'
  BY <1>12 DEF AnyCall, NotImplemented, CallGarbage, GEMDOS_Pterm, GEMDOS_Unknown, Putchar,
              GEMDOS_Cconws, BIOS_Setexc, SwitchMode, Called
<1> QED
  BY <1>3, <1>4, <1>5, <1>6, <1>7, <1>8, <1>9, <1>10, <1>11, <1>12 DEF Next, MainStep

(* Whatever the program and its table: when the processor starts, TextBase *)
(* has been added once, modulo 2^32, to each longword the table names, and *)
(* nothing else of the program has changed, as long as the places lie in   *)
(* user RAM and do not overlap (tossystem.c 187-220).                      *)
THEOREM RelocationIsRight == Spec => []Relocated
<1>1. Followed => Relocated
  BY DEF Followed, Relocated, Patched
<1> QED
  BY <1>1, InitFollowed, StepFollowed, TypesHold, PTL DEF Spec
=============================================================================
