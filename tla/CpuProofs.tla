------------------------------ MODULE CpuProofs ------------------------------
(***************************************************************************)
(* Proofs about the processor.  An effect says what a piece of machinery   *)
(* changes; from the effects of fetching, computing and storing follows,   *)
(* for every handler, that its instruction is done or has failed as it     *)
(* should; every step is one of the two, and each property looks at a part *)
(* of that.                                                                *)
(***************************************************************************)
EXTENDS Cpu, FiniteSetTheorems, TLAPS

-----------------------------------------------------------------------------
(* Numbers of the widths of the processor.                                 *)

(* The widths in numbers: bytes of six, seven or eight bits.               *)
Numbers(b1, b2, b3, b4) ==
    /\ \A x : /\ x \in Values(Half(1)) <=> x \in Int /\ 0 <= x /\ x < b1
              /\ x \in Values(Half(2)) <=> x \in Int /\ 0 <= x /\ x < b2
              /\ x \in Values(Half(3)) <=> x \in Int /\ 0 <= x /\ x < b3
              /\ x \in Values(Half(4)) <=> x \in Int /\ 0 <= x /\ x < b4
    /\ \A x : /\ Low(x, 1) = x % b1 /\ Low(x, 2) = x % b2
              /\ Low(x, 3) = x % b3 /\ Low(x, 4) = x % b4
    /\ \A v : /\ ByteOf(v, 0) = (v \div 1) % b1 /\ ByteOf(v, 1) = (v \div b1) % b1
              /\ ByteOf(v, 2) = (v \div b2) % b1 /\ ByteOf(v, 3) = (v \div b3) % b1
    /\ 2^Bits(1) = b1 /\ 2^Bits(2) = b2
    /\ Half(1) \in Int /\ Half(2) \in Int /\ Half(3) \in Int /\ Half(4) \in Int

(* The width of a byte settles all others.                                 *)
LEMMA Widths ==
  \/ Numbers(64, 4096, 262144, 16777216)
  \/ Numbers(128, 16384, 2097152, 268435456)
  \/ Numbers(256, 65536, 16777216, 4294967296)
<1>1. CASE ByteBits = 6
  <2>1. Half(1) = 32 /\ Half(2) = 2048 /\ Half(3) = 131072 /\ Half(4) = 8388608
    BY <1>1, SMT DEF Bits, Half
  <2>2. 2^Bits(0) = 1 /\ 2^Bits(1) = 64 /\ 2^Bits(2) = 4096 /\ 2^Bits(3) = 262144
    BY <1>1, SMT DEF Bits
  <2> QED
    BY <2>1, <2>2, SMT DEF Numbers, Values, Low, Wrap, ByteOf
<1>2. CASE ByteBits = 7
  <2>1. Half(1) = 64 /\ Half(2) = 8192 /\ Half(3) = 1048576 /\ Half(4) = 134217728
    BY <1>2, SMT DEF Bits, Half
  <2>2. 2^Bits(0) = 1 /\ 2^Bits(1) = 128 /\ 2^Bits(2) = 16384 /\ 2^Bits(3) = 2097152
    BY <1>2, SMT DEF Bits
  <2> QED
    BY <2>1, <2>2, SMT DEF Numbers, Values, Low, Wrap, ByteOf
<1>3. CASE ByteBits = 8
  <2>1. Half(1) = 128 /\ Half(2) = 32768 /\ Half(3) = 8388608 /\ Half(4) = 2147483648
    BY <1>3, SMT DEF Bits, Half
  <2>2. 2^Bits(0) = 1 /\ 2^Bits(1) = 256 /\ 2^Bits(2) = 65536 /\ 2^Bits(3) = 16777216
    BY <1>3, SMT DEF Bits
  <2> QED
    BY <2>1, <2>2, SMT DEF Numbers, Values, Low, Wrap, ByteOf
<1> QED
  BY <1>1, <1>2, <1>3, MachineAssumption, SMT

(* The sizes of a byte, a word, an address and a long.                     *)
LEMMA LowIs ==
  ASSUME NEW n \in 1 .. 4, NEW x \in Int
  PROVE  /\ Low(x, n) \in Values(Half(n))
         /\ Low(x, n) \in Longs
         /\ x \in Values(Half(n)) => Low(x, n) = x
         /\ MAKE_INT(x, n) \in Int
<1>1. n = 1 \/ n = 2 \/ n = 3 \/ n = 4
  OBVIOUS
<1>2. /\ Low(x, n) \in Values(Half(n))
      /\ Low(x, n) \in Longs
      /\ x \in Values(Half(n)) => Low(x, n) = x
  BY <1>1, Widths, SMT DEF Numbers, Longs
<1>3. Half(n) \in Int
  BY <1>1, Widths, SMT DEF Numbers
<1>4. Low(x, n) \in Int
  BY <1>1, Widths, SMT DEF Numbers
<1> QED
  BY <1>2, <1>3, <1>4 DEF MAKE_INT, Signed

(* A long is an integer.                                                   *)
LEMMA LongsAre == \A x \in Longs : x \in Int
  BY Widths, SMT DEF Numbers, Longs

(* Cutting sums early or late makes no difference.                         *)
LEMMA LongSum ==
  ASSUME NEW x \in Int, NEW y \in Int
  PROVE  /\ Long(x) \in Longs
         /\ Long(Long(x) + y) = Long(x + y)
         /\ x \in Longs => Long(x) = x
         /\ ADDRESS_68K(Long(x)) = ADDRESS_68K(x)
         /\ ADDRESS_68K(x) \in Nat
  BY Widths, SMT DEF Numbers, Long, Longs, ADDRESS_68K

(* Cutting a long to a long changes nothing.                               *)
LEMMA LongKeeps ==
  ASSUME NEW x \in Longs
  PROVE  Long(x) = x /\ Long(x + 0) = x /\ x \in Int
  BY Widths, SMT DEF Numbers, Long, Longs

(* A part of a number replaced by the same part of another one.            *)
LEMMA LowPart ==
  ASSUME NEW n \in All
  PROVE  /\ \A x, v \in Int : Low((x - Low(x, n)) + Low(v, n), n) = Low(v, n)
         /\ \A x \in Longs, v \in Int : (x - Low(x, n)) + Low(v, n) \in Longs
<1>1. n = 1 \/ n = 2 \/ n = 4
  BY DEF All
<1>2. CASE Numbers(64, 4096, 262144, 16777216)
  BY <1>1, <1>2, SMT DEF Numbers, Longs
<1>3. CASE Numbers(128, 16384, 2097152, 268435456)
  BY <1>1, <1>3, SMT DEF Numbers, Longs
<1>4. CASE Numbers(256, 65536, 16777216, 4294967296)
  BY <1>1, <1>4, SMT DEF Numbers, Longs
<1> QED
  BY <1>2, <1>3, <1>4, Widths, SMT

(* A part of a register stored, the rest kept.                             *)
LEMMA UpperLow ==
  ASSUME NEW n \in All, NEW x \in Longs, NEW v \in Int
  PROVE  /\ Upper(x, n) + Low(v, n) \in Longs
         /\ Upper(Upper(x, n) + Low(v, n), n) = Upper(x, n)
         /\ Low(Upper(x, n) + Low(v, n), n) = Low(v, n)
<1> DEFINE t == (x - Low(x, n)) + Low(v, n)
<1>1. x \in Int /\ Low(x, n) \in Int /\ Low(v, n) \in Int
  BY LowIs, LongsAre DEF All
<1>2. t \in Longs /\ Low(t, n) = Low(v, n)
  BY <1>1, LowPart
<1>3. t - Low(t, n) = x - Low(x, n)
  BY <1>1, <1>2, SMT
<1> QED
  BY <1>2, <1>3 DEF Upper

(* The bytes of a value.                                                   *)
LEMMA ByteOfIs ==
  ASSUME NEW k \in 0 .. 3, NEW v \in Int
  PROVE  ByteOf(v, k) \in Bytes /\ ByteOf(v, k) \in Int
<1>1. k = 0 \/ k = 1 \/ k = 2 \/ k = 3
  OBVIOUS
<1> QED
  BY <1>1, Widths, SMT DEF Numbers, Bytes

-----------------------------------------------------------------------------
(* What a step does to a machine b: it leaves one of the same memory in    *)
(* the same mode, with this program counter and these condition codes, and *)
(* of the registers and bytes only R and B changed.                        *)
Effect(S, b, o, pc, f, R, B) ==
    /\ o \in MachinesWith(S)
    /\ o.s = b.s /\ o.t1 = b.t1 /\ o.im = b.im /\ o.stopped = b.stopped /\ o.banked = b.banked
    /\ o.pc = pc /\ o.ppc = b.ppc /\ o.ccr = f
    /\ \A k \in 0 .. 15 : k \in R \/ o.da[k] = b.da[k]
    /\ \A x \in S : x \in B \/ o.ram[x] = b.ram[x]
    /\ o.run => b.run

(* A step that does nothing.                                               *)
LEMMA EffectNone ==
  ASSUME NEW S, NEW b \in MachinesWith(S)
  PROVE  Effect(S, b, b, b.pc, b.ccr, {}, {})
  BY DEF Effect

(* One step after another.                                                 *)
LEMMA EffectThen ==
  ASSUME NEW S, NEW b, NEW o, NEW u, NEW pc, NEW f, NEW R, NEW B,
         NEW pc2, NEW f2, NEW R2, NEW B2,
         Effect(S, b, o, pc, f, R, B), Effect(S, o, u, pc2, f2, R2, B2)
  PROVE  Effect(S, b, u, pc2, f2, R \cup R2, B \cup B2)
  BY DEF Effect

(* A wider claim of what may have changed.                                 *)
LEMMA EffectMore ==
  ASSUME NEW S, NEW b, NEW o, NEW pc, NEW f, NEW R, NEW B, NEW R2, NEW B2,
         Effect(S, b, o, pc, f, R, B), R \subseteq R2, B \subseteq B2
  PROVE  Effect(S, b, o, pc, f, R2, B2)
  BY DEF Effect

(* One register, the condition codes or the program counter set.           *)
Registered(b, k, v) == [b EXCEPT !.da[k] = v]

Flagged(b, f) == [b EXCEPT !.ccr = f]

(* A register set.                                                         *)
LEMMA RegisterSet ==
  ASSUME NEW S, NEW b \in MachinesWith(S), NEW k \in 0 .. 15, NEW v \in Longs
  PROVE  /\ Effect(S, b, Registered(b, k, v), b.pc, b.ccr, {k}, {})
         /\ Registered(b, k, v).da[k] = v
         /\ Registered(b, k, v).ram = b.ram
         /\ Registered(b, k, v).run = b.run
  BY DEF Effect, MachinesWith, Registered

(* The condition codes set.                                                *)
LEMMA FlagsSet ==
  ASSUME NEW S, NEW b \in MachinesWith(S), NEW f \in Flags
  PROVE  /\ Effect(S, b, Flagged(b, f), b.pc, f, {}, {})
         /\ Flagged(b, f).da = b.da
         /\ Flagged(b, f).ram = b.ram
         /\ Flagged(b, f).run = b.run
  BY DEF Effect, MachinesWith, Flagged

(* The program counter set.                                                *)
LEMMA PcSet ==
  ASSUME NEW S, NEW b \in MachinesWith(S), NEW p \in Longs
  PROVE  /\ Effect(S, b, jump(b, p), p, b.ccr, {}, {})
         /\ jump(b, p).da = b.da
         /\ jump(b, p).ram = b.ram
         /\ jump(b, p).run = b.run
  BY DEF Effect, MachinesWith, jump

(* Reading and writing.                                                    *)
LEMMA ByteIs ==
  ASSUME NEW S, NEW b \in MachinesWith(S), NEW x
  PROVE  Byte(b, x) \in Bytes
<1>1. 0 \in Bytes
  BY Widths, SMT DEF Numbers, Bytes
<1>2. DOMAIN b.ram = S /\ \A y \in S : b.ram[y] \in Bytes
  BY DEF MachinesWith
<1> QED
  BY <1>1, <1>2, MachineAssumption DEF Byte

(* What is read fits its size.                                             *)
LEMMA ValueIs ==
  ASSUME NEW S, NEW b \in MachinesWith(S), NEW a, NEW n \in All
  PROVE  Value(b, a, n) \in Values(Half(n)) /\ Value(b, a, n) \in Longs
<1> DEFINE p == Byte(b, a)
           q == Byte(b, a + 1)
           r == Byte(b, a + 2)
           t == Byte(b, a + 2 + 1)
<1>1. p \in Bytes /\ q \in Bytes /\ r \in Bytes /\ t \in Bytes
  BY ByteIs
<1>2. n = 1 \/ n = 2 \/ n = 4
  BY DEF All
<1>3. Value(b, a, n) = IF n = 1 THEN p
                       ELSE IF n = 2 THEN p * 2^Bits(1) + q
                       ELSE (p * 2^Bits(1) + q) * 2^Bits(2) + (r * 2^Bits(1) + t)
  BY <1>2 DEF Value, Word
<1> HIDE DEF p, q, r, t
<1> QED
  BY <1>1, <1>2, <1>3, Widths, SMT DEF Numbers, Bytes, Longs

(* A read changes nothing but that it may halt.                            *)
LEMMA ReadIs ==
  ASSUME NEW S, NEW b \in MachinesWith(S), NEW a, NEW n \in All
  PROVE  /\ Effect(S, b, Read(b, a, n).m, b.pc, b.ccr, {}, {})
         /\ Read(b, a, n).m.da = b.da /\ Read(b, a, n).m.ram = b.ram
         /\ Read(b, a, n).v \in Longs
         /\ Read(b, a, n).v \in Values(Half(n))
         /\ Read(b, a, n).v = Value(b, ADDRESS_68K(a), n)
<1> DEFINE z == Place(a, n) \subseteq DOMAIN b.ram \cup DOMAIN Rom
           o == [b EXCEPT !.run = @ /\ z]
<1>1. Read(b, a, n).m = o /\ Read(b, a, n).v = Value(b, ADDRESS_68K(a), n)
  BY DEF Read
<1>2. z \in BOOLEAN
  OBVIOUS
<1> HIDE DEF z
<1>3. /\ Effect(S, b, o, b.pc, b.ccr, {}, {})
      /\ o.da = b.da /\ o.ram = b.ram
  BY <1>2 DEF Effect, MachinesWith
<1> QED
  BY <1>1, <1>3, ValueIs

(* A write changes its place, and leaves there the bytes of its value.     *)
LEMMA WriteIs ==
  ASSUME NEW S, NEW b \in MachinesWith(S), NEW a \in Int, NEW n \in All, NEW v \in Int
  PROVE  /\ Effect(S, b, Write(b, a, n, v), b.pc, b.ccr, {}, Place(a, n))
         /\ Write(b, a, n, v).da = b.da
         /\ Write(b, a, n, v).run => Place(a, n) \subseteq S
         /\ \A x \in S \cap Place(a, n) :
               Write(b, a, n, v).ram[x] = ByteOf(v, ADDRESS_68K(a) + n - 1 - x)
<1> DEFINE z == Place(a, n) \subseteq DOMAIN b.ram
           r == [x \in DOMAIN b.ram |->
                    IF x \in Place(a, n) THEN ByteOf(v, ADDRESS_68K(a) + n - 1 - x)
                    ELSE b.ram[x]]
           o == [b EXCEPT !.ram = r, !.run = @ /\ z]
<1>1. Write(b, a, n, v) = o
  BY DEF Write
<1>2. z \in BOOLEAN /\ DOMAIN b.ram = S
  BY DEF MachinesWith
<1>3. \A x \in Place(a, n) : ADDRESS_68K(a) + n - 1 - x \in 0 .. 3
  <2> DEFINE at == ADDRESS_68K(a)
  <2>1. n = 1 \/ n = 2 \/ n = 4
    BY DEF All
  <2>2. at \in Int
    BY LongSum
  <2>3. Place(a, n) = at .. at + n - 1
    BY DEF Place
  <2> HIDE DEF at
  <2>4. \A x \in at .. at + n - 1 : at + n - 1 - x \in 0 .. 3
    BY <2>1, <2>2, SMT
  <2> QED
    BY <2>3, <2>4 DEF at
<1>4. r \in [S -> Bytes]
  BY <1>2, <1>3, ByteOfIs DEF MachinesWith
<1>5. \A x \in S : x \notin Place(a, n) => r[x] = b.ram[x]
  BY <1>2
<1>6. \A x \in S \cap Place(a, n) : r[x] = ByteOf(v, ADDRESS_68K(a) + n - 1 - x)
  BY <1>2
<1>7. z => Place(a, n) \subseteq S
  BY <1>2
<1> HIDE DEF z, r
<1>8. o.ram = r /\ o.da = b.da /\ (o.run => z) /\ (o.run => b.run)
  BY <1>2 DEF MachinesWith
<1>9. Effect(S, b, o, b.pc, b.ccr, {}, Place(a, n))
  BY <1>2, <1>4, <1>5, <1>8 DEF Effect, MachinesWith
<1> QED
  BY <1>1, <1>6, <1>7, <1>8, <1>9

-----------------------------------------------------------------------------
(* Addressing modes.                                                       *)

(* The parts of a machine are numbers of their width.                      *)
LEMMA MachineParts ==
  ASSUME NEW S, NEW b \in MachinesWith(S)
  PROVE  /\ \A k \in 0 .. 15 : b.da[k] \in Longs /\ b.da[k] \in Int
         /\ b.pc \in Longs /\ b.pc \in Int /\ b.ppc \in Longs /\ b.ppc \in Int
         /\ b.banked \in Longs /\ b.banked \in Int
         /\ b.ccr \in Flags /\ b.im \in 0 .. 7
         /\ b.s \in BOOLEAN /\ b.t1 \in BOOLEAN /\ b.stopped \in BOOLEAN /\ b.run \in BOOLEAN
  BY LongsAre DEF MachinesWith

(* And so are those of an operand.                                         *)
LEMMA OperandParts ==
  ASSUME NEW e \in Operands
  PROVE  /\ e.r \in 0 .. 7 /\ 8 + e.r \in 0 .. 15 /\ e.x \in 0 .. 15
         /\ e.d \in Longs /\ e.d \in Int
  BY LongsAre DEF Operands

(* How far registers are stepped, and the program counter moves.           *)
LEMMA StepIs ==
  ASSUME NEW e \in Operands, NEW n \in All
  PROVE  StepOf(e, n) \in 1 .. 4 /\ Extension(e, n) \in {0, 2, 4}
  BY DEF StepOf, Extension, All

(* Words skipped.                                                          *)
LEMMA SkipIs ==
  ASSUME NEW S, NEW b \in MachinesWith(S), NEW n \in Int
  PROVE  /\ Effect(S, b, Skip(b, n), Long(b.pc + n), b.ccr, {}, {})
         /\ Skip(b, n).da = b.da /\ Skip(b, n).ram = b.ram /\ Skip(b, n).run = b.run
<1>1. b.pc + n \in Int
  BY MachineParts
<1>2. Long(b.pc + n) \in Longs
  BY <1>1, LongSum
<1>3. Skip(b, n) = jump(b, Long(b.pc + n))
  BY DEF Skip, jump
<1> QED
  BY <1>2, <1>3, PcSet

(* A mode used: its words are behind it and its register is stepped.       *)
LEMMA UsedIs ==
  ASSUME NEW S, NEW b \in MachinesWith(S), NEW e \in Operands, NEW n \in All
  PROVE  /\ Effect(S, b, Used(b, e, n), Long(b.pc + Extension(e, n)), b.ccr, Stepped(e), {})
         /\ Used(b, e, n).ram = b.ram /\ Used(b, e, n).run = b.run
         /\ e.mode \notin {"pi", "pd"} => Used(b, e, n).da = b.da
         /\ e.mode = "pi" =>
               Used(b, e, n).da[8 + e.r] = Long(b.da[8 + e.r] + StepOf(e, n))
         /\ e.mode = "pd" =>
               Used(b, e, n).da[8 + e.r] = Long(b.da[8 + e.r] - StepOf(e, n))
<1>1. 8 + e.r \in 0 .. 15
  BY OperandParts
<1>2. b.da[8 + e.r] \in Int /\ StepOf(e, n) \in Int /\ b.pc \in Int /\ b.pc \in Longs
  BY <1>1, MachineParts, StepIs
<1>3. Long(b.da[8 + e.r] + StepOf(e, n)) \in Longs /\ Long(b.da[8 + e.r] - StepOf(e, n)) \in Longs
  <2>1. b.da[8 + e.r] + StepOf(e, n) \in Int /\ b.da[8 + e.r] - StepOf(e, n) \in Int
    BY <1>2
  <2> QED
    BY <2>1, LongSum
<1>4. CASE e.mode = "pi"
  <2>1. Used(b, e, n) = Registered(b, 8 + e.r, Long(b.da[8 + e.r] + StepOf(e, n)))
    BY <1>4 DEF Used, Registered
  <2>2. Extension(e, n) = 0 /\ Stepped(e) = {8 + e.r} /\ e.mode # "pd"
    BY <1>4 DEF Extension, Stepped
  <2>3. Long(b.pc + Extension(e, n)) = b.pc
    BY <1>2, <2>2, LongKeeps
  <2> DEFINE v == Long(b.da[8 + e.r] + StepOf(e, n))
             k == 8 + e.r
  <2>4. /\ Effect(S, b, Registered(b, k, v), b.pc, b.ccr, {k}, {})
        /\ Registered(b, k, v).da[k] = v
        /\ Registered(b, k, v).ram = b.ram
        /\ Registered(b, k, v).run = b.run
    BY <1>1, <1>3, RegisterSet
  <2> QED
    BY <1>4, <2>1, <2>2, <2>3, <2>4
<1>5. CASE e.mode = "pd"
  <2>1. Used(b, e, n) = Registered(b, 8 + e.r, Long(b.da[8 + e.r] - StepOf(e, n)))
    BY <1>5 DEF Used, Registered
  <2>2. Extension(e, n) = 0 /\ Stepped(e) = {8 + e.r} /\ e.mode # "pi"
    BY <1>5 DEF Extension, Stepped
  <2>3. Long(b.pc + Extension(e, n)) = b.pc
    BY <1>2, <2>2, LongKeeps
  <2> DEFINE v == Long(b.da[8 + e.r] - StepOf(e, n))
             k == 8 + e.r
  <2>4. /\ Effect(S, b, Registered(b, k, v), b.pc, b.ccr, {k}, {})
        /\ Registered(b, k, v).da[k] = v
        /\ Registered(b, k, v).ram = b.ram
        /\ Registered(b, k, v).run = b.run
    BY <1>1, <1>3, RegisterSet
  <2> QED
    BY <1>5, <2>1, <2>2, <2>3, <2>4
<1>6. CASE e.mode \notin {"pi", "pd"}
  <2>1. Used(b, e, n) = Skip(b, Extension(e, n)) /\ Stepped(e) = {}
    BY <1>6 DEF Used, Stepped
  <2>2. Extension(e, n) \in Int
    BY StepIs
  <2> QED
    BY <1>6, <2>1, <2>2, SkipIs
<1> QED
  BY <1>4, <1>5, <1>6

(* An address with an index register.                                      *)
LEMMA IndexIs ==
  ASSUME NEW S, NEW b \in MachinesWith(S), NEW e \in Operands, NEW base \in Int
  PROVE  get_ea_ix(b, base, e) \in Longs
<1>1. b.da[e.x] \in Int /\ MAKE_INT(b.da[e.x], 2) \in Int /\ MAKE_INT(e.d, 1) \in Int
  <2>1. b.da[e.x] \in Int /\ e.d \in Int
    BY MachineParts, OperandParts
  <2>2. 1 \in 1 .. 4 /\ 2 \in 1 .. 4
    OBVIOUS
  <2> QED
    BY <2>1, <2>2, LowIs
<1> DEFINE x == IF e.long THEN b.da[e.x] ELSE MAKE_INT(b.da[e.x], 2)
<1>2. x \in Int
  BY <1>1
<1> HIDE DEF x
<1>3. base + x + MAKE_INT(e.d, 1) \in Int
  BY <1>1, <1>2
<1>4. get_ea_ix(b, base, e) = Long(base + x + MAKE_INT(e.d, 1))
  BY DEF get_ea_ix, x
<1> QED
  BY <1>3, <1>4, LongSum

(* Every address is a long.                                                *)
LEMMA AddressIs ==
  ASSUME NEW S, NEW b \in MachinesWith(S), NEW e \in Operands, NEW n \in All,
         e.mode \in Memory \cup {"pcdi", "pcix"}
  PROVE  EA(b, e, n) \in Longs /\ EA(b, e, n) \in Int
<1> DEFINE an == b.da[8 + e.r]
<1>1. an \in Longs /\ an \in Int /\ b.pc \in Int /\ e.d \in Longs /\ e.d \in Int
  BY OperandParts, MachineParts
<1>2. StepOf(e, n) \in Int /\ MAKE_INT(e.d, 2) \in Int
  BY <1>1, StepIs, LowIs
<1>3. get_ea_ix(b, an, e) \in Longs /\ get_ea_ix(b, b.pc, e) \in Longs
  BY <1>1, IndexIs
<1>4. /\ Long(an - StepOf(e, n)) \in Longs /\ Long(an + MAKE_INT(e.d, 2)) \in Longs
      /\ Long(MAKE_INT(e.d, 2)) \in Longs /\ Long(b.pc + MAKE_INT(e.d, 2)) \in Longs
  <2> DEFINE x == StepOf(e, n)
             y == MAKE_INT(e.d, 2)
  <2>1. x \in Int /\ y \in Int
    BY <1>2
  <2> HIDE DEF x, y, an
  <2>2. an - x \in Int /\ an + y \in Int /\ b.pc + y \in Int
    BY <1>1, <2>1
  <2> QED
    BY <2>1, <2>2, LongSum DEF x, y
<1> HIDE DEF an
<1>5. EA(b, e, n) \in Longs
  BY <1>1, <1>3, <1>4 DEF EA, Memory, an
<1> QED
  BY <1>5, LongsAre

(* An operand fetched.                                                     *)
LEMMA OperandIs ==
  ASSUME NEW S, NEW b \in MachinesWith(S), NEW e \in Operands, NEW n \in All
  PROVE  /\ Effect(S, b, Operand(b, e, n).m, Long(b.pc + Extension(e, n)), b.ccr, Stepped(e), {})
         /\ Operand(b, e, n).m.da = Used(b, e, n).da
         /\ Operand(b, e, n).m.ram = b.ram
         /\ Operand(b, e, n).v \in Longs
         /\ e.mode # "q" => Operand(b, e, n).v \in Values(Half(n))
<1> DEFINE o == Operand(b, e, n)
           u == Used(b, e, n)
<1>1. u \in MachinesWith(S)
  BY UsedIs DEF Effect
<1>2. /\ 8 + e.r \in 0 .. 15 /\ e.r \in 0 .. 15 /\ e.d \in Int /\ e.d \in Longs
      /\ b.da[e.r] \in Int /\ b.da[8 + e.r] \in Int /\ b.pc \in Int /\ b.pc \in Longs
  BY OperandParts, MachineParts
<1>3. n \in 1 .. 4 /\ 0 \in Longs /\ 0 \in Values(Half(n))
  <2>1. n = 1 \/ n = 2 \/ n = 4
    BY DEF All
  <2> QED
    BY <2>1, Widths, SMT DEF Longs, Numbers
<1>4. CASE e.mode \in {"d", "a", "q", "none"}
  <2>1. o.m = b /\ o.v \in Longs /\ (e.mode # "q" => o.v \in Values(Half(n)))
    BY <1>2, <1>3, <1>4, LowIs DEF Operand
  <2>2. Extension(e, n) = 0 /\ Stepped(e) = {} /\ e.mode \notin {"pi", "pd"}
    BY <1>4 DEF Extension, Stepped
  <2>3. u.da = b.da
    BY <2>2, UsedIs
  <2>4. Long(b.pc + 0) = b.pc
    BY <1>2, LongKeeps
  <2> QED
    BY <2>1, <2>2, <2>3, <2>4, EffectNone
<1>5. CASE e.mode \in {"i", "w"}
  <2>1. o.m = u /\ o.v \in Longs /\ o.v \in Values(Half(n))
    BY <1>2, <1>3, <1>5, LowIs DEF Operand
  <2> QED
    BY <2>1, UsedIs
<1>6. CASE e.mode \notin {"d", "a", "q", "none", "i", "w"}
  <2>1. o = Read(u, EA(b, e, n), n)
    BY <1>6 DEF Operand
  <2>2. /\ Effect(S, u, o.m, u.pc, u.ccr, {}, {})
        /\ o.m.da = u.da /\ o.m.ram = u.ram
        /\ o.v \in Longs /\ o.v \in Values(Half(n))
    BY <1>1, <2>1, ReadIs
  <2>3. /\ Effect(S, b, u, Long(b.pc + Extension(e, n)), b.ccr, Stepped(e), {})
        /\ u.ram = b.ram
    BY UsedIs
  <2>4. u.pc = Long(b.pc + Extension(e, n)) /\ u.ccr = b.ccr
    BY <2>3 DEF Effect
  <2>5. Effect(S, b, o.m, Long(b.pc + Extension(e, n)), b.ccr, Stepped(e) \cup {}, {} \cup {})
    BY <2>2, <2>3, <2>4, EffectThen
  <2> QED
    BY <2>2, <2>3, <2>5
<1> QED
  BY <1>4, <1>5, <1>6

(* The registers and bytes a store goes to.                                *)
Into(e) == IF e.mode = "d" THEN {e.r} ELSE {}

At(e, at, n) == IF e.mode = "d" THEN {} ELSE Place(at, n)

(* A result stored in a part of a register or in its place.                *)
LEMMA StoreIs ==
  ASSUME NEW S, NEW b \in MachinesWith(S), NEW e \in Operands, NEW n \in All,
         NEW v \in Int, NEW at, e.mode # "d" => at \in Int
  PROVE  /\ Effect(S, b, Store(b, e, at, n, v), b.pc, b.ccr, Into(e), At(e, at, n))
         /\ e.mode # "d" => Store(b, e, at, n, v).da = b.da
         /\ e.mode = "d" =>
               /\ Store(b, e, at, n, v).da[e.r] = Upper(b.da[e.r], n) + Low(v, n)
               /\ Store(b, e, at, n, v).ram = b.ram
<1>1. e.r \in 0 .. 15 /\ b.da[e.r] \in Longs
  BY OperandParts, MachineParts
<1>2. CASE e.mode = "d"
  <2>1. Upper(b.da[e.r], n) + Low(v, n) \in Longs
    BY <1>1, UpperLow
  <2>2. Store(b, e, at, n, v) = Registered(b, e.r, Upper(b.da[e.r], n) + Low(v, n))
    BY <1>2 DEF Store, Registered
  <2> DEFINE w == Upper(b.da[e.r], n) + Low(v, n)
  <2>3. /\ Effect(S, b, Registered(b, e.r, w), b.pc, b.ccr, {e.r}, {})
        /\ Registered(b, e.r, w).da[e.r] = w
        /\ Registered(b, e.r, w).ram = b.ram
    BY <1>1, <2>1, RegisterSet
  <2>4. Into(e) = {e.r} /\ At(e, at, n) = {}
    BY <1>2 DEF Into, At
  <2> QED
    BY <1>2, <2>2, <2>3, <2>4
<1>3. CASE e.mode # "d"
  <2>1. Store(b, e, at, n, v) = Write(b, at, n, v)
    BY <1>3 DEF Store
  <2>2. Into(e) = {} /\ At(e, at, n) = Place(at, n)
    BY <1>3 DEF Into, At
  <2>3. /\ Effect(S, b, Write(b, at, n, v), b.pc, b.ccr, {}, Place(at, n))
        /\ Write(b, at, n, v).da = b.da
    BY <1>3, WriteIs
  <2> QED
    BY <1>3, <2>1, <2>2, <2>3
<1> QED
  BY <1>2, <1>3

-----------------------------------------------------------------------------
(* The stack, the status register and exceptions.                          *)

(* A push onto the stack.                                                  *)
LEMMA PushIs ==
  ASSUME NEW S, NEW b \in MachinesWith(S), NEW n \in All, NEW v \in Int,
         NEW sp, sp = Long(b.da[15] - n)
  PROVE  /\ Effect(S, b, push(b, n, v), b.pc, b.ccr, {15}, Place(sp, n))
         /\ push(b, n, v).da[15] = sp
         /\ push(b, n, v).run => Place(sp, n) \subseteq S
         /\ \A x \in S \cap Place(sp, n) :
               push(b, n, v).ram[x] = ByteOf(v, ADDRESS_68K(sp) + n - 1 - x)
<1> DEFINE u == Registered(b, 15, sp)
<1>1. 15 \in 0 .. 15 /\ n \in Int /\ b.da[15] \in Int
  BY MachineParts DEF All
<1>2. b.da[15] - n \in Int
  BY <1>1
<1>3. sp \in Longs /\ sp \in Int
  BY <1>2, LongSum, LongsAre
<1>4. push(b, n, v) = Write(u, sp, n, v)
  BY DEF push, Registered, A7
<1>5. /\ Effect(S, b, u, b.pc, b.ccr, {15}, {})
      /\ u.da[15] = sp
  BY <1>1, <1>3, RegisterSet
<1>6. u \in MachinesWith(S) /\ u.pc = b.pc /\ u.ccr = b.ccr
  BY <1>5 DEF Effect
<1> HIDE DEF u
<1> DEFINE o == Write(u, sp, n, v)
<1>7. /\ Effect(S, u, o, u.pc, u.ccr, {}, Place(sp, n))
      /\ o.da = u.da
      /\ o.run => Place(sp, n) \subseteq S
      /\ \A x \in S \cap Place(sp, n) : o.ram[x] = ByteOf(v, ADDRESS_68K(sp) + n - 1 - x)
  BY <1>3, <1>6, WriteIs
<1> HIDE DEF o
<1>8. Effect(S, b, o, b.pc, b.ccr, {15} \cup {}, {} \cup Place(sp, n))
  BY <1>5, <1>6, <1>7, EffectThen
<1>9. Effect(S, b, o, b.pc, b.ccr, {15}, Place(sp, n))
  BY <1>8
<1> QED
  BY <1>4, <1>5, <1>7, <1>9 DEF o

(* A pull from the stack.                                                  *)
LEMMA PullIs ==
  ASSUME NEW S, NEW b \in MachinesWith(S), NEW n \in All
  PROVE  /\ Effect(S, b, pull(b, n).m, b.pc, b.ccr, {15}, {})
         /\ pull(b, n).v \in Longs
<1> DEFINE sp == Long(b.da[15] + n)
           u == Registered(b, 15, sp)
<1>1. 15 \in 0 .. 15 /\ n \in Int /\ b.da[15] \in Int
  BY MachineParts DEF All
<1>2. b.da[15] + n \in Int
  BY <1>1
<1>3. sp \in Longs
  BY <1>2, LongSum
<1>4. pull(b, n) = Read(u, b.da[15], n)
  BY DEF pull, Registered, A7
<1> HIDE DEF sp
<1>5. Effect(S, b, u, b.pc, b.ccr, {15}, {})
  BY <1>1, <1>3, RegisterSet
<1>6. u \in MachinesWith(S) /\ u.pc = b.pc /\ u.ccr = b.ccr
  BY <1>5 DEF Effect
<1> HIDE DEF u
<1> DEFINE o == Read(u, b.da[15], n)
<1>7. Effect(S, u, o.m, u.pc, u.ccr, {}, {}) /\ o.v \in Longs
  BY <1>6, ReadIs
<1> HIDE DEF o
<1>8. Effect(S, b, o.m, b.pc, b.ccr, {15} \cup {}, {} \cup {})
  BY <1>5, <1>6, <1>7, EffectThen
<1>9. Effect(S, b, o.m, b.pc, b.ccr, {15}, {})
  BY <1>8
<1> QED
  BY <1>4, <1>7, <1>9 DEF o

(* Condition codes from a word.                                            *)
LEMMA SetCcrIs == \A w : set_ccr(w) \in Flags
  BY DEF set_ccr, BitSet, Flags

(* A long put together from its bytes.                                     *)
LEMMA FourBytes ==
  ASSUME NEW v \in Values(Half(4))
  PROVE  (ByteOf(v, 3) * 2^Bits(1) + ByteOf(v, 2)) * 2^Bits(2)
         + (ByteOf(v, 1) * 2^Bits(1) + ByteOf(v, 0)) = v
<1>1. CASE Numbers(64, 4096, 262144, 16777216)
  <2>1. v \in Int /\ 0 <= v /\ v < 16777216
    BY <1>1, SMT DEF Numbers
  <2>2. /\ ByteOf(v, 0) = v % 64 /\ ByteOf(v, 1) = (v \div 64) % 64
        /\ ByteOf(v, 2) = (v \div 4096) % 64 /\ ByteOf(v, 3) = (v \div 262144) % 64
        /\ 2^Bits(1) = 64 /\ 2^Bits(2) = 4096
    BY <1>1, <2>1, SMT DEF Numbers
  <2>3. /\ ((v \div 64) % 64) * 64 + (v % 64) = v % 4096
        /\ ((v \div 262144) % 64) * 64 + ((v \div 4096) % 64) = v \div 4096
        /\ (v \div 4096) * 4096 + (v % 4096) = v
    BY <2>1, SMT
  <2> QED
    BY <2>2, <2>3, SMT
<1>2. CASE Numbers(128, 16384, 2097152, 268435456)
  <2>1. v \in Int /\ 0 <= v /\ v < 268435456
    BY <1>2, SMT DEF Numbers
  <2>2. /\ ByteOf(v, 0) = v % 128 /\ ByteOf(v, 1) = (v \div 128) % 128
        /\ ByteOf(v, 2) = (v \div 16384) % 128 /\ ByteOf(v, 3) = (v \div 2097152) % 128
        /\ 2^Bits(1) = 128 /\ 2^Bits(2) = 16384
    BY <1>2, <2>1, SMT DEF Numbers
  <2>3. /\ ((v \div 128) % 128) * 128 + (v % 128) = v % 16384
        /\ ((v \div 2097152) % 128) * 128 + ((v \div 16384) % 128) = v \div 16384
        /\ (v \div 16384) * 16384 + (v % 16384) = v
    BY <2>1, SMT
  <2> QED
    BY <2>2, <2>3, SMT
<1>3. CASE Numbers(256, 65536, 16777216, 4294967296)
  <2>1. v \in Int /\ 0 <= v /\ v < 4294967296
    BY <1>3, SMT DEF Numbers
  <2>2. /\ ByteOf(v, 0) = v % 256 /\ ByteOf(v, 1) = (v \div 256) % 256
        /\ ByteOf(v, 2) = (v \div 65536) % 256 /\ ByteOf(v, 3) = (v \div 16777216) % 256
        /\ 2^Bits(1) = 256 /\ 2^Bits(2) = 65536
    BY <1>3, <2>1, SMT DEF Numbers
  <2>3. /\ ((v \div 256) % 256) * 256 + (v % 256) = v % 65536
        /\ ((v \div 16777216) % 256) * 256 + ((v \div 65536) % 256) = v \div 65536
        /\ (v \div 65536) * 65536 + (v % 65536) = v
    BY <2>1, SMT
  <2> QED
    BY <2>2, <2>3, SMT
<1> QED
  BY <1>1, <1>2, <1>3, Widths, SMT

(* What was written and kept is read again.                                *)
LEMMA ValueWritten ==
  ASSUME NEW S, NEW u \in MachinesWith(S), NEW a \in Int, NEW n \in All,
         NEW v \in Values(Half(n)), Place(a, n) \subseteq S,
         \A x \in Place(a, n) : u.ram[x] = ByteOf(v, ADDRESS_68K(a) + n - 1 - x)
  PROVE  Value(u, ADDRESS_68K(a), n) = v
<1> DEFINE at == ADDRESS_68K(a)
<1>1. at \in Int /\ Place(a, n) = at .. at + n - 1
  BY LongSum DEF Place
<1>2. DOMAIN u.ram = S
  BY DEF MachinesWith
<1>3. Value(u, at, n) = IF n = 1 THEN Byte(u, at)
                        ELSE IF n = 2 THEN Word(u, at)
                        ELSE Word(u, at) * 2^Bits(2) + Word(u, at + 2)
  BY DEF Value, All
<1> HIDE DEF at
<1>4. \A x \in at .. at + n - 1 : Byte(u, x) = ByteOf(v, at + n - 1 - x)
  BY <1>1, <1>2 DEF Byte, at
<1>5. CASE n = 2
  <2>1. at \in at .. at + 1 /\ at + 1 \in at .. at + 1
        /\ at + 2 - 1 = at + 1 /\ at + 1 - at = 1 /\ at + 1 - (at + 1) = 0
    BY <1>1, SMT
  <2>2. Byte(u, at) = ByteOf(v, 1) /\ Byte(u, at + 1) = ByteOf(v, 0)
    BY <1>4, <1>5, <2>1
  <2>3. Value(u, at, n) = ByteOf(v, 1) * 2^Bits(1) + ByteOf(v, 0)
    BY <1>3, <1>5, <2>2 DEF Word
  <2>4. ByteOf(v, 1) * 2^Bits(1) + ByteOf(v, 0) = v
    BY <1>5, Widths, SMT DEF Numbers
  <2> QED
    BY <2>3, <2>4 DEF at
<1>6. CASE n = 4
  <2>1. /\ at \in at .. at + 3 /\ at + 1 \in at .. at + 3
        /\ at + 2 \in at .. at + 3 /\ at + 2 + 1 \in at .. at + 3
        /\ at + 4 - 1 = at + 3 /\ at + 3 - at = 3 /\ at + 3 - (at + 1) = 2
        /\ at + 3 - (at + 2) = 1 /\ at + 3 - (at + 2 + 1) = 0
    BY <1>1, SMT
  <2>2. /\ Byte(u, at) = ByteOf(v, 3) /\ Byte(u, at + 1) = ByteOf(v, 2)
        /\ Byte(u, at + 2) = ByteOf(v, 1) /\ Byte(u, at + 2 + 1) = ByteOf(v, 0)
    BY <1>4, <1>6, <2>1
  <2>3. Value(u, at, n) = (ByteOf(v, 3) * 2^Bits(1) + ByteOf(v, 2)) * 2^Bits(2)
                          + (ByteOf(v, 1) * 2^Bits(1) + ByteOf(v, 0))
    BY <1>3, <1>6, <2>2 DEF Word
  <2>4. (ByteOf(v, 3) * 2^Bits(1) + ByteOf(v, 2)) * 2^Bits(2)
        + (ByteOf(v, 1) * 2^Bits(1) + ByteOf(v, 0)) = v
    BY <1>6, FourBytes
  <2> QED
    BY <2>3, <2>4 DEF at
<1>7. CASE n = 1
  <2>1. at \in at .. at /\ at + 1 - 1 - at = 0 /\ at + 1 - 1 = at
    BY <1>1, SMT
  <2>2. Byte(u, at) = ByteOf(v, 0)
    BY <1>4, <1>7, <2>1
  <2>3. ByteOf(v, 0) = v
    BY <1>7, Widths, SMT DEF Numbers
  <2> QED
    BY <1>3, <1>7, <2>2, <2>3 DEF at
<1> QED
  BY <1>5, <1>6, <1>7 DEF All

(* The status register is a word.                                          *)
LEMMA StatusFits ==
  ASSUME NEW S, NEW b \in MachinesWith(S)
  PROVE  get_sr(b) \in Values(Half(2))
<1>1. /\ AsOne(b.t1) \in {0, 1} /\ AsOne(b.s) \in {0, 1} /\ b.im \in 0 .. 7
      /\ get_ccr(b.ccr) \in 0 .. 31
  BY MachineParts DEF AsOne, get_ccr, Flags
<1>2. CASE ByteBits = 6
  BY <1>1, <1>2, SMT DEF get_sr, Bits, Half, Values
<1>3. CASE ByteBits = 7
  BY <1>1, <1>3, SMT DEF get_sr, Bits, Half, Values
<1>4. CASE ByteBits = 8
  BY <1>1, <1>4, SMT DEF get_sr, Bits, Half, Values
<1> QED
  BY <1>2, <1>3, <1>4, MachineAssumption

(* Into supervisor mode.                                                   *)
LEMMA InitIs ==
  ASSUME NEW S, NEW b \in MachinesWith(S)
  PROVE  LET o == init_exception(b)
         IN  /\ o \in MachinesWith(S)
             /\ o.s = TRUE /\ o.t1 = FALSE /\ o.im = b.im /\ o.stopped = b.stopped
             /\ o.pc = b.pc /\ o.ppc = b.ppc /\ o.ccr = b.ccr /\ o.run = b.run
             /\ o.ram = b.ram
             /\ \A k \in 0 .. 15 : k # 15 => o.da[k] = b.da[k]
             /\ o.da[15] = (IF b.s THEN b.da[15] ELSE b.banked)
             /\ o.banked = (IF b.s THEN b.banked ELSE b.da[15])
<1> DEFINE o == init_exception(b)
<1>1. CASE b.s = TRUE
  <2>1. o = [b EXCEPT !.t1 = FALSE]
    BY <1>1 DEF init_exception, set_s_flag, MachinesWith
  <2> HIDE DEF o
  <2> QED
    BY <1>1, <2>1 DEF MachinesWith, o
<1>2. CASE b.s = FALSE
  <2>1. o = [b EXCEPT !.t1 = FALSE, !.s = TRUE, !.banked = b.da[15], !.da[15] = b.banked]
    BY <1>2 DEF init_exception, set_s_flag, MachinesWith, A7
  <2> HIDE DEF o
  <2>2. /\ b.da \in [0 .. 15 -> Longs] /\ 15 \in 0 .. 15
        /\ b.banked \in Longs /\ b.da[15] \in Longs
    BY DEF MachinesWith
  <2>3. [b.da EXCEPT ![15] = b.banked] \in [0 .. 15 -> Longs]
    BY <2>2
  <2>4. o.da = [b.da EXCEPT ![15] = b.banked]
    BY <2>1 DEF MachinesWith
  <2>5. o \in MachinesWith(S)
    BY <2>1, <2>2, <2>3 DEF MachinesWith
  <2>6. /\ o.s = TRUE /\ o.t1 = FALSE /\ o.im = b.im /\ o.stopped = b.stopped
        /\ o.pc = b.pc /\ o.ppc = b.ppc /\ o.ccr = b.ccr /\ o.run = b.run
        /\ o.ram = b.ram /\ o.banked = b.da[15]
    BY <2>1 DEF MachinesWith
  <2> QED
    BY <1>2, <2>2, <2>4, <2>5, <2>6 DEF o
<1> QED
  BY <1>1, <1>2 DEF MachinesWith

(* An exception through vector v, to go on at pc.                          *)
Taken(S, b, o, v, pc) ==
    LET sp == o.da[15]
    IN  /\ o \in MachinesWith(S)
        /\ o.s = TRUE /\ o.t1 = FALSE /\ o.im = b.im /\ o.stopped = b.stopped
        /\ o.ppc = b.ppc /\ o.ccr = b.ccr /\ (o.run => b.run)
        /\ o.pc = Value(o, 4 * v, 4)
        /\ \A k \in 0 .. 15 : k # 15 => o.da[k] = b.da[k]
        /\ \A x \in S : x \in Place(sp, 2) \cup Place(sp + 2, 4) \/ o.ram[x] = b.ram[x]
        /\ sp = Long((IF b.s THEN b.da[15] ELSE b.banked) - 6)
        /\ o.banked = IF b.s THEN b.banked ELSE b.da[15]
        /\ o.run => /\ Value(o, ADDRESS_68K(sp), 2) = get_sr(b)
                    /\ Value(o, ADDRESS_68K(sp + 2), 4) = pc

(* The two parts of an exception's frame lie one behind the other.         *)
LEMMA FrameParts ==
  ASSUME NEW a \in Int
  PROVE  Place(a, 2) \cap Place(a + 2, 4) = {}
<1> DEFINE p == ADDRESS_68K(a)
           q == ADDRESS_68K(a + 2)
<1>1. p \in Int /\ q \in Int /\ (q = p + 2 \/ q < p)
  BY Widths, SMT DEF ADDRESS_68K, Numbers
<1>2. q < p => q + 3 < p
  BY Widths, SMT DEF ADDRESS_68K, Numbers
<1>3. Place(a, 2) = p .. p + 1 /\ Place(a + 2, 4) = q .. q + 3
  BY <1>1 DEF Place
<1> HIDE DEF p, q
<1> QED
  BY <1>1, <1>2, <1>3, SMT

(* The frame's two pushes, seen from the stack pointer they leave.         *)
LEMMA FrameIs ==
  ASSUME NEW x \in Int
  PROVE  /\ Long(Long(x - 4) - 2) = Long(x - 6)
         /\ Place(Long(x - 4), 4) = Place(Long(x - 6) + 2, 4)
         /\ ADDRESS_68K(Long(x - 4)) = ADDRESS_68K(Long(x - 6) + 2)
<1>1. x - 4 \in Int /\ x - 6 \in Int /\ Long(x - 4) \in Int /\ Long(x - 6) \in Int
  <2>1. x - 4 \in Int /\ x - 6 \in Int
    OBVIOUS
  <2> QED
    BY <2>1, LongSum, LongsAre
<1>2. Long(Long(x - 4) - 2) = Long(x - 6)
  BY <1>1, Widths, SMT DEF Long, Numbers
<1>3. ADDRESS_68K(Long(x - 4)) = ADDRESS_68K(x - 4)
  BY <1>1, LongSum
<1>4. ADDRESS_68K(Long(x - 6) + 2) = ADDRESS_68K(x - 4)
  <2>1. Long(Long(x - 6) + 2) = Long(x - 4)
    BY <1>1, Widths, SMT DEF Long, Numbers
  <2>2. Long(x - 6) + 2 \in Int
    BY <1>1
  <2>3. ADDRESS_68K(Long(Long(x - 6) + 2)) = ADDRESS_68K(Long(x - 6) + 2)
    BY <2>2, LongSum
  <2> QED
    BY <1>3, <2>1, <2>3
<1> QED
  BY <1>2, <1>3, <1>4 DEF Place

(* An exception, whatever its vector.                                      *)
LEMMA ExceptionIs ==
  ASSUME NEW S, NEW b \in MachinesWith(S), NEW v \in 0 .. 47, NEW pc \in Longs
  PROVE  Taken(S, b, Exception(b, v, pc), v, pc)
<1> DEFINE i == init_exception(b)
           sr == get_sr(b)
           x == i.da[15]
           sp1 == Long(x - 4)
           sp == Long(x - 6)
           p1 == push(i, 4, pc)
           p2 == push(p1, 2, sr)
           rd == Read(p2, 4 * v, 4)
           o == jump(rd.m, rd.v)
<1>1. Exception(b, v, pc) = o
  BY DEF Exception, jump_vector, stack_frame_3word
<1>2. /\ i \in MachinesWith(S)
      /\ i.s = TRUE /\ i.t1 = FALSE /\ i.im = b.im /\ i.stopped = b.stopped
      /\ i.pc = b.pc /\ i.ppc = b.ppc /\ i.ccr = b.ccr /\ i.run = b.run
      /\ i.ram = b.ram
      /\ \A k \in 0 .. 15 : k # 15 => i.da[k] = b.da[k]
      /\ x = (IF b.s THEN b.da[15] ELSE b.banked)
      /\ i.banked = (IF b.s THEN b.banked ELSE b.da[15])
  BY InitIs
<1> HIDE DEF i
<1>3. sr \in Int /\ sr \in Values(Half(2)) /\ pc \in Int /\ pc \in Values(Half(4))
      /\ x \in Int
  <2>1. sr \in Values(Half(2))
    BY StatusFits
  <2>2. sr \in Int
    BY <2>1, Widths, SMT DEF Numbers
  <2>3. x \in Int
    BY <1>2, MachineParts
  <2> QED
    BY <2>1, <2>2, <2>3, LongsAre DEF Longs
<1> HIDE DEF sr, x
<1>4. 4 \in All /\ 2 \in All
  BY DEF All
<1>5. x = i.da[15] /\ sp1 = Long(i.da[15] - 4)
  BY DEF x
<1>6. /\ Effect(S, i, p1, i.pc, i.ccr, {15}, Place(sp1, 4))
      /\ p1.da[15] = sp1
      /\ p1.run => Place(sp1, 4) \subseteq S
      /\ \A y \in S \cap Place(sp1, 4) : p1.ram[y] = ByteOf(pc, ADDRESS_68K(sp1) + 4 - 1 - y)
  BY <1>2, <1>3, <1>4, <1>5, PushIs
<1> HIDE DEF p1
<1>7. p1 \in MachinesWith(S)
  BY <1>6 DEF Effect
<1>8. Long(sp1 - 2) = sp
  BY <1>3, FrameIs
<1>9. /\ Effect(S, p1, p2, p1.pc, p1.ccr, {15}, Place(sp, 2))
      /\ p2.da[15] = sp
      /\ p2.run => Place(sp, 2) \subseteq S
      /\ \A y \in S \cap Place(sp, 2) : p2.ram[y] = ByteOf(sr, ADDRESS_68K(sp) + 2 - 1 - y)
  BY <1>3, <1>4, <1>6, <1>7, <1>8, PushIs
<1> HIDE DEF p2
<1>10. p2 \in MachinesWith(S)
  BY <1>9 DEF Effect
<1>11. /\ Effect(S, p2, rd.m, p2.pc, p2.ccr, {}, {})
       /\ rd.m.da = p2.da /\ rd.m.ram = p2.ram
       /\ rd.v \in Longs
       /\ rd.v = Value(p2, ADDRESS_68K(4 * v), 4)
  BY <1>4, <1>10, ReadIs
<1> HIDE DEF rd
<1>12. rd.m \in MachinesWith(S)
  BY <1>11 DEF Effect
<1>13. /\ Effect(S, rd.m, o, rd.v, rd.m.ccr, {}, {})
       /\ o.da = p2.da /\ o.ram = p2.ram /\ o.run = rd.m.run
  BY <1>11, <1>12, PcSet
<1> HIDE DEF o
<1>14. /\ o \in MachinesWith(S)
       /\ o.s = TRUE /\ o.t1 = FALSE /\ o.im = b.im /\ o.stopped = b.stopped
       /\ o.ppc = b.ppc /\ o.ccr = b.ccr /\ o.pc = rd.v
       /\ o.banked = IF b.s THEN b.banked ELSE b.da[15]
  BY <1>2, <1>6, <1>9, <1>11, <1>13 DEF Effect
<1>15. (o.run => p2.run) /\ (o.run => p1.run) /\ (o.run => b.run)
  BY <1>2, <1>6, <1>9, <1>11, <1>13 DEF Effect
<1>16. Place(sp1, 4) = Place(sp + 2, 4) /\ ADDRESS_68K(sp1) = ADDRESS_68K(sp + 2)
  BY <1>3, FrameIs
<1>17. \A k \in 0 .. 15 : k # 15 => o.da[k] = b.da[k]
  BY <1>2, <1>6, <1>9, <1>13 DEF Effect
<1>18. \A y \in S : y \in Place(sp, 2) \cup Place(sp + 2, 4) \/ o.ram[y] = b.ram[y]
  BY <1>2, <1>6, <1>9, <1>13, <1>16 DEF Effect
<1>19. o.da[15] = sp /\ sp = Long((IF b.s THEN b.da[15] ELSE b.banked) - 6)
  BY <1>2, <1>9, <1>13
<1>20. o.pc = Value(o, 4 * v, 4)
  <2>1. ADDRESS_68K(4 * v) = 4 * v
    BY Widths, SMT DEF ADDRESS_68K, Numbers
  <2>2. Value(o, 4 * v, 4) = Value(p2, 4 * v, 4)
    BY <1>13 DEF Value, Word, Byte
  <2> QED
    BY <1>11, <1>14, <2>1, <2>2
<1>21. sp \in Int /\ sp + 2 \in Int
  <2>1. x - 6 \in Int
    BY <1>3
  <2>2. sp \in Int
    BY <2>1, LongSum, LongsAre
  <2> QED
    BY <2>2
<1>22. Place(sp, 2) \cap Place(sp + 2, 4) = {}
  BY <1>21, FrameParts
<1>23. o.run => Value(o, ADDRESS_68K(sp), 2) = sr
  <2> HAVE o.run
  <2>1. Place(sp, 2) \subseteq S
    BY <1>9, <1>15
  <2>2. \A y \in Place(sp, 2) : o.ram[y] = ByteOf(sr, ADDRESS_68K(sp) + 2 - 1 - y)
    BY <1>9, <1>13, <2>1
  <2> HIDE DEF sp
  <2> QED
    BY <1>3, <1>4, <1>14, <1>21, <2>1, <2>2, ValueWritten
<1>24. o.run => Value(o, ADDRESS_68K(sp + 2), 4) = pc
  <2> HAVE o.run
  <2>1. Place(sp + 2, 4) \subseteq S
    BY <1>6, <1>15, <1>16
  <2>2. \A y \in Place(sp + 2, 4) : o.ram[y] = p1.ram[y]
    BY <1>9, <1>13, <1>22, <2>1 DEF Effect
  <2>3. \A y \in Place(sp + 2, 4) : o.ram[y] = ByteOf(pc, ADDRESS_68K(sp + 2) + 4 - 1 - y)
    BY <1>6, <1>16, <2>1, <2>2
  <2> DEFINE a == sp + 2
  <2> HIDE DEF sp
  <2>4. a \in Int /\ Place(a, 4) \subseteq S
        /\ \A y \in Place(a, 4) : o.ram[y] = ByteOf(pc, ADDRESS_68K(a) + 4 - 1 - y)
    BY <1>21, <2>1, <2>3
  <2> HIDE DEF a
  <2>5. Value(o, ADDRESS_68K(a), 4) = pc
    BY <1>3, <1>4, <1>14, <2>4, ValueWritten
  <2> QED
    BY <2>5 DEF a
<1> QED
  BY <1>1, <1>14, <1>15, <1>17, <1>18, <1>19, <1>20, <1>23, <1>24 DEF Taken, sr

-----------------------------------------------------------------------------
(* What the calculations come to: a number and condition codes.            *)

Right(o) == o.value \in Int /\ o.ccr \in Flags

(* Condition codes put together.                                           *)
LEMMA FlagsAre ==
  ASSUME NEW x \in BOOLEAN, NEW n \in BOOLEAN, NEW z \in BOOLEAN, NEW v \in BOOLEAN,
         NEW c \in BOOLEAN
  PROVE  [X |-> x, N |-> n, Z |-> z, V |-> v, C |-> c] \in Flags
  BY DEF Flags

(* Their parts.                                                            *)
LEMMA FlagsParts ==
  ASSUME NEW f \in Flags
  PROVE  /\ f.X \in BOOLEAN /\ f.N \in BOOLEAN /\ f.Z \in BOOLEAN /\ f.V \in BOOLEAN
         /\ f.C \in BOOLEAN /\ AsOne(f.X) \in Int
         /\ f = [X |-> f.X, N |-> f.N, Z |-> f.Z, V |-> f.V, C |-> f.C]
  BY DEF Flags, AsOne

(* The condition codes of a result.                                        *)
LEMMA TestedIs ==
  ASSUME NEW r \in Int, NEW f \in Flags, NEW n \in All
  PROVE  Tested(r, f, n) \in Flags /\ Tested(r, f, n).X = f.X
<1>1. Half(n) \in Int
  BY Widths DEF All, Numbers
<1>2. Negative(r, Half(n)) \in BOOLEAN /\ (r = 0) \in BOOLEAN /\ f.X \in BOOLEAN
  BY <1>1, FlagsParts DEF Negative
<1> QED
  BY <1>2, FlagsAre DEF Tested

(* The condition codes of sums and differences.                            *)
LEMMA SumFlags ==
  ASSUME NEW wide \in BOOLEAN, NEW s \in Int, NEW d \in Int, NEW r \in Int,
         NEW total \in Int, NEW h \in Int
  PROVE  /\ Carried(wide, s, d, r, total, h) \in BOOLEAN
         /\ Borrowed(wide, s, d, r, total, h) \in BOOLEAN
         /\ OverflowAdd(s, d, r, h) \in BOOLEAN /\ OverflowSub(s, d, r, h) \in BOOLEAN
         /\ Negative(r, h) \in BOOLEAN /\ (r = 0) \in BOOLEAN
<1>1. OverflowAdd(s, d, r, h) \in BOOLEAN /\ OverflowSub(s, d, r, h) \in BOOLEAN
  BY Zenon DEF OverflowAdd, OverflowSub
<1>2. CASE wide
  <2>1. /\ Carried(wide, s, d, r, total, h) \in BOOLEAN
        /\ Borrowed(wide, s, d, r, total, h) \in BOOLEAN
    BY <1>2, Zenon DEF Carried, Borrowed
  <2> QED
    BY <1>1, <2>1 DEF Negative
<1>3. CASE ~wide
  <2>1. /\ Carried(wide, s, d, r, total, h) \in BOOLEAN
        /\ Borrowed(wide, s, d, r, total, h) \in BOOLEAN
    BY <1>3 DEF Carried, Borrowed
  <2> QED
    BY <1>1, <2>1 DEF Negative
<1> QED
  BY <1>2, <1>3

(* The result of an addition or subtraction fits.                          *)
LEMMA SumIs ==
  ASSUME NEW wide \in BOOLEAN, NEW s \in Int, NEW d \in Int, NEW x \in Int, NEW n \in All
  PROVE  Right(Add(wide, s, d, x, Half(n))) /\ Right(Sub(wide, s, d, x, Half(n)))
<1> DEFINE h == Half(n)
           r == Wrap(s + d + x, h)
           q == Wrap(d - s - x, h)
<1>1. h \in Int
  BY Widths DEF All, Numbers
<1>2. r \in Int /\ q \in Int
  <2>1. n \in 1 .. 4 /\ s + d + x \in Int /\ d - s - x \in Int
    BY DEF All
  <2>2. r = Low(s + d + x, n) /\ q = Low(d - s - x, n)
    BY DEF Low
  <2>3. \A y \in Longs : y \in Int
    BY LongsAre
  <2> QED
    BY <2>1, <2>2, <2>3, LowIs
<1> HIDE DEF h, r, q
<1>3. s + d + x \in Int /\ d - s - x \in Int
  OBVIOUS
<1>4. Right(Add(wide, s, d, x, h))
  <2> DEFINE c == Carried(wide, s, d, r, s + d + x, h)
             v == OverflowAdd(s, d, r, h)
             m1 == Negative(r, h)
             z == r = 0
             f == [X |-> c, N |-> m1, Z |-> z, V |-> v, C |-> c]
  <2>1. f \in Flags
    <3>1. c \in BOOLEAN /\ v \in BOOLEAN /\ m1 \in BOOLEAN /\ z \in BOOLEAN
      BY <1>1, <1>2, <1>3, SumFlags
    <3> HIDE DEF c, v, m1, z
    <3> QED
      BY <3>1, FlagsAre
  <2>2. Add(wide, s, d, x, h) = [value |-> r, ccr |-> f]
    BY DEF Add, r
  <2> HIDE DEF f
  <2> QED
    BY <1>2, <2>1, <2>2 DEF Right
<1>5. Right(Sub(wide, s, d, x, h))
  <2> DEFINE c == Borrowed(wide, s, d, q, d - s - x, h)
             v == OverflowSub(s, d, q, h)
             m1 == Negative(q, h)
             z == q = 0
             f == [X |-> c, N |-> m1, Z |-> z, V |-> v, C |-> c]
  <2>1. f \in Flags
    <3>1. c \in BOOLEAN /\ v \in BOOLEAN /\ m1 \in BOOLEAN /\ z \in BOOLEAN
      BY <1>1, <1>2, <1>3, SumFlags
    <3> HIDE DEF c, v, m1, z
    <3> QED
      BY <3>1, FlagsAre
  <2>2. Sub(wide, s, d, x, h) = [value |-> q, ccr |-> f]
    BY DEF Sub, q
  <2> HIDE DEF f
  <2> QED
    BY <1>2, <2>1, <2>2 DEF Right
<1> QED
  BY <1>4, <1>5 DEF h

(* All that the adders of m68k_in.c leave fits.                            *)
LEMMA SumsAre ==
  ASSUME NEW s \in Int, NEW d \in Int, NEW f \in Flags, NEW n \in All
  PROVE  /\ Right(Plus(s, d, f, n)) /\ Right(PlusX(s, d, f, n))
         /\ Right(Minus(s, d, f, n)) /\ Right(MinusX(s, d, f, n))
         /\ Against(s, d, f, n) \in Flags /\ Against(s, d, f, n).X = f.X
         /\ Right(Neg(Wide(n), d, Half(n))) /\ Right(NegX(Wide(n), d, f, Half(n)))
<1> DEFINE w == Wide(n)
           h == Half(n)
           x == AsOne(f.X)
<1>1. w \in BOOLEAN /\ x \in Int /\ 0 \in Int
  BY FlagsParts DEF Wide
<1>2. h \in Int
  BY Widths DEF All, Numbers
<1>3. /\ Right(Add(w, s, d, 0, h)) /\ Right(Add(w, s, d, x, h))
      /\ Right(Sub(w, s, d, 0, h)) /\ Right(Sub(w, s, d, x, h))
      /\ Right(Sub(w, d, 0, 0, h)) /\ Right(Sub(w, d, 0, x, h))
  BY <1>1, SumIs
<1>4. Right(Plus(s, d, f, n)) /\ Right(Minus(s, d, f, n))
  BY <1>3 DEF Plus, Minus
<1> HIDE DEF w, h, x
<1>5. \A o : Right(o) => Right([o EXCEPT !.ccr.Z = @ /\ f.Z])
  BY FlagsParts DEF Right, Flags
<1>6. \A o, v : Right(o) /\ v \in BOOLEAN => Right([o EXCEPT !.ccr.V = v])
  BY DEF Right, Flags
<1>7. Right(PlusX(s, d, f, n)) /\ Right(MinusX(s, d, f, n))
  BY <1>3, <1>5 DEF PlusX, MinusX, AddX, SubX, w, h, x
<1>8. Against(s, d, f, n) \in Flags /\ Against(s, d, f, n).X = f.X
  <2>1. Sub(w, s, d, 0, h).ccr \in Flags /\ f.X \in BOOLEAN
    BY <1>3, FlagsParts DEF Right
  <2> DEFINE g == Sub(w, s, d, 0, h).ccr
  <2>2. Against(s, d, f, n) = [g EXCEPT !.X = f.X]
    BY DEF Against, Cmp, w, h
  <2> HIDE DEF g
  <2> QED
    BY <2>1, <2>2 DEF Flags, g
<1>9. Right(Neg(w, d, h))
  <2> DEFINE o == Sub(w, d, 0, 0, h)
  <2>1. Right(o) /\ Neg(w, d, h) = [o EXCEPT !.ccr.V = Negative(d, h) /\ Negative(o.value, h)]
    BY <1>3 DEF Neg
  <2> DEFINE v == Negative(d, h) /\ Negative(o.value, h)
  <2>2. v \in BOOLEAN
    BY Zenon
  <2>3. Neg(w, d, h) = [o EXCEPT !.ccr.V = v]
    BY <2>1
  <2> HIDE DEF o, v
  <2> QED
    BY <1>6, <2>1, <2>2, <2>3
<1>10. Right(NegX(w, d, f, h))
  <2> DEFINE o == SubX(w, d, 0, f, h)
  <2>1. Right(o)
    BY <1>3, <1>5 DEF SubX, x
  <2>2. NegX(w, d, f, h) = [o EXCEPT !.ccr.V = Negative(d, h) /\ Negative(o.value, h)]
    BY DEF NegX
  <2> DEFINE v == Negative(d, h) /\ Negative(o.value, h)
  <2>3. v \in BOOLEAN
    BY Zenon
  <2>4. NegX(w, d, f, h) = [o EXCEPT !.ccr.V = v]
    BY <2>2
  <2> HIDE DEF o, v
  <2> QED
    BY <1>6, <2>1, <2>3, <2>4
<1> QED
  BY <1>4, <1>7, <1>8, <1>9, <1>10 DEF w, h

-----------------------------------------------------------------------------
(* Bit by bit: two bytes make a byte.                                      *)

(* The & of two bytes is a byte.                                           *)
LEMMA AndByte ==
  ASSUME NEW x \in Bytes, NEW y \in Bytes
  PROVE  OfBytes(LAMBDA p, q : p /\ q, x, y) \in Bytes
<1> DEFINE P(k) == Bit(x, k) /\ Bit(y, k)
           a(k) == AsOne(P(k))
           o == OfBytes(LAMBDA p, q : p /\ q, x, y)
<1>1. o = a(0) + 2 * a(1) + 4 * a(2) + 8 * a(3)
          + 16 * a(4) + 32 * a(5) + 64 * a(6) + 128 * a(7)
  BY Zenon DEF OfBytes
<1>2. \A k : a(k) \in {0, 1}
  BY DEF AsOne
<1>3. x \in Int /\ 0 <= x /\ y \in Int /\ 0 <= y
  BY Widths, SMT DEF Numbers, Bytes
<1>4. /\ x < 64 /\ y < 64 => a(6) = 0 /\ a(7) = 0
      /\ x < 128 /\ y < 128 => a(7) = 0
  <2>1. /\ x < 64 => ~Bit(x, 6) /\ ~Bit(x, 7)
        /\ y < 64 => ~Bit(y, 6) /\ ~Bit(y, 7)
        /\ x < 128 => ~Bit(x, 7)
        /\ y < 128 => ~Bit(y, 7)
    BY <1>3, SMT DEF Bit
  <2>2. /\ x < 64 /\ y < 64 => ~P(6) /\ ~P(7)
        /\ x < 128 /\ y < 128 => ~P(7)
    BY <2>1, Zenon
  <2>3. \A k : ~P(k) => a(k) = 0
    BY Zenon DEF AsOne
  <2> QED
    BY <2>2, <2>3, Zenon
<1> HIDE DEF a, P, o
<1>5. Numbers(64, 4096, 262144, 16777216) => o \in Bytes
  BY <1>1, <1>2, <1>4, SMT DEF Numbers, Bytes
<1>6. Numbers(128, 16384, 2097152, 268435456) => o \in Bytes
  BY <1>1, <1>2, <1>4, SMT DEF Numbers, Bytes
<1>7. Numbers(256, 65536, 16777216, 4294967296) => o \in Bytes
  BY <1>1, <1>2, <1>4, SMT DEF Numbers, Bytes
<1>8. o \in Bytes
  BY <1>5, <1>6, <1>7, Widths, SMT
<1> QED
  BY <1>8 DEF o

(* The same of |.                                                          *)
LEMMA OrByte ==
  ASSUME NEW x \in Bytes, NEW y \in Bytes
  PROVE  OfBytes(LAMBDA p, q : p \/ q, x, y) \in Bytes
<1> DEFINE P(k) == Bit(x, k) \/ Bit(y, k)
           a(k) == AsOne(P(k))
           o == OfBytes(LAMBDA p, q : p \/ q, x, y)
<1>1. o = a(0) + 2 * a(1) + 4 * a(2) + 8 * a(3)
          + 16 * a(4) + 32 * a(5) + 64 * a(6) + 128 * a(7)
  BY Zenon DEF OfBytes
<1>2. \A k : a(k) \in {0, 1}
  BY DEF AsOne
<1>3. x \in Int /\ 0 <= x /\ y \in Int /\ 0 <= y
  BY Widths, SMT DEF Numbers, Bytes
<1>4. /\ x < 64 /\ y < 64 => a(6) = 0 /\ a(7) = 0
      /\ x < 128 /\ y < 128 => a(7) = 0
  <2>1. /\ x < 64 => ~Bit(x, 6) /\ ~Bit(x, 7)
        /\ y < 64 => ~Bit(y, 6) /\ ~Bit(y, 7)
        /\ x < 128 => ~Bit(x, 7)
        /\ y < 128 => ~Bit(y, 7)
    BY <1>3, SMT DEF Bit
  <2>2. /\ x < 64 /\ y < 64 => ~P(6) /\ ~P(7)
        /\ x < 128 /\ y < 128 => ~P(7)
    BY <2>1, Zenon
  <2>3. \A k : ~P(k) => a(k) = 0
    BY Zenon DEF AsOne
  <2> QED
    BY <2>2, <2>3, Zenon
<1> HIDE DEF a, P, o
<1>5. Numbers(64, 4096, 262144, 16777216) => o \in Bytes
  BY <1>1, <1>2, <1>4, SMT DEF Numbers, Bytes
<1>6. Numbers(128, 16384, 2097152, 268435456) => o \in Bytes
  BY <1>1, <1>2, <1>4, SMT DEF Numbers, Bytes
<1>7. Numbers(256, 65536, 16777216, 4294967296) => o \in Bytes
  BY <1>1, <1>2, <1>4, SMT DEF Numbers, Bytes
<1>8. o \in Bytes
  BY <1>5, <1>6, <1>7, Widths, SMT
<1> QED
  BY <1>8 DEF o

(* And of ^.                                                               *)
LEMMA XorByte ==
  ASSUME NEW x \in Bytes, NEW y \in Bytes
  PROVE  OfBytes(LAMBDA p, q : p # q, x, y) \in Bytes
<1> DEFINE P(k) == Bit(x, k) # Bit(y, k)
           a(k) == AsOne(P(k))
           o == OfBytes(LAMBDA p, q : p # q, x, y)
<1>1. o = a(0) + 2 * a(1) + 4 * a(2) + 8 * a(3)
          + 16 * a(4) + 32 * a(5) + 64 * a(6) + 128 * a(7)
  BY Zenon DEF OfBytes
<1>2. \A k : a(k) \in {0, 1}
  BY DEF AsOne
<1>3. x \in Int /\ 0 <= x /\ y \in Int /\ 0 <= y
  BY Widths, SMT DEF Numbers, Bytes
<1>4. /\ x < 64 /\ y < 64 => a(6) = 0 /\ a(7) = 0
      /\ x < 128 /\ y < 128 => a(7) = 0
  <2>1. /\ x < 64 => ~Bit(x, 6) /\ ~Bit(x, 7)
        /\ y < 64 => ~Bit(y, 6) /\ ~Bit(y, 7)
        /\ x < 128 => ~Bit(x, 7)
        /\ y < 128 => ~Bit(y, 7)
    BY <1>3, SMT DEF Bit
  <2>2. \A z, k : Bit(z, k) \in BOOLEAN
    BY DEF Bit
  <2>3. \A p, q \in BOOLEAN : ~p /\ ~q => ~(p # q)
    OBVIOUS
  <2>4. /\ x < 64 /\ y < 64 => ~P(6) /\ ~P(7)
        /\ x < 128 /\ y < 128 => ~P(7)
    BY <2>1, <2>2, <2>3, Zenon
  <2>5. \A k : ~P(k) => a(k) = 0
    BY Zenon DEF AsOne
  <2> QED
    BY <2>4, <2>5, Zenon
<1> HIDE DEF a, P, o
<1>5. Numbers(64, 4096, 262144, 16777216) => o \in Bytes
  BY <1>1, <1>2, <1>4, SMT DEF Numbers, Bytes
<1>6. Numbers(128, 16384, 2097152, 268435456) => o \in Bytes
  BY <1>1, <1>2, <1>4, SMT DEF Numbers, Bytes
<1>7. Numbers(256, 65536, 16777216, 4294967296) => o \in Bytes
  BY <1>1, <1>2, <1>4, SMT DEF Numbers, Bytes
<1>8. o \in Bytes
  BY <1>5, <1>6, <1>7, Widths, SMT
<1> QED
  BY <1>8 DEF o

(* and four bytes a value of as many bytes as there were.                  *)
LEMMA FourOf ==
  ASSUME NEW n \in All, NEW a \in Bytes, NEW b \in Bytes, NEW c \in Bytes, NEW d \in Bytes,
         n = 1 => b = 0 /\ c = 0 /\ d = 0, n = 2 => c = 0 /\ d = 0
  PROVE  a + b * 2^Bits(1) + c * 2^Bits(2) + d * 2^Bits(3) \in Values(Half(n))
<1> DEFINE t == a + b * 2^Bits(1) + c * 2^Bits(2) + d * 2^Bits(3)
<1>1. n = 1 \/ n = 2 \/ n = 4
  BY DEF All
<1>2. Numbers(64, 4096, 262144, 16777216) /\ 2^Bits(3) = 262144 => t \in Values(Half(n))
  BY <1>1, SMT DEF Numbers, Bytes
<1>3. Numbers(128, 16384, 2097152, 268435456) /\ 2^Bits(3) = 2097152 => t \in Values(Half(n))
  BY <1>1, SMT DEF Numbers, Bytes
<1>4. Numbers(256, 65536, 16777216, 4294967296) /\ 2^Bits(3) = 16777216 => t \in Values(Half(n))
  BY <1>1, SMT DEF Numbers, Bytes
<1>5. \/ Numbers(64, 4096, 262144, 16777216) /\ 2^Bits(3) = 262144
      \/ Numbers(128, 16384, 2097152, 268435456) /\ 2^Bits(3) = 2097152
      \/ Numbers(256, 65536, 16777216, 4294967296) /\ 2^Bits(3) = 16777216
  <2>1. CASE ByteBits = 6
    <3>1. 2^Bits(1) = 64 /\ 2^Bits(3) = 262144
      BY <2>1, SMT DEF Bits
    <3> QED
      BY <3>1, Widths, SMT DEF Numbers
  <2>2. CASE ByteBits = 7
    <3>1. 2^Bits(1) = 128 /\ 2^Bits(3) = 2097152
      BY <2>2, SMT DEF Bits
    <3> QED
      BY <3>1, Widths, SMT DEF Numbers
  <2>3. CASE ByteBits = 8
    <3>1. 2^Bits(1) = 256 /\ 2^Bits(3) = 16777216
      BY <2>3, SMT DEF Bits
    <3> QED
      BY <3>1, Widths, SMT DEF Numbers
  <2> QED
    BY <2>1, <2>2, <2>3, MachineAssumption
<1> QED
  BY <1>2, <1>3, <1>4, <1>5

(* The upper bytes of a small value are zero.                              *)
LEMMA UpperBytes ==
  ASSUME NEW n \in All, NEW x \in Values(Half(n))
  PROVE  /\ x \in Int
         /\ ByteOf(x, 0) \in Bytes /\ ByteOf(x, 1) \in Bytes
         /\ ByteOf(x, 2) \in Bytes /\ ByteOf(x, 3) \in Bytes
         /\ n = 1 => ByteOf(x, 1) = 0 /\ ByteOf(x, 2) = 0 /\ ByteOf(x, 3) = 0
         /\ n = 2 => ByteOf(x, 2) = 0 /\ ByteOf(x, 3) = 0
<1>1. n = 1 \/ n = 2 \/ n = 4
  BY DEF All
<1>2. x \in Int
  BY <1>1, Widths, SMT DEF Numbers
<1>3. /\ n = 1 => ByteOf(x, 1) = 0 /\ ByteOf(x, 2) = 0 /\ ByteOf(x, 3) = 0
      /\ n = 2 => ByteOf(x, 2) = 0 /\ ByteOf(x, 3) = 0
  <2>1. CASE Numbers(64, 4096, 262144, 16777216)
    BY <1>2, <2>1, SMT DEF Numbers
  <2>2. CASE Numbers(128, 16384, 2097152, 268435456)
    BY <1>2, <2>2, SMT DEF Numbers
  <2>3. CASE Numbers(256, 65536, 16777216, 4294967296)
    BY <1>2, <2>3, SMT DEF Numbers
  <2> QED
    BY <2>1, <2>2, <2>3, Widths, SMT
<1>4. 0 \in 0 .. 3 /\ 1 \in 0 .. 3 /\ 2 \in 0 .. 3 /\ 3 \in 0 .. 3
  OBVIOUS
<1> QED
  BY <1>2, <1>3, <1>4, ByteOfIs

(* The & of two values fits their size.                                    *)
LEMMA AndIs ==
  ASSUME NEW n \in All, NEW x \in Values(Half(n)), NEW y \in Values(Half(n))
  PROVE  And(x, y) \in Values(Half(n))
<1> DEFINE o(u, v) == OfBytes(LAMBDA p, q : p /\ q, u, v)
           a(k) == o(ByteOf(x, k), ByteOf(y, k))
<1>1. And(x, y) = a(0) + a(1) * 2^Bits(1) + a(2) * 2^Bits(2) + a(3) * 2^Bits(3)
  BY Zenon DEF And, OfBits
<1>2. \A u, v \in Bytes : o(u, v) \in Bytes
  BY AndByte, Zenon
<1>3. o(0, 0) = 0
  <2>1. /\ ~Bit(0, 0) /\ ~Bit(0, 1) /\ ~Bit(0, 2) /\ ~Bit(0, 3)
        /\ ~Bit(0, 4) /\ ~Bit(0, 5) /\ ~Bit(0, 6) /\ ~Bit(0, 7)
    BY SMT DEF Bit
  <2>2. AsOne(FALSE /\ FALSE) = 0
    BY DEF AsOne
  <2> QED
    BY <2>1 DEF OfBytes, AsOne
<1> HIDE DEF o
<1>4. /\ a(0) \in Bytes /\ a(1) \in Bytes /\ a(2) \in Bytes /\ a(3) \in Bytes
      /\ n = 1 => a(1) = 0 /\ a(2) = 0 /\ a(3) = 0
      /\ n = 2 => a(2) = 0 /\ a(3) = 0
  BY <1>2, <1>3, UpperBytes
<1> HIDE DEF a
<1> QED
  BY <1>1, <1>4, FourOf

(* The same of |.                                                          *)
LEMMA OrIs ==
  ASSUME NEW n \in All, NEW x \in Values(Half(n)), NEW y \in Values(Half(n))
  PROVE  Or(x, y) \in Values(Half(n))
<1> DEFINE o(u, v) == OfBytes(LAMBDA p, q : p \/ q, u, v)
           a(k) == o(ByteOf(x, k), ByteOf(y, k))
<1>1. Or(x, y) = a(0) + a(1) * 2^Bits(1) + a(2) * 2^Bits(2) + a(3) * 2^Bits(3)
  BY Zenon DEF Or, OfBits
<1>2. \A u, v \in Bytes : o(u, v) \in Bytes
  BY OrByte, Zenon
<1>3. o(0, 0) = 0
  <2>1. /\ ~Bit(0, 0) /\ ~Bit(0, 1) /\ ~Bit(0, 2) /\ ~Bit(0, 3)
        /\ ~Bit(0, 4) /\ ~Bit(0, 5) /\ ~Bit(0, 6) /\ ~Bit(0, 7)
    BY SMT DEF Bit
  <2>2. AsOne(FALSE \/ FALSE) = 0
    BY DEF AsOne
  <2> QED
    BY <2>1 DEF OfBytes, AsOne
<1> HIDE DEF o
<1>4. /\ a(0) \in Bytes /\ a(1) \in Bytes /\ a(2) \in Bytes /\ a(3) \in Bytes
      /\ n = 1 => a(1) = 0 /\ a(2) = 0 /\ a(3) = 0
      /\ n = 2 => a(2) = 0 /\ a(3) = 0
  BY <1>2, <1>3, UpperBytes
<1> HIDE DEF a
<1> QED
  BY <1>1, <1>4, FourOf

(* And of ^.                                                               *)
LEMMA XorIs ==
  ASSUME NEW n \in All, NEW x \in Values(Half(n)), NEW y \in Values(Half(n))
  PROVE  Xor(x, y) \in Values(Half(n))
<1> DEFINE o(u, v) == OfBytes(LAMBDA p, q : p # q, u, v)
           a(k) == o(ByteOf(x, k), ByteOf(y, k))
<1>1. Xor(x, y) = a(0) + a(1) * 2^Bits(1) + a(2) * 2^Bits(2) + a(3) * 2^Bits(3)
  BY Zenon DEF Xor, OfBits
<1>2. \A u, v \in Bytes : o(u, v) \in Bytes
  BY XorByte, Zenon
<1>3. o(0, 0) = 0
  <2>1. /\ ~Bit(0, 0) /\ ~Bit(0, 1) /\ ~Bit(0, 2) /\ ~Bit(0, 3)
        /\ ~Bit(0, 4) /\ ~Bit(0, 5) /\ ~Bit(0, 6) /\ ~Bit(0, 7)
    BY SMT DEF Bit
  <2>2. AsOne(FALSE # FALSE) = 0
    BY DEF AsOne
  <2> QED
    BY <2>1 DEF OfBytes, AsOne
<1> HIDE DEF o
<1>4. /\ a(0) \in Bytes /\ a(1) \in Bytes /\ a(2) \in Bytes /\ a(3) \in Bytes
      /\ n = 1 => a(1) = 0 /\ a(2) = 0 /\ a(3) = 0
      /\ n = 2 => a(2) = 0 /\ a(3) = 0
  BY <1>2, <1>3, UpperBytes
<1> HIDE DEF a
<1> QED
  BY <1>1, <1>4, FourOf

(* What the logical instructions compute fits.                             *)
LEMMA BitwiseAre ==
  ASSUME NEW n \in All, NEW s \in Values(Half(n)), NEW d \in Values(Half(n)), NEW f \in Flags
  PROVE  /\ Right(With(s, d, f, n)) /\ Right(Either(s, d, f, n)) /\ Right(Differ(s, d, f, n))
         /\ With(s, d, f, n).value \in Values(Half(n))
         /\ Either(s, d, f, n).value \in Values(Half(n))
         /\ Differ(s, d, f, n).value \in Values(Half(n))
<1> DEFINE a == And(s, d)
           o == Or(s, d)
           x == Xor(s, d)
<1>1. /\ a \in Values(Half(n)) /\ o \in Values(Half(n)) /\ x \in Values(Half(n))
  BY AndIs, OrIs, XorIs
<1>2. a \in Int /\ o \in Int /\ x \in Int
  BY <1>1, UpperBytes
<1> HIDE DEF a, o, x
<1>3. Tested(a, f, n) \in Flags /\ Tested(o, f, n) \in Flags /\ Tested(x, f, n) \in Flags
  BY <1>2, TestedIs
<1> QED
  BY <1>1, <1>2, <1>3 DEF Right, With, Either, Differ, a, o, x

-----------------------------------------------------------------------------
(* Decimal digits, products and quotients.                                 *)

(* Quotient and remainder are integers.                                    *)
LEMMA DivMod ==
  ASSUME NEW k \in Nat \ {0}, NEW x \in Int
  PROVE  /\ x \div k \in Int /\ x % k \in 0 .. k - 1 /\ x % k \in Int
  OBVIOUS

(* Two decimal digits make up a byte.                                      *)
LEMMA NibblesAre ==
  /\ Nibble \in Nat \ {0} /\ Ten \in Nat \ {0} /\ Nibble * Nibble \in Nat \ {0}
  /\ \A x \in Int : LOW_NIBBLE(x) \in Int /\ HIGH_NIBBLE(x) \in Int
  /\ \A x \in Int : Adjustment(x) \in Int /\ Top(x) \in BOOLEAN
<1>1. Nibble \in Nat \ {0} /\ Ten \in Nat \ {0}
  BY DecimalAssumption
<1>2. Nibble * Nibble \in Nat \ {0}
  <2>1. \A x \in Nat \ {0} : x * x \in Nat \ {0}
    OBVIOUS
  <2> QED
    BY <1>1, <2>1
<1>3. ASSUME NEW x \in Int
      PROVE  LOW_NIBBLE(x) \in Int /\ HIGH_NIBBLE(x) \in Int
  <2>1. x % Nibble \in Int /\ x \div Nibble \in Int
    BY <1>1, DivMod
  <2>2. (x \div Nibble) % Nibble \in Int
    BY <1>1, <2>1, DivMod
  <2> QED
    BY <1>1, <2>1, <2>2 DEF LOW_NIBBLE, HIGH_NIBBLE
<1>4. \A x \in Int : Adjustment(x) \in Int /\ Top(x) \in BOOLEAN
  BY <1>1 DEF Adjustment, Top
<1> QED
  BY <1>1, <1>2, <1>3, <1>4

(* What the decimal instructions compute fits.                             *)
LEMMA DecimalsAre ==
  ASSUME NEW s \in Int, NEW d \in Int, NEW f \in Flags
  PROVE  Right(abcd(s, d, f)) /\ Right(sbcd(s, d, f)) /\ Right(nbcd(d, f))
<1> DEFINE nn == Nibble * Nibble
           x == AsOne(f.X)
<1>1. /\ nn \in Nat \ {0} /\ Nibble \in Int /\ Ten \in Int /\ x \in Int
      /\ Highest \in Int /\ Ten * Nibble \in Int
  BY NibblesAre, FlagsParts DEF Highest
<1>2. /\ LOW_NIBBLE(s) \in Int /\ HIGH_NIBBLE(s) \in Int
      /\ LOW_NIBBLE(d) \in Int /\ HIGH_NIBBLE(d) \in Int
  BY NibblesAre
<1> HIDE DEF nn, x
<1>3. \A y \in Int : y % nn \in Int /\ Top(y) \in BOOLEAN /\ Adjustment(y) \in Int
  BY <1>1, DivMod, NibblesAre
<1>4. ASSUME NEW r \in Int, NEW c \in BOOLEAN, NEW g \in Int, NEW o,
             o = [value |-> r % nn,
                  ccr |-> [X |-> c, N |-> Top(r), V |-> ~Top(g) /\ Top(r), C |-> c,
                           Z |-> f.Z /\ r % nn = 0]]
      PROVE  Right(o)
  <2> DEFINE v == ~Top(g) /\ Top(r)
             z == f.Z /\ r % nn = 0
             m1 == Top(r)
  <2>1. v \in BOOLEAN /\ z \in BOOLEAN /\ m1 \in BOOLEAN /\ r % nn \in Int
    BY <1>3
  <2>2. o = [value |-> r % nn, ccr |-> [X |-> c, N |-> m1, V |-> v, C |-> c, Z |-> z]]
    BY <1>4
  <2> HIDE DEF v, z, m1
  <2> QED
    BY <2>1, <2>2 DEF Right, Flags
<1>5. Right(abcd(s, d, f))
  <2> DEFINE digits == LOW_NIBBLE(s) + LOW_NIBBLE(d) + x
             sum == digits + Adjustment(digits) + HIGH_NIBBLE(s) + HIGH_NIBBLE(d)
             c == sum > Highest
             r == IF c THEN sum - Ten * Nibble ELSE sum
  <2>1. digits \in Int
    BY <1>1, <1>2
  <2>2. sum \in Int
    <3>1. Adjustment(digits) \in Int
      BY <1>3, <2>1
    <3> HIDE DEF digits
    <3> QED
      BY <1>2, <2>1, <3>1
  <2>3. abcd(s, d, f)
          = [value |-> r % nn,
             ccr |-> [X |-> c, N |-> Top(r), V |-> ~Top(digits) /\ Top(r), C |-> c,
                      Z |-> f.Z /\ r % nn = 0]]
    BY DEF abcd, nn, x
  <2> HIDE DEF digits, sum
  <2>4. c \in BOOLEAN /\ r \in Int
    BY <1>1, <2>2
  <2> HIDE DEF c, r
  <2> QED
    BY <1>4, <2>1, <2>3, <2>4
<1>6. Right(sbcd(s, d, f))
  <2> DEFINE digits == LOW_NIBBLE(d) - LOW_NIBBLE(s) - x
             rest == digits - Adjustment(digits) + HIGH_NIBBLE(d) - HIGH_NIBBLE(s)
             c == rest > Highest \/ rest < 0
             r == IF c THEN rest + Ten * Nibble ELSE rest
  <2>1. digits \in Int
    BY <1>1, <1>2
  <2>2. rest \in Int
    <3>1. Adjustment(digits) \in Int
      BY <1>3, <2>1
    <3> HIDE DEF digits
    <3> QED
      BY <1>2, <2>1, <3>1
  <2>3. sbcd(s, d, f)
          = [value |-> r % nn,
             ccr |-> [X |-> c, N |-> Top(r), V |-> ~Top(digits) /\ Top(r), C |-> c,
                      Z |-> f.Z /\ r % nn = 0]]
    BY DEF sbcd, nn, x
  <2> HIDE DEF digits, rest
  <2>4. c \in BOOLEAN /\ r \in Int
    BY <1>1, <2>2
  <2> HIDE DEF c, r
  <2> QED
    BY <1>4, <2>1, <2>3, <2>4
<1>7. Right(nbcd(d, f))
  <2> DEFINE full == Highest + 1
             first == (full - d - x) % nn
             r == IF LOW_NIBBLE(first) = Ten THEN (HIGH_NIBBLE(first) + Nibble) % nn ELSE first
             g == [f EXCEPT !.X = FALSE, !.C = FALSE, !.V = FALSE, !.N = Top(first)]
             v == ~Top(first) /\ Top(r)
             z == f.Z /\ r = 0
             h == [X |-> TRUE, N |-> Top(r), V |-> v, C |-> TRUE, Z |-> z]
  <2>1. first \in Int
    <3>1. full - d - x \in Int
      BY <1>1
    <3> QED
      BY <1>3, <3>1
  <2>2. nbcd(d, f) = IF first = full THEN [value |-> d, ccr |-> g] ELSE [value |-> r, ccr |-> h]
    BY DEF nbcd, nn, x
  <2> HIDE DEF first
  <2>3. r \in Int
    <3>1. HIGH_NIBBLE(first) + Nibble \in Int
      BY <1>1, <2>1, NibblesAre
    <3> QED
      BY <1>3, <2>1, <3>1
  <2> HIDE DEF r
  <2>4. v \in BOOLEAN /\ z \in BOOLEAN /\ Top(r) \in BOOLEAN /\ Top(first) \in BOOLEAN
    BY <1>3, <2>1, <2>3, FlagsParts
  <2> HIDE DEF v, z
  <2>5. g \in Flags /\ h \in Flags
    BY <2>4 DEF Flags
  <2> HIDE DEF g, h, full
  <2> QED
    BY <2>2, <2>3, <2>5 DEF Right
<1> QED
  BY <1>5, <1>6, <1>7

(* Half the range of each size, in numbers.                                *)
LEMMA Halfs ==
  \/ Numbers(64, 4096, 262144, 16777216) /\ Half(2) = 2048 /\ Half(4) = 8388608
  \/ Numbers(128, 16384, 2097152, 268435456) /\ Half(2) = 8192 /\ Half(4) = 134217728
  \/ Numbers(256, 65536, 16777216, 4294967296) /\ Half(2) = 32768 /\ Half(4) = 2147483648
<1>1. CASE ByteBits = 6
  <2>1. Half(2) = 2048 /\ Half(4) = 8388608 /\ 2^Bits(1) = 64
    BY <1>1, SMT DEF Bits, Half
  <2> QED
    BY <2>1, Widths, SMT DEF Numbers
<1>2. CASE ByteBits = 7
  <2>1. Half(2) = 8192 /\ Half(4) = 134217728 /\ 2^Bits(1) = 128
    BY <1>2, SMT DEF Bits, Half
  <2> QED
    BY <2>1, Widths, SMT DEF Numbers
<1>3. CASE ByteBits = 8
  <2>1. Half(2) = 32768 /\ Half(4) = 2147483648 /\ 2^Bits(1) = 256
    BY <1>3, SMT DEF Bits, Half
  <2> QED
    BY <2>1, Widths, SMT DEF Numbers
<1> QED
  BY <1>1, <1>2, <1>3, MachineAssumption, SMT

(* Words as numbers, with and without a sign.                              *)
LEMMA WordsAre ==
  ASSUME NEW s \in Values(Half(2))
  PROVE  /\ s \in Int /\ 0 <= s /\ Signed(s, Half(2)) \in Int
         /\ s # 0 => Signed(s, Half(2)) # 0
         /\ Half(2) \in Int /\ Half(4) \in Int /\ LongHalf(Half(2)) = Half(4)
<1>1. s \in Int /\ 0 <= s /\ s < 2 * Half(2) /\ Half(2) \in Int /\ Half(4) \in Int
  BY Halfs, SMT DEF Numbers
<1>2. LongHalf(Half(2)) = Half(4)
  BY Halfs, SMT DEF LongHalf
<1> QED
  BY <1>1, <1>2 DEF Signed

(* A product fits a long.                                                  *)
LEMMA ProductFits ==
  ASSUME NEW s \in Values(Half(2)), NEW d \in Values(Half(2))
  PROVE  s * d \in Longs
<1>1. \A a, b, c \in Nat : a <= c /\ b <= c => a * b \in Nat /\ a * b <= c * c
  <2> TAKE a, b, c \in Nat
  <2> HAVE a <= c /\ b <= c
  <2>1. c - a \in Nat /\ c - b \in Nat
    OBVIOUS
  <2>2. \A x, y \in Nat : x * y \in Nat
    OBVIOUS
  <2>3. (c - a) * b \in Nat /\ c * (c - b) \in Nat /\ a * b \in Nat
    BY <2>1, <2>2
  <2>4. (c - a) * b = c * b - a * b /\ c * (c - b) = c * c - c * b
    OBVIOUS
  <2>5. c * b \in Nat /\ c * c \in Nat
    BY <2>2
  <2> QED
    BY <2>3, <2>4, <2>5
<1>2. CASE Numbers(64, 4096, 262144, 16777216)
  <2>1. s \in Nat /\ d \in Nat /\ s <= 4095 /\ d <= 4095
    BY <1>2, SMT DEF Numbers
  <2>2. \A c \in Nat : s <= c /\ d <= c => s * d \in Nat /\ s * d <= c * c
    BY <1>1, <2>1, SMT
  <2>3. s * d \in Nat /\ s * d <= 4095 * 4095
    BY <2>1, <2>2, SMT
  <2> DEFINE p == s * d
  <2> HIDE DEF p
  <2>4. p \in Nat /\ p < 16777216
    BY <2>3, SMT DEF p
  <2>5. p \in Longs
    BY <1>2, <2>4, SMT DEF Numbers, Longs
  <2> QED
    BY <2>5 DEF p
<1>3. CASE Numbers(128, 16384, 2097152, 268435456)
  <2>1. s \in Nat /\ d \in Nat /\ s <= 16383 /\ d <= 16383
    BY <1>3, SMT DEF Numbers
  <2>2. \A c \in Nat : s <= c /\ d <= c => s * d \in Nat /\ s * d <= c * c
    BY <1>1, <2>1, SMT
  <2>3. s * d \in Nat /\ s * d <= 16383 * 16383
    BY <2>1, <2>2, SMT
  <2> DEFINE p == s * d
  <2> HIDE DEF p
  <2>4. p \in Nat /\ p < 268435456
    BY <2>3, SMT DEF p
  <2>5. p \in Longs
    BY <1>3, <2>4, SMT DEF Numbers, Longs
  <2> QED
    BY <2>5 DEF p
<1>4. CASE Numbers(256, 65536, 16777216, 4294967296)
  <2>1. s \in Nat /\ d \in Nat /\ s <= 65535 /\ d <= 65535
    BY <1>4, SMT DEF Numbers
  <2>2. \A c \in Nat : s <= c /\ d <= c => s * d \in Nat /\ s * d <= c * c
    BY <1>1, <2>1, SMT
  <2>3. s * d \in Nat /\ s * d <= 65535 * 65535
    BY <2>1, <2>2, SMT
  <2> DEFINE p == s * d
  <2> HIDE DEF p
  <2>4. p \in Nat /\ p < 4294967296
    BY <2>3, SMT DEF p
  <2>5. p \in Longs
    BY <1>4, <2>4, SMT DEF Numbers, Longs
  <2> QED
    BY <2>5 DEF p
<1> QED
  BY <1>2, <1>3, <1>4, Widths, SMT

(* What MULU and MULS compute fits.                                        *)
LEMMA MultipliesAre ==
  ASSUME NEW s \in Values(Half(2)), NEW d \in Values(Half(2)), NEW f \in Flags, NEW o,
         o = mulu(s, d, f, Half(2)) \/ o = muls(s, d, f, Half(2))
  PROVE  /\ o.value \in Longs /\ o.ccr \in Flags
         /\ o.ccr = Tested(o.value, f, 4)
<1>1. LongHalf(Half(2)) = Half(4)
  BY WordsAre
<1>2. ASSUME NEW r \in Longs
      PROVE  LET p == Product(r, f, Half(2))
             IN  p.value = r /\ p.ccr \in Flags /\ p.ccr = Tested(r, f, 4)
  <2>1. Tested(r, f, 4) \in Flags
    BY LongsAre, TestedIs DEF All
  <2>2. Product(r, f, Half(2)) = [value |-> r, ccr |-> Tested(r, f, 4)]
    BY <1>1 DEF Product, Tested
  <2> QED
    BY <2>1, <2>2
<1>3. s * d \in Longs
  BY ProductFits
<1>4. Wrap(Signed(s, Half(2)) * Signed(d, Half(2)), LongHalf(Half(2))) \in Longs
  <2> DEFINE x == Signed(s, Half(2)) * Signed(d, Half(2))
  <2>1. x \in Int
    BY WordsAre
  <2>2. Wrap(x, LongHalf(Half(2))) = Long(x)
    BY <1>1 DEF Long, Low
  <2> HIDE DEF x
  <2>3. Long(x) \in Longs
    BY <2>1, LongSum
  <2> QED
    BY <2>2, <2>3 DEF x
<1> QED
  BY <1>2, <1>3, <1>4 DEF mulu, muls

(* A quotient and its remainder packed into a register.                    *)
LEMMA DividedIs ==
  ASSUME NEW q \in Int, NEW r \in Int, NEW f \in Flags
  PROVE  LET o == Divided(q, r, f, Half(2))
         IN  o.value \in Longs /\ o.ccr \in Flags /\ o.ccr.X = f.X
<1> DEFINE a == Low(q, 2)
           b == Low(r, 2)
           v == a + b * 2 * Half(2)
           g == [X |-> f.X, N |-> Negative(a, Half(2)), Z |-> q = 0, V |-> FALSE, C |-> FALSE]
<1>1. Divided(q, r, f, Half(2)) = [value |-> v, ccr |-> g]
  BY DEF Divided, Low
<1>2. a \in Values(Half(2)) /\ b \in Values(Half(2)) /\ 2 \in 1 .. 4
  BY LowIs
<1> HIDE DEF a, b
<1>3. v \in Longs
  BY <1>2, Halfs, SMT DEF Numbers, Longs
<1>4. Negative(a, Half(2)) \in BOOLEAN /\ (q = 0) \in BOOLEAN
  BY <1>2, WordsAre DEF Negative
<1>5. g \in Flags /\ g.X = f.X
  BY <1>4, FlagsParts, FlagsAre
<1> HIDE DEF v, g
<1> QED
  BY <1>1, <1>3, <1>5

(* An overflow leaves the register alone.                                  *)
LEMMA OverflownIs ==
  ASSUME NEW d \in Longs, NEW f \in Flags
  PROVE  LET o == Overflown(d, f)
         IN  o.value \in Longs /\ o.ccr \in Flags /\ o.ccr.X = f.X
  BY DEF Overflown, Flags

(* What DIVU and DIVS compute fits.                                        *)
LEMMA DividesAre ==
  ASSUME NEW s \in Values(Half(2)), NEW d \in Longs, NEW f \in Flags, s # 0, NEW o,
         o = divu(s, d, f, Half(2)) \/ o = divs(s, d, f, Half(2))
  PROVE  o.value \in Longs /\ o.ccr \in Flags /\ o.ccr.X = f.X
<1> DEFINE Fine(x) == x.value \in Longs /\ x.ccr \in Flags /\ x.ccr.X = f.X
<1>1. \A q, r \in Int : Fine(Divided(q, r, f, Half(2)))
  BY DividedIs
<1>2. Fine(Overflown(d, f))
  BY OverflownIs
<1>3. s \in Nat \ {0} /\ d \in Int /\ Signed(s, Half(2)) \in Int /\ Signed(s, Half(2)) # 0
  BY WordsAre, LongsAre
<1> HIDE DEF Fine
<1>4. Fine(divu(s, d, f, Half(2)))
  <2>1. d \div s \in Int /\ d % s \in Int
    BY <1>3, DivMod
  <2> QED
    BY <1>1, <1>2, <2>1 DEF divu
<1>5. Fine(divs(s, d, f, Half(2)))
  <2> DEFINE a == Signed(d, LongHalf(Half(2)))
             b == Signed(s, Half(2))
             q == Towards0(a, b)
  <2>1. a \in Int /\ b \in Int /\ b # 0
    BY <1>3, WordsAre DEF Signed
  <2> HIDE DEF a, b
  <2>2. q \in Int
    <3> DEFINE u == IF a < 0 THEN -a ELSE a
               w == IF b < 0 THEN -b ELSE b
    <3>1. u \in Int /\ w \in Nat \ {0}
      BY <2>1
    <3>2. u \div w \in Int
      <4> HIDE DEF u, w
      <4> QED
        BY <3>1, DivMod
    <3> DEFINE p == u \div w
    <3>3. q = IF (a < 0) = (b < 0) THEN p ELSE -p
      BY DEF Towards0
    <3> HIDE DEF p
    <3>4. p \in Int
      BY <3>2 DEF p
    <3> HIDE DEF q
    <3> QED
      BY <3>3, <3>4
  <2> HIDE DEF q
  <2>3. a - q * b \in Int
    BY <2>1, <2>2
  <2>4. divs(s, d, f, Half(2))
          = IF d = LongHalf(Half(2)) /\ b = -1 THEN Divided(0, 0, f, Half(2))
            ELSE IF -Half(2) <= q /\ q < Half(2) THEN Divided(q, a - q * b, f, Half(2))
            ELSE Overflown(d, f)
    BY DEF divs, a, b, q
  <2> QED
    BY <1>1, <1>2, <2>2, <2>3, <2>4
<1> QED
  BY <1>4, <1>5 DEF Fine

-----------------------------------------------------------------------------
(* Shifts and bits.                                                        *)

(* 2^k counts the subsets of a set of k elements, one of which is empty.   *)
LEMMA PowerPositive ==
  ASSUME NEW k \in Nat
  PROVE  2^k \in Nat \ {0}
<1>1. IsFiniteSet(1 .. k) /\ Cardinality(1 .. k) = k
  BY FS_Interval
<1>2. IsFiniteSet(SUBSET (1 .. k)) /\ Cardinality(SUBSET (1 .. k)) = 2^k
  BY <1>1, FS_SUBSET
<1>3. SUBSET (1 .. k) # {}
  OBVIOUS
<1> QED
  BY <1>2, <1>3, FS_CardinalityType, FS_EmptySet

(* The sizes in bits.                                                      *)
LEMMA BitsAre ==
  ASSUME NEW n \in All
  PROVE  Bits(n) \in 6 .. 32 /\ Bits(n) \in Nat \ {0}
  BY MachineAssumption DEF Bits, All

(* A bit is set or is not.                                                 *)
LEMMA BitIs == \A x, k : Bit(x, k) \in BOOLEAN /\ Msb(x, k) \in BOOLEAN
  BY DEF Bit, Msb

(* The result of a shift, put together.                                    *)
LEMMA ResultRight ==
  ASSUME NEW r \in Int, NEW n, NEW x \in BOOLEAN, NEW v \in BOOLEAN, NEW c \in BOOLEAN
  PROVE  Right(Result(r, n, x, v, c)) /\ Result(r, n, x, v, c).ccr.X = x
  BY BitIs DEF Right, Result, Flags

(* A value shifted fits.                                                   *)
LEMMA ShiftedBy ==
  ASSUME NEW x \in Int, NEW n \in Nat, NEW k \in 0 .. n
  PROVE  /\ LSL(x, k, n) \in Int /\ LSR(x, k) \in Int /\ shift_table(k, n) \in Int
         /\ 2^k \in Int /\ 2^(n - k) \in Int /\ 2^n \in Int
<1> DEFINE p == 2^k
           q == 2^(n - k)
           r == 2^n
<1>1. k \in Nat /\ n - k \in Nat
  OBVIOUS
<1>2. p \in Nat \ {0} /\ q \in Nat \ {0} /\ r \in Nat \ {0}
  BY <1>1, PowerPositive
<1>3. /\ LSL(x, k, n) = (x % q) * p /\ LSR(x, k) = x \div p
      /\ shift_table(k, n) = IF k < n THEN r - q ELSE r - 1
  BY DEF LSL, LSR, shift_table
<1> HIDE DEF p, q, r
<1>4. x % q \in Int /\ x \div p \in Int
  BY <1>2, DivMod
<1>5. (x % q) * p \in Int /\ r - q \in Int /\ r - 1 \in Int
  BY <1>2, <1>4
<1> QED
  BY <1>2, <1>3, <1>4, <1>5 DEF p, q, r

(* A value rotated fits.                                                   *)
LEMMA RotatedBy ==
  ASSUME NEW x \in Int, NEW n \in Nat \ {0}, NEW k \in Nat
  PROVE  /\ ROR(x, k, n) \in Int /\ ROL(x, k, n) \in Int
         /\ k % n \in 0 .. n - 1
<1> DEFINE g == k % n
<1>1. g \in 0 .. n - 1 /\ k % n \in 0 .. n - 1
  BY DivMod
<1>2. ROR(x, k, n) = LSR(x, g) + LSL(x, n - g, n) /\ ROL(x, k, n) = LSL(x, g, n) + LSR(x, n - g)
  BY DEF ROR, ROL
<1> HIDE DEF g
<1>3. g \in 0 .. n /\ n - g \in 0 .. n
  BY <1>1
<1>4. /\ LSR(x, g) \in Int /\ LSL(x, n - g, n) \in Int
      /\ LSL(x, g, n) \in Int /\ LSR(x, n - g) \in Int
  BY <1>3, ShiftedBy
<1> QED
  BY <1>1, <1>2, <1>4

(* by a count between one and the width                                    *)
LEMMA ShiftsAre ==
  ASSUME NEW x \in Int, NEW n \in Nat \ {0}, NEW k \in 1 .. n, NEW f \in Flags,
         NEW wide \in BOOLEAN
  PROVE  /\ Right(asr_s(x, k, n, f)) /\ Right(asl_s(x, k, n, f))
         /\ Right(lsr_s(x, k, n, f)) /\ Right(lsl_s(x, k, n, f))
         /\ Right(ror_s(x, k, n, f)) /\ Right(rol_s(x, k, n, f))
         /\ Right(roxr_s(x, k, n, wide, f)) /\ Right(roxl_s(x, k, n, wide, f))
         /\ ror_s(x, k, n, f).ccr.X = f.X /\ rol_s(x, k, n, f).ccr.X = f.X
<1>1. k \in 0 .. n /\ n + 1 - k \in 0 .. n /\ k \in Nat /\ n - k \in Nat /\ k - 1 \in Nat
      /\ n \in Nat /\ n + 1 \in Nat \ {0}
  OBVIOUS
<1>2. /\ LSL(x, k, n) \in Int /\ LSR(x, k) \in Int /\ shift_table(k, n) \in Int /\ 2^n \in Int
      /\ LSL(x, n + 1 - k, n) \in Int /\ LSR(x, n + 1 - k) \in Int
  BY <1>1, ShiftedBy
<1>3. /\ ROR(x, k, n) \in Int /\ ROL(x, k, n) \in Int
  BY <1>1, RotatedBy
<1>4. 2^n \in Nat \ {0} /\ 2^(n - k) \in Int /\ 2^(k - 1) \in Int
  BY <1>1, PowerPositive
<1>5. f.X \in BOOLEAN
  BY FlagsParts
<1>6. Right(asr_s(x, k, n, f))
  <2> DEFINE filled == IF Msb(x, n) THEN shift_table(k, n) ELSE 0
  <2>1. LSR(x, k) + filled \in Int
    BY <1>2
  <2> QED
    BY <2>1, BitIs DEF asr_s, Result, Right, Flags
<1>7. Right(asl_s(x, k, n, f))
  <2> DEFINE passing == x - (x % 2^(IF k < n THEN n - k - 1 ELSE 0))
             same == \/ passing = 0
                     \/ passing = shift_table(k + 1, n) /\ k < n
             v == ~same
  <2>1. v \in BOOLEAN
    OBVIOUS
  <2>2. asl_s(x, k, n, f) = Result(LSL(x, k, n), n, Bit(x, n - k), v, Bit(x, n - k))
    BY DEF asl_s
  <2> HIDE DEF v
  <2> QED
    BY <1>2, <2>1, <2>2, BitIs, ResultRight
<1>8. Right(lsr_s(x, k, n, f)) /\ Right(lsl_s(x, k, n, f))
  BY <1>2, BitIs DEF lsr_s, lsl_s, Result, Right, Flags
<1>9. /\ Right(ror_s(x, k, n, f)) /\ Right(rol_s(x, k, n, f))
      /\ ror_s(x, k, n, f).ccr.X = f.X /\ rol_s(x, k, n, f).ccr.X = f.X
  BY <1>3, <1>5, BitIs DEF ror_s, rol_s, Result, Right, Flags
<1>10. \A y \in Int : Right(Through(y, n))
  <2> TAKE y \in Int
  <2>1. y % 2^n \in Int
    BY <1>4, DivMod
  <2> QED
    BY <2>1, BitIs DEF Through, Result, Right, Flags
<1>11. Right(roxr_s(x, k, n, wide, f)) /\ Right(roxl_s(x, k, n, wide, f))
  <2>1. WithX(x, n, f) \in Int
    BY <1>4 DEF WithX
  <2>2. ROR(WithX(x, n, f), k, n + 1) \in Int /\ ROL(WithX(x, n, f), k, n + 1) \in Int
    BY <1>1, <2>1, RotatedBy
  <2>3. Right(ror33(x, k, n, f))
    <3> DEFINE g == IF f.X THEN 2^(n - k) ELSE 0
               r == LSR(x, k) + LSL(x, n + 1 - k, n) + g
    <3>1. g \in Int
      BY <1>4
    <3>2. r \in Int
      BY <1>2, <3>1
    <3>3. ror33(x, k, n, f) = Result(r, n, Bit(x, k - 1), FALSE, Bit(x, k - 1))
      BY DEF ror33
    <3> HIDE DEF r
    <3> QED
      BY <3>2, <3>3, BitIs DEF Result, Right, Flags
  <2>4. Right(rol33(x, k, n, f))
    <3> DEFINE g == IF f.X THEN 2^(k - 1) ELSE 0
               r == LSL(x, k, n) + LSR(x, n + 1 - k) + g
    <3>1. g \in Int
      BY <1>4
    <3>2. r \in Int
      BY <1>2, <3>1
    <3>3. rol33(x, k, n, f) = Result(r, n, Bit(x, n - k), FALSE, Bit(x, n - k))
      BY DEF rol33
    <3> HIDE DEF r
    <3> QED
      BY <3>2, <3>3, BitIs DEF Result, Right, Flags
  <2> QED
    BY <1>10, <2>2, <2>3, <2>4 DEF roxr_s, roxl_s
<1> QED
  BY <1>6, <1>7, <1>8, <1>9, <1>11

(* Shifts by a count in the instruction word.                              *)
LEMMA ByImmediateIs ==
  ASSUME NEW how \in Shifts, NEW x \in Int, NEW n \in Nat \ {0}, NEW k \in 1 .. n,
         NEW f \in Flags, NEW wide \in BOOLEAN
  PROVE  LET o == ByImmediate(how, x, k, n, wide, f)
         IN  Right(o) /\ (how \in {"rol", "ror"} => o.ccr.X = f.X)
  BY ShiftsAre DEF ByImmediate, Shifts

(* Shifts of a word in memory.                                             *)
LEMMA InMemoryIs ==
  ASSUME NEW how \in Shifts, NEW x \in Int, NEW n \in Nat \ {0}, NEW f \in Flags
  PROVE  LET o == InMemory(how, x, n, f)
         IN  Right(o) /\ (how \in {"rol", "ror"} => o.ccr.X = f.X)
<1>1. 1 \in 1 .. n /\ FALSE \in BOOLEAN
  OBVIOUS
<1> QED
  BY <1>1, ShiftsAre DEF InMemory, Shifts, asr_m, asl_m, lsr_m, lsl_m, ror_m, rol_m, roxr_m, roxl_m

(* Shifts by a count in a register.                                        *)
LEMMA ByRegisterIs ==
  ASSUME NEW how \in Shifts, NEW x \in Int, NEW n \in Nat \ {0}, NEW k \in Nat,
         NEW f \in Flags, NEW wide \in BOOLEAN, NEW undef \in BOOLEAN
  PROVE  LET o == ByRegister(how, x, k, n, wide, undef, f)
         IN  Right(o) /\ (how \in {"rol", "ror"} => o.ccr.X = f.X)
<1>1. f.X \in BOOLEAN /\ 0 \in Int /\ 2^n \in Int /\ n \in Nat /\ n + 1 \in Nat \ {0}
  <2>1. 2^n \in Nat \ {0}
    BY PowerPositive
  <2> QED
    BY <2>1, FlagsParts
<1>2. Right(ByNone(x, n, f)) /\ ByNone(x, n, f).ccr.X = f.X
  BY <1>1, BitIs DEF ByNone, Result, Right, Flags
<1>3. k # 0 /\ k <= n => k \in 1 .. n
  OBVIOUS
<1>4. Right(Result(0, n, FALSE, FALSE, FALSE))
  BY BitIs DEF Result, Right, Flags
<1>5. Right(lsr_r(x, k, n, f)) /\ Right(lsl_r(x, k, n, f))
  <2>1. k \in 1 .. n => Right(lsr_s(x, k, n, f)) /\ Right(lsl_s(x, k, n, f))
    BY ShiftsAre
  <2> QED
    BY <1>2, <1>3, <1>4, <2>1 DEF lsr_r, lsl_r
<1>6. Right(asr_r(x, k, n, f))
  <2>1. k \in 1 .. n => Right(asr_s(x, k, n, f))
    BY ShiftsAre
  <2>2. k < n => k <= n
    OBVIOUS
  <2> DEFINE r == IF Msb(x, n) THEN 2^n - 1 ELSE 0
  <2>3. r \in Int
    BY <1>1
  <2>4. Right(Result(r, n, Msb(x, n), FALSE, Msb(x, n)))
    BY <2>3, BitIs DEF Result, Right, Flags
  <2> QED
    BY <1>2, <1>3, <2>1, <2>2, <2>4 DEF asr_r
<1>7. Right(asl_r(x, k, n, f))
  <2>1. k \in 1 .. n => Right(asl_s(x, k, n, f))
    BY ShiftsAre
  <2>2. k < n => k <= n
    OBVIOUS
  <2> DEFINE last == k = n /\ Bit(x, 0)
             v == x # 0
  <2>3. last \in BOOLEAN /\ v \in BOOLEAN
    BY Zenon
  <2>4. asl_r(x, k, n, f) = IF k = 0 THEN ByNone(x, n, f)
                            ELSE IF k < n THEN asl_s(x, k, n, f)
                            ELSE Result(0, n, last, v, last)
    BY DEF asl_r
  <2> HIDE DEF last, v
  <2>5. Right(Result(0, n, last, v, last))
    BY <2>3, ResultRight
  <2> QED
    BY <1>2, <1>3, <2>1, <2>2, <2>4, <2>5
<1>8. Right(ror_r(x, k, n, f)) /\ ror_r(x, k, n, f).ccr.X = f.X
  <2>1. ROR(x, k, n) \in Int
    BY RotatedBy
  <2> QED
    BY <1>1, <1>2, <2>1, BitIs DEF ror_r, Result, Right, Flags
<1>9. Right(rol_r(x, k, n, wide, undef, f)) /\ rol_r(x, k, n, wide, undef, f).ccr.X = f.X
  <2>1. ROL(x, k, n) \in Int
    BY RotatedBy
  <2> DEFINE c == IF k % n # 0 THEN Bit(x, n - (k % n)) ELSE IF wide THEN undef ELSE Bit(x, 0)
  <2>2. c \in BOOLEAN
    BY BitIs
  <2>3. rol_r(x, k, n, wide, undef, f) = IF k = 0 THEN ByNone(x, n, f)
                                         ELSE Result(ROL(x, k, n), n, f.X, FALSE, c)
    BY DEF rol_r
  <2> HIDE DEF c
  <2> QED
    BY <1>1, <1>2, <2>1, <2>2, <2>3, BitIs DEF Result, Right, Flags
<1>10. Right(roxr_r(x, k, n, wide, f)) /\ Right(roxl_r(x, k, n, wide, f))
  <2> DEFINE g == k % (n + 1)
  <2>1. g \in 0 .. n
    BY <1>1, DivMod
  <2>2. Right(Result(x, n, f.X, FALSE, f.X))
    BY <1>1, ResultRight
  <2>3. /\ roxr_r(x, k, n, wide, f) = IF g = 0 THEN Result(x, n, f.X, FALSE, f.X)
                                      ELSE roxr_s(x, g, n, wide, f)
        /\ roxl_r(x, k, n, wide, f) = IF g = 0 THEN Result(x, n, f.X, FALSE, f.X)
                                      ELSE roxl_s(x, g, n, wide, f)
    BY DEF roxr_r, roxl_r
  <2> HIDE DEF g
  <2>4. g # 0 => g \in 1 .. n
    BY <2>1
  <2>5. g \in 1 .. n => Right(roxr_s(x, g, n, wide, f)) /\ Right(roxl_s(x, g, n, wide, f))
    BY ShiftsAre
  <2> QED
    BY <2>2, <2>3, <2>4, <2>5
<1> QED
  BY <1>5, <1>6, <1>7, <1>8, <1>9, <1>10 DEF ByRegister, Shifts

(* One bit of a value changed.                                             *)
LEMMA BitChanged ==
  ASSUME NEW n \in All, NEW s \in Int, NEW d \in Int, NEW f \in Flags, NEW t \in BOOLEAN
  PROVE  LET k == s % Bits(n)
             w == 2^k
             set == Bit(d, k)
         IN  /\ d - (IF set THEN w ELSE 0) + (IF t THEN w ELSE 0) \in Int
             /\ [f EXCEPT !.Z = ~set] \in Flags
<1> DEFINE k == s % Bits(n)
           w == 2^k
<1>1. k \in Nat
  BY BitsAre, DivMod
<1>2. w \in Int
  BY <1>1, PowerPositive
<1> HIDE DEF k, w
<1> DEFINE set == Bit(d, k)
           z == ~set
<1>3. set \in BOOLEAN /\ z \in BOOLEAN
  BY BitIs
<1> HIDE DEF set
<1>4. d - (IF set THEN w ELSE 0) + (IF t THEN w ELSE 0) \in Int
  BY <1>2
<1>5. [f EXCEPT !.Z = z] \in Flags
  <2> HIDE DEF z
  <2> QED
    BY <1>3 DEF Flags
<1> QED
  BY <1>4, <1>5 DEF k, w, set

-----------------------------------------------------------------------------
(* The handlers' common course: operands, an outcome, and where it goes.   *)

(* o leaves v in the operand e: beside R only that changes.                *)
Leaves(S, b, o, pc, f, R, e, n, v) ==
    /\ Effect(S, b, o, pc, f, R \cup Into(e), At(e, Pointed(o, e, n), n))
    /\ e.mode = "d" => /\ Upper(o.da[e.r], n) = Upper(b.da[e.r], n)
                       /\ Low(o.da[e.r], n) = Low(v, n)
    /\ e.mode # "d" /\ o.run /\ v \in Values(Half(n)) =>
          Value(o, ADDRESS_68K(Pointed(o, e, n)), n) = v

(* Only address registers are stepped.                                     *)
LEMMA SteppedHigh ==
  ASSUME NEW e \in Operands
  PROVE  Stepped(e) \subseteq 8 .. 15
  BY OperandParts DEF Stepped

(* Where a mode has pointed is seen from its register afterwards.          *)
LEMMA PointedIs ==
  ASSUME NEW S, NEW c \in MachinesWith(S), NEW e \in Operands, NEW n \in All,
         e.mode \in Memory, NEW o, o.da = Used(c, e, n).da
  PROVE  /\ ADDRESS_68K(Pointed(o, e, n)) = ADDRESS_68K(EA(c, e, n))
         /\ Place(Pointed(o, e, n), n) = Place(EA(c, e, n), n)
<1> DEFINE an == c.da[8 + e.r]
           st == StepOf(e, n)
<1>1. an \in Longs /\ an \in Int /\ st \in Int
  BY OperandParts, MachineParts, StepIs
<1>2. ADDRESS_68K(Pointed(o, e, n)) = ADDRESS_68K(EA(c, e, n))
  <2>1. CASE e.mode = "pi"
    <3>1. o.da[8 + e.r] = Long(an + st)
      BY <2>1, UsedIs
    <3>2. Pointed(o, e, n) = Long(an + st) - st /\ EA(c, e, n) = an
      BY <2>1, <3>1 DEF Pointed, EA
    <3> HIDE DEF an, st
    <3>3. an + st \in Int
      BY <1>1
    <3>4. Long(an + st) \in Int
      BY <3>3, LongSum, LongsAre
    <3>5. Long(an + st) - st \in Int
      BY <1>1, <3>4
    <3>6. Long(Long(an + st) - st) = an
      <4>1. Long(an + st) - st = Long(an + st) + (-st) /\ -st \in Int
        BY <1>1, <3>4
      <4>2. Long(Long(an + st) + (-st)) = Long(an + st + (-st))
        BY <3>3, <4>1, LongSum
      <4>3. an + st + (-st) = an
        BY <1>1
      <4> QED
        BY <1>1, <4>1, <4>2, <4>3, LongKeeps
    <3>7. ADDRESS_68K(Long(Long(an + st) - st)) = ADDRESS_68K(Long(an + st) - st)
      BY <3>5, LongSum
    <3> QED
      BY <3>2, <3>6, <3>7
  <2>2. CASE e.mode = "pd"
    <3>1. o.da[8 + e.r] = Long(an - st)
      BY <2>2, UsedIs
    <3> QED
      BY <2>2, <3>1 DEF Pointed, EA
  <2>3. CASE e.mode \notin {"pi", "pd"}
    <3>1. o.da = c.da
      BY <2>3, UsedIs
    <3> QED
      BY <2>3, <3>1 DEF Pointed, EA, Memory, get_ea_ix
  <2> QED
    BY <2>1, <2>2, <2>3
<1> QED
  BY <1>2 DEF Place

(* That depends on the registers only.                                     *)
LEMMA PointedSame ==
  ASSUME NEW e, NEW n, NEW o, NEW u, o.da = u.da, e.mode \in Memory
  PROVE  Pointed(o, e, n) = Pointed(u, e, n)
  BY DEF Pointed, EA, Memory, get_ea_ix

(* And what is read, on the memory only.                                   *)
LEMMA ValueSame ==
  ASSUME NEW o, NEW u, o.ram = u.ram, NEW a, NEW n
  PROVE  Value(o, a, n) = Value(u, a, n)
  BY DEF Value, Word, Byte

(* A result stored is in its place.                                        *)
LEMMA PutLeaves ==
  ASSUME NEW S, NEW c \in MachinesWith(S), NEW e \in Operands, NEW n \in All,
         e.mode \in D \cup Memory, NEW u, NEW pc, NEW f, NEW v \in Int,
         u.da = Used(c, e, n).da, Effect(S, c, u, pc, f, Stepped(e), {})
  PROVE  Leaves(S, c, Store(u, e, EA(c, e, n), n, v), pc, f, Stepped(e), e, n, v)
<1> DEFINE at == EA(c, e, n)
           o == Store(u, e, at, n, v)
<1>1. u \in MachinesWith(S) /\ u.pc = pc /\ u.ccr = f
  BY DEF Effect
<1>2. e.mode # "d" => e.mode \in Memory /\ at \in Int
  BY AddressIs DEF D
<1> HIDE DEF at
<1>3. /\ Effect(S, u, o, u.pc, u.ccr, Into(e), At(e, at, n))
      /\ e.mode # "d" => o.da = u.da
      /\ e.mode = "d" => o.da[e.r] = Upper(u.da[e.r], n) + Low(v, n)
  BY <1>1, <1>2, StoreIs
<1>4. Effect(S, c, o, pc, f, Stepped(e) \cup Into(e), At(e, at, n))
  <2>1. Effect(S, c, o, pc, f, Stepped(e) \cup Into(e), {} \cup At(e, at, n))
    BY <1>1, <1>3, EffectThen
  <2> QED
    BY <2>1
<1>5. e.mode = "d" => Leaves(S, c, o, pc, f, Stepped(e), e, n, v)
  <2> HAVE e.mode = "d"
  <2>1. At(e, at, n) = {} /\ At(e, Pointed(o, e, n), n) = {}
    BY DEF At
  <2>2. e.r \in 0 .. 15 /\ e.r \notin Stepped(e)
    BY OperandParts DEF Stepped
  <2>3. u.da[e.r] = c.da[e.r] /\ c.da[e.r] \in Longs
    BY <2>2, MachineParts DEF Effect
  <2>4. Upper(o.da[e.r], n) = Upper(c.da[e.r], n) /\ Low(o.da[e.r], n) = Low(v, n)
    BY <1>3, <2>3, UpperLow
  <2> QED
    <3> HIDE DEF o
    <3> QED
      BY <1>4, <2>1, <2>4 DEF Leaves
<1>6. e.mode # "d" => Leaves(S, c, o, pc, f, Stepped(e), e, n, v)
  <2> HAVE e.mode # "d"
  <2>1. o.da = Used(c, e, n).da /\ e.mode \in Memory /\ at \in Int
    BY <1>2, <1>3
  <2> HIDE DEF o
  <2>2. ADDRESS_68K(Pointed(o, e, n)) = ADDRESS_68K(at) /\ Place(Pointed(o, e, n), n) = Place(at, n)
    BY <2>1, PointedIs DEF at
  <2>3. At(e, at, n) = At(e, Pointed(o, e, n), n)
    BY <2>2 DEF At
  <2>4. o = Write(u, at, n, v)
    BY DEF o, Store
  <2>5. o \in MachinesWith(S)
    BY <1>3 DEF Effect
  <2>6. o.run /\ v \in Values(Half(n)) => Value(o, ADDRESS_68K(at), n) = v
    <3> HAVE o.run /\ v \in Values(Half(n))
    <3>1. /\ Place(at, n) \subseteq S
          /\ \A x \in S \cap Place(at, n) : o.ram[x] = ByteOf(v, ADDRESS_68K(at) + n - 1 - x)
      BY <1>1, <2>1, <2>4, WriteIs
    <3>2. \A x \in Place(at, n) : o.ram[x] = ByteOf(v, ADDRESS_68K(at) + n - 1 - x)
      BY <3>1
    <3> QED
      BY <2>1, <2>5, <3>1, <3>2, ValueWritten
  <2> QED
    BY <1>4, <2>2, <2>3, <2>6 DEF Leaves
<1> QED
  BY <1>5, <1>6 DEF o, at

(* Also after the condition codes are set.                                 *)
LEMMA LeavesThenFlags ==
  ASSUME NEW S, NEW c, NEW o, NEW pc, NEW f, NEW R, NEW e, NEW n, NEW v, NEW g \in Flags,
         e.mode \in D \cup Memory, Leaves(S, c, o, pc, f, R, e, n, v)
  PROVE  Leaves(S, c, Flagged(o, g), pc, g, R, e, n, v)
<1> DEFINE u == Flagged(o, g)
<1>1. o \in MachinesWith(S) /\ o.pc = pc
  BY DEF Leaves, Effect
<1>2. Effect(S, o, u, pc, g, {}, {}) /\ u.da = o.da /\ u.ram = o.ram /\ u.run = o.run
  BY <1>1, FlagsSet
<1> HIDE DEF u
<1>3. At(e, Pointed(u, e, n), n) = At(e, Pointed(o, e, n), n)
      /\ (e.mode # "d" => Pointed(u, e, n) = Pointed(o, e, n))
  BY <1>2, PointedSame DEF At, D
<1> DEFINE R2 == R \cup Into(e)
           B == At(e, Pointed(o, e, n), n)
<1>4. Effect(S, c, o, pc, f, R2, B)
  BY DEF Leaves
<1>5. Effect(S, c, u, pc, g, R2 \cup {}, B \cup {})
  BY <1>2, <1>4, EffectThen
<1>6. Effect(S, c, u, pc, g, R2, B)
  BY <1>5
<1>7. Value(u, ADDRESS_68K(Pointed(o, e, n)), n) = Value(o, ADDRESS_68K(Pointed(o, e, n)), n)
  BY <1>2, ValueSame
<1> QED
  BY <1>2, <1>3, <1>6, <1>7 DEF Leaves, u

(* Also when the source was fetched before.                                *)
LEMMA ThenLeaves ==
  ASSUME NEW S, NEW b, NEW c, NEW o, NEW pc, NEW f, NEW R, NEW pc2, NEW f2, NEW R2,
         NEW e \in Operands, NEW n, NEW v, R \subseteq 8 .. 15,
         Effect(S, b, c, pc, f, R, {}), Leaves(S, c, o, pc2, f2, R2, e, n, v)
  PROVE  Leaves(S, b, o, pc2, f2, R \cup R2, e, n, v)
<1>1. Effect(S, b, o, pc2, f2, R \cup (R2 \cup Into(e)), {} \cup At(e, Pointed(o, e, n), n))
  BY EffectThen DEF Leaves
<1>2. R \cup (R2 \cup Into(e)) = (R \cup R2) \cup Into(e)
      /\ {} \cup At(e, Pointed(o, e, n), n) = At(e, Pointed(o, e, n), n)
  OBVIOUS
<1>3. e.mode = "d" => c.da[e.r] = b.da[e.r]
  <2>1. e.r \in 0 .. 15 /\ e.r \notin R
    BY OperandParts
  <2> QED
    BY <2>1 DEF Effect
<1>4. Effect(S, b, o, pc2, f2, (R \cup R2) \cup Into(e), At(e, Pointed(o, e, n), n))
  BY <1>1, <1>2
<1> QED
  BY <1>3, <1>4 DEF Leaves

-----------------------------------------------------------------------------
(* The opcode table by kinds of handlers.                                  *)

(* The four parts of the opcode table have no name in common.              *)
LEMMA TablesApart ==
  /\ DOMAIN RowsAdd \cap DOMAIN RowsBra = {} /\ DOMAIN RowsAdd \cap DOMAIN RowsMove = {}
  /\ DOMAIN RowsAdd \cap DOMAIN RowsShift = {} /\ DOMAIN RowsBra \cap DOMAIN RowsMove = {}
  /\ DOMAIN RowsBra \cap DOMAIN RowsShift = {} /\ DOMAIN RowsMove \cap DOMAIN RowsShift = {}
  BY SMT DEF RowsAdd, RowsBra, RowsMove, RowsShift

(* The row of a name in one of the parts.                                  *)
LEMMA RowsIn ==
  ASSUME NEW op
  PROVE  /\ op \in DOMAIN RowsAdd => Rows(op) = RowsAdd[op]
         /\ op \in DOMAIN RowsBra => Rows(op) = RowsBra[op]
         /\ op \in DOMAIN RowsMove => Rows(op) = RowsMove[op]
         /\ op \in DOMAIN RowsShift => Rows(op) = RowsShift[op]
  BY TablesApart, Zenon DEF Rows

(* What is legal is in the table.                                          *)
LEMMA LegalIn ==
  ASSUME NEW j, Legal(j)
  PROVE  \/ j.op \in DOMAIN RowsAdd \/ j.op \in DOMAIN RowsBra
         \/ j.op \in DOMAIN RowsMove \/ j.op \in DOMAIN RowsShift
<1> SUFFICES ASSUME j.op \notin DOMAIN RowsAdd, j.op \notin DOMAIN RowsBra,
                    j.op \notin DOMAIN RowsMove, j.op \notin DOMAIN RowsShift
             PROVE  FALSE
  OBVIOUS
<1>1. Rows(j.op) = Row({}, {}, {})
  BY Zenon DEF Rows
<1> QED
  BY <1>1 DEF Legal, Row

Logical == {"and_er", "and_re", "andi", "not", "or_er", "or_re", "ori", "eor", "eori"}

Sums ==
    {"abcd_rr", "abcd_mm", "add_er", "add_re", "addi", "subi", "addq", "subq",
     "addx_rr", "addx_mm", "sub_er", "sub_re", "subx_rr", "subx_mm", "sbcd_rr", "sbcd_mm",
     "nbcd", "neg", "negx"}

BitChanges == {"bchg_r", "bchg_rd", "bchg_s", "bchg_sd", "bclr_r", "bclr_rd", "bclr_s", "bclr_sd",
               "bset_r", "bset_rd", "bset_s", "bset_sd"}

BitTests == {"btst_r", "btst_rd", "btst_s", "btst_sd"}

Moves == {"move_8", "move_16", "move_32"}

Puts == Moves \cup {"clr", "scc", "move_frs"}

Comparisons == {"cmp", "cmpi", "cmpm", "tst"} \cup BitTests

ToData == {"multiply", "divide", "chk", "ext", "swap", "moveq", "dbcc", "movep_er"}

ToAddress ==
    {"adda", "suba", "addq_a", "subq_a", "movea", "lea", "link", "unlk", "cmpa", "move_fru"}

ToNone == {"bcc", "bra", "bsr", "jmp", "jsr", "rts", "rtr", "nop", "trap", "trapv", "pea",
           "movem_er"} \cup (StatusOps \ {"move_frs", "move_fru"})

StatusWords == {"andi_toc", "andi_tos", "ori_toc", "ori_tos", "eori_toc", "eori_tos",
                "move_toc", "move_tos"}

ModeFacts(op, row) ==
    /\ row.n \subseteq All
    /\ op \in Logical \cup Sums \cup BitChanges \cup {"tas"} \cup Shiftings \cup Puts =>
          row.dst \subseteq D \cup Memory
    /\ op \in Logical \cup {"shift_m"} \cup Moves => row.src \cap {"q"} = {}
    /\ op = "shift_s" => row.src = {"q"}
    /\ op \in {"multiply", "divide", "chk"} => row.n = {2} /\ row.src = D \cup Everything
    /\ op \in {"moveq", "swap"} => row.n = {4}
    /\ op = "ext" => row.n = {2, 4}
    /\ op \in {"moveq", "addq_a", "subq_a"} => row.src = {"q"}
    /\ op \in {"clr", "scc", "move_frs", "ext", "swap"} => row.src = None
    /\ op \in Comparisons => row.dst \subseteq D \cup Everything
    /\ op \in ToData => row.dst = D
    /\ op \in ToAddress => row.dst = A
    /\ op \in ToNone => row.dst = None
    /\ op = "movep_re" => row.dst = {"di"}
    /\ op = "movem_re" => row.dst \subseteq {"pd"} \cup Control
    /\ op \in {"exg_da", "exg_aa"} => row.n = {4} /\ row.dst \subseteq AD /\ row.src \subseteq AD

WordFacts(op, row) ==
    /\ op \in {"lea", "pea", "jmp", "jsr"} => row.n = {4} /\ row.src = ControlPc
    /\ op \in {"link", "dbcc", "stop"} => row.n = {2} /\ row.src = {"w"}
    /\ op \in {"rts", "rtr", "rte", "nop", "trapv", "reset", "unlk", "move_fru", "movem_re"} =>
          row.src = None
    /\ op = "trap" => row.src = {"q"}
    /\ op \in Branches => row.n = {1, 2} /\ row.src = {"q", "w"}
    /\ op \in StatusWords => row.n = {2} /\ row.src \subseteq D \cup Everything
    /\ op = "move_tou" => row.src = A
    /\ op \in {"movem_re", "movem_er", "movep_re", "movep_er"} => row.n = {2, 4}
    /\ op = "movem_er" => row.src = {"pi"} \cup ControlPc
    /\ op = "movep_re" => row.src = D
    /\ op = "movep_er" => row.src = {"di"}

(* The modes that the table gives each family.                             *)
LEMMA ModesAre ==
  ASSUME NEW j, Legal(j)
  PROVE  /\ ModeFacts(j.op, Rows(j.op)) /\ j.n \in Rows(j.op).n
         /\ j.src.mode \in Rows(j.op).src /\ j.dst.mode \in Rows(j.op).dst
<1>1. CASE j.op \in DOMAIN RowsAdd
  <2>1. ModeFacts(j.op, RowsAdd[j.op])
   BY <1>1, SMT DEF RowsAdd, Row, All, AD, Everything, Memory, D, A, None, Control, ControlPc,
      ModeFacts, Logical, Sums, BitChanges, BitTests, Shiftings, Puts, Moves, Comparisons,
      ToData, ToAddress, ToNone, StatusOps, Privileged
  <2> QED BY <2>1, <1>1, RowsIn DEF Legal
<1>2. CASE j.op \in DOMAIN RowsBra
  <2>1. ModeFacts(j.op, RowsBra[j.op])
   BY <1>2, SMT DEF RowsBra, Row, All, AD, Everything, Memory, D, A, None, Control, ControlPc,
      ModeFacts, Logical, Sums, BitChanges, BitTests, Shiftings, Puts, Moves, Comparisons,
      ToData, ToAddress, ToNone, StatusOps, Privileged
  <2> QED BY <2>1, <1>2, RowsIn DEF Legal
<1>3. CASE j.op \in DOMAIN RowsMove
  <2>1. ModeFacts(j.op, RowsMove[j.op])
   BY <1>3, SMT DEF RowsMove, Row, All, AD, Everything, Memory, D, A, None, Control, ControlPc,
      ModeFacts, Logical, Sums, BitChanges, BitTests, Shiftings, Puts, Moves, Comparisons,
      ToData, ToAddress, ToNone, StatusOps, Privileged
  <2> QED BY <2>1, <1>3, RowsIn DEF Legal
<1>4. CASE j.op \in DOMAIN RowsShift
  <2>1. ModeFacts(j.op, RowsShift[j.op])
   BY <1>4, SMT DEF RowsShift, Row, All, AD, Everything, Memory, D, A, None, Control, ControlPc,
      ModeFacts, Logical, Sums, BitChanges, BitTests, Shiftings, Puts, Moves, Comparisons,
      ToData, ToAddress, ToNone, StatusOps, Privileged
  <2> QED BY <2>1, <1>4, RowsIn DEF Legal
<1> QED
  BY <1>1, <1>2, <1>3, <1>4, LegalIn

(* And the words that belong to the instruction.                           *)
LEMMA WordsTaken ==
  ASSUME NEW j, Legal(j)
  PROVE  /\ WordFacts(j.op, Rows(j.op)) /\ j.n \in Rows(j.op).n
         /\ j.src.mode \in Rows(j.op).src /\ j.dst.mode \in Rows(j.op).dst
<1>1. CASE j.op \in DOMAIN RowsAdd
  <2>1. WordFacts(j.op, RowsAdd[j.op])
   BY <1>1, SMT DEF RowsAdd, Row, All, AD, Everything, Memory, D, A, None, Control, ControlPc,
      WordFacts, Branches, StatusWords
  <2> QED BY <2>1, <1>1, RowsIn DEF Legal
<1>2. CASE j.op \in DOMAIN RowsBra
  <2>1. WordFacts(j.op, RowsBra[j.op])
   BY <1>2, SMT DEF RowsBra, Row, All, AD, Everything, Memory, D, A, None, Control, ControlPc,
      WordFacts, Branches, StatusWords
  <2> QED BY <2>1, <1>2, RowsIn DEF Legal
<1>3. CASE j.op \in DOMAIN RowsMove
  <2>1. WordFacts(j.op, RowsMove[j.op])
   BY <1>3, SMT DEF RowsMove, Row, All, AD, Everything, Memory, D, A, None, Control, ControlPc,
      WordFacts, Branches, StatusWords
  <2> QED BY <2>1, <1>3, RowsIn DEF Legal
<1>4. CASE j.op \in DOMAIN RowsShift
  <2>1. WordFacts(j.op, RowsShift[j.op])
   BY <1>4, SMT DEF RowsShift, Row, All, AD, Everything, Memory, D, A, None, Control, ControlPc,
      WordFacts, Branches, StatusWords
  <2> QED BY <2>1, <1>4, RowsIn DEF Legal
<1> QED
  BY <1>1, <1>2, <1>3, <1>4, LegalIn

-----------------------------------------------------------------------------
(* An instruction that ends as it should: what it leaves of b in o.        *)

FlagNames == {"X", "N", "Z", "V", "C"}

Whole(j) == j.n = 4 \/ j.op \in {"multiply", "divide"}

Kept(b, o) ==
    o.s = b.s /\ o.t1 = b.t1 /\ o.im = b.im /\ o.stopped = b.stopped /\ o.banked = b.banked

BytesDone(b, o, j) ==
    IF j.op \in Pushing THEN Place(b.da[A7] - 4, 4)
    ELSE IF j.dst.mode \in Memory /\ j.op \notin ReadOnly THEN Target(o, j)
    ELSE {}

FlagsDone(j, f, g) == \A x \in FlagNames : g[x] = f[x] \/ x \in FlagsOf(j)

TestDone(b, j, o) ==
    j.op \in Testing /\ o.run =>
        o.ccr = Tested(ResultOf(o, j), b.ccr, IF j.op = "multiply" THEN 4 ELSE j.n)

Behind(b, j) == Long(b.pc + (LengthOf(j) - 2))

Done(S, b, j, o) ==
    /\ o \in MachinesWith(S) /\ o.ppc = b.ppc /\ (o.run => b.run)
    /\ Jumps(b, j) \/ o.pc = Behind(b, j)
    /\ \A k \in 0 .. 15 : k \in RegistersOf(j) \/ o.da[k] = b.da[k] \/ (k = A7 /\ o.s # b.s)
    /\ \A x \in S : x \in BytesDone(b, o, j) \/ o.ram[x] = b.ram[x]
    /\ FlagsDone(j, b.ccr, o.ccr)
    /\ TestDone(b, j, o)
    /\ j.dst.mode = "d" /\ ~Whole(j) => Upper(o.da[j.dst.r], j.n) = Upper(b.da[j.dst.r], j.n)
    /\ Kept(b, o) \/ (b.s /\ j.op \in Privileged)

Computed == Logical \cup Sums \cup BitChanges \cup {"tas"} \cup Shiftings

NZVC == {"N", "Z", "V", "C"}

Coding ==
    Sums \cup {"rtr"} \cup (StatusOps \ {"move_frs", "move_fru", "move_tou", "reset"})

(* The flags that each family may change.                                  *)
LEMMA FlagsOfIs ==
  ASSUME NEW j, Legal(j)
  PROVE  /\ j.op \in Coding \/ (j.op \in Shiftings /\ j.how \notin {"rol", "ror"}) =>
               FlagsOf(j) = FlagNames
         /\ j.op \in BitChanges \cup BitTests => FlagsOf(j) = {"Z"}
         /\ j.op \in KeepingX \cup Shiftings => NZVC \subseteq FlagsOf(j)
<1>1. j.op \notin KeepingFlags /\ j.op \notin BitOps =>
         /\ NZVC \subseteq FlagsOf(j)
         /\ j.op \notin KeepingX /\ (j.op \notin Shiftings \/ j.how \notin {"rol", "ror"}) =>
               FlagsOf(j) = FlagNames
  BY DEF FlagsOf, NZVC, FlagNames
<1>2. j.op \in BitOps /\ j.op \notin KeepingFlags => FlagsOf(j) = {"Z"}
  BY DEF FlagsOf
<1>3. j.op \in BitChanges \cup BitTests => j.op \in BitOps /\ j.op \notin KeepingFlags
  BY SMT DEF BitOps, BitChanges, BitTests, KeepingFlags, TransferOps, FlowOps, Testing
<1>4. j.op \in Coding \cup Shiftings => j.op \notin KeepingFlags
  BY SMT DEF Coding, Sums, Shiftings, StatusOps, Privileged, KeepingFlags, TransferOps, FlowOps,
             Testing
<1>5. j.op \in Coding \cup Shiftings => j.op \notin KeepingX /\ j.op \notin BitOps
  BY SMT DEF Coding, Sums, Shiftings, StatusOps, Privileged, KeepingX, Testing, BitOps
<1>6. j.op \in Coding => j.op \notin Shiftings
  BY SMT DEF Coding, Sums, Shiftings, StatusOps, Privileged
<1>7. j.op \in KeepingX => j.op \notin KeepingFlags /\ j.op \notin BitOps
  BY SMT DEF KeepingX, KeepingFlags, TransferOps, FlowOps, Testing, BitOps
<1> QED
  BY <1>1, <1>2, <1>3, <1>4, <1>5, <1>6, <1>7

(* Condition codes that changed where they may.                            *)
LEMMA FlagsDoneIs ==
  ASSUME NEW j, NEW f \in Flags, NEW g \in Flags
  PROVE  /\ g = f => FlagsDone(j, f, g)
         /\ FlagsOf(j) = FlagNames => FlagsDone(j, f, g)
         /\ NZVC \subseteq FlagsOf(j) /\ g.X = f.X => FlagsDone(j, f, g)
         /\ FlagsOf(j) = {"Z"} /\ g.X = f.X /\ g.N = f.N /\ g.V = f.V /\ g.C = f.C =>
               FlagsDone(j, f, g)
<1>1. g = f => FlagsDone(j, f, g)
  BY DEF FlagsDone
<1>2. FlagsOf(j) = FlagNames => FlagsDone(j, f, g)
  BY DEF FlagsDone
<1>3. NZVC \subseteq FlagsOf(j) /\ g.X = f.X => FlagsDone(j, f, g)
  BY DEF FlagsDone, NZVC, FlagNames
<1>4. FlagsOf(j) = {"Z"} /\ g.X = f.X /\ g.N = f.N /\ g.V = f.V /\ g.C = f.C =>
               FlagsDone(j, f, g)
  BY DEF FlagsDone, FlagNames
<1> QED
  BY <1>1, <1>2, <1>3, <1>4

(* The course of most handlers, with what they have computed.              *)
Finish(b, j, f, v) ==
    LET s == Operand(b, j.src, j.n)
        d == Operand(s.m, j.dst, j.n)
    IN  Store(Flagged(d.m, f), j.dst, EA(s.m, j.dst, j.n), j.n, v)

Words(j) == Extension(j.src, j.n) + Extension(j.dst, j.n)

(* The course of most handlers leaves the result in its place.             *)
LEMMA FinishLeaves ==
  ASSUME NEW S, NEW b \in MachinesWith(S), NEW j \in Decoded, j.n \in All,
         j.dst.mode \in D \cup Memory, NEW f \in Flags, NEW v \in Int
  PROVE  Leaves(S, b, Finish(b, j, f, v), Long(b.pc + Words(j)), f,
                Stepped(j.src) \cup Stepped(j.dst), j.dst, j.n, v)
<1> DEFINE c == Operand(b, j.src, j.n).m
           d == Operand(c, j.dst, j.n).m
           u == Flagged(d, f)
           o == Store(u, j.dst, EA(c, j.dst, j.n), j.n, v)
           x == Extension(j.src, j.n)
           y == Extension(j.dst, j.n)
<1>1. j.src \in Operands /\ j.dst \in Operands
  BY DEF Decoded
<1>2. Effect(S, b, c, Long(b.pc + x), b.ccr, Stepped(j.src), {})
  BY <1>1, OperandIs
<1>3. c \in MachinesWith(S) /\ c.pc = Long(b.pc + x) /\ c.ccr = b.ccr
  BY <1>2 DEF Effect
<1> HIDE DEF c
<1>4. /\ Effect(S, c, d, Long(c.pc + y), c.ccr, Stepped(j.dst), {})
      /\ d.da = Used(c, j.dst, j.n).da
  BY <1>1, <1>3, OperandIs
<1>5. d \in MachinesWith(S) /\ d.pc = Long(c.pc + y)
  BY <1>4 DEF Effect
<1> HIDE DEF d
<1>6. Effect(S, d, u, d.pc, f, {}, {}) /\ u.da = d.da
  BY <1>5, FlagsSet
<1> HIDE DEF u
<1>7. Effect(S, c, u, Long(c.pc + y), f, Stepped(j.dst) \cup {}, {} \cup {})
  BY <1>4, <1>5, <1>6, EffectThen
<1>8. Effect(S, c, u, Long(c.pc + y), f, Stepped(j.dst), {})
  BY <1>7
<1>9. Leaves(S, c, o, Long(c.pc + y), f, Stepped(j.dst), j.dst, j.n, v)
  BY <1>1, <1>3, <1>4, <1>6, <1>8, PutLeaves
<1> HIDE DEF o
<1>10. Stepped(j.src) \subseteq 8 .. 15
  BY <1>1, SteppedHigh
<1>11. Leaves(S, b, o, Long(c.pc + y), f, Stepped(j.src) \cup Stepped(j.dst), j.dst, j.n, v)
  BY <1>1, <1>2, <1>9, <1>10, ThenLeaves
<1>12. Long(c.pc + y) = Long(b.pc + Words(j))
  <2>1. x \in Int /\ y \in Int /\ b.pc \in Int
    BY <1>1, StepIs, MachineParts
  <2> HIDE DEF x, y
  <2>4. b.pc + x \in Int
    BY <2>1
  <2>2. Long(Long(b.pc + x) + y) = Long((b.pc + x) + y)
    BY <2>1, <2>4, LongSum
  <2>3. (b.pc + x) + y = b.pc + (x + y)
    BY <2>1
  <2> QED
    BY <1>3, <2>2, <2>3 DEF Words, x, y
<1>13. Finish(b, j, f, v) = o
  BY DEF Finish, o, u, d, c
<1> QED
  BY <1>11, <1>12, <1>13

(* What is left in its place, is done.                                     *)
LEMMA LeavesDone ==
  ASSUME NEW S, NEW b \in MachinesWith(S), NEW j \in Decoded, NEW o, NEW f \in Flags,
         NEW v \in Int, j.n \in All, j.dst.mode \in D \cup Memory,
         j.op \in Computed \cup Puts,
         Leaves(S, b, o, Long(b.pc + Words(j)), f, Stepped(j.src) \cup Stepped(j.dst),
                j.dst, j.n, v),
         FlagsDone(j, b.ccr, f),
         j.op \in Testing => v \in Values(Half(j.n)) /\ f = Tested(v, b.ccr, j.n)
  PROVE  Done(S, b, j, o)
<1> DEFINE R == (Stepped(j.src) \cup Stepped(j.dst)) \cup Into(j.dst)
           B == At(j.dst, Pointed(o, j.dst, j.n), j.n)
<1>1. Effect(S, b, o, Long(b.pc + Words(j)), f, R, B)
  BY DEF Leaves
<1>2. /\ j.op \notin ReadOnly /\ j.op \notin Pushing
      /\ j.op \notin {"movem_re", "movep_re", "movem_er", "multiply", "divide"}
  BY SMT DEF Computed, Puts, Logical, Sums, BitChanges, Shiftings, Moves, ReadOnly, Pushing
<1>3. Behind(b, j) = Long(b.pc + Words(j))
  <2>1. Extension(j.src, j.n) \in Int /\ Extension(j.dst, j.n) \in Int
    BY StepIs DEF Decoded
  <2>2. LengthOf(j) - 2 = Words(j)
    BY <1>2, <2>1 DEF LengthOf, Words
  <2> QED
    BY <2>2 DEF Behind
<1>4. R \subseteq RegistersOf(j)
  BY <1>2 DEF RegistersOf, Into, NumberOf, AD
<1>5. B = BytesDone(b, o, j)
  <2>1. Memory \cap D = {}
    BY DEF Memory, D
  <2>2. CASE j.dst.mode = "d"
    <3>1. j.dst.mode \notin Memory
      BY <2>1, <2>2 DEF D
    <3> QED
      BY <1>2, <2>2, <3>1 DEF BytesDone, At
  <2>3. CASE j.dst.mode # "d"
    <3>1. j.dst.mode \in Memory
      BY <2>3 DEF D
    <3>2. Target(o, j) = Place(Pointed(o, j.dst, j.n), j.n)
      BY <1>2 DEF Target
    <3> QED
      BY <1>2, <2>3, <3>1, <3>2 DEF BytesDone, At
  <2> QED
    BY <2>2, <2>3
<1>6. o \in MachinesWith(S) /\ Kept(b, o) /\ o.ppc = b.ppc /\ o.ccr = f /\ (o.run => b.run)
      /\ o.pc = Behind(b, j)
  BY <1>1, <1>3 DEF Effect, Kept
<1>7. \A k \in 0 .. 15 : k \in RegistersOf(j) \/ o.da[k] = b.da[k]
  BY <1>1, <1>4 DEF Effect
<1>8. \A x \in S : x \in BytesDone(b, o, j) \/ o.ram[x] = b.ram[x]
  BY <1>1, <1>5 DEF Effect
<1>9. TestDone(b, j, o)
  <2> SUFFICES ASSUME j.op \in Testing, o.run PROVE ResultOf(o, j) = v
    BY <1>2, <1>6 DEF TestDone
  <2>1. CASE j.dst.mode = "d"
    <3>1. Low(o.da[j.dst.r], j.n) = Low(v, j.n)
      BY <2>1 DEF Leaves
    <3>2. j.n \in 1 .. 4
      BY DEF All
    <3>3. Low(v, j.n) = v
      BY <3>2, LowIs
    <3> QED
      BY <1>2, <2>1, <3>1, <3>3 DEF ResultOf
  <2>2. CASE j.dst.mode # "d"
    BY <2>2 DEF Leaves, ResultOf
  <2> QED
    BY <2>1, <2>2
<1>10. j.dst.mode = "d" => Upper(o.da[j.dst.r], j.n) = Upper(b.da[j.dst.r], j.n)
  BY DEF Leaves
<1> QED
  BY <1>6, <1>7, <1>8, <1>9, <1>10 DEF Done

(* A calculation in its place.                                             *)
LEMMA FinishDone ==
  ASSUME NEW S, NEW b \in MachinesWith(S), NEW j \in Decoded, Legal(j), j.op \in Computed,
         NEW f \in Flags, NEW v \in Int, FlagsDone(j, b.ccr, f),
         j.op \in Logical => v \in Values(Half(j.n)) /\ f = Tested(v, b.ccr, j.n)
  PROVE  Done(S, b, j, Finish(b, j, f, v))
<1>1. j.n \in All /\ j.dst.mode \in D \cup Memory
  BY ModesAre DEF ModeFacts, Computed
<1>2. Leaves(S, b, Finish(b, j, f, v), Long(b.pc + Words(j)), f,
             Stepped(j.src) \cup Stepped(j.dst), j.dst, j.n, v)
  BY <1>1, FinishLeaves
<1>3. j.op \in Testing => j.op \in Logical
  BY SMT DEF Testing, Computed, Logical, Sums, BitChanges, Shiftings
<1> QED
  BY <1>1, <1>2, <1>3, LeavesDone

Source(b, j) == Operand(b, j.src, j.n).v

Destination(b, j) == Operand(Operand(b, j.src, j.n).m, j.dst, j.n).v

(* A source fetched is a value of its size.                                *)
LEMMA SourcesAre ==
  ASSUME NEW S, NEW b \in MachinesWith(S), NEW j \in Decoded, Legal(j)
  PROVE  /\ Source(b, j) \in Longs /\ Source(b, j) \in Int
         /\ Destination(b, j) \in Longs /\ Destination(b, j) \in Int
         /\ j.src.mode # "q" => Source(b, j) \in Values(Half(j.n))
         /\ j.dst.mode # "q" => Destination(b, j) \in Values(Half(j.n))
<1> DEFINE c == Operand(b, j.src, j.n).m
<1>1. j.src \in Operands /\ j.dst \in Operands /\ j.n \in All
  BY ModesAre DEF Decoded, ModeFacts
<1>2. c \in MachinesWith(S)
  BY <1>1, OperandIs DEF Effect
<1> HIDE DEF c
<1>3. Destination(b, j) = Operand(c, j.dst, j.n).v
  BY DEF Destination, c
<1> QED
  BY <1>1, <1>2, <1>3, OperandIs, LongsAre DEF Source

(* Additions, subtractions and decimal arithmetic.                         *)
LEMMA SumsDone ==
  ASSUME NEW S, NEW b \in MachinesWith(S), NEW j \in Decoded, Legal(j), j.op \in Sums,
         NEW late
  PROVE  Done(S, b, j, Arithmetic(b, j, late))
<1> DEFINE s == Source(b, j)
           d == Destination(b, j)
           n == j.n
           g == b.ccr
           h == Arithmetic(b, j, late)
           Fin(o) == h = Finish(b, j, o.ccr, o.value)
<1>1. s \in Int /\ d \in Int /\ g \in Flags /\ n \in All
  BY SourcesAre, MachineParts, ModesAre DEF ModeFacts
<1>2. /\ Right(Plus(s, d, g, n)) /\ Right(PlusX(s, d, g, n))
      /\ Right(Minus(s, d, g, n)) /\ Right(MinusX(s, d, g, n))
      /\ Right(Neg(Wide(n), d, Half(n))) /\ Right(NegX(Wide(n), d, g, Half(n)))
      /\ Right(abcd(s, d, g)) /\ Right(sbcd(s, d, g)) /\ Right(nbcd(d, g))
  BY <1>1, SumsAre, DecimalsAre
<1>3. \A o : Right(o) /\ Fin(o) => Done(S, b, j, h)
  <2> TAKE o
  <2> HAVE Right(o) /\ Fin(o)
  <2>1. j.op \in Computed /\ j.op \notin Logical
    BY SMT DEF Computed, Sums, Logical
  <2>2. o.value \in Int /\ o.ccr \in Flags
    BY DEF Right
  <2>3. FlagsDone(j, g, o.ccr)
    <3>1. FlagsOf(j) = FlagNames
      BY FlagsOfIs DEF Coding
    <3> QED
      BY <1>1, <2>2, <3>1, FlagsDoneIs
  <2> HIDE DEF h
  <2> QED
    BY <2>1, <2>2, <2>3, FinishDone
<1>4. CASE j.op \in {"add_er", "add_re", "addi", "addq"}
  <2>1. h = Calculated(b, j, Plus)
    BY <1>4 DEF Arithmetic, add_er, add_re, addi, addq
  <2>2. Fin(Plus(s, d, g, n))
    BY <2>1 DEF Calculated, Finish, Flagged, Source, Destination
  <2> QED
    BY <1>2, <1>3, <2>2
<1>5. CASE j.op \in {"addx_rr", "addx_mm"}
  <2>1. h = Calculated(b, j, PlusX)
    BY <1>5 DEF Arithmetic, addx_rr, addx_mm
  <2>2. Fin(PlusX(s, d, g, n))
    BY <2>1 DEF Calculated, Finish, Flagged, Source, Destination
  <2> QED
    BY <1>2, <1>3, <2>2
<1>6. CASE j.op \in {"sub_er", "sub_re", "subi", "subq"}
  <2>1. h = Calculated(b, j, Minus)
    BY <1>6 DEF Arithmetic, sub_er, sub_re, subi, subq
  <2>2. Fin(Minus(s, d, g, n))
    BY <2>1 DEF Calculated, Finish, Flagged, Source, Destination
  <2> QED
    BY <1>2, <1>3, <2>2
<1>7. CASE j.op \in {"subx_rr", "subx_mm"}
  <2>1. h = Calculated(b, j, MinusX)
    BY <1>7 DEF Arithmetic, subx_rr, subx_mm
  <2>2. Fin(MinusX(s, d, g, n))
    BY <2>1 DEF Calculated, Finish, Flagged, Source, Destination
  <2> QED
    BY <1>2, <1>3, <2>2
<1>8. CASE j.op \in {"abcd_rr", "abcd_mm"}
  <2>1. h = Calculated(b, j, LAMBDA x, y, f, z : abcd(x, y, f))
    BY <1>8 DEF Arithmetic, abcd_rr, abcd_mm
  <2>2. Fin(abcd(s, d, g))
    BY <2>1 DEF Calculated, Finish, Flagged, Source, Destination
  <2> QED
    BY <1>2, <1>3, <2>2
<1>9. CASE j.op \in {"sbcd_rr", "sbcd_mm"}
  <2>1. h = Calculated(b, j, LAMBDA x, y, f, z : sbcd(x, y, f))
    BY <1>9 DEF Arithmetic, sbcd_rr, sbcd_mm
  <2>2. Fin(sbcd(s, d, g))
    BY <2>1 DEF Calculated, Finish, Flagged, Source, Destination
  <2> QED
    BY <1>2, <1>3, <2>2
<1>10. CASE j.op \in {"nbcd"}
  <2>1. h = Calculated(b, j, LAMBDA x, y, f, z : nbcd(y, f))
    BY <1>10 DEF Arithmetic, nbcd_
  <2>2. Fin(nbcd(d, g))
    BY <2>1 DEF Calculated, Finish, Flagged, Source, Destination
  <2> QED
    BY <1>2, <1>3, <2>2
<1>11. CASE j.op \in {"neg"}
  <2>1. h = Calculated(b, j, LAMBDA x, y, f, z : Neg(Wide(z), y, Half(z)))
    BY <1>11 DEF Arithmetic, neg
  <2>2. Fin(Neg(Wide(n), d, Half(n)))
    BY <2>1 DEF Calculated, Finish, Flagged, Source, Destination
  <2> QED
    BY <1>2, <1>3, <2>2
<1>12. CASE j.op \in {"negx"}
  <2>1. h = Calculated(b, j, LAMBDA x, y, f, z : NegX(Wide(z), y, f, Half(z)))
    BY <1>12 DEF Arithmetic, negx
  <2>2. Fin(NegX(Wide(n), d, g, Half(n)))
    BY <2>1 DEF Calculated, Finish, Flagged, Source, Destination
  <2> QED
    BY <1>2, <1>3, <2>2
<1> QED
  BY <1>4, <1>5, <1>6, <1>7, <1>8, <1>9, <1>10, <1>11, <1>12 DEF Sums

(* And, or, exclusive or, not.                                             *)
LEMMA LogicalDone ==
  ASSUME NEW S, NEW b \in MachinesWith(S), NEW j \in Decoded, Legal(j), j.op \in Logical,
         NEW undef
  PROVE  Done(S, b, j, BitwiseOf(b, j, undef))
<1> DEFINE s == Source(b, j)
           d == Destination(b, j)
           n == j.n
           g == b.ccr
           h == BitwiseOf(b, j, undef)
           Fin(o) == h = Finish(b, j, o.ccr, o.value)
           Fits(o) == o.value \in Values(Half(n)) /\ o.ccr = Tested(o.value, g, n)
           minus == Low(-1 - d, n)
           inverse == [value |-> minus, ccr |-> Tested(minus, g, n)]
<1>1. /\ s \in Values(Half(n)) /\ d \in Values(Half(n)) /\ d \in Int /\ g \in Flags /\ n \in All
      /\ n \in 1 .. 4
  <2>1. j.src.mode # "q" /\ j.dst.mode # "q" /\ n \in All
    BY ModesAre DEF ModeFacts, D, Memory
  <2> QED
    BY <2>1, SourcesAre, MachineParts DEF All
<1>2. /\ Fits(With(s, d, g, n)) /\ Fits(Either(s, d, g, n)) /\ Fits(Differ(s, d, g, n))
      /\ Fits(inverse)
  <2>1. -1 - d \in Int
    BY <1>1
  <2>2. minus \in Values(Half(n))
    BY <1>1, <2>1, LowIs
  <2> HIDE DEF minus
  <2> QED
    BY <1>1, <2>2, BitwiseAre DEF With, Either, Differ
<1>3. \A o : Fits(o) /\ Fin(o) => Done(S, b, j, h)
  <2> TAKE o
  <2> HAVE Fits(o) /\ Fin(o)
  <2>1. j.op \in Computed /\ j.op \in KeepingX
    BY SMT DEF Computed, Logical, KeepingX, Testing
  <2>2. o.value \in Int
    BY <1>1, UpperBytes
  <2>3. o.ccr \in Flags /\ o.ccr.X = g.X
    BY <1>1, <2>2, TestedIs
  <2>4. FlagsDone(j, g, o.ccr)
    BY <1>1, <2>1, <2>3, FlagsOfIs, FlagsDoneIs
  <2> HIDE DEF h
  <2> QED
    BY <2>1, <2>2, <2>3, <2>4, FinishDone
<1>4. CASE j.op \in {"and_er", "and_re", "andi"}
  <2>1. h = Calculated(b, j, With)
    BY <1>4 DEF BitwiseOf, and_er, and_re, andi
  <2>2. Fin(With(s, d, g, n))
    BY <2>1 DEF Calculated, Finish, Flagged, Source, Destination
  <2> QED
    BY <1>2, <1>3, <2>2
<1>5. CASE j.op \in {"or_er", "or_re", "ori"}
  <2>1. h = Calculated(b, j, Either)
    BY <1>5 DEF BitwiseOf, or_er, or_re, ori
  <2>2. Fin(Either(s, d, g, n))
    BY <2>1 DEF Calculated, Finish, Flagged, Source, Destination
  <2> QED
    BY <1>2, <1>3, <2>2
<1>6. CASE j.op \in {"eor", "eori"}
  <2>1. h = Calculated(b, j, Differ)
    BY <1>6 DEF BitwiseOf, eor, eori
  <2>2. Fin(Differ(s, d, g, n))
    BY <2>1 DEF Calculated, Finish, Flagged, Source, Destination
  <2> QED
    BY <1>2, <1>3, <2>2
<1>7. CASE j.op = "not"
  <2>1. h = not(b, j)
    BY <1>7 DEF BitwiseOf
  <2>2. Fin(inverse) /\ Fits(inverse)
    BY <1>2, <2>1 DEF not, Calculated, Finish, Flagged, Source, Destination
  <2> HIDE DEF h, inverse, Fin, Fits
  <2> QED
    BY <1>3, <2>2 DEF h
<1> QED
  BY <1>4, <1>5, <1>6, <1>7 DEF Logical

(* The bit instructions that write.                                        *)
LEMMA BitsDone ==
  ASSUME NEW S, NEW b \in MachinesWith(S), NEW j \in Decoded, Legal(j), j.op \in BitChanges,
         NEW undef
  PROVE  Done(S, b, j, BitwiseOf(b, j, undef))
<1> DEFINE s == Source(b, j)
           d == Destination(b, j)
           n == j.n
           g == b.ccr
           h == BitwiseOf(b, j, undef)
           k == s % Bits(n)
           set == Bit(d, k)
           Val(t) == d - (IF set THEN 2^k ELSE 0) + (IF t THEN 2^k ELSE 0)
           f == [g EXCEPT !.Z = ~set]
<1>1. s \in Int /\ d \in Int /\ g \in Flags /\ n \in All
  BY SourcesAre, MachineParts, ModesAre DEF ModeFacts
<1>2. set \in BOOLEAN /\ f \in Flags /\ \A t \in BOOLEAN : Val(t) \in Int
  BY <1>1, BitChanged, BitIs
<1>3. f.X = g.X /\ f.N = g.N /\ f.V = g.V /\ f.C = g.C
  BY <1>1, FlagsParts DEF Flags
<1>4. j.op \in Computed /\ j.op \notin Logical
  BY SMT DEF Computed, BitChanges, Logical
<1>5. FlagsDone(j, g, f)
  <2>1. FlagsOf(j) = {"Z"}
    BY FlagsOfIs
  <2> QED
    BY <1>1, <1>2, <1>3, <2>1, FlagsDoneIs
<1> HIDE DEF h
<1>6. CASE j.op \in {"bchg_r", "bchg_rd", "bchg_s", "bchg_sd"}
  <2> DEFINE v == Val(~set)
  <2>1. h = bchg(b, j)
    BY <1>6 DEF h, BitwiseOf
  <2>2. h = Finish(b, j, f, v)
    BY <2>1 DEF bchg, BitOp, Calculated, Finish, Flagged, Source, Destination
  <2>3. v \in Int
    BY <1>2
  <2> HIDE DEF v, f
  <2> QED
    BY <1>2, <1>4, <1>5, <2>2, <2>3, FinishDone DEF h
<1>7. CASE j.op \in {"bclr_r", "bclr_rd", "bclr_s", "bclr_sd"}
  <2> DEFINE v == Val(FALSE)
  <2>1. h = bclr(b, j)
    BY <1>7 DEF h, BitwiseOf
  <2>2. h = Finish(b, j, f, v)
    BY <2>1 DEF bclr, BitOp, Calculated, Finish, Flagged, Source, Destination
  <2>3. v \in Int
    BY <1>2
  <2> HIDE DEF v, f
  <2> QED
    BY <1>2, <1>4, <1>5, <2>2, <2>3, FinishDone DEF h
<1>8. CASE j.op \in {"bset_r", "bset_rd", "bset_s", "bset_sd"}
  <2> DEFINE v == Val(TRUE)
  <2>1. h = bset(b, j)
    BY <1>8 DEF h, BitwiseOf
  <2>2. h = Finish(b, j, f, v)
    BY <2>1 DEF bset, BitOp, Calculated, Finish, Flagged, Source, Destination
  <2>3. v \in Int
    BY <1>2
  <2> HIDE DEF v, f
  <2> QED
    BY <1>2, <1>4, <1>5, <2>2, <2>3, FinishDone DEF h
<1> QED
  BY <1>6, <1>7, <1>8 DEF BitChanges, h

(* Tas.                                                                    *)
LEMMA TasDone ==
  ASSUME NEW S, NEW b \in MachinesWith(S), NEW j \in Decoded, Legal(j), j.op = "tas",
         NEW undef
  PROVE  Done(S, b, j, BitwiseOf(b, j, undef))
<1> DEFINE d == Destination(b, j)
           g == b.ccr
           f == Tested(d, g, 1)
           v == IF Msb(d, Bits(1)) THEN d ELSE d + Half(1)
<1>1. d \in Int /\ g \in Flags /\ 1 \in All /\ Half(1) \in Int
  BY SourcesAre, MachineParts, Widths DEF All, Numbers
<1>2. f \in Flags /\ f.X = g.X /\ v \in Int
  <2>1. f \in Flags /\ f.X = g.X
    BY <1>1, TestedIs
  <2>2. v \in Int
    <3> HIDE DEF d
    <3> QED
      BY <1>1
  <2> QED
    BY <2>1, <2>2
<1>3. BitwiseOf(b, j, undef) = Finish(b, j, f, v)
  <2>1. BitwiseOf(b, j, undef) = tas(b, j)
    BY DEF BitwiseOf
  <2> QED
    BY <2>1 DEF tas, Calculated, Finish, Flagged, Source, Destination
<1>4. j.op \in Computed /\ j.op \notin Logical /\ j.op \in KeepingX
  BY SMT DEF Computed, Logical, KeepingX
<1> HIDE DEF f, v
<1>5. FlagsDone(j, g, f)
  BY <1>1, <1>2, <1>4, FlagsOfIs, FlagsDoneIs
<1> QED
  BY <1>2, <1>3, <1>4, <1>5, FinishDone

(* Shifts and rotates.                                                     *)
LEMMA ShiftsDone ==
  ASSUME NEW S, NEW b \in MachinesWith(S), NEW j, Fitting(j), Legal(j), j.op \in Shiftings,
         NEW undef \in BOOLEAN
  PROVE  Done(S, b, j, BitwiseOf(b, j, undef))
<1> DEFINE s == Source(b, j)
           d == Destination(b, j)
           n == j.n
           g == b.ccr
           count == b.da[j.src.r] % 64
           h == BitwiseOf(b, j, undef)
           Good(o) == Right(o) /\ (j.how \in {"rol", "ror"} => o.ccr.X = g.X)
           wide == Wide(n)
<1>1. j \in Decoded /\ j.how \in Shifts
  BY DEF Fitting
<1>2. /\ d \in Int /\ g \in Flags /\ n \in All /\ Bits(n) \in Nat \ {0} /\ Bits(2) \in Nat \ {0}
      /\ count \in Nat /\ wide \in BOOLEAN
  <2>1. j.src.r \in 0 .. 15
    BY <1>1, OperandParts DEF Decoded
  <2>2. b.da[j.src.r] \in Int
    BY <2>1, MachineParts
  <2>3. count \in Nat
    BY <2>2
  <2>4. n \in All /\ 2 \in All
    BY ModesAre DEF ModeFacts, All
  <2> QED
    BY <1>1, <2>3, <2>4, SourcesAre, MachineParts, BitsAre DEF Wide
<1>3. ASSUME NEW o, Good(o), h = Finish(b, j, o.ccr, o.value) PROVE Done(S, b, j, h)
  <2>1. j.op \in Computed /\ j.op \notin Logical
    BY SMT DEF Computed, Shiftings, Logical
  <2>2. o.value \in Int /\ o.ccr \in Flags
    BY <1>3 DEF Right
  <2>3. FlagsDone(j, g, o.ccr)
    BY <1>2, <1>3, <2>2, FlagsOfIs, FlagsDoneIs
  <2> HIDE DEF h
  <2> QED
    BY <1>1, <1>3, <2>1, <2>2, <2>3, FinishDone
<1> HIDE DEF h
<1>4. CASE j.op = "shift_s"
  <2> DEFINE o == ByImmediate(j.how, d, s, Bits(n), wide, g)
  <2>1. h = shift_s(b, j)
    BY <1>4 DEF BitwiseOf, h
  <2>2. h = Finish(b, j, o.ccr, o.value)
    BY <2>1 DEF shift_s, Calculated, Finish, Flagged, Source, Destination
  <2>3. s \in 1 .. Bits(n)
    <3>1. j.src.mode = "q"
      BY <1>4, ModesAre DEF ModeFacts
    <3>2. s = j.src.d
      BY <3>1 DEF Source, Operand
    <3> QED
      BY <1>2, <1>4, <3>2 DEF Fitting
  <2>4. Good(o)
    <3> DEFINE bits == Bits(n)
    <3>1. bits \in Nat \ {0} /\ s \in 1 .. bits
      BY <1>2, <2>3
    <3> HIDE DEF bits, wide, s, d
    <3>2. LET p == ByImmediate(j.how, d, s, bits, wide, g)
          IN  Right(p) /\ (j.how \in {"rol", "ror"} => p.ccr.X = g.X)
      BY <1>1, <1>2, <3>1, ByImmediateIs
    <3> QED
      BY <3>2 DEF bits
  <2> HIDE DEF o
  <2> QED
    BY <1>3, <2>2, <2>4 DEF h
<1>5. CASE j.op = "shift_m"
  <2> DEFINE o == InMemory(j.how, d, Bits(2), g)
  <2>1. h = shift_m(b, j)
    BY <1>5 DEF BitwiseOf, h
  <2>2. h = Finish(b, j, o.ccr, o.value)
    BY <2>1 DEF shift_m, Calculated, Finish, Flagged, Source, Destination
  <2>4. Good(o)
    BY <1>1, <1>2, InMemoryIs
  <2> HIDE DEF o
  <2> QED
    BY <1>3, <2>2, <2>4 DEF h
<1>6. CASE j.op = "shift_r"
  <2> DEFINE o == ByRegister(j.how, d, count, Bits(n), wide, undef, g)
  <2>1. h = shift_r(b, j, undef)
    BY <1>6 DEF BitwiseOf, h
  <2>2. h = Finish(b, j, o.ccr, o.value)
    BY <2>1 DEF shift_r, Calculated, Finish, Flagged, Source, Destination
  <2>4. Good(o)
    <3> HIDE DEF count, wide, d
    <3>2. g \in Flags /\ j.how \in Shifts
      BY <1>1, <1>2
    <3>1. ASSUME NEW x \in Int, NEW z \in Nat \ {0}, NEW k \in Nat, NEW w \in BOOLEAN
          PROVE  Good(ByRegister(j.how, x, k, z, w, undef, g))
      BY <3>2, ByRegisterIs
    <3> QED
      BY <1>2, <3>1
  <2> HIDE DEF o
  <2> QED
    BY <1>3, <2>2, <2>4 DEF h
<1> QED
  BY <1>4, <1>5, <1>6 DEF Shiftings, h

(* A mode of the instruction word takes no other word.                     *)
LEMMA PlainWords ==
  ASSUME NEW j, j.src.mode \in {"none", "q", "d", "a"}
  PROVE  Extension(j.src, j.n) = 0 /\ Stepped(j.src) = {}
  BY DEF Extension, Stepped

(* The words of both operands, taken one after the other.                  *)
LEMMA WordsAfter ==
  ASSUME NEW S, NEW b \in MachinesWith(S), NEW j \in Decoded, j.n \in All
  PROVE  /\ Long(Long(b.pc + Extension(j.src, j.n)) + Extension(j.dst, j.n)) = Long(b.pc + Words(j))
         /\ Extension(j.src, j.n) = 0 => Long(b.pc + Extension(j.dst, j.n)) = Long(b.pc + Words(j))
         /\ Extension(j.dst, j.n) = 0 => Long(b.pc + Extension(j.src, j.n)) = Long(b.pc + Words(j))
         /\ j.op \notin {"movem_re", "movem_er"} => Behind(b, j) = Long(b.pc + Words(j))
         /\ j.op \notin {"movem_re", "movem_er"} /\ Extension(j.src, j.n) = 0
               /\ Extension(j.dst, j.n) = 0 => Behind(b, j) = b.pc
<1> DEFINE x == Extension(j.src, j.n)
           y == Extension(j.dst, j.n)
<1>1. x \in Int /\ y \in Int /\ b.pc \in Int /\ b.pc \in Longs
  BY StepIs, MachineParts DEF Decoded
<1>2. j.op \notin {"movem_re", "movem_er"} => LengthOf(j) - 2 = x + y
  BY <1>1 DEF LengthOf
<1> HIDE DEF x, y
<1>3. Long(Long(b.pc + x) + y) = Long(b.pc + (x + y))
  <2>1. b.pc + x \in Int
    BY <1>1
  <2>2. Long(Long(b.pc + x) + y) = Long((b.pc + x) + y)
    BY <1>1, <2>1, LongSum
  <2>3. (b.pc + x) + y = b.pc + (x + y)
    BY <1>1
  <2> QED
    BY <2>2, <2>3
<1>4. x = 0 => x + y = y
  BY <1>1
<1>5. y = 0 => x + y = x
  BY <1>1
<1>6. x = 0 /\ y = 0 => x + y = 0
  BY <1>1
<1>7. Long(b.pc + 0) = b.pc
  BY <1>1, LongKeeps
<1> QED
  BY <1>2, <1>3, <1>4, <1>5, <1>6, <1>7 DEF Words, Behind, x, y

(* A value put where nothing was looked at.                                *)
LEMMA PutIs ==
  ASSUME NEW S, NEW c \in MachinesWith(S), NEW j \in Decoded, NEW v \in Int,
         j.n \in All, j.dst.mode \in D \cup Memory
  PROVE  Leaves(S, c, Put(c, j, v), Long(c.pc + Extension(j.dst, j.n)), c.ccr,
                Stepped(j.dst), j.dst, j.n, v)
<1> DEFINE u == Used(c, j.dst, j.n)
<1>1. j.dst \in Operands
  BY DEF Decoded
<1>2. Effect(S, c, u, Long(c.pc + Extension(j.dst, j.n)), c.ccr, Stepped(j.dst), {})
  BY <1>1, UsedIs
<1>3. Put(c, j, v) = Store(u, j.dst, EA(c, j.dst, j.n), j.n, v)
  BY DEF Put
<1>4. u.da = Used(c, j.dst, j.n).da
  OBVIOUS
<1> HIDE DEF u
<1> QED
  BY <1>1, <1>2, <1>3, <1>4, PutLeaves

(* clr, scc and move_frs have no source.                                   *)
LEMMA PutDone ==
  ASSUME NEW S, NEW b \in MachinesWith(S), NEW j \in Decoded, NEW v \in Int, Legal(j),
         j.op \in {"clr", "scc", "move_frs"}, NEW o, NEW f \in Flags,
         \/ o = Put(b, j, v) /\ f = b.ccr /\ j.op # "clr"
         \/ o = Flagged(Put(b, j, v), f) /\ v = 0 /\ f = Tested(0, b.ccr, j.n) /\ j.op = "clr"
  PROVE  Done(S, b, j, o)
<1>1. j.n \in All /\ j.dst.mode \in D \cup Memory /\ j.src.mode = "none"
  BY ModesAre DEF ModeFacts, Puts, None
<1>2. Extension(j.src, j.n) = 0 /\ Stepped(j.src) = {}
  BY <1>1, PlainWords
<1>3. Long(b.pc + Extension(j.dst, j.n)) = Long(b.pc + Words(j))
  BY <1>1, <1>2, WordsAfter
<1>4. Stepped(j.dst) = Stepped(j.src) \cup Stepped(j.dst)
  BY <1>2
<1>5. Leaves(S, b, Put(b, j, v), Long(b.pc + Words(j)), b.ccr,
             Stepped(j.src) \cup Stepped(j.dst), j.dst, j.n, v)
  BY <1>1, <1>3, <1>4, PutIs
<1>6. Leaves(S, b, o, Long(b.pc + Words(j)), f,
             Stepped(j.src) \cup Stepped(j.dst), j.dst, j.n, v)
  BY <1>1, <1>5, LeavesThenFlags
<1>7. j.op \in Computed \cup Puts
  BY DEF Puts
<1>8. b.ccr \in Flags
  BY MachineParts
<1>9. j.op \in Testing => j.op = "clr"
  BY DEF Testing
<1>10. FlagsDone(j, b.ccr, f)
  <2>1. CASE j.op = "clr"
    <3>1. j.op \in KeepingX
      BY <2>1 DEF KeepingX, Testing
    <3>2. f.X = b.ccr.X
      BY <2>1, <1>8, <1>1, TestedIs
    <3> QED
      BY <1>8, <3>1, <3>2, FlagsOfIs, FlagsDoneIs
  <2>2. CASE j.op # "clr"
    BY <2>2, <1>8, FlagsDoneIs
  <2> QED
    BY <2>1, <2>2
<1>11. v = 0 => v \in Values(Half(j.n))
  BY <1>1, Widths, SMT DEF All, Numbers
<1> QED
  BY <1>1, <1>6, <1>7, <1>9, <1>10, <1>11, LeavesDone

(* Move to data and memory.                                                *)
LEMMA MovesDone ==
  ASSUME NEW S, NEW b \in MachinesWith(S), NEW j \in Decoded, Legal(j), j.op \in Moves
  PROVE  Done(S, b, j, Transfer(b, j))
<1> DEFINE c == Operand(b, j.src, j.n).m
           v == Operand(b, j.src, j.n).v
           f == Tested(v, b.ccr, j.n)
           p == Put(c, j, v)
           o == Flagged(p, f)
<1>1. /\ j.n \in All /\ j.dst.mode \in D \cup Memory /\ j.src.mode # "q"
      /\ j.src \in Operands /\ j.dst \in Operands /\ b.ccr \in Flags
  BY ModesAre, MachineParts DEF ModeFacts, Puts, Decoded
<1>2. /\ Effect(S, b, c, Long(b.pc + Extension(j.src, j.n)), b.ccr, Stepped(j.src), {})
      /\ v \in Values(Half(j.n)) /\ v \in Int
  BY <1>1, OperandIs, LongsAre
<1>3. c \in MachinesWith(S) /\ c.pc = Long(b.pc + Extension(j.src, j.n)) /\ c.ccr = b.ccr
  BY <1>2 DEF Effect
<1>4. Transfer(b, j) = o
  <2>1. Transfer(b, j) = Moved(b, j)
    BY DEF Transfer, Moves, move_8, move_16, move_32
  <2>2. p.ccr = c.ccr
    <3> HIDE DEF c, v
    <3>1. Leaves(S, c, p, Long(c.pc + Extension(j.dst, j.n)), c.ccr, Stepped(j.dst), j.dst, j.n, v)
      BY <1>1, <1>2, <1>3, PutIs
    <3> QED
      BY <3>1 DEF Leaves, Effect
  <2>3. Moved(b, j) = [p EXCEPT !.ccr = Tested(v, p.ccr, j.n)]
    BY DEF Moved
  <2> QED
    BY <1>3, <2>1, <2>2, <2>3 DEF Flagged
<1> HIDE DEF c, v
<1>5. Leaves(S, c, p, Long(c.pc + Extension(j.dst, j.n)), c.ccr, Stepped(j.dst), j.dst, j.n, v)
  BY <1>1, <1>2, <1>3, PutIs
<1> HIDE DEF p
<1>6. f \in Flags /\ f.X = b.ccr.X
  BY <1>1, <1>2, TestedIs
<1> HIDE DEF f
<1>7. Leaves(S, c, o, Long(c.pc + Extension(j.dst, j.n)), f, Stepped(j.dst), j.dst, j.n, v)
  BY <1>1, <1>5, <1>6, LeavesThenFlags
<1> HIDE DEF o
<1>8. Stepped(j.src) \subseteq 8 .. 15
  BY <1>1, SteppedHigh
<1>9. Leaves(S, b, o, Long(c.pc + Extension(j.dst, j.n)), f, Stepped(j.src) \cup Stepped(j.dst),
             j.dst, j.n, v)
  BY <1>1, <1>2, <1>7, <1>8, ThenLeaves
<1>10. Long(c.pc + Extension(j.dst, j.n)) = Long(b.pc + Words(j))
  BY <1>1, <1>3, WordsAfter
<1>11. j.op \in Computed \cup Puts /\ j.op \in KeepingX
  BY SMT DEF Puts, KeepingX, Testing, Moves
<1>12. FlagsDone(j, b.ccr, f)
  BY <1>1, <1>6, <1>11, FlagsOfIs, FlagsDoneIs
<1>13. Done(S, b, j, o)
  BY <1>1, <1>2, <1>6, <1>9, <1>10, <1>11, <1>12, LeavesDone DEF f
<1> QED
  BY <1>4, <1>13

(* Clr, Scc and move from SR.                                              *)
LEMMA ClearsDone ==
  ASSUME NEW S, NEW b \in MachinesWith(S), NEW j \in Decoded, Legal(j), NEW x
  PROVE  /\ j.op = "clr" => Done(S, b, j, Arithmetic(b, j, x))
         /\ j.op = "scc" => Done(S, b, j, BitwiseOf(b, j, x))
         /\ j.op = "move_frs" => Done(S, b, j, Status(b, j))
<1>1. /\ j.n \in All /\ b.ccr \in Flags /\ 0 \in Int /\ Low(-1, 1) \in Int
  BY ModesAre, MachineParts, Widths, SMT DEF ModeFacts, Numbers
<1>2. ASSUME j.op = "clr" PROVE Done(S, b, j, Arithmetic(b, j, x))
  <2> DEFINE f == Tested(0, b.ccr, j.n)
  <2>1. f \in Flags
    BY <1>1, TestedIs
  <2>2. Arithmetic(b, j, x) = Flagged(Put(b, j, 0), f)
    BY <1>2 DEF Arithmetic, clr, Flagged
  <2> HIDE DEF f
  <2> QED
    BY <1>1, <1>2, <2>1, <2>2, PutDone DEF f
<1>3. ASSUME j.op = "scc" PROVE Done(S, b, j, BitwiseOf(b, j, x))
  <2> DEFINE v == IF Holds(j.how, b.ccr) THEN Low(-1, 1) ELSE 0
  <2>1. v \in Int
    BY <1>1
  <2>2. BitwiseOf(b, j, x) = Put(b, j, v)
    BY <1>3 DEF BitwiseOf, scc
  <2> HIDE DEF v
  <2> QED
    BY <1>1, <1>3, <2>1, <2>2, PutDone
<1>4. ASSUME j.op = "move_frs" PROVE Done(S, b, j, Status(b, j))
  <2>1. get_sr(b) \in Int
    BY StatusFits, Widths, SMT DEF Numbers
  <2>2. Status(b, j) = Put(b, j, get_sr(b))
    BY <1>4 DEF Status, move_frs
  <2> QED
    BY <1>1, <1>4, <2>1, <2>2, PutDone
<1> QED
  BY <1>2, <1>3, <1>4

-----------------------------------------------------------------------------
(* Handlers that change registers alone, or bytes of their own.            *)

(* An effect on what an instruction names is all it does.                  *)
LEMMA EffectDone ==
  ASSUME NEW S, NEW b, NEW j, NEW o, NEW pc, NEW f, NEW R, NEW B,
         Effect(S, b, o, pc, f, R, B), Jumps(b, j) \/ pc = Behind(b, j),
         R \subseteq RegistersOf(j), B \subseteq BytesDone(b, o, j), FlagsDone(j, b.ccr, f),
         j.op \in Testing => TestDone(b, j, o),
         j.dst.mode = "d" /\ ~Whole(j) => Upper(o.da[j.dst.r], j.n) = Upper(b.da[j.dst.r], j.n)
  PROVE  Done(S, b, j, o)
<1>1. /\ o \in MachinesWith(S) /\ Kept(b, o) /\ o.ppc = b.ppc /\ o.ccr = f /\ (o.run => b.run)
      /\ o.pc = pc
  BY DEF Effect, Kept
<1>2. \A k \in 0 .. 15 : k \in RegistersOf(j) \/ o.da[k] = b.da[k]
  BY DEF Effect
<1>3. \A x \in S : x \in BytesDone(b, o, j) \/ o.ram[x] = b.ram[x]
  BY DEF Effect
<1>4. TestDone(b, j, o)
  BY DEF TestDone
<1> QED
  BY <1>1, <1>2, <1>3, <1>4 DEF Done

\* the operands fetched and the condition codes set, nothing stored
Looked(b, j, f) == Flagged(Operand(Operand(b, j.src, j.n).m, j.dst, j.n).m, f)

(* Operands looked at, and nothing stored.                                 *)
LEMMA LookedDone ==
  ASSUME NEW S, NEW b \in MachinesWith(S), NEW j \in Decoded, Legal(j), j.op \in Comparisons,
         NEW f \in Flags, FlagsDone(j, b.ccr, f)
  PROVE  Done(S, b, j, Looked(b, j, f))
<1> DEFINE c == Operand(b, j.src, j.n).m
           d == Operand(c, j.dst, j.n).m
           u == Flagged(d, f)
           R == Stepped(j.src) \cup Stepped(j.dst)
<1>1. j.src \in Operands /\ j.dst \in Operands /\ j.n \in All
  BY ModesAre DEF Decoded, ModeFacts
<1>2. Effect(S, b, c, Long(b.pc + Extension(j.src, j.n)), b.ccr, Stepped(j.src), {})
  BY <1>1, OperandIs
<1>3. c \in MachinesWith(S) /\ c.pc = Long(b.pc + Extension(j.src, j.n))
  BY <1>2 DEF Effect
<1> HIDE DEF c
<1>4. Effect(S, c, d, Long(c.pc + Extension(j.dst, j.n)), c.ccr, Stepped(j.dst), {})
  BY <1>1, <1>3, OperandIs
<1>5. d \in MachinesWith(S) /\ d.pc = Long(c.pc + Extension(j.dst, j.n))
  BY <1>4 DEF Effect
<1> HIDE DEF d
<1>6. Effect(S, d, u, d.pc, f, {}, {})
  BY <1>5, FlagsSet
<1> HIDE DEF u
<1>7. Effect(S, c, u, d.pc, f, Stepped(j.dst) \cup {}, {} \cup {})
  BY <1>4, <1>5, <1>6, EffectThen
<1>8. Effect(S, b, u, d.pc, f, Stepped(j.src) \cup (Stepped(j.dst) \cup {}), {} \cup ({} \cup {}))
  BY <1>2, <1>7, EffectThen
<1>9. Effect(S, b, u, d.pc, f, R, {})
  BY <1>8
<1>10. /\ j.op \notin {"movem_re", "movem_er"} /\ j.op \notin Testing
       /\ j.dst.mode \in D \cup Everything
  BY ModesAre, SMT DEF ModeFacts, Comparisons, BitTests, Testing
<1>11. d.pc = Behind(b, j)
  BY <1>1, <1>3, <1>5, <1>10, WordsAfter
<1>12. R \subseteq RegistersOf(j)
  BY DEF RegistersOf
<1>13. j.dst.mode = "d" => u.da[j.dst.r] = b.da[j.dst.r]
  <2> HAVE j.dst.mode = "d"
  <2>1. R \subseteq 8 .. 15 /\ j.dst.r \in 0 .. 7
    BY <1>1, SteppedHigh, OperandParts
  <2>2. j.dst.r \in 0 .. 15 /\ j.dst.r \notin R
    BY <2>1
  <2> QED
    BY <1>9, <2>2 DEF Effect
<1>14. Looked(b, j, f) = u
  BY DEF Looked, u, d, c
<1> QED
  BY <1>9, <1>10, <1>11, <1>12, <1>13, <1>14, EffectDone

(* Comparisons and tests.                                                  *)
LEMMA ComparesDone ==
  ASSUME NEW S, NEW b \in MachinesWith(S), NEW j \in Decoded, Legal(j), NEW x
  PROVE  /\ j.op \in {"cmp", "cmpi", "cmpm", "tst"} => Done(S, b, j, Arithmetic(b, j, x))
         /\ j.op \in BitTests => Done(S, b, j, BitwiseOf(b, j, x))
<1> DEFINE s == Source(b, j)
           d == Destination(b, j)
           n == j.n
           g == b.ccr
<1>1. s \in Int /\ d \in Int /\ g \in Flags /\ n \in All
  BY SourcesAre, MachineParts, ModesAre DEF ModeFacts
<1>2. ASSUME j.op \in {"cmp", "cmpi", "cmpm", "tst"} PROVE Done(S, b, j, Arithmetic(b, j, x))
  <2>1. j.op \in Comparisons /\ j.op \in KeepingX
    BY <1>2 DEF Comparisons, KeepingX
  <2>2. ASSUME NEW f \in Flags, f.X = g.X PROVE Done(S, b, j, Looked(b, j, f))
    <3>1. FlagsDone(j, g, f)
      BY <1>1, <2>1, <2>2, FlagsOfIs, FlagsDoneIs
    <3> QED
      BY <2>1, <3>1, LookedDone
  <2>3. CASE j.op = "tst"
    <3> DEFINE f == Tested(d, g, n)
    <3>1. Arithmetic(b, j, x) = tst(b, j)
      BY <2>3 DEF Arithmetic
    <3>2. Arithmetic(b, j, x) = Looked(b, j, f)
      BY <3>1 DEF tst, Compared, Looked, Flagged, Source, Destination
    <3>3. f \in Flags /\ f.X = g.X
      BY <1>1, TestedIs
    <3> HIDE DEF f
    <3> QED
      BY <2>2, <3>2, <3>3
  <2>4. CASE j.op # "tst"
    <3> DEFINE f == Against(s, d, g, n)
    <3>1. Arithmetic(b, j, x) = Compared(b, j, Against)
      BY <1>2, <2>4 DEF Arithmetic, cmp, cmpi, cmpm
    <3>2. Arithmetic(b, j, x) = Looked(b, j, f)
      BY <3>1 DEF Compared, Looked, Flagged, Source, Destination
    <3>3. f \in Flags /\ f.X = g.X
      BY <1>1, SumsAre
    <3> HIDE DEF f
    <3> QED
      BY <2>2, <3>2, <3>3
  <2> QED
    BY <2>3, <2>4
<1>3. ASSUME j.op \in BitTests PROVE Done(S, b, j, BitwiseOf(b, j, x))
  <2> DEFINE z == ~Bit(d, s % Bits(n))
             f == [g EXCEPT !.Z = z]
  <2>1. BitwiseOf(b, j, x) = btst(b, j)
    BY <1>3 DEF BitwiseOf, BitTests
  <2>2. BitwiseOf(b, j, x) = Looked(b, j, f)
    BY <2>1 DEF btst, Compared, Looked, Flagged, Source, Destination
  <2>3. z \in BOOLEAN
    BY BitIs
  <2> HIDE DEF z
  <2>4. f \in Flags /\ f.X = g.X /\ f.N = g.N /\ f.V = g.V /\ f.C = g.C
    BY <1>1, <2>3 DEF Flags
  <2> HIDE DEF f
  <2>5. j.op \in Comparisons /\ FlagsOf(j) = {"Z"}
    BY <1>3, FlagsOfIs DEF Comparisons
  <2>6. FlagsDone(j, g, f)
    BY <1>1, <2>4, <2>5, FlagsDoneIs
  <2> QED
    BY <2>2, <2>4, <2>5, <2>6, LookedDone
<1> QED
  BY <1>2, <1>3

\* a register and the condition codes set
Rewritten(b, k, v, f) == [b EXCEPT !.ccr = f, !.da[k] = v]

Sets(S, b, o, k, v, f) == Effect(S, b, o, b.pc, f, {k}, {}) /\ o.da[k] = v

(* A data register and the condition codes set.                            *)
LEMMA RewrittenIs ==
  ASSUME NEW S, NEW b \in MachinesWith(S), NEW k \in 0 .. 15, NEW v \in Longs, NEW f \in Flags
  PROVE  Sets(S, b, Rewritten(b, k, v, f), k, v, f)
  BY DEF Sets, Effect, MachinesWith, Rewritten

(* Setting them in either order is the same.                               *)
LEMMA RewrittenEither ==
  ASSUME NEW S, NEW b \in MachinesWith(S), NEW k \in 0 .. 15, NEW v \in Longs, NEW f \in Flags
  PROVE  [b EXCEPT !.da[k] = v, !.ccr = f] = Rewritten(b, k, v, f)
  BY DEF MachinesWith, Rewritten

\* what a handler with a source and a register for its result does
Rewrites(S, b, o, e, n, k, v, f) ==
    /\ Effect(S, b, o, Long(b.pc + Extension(e, n)), f, Stepped(e) \cup {k}, {})
    /\ o.da[k] = v

(* A result into a whole data register.                                    *)
LEMMA IntoRegister ==
  ASSUME NEW S, NEW b \in MachinesWith(S), NEW e \in Operands, NEW n \in All,
         NEW k \in 0 .. 15, NEW v \in Longs, NEW f \in Flags
  PROVE  /\ Rewrites(S, b, Rewritten(Operand(b, e, n).m, k, v, f), e, n, k, v, f)
         /\ Rewrites(S, b, Registered(Operand(b, e, n).m, k, v), e, n, k, v, b.ccr)
<1> DEFINE c == Operand(b, e, n).m
           pc == Long(b.pc + Extension(e, n))
           u == Rewritten(c, k, v, f)
           w == Registered(c, k, v)
<1>1. Effect(S, b, c, pc, b.ccr, Stepped(e), {})
  BY OperandIs
<1>2. c \in MachinesWith(S) /\ c.pc = pc /\ c.ccr = b.ccr
  BY <1>1 DEF Effect
<1> HIDE DEF c
<1>7. c \in MachinesWith(S)
  BY <1>2
<1>3. Effect(S, c, u, c.pc, f, {k}, {}) /\ u.da[k] = v
  <2>1. Sets(S, c, u, k, v, f)
    BY <1>7, RewrittenIs
  <2> QED
    BY <2>1 DEF Sets
<1>4. Effect(S, c, w, c.pc, c.ccr, {k}, {}) /\ w.da[k] = v
  BY <1>2, RegisterSet
<1> HIDE DEF u, w
<1>5. Effect(S, b, u, c.pc, f, Stepped(e) \cup {k}, {} \cup {})
  BY <1>1, <1>3, EffectThen
<1>6. Effect(S, b, w, c.pc, c.ccr, Stepped(e) \cup {k}, {} \cup {})
  BY <1>1, <1>4, EffectThen
<1> QED
  BY <1>2, <1>3, <1>4, <1>5, <1>6 DEF Rewrites, u, w, c

(* What is refused or trapped.                                             *)
Traps(b, j) ==
    LET v == Operand(b, j.src, 2).v
        d == MAKE_INT(b.da[j.dst.r], 2)
    IN  \/ j.op = "divide" /\ v = 0
        \/ j.op = "chk" /\ (d < 0 \/ d > Signed(v, Half(2)))
        \/ j.op = "trapv" /\ b.ccr.V
        \/ j.op = "trap" /\ j.src.d \notin HostTraps

Failed(S, b, j, o) ==
    \E c : /\ Effect(S, b, c, c.pc, c.ccr, IF Refused(b, j) THEN {} ELSE Stepped(j.src), {})
           /\ FlagsDone(j, b.ccr, c.ccr)
           /\ Taken(S, c, o, VectorOf(j), IF Refused(b, j) THEN b.ppc ELSE Behind(b, j))

Outcome(S, b, j, o) ==
    IF Refused(b, j) \/ Traps(b, j) THEN Failed(S, b, j, o) ELSE Done(S, b, j, o)

(* Mulu and muls.                                                          *)
LEMMA MultiplyDone ==
  ASSUME NEW S, NEW b \in MachinesWith(S), NEW j \in Decoded, Legal(j), j.op = "multiply",
         NEW x
  PROVE  Done(S, b, j, Arithmetic(b, j, x))
<1> DEFINE c == Operand(b, j.src, 2).m
           s == Operand(b, j.src, 2).v
           d == Low(b.da[j.dst.r], 2)
           u == IF j.how = "mulu" THEN mulu(s, d, b.ccr, Half(2)) ELSE muls(s, d, b.ccr, Half(2))
           o == Rewritten(c, j.dst.r, u.value, u.ccr)
<1>1. /\ j.n = 2 /\ 2 \in All /\ j.src.mode # "q" /\ j.dst.mode = "d" /\ b.ccr \in Flags
      /\ j.src \in Operands /\ j.dst \in Operands /\ j.dst.r \in 0 .. 15
      /\ 2 \in 1 .. 4
  <2>1. ModeFacts(j.op, Rows(j.op)) /\ j.n \in Rows(j.op).n
        /\ j.src.mode \in Rows(j.op).src /\ j.dst.mode \in Rows(j.op).dst
    BY ModesAre
  <2>2. Rows(j.op).n = {2} /\ Rows(j.op).src = D \cup Everything /\ Rows(j.op).dst = D
    BY <2>1 DEF ModeFacts, ToData
  <2>3. j.n = 2 /\ 2 \in All /\ j.src.mode # "q" /\ j.dst.mode = "d" /\ 2 \in 1 .. 4
    BY <2>1, <2>2 DEF D, Everything, Memory, All
  <2>4. j.src \in Operands /\ j.dst \in Operands
    BY DEF Decoded
  <2>5. j.dst.r \in 0 .. 7
    BY <2>4, OperandParts
  <2> QED
    BY <2>3, <2>4, <2>5, MachineParts
<1>2. s \in Values(Half(2)) /\ b.da[j.dst.r] \in Int
  BY <1>1, OperandIs, MachineParts
<1>3. d \in Values(Half(2))
  BY <1>1, <1>2, LowIs
<1>4. Arithmetic(b, j, x) = o
  <2>1. Arithmetic(b, j, x) = multiply(b, j)
    BY DEF Arithmetic
  <2> QED
    BY <2>1 DEF multiply, Rewritten
<1> HIDE DEF s, d
<1>5. u.value \in Longs /\ u.ccr \in Flags /\ u.ccr = Tested(u.value, b.ccr, 4)
  BY <1>1, <1>2, <1>3, MultipliesAre
<1> HIDE DEF u
<1>6. Rewrites(S, b, o, j.src, 2, j.dst.r, u.value, u.ccr)
  BY <1>1, <1>5, IntoRegister
<1> HIDE DEF o
<1>7. Extension(j.dst, 2) = 0
  BY <1>1 DEF Extension
<1>8. Long(b.pc + Extension(j.src, 2)) = Behind(b, j)
  BY <1>1, <1>7, WordsAfter
<1>9. Stepped(j.src) \cup {j.dst.r} \subseteq RegistersOf(j)
  BY <1>1 DEF RegistersOf, AD, ReadOnly, NumberOf
<1>10. FlagsDone(j, b.ccr, u.ccr)
  <2>1. j.op \in KeepingX
    BY DEF KeepingX, Testing
  <2>2. u.value \in Int /\ 4 \in All
    BY <1>5, LongsAre DEF All
  <2>3. u.ccr.X = b.ccr.X
    BY <1>1, <1>5, <2>2, TestedIs
  <2> QED
    BY <1>1, <1>5, <2>1, <2>3, FlagsOfIs, FlagsDoneIs
<1>11. TestDone(b, j, o)
  <2>1. 4 \in 1 .. 4 /\ u.value \in Int /\ u.value \in Values(Half(4))
    BY <1>5, LongsAre DEF Longs
  <2>2. Low(u.value, 4) = u.value
    BY <2>1, LowIs
  <2>3. ResultOf(o, j) = u.value
    BY <1>1, <1>6, <2>2 DEF ResultOf, Rewrites
  <2>4. o.ccr = u.ccr
    BY <1>6 DEF Effect, Rewrites
  <2> QED
    BY <1>5, <2>3, <2>4 DEF TestDone
<1>12. Whole(j)
  BY DEF Whole
<1>13. Effect(S, b, o, Behind(b, j), u.ccr, Stepped(j.src) \cup {j.dst.r}, {})
  BY <1>6, <1>8 DEF Rewrites
<1> QED
  BY <1>4, <1>9, <1>10, <1>11, <1>12, <1>13, EffectDone

(* An instruction that traps has taken its words.                          *)
LEMMA FailedIs ==
  ASSUME NEW S, NEW b, NEW j, NEW c, ~Refused(b, j), NEW v \in 0 .. 47, v = VectorOf(j),
         NEW f, Effect(S, b, c, Behind(b, j), f, Stepped(j.src), {}), FlagsDone(j, b.ccr, f)
  PROVE  Failed(S, b, j, exception_trap(c, v))
<1>1. c \in MachinesWith(S) /\ c.pc = Behind(b, j) /\ c.ccr = f
  BY DEF Effect
<1>2. c.pc \in Longs
  BY <1>1, MachineParts
<1>3. Taken(S, c, exception_trap(c, v), v, c.pc)
  BY <1>1, <1>2, ExceptionIs DEF exception_trap
<1> HIDE DEF Effect, Taken, FlagsDone
<1> QED
  BY <1>1, <1>3 DEF Failed

(* The destination a data register, the source a word.                     *)
LEMMA WordToData ==
  ASSUME NEW S, NEW b \in MachinesWith(S), NEW j \in Decoded, Legal(j),
         j.op \in {"multiply", "divide", "chk"}
  PROVE  /\ j.n = 2 /\ j.src \in Operands /\ j.dst.mode = "d" /\ j.dst.r \in 0 .. 15
         /\ Effect(S, b, Operand(b, j.src, 2).m, Behind(b, j), b.ccr, Stepped(j.src), {})
         /\ Operand(b, j.src, 2).v \in Values(Half(2))
         /\ b.da[j.dst.r] \in Longs /\ b.da[j.dst.r] \in Int /\ j.dst.r \notin Stepped(j.src)
         /\ Long(b.pc + Extension(j.src, 2)) = Behind(b, j)
<1>1. /\ j.n = 2 /\ 2 \in All /\ j.src.mode # "q" /\ j.dst.mode = "d"
      /\ j.src \in Operands /\ j.dst \in Operands /\ j.dst.r \in 0 .. 7 /\ j.dst.r \in 0 .. 15
  <2>1. ModeFacts(j.op, Rows(j.op)) /\ j.n \in Rows(j.op).n
        /\ j.src.mode \in Rows(j.op).src /\ j.dst.mode \in Rows(j.op).dst
    BY ModesAre
  <2>2. Rows(j.op).n = {2} /\ Rows(j.op).src = D \cup Everything /\ Rows(j.op).dst = D
    BY <2>1 DEF ModeFacts, ToData
  <2>3. j.n = 2 /\ 2 \in All /\ j.src.mode # "q" /\ j.dst.mode = "d"
    BY <2>1, <2>2 DEF D, Everything, Memory, All
  <2>4. j.src \in Operands /\ j.dst \in Operands
    BY DEF Decoded
  <2>5. j.dst.r \in 0 .. 7 /\ j.dst.r \in 0 .. 15
    BY <2>4, OperandParts
  <2> QED
    BY <2>3, <2>4, <2>5
<1>2. /\ Effect(S, b, Operand(b, j.src, 2).m, Long(b.pc + Extension(j.src, 2)), b.ccr,
                Stepped(j.src), {})
      /\ Operand(b, j.src, 2).v \in Values(Half(2))
  BY <1>1, OperandIs
<1>3. Extension(j.dst, 2) = 0
  BY <1>1 DEF Extension
<1>4. Long(b.pc + Extension(j.src, 2)) = Behind(b, j)
  BY <1>1, <1>3, WordsAfter
<1>5. Stepped(j.src) \subseteq 8 .. 15
  BY <1>1, SteppedHigh
<1> QED
  BY <1>1, <1>2, <1>4, <1>5, MachineParts

(* Divu and divs.                                                          *)
LEMMA DivideDone ==
  ASSUME NEW S, NEW b \in MachinesWith(S), NEW j \in Decoded, Legal(j), j.op = "divide",
         NEW x
  PROVE  Outcome(S, b, j, Arithmetic(b, j, x))
<1> DEFINE c == Operand(b, j.src, 2).m
           s == Operand(b, j.src, 2).v
           d == b.da[j.dst.r]
           u == IF j.how = "divu" THEN divu(s, d, b.ccr, Half(2)) ELSE divs(s, d, b.ccr, Half(2))
           o == Rewritten(c, j.dst.r, u.value, u.ccr)
<1>1. ~Refused(b, j)
  BY DEF Refused, Privileged
<1>2. Traps(b, j) <=> s = 0
  BY DEF Traps
<1>3. Arithmetic(b, j, x) = IF s = 0 THEN exception_trap(c, 5) ELSE o
  <2>1. Arithmetic(b, j, x) = divide(b, j)
    BY DEF Arithmetic
  <2> QED
    BY <2>1 DEF divide, Rewritten, EXCEPTION_ZERO_DIVIDE
<1>4. b.ccr \in Flags
  BY MachineParts
<1>5. CASE s = 0
  <2>1. FlagsDone(j, b.ccr, b.ccr)
    BY <1>4, FlagsDoneIs
  <2>2. 5 = VectorOf(j) /\ 5 \in 0 .. 47
    BY DEF VectorOf, Privileged
  <2>3. Effect(S, b, c, Behind(b, j), b.ccr, Stepped(j.src), {})
    BY WordToData
  <2> HIDE DEF c
  <2>4. Failed(S, b, j, exception_trap(c, 5))
    BY <1>1, <2>1, <2>2, <2>3, FailedIs
  <2> QED
    BY <1>2, <1>3, <1>5, <2>4 DEF Outcome
<1>6. CASE s # 0
  <2>1. u.value \in Longs /\ u.ccr \in Flags /\ u.ccr.X = b.ccr.X
    BY <1>4, <1>6, WordToData, DividesAre
  <2> HIDE DEF u
  <2>2. j.src \in Operands /\ 2 \in All /\ j.dst.r \in 0 .. 15
    BY WordToData DEF All
  <2>3. Rewrites(S, b, o, j.src, 2, j.dst.r, u.value, u.ccr)
    BY <2>1, <2>2, IntoRegister
  <2> HIDE DEF o
  <2>4. Effect(S, b, o, Behind(b, j), u.ccr, Stepped(j.src) \cup {j.dst.r}, {})
    BY <2>3, WordToData DEF Rewrites
  <2>5. j.op \in KeepingX /\ j.op \notin Testing /\ Whole(j)
    BY DEF KeepingX, Testing, Whole
  <2>6. FlagsDone(j, b.ccr, u.ccr)
    BY <1>4, <2>1, <2>5, FlagsOfIs, FlagsDoneIs
  <2>7. Stepped(j.src) \cup {j.dst.r} \subseteq RegistersOf(j)
    BY WordToData DEF RegistersOf, AD, ReadOnly, NumberOf
  <2>8. Done(S, b, j, o)
    BY <2>4, <2>5, <2>6, <2>7, EffectDone
  <2> QED
    BY <1>1, <1>2, <1>3, <1>6, <2>8 DEF Outcome
<1> QED
  BY <1>5, <1>6

(* Chk.                                                                    *)
LEMMA ChkDone ==
  ASSUME NEW S, NEW b \in MachinesWith(S), NEW j \in Decoded, Legal(j), j.op = "chk",
         NEW x
  PROVE  Outcome(S, b, j, Arithmetic(b, j, x))
<1> DEFINE c == Operand(b, j.src, 2).m
           s == Signed(Operand(b, j.src, 2).v, Half(2))
           d == MAKE_INT(b.da[j.dst.r], 2)
           f == [b.ccr EXCEPT !.Z = d = 0, !.V = FALSE, !.C = FALSE]
           g == [f EXCEPT !.N = d < 0]
<1>1. ~Refused(b, j)
  BY DEF Refused, Privileged
<1>2. s \in Int /\ d \in Int /\ b.ccr \in Flags
  <2>1. 2 \in 1 .. 4
    OBVIOUS
  <2> QED
    BY <2>1, WordToData, WordsAre, LowIs, MachineParts
<1>3. f \in Flags /\ g \in Flags /\ f.X = b.ccr.X /\ g.X = b.ccr.X
  <2> HIDE DEF d
  <2>1. (d = 0) \in BOOLEAN /\ (d < 0) \in BOOLEAN
    BY <1>2
  <2> QED
    BY <1>2, <2>1 DEF Flags
<1>4. Traps(b, j) <=> ~(d >= 0 /\ d <= s)
  <2>1. Traps(b, j) <=> d < 0 \/ d > s
    BY DEF Traps
  <2> HIDE DEF d, s
  <2> QED
    BY <1>2, <2>1
<1>5. Effect(S, b, c, Behind(b, j), b.ccr, Stepped(j.src), {})
  BY WordToData
<1>6. c \in MachinesWith(S) /\ c.pc = Behind(b, j)
  BY <1>5 DEF Effect
<1>7. Arithmetic(b, j, x) = IF d >= 0 /\ d <= s THEN Flagged(c, f)
                            ELSE exception_trap(Flagged(c, g), 6)
  <2>1. Arithmetic(b, j, x) = chk(b, j)
    BY DEF Arithmetic
  <2> QED
    BY <2>1 DEF chk, Flagged, EXCEPTION_CHK
<1> HIDE DEF c, d, s, f, g
<1>8. ASSUME NEW h \in Flags, h.X = b.ccr.X
      PROVE  /\ Effect(S, b, Flagged(c, h), Behind(b, j), h, Stepped(j.src), {})
             /\ FlagsDone(j, b.ccr, h)
  <2>1. Effect(S, c, Flagged(c, h), c.pc, h, {}, {})
    BY <1>6, FlagsSet
  <2>2. Effect(S, b, Flagged(c, h), c.pc, h, Stepped(j.src) \cup {}, {} \cup {})
    BY <1>5, <2>1, EffectThen
  <2>3. Effect(S, b, Flagged(c, h), c.pc, h, Stepped(j.src), {})
    BY <2>2
  <2>4. j.op \in KeepingX
    BY DEF KeepingX
  <2>5. FlagsDone(j, b.ccr, h)
    BY <1>2, <1>8, <2>4, FlagsOfIs, FlagsDoneIs
  <2> QED
    BY <1>6, <2>3, <2>5
<1>9. CASE d >= 0 /\ d <= s
  <2>1. Effect(S, b, Flagged(c, f), Behind(b, j), f, Stepped(j.src), {}) /\ FlagsDone(j, b.ccr, f)
    BY <1>3, <1>8
  <2>2. j.op \notin Testing
    BY DEF Testing
  <2>3. Stepped(j.src) \subseteq RegistersOf(j)
    BY DEF RegistersOf
  <2>4. j.dst.r \in 0 .. 15 /\ j.dst.r \notin Stepped(j.src)
    BY WordToData
  <2>5. Flagged(c, f).da[j.dst.r] = b.da[j.dst.r]
    BY <2>1, <2>4 DEF Effect
  <2>6. Done(S, b, j, Flagged(c, f))
    BY <2>1, <2>2, <2>3, <2>5, EffectDone
  <2> QED
    BY <1>1, <1>4, <1>7, <1>9, <2>6 DEF Outcome
<1>10. CASE ~(d >= 0 /\ d <= s)
  <2>1. Effect(S, b, Flagged(c, g), Behind(b, j), g, Stepped(j.src), {}) /\ FlagsDone(j, b.ccr, g)
    BY <1>3, <1>8
  <2>2. 6 = VectorOf(j) /\ 6 \in 0 .. 47
    BY DEF VectorOf, Privileged
  <2>3. Failed(S, b, j, exception_trap(Flagged(c, g), 6))
    BY <1>1, <2>1, <2>2, FailedIs
  <2> QED
    BY <1>4, <1>7, <1>10, <2>3 DEF Outcome
<1> QED
  BY <1>9, <1>10

(* An address register loaded.                                             *)
LEMMA AddressDone ==
  ASSUME NEW S, NEW b \in MachinesWith(S), NEW j \in Decoded, Legal(j),
         j.op \in {"adda", "suba", "addq_a", "subq_a", "movea", "lea"},
         NEW u, Effect(S, b, u, Long(b.pc + Extension(j.src, j.n)), b.ccr, Stepped(j.src), {}),
         NEW v \in Longs
  PROVE  Done(S, b, j, Registered(u, 8 + j.dst.r, v))
<1> DEFINE k == 8 + j.dst.r
           o == Registered(u, k, v)
<1>1. /\ j.n \in All /\ j.dst.mode = "a" /\ j.dst \in Operands /\ k \in 0 .. 15
      /\ b.ccr \in Flags
  <2>1. j.dst.mode \in A /\ j.n \in All
    BY ModesAre DEF ModeFacts, ToAddress
  <2> QED
    BY <2>1, OperandParts, MachineParts DEF A, Decoded
<1>2. u \in MachinesWith(S) /\ u.pc = Long(b.pc + Extension(j.src, j.n)) /\ u.ccr = b.ccr
  BY DEF Effect
<1>3. Extension(j.dst, j.n) = 0
  BY <1>1 DEF Extension
<1>4. u.pc = Behind(b, j)
  BY <1>1, <1>2, <1>3, WordsAfter
<1>5. k \in RegistersOf(j)
  BY <1>1 DEF RegistersOf, AD, ReadOnly, NumberOf
<1> HIDE DEF k
<1>6. Effect(S, u, o, u.pc, u.ccr, {k}, {})
  BY <1>1, <1>2, RegisterSet
<1> HIDE DEF o
<1>7. Effect(S, b, o, u.pc, u.ccr, Stepped(j.src) \cup {k}, {} \cup {})
  BY <1>6, EffectThen
<1>8. Effect(S, b, o, Behind(b, j), b.ccr, Stepped(j.src) \cup {k}, {})
  BY <1>2, <1>4, <1>7
<1>9. Stepped(j.src) \cup {k} \subseteq RegistersOf(j)
  BY <1>5 DEF RegistersOf
<1>10. FlagsDone(j, b.ccr, b.ccr)
  BY <1>1, FlagsDoneIs
<1>11. j.op \notin Testing
  BY DEF Testing
<1>12. Done(S, b, j, o)
  BY <1>1, <1>8, <1>9, <1>10, <1>11, EffectDone
<1> QED
  BY <1>12 DEF o, k

(* Arithmetic on address registers, movea and lea.                         *)
LEMMA AddressesDone ==
  ASSUME NEW S, NEW b \in MachinesWith(S), NEW j \in Decoded, Legal(j), NEW late \in BOOLEAN
  PROVE  /\ j.op \in {"adda", "suba", "addq_a", "subq_a"} => Done(S, b, j, Arithmetic(b, j, late))
         /\ j.op \in {"movea", "lea"} => Done(S, b, j, Transfer(b, j))
<1> DEFINE c == Operand(b, j.src, j.n).m
           s == Operand(b, j.src, j.n).v
           k == 8 + j.dst.r
           x == MAKE_INT(s, j.n)
<1>1. /\ j.n \in All /\ j.src \in Operands /\ j.dst \in Operands /\ k \in 0 .. 15
      /\ j.n \in 1 .. 4
  BY ModesAre, OperandParts DEF ModeFacts, Decoded, All
<1>2. /\ Effect(S, b, c, Long(b.pc + Extension(j.src, j.n)), b.ccr, Stepped(j.src), {})
      /\ s \in Int
  BY <1>1, OperandIs, LongsAre
<1>3. c \in MachinesWith(S)
  BY <1>2 DEF Effect
<1> HIDE DEF s
<1>4. x \in Int
  BY <1>1, <1>2, LowIs
<1>5. c.da[k] \in Int /\ b.da[k] \in Int
  BY <1>1, <1>3, MachineParts
<1> HIDE DEF c, x, k
<1>6. ASSUME NEW y \in Int, j.op \in {"adda", "suba", "addq_a", "subq_a", "movea"}
      PROVE  Done(S, b, j, Registered(c, k, Long(y)))
  <2>1. Long(y) \in Longs
    BY LongSum
  <2> QED
    BY <1>2, <1>6, <2>1, AddressDone DEF k
<1>7. CASE j.op \in {"adda", "suba"}
  <2> DEFINE base == IF late THEN c.da[k] ELSE b.da[k]
             sign == IF j.op = "adda" THEN 1 ELSE -1
             y == base + sign * x
  <2>1. y \in Int
    BY <1>4, <1>5
  <2>2. Arithmetic(b, j, late) = AddToAddress(b, j, sign, late)
    BY <1>7 DEF Arithmetic, adda, suba
  <2>3. Arithmetic(b, j, late) = Registered(c, k, Long(y))
    BY <2>2 DEF AddToAddress, Registered, c, k, x, s
  <2> HIDE DEF y
  <2> QED
    BY <1>6, <1>7, <2>1, <2>3
<1>8. CASE j.op \in {"addq_a", "subq_a"}
  <2> DEFINE y == IF j.op = "addq_a" THEN b.da[k] + j.src.d ELSE b.da[k] - j.src.d
  <2>1. y \in Int
    BY <1>1, <1>5, OperandParts
  <2>2. j.src.mode = "q"
    BY <1>8, ModesAre DEF ModeFacts
  <2>3. c = b
    BY <2>2 DEF c, Operand
  <2>4. Arithmetic(b, j, late) = Registered(c, k, Long(y))
    BY <1>8, <2>3 DEF Arithmetic, addq_a, subq_a, Registered, k
  <2> HIDE DEF y
  <2> QED
    BY <1>6, <1>8, <2>1, <2>4
<1>9. CASE j.op = "movea"
  <2>1. Transfer(b, j) = Registered(c, k, Long(x))
    <3>1. Transfer(b, j) = movea(b, j)
      BY <1>9 DEF Transfer
    <3> QED
      BY <3>1 DEF movea, Registered, c, k, x, s
  <2> QED
    BY <1>4, <1>6, <1>9, <2>1
<1>10. CASE j.op = "lea"
  <2>1. j.n = 4 /\ j.src.mode \in Memory \cup {"pcdi", "pcix"}
    BY <1>10, WordsTaken DEF WordFacts, ControlPc, Control
  <2>2. Effect(S, b, Used(b, j.src, j.n), Long(b.pc + Extension(j.src, j.n)), b.ccr,
               Stepped(j.src), {})
    BY <1>1, UsedIs
  <2>3. EA(b, j.src, j.n) \in Longs
    BY <1>1, <2>1, AddressIs
  <2>4. Transfer(b, j) = Registered(Used(b, j.src, j.n), k, EA(b, j.src, j.n))
    <3>1. Transfer(b, j) = lea(b, j)
      BY <1>10 DEF Transfer
    <3> QED
      BY <2>1, <3>1 DEF lea, Registered, k
  <2> DEFINE u == Used(b, j.src, j.n)
             v == EA(b, j.src, j.n)
  <2> HIDE DEF u, v
  <2>5. /\ v \in Longs
        /\ Effect(S, b, u, Long(b.pc + Extension(j.src, j.n)), b.ccr, Stepped(j.src), {})
    BY <2>2, <2>3 DEF u, v
  <2>6. Done(S, b, j, Registered(u, k, v))
    BY <1>10, <2>5, AddressDone DEF k
  <2> QED
    BY <1>10, <2>4, <2>6 DEF u, v
<1>11. CASE j.op \notin {"adda", "suba", "addq_a", "subq_a", "movea", "lea"}
  BY <1>11
<1> QED
  BY <1>7, <1>8, <1>9, <1>10, <1>11

(* Cmpa.                                                                   *)
LEMMA CmpaDone ==
  ASSUME NEW S, NEW b \in MachinesWith(S), NEW j \in Decoded, Legal(j), j.op = "cmpa", NEW x
  PROVE  Done(S, b, j, Arithmetic(b, j, x))
<1> DEFINE c == Operand(b, j.src, j.n).m
           s == Long(MAKE_INT(Operand(b, j.src, j.n).v, j.n))
           d == c.da[8 + j.dst.r]
           f == Against(s, d, b.ccr, 4)
           o == Flagged(c, f)
<1>1. /\ j.n \in All /\ j.src \in Operands /\ j.dst \in Operands /\ 8 + j.dst.r \in 0 .. 15
      /\ j.n \in 1 .. 4 /\ b.ccr \in Flags /\ j.dst.mode \in A
  BY ModesAre, OperandParts, MachineParts DEF ModeFacts, Decoded, All, ToAddress
<1>2. /\ Effect(S, b, c, Long(b.pc + Extension(j.src, j.n)), b.ccr, Stepped(j.src), {})
      /\ Operand(b, j.src, j.n).v \in Int
  BY <1>1, OperandIs, LongsAre
<1>3. c \in MachinesWith(S) /\ c.pc = Long(b.pc + Extension(j.src, j.n))
  BY <1>2 DEF Effect
<1>4. MAKE_INT(Operand(b, j.src, j.n).v, j.n) \in Int
  BY <1>1, <1>2, LowIs
<1>5. s \in Int
  <2>1. s \in Longs
    BY <1>4, LongSum
  <2> QED
    BY <2>1, LongsAre
<1>6. Arithmetic(b, j, x) = o
  <2>1. Arithmetic(b, j, x) = cmpa(b, j)
    BY DEF Arithmetic
  <2> QED
    BY <2>1 DEF cmpa, Flagged, Against, Wide
<1> HIDE DEF c, s
<1>7. f \in Flags /\ f.X = b.ccr.X
  <2>1. d \in Int /\ 4 \in All
    BY <1>1, <1>3, MachineParts DEF All
  <2> QED
    BY <1>1, <1>5, <2>1, SumsAre
<1> HIDE DEF f
<1>8. Effect(S, c, o, c.pc, f, {}, {})
  BY <1>3, <1>7, FlagsSet
<1> HIDE DEF o
<1>9. Effect(S, b, o, c.pc, f, Stepped(j.src) \cup {}, {} \cup {})
  BY <1>2, <1>8, EffectThen
<1>10. j.dst.mode = "a" /\ Extension(j.dst, j.n) = 0
  BY <1>1 DEF Extension, A
<1>11. c.pc = Behind(b, j)
  BY <1>1, <1>3, <1>10, WordsAfter
<1>12. Effect(S, b, o, Behind(b, j), f, Stepped(j.src), {})
  BY <1>9, <1>11
<1>13. j.op \in KeepingX /\ j.op \notin Testing /\ Stepped(j.src) \subseteq RegistersOf(j)
  BY DEF KeepingX, Testing, RegistersOf
<1>14. FlagsDone(j, b.ccr, f)
  BY <1>1, <1>7, <1>13, FlagsOfIs, FlagsDoneIs
<1> QED
  BY <1>6, <1>10, <1>12, <1>13, <1>14, EffectDone

(* Exg.                                                                    *)
LEMMA ExchangeDone ==
  ASSUME NEW S, NEW b \in MachinesWith(S), NEW j \in Decoded, Legal(j),
         j.op \in {"exg_da", "exg_aa"}
  PROVE  Done(S, b, j, Transfer(b, j))
<1> DEFINE x == NumberOf(j.src)
           y == NumberOf(j.dst)
           o == [b EXCEPT !.da[x] = b.da[y], !.da[y] = b.da[x]]
<1>1. /\ j.n = 4 /\ j.n \in All /\ j.src \in Operands /\ j.dst \in Operands
      /\ j.src.mode \in AD /\ j.dst.mode \in AD /\ b.ccr \in Flags
  <2>1. ModeFacts(j.op, Rows(j.op)) /\ j.n \in Rows(j.op).n
        /\ j.src.mode \in Rows(j.op).src /\ j.dst.mode \in Rows(j.op).dst
    BY ModesAre
  <2>2. Rows(j.op).n = {4} /\ Rows(j.op).src \subseteq AD /\ Rows(j.op).dst \subseteq AD
    BY <2>1 DEF ModeFacts
  <2>3. j.n = 4 /\ j.n \in All /\ j.src.mode \in AD /\ j.dst.mode \in AD
    BY <2>1, <2>2 DEF All
  <2> QED
    BY <2>3, MachineParts DEF Decoded
<1>2. x \in 0 .. 15 /\ y \in 0 .. 15
  <2>1. /\ j.src.r \in 0 .. 7 /\ 8 + j.src.r \in 0 .. 15
        /\ j.dst.r \in 0 .. 7 /\ 8 + j.dst.r \in 0 .. 15
    BY <1>1, OperandParts
  <2> QED
    BY <2>1 DEF NumberOf
<1>3. x \in RegistersOf(j) /\ y \in RegistersOf(j)
  BY <1>1 DEF RegistersOf, ReadOnly
<1>4. Transfer(b, j) = o
  <2>1. Transfer(b, j) = exg(b, j)
    BY DEF Transfer
  <2> QED
    BY <2>1 DEF exg
<1> HIDE DEF x, y
<1>5. Effect(S, b, o, b.pc, b.ccr, {x, y}, {})
  BY <1>2 DEF Effect, MachinesWith
<1> HIDE DEF o
<1>6. Extension(j.src, j.n) = 0 /\ Extension(j.dst, j.n) = 0
  BY <1>1 DEF Extension, AD
<1>7. b.pc = Behind(b, j)
  BY <1>1, <1>6, WordsAfter
<1>8. j.op \notin Testing /\ Whole(j) /\ {x, y} \subseteq RegistersOf(j)
  BY <1>1, <1>3 DEF Testing, Whole
<1>9. FlagsDone(j, b.ccr, b.ccr)
  BY <1>1, FlagsDoneIs
<1> QED
  BY <1>4, <1>5, <1>7, <1>8, <1>9, EffectDone

(* A data register from itself, or from the instruction word.              *)
LEMMA DataDone ==
  ASSUME NEW S, NEW b \in MachinesWith(S), NEW j \in Decoded, Legal(j),
         j.op \in {"ext", "swap", "moveq"}, NEW w \in Int, Low(w, j.n) = w
  PROVE  Done(S, b, j, Rewritten(b, j.dst.r, Upper(b.da[j.dst.r], j.n) + w, Tested(w, b.ccr, j.n)))
<1> DEFINE k == j.dst.r
           v == Upper(b.da[k], j.n) + w
           f == Tested(w, b.ccr, j.n)
           o == Rewritten(b, k, v, f)
<1>1. /\ j.n \in All /\ j.src \in Operands /\ j.dst \in Operands /\ j.dst.mode = "d"
      /\ j.src.mode \in {"q", "none"} /\ b.ccr \in Flags /\ k \in 0 .. 15
  <2>1. j.n \in All /\ j.dst.mode \in D /\ j.src.mode \in {"q", "none"}
    BY ModesAre DEF ModeFacts, ToData, None
  <2>2. j.src \in Operands /\ j.dst \in Operands
    BY DEF Decoded
  <2>3. k \in 0 .. 15
    BY <2>2, OperandParts
  <2> QED
    BY <2>1, <2>2, <2>3, MachineParts DEF D
<1>2. /\ v \in Longs /\ Upper(v, j.n) = Upper(b.da[k], j.n) /\ Low(v, j.n) = w
  <2> DEFINE x == b.da[k]
             n == j.n
  <2>1. x \in Longs /\ n \in All
    BY <1>1, MachineParts
  <2> HIDE DEF x, n, k
  <2>2. /\ Upper(x, n) + Low(w, n) \in Longs
        /\ Upper(Upper(x, n) + Low(w, n), n) = Upper(x, n)
        /\ Low(Upper(x, n) + Low(w, n), n) = Low(w, n)
    BY <2>1, UpperLow
  <2>3. Low(w, n) = w
    BY DEF n
  <2> QED
    BY <2>2, <2>3 DEF x, n
<1>3. f \in Flags /\ f.X = b.ccr.X
  BY <1>1, TestedIs
<1> HIDE DEF v, f
<1>4. Effect(S, b, o, b.pc, f, {k}, {}) /\ o.da[k] = v
  <2>1. Sets(S, b, o, k, v, f)
    BY <1>1, <1>2, <1>3, RewrittenIs
  <2> QED
    BY <2>1 DEF Sets
<1> HIDE DEF o
<1>5. Extension(j.src, j.n) = 0 /\ Extension(j.dst, j.n) = 0 /\ Stepped(j.src) = {}
  BY <1>1 DEF Extension, Stepped
<1>6. b.pc = Behind(b, j)
  BY <1>1, <1>5, WordsAfter
<1>7. {k} \subseteq RegistersOf(j)
  BY <1>1 DEF RegistersOf, ReadOnly, NumberOf, AD
<1>8. FlagsDone(j, b.ccr, f)
  <2>1. j.op \in KeepingX
    BY DEF KeepingX, Testing
  <2> QED
    BY <1>1, <1>3, <2>1, FlagsOfIs, FlagsDoneIs
<1>9. TestDone(b, j, o)
  <2>1. o.ccr = f
    BY <1>4 DEF Effect
  <2>2. ResultOf(o, j) = w
    BY <1>1, <1>2, <1>4 DEF ResultOf
  <2> QED
    BY <2>1, <2>2 DEF TestDone, f
<1>10. Upper(o.da[j.dst.r], j.n) = Upper(b.da[j.dst.r], j.n)
  BY <1>2, <1>4
<1>11. Done(S, b, j, o)
  BY <1>4, <1>6, <1>7, <1>8, <1>9, <1>10, EffectDone
<1> QED
  BY <1>11 DEF o, v, f

(* Moveq, swap and ext.                                                    *)
LEMMA RegistersDone ==
  ASSUME NEW S, NEW b \in MachinesWith(S), NEW j \in Decoded, Legal(j), NEW x
  PROVE  /\ j.op = "ext" => Done(S, b, j, Arithmetic(b, j, x))
         /\ j.op \in {"swap", "moveq"} => Done(S, b, j, Transfer(b, j))
<1> DEFINE k == j.dst.r
           d == b.da[k]
<1>1. j.dst \in Operands /\ j.src \in Operands
  BY DEF Decoded
<1>2. k \in 0 .. 15 /\ d \in Longs /\ d \in Int
  <2>1. k \in 0 .. 15
    BY <1>1, OperandParts
  <2> QED
    BY <2>1, MachineParts
<1>3. b.ccr \in Flags
  BY MachineParts
<1>4. ASSUME NEW w \in Int, Low(w, j.n) = w, j.op \in {"ext", "swap", "moveq"}, NEW o,
             o = [b EXCEPT !.da[k] = Upper(d, j.n) + w, !.ccr = Tested(w, b.ccr, j.n)]
      PROVE  Done(S, b, j, o)
  <2> DEFINE v == Upper(d, j.n) + w
             f == Tested(w, b.ccr, j.n)
  <2>1. j.n \in All
    BY ModesAre DEF ModeFacts
  <2>2. v \in Longs
    <3>1. Upper(d, j.n) + Low(w, j.n) \in Longs
      BY <1>2, <2>1, UpperLow
    <3> QED
      BY <1>4, <3>1
  <2>3. f \in Flags
    BY <1>3, <2>1, TestedIs
  <2>7. k \in 0 .. 15
    BY <1>2
  <2> HIDE DEF v, f, k
  <2>4. [b EXCEPT !.da[k] = v, !.ccr = f] = Rewritten(b, k, v, f)
    BY <2>2, <2>3, <2>7, RewrittenEither, Zenon
  <2>5. o = Rewritten(b, k, v, f)
    BY <1>4, <2>4 DEF v, f
  <2> QED
    BY <1>4, <2>5, DataDone DEF v, f, k, d
<1>5. ASSUME j.op = "ext" PROVE Done(S, b, j, Arithmetic(b, j, x))
  <2> DEFINE w == Low(MAKE_INT(d, j.n \div 2), j.n)
  <2>1. j.n \in {2, 4}
    BY <1>5, ModesAre DEF ModeFacts
  <2>2. j.n \in 1 .. 4 /\ j.n \div 2 \in 1 .. 4
    BY <2>1
  <2>3. MAKE_INT(d, j.n \div 2) \in Int
    BY <1>2, <2>2, LowIs
  <2>4. w \in Longs /\ w \in Values(Half(j.n))
    BY <2>2, <2>3, LowIs
  <2>5. w \in Int
    BY <2>4, LongsAre
  <2>6. Arithmetic(b, j, x) = [b EXCEPT !.da[k] = Upper(d, j.n) + w, !.ccr = Tested(w, b.ccr, j.n)]
    <3>1. Arithmetic(b, j, x) = ext(b, j)
      BY <1>5 DEF Arithmetic
    <3> QED
      BY <3>1 DEF ext
  <2> HIDE DEF w
  <2>7. Low(w, j.n) = w
    BY <2>2, <2>4, <2>5, LowIs
  <2> QED
    BY <1>4, <1>5, <2>5, <2>6, <2>7
<1>6. ASSUME j.op \in {"swap", "moveq"} PROVE Done(S, b, j, Transfer(b, j))
  <2>1. j.n = 4 /\ 4 \in 1 .. 4
    BY <1>6, ModesAre DEF ModeFacts
  <2>2. Low(d, 4) = d
    <3>1. d \in Values(Half(4))
      BY <1>2 DEF Longs
    <3> QED
      BY <1>2, <2>1, <3>1, LowIs
  <2>3. Upper(d, 4) = 0
    BY <1>2, <2>2 DEF Upper
  <2>4. ASSUME NEW w \in Longs, Transfer(b, j) = [b EXCEPT !.da[k] = w, !.ccr = Tested(w, b.ccr, 4)]
        PROVE  Done(S, b, j, Transfer(b, j))
    <3>1. w \in Int /\ w \in Values(Half(4))
      BY LongsAre DEF Longs
    <3>2. Low(w, 4) = w
      BY <2>1, <3>1, LowIs
    <3>3. Upper(d, j.n) + w = w
      BY <2>1, <2>3, <3>1
    <3> QED
      BY <1>4, <1>6, <2>1, <2>4, <3>1, <3>2, <3>3
  <2>5. CASE j.op = "swap"
    <3> DEFINE w == Low(d, 2) * 2^Bits(2) + (d \div 2^Bits(2))
    <3>1. w \in Longs
      <4>1. CASE Numbers(64, 4096, 262144, 16777216)
        <5>1. Low(d, 2) = d % 4096 /\ 2^Bits(2) = 4096 /\ 0 <= d /\ d < 16777216
          BY <1>2, <4>1, SMT DEF Numbers, Longs
        <5>2. d % 4096 \in Int /\ 0 <= d % 4096 /\ d % 4096 < 4096
          BY <1>2, SMT
        <5>3. d \div 4096 \in Int /\ 0 <= d \div 4096 /\ d \div 4096 < 4096
          BY <1>2, <5>1, SMT
        <5>4. w = (d % 4096) * 4096 + (d \div 4096)
          BY <5>1
        <5>5. w \in Int /\ 0 <= w /\ w < 16777216
          BY <5>2, <5>3, <5>4, SMT
        <5> QED
          BY <4>1, <5>5, SMT DEF Numbers, Longs
      <4>2. CASE Numbers(128, 16384, 2097152, 268435456)
        <5>1. Low(d, 2) = d % 16384 /\ 2^Bits(2) = 16384 /\ 0 <= d /\ d < 268435456
          BY <1>2, <4>2, SMT DEF Numbers, Longs
        <5>2. d % 16384 \in Int /\ 0 <= d % 16384 /\ d % 16384 < 16384
          BY <1>2, SMT
        <5>3. d \div 16384 \in Int /\ 0 <= d \div 16384 /\ d \div 16384 < 16384
          BY <1>2, <5>1, SMT
        <5>4. w = (d % 16384) * 16384 + (d \div 16384)
          BY <5>1
        <5>5. w \in Int /\ 0 <= w /\ w < 268435456
          BY <5>2, <5>3, <5>4, SMT
        <5> QED
          BY <4>2, <5>5, SMT DEF Numbers, Longs
      <4>3. CASE Numbers(256, 65536, 16777216, 4294967296)
        <5>1. Low(d, 2) = d % 65536 /\ 2^Bits(2) = 65536 /\ 0 <= d /\ d < 4294967296
          BY <1>2, <4>3, SMT DEF Numbers, Longs
        <5>2. d % 65536 \in Int /\ 0 <= d % 65536 /\ d % 65536 < 65536
          BY <1>2, SMT
        <5>3. d \div 65536 \in Int /\ 0 <= d \div 65536 /\ d \div 65536 < 65536
          BY <1>2, <5>1, SMT
        <5>4. w = (d % 65536) * 65536 + (d \div 65536)
          BY <5>1
        <5>5. w \in Int /\ 0 <= w /\ w < 4294967296
          BY <5>2, <5>3, <5>4, SMT
        <5> QED
          BY <4>3, <5>5, SMT DEF Numbers, Longs
      <4> QED
        BY <4>1, <4>2, <4>3, Widths
    <3>2. Transfer(b, j) = swap(b, j)
      BY <2>5 DEF Transfer
    <3>3. Transfer(b, j) = [b EXCEPT !.da[k] = w, !.ccr = Tested(w, b.ccr, 4)]
      BY <3>2 DEF swap
    <3> HIDE DEF w
    <3> QED
      BY <2>4, <3>1, <3>3
  <2>6. CASE j.op = "moveq"
    <3> DEFINE w == Long(MAKE_INT(j.src.d, 1))
    <3>1. w \in Longs
      <4>1. j.src.d \in Int /\ 1 \in 1 .. 4
        BY <1>1, OperandParts
      <4>2. MAKE_INT(j.src.d, 1) \in Int
        BY <4>1, LowIs
      <4> QED
        BY <4>2, LongSum
    <3>2. Transfer(b, j) = moveq(b, j)
      BY <2>6 DEF Transfer
    <3>3. Transfer(b, j) = [b EXCEPT !.da[k] = w, !.ccr = Tested(w, b.ccr, 4)]
      BY <3>2 DEF moveq
    <3> HIDE DEF w
    <3> QED
      BY <2>4, <3>1, <3>3
  <2> QED
    BY <1>6, <2>5, <2>6
<1> QED
  BY <1>5, <1>6

-----------------------------------------------------------------------------
(* The stack.                                                              *)

(* The place that a push writes.                                           *)
LEMMA PushedPlace ==
  ASSUME NEW x \in Int
  PROVE  Place(Long(x - 4), 4) = Place(x - 4, 4)
<1>1. x - 4 \in Int
  OBVIOUS
<1> QED
  BY <1>1, LongSum DEF Place

(* Pea.                                                                    *)
LEMMA PeaDone ==
  ASSUME NEW S, NEW b \in MachinesWith(S), NEW j \in Decoded, Legal(j), j.op = "pea"
  PROVE  Done(S, b, j, Transfer(b, j))
<1> DEFINE u == Used(b, j.src, 4)
           a == EA(b, j.src, 4)
           o == push(u, 4, a)
           sp == Long(b.da[15] - 4)
<1>1. /\ j.n = 4 /\ j.n \in All /\ j.src \in Operands /\ j.dst \in Operands
      /\ j.src.mode \in ControlPc /\ j.dst.mode = "none" /\ b.ccr \in Flags
  <2>1. ModeFacts(j.op, Rows(j.op)) /\ j.n \in Rows(j.op).n
        /\ j.src.mode \in Rows(j.op).src /\ j.dst.mode \in Rows(j.op).dst
    BY ModesAre
  <2>2. Rows(j.op).n = {4} /\ Rows(j.op).src = ControlPc /\ Rows(j.op).dst = None
    BY <2>1, WordsTaken DEF ModeFacts, WordFacts, ToNone
  <2>3. j.n = 4 /\ j.n \in All /\ j.src.mode \in ControlPc /\ j.dst.mode = "none"
    BY <2>1, <2>2 DEF All, None
  <2> QED
    BY <2>3, MachineParts DEF Decoded
<1>2. j.src.mode \in Memory \cup {"pcdi", "pcix"} /\ j.src.mode \notin {"pi", "pd"}
  BY <1>1 DEF ControlPc, Control, Memory
<1>3. /\ Effect(S, b, u, Long(b.pc + Extension(j.src, 4)), b.ccr, Stepped(j.src), {})
      /\ u.da = b.da /\ a \in Int
  BY <1>1, <1>2, UsedIs, AddressIs
<1>4. u \in MachinesWith(S) /\ u.ccr = b.ccr /\ u.pc = Long(b.pc + Extension(j.src, 4))
  BY <1>3 DEF Effect
<1>5. Transfer(b, j) = o
  BY DEF Transfer, pea
<1> HIDE DEF u, a
<1>6. Effect(S, u, o, u.pc, u.ccr, {15}, Place(sp, 4))
  <2>1. sp = Long(u.da[15] - 4) /\ 4 \in All
    BY <1>3 DEF All
  <2> HIDE DEF sp
  <2> QED
    BY <1>3, <1>4, <2>1, PushIs
<1> HIDE DEF o
<1>7. Effect(S, b, o, u.pc, u.ccr, Stepped(j.src) \cup {15}, {} \cup Place(sp, 4))
  BY <1>3, <1>6, EffectThen
<1>8. u.pc = Behind(b, j)
  <2>1. Extension(j.dst, j.n) = 0
    BY <1>1 DEF Extension
  <2> QED
    BY <1>1, <1>4, <2>1, WordsAfter
<1>9. Stepped(j.src) \cup {15} \subseteq RegistersOf(j)
  BY DEF RegistersOf, OnStack, Pushing, A7
<1>10. {} \cup Place(sp, 4) \subseteq BytesDone(b, o, j)
  <2>1. b.da[15] \in Int
    BY MachineParts
  <2>2. Place(sp, 4) = Place(b.da[15] - 4, 4)
    BY <2>1, PushedPlace
  <2> QED
    BY <2>2 DEF BytesDone, Pushing, A7
<1>11. FlagsDone(j, b.ccr, b.ccr) /\ j.op \notin Testing
  BY <1>1, FlagsDoneIs DEF Testing
<1>12. Effect(S, b, o, u.pc, b.ccr, Stepped(j.src) \cup {15}, {} \cup Place(sp, 4))
  BY <1>4, <1>7
<1> QED
  BY <1>1, <1>5, <1>8, <1>9, <1>10, <1>11, <1>12, EffectDone

(* LINK and UNLK and their register.                                       *)
LEMMA FrameRegister ==
  ASSUME NEW S, NEW b \in MachinesWith(S), NEW j \in Decoded, Legal(j), j.op \in {"link", "unlk"}
  PROVE  /\ 8 + j.dst.r \in 0 .. 15 /\ b.da[8 + j.dst.r] \in Longs /\ b.da[8 + j.dst.r] \in Int
         /\ {15, 8 + j.dst.r} \subseteq RegistersOf(j) /\ j.dst.mode = "a"
         /\ FlagsDone(j, b.ccr, b.ccr) /\ j.op \notin Testing
         /\ Behind(b, j) = Long(b.pc + IF j.op = "link" THEN 2 ELSE 0)
<1> DEFINE an == 8 + j.dst.r
           z == IF j.op = "link" THEN 2 ELSE 0
<1>1. /\ j.dst.mode = "a" /\ j.n \in All
      /\ j.op = "link" => j.src.mode = "w"
      /\ j.op = "unlk" => j.src.mode = "none"
  <2>1. j.dst.mode \in A /\ j.n \in All
    BY ModesAre DEF ModeFacts, ToAddress
  <2> QED
    BY <2>1, WordsTaken DEF WordFacts, A, None
<1>2. an \in 0 .. 15
  BY OperandParts DEF Decoded
<1>3. b.da[an] \in Longs /\ b.da[an] \in Int
  BY <1>2, MachineParts
<1>4. {15, an} \subseteq RegistersOf(j)
  BY <1>1 DEF RegistersOf, ReadOnly, OnStack, Pushing, NumberOf, AD, A7
<1>5. FlagsDone(j, b.ccr, b.ccr) /\ j.op \notin Testing
  BY MachineParts, FlagsDoneIs DEF Testing
<1>6. Extension(j.dst, j.n) = 0 /\ Extension(j.src, j.n) = z
  BY <1>1 DEF Extension
<1>7. Behind(b, j) = Long(b.pc + z)
  <2>1. Long(b.pc + Extension(j.src, j.n)) = Behind(b, j)
    BY <1>1, <1>6, WordsAfter
  <2> QED
    BY <1>6, <2>1
<1> QED
  BY <1>1, <1>2, <1>3, <1>4, <1>5, <1>7

(* Link, also of A7.                                                       *)
LEMMA LinkDone ==
  ASSUME NEW S, NEW b \in MachinesWith(S), NEW j \in Decoded, Legal(j), j.op = "link"
  PROVE  Done(S, b, j, Transfer(b, j))
<1> DEFINE an == 8 + j.dst.r
           size == MAKE_INT(j.src.d, 2)
           sp == Long(b.da[15] - 4)
           v == IF an = 15 THEN sp ELSE b.da[an]
           p == push(b, 4, v)
           w == IF an = 15 THEN p.da[15] ELSE sp
           q == Registered(p, an, w)
           y == Long(sp + size)
           t == Registered(q, 15, y)
           o == Skip(t, 2)
<1>1. /\ b.da[15] \in Int /\ size \in Int /\ b.pc \in Int /\ b.ccr \in Flags
  <2>1. 15 \in 0 .. 15 /\ j.src.d \in Int /\ 2 \in 1 .. 4
    BY OperandParts DEF Decoded
  <2> QED
    BY <2>1, MachineParts, LowIs
<1>2. /\ an \in 0 .. 15 /\ b.da[an] \in Int /\ {15, an} \subseteq RegistersOf(j)
      /\ FlagsDone(j, b.ccr, b.ccr) /\ j.op \notin Testing /\ Behind(b, j) = Long(b.pc + 2)
      /\ j.dst.mode = "a"
  BY FrameRegister
<1>3. sp \in Longs /\ sp \in Int /\ y \in Longs
  <2>1. b.da[15] - 4 \in Int
    BY <1>1
  <2>2. sp \in Longs /\ sp \in Int
    BY <2>1, LongSum, LongsAre
  <2> HIDE DEF sp
  <2>3. sp + size \in Int
    BY <1>1, <2>2
  <2> QED
    BY <2>2, <2>3, LongSum
<1>4. v \in Int
  BY <1>2, <1>3
<1> HIDE DEF v
<1>5. Effect(S, b, p, b.pc, b.ccr, {15}, Place(sp, 4)) /\ p.da[15] = sp
  <2>1. 4 \in All /\ sp = Long(b.da[15] - 4)
    BY DEF All
  <2> HIDE DEF sp
  <2> QED
    BY <1>4, <2>1, PushIs
<1>6. p \in MachinesWith(S) /\ p.pc = b.pc /\ p.ccr = b.ccr /\ w \in Longs
  BY <1>3, <1>5 DEF Effect
<1>7. Transfer(b, j) = o
  <2>1. Transfer(b, j) = link(b, j)
    BY DEF Transfer
  <2>2. p \in MachinesWith(S)
    BY <1>6
  <2>3. an = 15 => q = p
    <3> HIDE DEF p
    <3> QED
      BY <2>2 DEF Registered, MachinesWith
  <2>4. link(b, j) =
          Skip([(IF an = 15 THEN p ELSE [p EXCEPT !.da[an] = sp]) EXCEPT !.da[15] = y], 2)
    BY DEF link, v, A7
  <2>5. an # 15 => q = [p EXCEPT !.da[an] = sp]
    BY DEF Registered
  <2> HIDE DEF p, q, y, sp
  <2>6. (IF an = 15 THEN p ELSE [p EXCEPT !.da[an] = sp]) = q
    BY <2>3, <2>5
  <2> QED
    BY <2>1, <2>4, <2>6 DEF Registered
<1> HIDE DEF p, sp, w, y, an, size
<1>8. Effect(S, p, q, p.pc, p.ccr, {an}, {})
  BY <1>2, <1>6, RegisterSet
<1>9. q \in MachinesWith(S) /\ q.pc = p.pc /\ q.ccr = p.ccr
  BY <1>8 DEF Effect
<1> HIDE DEF q
<1>10. Effect(S, q, t, q.pc, q.ccr, {15}, {})
  <2>1. 15 \in 0 .. 15
    OBVIOUS
  <2> QED
    BY <1>3, <1>9, <2>1, RegisterSet
<1>11. t \in MachinesWith(S) /\ t.pc = b.pc /\ t.ccr = b.ccr
  BY <1>6, <1>9, <1>10 DEF Effect
<1> HIDE DEF t
<1>12. Effect(S, t, o, Long(t.pc + 2), t.ccr, {}, {})
  BY <1>11, SkipIs
<1> HIDE DEF o
<1> DEFINE B == Place(sp, 4)
<1> HIDE DEF B
<1>13. Effect(S, b, q, q.pc, q.ccr, {15} \cup {an}, B \cup {})
  BY <1>5, <1>8, <1>9, EffectThen DEF B
<1>14. Effect(S, b, t, q.pc, q.ccr, ({15} \cup {an}) \cup {15}, (B \cup {}) \cup {})
  BY <1>10, <1>13, EffectThen
<1>15. Effect(S, b, o, Long(t.pc + 2), t.ccr, (({15} \cup {an}) \cup {15}) \cup {},
              ((B \cup {}) \cup {}) \cup {})
  BY <1>12, <1>14, EffectThen
<1>16. /\ (({15} \cup {an}) \cup {15}) \cup {} = {15, an}
       /\ ((B \cup {}) \cup {}) \cup {} = B
  OBVIOUS
<1>17. Effect(S, b, o, Behind(b, j), b.ccr, {15, an}, B)
  BY <1>2, <1>11, <1>15, <1>16
<1>18. B = BytesDone(b, o, j)
  <2>1. B = Place(b.da[15] - 4, 4)
    BY <1>1, PushedPlace DEF B, sp
  <2> QED
    BY <2>1 DEF BytesDone, Pushing, A7
<1> QED
  BY <1>2, <1>7, <1>17, <1>18, EffectDone DEF an

(* Unlk, also of A7.                                                       *)
LEMMA UnlkDone ==
  ASSUME NEW S, NEW b \in MachinesWith(S), NEW j \in Decoded, Legal(j), j.op = "unlk"
  PROVE  Done(S, b, j, Transfer(b, j))
<1> DEFINE an == 8 + j.dst.r
           u == Registered(b, 15, b.da[an])
           p == pull(u, 4)
           r == Read(b, b.da[15], 4)
           o == IF an = 15 THEN Registered(r.m, 15, r.v) ELSE Registered(p.m, an, p.v)
<1>1. /\ an \in 0 .. 15 /\ b.da[an] \in Longs /\ {15, an} \subseteq RegistersOf(j)
      /\ FlagsDone(j, b.ccr, b.ccr) /\ j.op \notin Testing /\ Behind(b, j) = Long(b.pc + 0)
      /\ j.dst.mode = "a" /\ 15 \in 0 .. 15 /\ 4 \in All
  BY FrameRegister DEF All
<1>2. Behind(b, j) = b.pc
  BY <1>1, MachineParts, LongKeeps
<1>3. Transfer(b, j) = o
  <2>1. Transfer(b, j) = unlk(b, j)
    BY DEF Transfer
  <2> QED
    BY <2>1 DEF unlk, Registered, A7
<1> HIDE DEF an
<1>4. CASE an = 15
  <2>1. Effect(S, b, r.m, b.pc, b.ccr, {}, {}) /\ r.v \in Longs
    BY <1>1, ReadIs
  <2>2. r.m \in MachinesWith(S) /\ r.m.pc = b.pc /\ r.m.ccr = b.ccr
    BY <2>1 DEF Effect
  <2> DEFINE c == r.m
             v == r.v
             t == Registered(c, 15, v)
  <2> HIDE DEF c, v
  <2>3. c \in MachinesWith(S) /\ v \in Longs
    BY <2>1, <2>2 DEF c, v
  <2>4. Effect(S, c, t, c.pc, c.ccr, {15}, {})
    BY <1>1, <2>3, RegisterSet
  <2>5. Effect(S, b, c, b.pc, b.ccr, {}, {}) /\ c.pc = b.pc /\ c.ccr = b.ccr
    BY <2>1, <2>2 DEF c
  <2> HIDE DEF t
  <2>6. Effect(S, b, t, c.pc, c.ccr, {} \cup {15}, {} \cup {})
    BY <2>4, <2>5, EffectThen
  <2>7. Effect(S, b, t, Behind(b, j), b.ccr, {} \cup {15}, {})
    BY <1>2, <2>5, <2>6
  <2>8. {} \cup {15} \subseteq RegistersOf(j)
    BY <1>1
  <2>9. Done(S, b, j, t)
    BY <1>1, <2>7, <2>8, EffectDone
  <2> QED
    BY <1>3, <1>4, <2>9 DEF t, c, v
<1>5. CASE an # 15
  <2>1. Effect(S, b, u, b.pc, b.ccr, {15}, {})
    BY <1>1, RegisterSet
  <2>2. u \in MachinesWith(S) /\ u.pc = b.pc /\ u.ccr = b.ccr
    BY <2>1 DEF Effect
  <2> HIDE DEF u
  <2>3. Effect(S, u, p.m, u.pc, u.ccr, {15}, {}) /\ p.v \in Longs
    BY <1>1, <2>2, PullIs
  <2> DEFINE c == p.m
             v == p.v
             t == Registered(c, an, v)
  <2> HIDE DEF c, v
  <2>4. Effect(S, u, c, u.pc, u.ccr, {15}, {}) /\ v \in Longs
    BY <2>3 DEF c, v
  <2>5. c \in MachinesWith(S) /\ c.pc = b.pc /\ c.ccr = b.ccr
    BY <2>2, <2>4 DEF Effect
  <2>6. Effect(S, c, t, c.pc, c.ccr, {an}, {})
    BY <1>1, <2>4, <2>5, RegisterSet
  <2> HIDE DEF t
  <2>7. Effect(S, b, c, u.pc, u.ccr, {15} \cup {15}, {} \cup {})
    BY <2>1, <2>4, EffectThen
  <2>8. Effect(S, b, t, c.pc, c.ccr, ({15} \cup {15}) \cup {an}, ({} \cup {}) \cup {})
    BY <2>6, <2>7, EffectThen
  <2>9. Effect(S, b, t, Behind(b, j), b.ccr, ({15} \cup {15}) \cup {an}, {})
    BY <1>2, <2>5, <2>8
  <2>10. ({15} \cup {15}) \cup {an} \subseteq RegistersOf(j)
    BY <1>1 DEF an
  <2>11. Done(S, b, j, t)
    BY <1>1, <2>9, <2>10, EffectDone
  <2> QED
    BY <1>3, <1>5, <2>11 DEF t, c, v
<1> QED
  BY <1>4, <1>5

-----------------------------------------------------------------------------
(* The flow of control.                                                    *)

(* What the instructions of the flow change: neither data nor flags.       *)
LEMMA FlowParts ==
  ASSUME NEW S, NEW b \in MachinesWith(S), NEW j \in Decoded, Legal(j),
         j.op \in FlowOps \cup {"rte"}
  PROVE  /\ j.op # "dbcc" => j.dst.mode = "none"
         /\ FlagsDone(j, b.ccr, b.ccr) /\ j.op \notin Testing /\ j.n \in All
         /\ j.src \in Operands /\ j.dst \in Operands
         /\ Extension(j.dst, j.n) = 0 /\ Long(b.pc + Extension(j.src, j.n)) = Behind(b, j)
         /\ Extension(j.src, j.n) = 0 => Behind(b, j) = b.pc
<1>1. j.n \in All /\ j.src \in Operands /\ j.dst \in Operands
  BY ModesAre DEF ModeFacts, Decoded
<1>2. j.op # "dbcc" => j.dst.mode \in None
  BY ModesAre DEF ModeFacts, ToNone, FlowOps, StatusOps, Privileged
<1>3. j.op = "dbcc" => j.dst.mode \in D
  BY ModesAre DEF ModeFacts, ToData
<1>4. Extension(j.dst, j.n) = 0
  BY <1>2, <1>3 DEF Extension, D, None
<1>5. FlagsDone(j, b.ccr, b.ccr) /\ j.op \notin Testing
  <2>1. b.ccr \in Flags
    BY MachineParts
  <2>2. FlagsDone(j, b.ccr, b.ccr)
    BY <2>1, FlagsDoneIs
  <2>3. j.op \notin Testing
    BY SMT DEF Testing, FlowOps
  <2> QED
    BY <2>2, <2>3
<1>6. j.op \notin {"movem_re", "movem_er"}
  BY DEF FlowOps
<1> QED
  BY <1>1, <1>2, <1>4, <1>5, <1>6, WordsAfter DEF None

(* What ends at another place, perhaps having pushed or pulled.            *)
LEMMA JumpDone ==
  ASSUME NEW S, NEW b \in MachinesWith(S), NEW j \in Decoded, Legal(j),
         j.op \in FlowOps, j.op # "dbcc",
         NEW u, NEW pc, NEW R, NEW B, Effect(S, b, u, pc, b.ccr, R, B), NEW p \in Longs,
         Jumps(b, j) \/ p = Behind(b, j), R \subseteq RegistersOf(j),
         B = {} \/ (j.op \in Pushing /\ B = Place(b.da[15] - 4, 4))
  PROVE  Done(S, b, j, jump(u, p))
<1> DEFINE o == jump(u, p)
<1>1. u \in MachinesWith(S) /\ u.ccr = b.ccr
  BY DEF Effect
<1>2. Effect(S, u, o, p, u.ccr, {}, {})
  BY <1>1, PcSet
<1> HIDE DEF o
<1>3. Effect(S, b, o, p, u.ccr, R \cup {}, B \cup {})
  BY <1>2, EffectThen
<1>4. R \cup {} = R /\ B \cup {} = B
  OBVIOUS
<1>5. Effect(S, b, o, p, b.ccr, R, B)
  BY <1>1, <1>3, <1>4
<1>6. B \subseteq BytesDone(b, o, j)
  BY DEF BytesDone, A7
<1>7. j.dst.mode # "d" /\ FlagsDone(j, b.ccr, b.ccr) /\ j.op \notin Testing
  BY FlowParts
<1>8. Done(S, b, j, o)
  BY <1>5, <1>6, <1>7, EffectDone
<1> QED
  BY <1>8 DEF o

(* Bra and bcc.                                                            *)
LEMMA BranchesDone ==
  ASSUME NEW S, NEW b \in MachinesWith(S), NEW j \in Decoded, Legal(j), NEW x,
         j.op \in {"bra", "bcc"}
  PROVE  Done(S, b, j, Flow(b, j, x))
<1> DEFINE p == Long(b.pc + MAKE_INT(j.src.d, j.n))
<1>1. /\ j.n \in {1, 2} /\ j.n \in 1 .. 4 /\ (j.n = 1 => j.src.mode = "q")
      /\ (j.n = 2 => j.src.mode = "w")
  <2>1. j.op \in Branches
    BY DEF Branches
  <2>2. j.n \in {1, 2} /\ j.src.mode \in {"q", "w"}
    BY <2>1, WordsTaken DEF WordFacts
  <2> QED
    BY <2>1, <2>2 DEF Legal
<1>2. b.pc \in Int /\ MAKE_INT(j.src.d, j.n) \in Int
  <2>1. j.src.d \in Int
    BY FlowParts, OperandParts DEF FlowOps
  <2> QED
    BY <1>1, <2>1, LowIs, MachineParts
<1>3. p \in Longs
  <2>1. b.pc + MAKE_INT(j.src.d, j.n) \in Int
    BY <1>2
  <2> QED
    BY <2>1, LongSum
<1>4. bra(b, j) = jump(b, p)
  BY DEF bra, branch, jump
<1> HIDE DEF p
<1>5. Effect(S, b, b, b.pc, b.ccr, {}, {})
  BY EffectNone
<1>6. ASSUME NEW r \in Longs, Jumps(b, j) \/ r = Behind(b, j) PROVE Done(S, b, j, jump(b, r))
  <2>1. {} \subseteq RegistersOf(j) /\ j.op \in FlowOps /\ j.op # "dbcc"
    BY DEF FlowOps
  <2> QED
    BY <1>5, <1>6, <2>1, JumpDone
<1>7. CASE j.op = "bra" \/ Holds(j.how, b.ccr)
  <2>1. Jumps(b, j)
    BY <1>7 DEF Jumps
  <2>2. Flow(b, j, x) = bra(b, j)
    BY <1>7 DEF Flow, bcc
  <2> QED
    BY <1>3, <1>4, <1>6, <2>1, <2>2
<1>8. CASE j.op # "bra" /\ ~Holds(j.how, b.ccr)
  <2> DEFINE r == IF j.n = 2 THEN Long(b.pc + 2) ELSE b.pc
  <2>1. r \in Longs
    <3>1. b.pc + 2 \in Int
      BY <1>2
    <3> QED
      BY <3>1, LongSum, MachineParts
  <2>2. r = Behind(b, j)
    <3>1. Extension(j.src, j.n) = IF j.n = 2 THEN 2 ELSE 0
      BY <1>1 DEF Extension
    <3> QED
      BY <1>1, <3>1, FlowParts DEF FlowOps
  <2>3. Flow(b, j, x) = jump(b, r)
    <3>1. Flow(b, j, x) = IF j.n = 2 THEN Skip(b, 2) ELSE b
      BY <1>8 DEF Flow, bcc
    <3>2. Skip(b, 2) = jump(b, Long(b.pc + 2))
      BY DEF Skip, jump
    <3>3. jump(b, b.pc) = b
      BY DEF jump, MachinesWith
    <3> QED
      BY <3>1, <3>2, <3>3
  <2> HIDE DEF r
  <2> QED
    BY <1>6, <2>1, <2>2, <2>3
<1> QED
  BY <1>7, <1>8

(* A long pushed by an instruction that jumps.                             *)
LEMMA PushedIs ==
  ASSUME NEW S, NEW b \in MachinesWith(S), NEW u, NEW pc, NEW R,
         Effect(S, b, u, pc, b.ccr, R, {}), u.da = b.da, NEW v \in Int
  PROVE  Effect(S, b, push(u, 4, v), pc, b.ccr, R \cup {15}, Place(b.da[15] - 4, 4))
<1> DEFINE sp == Long(u.da[15] - 4)
           o == push(u, 4, v)
<1>1. u \in MachinesWith(S) /\ u.pc = pc /\ u.ccr = b.ccr /\ b.da[15] \in Int
  BY MachineParts DEF Effect
<1>2. Effect(S, u, o, u.pc, u.ccr, {15}, Place(sp, 4))
  <2>1. 4 \in All
    BY DEF All
  <2> QED
    BY <1>1, <2>1, PushIs
<1> HIDE DEF o
<1>3. Place(sp, 4) = Place(b.da[15] - 4, 4)
  BY <1>1, PushedPlace
<1> HIDE DEF sp
<1>4. Effect(S, b, o, u.pc, u.ccr, R \cup {15}, {} \cup Place(sp, 4))
  BY <1>2, EffectThen
<1>5. {} \cup Place(sp, 4) = Place(b.da[15] - 4, 4)
  BY <1>3
<1> QED
  BY <1>1, <1>4, <1>5 DEF o

(* Bsr, jmp and jsr.                                                       *)
LEMMA CallsDone ==
  ASSUME NEW S, NEW b \in MachinesWith(S), NEW j \in Decoded, Legal(j), NEW x,
         j.op \in {"bsr", "jmp", "jsr"}
  PROVE  Done(S, b, j, Flow(b, j, x))
<1>1. /\ j.op \in FlowOps /\ j.op # "dbcc" /\ Jumps(b, j)
      /\ j.src \in Operands /\ 4 \in All /\ b.pc \in Int /\ b.pc \in Longs
  BY FlowParts, MachineParts DEF FlowOps, Jumps, All
<1>2. {15} \subseteq RegistersOf(j) \/ j.op = "jmp"
  BY DEF RegistersOf, OnStack, Pushing, A7
<1>3. ASSUME j.op \in {"jmp", "jsr"}
      PROVE  /\ j.src.mode \in Memory \cup {"pcdi", "pcix"} /\ j.src.mode \notin {"pi", "pd"}
             /\ EA(b, j.src, 4) \in Longs
  <2>1. j.src.mode \in ControlPc
    BY <1>3, WordsTaken DEF WordFacts
  <2>2. j.src.mode \in Memory \cup {"pcdi", "pcix"} /\ j.src.mode \notin {"pi", "pd"}
    BY <2>1 DEF ControlPc, Control, Memory
  <2> QED
    BY <1>1, <2>2, AddressIs
<1>4. CASE j.op = "jmp"
  <2>1. Effect(S, b, b, b.pc, b.ccr, {}, {})
    BY EffectNone
  <2>2. Flow(b, j, x) = jump(b, EA(b, j.src, 4))
    BY <1>4 DEF Flow, jmp
  <2>3. {} \subseteq RegistersOf(j)
    OBVIOUS
  <2> DEFINE p == EA(b, j.src, 4)
  <2>4. p \in Longs
    BY <1>3, <1>4
  <2> HIDE DEF p
  <2>5. Done(S, b, j, jump(b, p))
    BY <1>1, <2>1, <2>3, <2>4, JumpDone
  <2> QED
    BY <2>2, <2>5 DEF p
<1>5. ASSUME NEW u, Effect(S, b, u, u.pc, b.ccr, Stepped(j.src), {}), u.da = b.da, NEW p \in Longs,
             j.op \in Pushing
      PROVE  Done(S, b, j, jump(push(u, 4, u.pc), p))
  <2>1. u.pc \in Int
    BY <1>5, MachineParts DEF Effect
  <2> DEFINE pc == u.pc
             t == push(u, 4, pc)
             B == Place(b.da[15] - 4, 4)
             R == Stepped(j.src) \cup {15}
  <2>2. Effect(S, b, t, pc, b.ccr, R, B)
    BY <1>5, <2>1, PushedIs
  <2>3. R \subseteq RegistersOf(j)
    BY <1>5 DEF RegistersOf, OnStack, A7
  <2> HIDE DEF t, R, pc
  <2>4. Done(S, b, j, jump(t, p))
    BY <1>1, <1>5, <2>2, <2>3, JumpDone
  <2> QED
    BY <2>4 DEF t, pc
<1>6. CASE j.op = "jsr"
  <2> DEFINE u == Used(b, j.src, 4)
             p == EA(b, j.src, 4)
  <2>1. Effect(S, b, u, Long(b.pc + Extension(j.src, 4)), b.ccr, Stepped(j.src), {}) /\ u.da = b.da
    BY <1>1, <1>3, <1>6, UsedIs
  <2>2. Effect(S, b, u, u.pc, b.ccr, Stepped(j.src), {})
    BY <2>1 DEF Effect
  <2>3. p \in Longs
    BY <1>3, <1>6
  <2>4. Flow(b, j, x) = jump(push(u, 4, u.pc), p)
    BY <1>6 DEF Flow, jsr
  <2> HIDE DEF u, p
  <2>5. j.op \in Pushing
    BY <1>6 DEF Pushing
  <2> QED
    BY <1>5, <2>1, <2>2, <2>3, <2>4, <2>5
<1>7. CASE j.op = "bsr"
  <2> DEFINE u == IF j.n = 2 THEN Skip(b, 2) ELSE b
             p == bra(b, j).pc
  <2>1. Effect(S, b, u, u.pc, b.ccr, {}, {}) /\ u.da = b.da
    <3>1. Effect(S, b, Skip(b, 2), Long(b.pc + 2), b.ccr, {}, {}) /\ Skip(b, 2).da = b.da
      BY SkipIs
    <3>2. Effect(S, b, Skip(b, 2), Skip(b, 2).pc, b.ccr, {}, {})
      BY <3>1 DEF Effect
    <3>3. Effect(S, b, b, b.pc, b.ccr, {}, {})
      BY EffectNone
    <3> QED
      BY <3>1, <3>2, <3>3
  <2>2. p \in Longs
    <3>1. j.n \in 1 .. 4
      <4>1. j.op \in Branches
        BY <1>7 DEF Branches
      <4>2. j.n \in {1, 2}
        BY <4>1, WordsTaken DEF WordFacts
      <4> QED
        BY <4>2
    <3>2. j.src.d \in Int
      BY <1>1, OperandParts
    <3>3. MAKE_INT(j.src.d, j.n) \in Int
      BY <3>1, <3>2, LowIs
    <3>4. b.pc + MAKE_INT(j.src.d, j.n) \in Int
      BY <1>1, <3>3
    <3>5. p = Long(b.pc + MAKE_INT(j.src.d, j.n))
      BY DEF bra, branch, MachinesWith
    <3> QED
      BY <3>4, <3>5, LongSum
  <2>3. Flow(b, j, x) = jump(push(u, 4, u.pc), p)
    <3>1. Flow(b, j, x) = bsr(b, j)
      BY <1>7 DEF Flow
    <3> QED
      BY <3>1 DEF bsr, jump
  <2> HIDE DEF u, p
  <2>4. Effect(S, b, u, u.pc, b.ccr, Stepped(j.src), {})
    <3>1. {} \subseteq Stepped(j.src) /\ {} \subseteq {}
      OBVIOUS
    <3> QED
      BY <2>1, <3>1, EffectMore
  <2>5. j.op \in Pushing
    BY <1>7 DEF Pushing
  <2> QED
    BY <1>5, <2>1, <2>2, <2>3, <2>4, <2>5
<1> QED
  BY <1>4, <1>6, <1>7

(* A value pulled from the stack, and gone to.                             *)
LEMMA ReturnsIs ==
  ASSUME NEW S, NEW b \in MachinesWith(S), NEW n \in All, NEW o, o = pull(b, n)
  PROVE  /\ Effect(S, b, jump(o.m, o.v), o.v, b.ccr, {15}, {})
         /\ Effect(S, b, o.m, b.pc, b.ccr, {15}, {})
         /\ o.m \in MachinesWith(S) /\ o.v \in Longs
<1>1. Effect(S, b, o.m, b.pc, b.ccr, {15}, {}) /\ o.v \in Longs
  BY PullIs
<1>2. o.m \in MachinesWith(S) /\ o.m.ccr = b.ccr
  BY <1>1 DEF Effect
<1> DEFINE c == o.m
           v == o.v
           t == jump(c, v)
<1> HIDE DEF c, v
<1>3. /\ c \in MachinesWith(S) /\ v \in Longs /\ c.ccr = b.ccr
      /\ Effect(S, b, c, b.pc, b.ccr, {15}, {})
  BY <1>1, <1>2 DEF c, v
<1>4. Effect(S, c, t, v, c.ccr, {}, {})
  BY <1>3, PcSet
<1> HIDE DEF t
<1>5. Effect(S, b, t, v, c.ccr, {15} \cup {}, {} \cup {})
  BY <1>3, <1>4, EffectThen
<1>6. Effect(S, b, t, v, b.ccr, {15}, {})
  BY <1>3, <1>5
<1> QED
  BY <1>1, <1>2, <1>6 DEF t, c, v

(* Rts and rtr.                                                            *)
LEMMA ReturnsDone ==
  ASSUME NEW S, NEW b \in MachinesWith(S), NEW j \in Decoded, Legal(j), NEW x,
         j.op \in {"rts", "rtr"}
  PROVE  Done(S, b, j, Flow(b, j, x))
<1>1. /\ j.op \in FlowOps /\ Jumps(b, j) /\ {15} \subseteq RegistersOf(j)
      /\ 2 \in All /\ 4 \in All
  BY DEF FlowOps, Jumps, All, RegistersOf, OnStack, Pushing, A7
<1>2. j.dst.mode # "d" /\ FlagsDone(j, b.ccr, b.ccr) /\ j.op \notin Testing
  BY <1>1, FlowParts
<1>3. CASE j.op = "rts"
  <2> DEFINE p == pull(b, 4)
             o == jump(p.m, p.v)
  <2>1. Flow(b, j, x) = o
    BY <1>3 DEF Flow, rts
  <2>2. Effect(S, b, o, p.v, b.ccr, {15}, {})
    BY <1>1, ReturnsIs
  <2> HIDE DEF o, p
  <2>3. {} \subseteq BytesDone(b, o, j)
    OBVIOUS
  <2> QED
    BY <1>1, <1>2, <2>1, <2>2, <2>3, EffectDone
<1>4. CASE j.op = "rtr"
  <2> DEFINE f == pull(b, 2)
             p == pull(f.m, 4)
             q == jump(p.m, p.v)
             g == set_ccr(f.v)
             o == Flagged(q, g)
  <2>1. Flow(b, j, x) = o
    BY <1>4 DEF Flow, rtr, Flagged
  <2>2. Effect(S, b, f.m, b.pc, b.ccr, {15}, {}) /\ f.m \in MachinesWith(S)
    BY <1>1, ReturnsIs
  <2>3. f.m.ccr = b.ccr
    BY <2>2 DEF Effect
  <2> DEFINE c == f.m
  <2> HIDE DEF c
  <2>4. c \in MachinesWith(S) /\ Effect(S, b, c, b.pc, b.ccr, {15}, {}) /\ c.ccr = b.ccr
    BY <2>2, <2>3 DEF c
  <2>5. p = pull(c, 4)
    BY DEF c
  <2> HIDE DEF p
  <2>6. Effect(S, c, q, p.v, c.ccr, {15}, {})
    BY <1>1, <2>4, <2>5, ReturnsIs
  <2>7. q \in MachinesWith(S) /\ q.pc = p.v
    BY <2>6 DEF Effect
  <2> HIDE DEF q
  <2>8. g \in Flags
    BY SetCcrIs
  <2> HIDE DEF g
  <2>9. Effect(S, q, o, q.pc, g, {}, {})
    BY <2>7, <2>8, FlagsSet
  <2> HIDE DEF o
  <2>10. Effect(S, b, q, p.v, c.ccr, {15} \cup {15}, {} \cup {})
    BY <2>4, <2>6, EffectThen
  <2>11. Effect(S, b, o, q.pc, g, ({15} \cup {15}) \cup {}, ({} \cup {}) \cup {})
    BY <2>9, <2>10, EffectThen
  <2>12. ({15} \cup {15}) \cup {} = {15} /\ ({} \cup {}) \cup {} = {}
    OBVIOUS
  <2>13. Effect(S, b, o, q.pc, g, {15}, {})
    BY <2>11, <2>12
  <2>14. FlagsDone(j, b.ccr, g)
    <3>1. j.op \in Coding
      BY <1>4 DEF Coding
    <3> QED
      BY <2>8, <3>1, MachineParts, FlagsOfIs, FlagsDoneIs
  <2>15. {} \subseteq BytesDone(b, o, j)
    OBVIOUS
  <2> QED
    BY <1>1, <1>2, <2>1, <2>13, <2>14, <2>15, EffectDone
<1> QED
  BY <1>3, <1>4

(* The counter of DBcc: a word that reaches -1 from 0 alone.               *)
LEMMA CountIs ==
  ASSUME NEW x \in Int, NEW y \in Int, NEW w \in Int, x = y + 1, w + 1 = 0,
         Low(y, 2) # Low(w, 2)
  PROVE  Low(x, 2) # 0
<1>1. CASE Numbers(64, 4096, 262144, 16777216)
  <2>1. Low(x, 2) = x % 4096 /\ Low(y, 2) = y % 4096 /\ Low(w, 2) = w % 4096
    BY <1>1, SMT DEF Numbers
  <2>2. x % 4096 = 0 => y % 4096 = 4095
    BY SMT
  <2>3. w % 4096 = 4095
    BY SMT
  <2> QED
    BY <2>1, <2>2, <2>3, SMT
<1>2. CASE Numbers(128, 16384, 2097152, 268435456)
  <2>1. Low(x, 2) = x % 16384 /\ Low(y, 2) = y % 16384 /\ Low(w, 2) = w % 16384
    BY <1>2, SMT DEF Numbers
  <2>2. x % 16384 = 0 => y % 16384 = 16383
    BY SMT
  <2>3. w % 16384 = 16383
    BY SMT
  <2> QED
    BY <2>1, <2>2, <2>3, SMT
<1>3. CASE Numbers(256, 65536, 16777216, 4294967296)
  <2>1. Low(x, 2) = x % 65536 /\ Low(y, 2) = y % 65536 /\ Low(w, 2) = w % 65536
    BY <1>3, SMT DEF Numbers
  <2>2. x % 65536 = 0 => y % 65536 = 65535
    BY SMT
  <2>3. w % 65536 = 65535
    BY SMT
  <2> QED
    BY <2>1, <2>2, <2>3, SMT
<1> QED
  BY <1>1, <1>2, <1>3, Widths, SMT

(* Dbcc.                                                                   *)
LEMMA DbccDone ==
  ASSUME NEW S, NEW b \in MachinesWith(S), NEW j \in Decoded, Legal(j), NEW x, j.op = "dbcc"
  PROVE  Done(S, b, j, Flow(b, j, x))
<1> DEFINE k == j.dst.r
           d == b.da[k]
           count == Low(d - 1, 2)
           v == Upper(d, 2) + count
           c == Registered(b, k, v)
           y == MAKE_INT(j.src.d, 2)
<1>1. /\ j.op \in FlowOps /\ j.src \in Operands /\ j.dst \in Operands /\ j.n \in All
      /\ FlagsDone(j, b.ccr, b.ccr) /\ j.op \notin Testing
      /\ Long(b.pc + Extension(j.src, j.n)) = Behind(b, j)
  BY FlowParts DEF FlowOps
<1>2. j.n = 2 /\ j.src.mode = "w" /\ j.dst.mode = "d"
  BY WordsTaken, ModesAre DEF WordFacts, ModeFacts, ToData, D
<1>3. k \in 0 .. 15 /\ d \in Longs /\ d \in Int /\ b.pc \in Int /\ y \in Int
  <2>1. k \in 0 .. 15 /\ j.src.d \in Int /\ 2 \in 1 .. 4
    BY <1>1, OperandParts
  <2> QED
    BY <2>1, MachineParts, LowIs
<1>4. v \in Longs /\ Upper(v, 2) = Upper(d, 2)
  <2>1. d - 1 \in Int /\ 2 \in All
    BY <1>3 DEF All
  <2> QED
    BY <1>3, <2>1, UpperLow
<1>5. Behind(b, j) = Long(b.pc + 2)
  <2>1. Extension(j.src, j.n) = 2
    BY <1>2 DEF Extension
  <2> QED
    BY <1>1, <2>1
<1>6. {k} \subseteq RegistersOf(j)
  BY <1>2 DEF RegistersOf, ReadOnly, NumberOf, AD
<1>7. Flow(b, j, x) = IF Holds(j.how, b.ccr) THEN jump(b, Long(b.pc + 2))
                      ELSE IF count # Low(-1, 2) THEN jump(c, Long(b.pc + y))
                      ELSE jump(c, Long(b.pc + 2))
  <2>1. Flow(b, j, x) = dbcc(b, j)
    BY DEF Flow
  <2>2. c.pc = b.pc
    BY DEF Registered, MachinesWith
  <2>3. Skip(b, 2) = jump(b, Long(b.pc + 2))
    BY DEF Skip, jump
  <2>4. dbcc(b, j) = IF Holds(j.how, b.ccr) THEN Skip(b, 2)
                     ELSE IF count # Low(-1, 2) THEN branch(c, y) ELSE Skip(c, 2)
    BY DEF dbcc, Registered
  <2> HIDE DEF c
  <2>5. Skip(c, 2) = jump(c, Long(b.pc + 2)) /\ branch(c, y) = jump(c, Long(b.pc + y))
    BY <2>2 DEF Skip, jump, branch
  <2> QED
    BY <2>1, <2>3, <2>4, <2>5
<1> HIDE DEF v, y, count, k
<1>8. Effect(S, b, c, b.pc, b.ccr, {k}, {}) /\ c.da[k] = v
  BY <1>3, <1>4, RegisterSet
<1> HIDE DEF c
<1>9. ASSUME NEW u, NEW R, Effect(S, b, u, b.pc, b.ccr, R, {}), R \subseteq RegistersOf(j),
             NEW z \in Int, Jumps(b, j) \/ Long(b.pc + z) = Behind(b, j),
             Upper(u.da[k], 2) = Upper(d, 2)
      PROVE  Done(S, b, j, jump(u, Long(b.pc + z)))
  <2> DEFINE p == Long(b.pc + z)
             o == jump(u, p)
  <2>1. p \in Longs
    <3>1. b.pc + z \in Int
      BY <1>3, <1>9
    <3> QED
      BY <3>1, LongSum
  <2>2. u \in MachinesWith(S) /\ u.ccr = b.ccr
    BY <1>9 DEF Effect
  <2>3. Jumps(b, j) \/ p = Behind(b, j)
    BY <1>9
  <2> HIDE DEF p
  <2>4. Effect(S, u, o, p, u.ccr, {}, {}) /\ o.da = u.da
    BY <2>1, <2>2, PcSet
  <2> HIDE DEF o
  <2>5. Effect(S, b, o, p, u.ccr, R \cup {}, {} \cup {})
    BY <1>9, <2>4, EffectThen
  <2>6. R \cup {} = R /\ {} \cup {} = {}
    OBVIOUS
  <2>7. Effect(S, b, o, p, b.ccr, R, {})
    BY <2>2, <2>5, <2>6
  <2>8. {} \subseteq BytesDone(b, o, j)
    OBVIOUS
  <2>9. Upper(o.da[j.dst.r], j.n) = Upper(b.da[j.dst.r], j.n)
    BY <1>2, <1>9, <2>4 DEF k
  <2>10. Done(S, b, j, o)
    BY <1>1, <1>9, <2>3, <2>7, <2>8, <2>9, EffectDone
  <2> QED
    BY <2>10 DEF o, p
<1>10. CASE Holds(j.how, b.ccr)
  <2>1. Effect(S, b, b, b.pc, b.ccr, {}, {})
    BY EffectNone
  <2>2. {} \subseteq RegistersOf(j) /\ 2 \in Int
    OBVIOUS
  <2>3. Done(S, b, j, jump(b, Long(b.pc + 2)))
    BY <1>5, <1>9, <2>1, <2>2
  <2> QED
    BY <1>7, <1>10, <2>3
<1>11. CASE ~Holds(j.how, b.ccr) /\ count # Low(-1, 2)
  <2>1. Jumps(b, j)
    <3>1. Low(d, 2) # 0
      <4> DEFINE y1 == d - 1
                 w1 == -1
      <4>1. y1 \in Int /\ w1 \in Int /\ d = y1 + 1 /\ w1 + 1 = 0
        BY <1>3
      <4>2. Low(y1, 2) # Low(w1, 2)
        BY <1>11 DEF count
      <4> HIDE DEF y1, w1
      <4> QED
        BY <1>3, <4>1, <4>2, CountIs
    <3> QED
      BY <1>11, <3>1 DEF Jumps, k
  <2>2. Done(S, b, j, jump(c, Long(b.pc + y)))
    BY <1>3, <1>4, <1>6, <1>8, <1>9, <2>1
  <2> QED
    BY <1>7, <1>11, <2>2
<1>12. CASE ~Holds(j.how, b.ccr) /\ count = Low(-1, 2)
  <2>1. 2 \in Int
    OBVIOUS
  <2>2. Done(S, b, j, jump(c, Long(b.pc + 2)))
    BY <1>4, <1>5, <1>6, <1>8, <1>9, <2>1
  <2> QED
    BY <1>7, <1>12, <2>2
<1> QED
  BY <1>10, <1>11, <1>12

(* Nop, trapv and trap.                                                    *)
LEMMA TrapsDone ==
  ASSUME NEW S, NEW b \in MachinesWith(S), NEW j, Fitting(j), Legal(j), NEW x \in Longs,
         j.op \in {"nop", "trapv", "trap"}
  PROVE  Outcome(S, b, j, Flow(b, j, x))
<1>1. j \in Decoded /\ ~Refused(b, j) /\ j.op \in FlowOps
  BY DEF Fitting, Refused, Privileged, FlowOps
<1>2. /\ FlagsDone(j, b.ccr, b.ccr) /\ j.op \notin Testing /\ j.dst.mode # "d"
      /\ Behind(b, j) = b.pc
  <2>1. j.src.mode \in {"none", "q"}
    BY WordsTaken DEF WordFacts, None
  <2>2. Extension(j.src, j.n) = 0
    BY <2>1 DEF Extension
  <2> QED
    BY <1>1, <2>2, FlowParts
<1>3. ASSUME NEW o, NEW R, Effect(S, b, o, b.pc, b.ccr, R, {}), R \subseteq RegistersOf(j),
             ~Traps(b, j)
      PROVE  Outcome(S, b, j, o)
  <2>1. {} \subseteq BytesDone(b, o, j)
    OBVIOUS
  <2>2. Done(S, b, j, o)
    BY <1>2, <1>3, <2>1, EffectDone
  <2> QED
    BY <1>1, <1>3, <2>2 DEF Outcome
<1>4. Effect(S, b, b, b.pc, b.ccr, {}, {}) /\ {} \subseteq RegistersOf(j)
  BY EffectNone
<1>5. ASSUME NEW v \in 0 .. 47, v = VectorOf(j), Traps(b, j)
      PROVE  Outcome(S, b, j, exception_trap(b, v))
  <2>1. Effect(S, b, b, Behind(b, j), b.ccr, Stepped(j.src), {})
    <3>1. {} \subseteq Stepped(j.src) /\ {} \subseteq {}
      OBVIOUS
    <3>2. Effect(S, b, b, b.pc, b.ccr, Stepped(j.src), {})
      BY <1>4, <3>1, EffectMore
    <3> QED
      BY <1>2, <3>2
  <2>2. Failed(S, b, j, exception_trap(b, v))
    BY <1>1, <1>2, <1>5, <2>1, FailedIs
  <2> QED
    BY <1>5, <2>2 DEF Outcome
<1>6. CASE j.op = "nop"
  <2>1. ~Traps(b, j)
    BY <1>6 DEF Traps
  <2>2. Flow(b, j, x) = b
    BY <1>6 DEF Flow, nop
  <2> QED
    BY <1>3, <1>4, <2>1, <2>2
<1>7. CASE j.op = "trapv"
  <2>1. Traps(b, j) <=> b.ccr.V
    BY <1>7 DEF Traps
  <2>2. Flow(b, j, x) = IF b.ccr.V THEN exception_trap(b, 7) ELSE b
    BY <1>7 DEF Flow, trapv, EXCEPTION_TRAPV
  <2>3. 7 = VectorOf(j) /\ 7 \in 0 .. 47
    BY <1>7 DEF VectorOf, Privileged
  <2>4. CASE b.ccr.V
    BY <1>5, <2>1, <2>2, <2>3, <2>4
  <2>5. CASE ~b.ccr.V
    BY <1>3, <1>4, <2>1, <2>2, <2>5
  <2> QED
    BY <2>4, <2>5
<1>8. CASE j.op = "trap"
  <2> DEFINE d == j.src.d
  <2>1. d \in 0 .. 15
    BY <1>8 DEF Fitting
  <2>2. Traps(b, j) <=> d \notin {1, 2, 13, 14}
    BY <1>8 DEF Traps, HostTraps
  <2>3. Flow(b, j, x) = IF 32 + d \in {33, 34, 45, 46} THEN m68k_trap(b, 32 + d, x)
                        ELSE Exception(b, 32 + d, b.pc)
    BY <1>8 DEF Flow, trap, exception_trapN, EXCEPTION_TRAP_BASE
  <2>4. 32 + d = VectorOf(j)
    BY <1>8 DEF VectorOf, Privileged
  <2> HIDE DEF d
  <2>5. CASE d \notin {1, 2, 13, 14}
    <3>1. 32 + d \notin {33, 34, 45, 46} /\ 32 + d \in 0 .. 47
      BY <2>1, <2>5
    <3>2. Flow(b, j, x) = exception_trap(b, 32 + d)
      BY <2>3, <3>1 DEF exception_trap
    <3> DEFINE v == 32 + d
    <3> HIDE DEF v
    <3>3. v \in 0 .. 47 /\ v = VectorOf(j)
      BY <2>4, <3>1 DEF v
    <3>4. Outcome(S, b, j, exception_trap(b, v))
      BY <1>5, <2>2, <2>5, <3>3
    <3> QED
      BY <3>2, <3>4 DEF v
  <2>6. CASE d \in {1, 13, 14}
    <3>1. 32 + d \in {33, 45, 46} /\ 32 + d # 34
      BY <2>6
    <3>2. Flow(b, j, x) = Registered(b, 0, x)
      BY <2>3, <3>1 DEF m68k_trap, Registered
    <3>3. 0 \in 0 .. 15
      OBVIOUS
    <3>4. Effect(S, b, Registered(b, 0, x), b.pc, b.ccr, {0}, {})
      BY <3>3, RegisterSet
    <3>5. {0} \subseteq RegistersOf(j) /\ ~Traps(b, j)
      BY <1>8, <2>2, <2>6 DEF RegistersOf
    <3> QED
      BY <1>3, <3>2, <3>4, <3>5
  <2>7. CASE d = 2
    <3> DEFINE o == [b EXCEPT !.run = FALSE]
    <3>1. Flow(b, j, x) = o
      BY <2>3, <2>7 DEF m68k_trap
    <3>2. Effect(S, b, o, b.pc, b.ccr, {}, {})
      BY DEF Effect, MachinesWith
    <3>3. ~Traps(b, j)
      BY <2>2, <2>7
    <3> QED
      BY <1>3, <1>4, <3>1, <3>2, <3>3
  <2> QED
    BY <2>5, <2>6, <2>7
<1> QED
  BY <1>6, <1>7, <1>8

-----------------------------------------------------------------------------
(* The status register.                                                    *)

(* In and out of supervisor mode by the status register.                   *)
LEMMA SetSrIs ==
  ASSUME NEW S, NEW c \in MachinesWith(S), NEW w \in Int
  PROVE  LET o == set_sr(c, w)
         IN  /\ o \in MachinesWith(S) /\ o.ccr \in Flags
             /\ o.pc = c.pc /\ o.ppc = c.ppc /\ o.run = c.run /\ o.ram = c.ram
             /\ \A k \in 0 .. 15 : (k = 15 /\ o.s # c.s) \/ o.da[k] = c.da[k]
<1> DEFINE o == set_sr(c, w)
           t == BitSet(w, Bits(2) - 1)
           i == (w \div 2^Bits(1)) % 8
           f == set_ccr(w)
           s == BitSet(w, Bits(2) - 3)
           u == [c EXCEPT !.t1 = t, !.im = i, !.ccr = f]
<1>1. t \in BOOLEAN /\ s \in BOOLEAN
  BY DEF BitSet
<1>2. i \in 0 .. 7
  <2>1. 2^Bits(1) = 64 \/ 2^Bits(1) = 128 \/ 2^Bits(1) = 256
    BY Widths, SMT DEF Numbers
  <2> DEFINE z == 2^Bits(1)
  <2>2. z \in Nat \ {0}
    BY <2>1
  <2> HIDE DEF z
  <2>3. w \div z \in Int
    BY <2>2, DivMod
  <2> DEFINE y == w \div z
  <2> HIDE DEF y
  <2>4. y % 8 \in 0 .. 7
    BY <2>3, SMT DEF y
  <2> QED
    BY <2>4 DEF y, z
<1>3. f \in Flags
  BY SetCcrIs
<1>4. o = set_s_flag(u, s)
  BY DEF set_sr
<1> HIDE DEF t, i, f, s
<1>5. /\ u \in MachinesWith(S) /\ u.ccr \in Flags /\ u.pc = c.pc /\ u.ppc = c.ppc
      /\ u.run = c.run /\ u.ram = c.ram /\ u.da = c.da /\ u.s = c.s
  BY <1>1, <1>2, <1>3 DEF MachinesWith
<1> HIDE DEF u, o
<1>6. CASE s = u.s
  <2>1. o = u
    BY <1>4, <1>6 DEF set_s_flag
  <2> QED
    BY <1>5, <2>1 DEF o
<1>7. CASE s # u.s
  <2>1. o = [u EXCEPT !.s = s, !.banked = u.da[15], !.da[15] = u.banked]
    BY <1>4, <1>7 DEF set_s_flag, A7
  <2>2. u.da \in [0 .. 15 -> Longs] /\ 15 \in 0 .. 15 /\ u.banked \in Longs /\ u.da[15] \in Longs
    BY <1>5 DEF MachinesWith
  <2>3. [u.da EXCEPT ![15] = u.banked] \in [0 .. 15 -> Longs]
    BY <2>2
  <2>4. o.da = [u.da EXCEPT ![15] = u.banked]
    BY <1>5, <2>1 DEF MachinesWith
  <2>5. o \in MachinesWith(S)
    BY <1>1, <1>5, <2>1, <2>2, <2>3 DEF MachinesWith
  <2>6. /\ o.s = s /\ o.pc = u.pc /\ o.ppc = u.ppc /\ o.ccr = u.ccr /\ o.run = u.run
        /\ o.ram = u.ram
    BY <1>5, <2>1 DEF MachinesWith
  <2> QED
    BY <1>5, <1>7, <2>2, <2>4, <2>5, <2>6 DEF o
<1> QED
  BY <1>6, <1>7

(* What the instructions of the status register change.                    *)
LEMMA StatusParts ==
  ASSUME NEW S, NEW b \in MachinesWith(S), NEW j \in Decoded, Legal(j), j.op \in StatusOps,
         j.op # "move_frs"
  PROVE  /\ j.dst.mode \in {"none", "a"} /\ j.n \in All /\ j.src \in Operands
         /\ j.op \notin Testing
         /\ Long(b.pc + Extension(j.src, j.n)) = Behind(b, j)
         /\ Extension(j.src, j.n) = 0 => Behind(b, j) = b.pc
         /\ j.op \in StatusWords => j.n = 2
         /\ j.op \in {"reset", "rte", "move_fru", "move_tou"} => Extension(j.src, j.n) = 0
         /\ j.op = "stop" => Extension(j.src, j.n) = 2
         /\ j.op = "move_fru" => j.dst.mode = "a"
         /\ j.op \notin {"move_fru", "move_tou", "reset"} => FlagsOf(j) = FlagNames
<1>1. j.n \in All /\ j.src \in Operands
  BY ModesAre DEF ModeFacts, Decoded
<1>2. j.op # "move_fru" => j.dst.mode \in None
  BY ModesAre DEF ModeFacts, ToNone
<1>3. j.op = "move_fru" => j.dst.mode \in A
  BY ModesAre DEF ModeFacts, ToAddress
<1>4. j.dst.mode \in {"none", "a"} /\ (j.op = "move_fru" => j.dst.mode = "a")
  BY <1>2, <1>3 DEF None, A
<1>5. Extension(j.dst, j.n) = 0
  BY <1>4 DEF Extension
<1>6. j.op \notin Testing /\ j.op \notin {"movem_re", "movem_er"}
  BY SMT DEF Testing, StatusOps, Privileged
<1>7. j.op \in StatusWords => j.n = 2
  BY WordsTaken DEF WordFacts
<1>8. /\ j.op \in {"reset", "rte", "move_fru"} => j.src.mode = "none"
      /\ j.op = "move_tou" => j.src.mode = "a"
      /\ j.op = "stop" => j.src.mode = "w"
  BY WordsTaken DEF WordFacts, None, A
<1>9. /\ j.op \in {"reset", "rte", "move_fru", "move_tou"} => Extension(j.src, j.n) = 0
      /\ j.op = "stop" => Extension(j.src, j.n) = 2
  BY <1>8 DEF Extension
<1>10. j.op \notin {"move_fru", "move_tou", "reset"} => FlagsOf(j) = FlagNames
  BY FlagsOfIs DEF Coding
<1> QED
  BY <1>1, <1>4, <1>5, <1>6, <1>7, <1>9, <1>10, WordsAfter

(* An instruction refused ends in an exception.                            *)
LEMMA ViolationIs ==
  ASSUME NEW S, NEW b \in MachinesWith(S), NEW j \in Decoded, Refused(b, j),
         NEW v \in 0 .. 47, v = VectorOf(j)
  PROVE  Outcome(S, b, j, Exception(b, v, b.ppc))
<1>1. b.ppc \in Longs /\ b.ccr \in Flags
  BY MachineParts
<1>2. Taken(S, b, Exception(b, v, b.ppc), v, b.ppc)
  BY <1>1, ExceptionIs
<1>3. Effect(S, b, b, b.pc, b.ccr, {}, {})
  BY EffectNone
<1>4. FlagsDone(j, b.ccr, b.ccr)
  BY <1>1, FlagsDoneIs
<1> HIDE DEF Taken, Effect, FlagsDone
<1> QED
  BY <1>2, <1>3, <1>4 DEF Failed, Outcome

(* As a privileged one does in user mode.                                  *)
LEMMA PrivilegesDone ==
  ASSUME NEW S, NEW b \in MachinesWith(S), NEW j \in Decoded, Legal(j), j.op \in Privileged, ~b.s
  PROVE  Outcome(S, b, j, exception_privilege_violation(b))
<1>1. Refused(b, j)
  BY DEF Refused
<1>2. 8 = VectorOf(j) /\ 8 \in 0 .. 47
  BY DEF VectorOf, Privileged
<1> QED
  BY <1>1, <1>2, ViolationIs DEF exception_privilege_violation, EXCEPTION_PRIVILEGE_VIOLATION

(* A supervisor has set the status register.                               *)
LEMMA SetSrDone ==
  ASSUME NEW S, NEW b \in MachinesWith(S), NEW j \in Decoded, Legal(j), j.op \in Privileged, b.s,
         j.op \notin {"move_fru", "move_tou", "reset"},
         NEW u, NEW pc, NEW R, Effect(S, b, u, pc, b.ccr, R, {}), Jumps(b, j) \/ pc = Behind(b, j),
         R \subseteq RegistersOf(j), NEW c, c = u \/ c = [u EXCEPT !.stopped = TRUE],
         NEW w \in Int
  PROVE  Outcome(S, b, j, set_sr(c, w))
<1> DEFINE o == set_sr(c, w)
<1>1. /\ u \in MachinesWith(S) /\ u.s = b.s /\ u.pc = pc /\ u.ppc = b.ppc /\ (u.run => b.run)
      /\ \A k \in 0 .. 15 : k \in R \/ u.da[k] = b.da[k]
      /\ \A x \in S : u.ram[x] = b.ram[x]
  BY DEF Effect
<1>2. /\ c \in MachinesWith(S) /\ c.s = u.s /\ c.pc = u.pc /\ c.ppc = u.ppc /\ c.run = u.run
      /\ c.da = u.da /\ c.ram = u.ram
  BY <1>1 DEF MachinesWith
<1>3. /\ o \in MachinesWith(S) /\ o.ccr \in Flags
      /\ o.pc = c.pc /\ o.ppc = c.ppc /\ o.run = c.run /\ o.ram = c.ram
      /\ \A k \in 0 .. 15 : (k = 15 /\ o.s # c.s) \/ o.da[k] = c.da[k]
  BY <1>2, SetSrIs
<1> HIDE DEF o
<1>4. j.op \in StatusOps /\ j.op # "move_frs"
  BY DEF StatusOps, Privileged
<1>5. FlagsDone(j, b.ccr, o.ccr) /\ TestDone(b, j, o) /\ j.dst.mode # "d"
  <2>1. FlagsOf(j) = FlagNames /\ j.op \notin Testing /\ j.dst.mode # "d"
    BY <1>4, StatusParts
  <2>2. FlagsDone(j, b.ccr, o.ccr)
    BY <1>3, <2>1, MachineParts, FlagsDoneIs
  <2> QED
    BY <2>1, <2>2 DEF TestDone
<1>6. \A k \in 0 .. 15 : k \in RegistersOf(j) \/ o.da[k] = b.da[k] \/ (k = A7 /\ o.s # b.s)
  <2> TAKE k \in 0 .. 15
  <2>1. c.s = b.s /\ c.da[k] = u.da[k]
    BY <1>1, <1>2
  <2>2. (k = A7 /\ o.s # b.s) \/ o.da[k] = u.da[k]
    BY <1>3, <2>1 DEF A7
  <2>3. k \in RegistersOf(j) \/ u.da[k] = b.da[k]
    BY <1>1
  <2> QED
    BY <2>2, <2>3
<1>7. \A x \in S : x \in BytesDone(b, o, j) \/ o.ram[x] = b.ram[x]
  BY <1>1, <1>2, <1>3
<1>8. Done(S, b, j, o)
  BY <1>1, <1>2, <1>3, <1>5, <1>6, <1>7 DEF Done
<1>9. ~Refused(b, j) /\ ~Traps(b, j)
  BY DEF Refused, Traps, Privileged
<1> QED
  BY <1>8, <1>9 DEF Outcome, o

(* The status register and its operand are integers.                       *)
LEMMA StatusIntegers ==
  ASSUME NEW S, NEW b \in MachinesWith(S), NEW j \in Decoded, Legal(j), j.op \in StatusWords
  PROVE  LET s == Operand(b, j.src, 2).v
         IN  /\ And(get_sr(b), s) \in Int /\ Or(get_sr(b), s) \in Int
             /\ Xor(get_sr(b), s) \in Int /\ s \in Int
<1> DEFINE s == Operand(b, j.src, 2).v
           t == get_sr(b)
<1>1. j.src \in Operands /\ 2 \in All /\ j.src.mode # "q"
  <2>1. j.src.mode \in D \cup Everything
    BY WordsTaken DEF WordFacts
  <2> QED
    BY <2>1 DEF Decoded, All, D, Everything, Memory
<1>2. s \in Values(Half(2)) /\ t \in Values(Half(2))
  BY <1>1, OperandIs, StatusFits
<1> HIDE DEF s, t
<1>3. And(t, s) \in Values(Half(2)) /\ Or(t, s) \in Values(Half(2)) /\ Xor(t, s) \in Values(Half(2))
  BY <1>1, <1>2, AndIs, OrIs, XorIs
<1>4. And(t, s) \in Int /\ Or(t, s) \in Int /\ Xor(t, s) \in Int /\ s \in Int
  <2>1. \A x \in Values(Half(2)) : x \in Int
    BY DEF Values
  <2> QED
    BY <1>2, <1>3, <2>1
<1> QED
  BY <1>4 DEF s, t

(* The instructions that compute the status register or the codes.         *)
LEMMA StatusWordsDone ==
  ASSUME NEW S, NEW b \in MachinesWith(S), NEW j \in Decoded, Legal(j), j.op \in StatusWords
  PROVE  Outcome(S, b, j, Status(b, j))
<1> DEFINE c == Operand(b, j.src, 2).m
           s == Operand(b, j.src, 2).v
           t == get_sr(b)
           Toc(w) == Flagged(c, set_ccr(w))
           Tos(w) == IF b.s THEN set_sr(c, w) ELSE exception_privilege_violation(b)
<1>1. /\ j.op \in StatusOps /\ j.op # "move_frs"
      /\ j.n = 2 /\ j.src \in Operands /\ 2 \in All /\ j.dst.mode # "d" /\ j.op \notin Testing
      /\ Long(b.pc + Extension(j.src, 2)) = Behind(b, j) /\ FlagsOf(j) = FlagNames
  <2>1. j.op \in StatusOps /\ j.op # "move_frs"
        /\ j.op \notin {"move_fru", "move_tou", "reset"}
    BY SMT DEF StatusWords, StatusOps, Privileged
  <2> QED
    BY <2>1, StatusParts DEF All
<1>2. Effect(S, b, c, Behind(b, j), b.ccr, Stepped(j.src), {})
  <2>1. Effect(S, b, c, Long(b.pc + Extension(j.src, 2)), b.ccr, Stepped(j.src), {})
    BY <1>1, OperandIs
  <2> QED
    BY <1>1, <2>1
<1>3. c \in MachinesWith(S) /\ c.pc = Behind(b, j)
  BY <1>2 DEF Effect
<1>4. Stepped(j.src) \subseteq RegistersOf(j)
  BY DEF RegistersOf
<1>5. /\ And(t, s) \in Int /\ Or(t, s) \in Int /\ Xor(t, s) \in Int /\ s \in Int
  BY StatusIntegers
<1>6. /\ j.op = "andi_toc" => Status(b, j) = Toc(And(get_ccr(b.ccr), s))
      /\ j.op = "ori_toc"  => Status(b, j) = Toc(Or(get_ccr(b.ccr), s))
      /\ j.op = "eori_toc" => Status(b, j) = Toc(Xor(get_ccr(b.ccr), s))
      /\ j.op = "move_toc" => Status(b, j) = Toc(s)
  <2>1. j.op = "andi_toc" => Status(b, j) = andi_toc(b, j)
    BY DEF Status
  <2>2. j.op = "ori_toc" => Status(b, j) = ori_toc(b, j)
    BY DEF Status
  <2>3. j.op = "eori_toc" => Status(b, j) = eori_toc(b, j)
    BY DEF Status
  <2>4. j.op = "move_toc" => Status(b, j) = move_toc(b, j)
    BY DEF Status
  <2>5. /\ andi_toc(b, j) = Toc(And(get_ccr(b.ccr), s))
        /\ ori_toc(b, j) = Toc(Or(get_ccr(b.ccr), s))
        /\ eori_toc(b, j) = Toc(Xor(get_ccr(b.ccr), s))
        /\ move_toc(b, j) = Toc(s)
    BY DEF andi_toc, ori_toc, eori_toc, move_toc, toc, Flagged, Second
  <2> QED
    BY <2>1, <2>2, <2>3, <2>4, <2>5
<1>7. /\ j.op = "andi_tos" => Status(b, j) = Tos(And(t, s))
      /\ j.op = "ori_tos"  => Status(b, j) = Tos(Or(t, s))
      /\ j.op = "eori_tos" => Status(b, j) = Tos(Xor(t, s))
      /\ j.op = "move_tos" => Status(b, j) = Tos(s)
  <2>1. j.op = "andi_tos" => Status(b, j) = andi_tos(b, j)
    BY DEF Status
  <2>2. j.op = "ori_tos" => Status(b, j) = ori_tos(b, j)
    BY DEF Status
  <2>3. j.op = "eori_tos" => Status(b, j) = eori_tos(b, j)
    BY DEF Status
  <2>4. j.op = "move_tos" => Status(b, j) = move_tos(b, j)
    BY DEF Status
  <2>5. /\ andi_tos(b, j) = Tos(And(t, s)) /\ ori_tos(b, j) = Tos(Or(t, s))
        /\ eori_tos(b, j) = Tos(Xor(t, s)) /\ move_tos(b, j) = Tos(s)
    BY DEF andi_tos, ori_tos, eori_tos, move_tos, tos, Second
  <2> QED
    BY <2>1, <2>2, <2>3, <2>4, <2>5
<1> HIDE DEF c, s, t
<1>8. ASSUME NEW w, j.op \in {"andi_toc", "ori_toc", "eori_toc", "move_toc"}
      PROVE  Outcome(S, b, j, Toc(w))
  <2> DEFINE f == set_ccr(w)
             o == Flagged(c, f)
  <2>1. f \in Flags
    BY SetCcrIs
  <2> HIDE DEF f
  <2>2. Effect(S, c, o, c.pc, f, {}, {})
    BY <1>3, <2>1, FlagsSet
  <2> HIDE DEF o
  <2>3. Effect(S, b, o, c.pc, f, Stepped(j.src) \cup {}, {} \cup {})
    BY <1>2, <2>2, EffectThen
  <2>4. Stepped(j.src) \cup {} = Stepped(j.src) /\ {} \cup {} = {}
    OBVIOUS
  <2>5. Effect(S, b, o, Behind(b, j), f, Stepped(j.src), {})
    BY <1>3, <2>3, <2>4
  <2>6. FlagsDone(j, b.ccr, f)
    BY <1>1, <2>1, MachineParts, FlagsDoneIs
  <2>7. {} \subseteq BytesDone(b, o, j)
    OBVIOUS
  <2>8. Done(S, b, j, o)
    BY <1>1, <1>4, <2>5, <2>6, <2>7, EffectDone
  <2>9. ~Refused(b, j) /\ ~Traps(b, j)
    BY <1>8 DEF Refused, Traps, Privileged
  <2> QED
    BY <2>8, <2>9 DEF Outcome, o, f
<1>9. ASSUME NEW w \in Int, j.op \in {"andi_tos", "ori_tos", "eori_tos", "move_tos"}
      PROVE  Outcome(S, b, j, Tos(w))
  <2>1. j.op \in Privileged /\ j.op \notin {"move_fru", "move_tou", "reset"}
    BY <1>9 DEF Privileged
  <2>2. CASE b.s
    <3>1. Outcome(S, b, j, set_sr(c, w))
      BY <1>2, <1>4, <2>1, <2>2, SetSrDone
    <3> QED
      BY <2>2, <3>1
  <2>3. CASE ~b.s
    BY <2>1, <2>3, PrivilegesDone
  <2> QED
    BY <2>2, <2>3
<1> HIDE DEF Toc, Tos
<1>10. CASE j.op \in {"andi_toc", "ori_toc", "eori_toc", "move_toc"}
  BY <1>6, <1>8, <1>10
<1>11. CASE j.op \in {"andi_tos", "ori_tos", "eori_tos", "move_tos"}
  BY <1>5, <1>7, <1>9, <1>11
<1> QED
  BY <1>10, <1>11 DEF StatusWords

(* Move to USP.                                                            *)
LEMMA ToUserDone ==
  ASSUME NEW S, NEW b \in MachinesWith(S), NEW j \in Decoded, Legal(j), j.op = "move_tou"
  PROVE  Outcome(S, b, j, move_tou(b, j))
<1>1. j.op \in Privileged /\ j.op \in StatusOps /\ j.op # "move_frs"
  BY DEF Privileged, StatusOps
<1>2. CASE ~b.s
  BY <1>1, <1>2, PrivilegesDone DEF move_tou
<1>3. CASE b.s
  <2> DEFINE v == b.da[8 + j.src.r]
             o == [b EXCEPT !.banked = v]
  <2>1. j.src \in Operands /\ j.dst.mode \in {"none", "a"} /\ j.op \notin Testing
        /\ Behind(b, j) = b.pc
    BY <1>1, StatusParts
  <2>2. v \in Longs /\ b.ccr \in Flags
    BY <2>1, OperandParts, MachineParts
  <2> HIDE DEF v
  <2>3. /\ o \in MachinesWith(S) /\ o.ppc = b.ppc /\ o.run = b.run /\ o.pc = b.pc
        /\ o.da = b.da /\ o.ram = b.ram /\ o.ccr = b.ccr
    BY <2>2 DEF MachinesWith
  <2>4. move_tou(b, j) = o
    BY <1>3 DEF move_tou, v
  <2> HIDE DEF o
  <2>5. FlagsDone(j, b.ccr, o.ccr)
    BY <2>3 DEF FlagsDone
  <2>6. TestDone(b, j, o)
    BY <2>1 DEF TestDone
  <2>7. Done(S, b, j, o)
    BY <1>1, <1>3, <2>1, <2>3, <2>5, <2>6 DEF Done
  <2>8. ~Refused(b, j) /\ ~Traps(b, j)
    BY <1>3 DEF Refused, Traps
  <2> QED
    BY <2>4, <2>7, <2>8 DEF Outcome
<1> QED
  BY <1>2, <1>3

(* Move from USP.                                                          *)
LEMMA FromUserDone ==
  ASSUME NEW S, NEW b \in MachinesWith(S), NEW j \in Decoded, Legal(j), j.op = "move_fru"
  PROVE  Outcome(S, b, j, move_fru(b, j))
<1>1. j.op \in Privileged /\ j.op \in StatusOps /\ j.op # "move_frs"
  BY DEF Privileged, StatusOps
<1>2. CASE ~b.s
  BY <1>1, <1>2, PrivilegesDone DEF move_fru
<1>3. CASE b.s
  <2> DEFINE k == 8 + j.dst.r
             o == Registered(b, k, b.banked)
  <2>1. /\ j.dst.mode = "a" /\ j.op \notin Testing /\ Behind(b, j) = b.pc
        /\ j.dst \in Operands
    BY <1>1, StatusParts DEF Decoded
  <2>2. k \in 0 .. 15 /\ b.banked \in Longs
    BY <2>1, OperandParts, MachineParts
  <2>3. k \in RegistersOf(j)
    BY <2>1 DEF RegistersOf, ReadOnly, NumberOf, AD
  <2>4. move_fru(b, j) = o
    BY <1>3 DEF move_fru, Registered
  <2> HIDE DEF k
  <2>5. Effect(S, b, o, b.pc, b.ccr, {k}, {})
    BY <2>2, RegisterSet
  <2> HIDE DEF o
  <2>6. FlagsDone(j, b.ccr, b.ccr)
    BY MachineParts, FlagsDoneIs
  <2>7. {k} \subseteq RegistersOf(j) /\ {} \subseteq BytesDone(b, o, j) /\ j.dst.mode # "d"
    BY <2>1, <2>3
  <2>8. Done(S, b, j, o)
    BY <2>1, <2>5, <2>6, <2>7, EffectDone
  <2>9. ~Refused(b, j) /\ ~Traps(b, j)
    BY <1>3 DEF Refused, Traps
  <2> QED
    BY <2>4, <2>8, <2>9 DEF Outcome
<1> QED
  BY <1>2, <1>3

(* Reset.                                                                  *)
LEMMA ResetDone ==
  ASSUME NEW S, NEW b \in MachinesWith(S), NEW j \in Decoded, Legal(j), j.op = "reset"
  PROVE  Outcome(S, b, j, reset(b))
<1>1. j.op \in Privileged /\ j.op \in StatusOps /\ j.op # "move_frs"
  BY DEF Privileged, StatusOps
<1>2. CASE ~b.s
  BY <1>1, <1>2, PrivilegesDone DEF reset
<1>3. CASE b.s
  <2>1. j.dst.mode # "d" /\ j.op \notin Testing /\ Behind(b, j) = b.pc
    BY <1>1, StatusParts
  <2>2. Effect(S, b, b, b.pc, b.ccr, {}, {})
    BY EffectNone
  <2>3. FlagsDone(j, b.ccr, b.ccr)
    BY MachineParts, FlagsDoneIs
  <2>4. {} \subseteq RegistersOf(j) /\ {} \subseteq BytesDone(b, b, j)
    OBVIOUS
  <2>5. Done(S, b, j, b)
    BY <2>1, <2>2, <2>3, <2>4, EffectDone
  <2>6. ~Refused(b, j) /\ ~Traps(b, j)
    BY <1>3 DEF Refused, Traps
  <2> QED
    BY <1>3, <2>5, <2>6 DEF Outcome, reset
<1> QED
  BY <1>2, <1>3

(* Stop.                                                                   *)
LEMMA StopDone ==
  ASSUME NEW S, NEW b \in MachinesWith(S), NEW j \in Decoded, Legal(j), j.op = "stop"
  PROVE  Outcome(S, b, j, stop(b, j))
<1>1. /\ j.op \in Privileged /\ j.op \in StatusOps /\ j.op # "move_frs"
      /\ j.op \notin {"move_fru", "move_tou", "reset"}
  BY DEF Privileged, StatusOps
<1>2. CASE ~b.s
  BY <1>1, <1>2, PrivilegesDone DEF stop
<1>3. CASE b.s
  <2> DEFINE u == Skip(b, 2)
             c == [u EXCEPT !.stopped = TRUE]
             w == Low(j.src.d, 2)
  <2>1. j.src \in Operands /\ Extension(j.src, j.n) = 2
        /\ Long(b.pc + Extension(j.src, j.n)) = Behind(b, j)
    BY <1>1, StatusParts
  <2>2. w \in Int
    <3>1. j.src.d \in Int
      BY <2>1, OperandParts
    <3> QED
      BY <3>1, Widths, SMT DEF Numbers
  <2>3. Effect(S, b, u, Behind(b, j), b.ccr, {}, {})
    <3>1. Effect(S, b, u, Long(b.pc + 2), b.ccr, {}, {})
      BY SkipIs
    <3> QED
      BY <2>1, <3>1
  <2>4. stop(b, j) = set_sr(c, w)
    BY <1>3 DEF stop
  <2> DEFINE R == {}
             pc == Behind(b, j)
  <2>5. R \subseteq RegistersOf(j) /\ (Jumps(b, j) \/ pc = Behind(b, j))
    OBVIOUS
  <2> HIDE DEF u, w
  <2>8. Effect(S, b, u, pc, b.ccr, R, {})
    BY <2>3
  <2> HIDE DEF R, pc
  <2>6. c = u \/ c = [u EXCEPT !.stopped = TRUE]
    OBVIOUS
  <2> HIDE DEF c
  <2>7. Outcome(S, b, j, set_sr(c, w))
    BY <1>1, <1>3, <2>2, <2>5, <2>6, <2>8, SetSrDone
  <2> QED
    BY <2>4, <2>7
<1> QED
  BY <1>2, <1>3

(* Rte.                                                                    *)
LEMMA ReturnDone ==
  ASSUME NEW S, NEW b \in MachinesWith(S), NEW j \in Decoded, Legal(j), j.op = "rte"
  PROVE  Outcome(S, b, j, rte(b))
<1>1. /\ j.op \in Privileged /\ j.op \in StatusOps /\ j.op # "move_frs"
      /\ j.op \notin {"move_fru", "move_tou", "reset"} /\ Jumps(b, j)
  BY DEF Privileged, StatusOps, Jumps
<1>2. CASE ~b.s
  BY <1>1, <1>2, PrivilegesDone DEF rte
<1>3. CASE b.s
  <2> DEFINE p == pull(b, 2)
             f == p.m
             w == p.v
             q == pull(f, 4)
             g == q.m
             v == q.v
             u == jump(g, v)
  <2>1. rte(b) = set_sr(u, w)
    BY <1>3 DEF rte
  <2>2. 2 \in All /\ 4 \in All
    BY DEF All
  <2>3. Effect(S, b, f, b.pc, b.ccr, {15}, {}) /\ w \in Longs
    BY <2>2, PullIs
  <2>4. f \in MachinesWith(S) /\ f.pc = b.pc /\ f.ccr = b.ccr
    BY <2>3 DEF Effect
  <2> HIDE DEF f, w, p
  <2>5. Effect(S, f, g, f.pc, f.ccr, {15}, {}) /\ v \in Longs
    BY <2>2, <2>4, PullIs
  <2>6. g \in MachinesWith(S) /\ g.ccr = b.ccr
    BY <2>4, <2>5 DEF Effect
  <2> HIDE DEF g, v, q
  <2>7. Effect(S, g, u, v, g.ccr, {}, {})
    BY <2>5, <2>6, PcSet
  <2> HIDE DEF u
  <2>8. Effect(S, f, u, v, g.ccr, {15} \cup {}, {} \cup {})
    BY <2>5, <2>7, EffectThen
  <2>9. Effect(S, b, u, v, g.ccr, {15} \cup ({15} \cup {}), {} \cup ({} \cup {}))
    BY <2>3, <2>8, EffectThen
  <2>10. {15} \cup ({15} \cup {}) = {15} /\ {} \cup ({} \cup {}) = {}
    OBVIOUS
  <2>11. Effect(S, b, u, v, b.ccr, {15}, {})
    BY <2>6, <2>9, <2>10
  <2>12. {15} \subseteq RegistersOf(j)
    BY DEF RegistersOf, OnStack, A7
  <2>13. w \in Int
    BY <2>3, LongsAre
  <2>14. Outcome(S, b, j, set_sr(u, w))
    BY <1>1, <1>3, <2>11, <2>12, <2>13, SetSrDone
  <2> QED
    BY <2>1, <2>14
<1> QED
  BY <1>2, <1>3

(* The handlers of the instructions that do not exist.                     *)
LEMMA IllegalDone ==
  ASSUME NEW S, NEW b \in MachinesWith(S), NEW j \in Decoded, ~Legal(j)
  PROVE  Outcome(S, b, j, Illegal(b, j))
<1>1. Refused(b, j)
  BY DEF Refused
<1>2. CASE j.op = "1010"
  <2>1. 10 = VectorOf(j) /\ 10 \in 0 .. 47
    BY <1>2 DEF VectorOf
  <2> QED
    BY <1>1, <1>2, <2>1, ViolationIs DEF Illegal, exception_1010, EXCEPTION_1010
<1>3. CASE j.op = "1111"
  <2>1. 11 = VectorOf(j)
    BY <1>3 DEF VectorOf, Privileged
  <2>2. 11 \in 0 .. 47
    OBVIOUS
  <2> QED
    BY <1>1, <1>3, <2>1, <2>2, ViolationIs DEF Illegal, exception_1111, EXCEPTION_1111
<1>4. CASE j.op \notin {"1010", "1111"}
  <2>1. 4 = VectorOf(j)
    BY <1>4 DEF VectorOf
  <2>2. Illegal(b, j) = exception_illegal(b)
    BY <1>4, Zenon DEF Illegal
  <2>3. 4 \in 0 .. 47
    OBVIOUS
  <2>4. Outcome(S, b, j, Exception(b, 4, b.ppc))
    BY <1>1, <2>1, <2>3, ViolationIs
  <2> QED
    BY <2>2, <2>4 DEF exception_illegal, EXCEPTION_ILLEGAL_INSTRUCTION
<1> QED
  BY <1>2, <1>3, <1>4

-----------------------------------------------------------------------------
(* Several values at once.                                                 *)

(* Where in its place an address lies.                                     *)
LEMMA InPlace ==
  ASSUME NEW a \in Int, NEW n \in All, NEW x \in Place(a, n)
  PROVE  ADDRESS_68K(a) + n - 1 - x \in 0 .. 3
<1> DEFINE at == ADDRESS_68K(a)
<1>1. n = 1 \/ n = 2 \/ n = 4
  BY DEF All
<1>2. at \in Int
  BY LongSum
<1>3. Place(a, n) = at .. at + n - 1
  BY DEF Place
<1> HIDE DEF at
<1>4. \A y \in at .. at + n - 1 : at + n - 1 - y \in 0 .. 3
  BY <1>1, <1>2, SMT
<1> QED
  BY <1>3, <1>4 DEF at

(* Several values written: their places change and nothing else.           *)
LEMMA WrittenAll ==
  ASSUME NEW S, NEW b \in MachinesWith(S), NEW n \in All, NEW K, NEW at \in [K -> Int],
         NEW v \in [K -> Int], NEW B, \A k \in K : Place(at[k], n) \subseteq B
  PROVE  /\ Effect(S, b, WriteAll(b, n, at, v), b.pc, b.ccr, {}, B)
         /\ WriteAll(b, n, at, v).da = b.da
<1> DEFINE z == \A k \in DOMAIN at : Place(at[k], n) \subseteq DOMAIN b.ram
           r == [x \in DOMAIN b.ram |->
                    IF \E k \in DOMAIN at : x \in Place(at[k], n)
                    THEN LET k == CHOOSE k \in DOMAIN at : x \in Place(at[k], n)
                         IN  ByteOf(v[k], ADDRESS_68K(at[k]) + n - 1 - x)
                    ELSE b.ram[x]]
           o == [b EXCEPT !.ram = r, !.run = @ /\ z]
<1>1. WriteAll(b, n, at, v) = o
  BY DEF WriteAll
<1>2. z \in BOOLEAN /\ DOMAIN b.ram = S /\ DOMAIN at = K
  BY DEF MachinesWith
<1>3. \A x \in S : r[x] \in Bytes /\ (x \in B \/ r[x] = b.ram[x])
  <2> TAKE x \in S
  <2>1. b.ram[x] \in Bytes
    BY DEF MachinesWith
  <2>2. CASE \E k \in K : x \in Place(at[k], n)
    <3> DEFINE k == CHOOSE k \in K : x \in Place(at[k], n)
    <3>1. k \in K /\ x \in Place(at[k], n)
      BY <2>2
    <3>2. r[x] = ByteOf(v[k], ADDRESS_68K(at[k]) + n - 1 - x)
      BY <1>2, <2>2
    <3> HIDE DEF k, r
    <3>3. at[k] \in Int /\ v[k] \in Int
      BY <3>1
    <3>4. ADDRESS_68K(at[k]) + n - 1 - x \in 0 .. 3
      BY <3>1, <3>3, InPlace
    <3>5. r[x] \in Bytes
      BY <3>2, <3>3, <3>4, ByteOfIs
    <3> QED
      BY <3>1, <3>5
  <2>3. CASE ~ \E k \in K : x \in Place(at[k], n)
    <3>1. r[x] = b.ram[x]
      BY <1>2, <2>3
    <3> QED
      BY <2>1, <3>1
  <2> QED
    BY <2>2, <2>3
<1>4. r = [x \in S |-> r[x]]
  BY <1>2
<1> HIDE DEF z, r
<1>5. r \in [S -> Bytes]
  BY <1>3, <1>4
<1>6. o.ram = r /\ o.da = b.da /\ (o.run => b.run)
  BY <1>2 DEF MachinesWith
<1>7. Effect(S, b, o, b.pc, b.ccr, {}, B)
  BY <1>2, <1>3, <1>5, <1>6 DEF Effect, MachinesWith
<1> QED
  BY <1>1, <1>6, <1>7

(* Registers are left alone.                                               *)
LEMMA WrittenKeeps ==
  ASSUME NEW S, NEW b \in MachinesWith(S), NEW n, NEW at, NEW v
  PROVE  WriteAll(b, n, at, v).da = b.da
  BY DEF WriteAll, MachinesWith

(* Several values read.                                                    *)
LEMMA ReadAllIs ==
  ASSUME NEW S, NEW b \in MachinesWith(S), NEW n, NEW at
  PROVE  /\ Effect(S, b, ReadAll(b, n, at), b.pc, b.ccr, {}, {})
         /\ ReadAll(b, n, at).da = b.da
<1> DEFINE z == \A k \in DOMAIN at : Place(at[k], n) \subseteq DOMAIN b.ram \cup DOMAIN Rom
           o == [b EXCEPT !.run = @ /\ z]
<1>1. ReadAll(b, n, at) = o
  BY DEF ReadAll
<1>2. z \in BOOLEAN
  OBVIOUS
<1> HIDE DEF z
<1>3. Effect(S, b, o, b.pc, b.ccr, {}, {}) /\ o.da = b.da
  BY <1>2 DEF Effect, MachinesWith
<1> QED
  BY <1>1, <1>3

(* What a list of registers or bytes is made of.                           *)
LEMMA SeveralParts ==
  ASSUME NEW S, NEW b \in MachinesWith(S), NEW j \in Decoded, Legal(j),
         j.op \in {"movem_re", "movem_er", "movep_re", "movep_er"}
  PROVE  /\ j.src \in Operands /\ j.dst \in Operands /\ j.n \in All /\ j.n \in {2, 4}
         /\ ~Refused(b, j) /\ ~Traps(b, j) /\ j.op \notin Testing /\ j.op \notin Pushing
         /\ j.op \notin ReadOnly /\ FlagsDone(j, b.ccr, b.ccr)
         /\ j.op = "movem_re" => j.src.mode = "none" /\ j.dst.mode \in {"pd"} \cup Control
         /\ j.op = "movem_er" => j.src.mode \in {"pi"} \cup ControlPc /\ j.dst.mode = "none"
         /\ j.op = "movep_re" => j.src.mode = "d" /\ j.dst.mode = "di"
         /\ j.op = "movep_er" => j.src.mode = "di" /\ j.dst.mode = "d"
<1>1. j.src \in Operands /\ j.dst \in Operands
  BY DEF Decoded
<1>2. j.n \in {2, 4} /\ j.n \in All
  BY WordsTaken DEF WordFacts, All
<1>3. /\ j.op = "movem_re" => j.src.mode = "none"
      /\ j.op = "movem_er" => j.src.mode \in {"pi"} \cup ControlPc
      /\ j.op = "movep_re" => j.src.mode = "d"
      /\ j.op = "movep_er" => j.src.mode = "di"
  BY WordsTaken DEF WordFacts, None, D
<1>4. /\ j.op = "movem_re" => j.dst.mode \in {"pd"} \cup Control
      /\ j.op = "movem_er" => j.dst.mode = "none"
      /\ j.op = "movep_re" => j.dst.mode = "di"
      /\ j.op = "movep_er" => j.dst.mode = "d"
  BY ModesAre DEF ModeFacts, ToNone, ToData, None, D
<1>5. ~Refused(b, j) /\ ~Traps(b, j)
  BY DEF Refused, Traps, Privileged
<1>6. j.op \notin Testing /\ j.op \notin Pushing /\ j.op \notin ReadOnly
  BY SMT DEF Testing, Pushing, ReadOnly
<1>7. FlagsDone(j, b.ccr, b.ccr)
  BY MachineParts, FlagsDoneIs
<1> QED
  BY <1>1, <1>2, <1>3, <1>4, <1>5, <1>6, <1>7

(* A register of a list comes after fewer than there are in it.            *)
LEMMA BeforeIs ==
  ASSUME NEW list \in SUBSET (0 .. 15)
  PROVE  /\ Cardinality(list) \in Nat
         /\ \A k \in list : Before(list, k) \in Nat /\ Before(list, k) < Cardinality(list)
<1>1. IsFiniteSet(list)
  BY FS_Interval, FS_Subset, 0 \in Int, 15 \in Int
<1>2. Cardinality(list) \in Nat
  BY <1>1, FS_CardinalityType
<1>3. ASSUME NEW k \in list
      PROVE  Before(list, k) \in Nat /\ Before(list, k) < Cardinality(list)
  <2> DEFINE low == {i \in list : i < k}
  <2>1. low \subseteq list /\ k \notin low /\ k \in list
    OBVIOUS
  <2>2. IsFiniteSet(low) /\ Cardinality(low) <= Cardinality(list)
        /\ (Cardinality(low) = Cardinality(list) => low = list)
    BY <1>1, <2>1, FS_Subset
  <2>3. Cardinality(low) \in Nat
    BY <2>2, FS_CardinalityType
  <2>4. low # list
    BY <2>1
  <2>5. Before(list, k) = Cardinality(low)
    BY DEF Before
  <2> HIDE DEF low
  <2> QED
    BY <1>2, <2>2, <2>3, <2>4, <2>5
<1> QED
  BY <1>2, <1>3

(* A place does not depend on how its address is cut.                      *)
LEMMA PlaceLong ==
  ASSUME NEW a \in Int, NEW n
  PROVE  Place(Long(a), n) = Place(a, n)
  BY LongSum DEF Place

(* The list of registers takes a word of its own.                          *)
LEMMA BehindList ==
  ASSUME NEW S, NEW b \in MachinesWith(S), NEW j \in Decoded, j.n \in All,
         j.op \in {"movem_re", "movem_er"}
  PROVE  /\ Extension(j.src, j.n) = 0 =>
               Long(Long(b.pc + 2) + Extension(j.dst, j.n)) = Behind(b, j)
         /\ Extension(j.dst, j.n) = 0 =>
               Long(Long(b.pc + 2) + Extension(j.src, j.n)) = Behind(b, j)
         /\ Extension(j.src, j.n) = 0 /\ Extension(j.dst, j.n) = 0 =>
               Long(b.pc + 2) = Behind(b, j)
<1> DEFINE x == Extension(j.src, j.n)
           y == Extension(j.dst, j.n)
<1>1. x \in Int /\ y \in Int /\ b.pc \in Int
  BY StepIs, MachineParts DEF Decoded
<1>2. LengthOf(j) - 2 = x + y + 2
  BY <1>1 DEF LengthOf
<1> HIDE DEF x, y
<1>3. ASSUME NEW z \in Int
      PROVE  Long(Long(b.pc + 2) + z) = Long(b.pc + (z + 2))
  <2>1. b.pc + 2 \in Int
    BY <1>1
  <2>2. Long(Long(b.pc + 2) + z) = Long((b.pc + 2) + z)
    BY <2>1, LongSum
  <2>3. (b.pc + 2) + z = b.pc + (z + 2)
    BY <1>1
  <2> QED
    BY <2>2, <2>3
<1>4. x = 0 => x + y + 2 = y + 2
  BY <1>1
<1>5. y = 0 => x + y + 2 = x + 2
  BY <1>1
<1>6. x = 0 /\ y = 0 => x + y + 2 = 2
  BY <1>1
<1> QED
  BY <1>1, <1>2, <1>3, <1>4, <1>5, <1>6 DEF Behind, x, y

(* Where the registers of a list go.                                       *)
LEMMA ListBytes ==
  ASSUME NEW S, NEW b, NEW j \in Decoded, j.op = "movem_re", j.dst.mode \in Memory,
         j.n \in {2, 4}, NEW o, NEW at, at = Pointed(o, j.dst, j.n), NEW k \in Nat,
         k < Cardinality(j.list)
  PROVE  Place(at + j.n * k, j.n) \subseteq BytesDone(b, o, j)
<1> DEFINE C == Cardinality(j.list)
<1>1. C \in Nat
  BY BeforeIs DEF Decoded
<1>2. Target(o, j) = UNION {Place(at + j.n * i, j.n) : i \in 0 .. C - 1}
  BY DEF Target
<1>3. j.op \notin Pushing /\ j.op \notin ReadOnly
  BY DEF Pushing, ReadOnly
<1>4. BytesDone(b, o, j) = Target(o, j)
  BY <1>3 DEF BytesDone
<1> HIDE DEF C
<1>5. k \in 0 .. C - 1
  BY <1>1 DEF C
<1> QED
  BY <1>2, <1>4, <1>5

(* Movem to memory.                                                        *)
LEMMA ListStored ==
  ASSUME NEW S, NEW b \in MachinesWith(S), NEW j \in Decoded, Legal(j), j.op = "movem_re"
  PROVE  Outcome(S, b, j, movem_re(b, j))
<1> DEFINE c == Skip(b, 2)
           e == j.dst
           n == j.n
           an == 8 + e.r
           C == Cardinality(j.list)
<1>1. /\ e \in Operands /\ n \in All /\ n \in {2, 4} /\ ~Refused(b, j) /\ ~Traps(b, j)
      /\ j.op \notin Testing /\ FlagsDone(j, b.ccr, b.ccr) /\ j.src.mode = "none"
      /\ e.mode \in {"pd"} \cup Control
  BY SeveralParts
<1>2. e.mode \in Memory /\ e.mode # "d" /\ Extension(j.src, n) = 0
  BY <1>1 DEF Control, Memory, Extension
<1>3. /\ j.list \in SUBSET (0 .. 15) /\ C \in Nat
      /\ \A k \in j.list : Before(j.list, k) \in Nat /\ Before(j.list, k) < C
  BY BeforeIs DEF Decoded
<1>4. /\ Effect(S, b, c, Long(b.pc + 2), b.ccr, {}, {}) /\ c.da = b.da
      /\ c \in MachinesWith(S) /\ c.pc = Long(b.pc + 2) /\ c.ccr = b.ccr
  <2>1. Effect(S, b, c, Long(b.pc + 2), b.ccr, {}, {}) /\ c.da = b.da
    BY SkipIs
  <2> QED
    BY <2>1 DEF Effect
<1> HIDE DEF C
<1>5. CASE e.mode = "pd"
  <2> DEFINE a == b.da[an]
             at == [k \in j.list |-> Long(a - n * (Before(j.list, k) + 1))]
             v == [k \in j.list |-> b.da[15 - k]]
             u == WriteAll(c, n, at, v)
             s == Long(a - n * C)
             o == Registered(u, an, s)
             B == BytesDone(b, o, j)
  <2>1. an \in 0 .. 15 /\ a \in Int /\ n \in Int
    BY <1>1, OperandParts, MachineParts
  <2>2. movem_re(b, j) = [u EXCEPT !.da[an] = Long(@ - n * C)]
    BY <1>5 DEF movem_re, C
  <2>3. /\ a - n * C \in Int
        /\ \A k \in j.list : a - n * (Before(j.list, k) + 1) \in Int
    BY <1>1, <1>3, <2>1
  <2>4. at \in [j.list -> Int]
    <3>1. \A k \in j.list : Long(a - n * (Before(j.list, k) + 1)) \in Int
      BY <2>3, LongSum, LongsAre
    <3> QED
      BY <3>1
  <2>5. v \in [j.list -> Int]
    <3>1. \A k \in j.list : 15 - k \in 0 .. 15
      BY <1>3
    <3> QED
      BY <3>1, MachineParts
  <2> HIDE DEF v, an
  <2>6. s \in Longs
    BY <2>3, LongSum
  <2>7. u \in MachinesWith(S) /\ u.da = b.da
    <3> DEFINE W == UNION {Place(at[k], n) : k \in j.list}
    <3>1. \A k \in j.list : Place(at[k], n) \subseteq W
      OBVIOUS
    <3> HIDE DEF W, at
    <3>2. Effect(S, c, u, c.pc, c.ccr, {}, W)
      BY <1>1, <1>4, <2>4, <2>5, <3>1, WrittenAll
    <3>3. u.da = c.da
      BY <1>4, WrittenKeeps
    <3> QED
      BY <1>4, <3>2, <3>3 DEF Effect
  <2>8. Effect(S, u, o, u.pc, u.ccr, {an}, {}) /\ o.da[an] = s
    BY <2>1, <2>6, <2>7, RegisterSet
  <2>9. Pointed(o, e, n) = s
    BY <1>5, <2>8 DEF Pointed, an
  <2>10. movem_re(b, j) = o
    BY <2>2, <2>7 DEF Registered
  <2>11. ASSUME NEW k \in j.list
         PROVE  Place(at[k], n) \subseteq B
    <3> DEFINE f == Before(j.list, k)
               i == C - 1 - f
               x == a - n * (f + 1)
               y == a - n * C
    <3>1. f \in Nat /\ f < C
      BY <1>3
    <3>2. at[k] = Long(x)
      OBVIOUS
    <3> HIDE DEF f
    <3>3. i \in Nat /\ i < C /\ x \in Int /\ y \in Int /\ n * i \in Int
      BY <1>1, <1>3, <2>1, <3>1
    <3>4. y + n * i = x
      BY <1>1, <1>3, <2>1, <3>1, SMT
    <3> HIDE DEF i, x
    <3>5. Place(s + n * i, n) \subseteq B
      BY <1>1, <1>2, <2>9, <3>3, ListBytes DEF C
    <3> HIDE DEF y
    <3>6. Long(y) \in Int /\ s = Long(y)
      BY <3>3, LongSum, LongsAre DEF y
    <3>10. Long(Long(y) + n * i) = Long(y + n * i)
      BY <3>3, LongSum
    <3>7. Long(s + n * i) = Long(x)
      BY <3>4, <3>6, <3>10
    <3>8. s + n * i \in Int
      BY <3>3, <3>6
    <3>9. Place(Long(s + n * i), n) = Place(s + n * i, n)
      BY <3>8, PlaceLong
    <3> QED
      BY <3>2, <3>5, <3>7, <3>9
  <2> HIDE DEF at, s, B
  <2>12. Effect(S, c, u, c.pc, c.ccr, {}, B)
    BY <1>1, <1>4, <2>4, <2>5, <2>11, WrittenAll
  <2>13. u.pc = c.pc /\ u.ccr = c.ccr
    BY <2>12 DEF Effect
  <2> HIDE DEF u, c, o
  <2>14. Effect(S, c, o, u.pc, u.ccr, {} \cup {an}, B \cup {})
    BY <2>8, <2>12, EffectThen
  <2>15. Effect(S, b, o, u.pc, u.ccr, {} \cup ({} \cup {an}), {} \cup (B \cup {}))
    BY <1>4, <2>14, EffectThen
  <2>16. {} \cup ({} \cup {an}) = {an} /\ {} \cup (B \cup {}) = B
    OBVIOUS
  <2>17. Extension(e, n) = 0
    BY <1>5 DEF Extension
  <2>18. Long(b.pc + 2) = Behind(b, j)
    BY <1>1, <1>2, <2>17, BehindList
  <2>19. Effect(S, b, o, Behind(b, j), b.ccr, {an}, B)
    BY <1>4, <2>13, <2>15, <2>16, <2>18
  <2>20. {an} \subseteq RegistersOf(j) /\ B \subseteq BytesDone(b, o, j)
    BY <1>5 DEF RegistersOf, Stepped, an, B
  <2>21. Done(S, b, j, o)
    BY <1>1, <1>2, <2>19, <2>20, EffectDone
  <2> QED
    BY <1>1, <2>10, <2>21 DEF Outcome
<1>6. CASE e.mode # "pd"
  <2> DEFINE d == Used(c, e, n)
             start == EA(c, e, n)
             at == [k \in j.list |-> Long(start + n * Before(j.list, k))]
             v == [k \in j.list |-> b.da[k]]
             o == WriteAll(d, n, at, v)
             B == BytesDone(b, o, j)
  <2>1. movem_re(b, j) = o
    BY <1>6 DEF movem_re
  <2>2. e.mode \in Control /\ e.mode \notin {"pi", "pd"}
    BY <1>1, <1>6 DEF Control
  <2>3. start \in Int
    BY <1>1, <1>2, <1>4, AddressIs
  <2>4. /\ Effect(S, c, d, Long(c.pc + Extension(e, n)), c.ccr, Stepped(e), {})
        /\ d.da = c.da
    BY <1>1, <1>4, <2>2, UsedIs
  <2>5. d \in MachinesWith(S) /\ d.pc = Behind(b, j) /\ d.ccr = b.ccr /\ Stepped(e) = {}
    <3>1. d \in MachinesWith(S) /\ d.pc = Long(c.pc + Extension(e, n)) /\ d.ccr = c.ccr
      BY <2>4 DEF Effect
    <3>2. Long(Long(b.pc + 2) + Extension(e, n)) = Behind(b, j)
      BY <1>1, <1>2, BehindList
    <3>3. Stepped(e) = {}
      BY <2>2 DEF Stepped
    <3> QED
      BY <1>4, <3>1, <3>2, <3>3
  <2>6. \A k \in j.list : n * Before(j.list, k) \in Int
    BY <1>1, <1>3
  <2>7. \A k \in j.list : start + n * Before(j.list, k) \in Int
    BY <2>3, <2>6
  <2>8. at \in [j.list -> Int]
    <3>1. \A k \in j.list : Long(start + n * Before(j.list, k)) \in Int
      BY <2>7, LongSum, LongsAre
    <3> QED
      BY <3>1
  <2>9. v \in [j.list -> Int]
    <3>1. \A k \in j.list : k \in 0 .. 15
      BY <1>3
    <3> QED
      BY <3>1, MachineParts
  <2>10. o.da = c.da
    BY <2>4, <2>5, WrittenKeeps
  <2>11. Pointed(o, e, n) = start
    <3>1. Pointed(o, e, n) = Pointed(c, e, n)
      BY <1>2, <2>10, PointedSame
    <3> QED
      BY <2>2, <3>1 DEF Pointed
  <2>12. ASSUME NEW k \in j.list
         PROVE  Place(at[k], n) \subseteq B
    <3> DEFINE f == Before(j.list, k)
    <3>1. f \in Nat /\ f < C
      BY <1>3
    <3>2. at[k] = Long(start + n * f) /\ start + n * f \in Int
      BY <2>7
    <3> HIDE DEF f
    <3>3. Place(start + n * f, n) \subseteq B
      BY <1>1, <1>2, <2>11, <3>1, ListBytes DEF C
    <3> QED
      BY <3>2, <3>3, PlaceLong
  <2> HIDE DEF at, v, d, B
  <2>13. Effect(S, d, o, d.pc, d.ccr, {}, B)
    BY <1>1, <2>5, <2>8, <2>9, <2>12, WrittenAll
  <2> HIDE DEF c, o
  <2>14. Effect(S, c, o, d.pc, d.ccr, Stepped(e) \cup {}, {} \cup B)
    BY <2>4, <2>13, EffectThen
  <2>15. Effect(S, b, o, d.pc, d.ccr, {} \cup (Stepped(e) \cup {}), {} \cup ({} \cup B))
    BY <1>4, <2>14, EffectThen
  <2>16. {} \cup (Stepped(e) \cup {}) = {} /\ {} \cup ({} \cup B) = B
    BY <2>5
  <2>17. Effect(S, b, o, Behind(b, j), b.ccr, {}, B)
    BY <2>5, <2>15, <2>16
  <2>18. {} \subseteq RegistersOf(j) /\ B \subseteq BytesDone(b, o, j)
    BY DEF B
  <2>19. Done(S, b, j, o)
    BY <1>1, <1>2, <2>17, <2>18, EffectDone
  <2> QED
    BY <1>1, <2>1, <2>19 DEF Outcome
<1> QED
  BY <1>5, <1>6

(* Movem from memory.                                                      *)
LEMMA ListLoaded ==
  ASSUME NEW S, NEW b \in MachinesWith(S), NEW j \in Decoded, Legal(j), j.op = "movem_er"
  PROVE  Outcome(S, b, j, movem_er(b, j))
<1> DEFINE c == Skip(b, 2)
           e == j.src
           n == j.n
           up == e.mode = "pi"
           an == 8 + e.r
           start == EA(c, e, n)
           C == Cardinality(j.list)
           at == [k \in j.list |-> Long(start + n * Before(j.list, k))]
           d == IF up THEN c ELSE Used(c, e, n)
           u == ReadAll(d, n, at)
           r == [k \in DOMAIN u.da |->
                    IF up /\ k = an THEN Long(start + n * C)
                    ELSE IF k \in j.list
                    THEN Long(MAKE_INT(Value(b, ADDRESS_68K(at[k]), n), n))
                    ELSE u.da[k]]
           o == [u EXCEPT !.da = r]
           R == j.list \cup Stepped(e)
<1>1. /\ e \in Operands /\ n \in All /\ n \in {2, 4} /\ ~Refused(b, j) /\ ~Traps(b, j)
      /\ j.op \notin Testing /\ FlagsDone(j, b.ccr, b.ccr) /\ j.dst.mode = "none"
      /\ e.mode \in {"pi"} \cup ControlPc
  BY SeveralParts
<1>2. Extension(j.dst, n) = 0
  BY <1>1 DEF Extension
<1>3. e.mode \in Memory \cup {"pcdi", "pcix"}
  BY <1>1 DEF ControlPc, Control, Memory
<1>4. movem_er(b, j) = o
  BY DEF movem_er
<1>5. /\ Effect(S, b, c, Long(b.pc + 2), b.ccr, {}, {})
      /\ c \in MachinesWith(S) /\ c.pc = Long(b.pc + 2) /\ c.ccr = b.ccr
  <2>1. Effect(S, b, c, Long(b.pc + 2), b.ccr, {}, {})
    BY SkipIs
  <2> QED
    BY <2>1 DEF Effect
<1> HIDE DEF c
<1>6. start \in Int
  BY <1>1, <1>3, <1>5, AddressIs
<1>7. C \in Nat /\ an \in 0 .. 15 /\ j.list \in SUBSET (0 .. 15)
  BY <1>1, BeforeIs, OperandParts DEF Decoded
<1>8. Effect(S, b, d, Behind(b, j), b.ccr, {}, {})
  <2>1. CASE up
    <3>1. Extension(e, n) = 0
      BY <2>1 DEF Extension
    <3>2. Long(b.pc + 2) = Behind(b, j)
      BY <1>1, <1>2, <3>1, BehindList
    <3>3. d = c
      BY <2>1
    <3> QED
      BY <1>5, <3>2, <3>3
  <2>2. CASE ~up
    <3>1. e.mode \notin {"pi", "pd"}
      BY <1>1, <2>2 DEF ControlPc, Control, Memory
    <3>2. Stepped(e) = {}
      BY <3>1 DEF Stepped
    <3>3. d = Used(c, e, n)
      BY <2>2
    <3> HIDE DEF d
    <3>4. Effect(S, c, d, Long(c.pc + Extension(e, n)), c.ccr, {}, {})
      <4>1. Effect(S, c, d, Long(c.pc + Extension(e, n)), c.ccr, Stepped(e), {})
        BY <1>1, <1>5, <3>3, UsedIs
      <4> QED
        BY <3>2, <4>1
    <3>5. Long(Long(b.pc + 2) + Extension(e, n)) = Behind(b, j)
      BY <1>1, <1>2, BehindList
    <3>6. Effect(S, c, d, Behind(b, j), b.ccr, {}, {})
      BY <1>5, <3>4, <3>5
    <3>7. Effect(S, b, d, Behind(b, j), b.ccr, {} \cup {}, {} \cup {})
      BY <1>5, <3>6, EffectThen
    <3> QED
      BY <3>7
  <2> HIDE DEF up
  <2> QED
    BY <2>1, <2>2
<1>9. d \in MachinesWith(S) /\ d.pc = Behind(b, j) /\ d.ccr = b.ccr
  BY <1>8 DEF Effect
<1> HIDE DEF d
<1>10. Effect(S, d, u, d.pc, d.ccr, {}, {})
  BY <1>9, ReadAllIs
<1>11. Effect(S, b, u, d.pc, d.ccr, {} \cup {}, {} \cup {})
  BY <1>8, <1>10, EffectThen
<1>12. Effect(S, b, u, Behind(b, j), b.ccr, {}, {})
  BY <1>9, <1>11
<1>13. u \in MachinesWith(S)
  BY <1>12 DEF Effect
<1> HIDE DEF u
<1>14. DOMAIN u.da = 0 .. 15 /\ \A k \in 0 .. 15 : u.da[k] \in Longs
  BY <1>13 DEF MachinesWith
<1>15. Long(start + n * C) \in Longs
  <2>1. start + n * C \in Int
    BY <1>1, <1>6, <1>7
  <2> QED
    BY <2>1, LongSum
<1>16. \A k : Long(MAKE_INT(Value(b, ADDRESS_68K(at[k]), n), n)) \in Longs
  <2> TAKE k
  <2> DEFINE v == Value(b, ADDRESS_68K(at[k]), n)
  <2>1. v \in Longs
    BY <1>1, ValueIs
  <2> HIDE DEF v
  <2>2. v \in Int /\ n \in 1 .. 4
    BY <1>1, <2>1, LongsAre
  <2>3. MAKE_INT(v, n) \in Int
    BY <2>2, LowIs
  <2>4. Long(MAKE_INT(v, n)) \in Longs
    BY <2>3, LongSum
  <2> QED
    BY <2>4 DEF v
<1>17. an \in Stepped(e) \/ ~up
  BY DEF Stepped
<1>18. \A k \in 0 .. 15 : r[k] \in Longs /\ (k \in R \/ r[k] = u.da[k])
  <2> HIDE DEF at, start, an
  <2> TAKE k \in 0 .. 15
  <2>1. r[k] = IF up /\ k = an THEN Long(start + n * C)
               ELSE IF k \in j.list
               THEN Long(MAKE_INT(Value(b, ADDRESS_68K(at[k]), n), n))
               ELSE u.da[k]
    BY <1>14
  <2> HIDE DEF r, up
  <2>2. CASE up /\ k = an
    BY <1>15, <1>17, <2>1, <2>2
  <2>3. CASE ~(up /\ k = an) /\ k \in j.list
    BY <1>16, <2>1, <2>3
  <2>4. CASE ~(up /\ k = an) /\ k \notin j.list
    BY <1>14, <2>1, <2>4
  <2> QED
    BY <2>2, <2>3, <2>4
<1>19. r = [k \in 0 .. 15 |-> r[k]]
  BY <1>14
<1> HIDE DEF r, R
<1>20. r \in [0 .. 15 -> Longs]
  BY <1>18, <1>19
<1>21. /\ o \in MachinesWith(S) /\ o.da = r /\ o.ram = u.ram /\ o.s = u.s /\ o.t1 = u.t1
       /\ o.im = u.im /\ o.stopped = u.stopped /\ o.banked = u.banked /\ o.pc = u.pc
       /\ o.ppc = u.ppc /\ o.ccr = u.ccr /\ o.run = u.run
  BY <1>13, <1>20 DEF MachinesWith
<1>22. Effect(S, u, o, u.pc, u.ccr, R, {})
  BY <1>18, <1>21 DEF Effect
<1> HIDE DEF o
<1>23. Effect(S, b, o, u.pc, u.ccr, {} \cup R, {} \cup {})
  BY <1>12, <1>22, EffectThen
<1>24. u.pc = Behind(b, j) /\ u.ccr = b.ccr /\ {} \cup R = R /\ {} \cup {} = {}
  BY <1>12 DEF Effect
<1>25. Effect(S, b, o, Behind(b, j), b.ccr, R, {})
  BY <1>23, <1>24
<1>26. R \subseteq RegistersOf(j) /\ {} \subseteq BytesDone(b, o, j)
  BY DEF R, RegistersOf
<1>27. Done(S, b, j, o)
  BY <1>1, <1>25, <1>26, EffectDone
<1> QED
  BY <1>1, <1>4, <1>27 DEF Outcome

(* Movep to memory.                                                        *)
LEMMA EverySecond ==
  ASSUME NEW S, NEW b \in MachinesWith(S), NEW j \in Decoded, Legal(j), j.op = "movep_re"
  PROVE  Outcome(S, b, j, movep_re(b, j))
<1> DEFINE e == j.dst
           n == j.n
           K == 0 .. n - 1
           d == Used(b, e, n)
           start == EA(b, e, n)
           at == [k \in K |-> Long(start + 2 * k)]
           v == [k \in K |-> ByteOf(b.da[j.src.r], n - 1 - k)]
           o == WriteAll(d, 1, at, v)
           B == BytesDone(b, o, j)
<1>1. /\ e \in Operands /\ n \in All /\ n \in {2, 4} /\ ~Refused(b, j) /\ ~Traps(b, j)
      /\ j.op \notin Testing /\ FlagsDone(j, b.ccr, b.ccr) /\ j.src.mode = "d"
      /\ e.mode = "di" /\ j.src \in Operands /\ j.op \notin Pushing /\ j.op \notin ReadOnly
  BY SeveralParts
<1>2. e.mode \in Memory /\ e.mode # "d" /\ Extension(j.src, n) = 0 /\ Stepped(e) = {}
  BY <1>1 DEF Memory, Extension, Stepped
<1>3. movep_re(b, j) = o
  BY DEF movep_re
<1>4. start \in Int
  BY <1>1, <1>2, AddressIs
<1>5. Effect(S, b, d, Behind(b, j), b.ccr, {}, {}) /\ d.da = b.da
  <2>1. /\ Effect(S, b, d, Long(b.pc + Extension(e, n)), b.ccr, Stepped(e), {})
        /\ d.da = b.da
    BY <1>1, UsedIs
  <2>2. Long(b.pc + Extension(e, n)) = Behind(b, j)
    BY <1>1, <1>2, WordsAfter
  <2> QED
    BY <1>2, <2>1, <2>2
<1>6. d \in MachinesWith(S) /\ d.pc = Behind(b, j) /\ d.ccr = b.ccr
  BY <1>5 DEF Effect
<1>7. \A k \in K : start + 2 * k \in Int
  BY <1>1, <1>4
<1>8. at \in [K -> Int]
  <2>1. \A k \in K : Long(start + 2 * k) \in Int
    BY <1>7, LongSum, LongsAre
  <2> QED
    BY <2>1
<1>9. v \in [K -> Int]
  <2>1. b.da[j.src.r] \in Int
    <3>1. j.src.r \in 0 .. 15
      BY <1>1, OperandParts
    <3> QED
      BY <3>1, MachineParts
  <2>2. \A k \in K : n - 1 - k \in 0 .. 3
    BY <1>1
  <2>3. \A k \in K : ByteOf(b.da[j.src.r], n - 1 - k) \in Int
    BY <2>1, <2>2, ByteOfIs
  <2> QED
    BY <2>3
<1> HIDE DEF v, d
<1>10. o.da = b.da
  BY <1>5, <1>6, WrittenKeeps
<1>11. Pointed(o, e, n) = start
  <2>1. Pointed(o, e, n) = Pointed(b, e, n)
    BY <1>2, <1>10, PointedSame
  <2> QED
    BY <1>1, <2>1 DEF Pointed
<1>12. B = UNION {Place(start + 2 * k, 1) : k \in K}
  <2>1. Target(o, j) = UNION {Place(start + 2 * k, 1) : k \in K}
    BY <1>11 DEF Target
  <2> QED
    BY <1>1, <1>2, <2>1 DEF BytesDone
<1> HIDE DEF o, B
<1>13. \A k \in K : Place(at[k], 1) \subseteq B
  <2> TAKE k \in K
  <2>1. at[k] = Long(start + 2 * k) /\ start + 2 * k \in Int
    BY <1>7
  <2>2. Place(start + 2 * k, 1) \subseteq B
    BY <1>12
  <2> QED
    BY <2>1, <2>2, PlaceLong
<1> HIDE DEF at, K
<1>14. 1 \in All
  BY DEF All
<1>15. Effect(S, d, o, d.pc, d.ccr, {}, B)
  BY <1>6, <1>8, <1>9, <1>13, <1>14, WrittenAll DEF o
<1>16. Effect(S, b, o, d.pc, d.ccr, {} \cup {}, {} \cup B)
  BY <1>5, <1>15, EffectThen
<1>17. {} \cup {} = {} /\ {} \cup B = B
  OBVIOUS
<1>18. Effect(S, b, o, Behind(b, j), b.ccr, {}, B)
  BY <1>6, <1>16, <1>17
<1>19. {} \subseteq RegistersOf(j) /\ B \subseteq BytesDone(b, o, j)
  BY DEF B
<1>20. Done(S, b, j, o)
  BY <1>1, <1>2, <1>18, <1>19, EffectDone
<1> QED
  BY <1>1, <1>3, <1>20 DEF Outcome

(* Bytes make up a word or a long.                                         *)
LEMMA BytesTogether ==
  ASSUME NEW p \in Bytes, NEW q \in Bytes, NEW s \in Bytes, NEW t \in Bytes, NEW n \in {2, 4},
         NEW w, w = p * 2^Bits(1) + q,
         NEW r, r = IF n = 2 THEN w ELSE w * 2^Bits(2) + s * 2^Bits(1) + t
  PROVE  r \in Int /\ Low(r, n) = r
<1>1. n = 2 => r \in Int /\ r \in Values(Half(2))
  BY Widths, SMT DEF Numbers, Bytes
<1>2. n = 4 => r \in Int /\ r \in Values(Half(4))
  BY Widths, SMT DEF Numbers, Bytes
<1> QED
  BY <1>1, <1>2, LowIs

(* Movep from memory.                                                      *)
LEMMA SecondsLoaded ==
  ASSUME NEW S, NEW b \in MachinesWith(S), NEW j \in Decoded, Legal(j), j.op = "movep_er"
  PROVE  Outcome(S, b, j, movep_er(b, j))
<1> DEFINE e == j.src
           n == j.n
           k == j.dst.r
           d == Used(b, e, n)
           at == [i \in 0 .. n - 1 |-> Long(EA(b, e, n) + 2 * i)]
           Part(i) == Byte(b, ADDRESS_68K(at[i]))
           w == Part(0) * 2^Bits(1) + Part(1)
           r == IF n = 2 THEN w ELSE w * 2^Bits(2) + Part(2) * 2^Bits(1) + Part(3)
           u == ReadAll(d, 1, at)
           v == Upper(u.da[k], n) + r
           o == Registered(u, k, v)
<1>1. /\ e \in Operands /\ n \in All /\ n \in {2, 4} /\ ~Refused(b, j) /\ ~Traps(b, j)
      /\ j.op \notin Testing /\ FlagsDone(j, b.ccr, b.ccr) /\ e.mode = "di"
      /\ j.dst.mode = "d" /\ j.dst \in Operands /\ j.op \notin ReadOnly
  BY SeveralParts
<1>2. Extension(j.dst, n) = 0 /\ Stepped(e) = {} /\ k \in 0 .. 15
  BY <1>1, OperandParts DEF Extension, Stepped
<1>3. movep_er(b, j) = o
  BY DEF movep_er, Registered
<1>4. r \in Int /\ Low(r, n) = r
  <2>1. Part(0) \in Bytes /\ Part(1) \in Bytes /\ Part(2) \in Bytes /\ Part(3) \in Bytes
    BY ByteIs
  <2> HIDE DEF Part
  <2> QED
    BY <1>1, <2>1, BytesTogether
<1> HIDE DEF r
<1>5. Effect(S, b, d, Behind(b, j), b.ccr, {}, {}) /\ d.da = b.da
  <2>1. /\ Effect(S, b, d, Long(b.pc + Extension(e, n)), b.ccr, Stepped(e), {})
        /\ d.da = b.da
    BY <1>1, UsedIs
  <2>2. Long(b.pc + Extension(e, n)) = Behind(b, j)
    BY <1>1, <1>2, WordsAfter
  <2> QED
    BY <1>2, <2>1, <2>2
<1>6. d \in MachinesWith(S) /\ d.pc = Behind(b, j) /\ d.ccr = b.ccr
  BY <1>5 DEF Effect
<1> HIDE DEF d, at
<1>7. Effect(S, d, u, d.pc, d.ccr, {}, {}) /\ u.da = d.da
  BY <1>6, ReadAllIs
<1>8. Effect(S, b, u, d.pc, d.ccr, {} \cup {}, {} \cup {})
  BY <1>5, <1>7, EffectThen
<1>9. Effect(S, b, u, Behind(b, j), b.ccr, {}, {}) /\ u.da = b.da
  BY <1>5, <1>6, <1>7, <1>8
<1>10. u \in MachinesWith(S) /\ u.pc = Behind(b, j) /\ u.ccr = b.ccr
  BY <1>9 DEF Effect
<1> HIDE DEF u
<1>11. v \in Longs /\ Upper(v, n) = Upper(b.da[k], n)
  <2>1. b.da[k] \in Longs
    BY <1>2, MachineParts
  <2>2. v = Upper(b.da[k], n) + Low(r, n)
    BY <1>4, <1>9
  <2> HIDE DEF v
  <2> QED
    BY <1>1, <1>4, <2>1, <2>2, UpperLow
<1> HIDE DEF v, k
<1>12. Effect(S, u, o, u.pc, u.ccr, {k}, {}) /\ o.da[k] = v
  <2>1. u \in MachinesWith(S) /\ k \in 0 .. 15 /\ v \in Longs
    BY <1>2, <1>10, <1>11
  <2> QED
    BY <2>1, RegisterSet
<1> HIDE DEF o
<1>13. Effect(S, b, o, u.pc, u.ccr, {} \cup {k}, {} \cup {})
  BY <1>9, <1>12, EffectThen
<1>14. {} \cup {k} = {k} /\ {} \cup {} = {}
  OBVIOUS
<1>15. Effect(S, b, o, Behind(b, j), b.ccr, {k}, {})
  BY <1>10, <1>13, <1>14
<1>16. {k} \subseteq RegistersOf(j) /\ {} \subseteq BytesDone(b, o, j)
  BY <1>1 DEF RegistersOf, NumberOf, AD, k
<1>17. Upper(o.da[j.dst.r], n) = Upper(b.da[j.dst.r], n)
  BY <1>11, <1>12 DEF k
<1>18. Done(S, b, j, o)
  BY <1>1, <1>15, <1>16, <1>17, EffectDone
<1> QED
  BY <1>1, <1>3, <1>18 DEF Outcome

-----------------------------------------------------------------------------
(* The actions.                                                            *)

MayTrap == {"divide", "chk", "trapv", "trap"}

(* What neither traps nor is privileged ends as it should.                 *)
LEMMA DoneEnds ==
  ASSUME NEW S, NEW b, NEW j, NEW o, Legal(j), j.op \notin Privileged, j.op \notin MayTrap,
         Done(S, b, j, o)
  PROVE  Outcome(S, b, j, o)
<1>1. ~Refused(b, j)
  BY DEF Refused
<1>2. ~Traps(b, j)
  BY DEF Traps, MayTrap
<1> HIDE DEF Done
<1> QED
  BY <1>1, <1>2 DEF Outcome

(* The arithmetic instructions.                                            *)
LEMMA ArithmeticDone ==
  ASSUME NEW S, NEW b \in MachinesWith(S), NEW j \in Decoded, Legal(j), j.op \in ArithmeticOps,
         NEW late \in BOOLEAN
  PROVE  Outcome(S, b, j, Arithmetic(b, j, late))
<1> DEFINE o == Arithmetic(b, j, late)
<1>1. \/ j.op \in Sums \/ j.op \in {"adda", "suba", "addq_a", "subq_a"}
      \/ j.op \in {"cmp", "cmpi", "cmpm", "tst"} \/ j.op = "cmpa"
      \/ j.op = "ext" \/ j.op = "clr" \/ j.op = "multiply" \/ j.op = "divide" \/ j.op = "chk"
  BY SMT DEF ArithmeticOps, Sums
<1>2. j.op \notin Privileged
  BY SMT DEF ArithmeticOps, Privileged
<1>3. j.op \notin MayTrap \/ j.op = "divide" \/ j.op = "chk"
  BY SMT DEF ArithmeticOps, MayTrap
<1>4. CASE j.op = "divide"
  BY <1>4, DivideDone
<1>5. CASE j.op = "chk"
  BY <1>5, ChkDone
<1>6. CASE j.op \notin {"divide", "chk"}
  <2>1. j.op \in Sums => Done(S, b, j, o)
    BY SumsDone
  <2>2. j.op \in {"adda", "suba", "addq_a", "subq_a"} => Done(S, b, j, o)
    BY AddressesDone
  <2>3. j.op \in {"cmp", "cmpi", "cmpm", "tst"} => Done(S, b, j, o)
    BY ComparesDone
  <2>4. j.op = "cmpa" => Done(S, b, j, o)
    BY CmpaDone
  <2>5. j.op = "ext" => Done(S, b, j, o)
    BY RegistersDone
  <2>6. j.op = "clr" => Done(S, b, j, o)
    BY ClearsDone
  <2>7. j.op = "multiply" => Done(S, b, j, o)
    BY MultiplyDone
  <2> HIDE DEF o
  <2>8. Done(S, b, j, o)
    BY <1>1, <1>6, <2>1, <2>2, <2>3, <2>4, <2>5, <2>6, <2>7
  <2>9. j.op \notin MayTrap
    BY <1>3, <1>6
  <2> QED
    BY <1>2, <2>8, <2>9, DoneEnds DEF o
<1> QED
  BY <1>4, <1>5, <1>6

(* The logical, bit and shift instructions.                                *)
LEMMA BitwiseDone ==
  ASSUME NEW S, NEW b \in MachinesWith(S), NEW j, Fitting(j), Legal(j), j.op \in BitwiseOps,
         NEW undef \in BOOLEAN
  PROVE  Outcome(S, b, j, BitwiseOf(b, j, undef))
<1> DEFINE o == BitwiseOf(b, j, undef)
<1>1. \/ j.op \in Logical \/ j.op \in BitChanges \/ j.op \in BitTests \/ j.op \in Shiftings
      \/ j.op = "tas" \/ j.op = "scc"
  BY SMT DEF BitwiseOps, Logical, BitChanges, BitTests, Shiftings
<1>2. j.op \notin Privileged /\ j.op \notin MayTrap
  BY SMT DEF BitwiseOps, Privileged, MayTrap
<1>3. j \in Decoded
  BY DEF Fitting
<1>4. j.op \in Logical => Done(S, b, j, o)
  BY <1>3, LogicalDone
<1>5. j.op \in BitChanges => Done(S, b, j, o)
  BY <1>3, BitsDone
<1>6. j.op \in BitTests => Done(S, b, j, o)
  BY <1>3, ComparesDone
<1>7. j.op \in Shiftings => Done(S, b, j, o)
  BY ShiftsDone
<1>8. j.op = "tas" => Done(S, b, j, o)
  BY <1>3, TasDone
<1>9. j.op = "scc" => Done(S, b, j, o)
  BY <1>3, ClearsDone
<1> HIDE DEF o
<1>10. Done(S, b, j, o)
  BY <1>1, <1>4, <1>5, <1>6, <1>7, <1>8, <1>9
<1> QED
  BY <1>2, <1>10, DoneEnds DEF o

(* The data transfers.                                                     *)
LEMMA TransferDone ==
  ASSUME NEW S, NEW b \in MachinesWith(S), NEW j \in Decoded, Legal(j), j.op \in TransferOps
  PROVE  Outcome(S, b, j, Transfer(b, j))
<1> DEFINE o == Transfer(b, j)
<1>1. \/ j.op \in Moves \/ j.op \in {"movea", "lea"} \/ j.op \in {"exg_da", "exg_aa"}
      \/ j.op \in {"swap", "moveq"} \/ j.op = "pea" \/ j.op = "link" \/ j.op = "unlk"
      \/ j.op = "movem_re" \/ j.op = "movem_er" \/ j.op = "movep_re" \/ j.op = "movep_er"
  BY SMT DEF TransferOps, Moves
<1>2. j.op \notin Privileged /\ j.op \notin MayTrap
  BY SMT DEF TransferOps, Privileged, MayTrap
<1>3. CASE j.op = "movem_re"
  BY <1>3, ListStored DEF Transfer
<1>4. CASE j.op = "movem_er"
  BY <1>4, ListLoaded DEF Transfer
<1>5. CASE j.op = "movep_re"
  BY <1>5, EverySecond DEF Transfer
<1>6. CASE j.op = "movep_er"
  BY <1>6, SecondsLoaded DEF Transfer
<1>7. CASE j.op \notin {"movem_re", "movem_er", "movep_re", "movep_er"}
  <2>1. j.op \in Moves => Done(S, b, j, o)
    BY MovesDone
  <2>2. j.op \in {"movea", "lea"} => Done(S, b, j, o)
    <3>1. TRUE \in BOOLEAN
      OBVIOUS
    <3> QED
      BY <3>1, AddressesDone
  <2>3. j.op \in {"exg_da", "exg_aa"} => Done(S, b, j, o)
    BY ExchangeDone
  <2>4. j.op \in {"swap", "moveq"} => Done(S, b, j, o)
    BY RegistersDone
  <2>5. j.op = "pea" => Done(S, b, j, o)
    BY PeaDone
  <2>6. j.op = "link" => Done(S, b, j, o)
    BY LinkDone
  <2>7. j.op = "unlk" => Done(S, b, j, o)
    BY UnlkDone
  <2> HIDE DEF o
  <2>8. Done(S, b, j, o)
    BY <1>1, <1>7, <2>1, <2>2, <2>3, <2>4, <2>5, <2>6, <2>7
  <2> QED
    BY <1>2, <2>8, DoneEnds DEF o
<1> QED
  BY <1>3, <1>4, <1>5, <1>6, <1>7

(* The flow of control.                                                    *)
LEMMA FlowDone ==
  ASSUME NEW S, NEW b \in MachinesWith(S), NEW j, Fitting(j), Legal(j), j.op \in FlowOps,
         NEW answer \in Longs
  PROVE  Outcome(S, b, j, Flow(b, j, answer))
<1> DEFINE o == Flow(b, j, answer)
<1>1. \/ j.op \in {"bra", "bcc"} \/ j.op \in {"bsr", "jmp", "jsr"} \/ j.op \in {"rts", "rtr"}
      \/ j.op = "dbcc" \/ j.op \in {"nop", "trapv", "trap"}
  BY SMT DEF FlowOps
<1>2. j.op \notin Privileged
  BY SMT DEF FlowOps, Privileged
<1>3. j.op \notin MayTrap \/ j.op \in {"nop", "trapv", "trap"}
  BY SMT DEF FlowOps, MayTrap
<1>4. j \in Decoded
  BY DEF Fitting
<1>5. CASE j.op \in {"nop", "trapv", "trap"}
  BY <1>5, TrapsDone
<1>6. CASE j.op \notin {"nop", "trapv", "trap"}
  <2>1. j.op \in {"bra", "bcc"} => Done(S, b, j, o)
    BY <1>4, BranchesDone
  <2>2. j.op \in {"bsr", "jmp", "jsr"} => Done(S, b, j, o)
    BY <1>4, CallsDone
  <2>3. j.op \in {"rts", "rtr"} => Done(S, b, j, o)
    BY <1>4, ReturnsDone
  <2>4. j.op = "dbcc" => Done(S, b, j, o)
    BY <1>4, DbccDone
  <2> HIDE DEF o
  <2>5. Done(S, b, j, o)
    BY <1>1, <1>6, <2>1, <2>2, <2>3, <2>4
  <2>6. j.op \notin MayTrap
    BY <1>3, <1>6
  <2> QED
    BY <1>2, <2>5, <2>6, DoneEnds DEF o
<1> QED
  BY <1>5, <1>6

(* The status register.                                                    *)
LEMMA StatusDone ==
  ASSUME NEW S, NEW b \in MachinesWith(S), NEW j \in Decoded, Legal(j), j.op \in StatusOps
  PROVE  Outcome(S, b, j, Status(b, j))
<1>1. \/ j.op \in StatusWords \/ j.op = "move_frs" \/ j.op = "move_fru" \/ j.op = "move_tou"
      \/ j.op = "stop" \/ j.op = "reset" \/ j.op = "rte"
  BY SMT DEF StatusOps, StatusWords, Privileged
<1>2. CASE j.op \in StatusWords
  BY <1>2, StatusWordsDone
<1>3. CASE j.op = "move_frs"
  <2>1. j.op \notin Privileged /\ j.op \notin MayTrap
    BY <1>3, SMT DEF Privileged, MayTrap
  <2>2. Done(S, b, j, Status(b, j))
    BY <1>3, ClearsDone
  <2> QED
    BY <2>1, <2>2, DoneEnds
<1>4. CASE j.op = "move_fru"
  BY <1>4, FromUserDone DEF Status
<1>5. CASE j.op = "move_tou"
  BY <1>5, ToUserDone DEF Status
<1>6. CASE j.op = "stop"
  BY <1>6, StopDone DEF Status
<1>7. CASE j.op = "reset"
  BY <1>7, ResetDone DEF Status
<1>8. CASE j.op = "rte"
  BY <1>8, ReturnDone DEF Status
<1> QED
  BY <1>1, <1>2, <1>3, <1>4, <1>5, <1>6, <1>7, <1>8

-----------------------------------------------------------------------------
(* The steps.                                                              *)

IInv == TypeOK /\ program \in Programs

(* What a step is: an outcome of the instruction begun.                    *)
LEMMA EveryStep ==
  ASSUME IInv, Next
  PROVE  /\ Running /\ Fitting(Instruction) /\ UNCHANGED <<program, begin>>
         /\ \E o : /\ Outcome(DOMAIN begin.ram, Begun(m), Instruction, o)
                   /\ m' = Ended(o)
<1> DEFINE S == DOMAIN begin.ram
           b == Begun(m)
           j == Instruction
<1>1. Running /\ UNCHANGED <<program, begin>>
  BY DEF Next, ExecuteArithmetic, ExecuteBitwise, ExecuteTransfer, ExecuteFlow, ExecuteStatus,
         ExecuteIllegal, Step
<1>2. Fitting(j)
  BY <1>1, CpuAssumption DEF IInv, Running, Instruction
<1>3. j \in Decoded
  BY <1>2 DEF Fitting
<1>4. b \in MachinesWith(S)
  <2>1. m \in MachinesWith(S)
    BY DEF IInv, TypeOK
  <2>2. m.pc + 2 \in Int
    BY <2>1, MachineParts
  <2>3. m.pc \in Longs /\ Long(m.pc + 2) \in Longs
    BY <2>1, <2>2, MachineParts, LongSum
  <2> QED
    BY <2>1, <2>3 DEF Begun, MachinesWith
<1> HIDE DEF S, b, j
<1>5. CASE ExecuteArithmetic
  <2>1. PICK late \in BOOLEAN : Step(Arithmetic(b, j, late))
    BY <1>5 DEF ExecuteArithmetic, b, j
  <2>2. Legal(j) /\ j.op \in ArithmeticOps
    BY <1>5 DEF ExecuteArithmetic, j
  <2>3. Outcome(S, b, j, Arithmetic(b, j, late))
    BY <1>3, <1>4, <2>2, ArithmeticDone
  <2> QED
    BY <1>1, <1>2, <2>1, <2>3 DEF Step, S, b, j
<1>6. CASE ExecuteBitwise
  <2>1. PICK undef \in BOOLEAN : Step(BitwiseOf(b, j, undef))
    BY <1>6 DEF ExecuteBitwise, b, j
  <2>2. Legal(j) /\ j.op \in BitwiseOps
    BY <1>6 DEF ExecuteBitwise, j
  <2>3. Outcome(S, b, j, BitwiseOf(b, j, undef))
    BY <1>2, <1>4, <2>2, BitwiseDone
  <2> QED
    BY <1>1, <1>2, <2>1, <2>3 DEF Step, S, b, j
<1>7. CASE ExecuteTransfer
  <2>1. Step(Transfer(b, j)) /\ Legal(j) /\ j.op \in TransferOps
    BY <1>7 DEF ExecuteTransfer, b, j
  <2>2. Outcome(S, b, j, Transfer(b, j))
    BY <1>3, <1>4, <2>1, TransferDone
  <2> QED
    BY <1>1, <1>2, <2>1, <2>2 DEF Step, S, b, j
<1>8. CASE ExecuteFlow
  <2>1. PICK answer \in Answers : Step(Flow(b, j, answer))
    BY <1>8 DEF ExecuteFlow, b, j
  <2>2. Legal(j) /\ j.op \in FlowOps /\ answer \in Longs
    BY <1>8, CpuAssumption DEF ExecuteFlow, j
  <2>3. Outcome(S, b, j, Flow(b, j, answer))
    BY <1>2, <1>4, <2>2, FlowDone
  <2> QED
    BY <1>1, <1>2, <2>1, <2>3 DEF Step, S, b, j
<1>9. CASE ExecuteStatus
  <2>1. Step(Status(b, j)) /\ Legal(j) /\ j.op \in StatusOps
    BY <1>9 DEF ExecuteStatus, b, j
  <2>2. Outcome(S, b, j, Status(b, j))
    BY <1>3, <1>4, <2>1, StatusDone
  <2> QED
    BY <1>1, <1>2, <2>1, <2>2 DEF Step, S, b, j
<1>10. CASE ExecuteIllegal
  <2>1. Step(Illegal(b, j)) /\ ~Legal(j)
    BY <1>10 DEF ExecuteIllegal, b, j
  <2>2. Outcome(S, b, j, Illegal(b, j))
    BY <1>3, <1>4, <2>1, IllegalDone
  <2> QED
    BY <1>1, <1>2, <2>1, <2>2 DEF Step, S, b, j
<1> QED
  BY <1>5, <1>6, <1>7, <1>8, <1>9, <1>10 DEF Next

(* An instruction begun, and one ended: only the program counters move.    *)
LEMMA BegunIs ==
  ASSUME NEW S, NEW b \in MachinesWith(S)
  PROVE  LET a == Begun(b)
         IN  /\ a \in MachinesWith(S) /\ a.ppc = b.pc /\ a.pc = Long(b.pc + 2)
             /\ a.da = b.da /\ a.ram = b.ram /\ a.ccr = b.ccr /\ a.s = b.s /\ a.t1 = b.t1
             /\ a.im = b.im /\ a.stopped = b.stopped /\ a.banked = b.banked /\ a.run = b.run
<1>1. b.pc + 2 \in Int
  BY MachineParts
<1>2. b.pc \in Longs /\ Long(b.pc + 2) \in Longs
  BY <1>1, MachineParts, LongSum
<1> QED
  BY <1>2 DEF Begun, MachinesWith

(* Registers, flags and memory stay.                                       *)
LEMMA EndedIs ==
  ASSUME NEW S, NEW o \in MachinesWith(S)
  PROVE  LET e == Ended(o)
         IN  /\ e \in MachinesWith(S) /\ e.ppc = o.pc /\ e.pc = o.pc
             /\ e.da = o.da /\ e.ram = o.ram /\ e.ccr = o.ccr /\ e.s = o.s /\ e.t1 = o.t1
             /\ e.im = o.im /\ e.stopped = o.stopped /\ e.banked = o.banked /\ e.run = o.run
<1>1. o.pc \in Longs
  BY MachineParts
<1> QED
  BY <1>1 DEF Ended, MachinesWith

(* What is looked at afterwards depends on registers and memory only.      *)
LEMMA SeenSame ==
  ASSUME NEW j \in Decoded, NEW o, NEW e, e.da = o.da, e.ram = o.ram, e.pc = o.pc
  PROVE  /\ ResultOf(e, j) = ResultOf(o, j)
         /\ Target(e, j) = Target(o, j)
<1>1. \A a, n : EA(e, a, n) = EA(o, a, n)
  BY DEF EA, get_ea_ix
<1>2. \A a, n : Pointed(e, a, n) = Pointed(o, a, n)
  BY <1>1 DEF Pointed
<1>3. \A a, n : Value(e, a, n) = Value(o, a, n)
  BY ValueSame
<1>4. ResultOf(e, j) = ResultOf(o, j)
  BY <1>2, <1>3 DEF ResultOf
<1>5. Target(e, j) = Target(o, j)
  BY <1>2 DEF Target
<1> QED
  BY <1>4, <1>5

(* The address behind an instruction, from where it stands.                *)
LEMMA LengthIs ==
  ASSUME NEW S, NEW b \in MachinesWith(S), NEW j \in Decoded
  PROVE  Behind(Begun(b), j) = Long(b.pc + LengthOf(j))
<1>1. j.src \in Operands /\ j.dst \in Operands /\ j.n \in All
  BY DEF Decoded
<1>2. Extension(j.src, j.n) \in Int /\ Extension(j.dst, j.n) \in Int
  BY <1>1, StepIs
<1>3. LengthOf(j) \in Int
  BY <1>2 DEF LengthOf
<1> DEFINE k == LengthOf(j)
           p == b.pc
<1>4. p \in Int /\ Begun(b).pc = Long(p + 2)
  BY MachineParts, BegunIs
<1> HIDE DEF k, p
<1>5. p + 2 \in Int /\ k - 2 \in Int
  BY <1>3, <1>4 DEF k
<1>6. Long(Long(p + 2) + (k - 2)) = Long(p + 2 + (k - 2))
  BY <1>5, LongSum
<1>7. p + 2 + (k - 2) = p + k
  BY <1>3, <1>4 DEF k
<1> QED
  BY <1>4, <1>6, <1>7 DEF Behind, k, p

(* An exception has one of the vectors.                                    *)
LEMMA VectorIn ==
  ASSUME NEW b, NEW j, Fitting(j), Refused(b, j) \/ Traps(b, j)
  PROVE  VectorOf(j) \in Vectors
<1>1. \/ j.op = "1010"
      \/ j.op = "1111"
      \/ j.op \notin {"1010", "1111"} /\ ~Legal(j)
      \/ j.op \in Privileged /\ Legal(j)
      \/ j.op = "divide" /\ Legal(j)
      \/ j.op = "chk" /\ Legal(j)
      \/ j.op = "trapv" /\ Legal(j)
      \/ j.op = "trap" /\ Legal(j)
  BY DEF Refused, Traps
<1>2. j.op \in Privileged => j.op \notin {"1010", "1111", "divide", "chk", "trapv", "trap"}
  BY SMT DEF Privileged
<1>3. CASE j.op = "trap" /\ Legal(j)
  <2>1. VectorOf(j) = 32 + j.src.d
    BY <1>2, <1>3, SMT DEF VectorOf
  <2>2. j.src.d \in 0 .. 15
    BY <1>3 DEF Fitting
  <2> QED
    BY <2>1, <2>2, SMT DEF Vectors
<1>4. CASE ~(j.op = "trap" /\ Legal(j))
  <2>1. VectorOf(j) \in {4, 5, 6, 7, 8, 10, 11}
    BY <1>1, <1>2, <1>4, SMT DEF VectorOf
  <2> QED
    BY <2>1, SMT DEF Vectors
<1> QED
  BY <1>3, <1>4

-----------------------------------------------------------------------------
(* A step from b to o, as the properties see it.                           *)

Finishes(S, b, o, j) ==
    /\ Jumps(b, j) \/ o.pc = Long(b.pc + LengthOf(j))
    /\ \A k \in 0 .. 15 : k \in RegistersOf(j) \/ o.da[k] = b.da[k] \/ (k = A7 /\ o.s # b.s)
    /\ \A x \in S : x \in BytesDone(b, o, j) \/ o.ram[x] = b.ram[x]
    /\ FlagsDone(j, b.ccr, o.ccr)
    /\ TestDone(b, j, o)
    /\ j.dst.mode = "d" /\ ~Whole(j) => Upper(o.da[j.dst.r], j.n) = Upper(b.da[j.dst.r], j.n)
    /\ Kept(b, o) \/ (b.s /\ j.op \in Privileged)

Fails(S, b, o, j) ==
    LET sp == o.da[15]
    IN  /\ o.s = TRUE /\ o.t1 = FALSE /\ o.im = b.im /\ o.stopped = b.stopped
        /\ VectorOf(j) \in Vectors /\ o.pc = Value(o, 4 * VectorOf(j), 4)
        /\ FlagsDone(j, b.ccr, o.ccr)
        /\ \A k \in 0 .. 15 :
              k = 15 \/ o.da[k] = b.da[k] \/ (~Refused(b, j) /\ k \in Stepped(j.src))
        /\ \A x \in S : x \in Place(sp, 2) \cup Place(sp + 2, 4) \/ o.ram[x] = b.ram[x]
        /\ o.run =>
              /\ Value(o, ADDRESS_68K(sp), 2) = get_sr([b EXCEPT !.ccr = o.ccr])
              /\ Value(o, ADDRESS_68K(sp + 2), 4)
                     = IF Refused(b, j) THEN b.pc ELSE Long(b.pc + LengthOf(j))
        /\ 15 \notin Stepped(j.src) =>
              /\ sp = Long((IF b.s THEN b.da[15] ELSE b.banked) - 6)
              /\ o.banked = IF b.s THEN b.banked ELSE b.da[15]

(* Whether an instruction fails or jumps shows before it is begun.         *)
LEMMA BegunExcepted ==
  ASSUME NEW S, NEW b \in MachinesWith(S), NEW j
  PROVE  /\ Refused(Begun(b), j) <=> Refused(b, j)
         /\ Excepted(b, j) <=> Refused(b, j) \/ Traps(Begun(b), j)
         /\ Jumps(Begun(b), j) <=> Jumps(b, j)
<1>1. Begun(b).da = b.da /\ Begun(b).ccr = b.ccr /\ Begun(b).s = b.s
  BY BegunIs
<1>2. Refused(Begun(b), j) <=> Refused(b, j)
  BY <1>1 DEF Refused
<1>3. Trapped(b, j) <=> ~Refused(b, j) /\ Traps(Begun(b), j)
  BY <1>1 DEF Trapped, Traps
<1>4. Jumps(Begun(b), j) <=> Jumps(b, j)
  BY <1>1 DEF Jumps
<1> QED
  BY <1>2, <1>3, <1>4 DEF Excepted

(* An instruction done, as the properties see it.                          *)
LEMMA DoneFinishes ==
  ASSUME NEW S, NEW b \in MachinesWith(S), NEW j \in Decoded, NEW o,
         Done(S, Begun(b), j, o)
  PROVE  Ended(o) \in MachinesWith(S) /\ Finishes(S, b, Ended(o), j)
<1> DEFINE a == Begun(b)
           e == Ended(o)
<1>1. /\ o \in MachinesWith(S)
      /\ Jumps(a, j) \/ o.pc = Behind(a, j)
      /\ \A k \in 0 .. 15 : k \in RegistersOf(j) \/ o.da[k] = a.da[k] \/ (k = A7 /\ o.s # a.s)
      /\ \A x \in S : x \in BytesDone(a, o, j) \/ o.ram[x] = a.ram[x]
      /\ FlagsDone(j, a.ccr, o.ccr)
      /\ TestDone(a, j, o)
      /\ j.dst.mode = "d" /\ ~Whole(j) =>
            Upper(o.da[j.dst.r], j.n) = Upper(a.da[j.dst.r], j.n)
      /\ Kept(a, o) \/ (a.s /\ j.op \in Privileged)
  BY DEF Done
<1>2. /\ a.da = b.da /\ a.ram = b.ram /\ a.ccr = b.ccr /\ a.s = b.s /\ a.t1 = b.t1
      /\ a.im = b.im /\ a.stopped = b.stopped /\ a.banked = b.banked
      /\ Behind(a, j) = Long(b.pc + LengthOf(j)) /\ (Jumps(a, j) <=> Jumps(b, j))
  BY BegunIs, BegunExcepted, LengthIs
<1>3. /\ e \in MachinesWith(S) /\ e.pc = o.pc
      /\ e.da = o.da /\ e.ram = o.ram /\ e.ccr = o.ccr /\ e.s = o.s /\ e.t1 = o.t1
      /\ e.im = o.im /\ e.stopped = o.stopped /\ e.banked = o.banked /\ e.run = o.run
  BY <1>1, EndedIs
<1>4. ResultOf(e, j) = ResultOf(o, j) /\ Target(e, j) = Target(o, j)
  BY <1>3, SeenSame
<1> HIDE DEF a, e
<1>5. BytesDone(b, e, j) = BytesDone(a, o, j)
  BY <1>2, <1>4 DEF BytesDone
<1>6. TestDone(b, j, e)
  BY <1>1, <1>2, <1>3, <1>4 DEF TestDone
<1>7. Kept(b, e) \/ (b.s /\ j.op \in Privileged)
  BY <1>1, <1>2, <1>3 DEF Kept
<1>8. Jumps(b, j) \/ e.pc = Long(b.pc + LengthOf(j))
  BY <1>1, <1>2, <1>3
<1>9. \A k \in 0 .. 15 : k \in RegistersOf(j) \/ e.da[k] = b.da[k] \/ (k = A7 /\ e.s # b.s)
  BY <1>1, <1>2, <1>3
<1>10. \A x \in S : x \in BytesDone(b, e, j) \/ e.ram[x] = b.ram[x]
  BY <1>1, <1>2, <1>3, <1>5
<1>11. FlagsDone(j, b.ccr, e.ccr)
  BY <1>1, <1>2, <1>3
<1>12. j.dst.mode = "d" /\ ~Whole(j) => Upper(e.da[j.dst.r], j.n) = Upper(b.da[j.dst.r], j.n)
  BY <1>1, <1>2, <1>3
<1> QED
  BY <1>3, <1>6, <1>7, <1>8, <1>9, <1>10, <1>11, <1>12 DEF Finishes, e

(* An instruction refused or trapped, as they see it.                      *)
LEMMA FailedFails ==
  ASSUME NEW S, NEW b \in MachinesWith(S), NEW j, Fitting(j), NEW o,
         Excepted(b, j), Failed(S, Begun(b), j, o)
  PROVE  Ended(o) \in MachinesWith(S) /\ Fails(S, b, Ended(o), j)
<1> DEFINE a == Begun(b)
           e == Ended(o)
           R == IF Refused(b, j) THEN {} ELSE Stepped(j.src)
           p == IF Refused(b, j) THEN b.pc ELSE Long(b.pc + LengthOf(j))
           v == VectorOf(j)
<1>1. j \in Decoded /\ v \in Vectors
  BY BegunExcepted, VectorIn DEF Fitting
<1>2. /\ a.da = b.da /\ a.ram = b.ram /\ a.ccr = b.ccr /\ a.s = b.s /\ a.t1 = b.t1
      /\ a.im = b.im /\ a.stopped = b.stopped /\ a.banked = b.banked /\ a.ppc = b.pc
      /\ Behind(a, j) = Long(b.pc + LengthOf(j)) /\ (Refused(a, j) <=> Refused(b, j))
  BY <1>1, BegunIs, BegunExcepted, LengthIs
<1>3. PICK c : /\ Effect(S, a, c, c.pc, c.ccr, R, {})
               /\ FlagsDone(j, a.ccr, c.ccr)
               /\ Taken(S, c, o, v, p)
  <2> HIDE DEF Effect, FlagsDone, Taken
  <2> QED
    BY <1>2 DEF Failed
<1>4. /\ c.s = b.s /\ c.t1 = b.t1 /\ c.im = b.im /\ c.stopped = b.stopped /\ c.banked = b.banked
      /\ \A k \in 0 .. 15 : k \in R \/ c.da[k] = b.da[k]
      /\ \A x \in S : c.ram[x] = b.ram[x]
  BY <1>2, <1>3 DEF Effect
<1>5. /\ o \in MachinesWith(S)
      /\ o.s = TRUE /\ o.t1 = FALSE /\ o.im = c.im /\ o.stopped = c.stopped /\ o.ccr = c.ccr
      /\ o.pc = Value(o, 4 * v, 4)
      /\ \A k \in 0 .. 15 : k # 15 => o.da[k] = c.da[k]
      /\ \A x \in S : x \in Place(o.da[15], 2) \cup Place(o.da[15] + 2, 4) \/ o.ram[x] = c.ram[x]
      /\ o.da[15] = Long((IF c.s THEN c.da[15] ELSE c.banked) - 6)
      /\ o.banked = IF c.s THEN c.banked ELSE c.da[15]
      /\ o.run => /\ Value(o, ADDRESS_68K(o.da[15]), 2) = get_sr(c)
                  /\ Value(o, ADDRESS_68K(o.da[15] + 2), 4) = p
  BY <1>3 DEF Taken
<1>6. /\ e \in MachinesWith(S) /\ e.pc = o.pc
      /\ e.da = o.da /\ e.ram = o.ram /\ e.ccr = o.ccr /\ e.s = o.s /\ e.t1 = o.t1
      /\ e.im = o.im /\ e.stopped = o.stopped /\ e.banked = o.banked /\ e.run = o.run
  BY <1>5, EndedIs
<1> HIDE DEF a, e, p, v
<1>7. \A x, n : Value(e, x, n) = Value(o, x, n)
  BY <1>6, ValueSame
<1>8. get_sr(c) = get_sr([b EXCEPT !.ccr = e.ccr])
  BY <1>4, <1>5, <1>6 DEF get_sr, MachinesWith
<1>9. FlagsDone(j, b.ccr, e.ccr)
  BY <1>2, <1>3, <1>5, <1>6
<1>10. \A k \in 0 .. 15 :
          k = 15 \/ e.da[k] = b.da[k] \/ (~Refused(b, j) /\ k \in Stepped(j.src))
  BY <1>4, <1>5, <1>6
<1>11. \A x \in S : x \in Place(e.da[15], 2) \cup Place(e.da[15] + 2, 4) \/ e.ram[x] = b.ram[x]
  BY <1>4, <1>5, <1>6
<1>12. e.run => /\ Value(e, ADDRESS_68K(e.da[15]), 2) = get_sr([b EXCEPT !.ccr = e.ccr])
                /\ Value(e, ADDRESS_68K(e.da[15] + 2), 4) = p
  BY <1>5, <1>6, <1>7, <1>8
<1>13. 15 \notin Stepped(j.src) =>
          /\ e.da[15] = Long((IF b.s THEN b.da[15] ELSE b.banked) - 6)
          /\ e.banked = IF b.s THEN b.banked ELSE b.da[15]
  <2> SUFFICES ASSUME 15 \notin Stepped(j.src) 
               PROVE  /\ e.da[15] = Long((IF b.s THEN b.da[15] ELSE b.banked) - 6)
                      /\ e.banked = IF b.s THEN b.banked ELSE b.da[15]
    OBVIOUS
  <2>1. c.da[15] = b.da[15]
    BY <1>4
  <2> QED
    BY <1>4, <1>5, <1>6, <2>1
<1>14. e.pc = Value(e, 4 * v, 4)
  BY <1>5, <1>6, <1>7
<1>15. e.s = TRUE /\ e.t1 = FALSE /\ e.im = b.im /\ e.stopped = b.stopped
  BY <1>4, <1>5, <1>6
<1> QED
  BY <1>1, <1>6, <1>9, <1>10, <1>11, <1>12, <1>13, <1>14, <1>15 DEF Fails, e, v, p

(* Every step is one or the other.                                         *)
LEMMA Course ==
  ASSUME IInv, Next
  PROVE  /\ m \in MachinesWith(DOMAIN begin.ram) /\ m' \in MachinesWith(DOMAIN begin.ram)
         /\ m'.ppc = m'.pc /\ UNCHANGED <<program, begin>>
         /\ Fitting(Instruction) /\ ~m.stopped
         /\ IF Excepted(m, Instruction) THEN Fails(DOMAIN begin.ram, m, m', Instruction)
            ELSE Finishes(DOMAIN begin.ram, m, m', Instruction)
<1> DEFINE S == DOMAIN begin.ram
           j == Instruction
<1>1. m \in MachinesWith(S)
  BY DEF IInv, TypeOK
<1>2. Running /\ Fitting(j) /\ UNCHANGED <<program, begin>>
  BY EveryStep
<1>3. PICK o : Outcome(S, Begun(m), j, o) /\ m' = Ended(o)
  BY EveryStep
<1>4. j \in Decoded /\ ~m.stopped
  BY <1>2 DEF Fitting, Running
<1> HIDE DEF S, j
<1>5. Excepted(m, j) <=> Refused(Begun(m), j) \/ Traps(Begun(m), j)
  BY <1>1, BegunExcepted
<1>6. CASE Excepted(m, j)
  <2>1. Failed(S, Begun(m), j, o)
    BY <1>3, <1>5, <1>6 DEF Outcome
  <2>2. Ended(o) \in MachinesWith(S) /\ Fails(S, m, Ended(o), j)
    BY <1>1, <1>2, <1>6, <2>1, FailedFails
  <2>3. o \in MachinesWith(S)
    BY <2>1 DEF Failed, Taken
  <2>4. Ended(o).ppc = Ended(o).pc
    BY <2>3, EndedIs
  <2> QED
    BY <1>1, <1>2, <1>3, <1>4, <1>6, <2>2, <2>4 DEF S, j
<1>7. CASE ~Excepted(m, j)
  <2>1. Done(S, Begun(m), j, o)
    BY <1>3, <1>5, <1>7 DEF Outcome
  <2>2. Ended(o) \in MachinesWith(S) /\ Finishes(S, m, Ended(o), j)
    BY <1>1, <1>4, <2>1, DoneFinishes
  <2>3. o \in MachinesWith(S)
    BY <2>1 DEF Done
  <2>4. Ended(o).ppc = Ended(o).pc
    BY <2>3, EndedIs
  <2> QED
    BY <1>1, <1>2, <1>3, <1>4, <1>7, <2>2, <2>4 DEF S, j
<1> QED
  BY <1>6, <1>7

(* The invariant holds of every run.                                       *)
LEMMA Invariance == Spec => []IInv
<1>1. Init => IInv
  BY CpuAssumption DEF Init, IInv, TypeOK
<1>2. IInv /\ [Next]_vars => IInv'
  <2> SUFFICES ASSUME IInv, [Next]_vars PROVE IInv'
    OBVIOUS
  <2>1. CASE Next
    BY <2>1, Course DEF IInv, TypeOK
  <2>2. CASE UNCHANGED vars
    BY <2>2 DEF IInv, TypeOK, vars
  <2> QED
    BY <2>1, <2>2
<1> QED
  BY <1>1, <1>2, PTL DEF Spec

(* Between instructions registers, program counter and memory hold values  *)
(* of their width and both program counters agree (m68kcpu.h 794-848).     *)
THEOREM TypesHold == Spec => []TypeOK
<1>1. IInv => TypeOK
  BY DEF IInv
<1> QED
  BY <1>1, Invariance, PTL

-----------------------------------------------------------------------------
(* An instruction that tests its result is neither refused nor trapped.    *)
LEMMA TestingGoesOn ==
  ASSUME NEW b, NEW j, Legal(j), j.op \in Testing
  PROVE  ~Excepted(b, j)
<1>1. j.op \notin Privileged /\ j.op \notin {"divide", "chk", "trapv", "trap"}
  BY SMT DEF Testing, Privileged
<1> QED
  BY <1>1 DEF Excepted, Refused, Trapped

(* The condition codes after one step.                                     *)
LEMMA FlagsToldStep ==
  ASSUME IInv, Next
  PROVE  LET j == Instruction
         IN  /\ \A f \in DOMAIN m.ccr : m'.ccr[f] # m.ccr[f] => f \in FlagsOf(j)
             /\ Legal(j) /\ j.op \in Testing /\ m'.run =>
                    m'.ccr = Tested(ResultOf(m', j), m.ccr,
                                    IF j.op = "multiply" THEN 4 ELSE j.n)
<1> DEFINE S == DOMAIN begin.ram
           j == Instruction
<1>1. /\ m \in MachinesWith(S)
      /\ IF Excepted(m, j) THEN Fails(S, m, m', j) ELSE Finishes(S, m, m', j)
  BY Course
<1> HIDE DEF S, j
<1>2. FlagsDone(j, m.ccr, m'.ccr)
  BY <1>1 DEF Fails, Finishes
<1>3. DOMAIN m.ccr = FlagNames
  <2>1. m.ccr \in Flags
    BY <1>1, MachineParts
  <2> QED
    BY <2>1 DEF Flags, FlagNames
<1>4. \A f \in DOMAIN m.ccr : m'.ccr[f] # m.ccr[f] => f \in FlagsOf(j)
  BY <1>2, <1>3 DEF FlagsDone
<1>5. ASSUME Legal(j), j.op \in Testing, m'.run
      PROVE  m'.ccr = Tested(ResultOf(m', j), m.ccr, IF j.op = "multiply" THEN 4 ELSE j.n)
  <2>1. ~Excepted(m, j)
    BY <1>5, TestingGoesOn
  <2>2. TestDone(m, j, m')
    BY <1>1, <2>1 DEF Finishes
  <2> QED
    BY <1>5, <2>2 DEF TestDone
<1> QED
  BY <1>4, <1>5 DEF j

(* After an instruction that tests its result the condition codes are      *)
(* those of what is in the register or memory it wrote, whatever the mode  *)
(* and size; no instruction changes a flag that is not its business        *)
(* (the handlers of m68k_in.c).                                            *)
THEOREM FlagsAreTold == Spec => FlagsTell
<1>1. IInv /\ [Next]_vars =>
        [LET j == Instruction
         IN  /\ \A f \in DOMAIN m.ccr : m'.ccr[f] # m.ccr[f] => f \in FlagsOf(j)
             /\ Legal(j) /\ j.op \in Testing /\ m'.run =>
                    m'.ccr = Tested(ResultOf(m', j), m.ccr,
                                    IF j.op = "multiply" THEN 4 ELSE j.n)]_vars
  BY FlagsToldStep
<1> QED
  BY <1>1, Invariance, PTL DEF Spec, FlagsTell

(* What one step changes.                                                  *)
LEMMA FootprintStep ==
  ASSUME IInv, Next
  PROVE  LET j == Instruction
             wide == j.n = 4 \/ j.op \in {"multiply", "divide"}
         IN  /\ \A k \in DOMAIN m.da :
                    m'.da[k] # m.da[k] =>
                        \/ Legal(j) /\ k \in RegistersOf(j)
                        \/ k = A7 /\ (Excepted(m, j) \/ m.s # m'.s)
             /\ Legal(j) /\ j.dst.mode = "d" /\ ~wide =>
                    Upper(m'.da[j.dst.r], j.n) = Upper(m.da[j.dst.r], j.n)
             /\ {x \in DOMAIN m.ram : m'.ram[x] # m.ram[x]} \subseteq BytesOf(m, m', j)
<1> DEFINE S == DOMAIN begin.ram
           j == Instruction
<1>1. /\ m \in MachinesWith(S) /\ Fitting(j)
      /\ IF Excepted(m, j) THEN Fails(S, m, m', j) ELSE Finishes(S, m, m', j)
  BY Course
<1> HIDE DEF S, j
<1>2. j.src \in Operands /\ j.dst \in Operands
  BY <1>1 DEF Fitting, Decoded
<1>3. DOMAIN m.da = 0 .. 15 /\ DOMAIN m.ram = S
  BY <1>1 DEF MachinesWith
<1>4. ~Refused(m, j) => Legal(j)
  BY DEF Refused
<1> DEFINE Registers ==
              \A k \in DOMAIN m.da :
                  m'.da[k] # m.da[k] =>
                      \/ Legal(j) /\ k \in RegistersOf(j)
                      \/ k = A7 /\ (Excepted(m, j) \/ m.s # m'.s)
           Parts == Legal(j) /\ j.dst.mode = "d" /\ ~Whole(j) =>
                        Upper(m'.da[j.dst.r], j.n) = Upper(m.da[j.dst.r], j.n)
           Places == {x \in DOMAIN m.ram : m'.ram[x] # m.ram[x]} \subseteq BytesOf(m, m', j)
<1>5. CASE Excepted(m, j)
  <2>1. /\ \A k \in 0 .. 15 :
              k = 15 \/ m'.da[k] = m.da[k] \/ (~Refused(m, j) /\ k \in Stepped(j.src))
        /\ \A x \in S : \/ x \in Place(m'.da[15], 2) \cup Place(m'.da[15] + 2, 4)
                        \/ m'.ram[x] = m.ram[x]
    BY <1>1, <1>5 DEF Fails
  <2>2. Registers
    BY <1>3, <1>4, <1>5, <2>1 DEF RegistersOf, A7
  <2>3. Parts
    <3>1. j.dst.r \in 0 .. 7 /\ Stepped(j.src) \subseteq 8 .. 15
      BY <1>2, OperandParts, SteppedHigh
    <3>2. j.dst.r \in 0 .. 15 /\ j.dst.r # 15 /\ j.dst.r \notin Stepped(j.src)
      BY <3>1
    <3>3. m'.da[j.dst.r] = m.da[j.dst.r]
      BY <2>1, <3>2
    <3> QED
      BY <3>3
  <2>4. Places
    BY <1>3, <1>5, <2>1 DEF BytesOf, A7
  <2> QED
    BY <2>2, <2>3, <2>4 DEF Whole, j
<1>6. CASE ~Excepted(m, j)
  <2>1. /\ \A k \in 0 .. 15 :
              k \in RegistersOf(j) \/ m'.da[k] = m.da[k] \/ (k = A7 /\ m'.s # m.s)
        /\ \A x \in S : x \in BytesDone(m, m', j) \/ m'.ram[x] = m.ram[x]
        /\ j.dst.mode = "d" /\ ~Whole(j) =>
              Upper(m'.da[j.dst.r], j.n) = Upper(m.da[j.dst.r], j.n)
    BY <1>1, <1>6 DEF Finishes
  <2>2. Legal(j)
    BY <1>6 DEF Excepted, Refused
  <2>3. Registers
    BY <1>3, <2>1, <2>2
  <2>4. Parts
    BY <2>1
  <2>5. Places
    BY <1>3, <1>6, <2>1 DEF BytesOf, BytesDone
  <2> QED
    BY <2>3, <2>4, <2>5 DEF Whole, j
<1> QED
  BY <1>5, <1>6

(* An instruction changes no register and no byte but those it names, and  *)
(* those an exception needs; of a data register it changes the part of its *)
(* size (the handlers of m68k_in.c, with MASK_OUT_BELOW_8 and _16).        *)
THEOREM FootprintKept == Spec => Footprint
<1>1. IInv /\ [Next]_vars =>
        [LET j == Instruction
             wide == j.n = 4 \/ j.op \in {"multiply", "divide"}
         IN  /\ \A k \in DOMAIN m.da :
                    m'.da[k] # m.da[k] =>
                        \/ Legal(j) /\ k \in RegistersOf(j)
                        \/ k = A7 /\ (Excepted(m, j) \/ m.s # m'.s)
             /\ Legal(j) /\ j.dst.mode = "d" /\ ~wide =>
                    Upper(m'.da[j.dst.r], j.n) = Upper(m.da[j.dst.r], j.n)
             /\ {x \in DOMAIN m.ram : m'.ram[x] # m.ram[x]} \subseteq BytesOf(m, m', j)]_vars
  BY FootprintStep
<1> QED
  BY <1>1, Invariance, PTL DEF Spec, Footprint

(* What one exception leaves.                                              *)
LEMMA ExceptionsStep ==
  ASSUME IInv, Next
  PROVE  LET j == Instruction
             sp == m'.da[A7]
         IN  Excepted(m, j) /\ m'.run =>
                /\ m'.s /\ ~m'.t1 /\ m'.im = m.im
                /\ m'.pc = Value(m', 4 * VectorOf(j), 4)
                /\ Value(m', ADDRESS_68K(sp), 2) = get_sr([m EXCEPT !.ccr = m'.ccr])
                /\ Value(m', ADDRESS_68K(sp + 2), 4)
                       = IF Refused(m, j) THEN m.pc ELSE Long(m.pc + LengthOf(j))
                /\ A7 \notin Stepped(j.src) =>
                       /\ sp = Long((IF m.s THEN m.da[A7] ELSE m.banked) - 6)
                       /\ m'.banked = IF m.s THEN m.banked ELSE m.da[A7]
<1> DEFINE S == DOMAIN begin.ram
           j == Instruction
<1>1. Excepted(m, j) => Fails(S, m, m', j)
  BY Course
<1> HIDE DEF S, j
<1> QED
  BY <1>1 DEF Fails, A7, j

(* An exception goes through its vector in supervisor mode, untraced, and  *)
(* leaves on the supervisor's stack the status register as it was and the  *)
(* address to go on at (m68kcpu.h 1467-1505, 1717-1864).                   *)
THEOREM ExceptionsAreSaved == Spec => ExceptionsSave
<1>1. IInv /\ [Next]_vars =>
        [LET j == Instruction
             sp == m'.da[A7]
         IN  Excepted(m, j) /\ m'.run =>
                /\ m'.s /\ ~m'.t1 /\ m'.im = m.im
                /\ m'.pc = Value(m', 4 * VectorOf(j), 4)
                /\ Value(m', ADDRESS_68K(sp), 2) = get_sr([m EXCEPT !.ccr = m'.ccr])
                /\ Value(m', ADDRESS_68K(sp + 2), 4)
                       = IF Refused(m, j) THEN m.pc ELSE Long(m.pc + LengthOf(j))
                /\ A7 \notin Stepped(j.src) =>
                       /\ sp = Long((IF m.s THEN m.da[A7] ELSE m.banked) - 6)
                       /\ m'.banked = IF m.s THEN m.banked ELSE m.da[A7]]_vars
  BY ExceptionsStep
<1> QED
  BY <1>1, Invariance, PTL DEF Spec, ExceptionsSave

(* The mode after one step.                                                *)
LEMMA ModeStep ==
  ASSUME IInv, Next
  PROVE  LET Keeps == <<m'.s, m'.t1, m'.im, m'.stopped, m'.banked>>
                         = <<m.s, m.t1, m.im, m.stopped, m.banked>>
             Entered == /\ \E v \in Vectors : m'.pc = Value(m', 4 * v, 4)
                        /\ m'.s /\ ~m'.t1 /\ ~m'.stopped /\ m'.im = m.im
         IN  IF m.s THEN Keeps \/ Entered \/ Instruction.op \in Privileged
             ELSE Keeps \/ Entered
<1> DEFINE S == DOMAIN begin.ram
           j == Instruction
<1>1. /\ ~m.stopped
      /\ IF Excepted(m, j) THEN Fails(S, m, m', j) ELSE Finishes(S, m, m', j)
  BY Course
<1> HIDE DEF S, j
<1>2. CASE Excepted(m, j)
  <2>1. /\ m'.s = TRUE /\ m'.t1 = FALSE /\ m'.im = m.im /\ m'.stopped = m.stopped
        /\ VectorOf(j) \in Vectors /\ m'.pc = Value(m', 4 * VectorOf(j), 4)
    BY <1>1, <1>2 DEF Fails
  <2>2. \E v \in Vectors : m'.pc = Value(m', 4 * v, 4)
    BY <2>1
  <2> QED
    BY <1>1, <2>1, <2>2
<1>3. CASE ~Excepted(m, j)
  <2>1. Kept(m, m') \/ (m.s /\ j.op \in Privileged)
    BY <1>1, <1>3 DEF Finishes
  <2> QED
    BY <2>1 DEF Kept, j
<1> QED
  BY <1>2, <1>3

(* A program in user mode cannot change what only a supervisor may: it     *)
(* becomes one only at an address in a vector (the FLAG_S tests of         *)
(* m68k_in.c).                                                             *)
THEOREM ModeKept == Spec => ModeIsKept
<1>1. IInv /\ [Next]_vars =>
        [LET Keeps == <<m'.s, m'.t1, m'.im, m'.stopped, m'.banked>>
                         = <<m.s, m.t1, m.im, m.stopped, m.banked>>
             Entered == /\ \E v \in Vectors : m'.pc = Value(m', 4 * v, 4)
                        /\ m'.s /\ ~m'.t1 /\ ~m'.stopped /\ m'.im = m.im
         IN  IF m.s THEN Keeps \/ Entered \/ Instruction.op \in Privileged
             ELSE Keeps \/ Entered]_vars
  BY ModeStep
<1> QED
  BY <1>1, Invariance, PTL DEF Spec, ModeIsKept

(* However an instruction ends, the next one is found behind all of its    *)
(* words unless it jumps or fails (the OPER_ and EA_ macros and the        *)
(* branches of m68k_in.c).                                                 *)
THEOREM StepsAreSequential == Spec => Sequential
<1>1. IInv /\ [Next]_vars =>
        [~Excepted(m, Instruction) /\ ~Jumps(m, Instruction) =>
            m'.pc = Long(m.pc + LengthOf(Instruction))]_vars
  <2>1. ASSUME IInv, Next, ~Excepted(m, Instruction), ~Jumps(m, Instruction)
        PROVE  m'.pc = Long(m.pc + LengthOf(Instruction))
    <3>1. Finishes(DOMAIN begin.ram, m, m', Instruction)
      BY <2>1, Course
    <3> HIDE DEF Instruction
    <3> QED
      BY <2>1, <3>1 DEF Finishes
  <2> QED
    BY <2>1
<1> QED
  BY <1>1, Invariance, PTL DEF Spec, Sequential

=============================================================================
