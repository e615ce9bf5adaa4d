-------------------------- MODULE SupervisorProofs --------------------------
(***************************************************************************)
(* A program that calls Supexec from user mode, and lies below 64K so that *)
(* pop_u32 loses nothing of its addresses, gets control back behind every  *)
(* trap as if nothing had happened.                                        *)
(***************************************************************************)
EXTENDS Supervisor, SequenceTheorems, TLAPS

Plain == CallerModes \subseteq {0} /\ \A pc \in Code : pc < HalfWord

-----------------------------------------------------------------------------
(* What the helpers of cpu.c do to a machine with mode s, user stack u and *)
(* supervisor stack i.                                                     *)

Pointers(u, i) == [mode \in {0, 1} |-> IF mode = 1 THEN i ELSE u]

Machine(s, sp, pc, regs, d0, mem) ==
    [s |-> s, sp |-> sp, pc |-> pc, regs |-> regs, d0 |-> d0, mem |-> mem]

LEMMA PointersSet ==
  ASSUME NEW u, NEW i, NEW x
  PROVE  /\ Pointers(u, i)[0] = u /\ Pointers(u, i)[1] = i
         /\ [Pointers(u, i) EXCEPT ![0] = x] = Pointers(x, i)
         /\ [Pointers(u, i) EXCEPT ![1] = x] = Pointers(u, x)
<1>1. Pointers(u, i)[0] = u
  BY DEF Pointers
<1>2. Pointers(u, i)[1] = i
  BY DEF Pointers
<1>3. [Pointers(u, i) EXCEPT ![0] = x] = Pointers(x, i)
  <2>1. \A mode \in {0, 1} : [Pointers(u, i) EXCEPT ![0] = x][mode] = Pointers(x, i)[mode]
    BY DEF Pointers
  <2> QED
    BY <2>1 DEF Pointers
<1>4. [Pointers(u, i) EXCEPT ![1] = x] = Pointers(u, x)
  BY DEF Pointers
<1> QED
  BY <1>1, <1>2, <1>3, <1>4

User(u, i, pc, regs, d0, mem) == Machine(0, Pointers(u, i), pc, regs, d0, mem)

Super(u, i, pc, regs, d0, mem) == Machine(1, Pointers(u, i), pc, regs, d0, mem)

LEMMA Modes ==
  ASSUME NEW u, NEW i, NEW pc, NEW regs, NEW d0, NEW mem
  PROVE  /\ A7(User(u, i, pc, regs, d0, mem)) = u
         /\ A7(Super(u, i, pc, regs, d0, mem)) = i
         /\ enable_supervisor_mode(User(u, i, pc, regs, d0, mem))
               = Super(u, i, pc, regs, d0, mem)
         /\ enable_supervisor_mode(Super(u, i, pc, regs, d0, mem))
               = Super(u, i, pc, regs, d0, mem)
         /\ disable_supervisor_mode(Super(u, i, pc, regs, d0, mem))
               = User(u, i, pc, regs, d0, mem)
  BY DEF enable_supervisor_mode, disable_supervisor_mode, A7,
         Machine, User, Super, Pointers

LEMMA Setters ==
  ASSUME NEW u, NEW i, NEW pc, NEW regs, NEW d0, NEW mem, NEW x
  PROVE  /\ SetPC(User(u, i, pc, regs, d0, mem), x) = User(u, i, x, regs, d0, mem)
         /\ SetPC(Super(u, i, pc, regs, d0, mem), x) = Super(u, i, x, regs, d0, mem)
         /\ SetA7(User(u, i, pc, regs, d0, mem), x) = User(x, i, pc, regs, d0, mem)
         /\ SetUSP(Super(u, i, pc, regs, d0, mem), x) = Super(x, i, pc, regs, d0, mem)
         /\ SetA7(Super(u, i, pc, regs, d0, mem), x) = Super(u, x, pc, regs, d0, mem)
<1> DEFINE sp == Pointers(u, i)
<1>1. [sp EXCEPT ![0] = x] = Pointers(x, i) /\ [sp EXCEPT ![1] = x] = Pointers(u, x)
  BY PointersSet
<1> HIDE DEF sp
<1>2. /\ SetPC(Machine(0, sp, pc, regs, d0, mem), x) = Machine(0, sp, x, regs, d0, mem)
      /\ SetPC(Machine(1, sp, pc, regs, d0, mem), x) = Machine(1, sp, x, regs, d0, mem)
  BY DEF SetPC, Machine
<1>3. /\ SetA7(Machine(0, sp, pc, regs, d0, mem), x)
           = Machine(0, [sp EXCEPT ![0] = x], pc, regs, d0, mem)
      /\ SetA7(Machine(1, sp, pc, regs, d0, mem), x)
           = Machine(1, [sp EXCEPT ![1] = x], pc, regs, d0, mem)
  BY DEF SetA7, Machine
<1>4. SetUSP(Machine(1, sp, pc, regs, d0, mem), x)
        = Machine(1, [sp EXCEPT ![0] = x], pc, regs, d0, mem)
  BY DEF SetUSP, Machine
<1> QED
  BY <1>1, <1>2, <1>3, <1>4 DEF User, Super, sp

LEMMA Drops ==
  ASSUME NEW u, NEW i, NEW pc, NEW regs, NEW d0, NEW mem
  PROVE  /\ DropArguments(User(u, i, pc, regs, d0, mem)) = User(u + 1, i, pc, regs, d0, mem)
         /\ DropArguments(Super(u, i, pc, regs, d0, mem)) = Super(u, i + 1, pc, regs, d0, mem)
         /\ pop_u32(Super(u, i, pc, regs, d0, mem)) = Super(u, i + 1, pc, regs, d0, mem)
  BY Modes, Setters DEF DropArguments, pop_u32

Put(mem, slot, x) == [mem EXCEPT ![slot] = x]

LEMMA Pushes ==
  ASSUME NEW u, NEW i, NEW pc, NEW regs, NEW d0, NEW mem, NEW x
  PROVE  /\ push_u32(User(u, i, pc, regs, d0, mem), x)
               = User(u - 1, i, pc, regs, d0, Put(mem, u - 1, x))
         /\ push_u32(Super(u, i, pc, regs, d0, mem), x)
               = Super(u, i - 1, pc, regs, d0, Put(mem, i - 1, x))
<1>1. push_u32(User(u, i, pc, regs, d0, mem), x)
        = [User(u - 1, i, pc, regs, d0, mem) EXCEPT !.mem = [@ EXCEPT ![u - 1] = x]]
  BY Modes, Setters DEF push_u32
<1>2. push_u32(Super(u, i, pc, regs, d0, mem), x)
        = [Super(u, i - 1, pc, regs, d0, mem) EXCEPT !.mem = [@ EXCEPT ![i - 1] = x]]
  BY Modes, Setters DEF push_u32
<1> QED
  BY <1>1, <1>2 DEF User, Super, Machine, Put

LEMMA Fields ==
  ASSUME NEW u, NEW i, NEW pc, NEW regs, NEW d0, NEW mem
  PROVE  /\ User(u, i, pc, regs, d0, mem).s = 0
         /\ User(u, i, pc, regs, d0, mem).sp = Pointers(u, i)
         /\ User(u, i, pc, regs, d0, mem).pc = pc
         /\ User(u, i, pc, regs, d0, mem).regs = regs
         /\ User(u, i, pc, regs, d0, mem).d0 = d0
         /\ User(u, i, pc, regs, d0, mem).mem = mem
         /\ Super(u, i, pc, regs, d0, mem).s = 1
         /\ Super(u, i, pc, regs, d0, mem).sp = Pointers(u, i)
         /\ Super(u, i, pc, regs, d0, mem).pc = pc
         /\ Super(u, i, pc, regs, d0, mem).regs = regs
         /\ Super(u, i, pc, regs, d0, mem).d0 = d0
         /\ Super(u, i, pc, regs, d0, mem).mem = mem
  BY DEF User, Super, Machine

Computed(c, regs, d0, pc) == [c EXCEPT !.regs = regs, !.d0 = d0, !.pc = pc]

LEMMA Computes ==
  ASSUME NEW s, NEW sp, NEW pc, NEW regs, NEW d0, NEW mem, NEW pc1, NEW regs1, NEW d01
  PROVE  Computed(Machine(s, sp, pc, regs, d0, mem), regs1, d01, pc1)
           = Machine(s, sp, pc1, regs1, d01, mem)
<1> DEFINE c  == Machine(s, sp, pc, regs, d0, mem)
           c1 == Machine(s, sp, pc, regs1, d0, mem)
           c2 == Machine(s, sp, pc, regs1, d01, mem)
<1>1. [c EXCEPT !.regs = regs1] = c1
  BY DEF Machine
<1>2. [c1 EXCEPT !.d0 = d01] = c2
  BY DEF Machine
<1>3. [c2 EXCEPT !.pc = pc1] = Machine(s, sp, pc1, regs1, d01, mem)
  BY DEF Machine
<1> HIDE DEF c, c1, c2
<1>4. Computed(c, regs1, d01, pc1) = Machine(s, sp, pc1, regs1, d01, mem)
  BY <1>1, <1>2, <1>3 DEF Computed
<1> QED
  BY <1>4 DEF c

-----------------------------------------------------------------------------
(* What the calls do to it.                                                *)

LEMMA SupexecCalls ==
  ASSUME NEW u, NEW i, NEW j, NEW k, j = i - 1, k = j - 1,
         NEW pc, NEW regs, NEW d0, NEW mem, NEW lv0
  PROVE  XBIOS_Supexec(User(u, i, pc, regs, d0, mem), lv0)
           = Super(u, k, lv0, regs, 0, Put(Put(mem, j, pc), k, Magic))
<1> DEFINE c  == User(u, i, pc, regs, d0, mem)
           m1 == Put(mem, j, pc)
           m2 == Put(m1, k, Magic)
<1>1. enable_supervisor_mode(c) = Super(u, i, pc, regs, d0, mem) /\ c.pc = pc
  BY Modes, Fields
<1>2. push_u32(Super(u, i, pc, regs, d0, mem), pc) = Super(u, j, pc, regs, d0, m1)
  BY Pushes
<1> HIDE DEF m1
<1>3. push_u32(Super(u, j, pc, regs, d0, m1), Magic) = Super(u, k, pc, regs, d0, m2)
  BY Pushes
<1> HIDE DEF c, m2
<1>4. SetPC(Super(u, k, pc, regs, d0, m2), lv0) = Super(u, k, lv0, regs, d0, m2)
  BY Setters
<1>5. [Super(u, k, lv0, regs, d0, m2) EXCEPT !.d0 = 0] = Super(u, k, lv0, regs, 0, m2)
  BY DEF Super, Machine
<1>6. XBIOS_Supexec(c, lv0) = Super(u, k, lv0, regs, 0, m2)
  BY <1>1, <1>2, <1>3, <1>4, <1>5 DEF XBIOS_Supexec
<1> QED
  BY <1>6 DEF c, m1, m2

LEMMA SuperEnters ==
  ASSUME NEW u, NEW i, NEW pc, NEW regs, NEW d0, NEW mem
  PROVE  GEMDOS_Super(User(u, i, pc, regs, d0, mem), 0) = Super(u, i, pc, regs, u, mem)
<1> DEFINE c == User(u, i, pc, regs, d0, mem)
<1>1. enable_supervisor_mode(c) = Super(u, i, pc, regs, d0, mem) /\ A7(c) = u
  BY Modes
<1>2. [Super(u, i, pc, regs, d0, mem) EXCEPT !.d0 = u] = Super(u, i, pc, regs, u, mem)
  BY DEF Super, Machine
<1> HIDE DEF c
<1>3. GEMDOS_Super(c, 0) = [enable_supervisor_mode(c) EXCEPT !.d0 = A7(c)]
  BY DEF GEMDOS_Super
<1> QED
  BY <1>1, <1>2, <1>3 DEF c

LEMMA SuperLeaves ==
  ASSUME NEW u, u # 0, u # 1, NEW i, NEW pc, NEW regs, NEW d0, NEW mem
  PROVE  GEMDOS_Super(Super(u, i, pc, regs, d0, mem), u) = User(u, i, pc, regs, 0, mem)
<1>1. disable_supervisor_mode(SetUSP(Super(u, i, pc, regs, d0, mem), u))
        = User(u, i, pc, regs, d0, mem)
  BY Modes, Setters
<1>2. [User(u, i, pc, regs, d0, mem) EXCEPT !.d0 = 0] = User(u, i, pc, regs, 0, mem)
  BY DEF User, Machine
<1> QED
  BY <1>1, <1>2 DEF GEMDOS_Super

-----------------------------------------------------------------------------
(* Where a plain program can be.                                           *)

(* In control, in user mode.                                               *)
InUser(mem) ==
    /\ \E pc \in Code, regs \in Regs, d0 \in Nat : m = User(USP, ISP, pc, regs, d0, mem)
    /\ calls = <<>> /\ back = FALSE /\ old = -1

(* Between Super(0) and Super(old): the arguments of the first call still  *)
(* lie on the user stack, and their place on the other one has been given  *)
(* up.                                                                     *)
BetweenSupers(mem) ==
    /\ \E pc \in Code, regs \in Regs, d0 \in Nat :
          m = Super(USP - 1, ISP + 1, pc, regs, d0, mem)
    /\ calls = <<>> /\ back = FALSE /\ old = USP - 1

(* The call not yet returned from.                                         *)
Caller(ret) == [s |-> 0, sp |-> Pointers(USP - 1, ISP), pc |-> ret, regs |-> saved]

(* In the subroutine, which will find the magic address on its stack.      *)
InSubroutine(mem, ret) ==
    /\ \E pc \in Code, regs \in Regs, d0 \in Nat :
          m = Super(USP - 1, ISP - 2, pc, regs, d0, mem)
    /\ mem[ISP - 2] = Magic /\ mem[ISP - 1] = ret
    /\ calls = <<Caller(ret)>> /\ back = FALSE /\ old = -1

AtMagic(mem, ret) ==
    /\ \E regs \in Regs, d0 \in Nat : m = Super(USP - 1, ISP - 1, Magic, regs, d0, mem)
    /\ mem[ISP - 1] = ret
    /\ calls = <<Caller(ret)>> /\ back = FALSE /\ old = -1

BehindTrap(mem, ret) ==
    /\ \E d0 \in Nat : m = User(USP - 1, ISP, ret, saved, d0, mem)
    /\ calls = <<>> /\ back = TRUE /\ old = -1

Inv ==
    /\ saved \in Regs /\ verbose \in BOOLEAN
    /\ \E mem \in [0 .. USP -> Nat], ret \in Code :
          InUser(mem) \/ BetweenSupers(mem) \/ InSubroutine(mem, ret)
            \/ AtMagic(mem, ret) \/ BehindTrap(mem, ret)

LEMMA PutType ==
  ASSUME NEW mem \in [0 .. USP -> Nat], NEW slot \in 0 .. USP, NEW x \in Nat
  PROVE  Put(mem, slot, x) \in [0 .. USP -> Nat]
  BY DEF Put

LEMMA Initially == Init => Inv
<1> SUFFICES ASSUME Init PROVE Inv
  OBVIOUS
<1> DEFINE pc   == CHOOSE pc \in Code : TRUE
           regs == CHOOSE r \in Regs : TRUE
           mem  == [slot \in 0 .. USP |-> 0]
<1>1. pc \in Code /\ regs \in Regs
  BY AddressAssumption
<1>2. mem \in [0 .. USP -> Nat]
  OBVIOUS
<1> HIDE DEF pc, regs, mem
<1>3. m = User(USP, ISP, pc, regs, 0, mem)
  BY DEF Init, User, Machine, Pointers, pc, regs, mem
<1>4. saved \in Regs /\ verbose \in BOOLEAN /\ calls = <<>> /\ back = FALSE /\ old = -1
  BY <1>1 DEF Init, regs
<1>5. InUser(mem)
  BY <1>1, <1>3, <1>4 DEF InUser
<1> QED
  BY <1>1, <1>2, <1>4, <1>5 DEF Inv

-----------------------------------------------------------------------------
(* What each place tells of the machine.                                   *)

LEMMA PlaceOfUser ==
  ASSUME NEW mem, InUser(mem)
  PROVE  /\ m.s = 0 /\ m.pc \in Code /\ m.sp = Pointers(USP, ISP) /\ m.mem = mem
         /\ m.regs \in Regs /\ m.d0 \in Nat
  BY Fields DEF InUser

LEMMA PlaceBetween ==
  ASSUME NEW mem, BetweenSupers(mem)
  PROVE  /\ m.s = 1 /\ m.pc \in Code /\ m.sp = Pointers(USP - 1, ISP + 1) /\ m.mem = mem
         /\ m.regs \in Regs /\ m.d0 \in Nat
<1> DEFINE u == USP - 1
           i == ISP + 1
<1> HIDE DEF u, i
<1>1. PICK pc \in Code, regs \in Regs, d0 \in Nat : m = Super(u, i, pc, regs, d0, mem)
  BY DEF BetweenSupers, u, i
<1> QED
  BY <1>1, Fields DEF u, i

LEMMA PlaceInSubroutine ==
  ASSUME NEW mem, NEW ret, InSubroutine(mem, ret)
  PROVE  /\ m.s = 1 /\ m.pc \in Code /\ m.sp = Pointers(USP - 1, ISP - 2) /\ m.mem = mem
         /\ m.regs \in Regs /\ m.d0 \in Nat
<1> DEFINE u == USP - 1
           i == ISP - 2
<1> HIDE DEF u, i
<1>1. PICK pc \in Code, regs \in Regs, d0 \in Nat : m = Super(u, i, pc, regs, d0, mem)
  BY DEF InSubroutine, u, i
<1> QED
  BY <1>1, Fields DEF u, i

LEMMA PlaceAtMagic ==
  ASSUME NEW mem, NEW ret, AtMagic(mem, ret)
  PROVE  /\ m.s = 1 /\ m.pc = Magic /\ m.sp = Pointers(USP - 1, ISP - 1) /\ m.mem = mem
         /\ m.regs \in Regs /\ m.d0 \in Nat
<1> DEFINE u == USP - 1
           i == ISP - 1
<1> HIDE DEF u, i
<1>1. PICK regs \in Regs, d0 \in Nat : m = Super(u, i, Magic, regs, d0, mem)
  BY DEF AtMagic, u, i
<1> QED
  BY <1>1, Fields DEF u, i

LEMMA PlaceBehindTrap ==
  ASSUME NEW mem, NEW ret, BehindTrap(mem, ret), saved \in Regs
  PROVE  /\ m.s = 0 /\ m.pc = ret /\ m.sp = Pointers(USP - 1, ISP) /\ m.mem = mem
         /\ m.regs \in Regs /\ m.d0 \in Nat
<1> DEFINE u == USP - 1
<1> HIDE DEF u
<1>1. PICK d0 \in Nat : m = User(u, ISP, ret, saved, d0, mem)
  BY DEF BehindTrap, u
<1> QED
  BY <1>1, Fields DEF u
-----------------------------------------------------------------------------
(* One lemma for each action.                                              *)

LEMMA SupexecStep ==
  ASSUME Plain, Inv, NEW lv0 \in Code, NEW ret \in Code, Supexec(lv0, ret)
  PROVE  Inv' /\ calls' = Append(calls, Last(calls'))
<1> PICK mem \in [0 .. USP -> Nat] : InUser(mem)
  <2>1. m.s = 0 /\ ~ back /\ m.pc \in Code
    BY DEF Supexec, InProgram, Plain
  <2> QED
    BY <2>1, PlaceBetween, PlaceInSubroutine, PlaceAtMagic DEF Inv, BehindTrap
<1> PICK pc \in Code, regs \in Regs, d0 \in Nat : m = User(USP, ISP, pc, regs, d0, mem)
  BY DEF InUser
<1> DEFINE u    == USP - 1
           j    == ISP - 1
           k    == ISP - 2
           mem1 == Put(mem, u, Arguments)
           mem3 == Put(Put(mem1, j, ret), k, Magic)
           c    == User(u, ISP, pc, regs, d0, mem1)
<1>1. /\ PushArguments(m) = c
      /\ m.s = 0 /\ m.regs = regs
  BY Pushes, Fields DEF PushArguments
<1>2. c.sp = Pointers(u, ISP)
  BY Fields
<1>3. SetPC(c, ret) = User(u, ISP, ret, regs, d0, mem1)
  BY Setters
<1>4. u \in 0 .. USP /\ j \in 0 .. USP /\ k \in 0 .. USP /\ k # j /\ Magic \in Nat
      /\ ret \in Nat /\ k = j - 1
  BY AddressAssumption
<1> HIDE DEF u, j, k, c
<1>5. mem1 \in [0 .. USP -> Nat]
  BY <1>4, PutType DEF Arguments
<1> HIDE DEF mem1
<1>7. mem3 \in [0 .. USP -> Nat] /\ mem3[k] = Magic /\ mem3[j] = ret
  BY <1>4, <1>5 DEF Put
<1>8. XBIOS_Supexec(User(u, ISP, ret, regs, d0, mem1), lv0)
        = Super(u, k, lv0, regs, 0, mem3)
  BY <1>4, SupexecCalls DEF j, mem3
<1> HIDE DEF mem3
<1>9. /\ m' = Super(u, k, lv0, regs, 0, mem3)
      /\ saved' = regs
      /\ calls' = <<[s |-> 0, sp |-> Pointers(u, ISP), pc |-> ret, regs |-> regs]>>
      /\ UNCHANGED <<verbose, back, old>>
  <2>1. calls = <<>>
    BY DEF InUser
  <2> QED
    BY <1>1, <1>2, <1>3, <1>8, <2>1 DEF Supexec
<1>10. InSubroutine(mem3, ret)'
  BY <1>7, <1>9, 0 \in Nat DEF InSubroutine, InUser, Caller, u, j, k
<1>11. calls' = Append(calls, Last(calls'))
  BY <1>9 DEF Last, InUser
<1> QED
  BY <1>7, <1>9, <1>10, <1>11 DEF Inv

LEMMA ComputeStep ==
  ASSUME Inv, NEW regs \in Regs, NEW d0 \in Results, NEW pc \in Code, Compute(regs, d0, pc)
  PROVE  Inv' /\ UNCHANGED calls
<1>1. UNCHANGED <<saved, verbose, calls, back, old>> /\ d0 \in Nat
  BY AddressAssumption DEF Compute
<1>2. \A u, i, pc0, regs0, d00, mem :
         /\ m = User(u, i, pc0, regs0, d00, mem) => m' = User(u, i, pc, regs, d0, mem)
         /\ m = Super(u, i, pc0, regs0, d00, mem) => m' = Super(u, i, pc, regs, d0, mem)
  <2> TAKE u, i, pc0, regs0, d00, mem
  <2>1. Computed(User(u, i, pc0, regs0, d00, mem), regs, d0, pc)
          = User(u, i, pc, regs, d0, mem)
    BY Computes DEF User
  <2>2. Computed(Super(u, i, pc0, regs0, d00, mem), regs, d0, pc)
          = Super(u, i, pc, regs, d0, mem)
    BY Computes DEF Super
  <2>3. m' = Computed(m, regs, d0, pc)
    BY DEF Compute, Computed
  <2> QED
    BY <2>1, <2>2, <2>3
<1>3. PICK mem \in [0 .. USP -> Nat], ret \in Code :
         InUser(mem) \/ BetweenSupers(mem) \/ InSubroutine(mem, ret)
  <2>1. ~ back /\ m.pc \in Code
    BY DEF Compute, InProgram
  <2> QED
    BY <2>1, PlaceAtMagic, AddressAssumption DEF Inv, BehindTrap
<1>4. CASE InUser(mem)
  BY <1>1, <1>2, <1>4 DEF InUser, Inv
<1>5. CASE BetweenSupers(mem)
  <2> DEFINE u == USP - 1
             i == ISP + 1
  <2> HIDE DEF u, i
  <2>1. \E pc0, regs0, d00 : m = Super(u, i, pc0, regs0, d00, mem)
    BY <1>5 DEF BetweenSupers, u, i
  <2>2. m' = Super(u, i, pc, regs, d0, mem)
    BY <1>2, <2>1
  <2>3. BetweenSupers(mem)'
    BY <1>1, <1>5, <2>2 DEF BetweenSupers, u, i
  <2> QED
    BY <1>1, <2>3 DEF Inv
<1>6. CASE InSubroutine(mem, ret)
  <2> DEFINE u == USP - 1
             i == ISP - 2
  <2> HIDE DEF u, i
  <2>1. \E pc0, regs0, d00 : m = Super(u, i, pc0, regs0, d00, mem)
    BY <1>6 DEF InSubroutine, u, i
  <2>2. m' = Super(u, i, pc, regs, d0, mem)
    BY <1>2, <2>1
  <2>3. InSubroutine(mem, ret)'
    BY <1>1, <1>6, <2>2 DEF InSubroutine, Caller, u, i
  <2> QED
    BY <1>1, <2>3 DEF Inv
<1> QED
  BY <1>1, <1>3, <1>4, <1>5, <1>6

LEMMA RtsStep ==
  ASSUME Inv, Rts
  PROVE  Inv' /\ UNCHANGED calls /\ m'.pc = Magic
<1>1. PICK mem \in [0 .. USP -> Nat], ret \in Code : InSubroutine(mem, ret)
  <2>1. ~ back /\ m.pc \in Code /\ calls # <<>>
    BY DEF Rts, InProgram
  <2> QED
    BY <2>1, PlaceAtMagic, AddressAssumption DEF Inv, InUser, BetweenSupers, BehindTrap
<1> DEFINE u == USP - 1
           k == ISP - 2
           j == ISP - 1
<1>2. k + 1 = j
  BY AddressAssumption
<1> HIDE DEF u, k, j
<1>3. PICK pc \in Code, regs \in Regs, d0 \in Nat : m = Super(u, k, pc, regs, d0, mem)
  BY <1>1 DEF InSubroutine, u, k
<1>4. A7(m) = k /\ m.mem[A7(m)] = Magic
  <2>1. A7(m) = k /\ m.mem = mem
    BY <1>3, Modes, Fields
  <2>2. mem[k] = Magic
    BY <1>1 DEF InSubroutine, k
  <2> QED
    BY <2>1, <2>2
<1>5. m' = Super(u, j, Magic, regs, d0, mem)
  <2>1. SetA7(m, k + 1) = Super(u, j, pc, regs, d0, mem)
    BY <1>2, <1>3, Setters
  <2>2. SetPC(Super(u, j, pc, regs, d0, mem), Magic) = Super(u, j, Magic, regs, d0, mem)
    BY Setters
  <2> QED
    BY <1>4, <2>1, <2>2 DEF Rts
<1>6. UNCHANGED <<saved, verbose, calls, back, old>>
  BY DEF Rts
<1>7. AtMagic(mem, ret)'
  BY <1>1, <1>5, <1>6 DEF AtMagic, InSubroutine, Caller, u, j
<1>8. m'.pc = Magic
  BY <1>5, Fields
<1> QED
  BY <1>6, <1>7, <1>8 DEF Inv

LEMMA ResumeStep ==
  ASSUME Inv, Resume
  PROVE  Inv' /\ UNCHANGED calls
<1>1. PICK mem \in [0 .. USP -> Nat], ret \in Code : BehindTrap(mem, ret)
  BY DEF Resume, Inv, InUser, BetweenSupers, InSubroutine, AtMagic
<1>2. UNCHANGED <<saved, verbose, calls, old>> /\ back' = FALSE /\ saved \in Regs
  BY DEF Resume, Inv
<1> DEFINE u == USP - 1
<1>3. u + 1 = USP
  BY AddressAssumption
<1> HIDE DEF u
<1>4. PICK d0 \in Nat : m = User(u, ISP, ret, saved, d0, mem)
  BY <1>1 DEF BehindTrap, u
<1>5. m' = User(USP, ISP, ret, saved, d0, mem)
  BY <1>3, <1>4, Drops DEF Resume
<1>6. InUser(mem)'
  BY <1>1, <1>2, <1>5 DEF InUser, BehindTrap
<1> QED
  BY <1>2, <1>6 DEF Inv

LEMMA SuperEnterStep ==
  ASSUME Inv, NEW pc \in Code, SuperEnter(pc)
  PROVE  Inv' /\ UNCHANGED calls
<1> PICK mem \in [0 .. USP -> Nat] : InUser(mem)
  <2>1. m.s = 0 /\ ~ back
    BY DEF SuperEnter, InProgram
  <2> QED
    BY <2>1, PlaceBetween, PlaceInSubroutine, PlaceAtMagic DEF Inv, BehindTrap
<1> PICK pc0 \in Code, regs \in Regs, d0 \in Nat : m = User(USP, ISP, pc0, regs, d0, mem)
  BY DEF InUser
<1> DEFINE u    == USP - 1
           i    == ISP + 1
           mem1 == Put(mem, u, Arguments)
           c    == Super(u, ISP, pc, regs, u, mem1)
<1>1. u \in 0 .. USP /\ u \in Nat
  BY AddressAssumption
<1>2. PushArguments(m) = User(u, ISP, pc0, regs, d0, mem1)
  BY Pushes DEF PushArguments
<1> HIDE DEF u
<1>3. mem1 \in [0 .. USP -> Nat]
  BY <1>1, PutType DEF Arguments
<1> HIDE DEF mem1
<1>4. GEMDOS_Super(SetPC(PushArguments(m), pc), 0) = c
  <2>1. SetPC(PushArguments(m), pc) = User(u, ISP, pc, regs, d0, mem1)
    BY <1>2, Setters
  <2> QED
    BY <2>1, SuperEnters
<1>5. DropArguments(c) = Super(u, i, pc, regs, u, mem1) /\ c.d0 = u
  BY Drops, Fields
<1> HIDE DEF c, i
<1>6. [Super(u, i, pc, regs, u, mem1) EXCEPT !.d0 = 0] = Super(u, i, pc, regs, 0, mem1)
  BY DEF Super, Machine
<1>7. /\ m' = Super(u, i, pc, regs, 0, mem1)
      /\ old' = u
      /\ UNCHANGED <<saved, verbose, calls, back>>
  BY <1>4, <1>5, <1>6 DEF SuperEnter
<1>8. BetweenSupers(mem1)'
  BY <1>7, 0 \in Nat DEF BetweenSupers, InUser, u, i
<1> QED
  BY <1>3, <1>7, <1>8 DEF Inv

LEMMA SuperLeaveStep ==
  ASSUME Inv, NEW pc \in Code, SuperLeave(pc)
  PROVE  Inv' /\ UNCHANGED calls
<1> PICK mem \in [0 .. USP -> Nat] : BetweenSupers(mem)
  BY DEF SuperLeave, Inv, InUser, InSubroutine, AtMagic, BehindTrap
<1> DEFINE u    == USP - 1
           i    == ISP + 1
           mem1 == Put(mem, ISP, Arguments)
<1>1. i - 1 = ISP /\ u + 1 = USP /\ ISP \in 0 .. USP /\ u # 0 /\ u # 1 /\ u \in Nat
  BY AddressAssumption
<1> HIDE DEF u, i
<1> PICK pc0 \in Code, regs \in Regs, d0 \in Nat : m = Super(u, i, pc0, regs, d0, mem)
  BY DEF BetweenSupers, u, i
<1>2. mem1 \in [0 .. USP -> Nat]
  BY <1>1, PutType DEF Arguments
<1>3. PushArguments(m) = Super(u, ISP, pc0, regs, d0, mem1)
  BY <1>1, Pushes DEF PushArguments
<1> HIDE DEF mem1
<1>4. old = u
  BY DEF BetweenSupers, u
<1>5. SetPC(PushArguments(m), pc) = Super(u, ISP, pc, regs, d0, mem1)
  BY <1>3, Setters
<1>6. GEMDOS_Super(Super(u, ISP, pc, regs, d0, mem1), u) = User(u, ISP, pc, regs, 0, mem1)
  BY <1>1, SuperLeaves
<1>7. DropArguments(User(u, ISP, pc, regs, 0, mem1)) = User(USP, ISP, pc, regs, 0, mem1)
  BY <1>1, Drops
<1>8. /\ m' = User(USP, ISP, pc, regs, 0, mem1)
      /\ old' = -1
      /\ UNCHANGED <<saved, verbose, calls, back>>
  BY <1>4, <1>5, <1>6, <1>7 DEF SuperLeave
<1>9. InUser(mem1)'
  BY <1>8, 0 \in Nat DEF InUser, BetweenSupers
<1> QED
  BY <1>2, <1>8, <1>9 DEF Inv

(* The read of the magic address brings the program back behind the trap.  *)
LEMMA MagicStep ==
  ASSUME Plain, Inv, MagicRead
  PROVE  /\ Inv'
         /\ m'.pc = Last(calls).pc /\ m'.s = Last(calls).s
         /\ m'.sp = Last(calls).sp /\ m'.regs = Last(calls).regs
<1>1. PICK mem \in [0 .. USP -> Nat], ret \in Code : AtMagic(mem, ret)
  <2>1. m.pc = Magic /\ m.s = 1
    BY DEF MagicRead
  <2> QED
    BY <2>1, PlaceOfUser, PlaceBetween, PlaceInSubroutine, PlaceBehindTrap,
       AddressAssumption DEF Inv
<1> DEFINE u == USP - 1
           j == ISP - 1
<1>2. j + 1 = ISP
  BY AddressAssumption
<1> HIDE DEF u, j
<1>3. PICK regs \in Regs, d0 \in Nat : m = Super(u, j, Magic, regs, d0, mem)
  BY <1>1 DEF AtMagic, u, j
<1>4. mem[j] = ret
  BY <1>1 DEF AtMagic, j
<1>5. ret % HalfWord = ret
  BY AddressAssumption DEF Plain
<1>6. m' = User(u, ISP, ret, saved, d0, mem)
  <2>1. pop_u32(m) = Super(u, ISP, Magic, regs, d0, mem)
    BY <1>2, <1>3, Drops
  <2>2. popped_u32(m) = ret
    <3>1. A7(m) = j /\ m.mem = mem
      BY <1>3, Modes, Fields
    <3>2. m.mem[A7(m)] = ret
      BY <1>4, <3>1
    <3> QED
      BY <1>5, <3>2 DEF popped_u32
  <2>3. SetPC(disable_supervisor_mode(Super(u, ISP, Magic, regs, d0, mem)), ret)
          = User(u, ISP, ret, regs, d0, mem)
    BY Modes, Setters
  <2>4. [User(u, ISP, ret, regs, d0, mem) EXCEPT !.regs = saved]
          = User(u, ISP, ret, saved, d0, mem)
    BY DEF User, Machine
  <2>5. m' = magic_xbios_supexec_read(m)
    BY DEF MagicRead
  <2> QED
    BY <2>1, <2>2, <2>3, <2>4, <2>5 DEF magic_xbios_supexec_read
<1>7. calls = <<Caller(ret)>> /\ old = -1
  BY <1>1 DEF AtMagic
<1>8. calls' = <<>> /\ back' = TRUE /\ UNCHANGED <<saved, verbose, old>>
  BY <1>7 DEF MagicRead, Front
<1>9. BehindTrap(mem, ret)'
  BY <1>6, <1>7, <1>8 DEF BehindTrap, u
<1>10. Inv'
  BY <1>8, <1>9 DEF Inv
<1>11. Last(calls) = Caller(ret)
  BY <1>7 DEF Last
<1>12. /\ m'.pc = ret /\ m'.s = 0 /\ m'.sp = Pointers(u, ISP) /\ m'.regs = saved
  BY <1>6, Fields
<1>13. /\ Caller(ret).pc = ret /\ Caller(ret).s = 0
       /\ Caller(ret).sp = Pointers(u, ISP) /\ Caller(ret).regs = saved
  BY DEF Caller, u
<1> QED
  BY <1>10, <1>11, <1>12, <1>13

-----------------------------------------------------------------------------
(* The invariant.                                                          *)

(* Calls that stay as they are return from nothing.                        *)
LEMMA LengthsKept ==
  ASSUME Inv, UNCHANGED calls
  PROVE  ~ Returning
<1>1. Len(calls) \in Nat
  BY DEF Inv, InUser, BetweenSupers, InSubroutine, AtMagic, BehindTrap
<1> QED
  BY <1>1 DEF Returning

(* A step of a plain program keeps it; a step that returns from Supexec    *)
(* leaves the machine as the caller had it.                                *)
LEMMA Steps ==
  ASSUME Plain, Inv, [Next]_vars
  PROVE  /\ Inv'
         /\ Returning => /\ m'.pc = Last(calls).pc /\ m'.s = Last(calls).s
                         /\ m'.sp = Last(calls).sp /\ m'.regs = Last(calls).regs
<1>1. ASSUME NEW lv0 \in Code, NEW ret \in Code, Supexec(lv0, ret)
      PROVE  Inv' /\ ~ Returning
  <2>1. Inv' /\ calls' = Append(calls, Last(calls'))
    BY <1>1, SupexecStep
  <2>2. calls = <<>>
    <3>1. m.s = 0 /\ ~ back
      BY <1>1 DEF Supexec, InProgram, Plain
    <3> QED
      BY <3>1, PlaceInSubroutine, PlaceAtMagic DEF Inv, InUser, BetweenSupers, BehindTrap
  <2>3. Len(calls) = 0 /\ Len(calls') = 1
    BY <2>1, <2>2
  <2> QED
    BY <2>1, <2>3 DEF Returning
<1>2. ASSUME NEW regs \in Regs, NEW d0 \in Results, NEW pc \in Code, Compute(regs, d0, pc)
      PROVE  Inv' /\ UNCHANGED calls
  BY <1>2, ComputeStep
<1>3. ASSUME Rts PROVE Inv' /\ UNCHANGED calls
  BY <1>3, RtsStep
<1>4. ASSUME Resume PROVE Inv' /\ UNCHANGED calls
  BY <1>4, ResumeStep
<1>5. ASSUME NEW pc \in Code, SuperEnter(pc)
      PROVE  Inv' /\ UNCHANGED calls
  BY <1>5, SuperEnterStep
<1>6. ASSUME NEW pc \in Code, SuperLeave(pc)
      PROVE  Inv' /\ UNCHANGED calls
  BY <1>6, SuperLeaveStep
<1>7. CASE MagicRead
  BY <1>7, MagicStep
<1>8. ASSUME UNCHANGED vars PROVE Inv' /\ UNCHANGED calls
  BY <1>8 DEF Inv, vars, InUser, BetweenSupers, InSubroutine, AtMagic, BehindTrap, Caller
<1> QED
  BY <1>1, <1>2, <1>3, <1>4, <1>5, <1>6, <1>7, <1>8, LengthsKept
     DEF Next, cpu_instr_callback, Fetch

(* A plain program only ever is in one of the five places.                 *)
THEOREM PlacesAreAll == ASSUME Plain PROVE Spec => []Inv
<1>1. Inv /\ [Next]_vars => Inv'
  BY Steps
<1> QED
  BY <1>1, Initially, PTL DEF Spec

-----------------------------------------------------------------------------
(* The properties of the run.                                              *)

LEMMA InvType == Inv => TypeOK
<1> SUFFICES ASSUME Inv PROVE TypeOK
  OBVIOUS
<1> PICK mem \in [0 .. USP -> Nat], ret \in Code :
          InUser(mem) \/ BetweenSupers(mem) \/ InSubroutine(mem, ret)
            \/ AtMagic(mem, ret) \/ BehindTrap(mem, ret)
  BY DEF Inv
<1>1. saved \in Regs /\ verbose \in BOOLEAN
  BY DEF Inv
<1>2. back \in BOOLEAN
  <2>1. back = FALSE \/ back = TRUE
    BY DEF InUser, BetweenSupers, InSubroutine, AtMagic, BehindTrap
  <2> QED
    BY <2>1, Zenon
<1>6. old \in Nat \cup {-1}
  <2>1. old = -1 \/ old = USP - 1
    BY DEF InUser, BetweenSupers, InSubroutine, AtMagic, BehindTrap
  <2> QED
    BY <2>1, AddressAssumption
<1>3. m.s \in {0, 1} /\ m.pc \in Nat /\ m.regs \in Regs /\ m.d0 \in Nat /\ m.mem = mem
  BY <1>1, PlaceOfUser, PlaceBetween, PlaceInSubroutine, PlaceAtMagic, PlaceBehindTrap,
     AddressAssumption
<1>4. PICK u \in ISP + 2 .. USP, i \in 0 .. ISP + 1 : m.sp = Pointers(u, i)
  BY <1>1, PlaceOfUser, PlaceBetween, PlaceInSubroutine, PlaceAtMagic, PlaceBehindTrap,
     AddressAssumption
<1>5. m.sp[0] = u /\ m.sp[1] = i
  BY <1>4, PointersSet
<1> QED
  BY <1>1, <1>2, <1>3, <1>4, <1>5, <1>6 DEF TypeOK

LEMMA InvStacks == Inv => StacksBalanced
<1> SUFFICES ASSUME Inv PROVE StacksBalanced
  OBVIOUS
<1>1. m.s = 0 => \/ m.sp = Pointers(USP, ISP)
                 \/ m.sp = Pointers(USP - 1, ISP) /\ back
  <2> SUFFICES ASSUME m.s = 0
               PROVE  m.sp = Pointers(USP, ISP) \/ (m.sp = Pointers(USP - 1, ISP) /\ back)
    OBVIOUS
  <2>1. PICK mem, ret : InUser(mem) \/ (BehindTrap(mem, ret) /\ saved \in Regs)
    BY PlaceBetween, PlaceInSubroutine, PlaceAtMagic DEF Inv
  <2> QED
    BY <2>1, PlaceOfUser, PlaceBehindTrap DEF BehindTrap
<1> DEFINE u == USP - 1
<1>2. /\ Pointers(USP, ISP)[0] = USP /\ Pointers(USP, ISP)[1] = ISP
      /\ Pointers(u, ISP)[1] = ISP
  BY PointersSet
<1> QED
  BY <1>1, <1>2 DEF StacksBalanced

LEMMA InvMode == Inv => ModeIsRight
<1> SUFFICES ASSUME Inv, InProgram PROVE m.s = 1 <=> calls # <<>> \/ old # -1
  BY DEF ModeIsRight
<1> PICK mem \in [0 .. USP -> Nat], ret \in Code :
          InUser(mem) \/ BetweenSupers(mem) \/ InSubroutine(mem, ret)
  BY PlaceAtMagic, AddressAssumption DEF Inv, InProgram, BehindTrap
<1>1. CASE InUser(mem)
  <2>1. m.s = 0
    BY <1>1, PlaceOfUser
  <2>2. calls = <<>>
    BY <1>1 DEF InUser
  <2>3. old = -1
    BY <1>1 DEF InUser
  <2> QED
    BY <2>1, <2>2, <2>3
<1>2. CASE BetweenSupers(mem)
  <2>1. m.s = 1
    BY <1>2, PlaceBetween
  <2>2. old # -1
    BY <1>2, AddressAssumption DEF BetweenSupers
  <2> QED
    BY <2>1, <2>2
<1>3. CASE InSubroutine(mem, ret)
  <2>1. m.s = 1
    BY <1>3, PlaceInSubroutine
  <2>2. calls # <<>>
    BY <1>3 DEF InSubroutine
  <2> QED
    BY <2>1, <2>2
<1> QED
  BY <1>1, <1>2, <1>3

(* The machine keeps its type.                                             *)
THEOREM TypeCorrect == ASSUME Plain PROVE Spec => []TypeOK
  BY PlacesAreAll, InvType, PTL

(* Whatever calls of Supexec and Super it makes, a plain program finds     *)
(* nothing on the supervisor stack in user mode, and its own stack where   *)
(* it was.                                                                 *)
THEOREM StacksStayBalanced == ASSUME Plain PROVE Spec => []StacksBalanced
  BY PlacesAreAll, InvStacks, PTL

(* It is in supervisor mode in a subroutine of Supexec and between         *)
(* Super(0) and Super(old), and nowhere else.                              *)
THEOREM ModeStaysRight == ASSUME Plain PROVE Spec => []ModeIsRight
  BY PlacesAreAll, InvMode, PTL

(* Supexec called from user mode comes back behind the trap with mode,     *)
(* stacks and registers as they were, traced or not.                       *)
THEOREM SupexecAlwaysReturns == ASSUME Plain PROVE Spec => SupexecReturns
<1>1. Inv /\ [Next]_vars
        => [Returning => LET caller == Last(calls)
                         IN  /\ m'.pc = caller.pc /\ m'.s = caller.s
                             /\ m'.sp = caller.sp /\ m'.regs = caller.regs]_vars
  BY Steps
<1> QED
  BY <1>1, PlacesAreAll, PTL DEF Spec, SupexecReturns

(* The RTS of a subroutine goes to the magic address.                      *)
THEOREM RtsAlwaysReachesMagic == ASSUME Plain PROVE Spec => RtsReachesMagic
<1>1. Inv /\ [Next]_vars => [Rts => m'.pc = Magic]_vars
  BY RtsStep
<1> QED
  BY <1>1, PlacesAreAll, PTL DEF Spec, RtsReachesMagic

=============================================================================
