----------------------------- MODULE Supervisor -----------------------------
(***************************************************************************)
(* How a TOS program enters and leaves supervisor mode: XBIOS Supexec,     *)
(* which calls a subroutine in supervisor mode and gets control back       *)
(* through a read of "magic memory" (xbios.c), GEMDOS Super (gemdos.c),    *)
(* and the helpers of cpu.c for the mode and the stack.                    *)
(*                                                                         *)
(* The machine is a record m: the S bit, the stack pointer of each mode    *)
(* (Musashi keeps the one not in use aside), the program counter, the      *)
(* registers D3-D7/A3-A6 as one value, D0, and the memory of the stacks.   *)
(* A stack slot holds a longword, or the six bytes of arguments of a trap. *)
(* The program is external: it is any program that balances its stack.     *)
(***************************************************************************)
EXTENDS Integers, Sequences, SequencesExt

CONSTANTS
    Code,       \* addresses of the program's instructions
    Magic,      \* 0x200, the address of magic memory
    HalfWord,   \* 2^16
    ISP,        \* 0x600, the supervisor stack pointer at the start
    USP,        \* the user stack pointer at the start
    Regs,       \* values of the registers D3-D7 and A3-A6
    Results,    \* values of D0
    CallerModes,\* bound: the modes Supexec is called from, 0 user, 1 supervisor
    MaxDepth    \* bound: how deep Supexec calls are nested

ASSUME AddressAssumption ==
    /\ Code \subseteq Nat /\ Code # {} /\ Magic \in Nat \ Code
    /\ HalfWord \in Nat \ {0}
    /\ ISP \in Nat \ {0, 1} /\ USP \in Nat /\ ISP + 2 < USP
    /\ Regs # {}
    /\ CallerModes \subseteq {0, 1}
    /\ MaxDepth \in Nat
    /\ 0 \in Results /\ Results \subseteq Nat

VARIABLES
    m,          \* the machine
    saved,      \* dreg and areg of xbios.c
    verbose,    \* tosemu -v: every instruction is disassembled first
    calls,      \* history: the Supexec calls not yet returned from
    back,       \* history: the program is behind a Supexec trap
    old         \* the program's copy of what Super(0) returned, or -1

vars == <<m, saved, verbose, calls, back, old>>

-----------------------------------------------------------------------------
(* cpu.c, on machine records                                               *)

A7(c) == c.sp[c.s]

SetA7(c, sp) == [c EXCEPT !.sp = [@ EXCEPT ![c.s] = sp]]

SetUSP(c, sp) == [c EXCEPT !.sp = [@ EXCEPT ![0] = sp]]

SetPC(c, pc) == [c EXCEPT !.pc = pc]

(* Musashi exchanges the stack pointers when the S bit changes.            *)
enable_supervisor_mode(c) == [c EXCEPT !.s = 1]

disable_supervisor_mode(c) == [c EXCEPT !.s = 0]

pushUpwards(c, value) ==                                        \* mutant
    [SetA7(c, A7(c) + 1) EXCEPT !.mem = [@ EXCEPT ![A7(c)] = value]]

push_u32(c, value) == [SetA7(c, A7(c) - 1) EXCEPT !.mem = [@ EXCEPT ![A7(c) - 1] = value]]

(* The value read is kept in a uint16_t.                                   *)
popped_u32(c) == c.mem[A7(c)] % HalfWord

pop_u32(c) == SetA7(c, A7(c) + 1)

-----------------------------------------------------------------------------
(* xbios.c                                                                 *)

supexecPushesFirst(c, lv0) ==                                   \* mutant
    [SetPC(enable_supervisor_mode(push_u32(push_u32(c, c.pc), Magic)), lv0)
        EXCEPT !.d0 = 0]

(* The trap leaves D0 = 0, the value XBIOS_Supexec returns.                *)
XBIOS_Supexec(c, lv0) ==
    LET super    == enable_supervisor_mode(c)
        returnTo == push_u32(super, c.pc)
    IN  [SetPC(push_u32(returnTo, Magic), lv0) EXCEPT !.d0 = 0]

magicReadUserStack(c) ==                                        \* mutant
    LET user == disable_supervisor_mode(c)
    IN  [SetPC(pop_u32(user), popped_u32(user)) EXCEPT !.regs = saved]

magicReadKeepsRegs(c) ==                                        \* mutant
    SetPC(disable_supervisor_mode(pop_u32(c)), popped_u32(c))

magicReadStaysSupervisor(c) ==                                  \* mutant
    [SetPC(pop_u32(c), popped_u32(c)) EXCEPT !.regs = saved]

(* The read of 0x201.                                                      *)
magic_xbios_supexec_read(c) ==
    [SetPC(disable_supervisor_mode(pop_u32(c)), popped_u32(c)) EXCEPT !.regs = saved]

(* gemdos.c                                                                *)
GEMDOS_Super(c, lv0) ==
    CASE lv0 = 0 -> [enable_supervisor_mode(c) EXCEPT !.d0 = A7(c)]
      [] lv0 = 1 -> [c EXCEPT !.d0 = c.s]
      [] OTHER   -> [disable_supervisor_mode(SetUSP(c, lv0)) EXCEPT !.d0 = 0]

-----------------------------------------------------------------------------
(* The program (external).  It pushes a trap's arguments on the stack in   *)
(* use and drops them, behind the trap, from the stack then in use.        *)

Arguments == 0

PushArguments(c) == push_u32(c, Arguments)

DropArguments(c) == SetA7(c, A7(c) + 1)

(* The program is in control, and not at the instruction behind a Supexec. *)
InProgram == m.pc \in Code /\ ~ back

Init == /\ m = [s |-> 0, sp |-> [mode \in {0, 1} |-> IF mode = 1 THEN ISP ELSE USP],
                pc |-> CHOOSE pc \in Code : TRUE,
                regs |-> CHOOSE r \in Regs : TRUE, d0 |-> 0,
                mem |-> [slot \in 0 .. USP |-> 0]]
        /\ saved = CHOOSE r \in Regs : TRUE
        /\ verbose \in BOOLEAN
        /\ calls = <<>>
        /\ back = FALSE
        /\ old = -1

(* The program calls Supexec(lv0); the trap lies in front of address ret.  *)
Supexec(lv0, ret) ==
    /\ InProgram
    /\ m.s \in CallerModes
    /\ Len(calls) < MaxDepth
    /\ m' = XBIOS_Supexec(SetPC(PushArguments(m), ret), lv0)
    /\ saved' = m.regs
    /\ calls' = Append(calls, [s |-> m.s, sp |-> PushArguments(m).sp,
                               pc |-> ret, regs |-> m.regs])
    /\ UNCHANGED <<verbose, back, old>>

(* Computation: the program, or its subroutine, changes registers.         *)
Compute(regs, d0, pc) ==
    /\ InProgram
    /\ m' = [m EXCEPT !.regs = regs, !.d0 = d0, !.pc = pc]
    /\ UNCHANGED <<saved, verbose, calls, back, old>>

(* The subroutine's RTS, its own use of the stack being balanced.          *)
Rts == /\ InProgram
       /\ calls # <<>>
       /\ m' = SetPC(SetA7(m, A7(m) + 1), m.mem[A7(m)])
       /\ UNCHANGED <<saved, verbose, calls, back, old>>

(* Behind the trap the program drops Supexec's arguments.                  *)
Resume == /\ back
          /\ m' = DropArguments(m)
          /\ back' = FALSE
          /\ UNCHANGED <<saved, verbose, calls, old>>

SuperEnter(pc) ==
    /\ InProgram
    /\ old = -1 /\ m.s = 0 /\ calls = <<>>
    /\ LET c == GEMDOS_Super(SetPC(PushArguments(m), pc), 0)
       IN  /\ m' = [DropArguments(c) EXCEPT !.d0 = 0]
           /\ old' = c.d0
    /\ UNCHANGED <<saved, verbose, calls, back>>

SuperLeave(pc) ==
    /\ InProgram
    /\ old # -1 /\ calls = <<>>
    /\ m' = DropArguments(GEMDOS_Super(SetPC(PushArguments(m), pc), old))
    /\ old' = -1
    /\ UNCHANGED <<saved, verbose, calls, back>>

-----------------------------------------------------------------------------
(* Musashi at the magic address.  The bytes there can only be read in      *)
(* supervisor mode; reading the second one has the effect.  With -v the    *)
(* bytes are read by the disassembler before the instruction is fetched,   *)
(* which then happens at the new PC; otherwise by the fetch, and the NOP   *)
(* they stand for is executed.                                             *)

MagicRead == /\ m.pc = Magic
             /\ m.s = 1
             /\ m' = magic_xbios_supexec_read(m)
             /\ back' = TRUE
             /\ calls' = Front(calls)
             /\ UNCHANGED <<saved, verbose, old>>

cpu_instr_callback == verbose /\ MagicRead

Fetch == ~ verbose /\ MagicRead

Next == \/ \E lv0, ret \in Code : Supexec(lv0, ret)
        \/ \E regs \in Regs, d0 \in Results, pc \in Code : Compute(regs, d0, pc)
        \/ Rts
        \/ Resume
        \/ \E pc \in Code : SuperEnter(pc) \/ SuperLeave(pc)
        \/ cpu_instr_callback
        \/ Fetch

(* The CPU goes on as long as nothing halts it, and a subroutine ends.     *)
Fairness == WF_vars(cpu_instr_callback \/ Fetch) /\ WF_vars(Rts) /\ WF_vars(Resume)

Spec == Init /\ [][Next]_vars /\ Fairness
-----------------------------------------------------------------------------
(* Invariants                                                              *)

TypeOK == /\ m.s \in {0, 1} /\ m.pc \in Nat /\ m.regs \in Regs /\ m.d0 \in Nat
          /\ m.sp[0] \in ISP + 2 .. USP /\ m.sp[1] \in 0 .. ISP + 1
          /\ m.mem \in [0 .. USP -> Nat]
          /\ saved \in Regs /\ verbose \in BOOLEAN /\ back \in BOOLEAN
          /\ old \in Nat \cup {-1}

(* Whatever sequence of Supexec and Super a program goes through, in user  *)
(* mode nothing is left on the supervisor stack, and once it has dropped   *)
(* its arguments the program's own stack is where it was.                  *)
StacksBalanced == /\ m.s = 0 => m.sp[1] = ISP
                  /\ m.s = 0 /\ ~ back => m.sp[0] = USP

(* The subroutine runs in supervisor mode from its first instruction to    *)
(* its RTS, and the program never finds itself there otherwise.            *)
ModeIsRight == InProgram => (m.s = 1 <=> calls # <<>> \/ old # -1)

-----------------------------------------------------------------------------
(* Action properties                                                       *)

Returning == Len(calls') < Len(calls)

(* Supexec comes back behind the trap, in the caller's mode, with both     *)
(* stack pointers and the registers a subroutine may clobber as they were, *)
(* whether or not instructions are traced.                                 *)
SupexecReturns ==
    [][Returning => LET caller == Last(calls)
                    IN  /\ m'.pc = caller.pc /\ m'.s = caller.s
                        /\ m'.sp = caller.sp /\ m'.regs = caller.regs]_vars

(* "When the RTS call is made, the PC will be set to 0x200".               *)
RtsReachesMagic == [][Rts => m'.pc = Magic]_vars

-----------------------------------------------------------------------------
(* Liveness: if subroutines end, the program gets control back.            *)
ControlComesBack == calls # <<>> ~> calls = <<>> /\ InProgram
=============================================================================
