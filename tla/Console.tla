------------------------------- MODULE Console -------------------------------
(***************************************************************************)
(* Console input (gemdoscon.c, bios.c, utils.c): what a TOS program polls  *)
(* with select on the host's descriptor 0 and reads with getchar and fgets *)
(* from stdin, through the terminal's line discipline below and the buffer *)
(* of stdio above that descriptor.                                         *)
(*                                                                         *)
(* The terminal is external.  In line mode (ICANON) a read gives one line; *)
(* marks are the places in the queue where a read ends.  Without it a read *)
(* gives all there is.  A pipe behaves as a terminal out of line mode.     *)
(***************************************************************************)
EXTENDS Integers, Sequences

CONSTANTS
    Chars,      \* characters that are typed
    NL,         \* the newline
    MaxLens,    \* bound: maxlen of the LINEs passed to Cconrs
    MaxPending  \* bound: characters typed and not yet read

ASSUME CharAssumption == /\ Chars \subseteq 1 .. 254 /\ NL \in Chars
                         /\ MaxLens \subseteq Nat /\ MaxPending \in Nat

VARIABLES
    tty,        \* the kernel's queue
    marks,      \* where, in line mode, a read of the queue ends
    lflag,      \* the terminal's flags
    ended,      \* the end of input has been sent
    stdin,      \* the buffer of stdio
    phase,      \* where in a call the emulator is
    temp,       \* the flags to restore
    maxlen, buf,\* Cconrs: size of the LINE, and what fgets has read
    d0,         \* what the last call returned
    line,       \* the LINE in the program's memory
    found,      \* history: the flags at the start
    running     \* the emulator runs

terminal == <<tty, marks, lflag, ended>>
cconrs   == <<maxlen, buf>>
vars     == <<terminal, stdin, phase, temp, cconrs, d0, line, found, running>>

Flag == {"ICANON", "ECHO"}

(* getchar() & 0xff at the end of input.                                   *)
EndOfInput == 255

-----------------------------------------------------------------------------
(* The host (external)                                                     *)

LineMode(flags) == "ICANON" \in flags

Readable == IF LineMode(lflag) THEN marks # {} ELSE tty # <<>>

(* A read of descriptor 0 gives the first n characters.                    *)
Chunk(n) == IF LineMode(lflag) THEN n \in marks /\ \A k \in marks : n <= k
                               ELSE n = Len(tty)

(* tcsetattr.  Back in line mode, what is in the queue counts as a line.   *)
SetFlags(flags) ==
    /\ lflag' = flags
    /\ marks' = IF LineMode(flags) = LineMode(lflag) THEN marks
                ELSE IF LineMode(flags) /\ tty # <<>> THEN {Len(tty)} ELSE {}
    /\ UNCHANGED <<tty, ended>>

Type(c) == /\ running /\ ~ ended
           /\ Len(buf) + Len(stdin) + Len(tty) < MaxPending
           /\ tty' = Append(tty, c)
           /\ marks' = IF LineMode(lflag) /\ c = NL THEN marks \cup {Len(tty) + 1}
                                                    ELSE marks
           /\ UNCHANGED <<lflag, ended, stdin, phase, temp, cconrs, d0, line, found, running>>

EndInput == /\ running /\ ~ ended
            /\ ended' = TRUE
            /\ marks' = IF LineMode(lflag) /\ tty # <<>> THEN marks \cup {Len(tty)}
                                                         ELSE marks
            /\ UNCHANGED <<tty, lflag, stdin, phase, temp, cconrs, d0, line, found, running>>

(* A signal from the keyboard or elsewhere, at any moment.                 *)
Interrupt == /\ running
             /\ running' = FALSE
             /\ UNCHANGED <<terminal, stdin, phase, temp, cconrs, d0, line, found>>

-----------------------------------------------------------------------------
(* stdio (external)                                                        *)

(* The next character is c; the emulator waits as long as there is none.   *)
getchar(c) ==
    \/ /\ stdin # <<>>
       /\ c = Head(stdin)
       /\ stdin' = Tail(stdin)
       /\ UNCHANGED terminal
    \/ \E n \in 1 .. Len(tty) :
          /\ stdin = <<>> /\ Readable /\ Chunk(n)
          /\ c = tty[1]
          /\ stdin' = SubSeq(tty, 2, n)
          /\ tty' = SubSeq(tty, n + 1, Len(tty))
          /\ marks' = {k - n : k \in marks \ {n}}
          /\ UNCHANGED <<lflag, ended>>

AtEnd == ended /\ stdin = <<>> /\ tty = <<>>

Waits == stdin = <<>> /\ ~ Readable /\ ~ ended

-----------------------------------------------------------------------------
(* utils.c                                                                 *)

availableOnAnyKey == tty # <<>> \/ ended                        \* mutant

(* select sees the descriptor, not the buffer of stdio.                    *)
console_input_available == Readable \/ ended

Init == /\ tty = <<>> /\ marks = {} /\ ended = FALSE
        /\ lflag \in SUBSET Flag /\ found = lflag /\ temp = lflag
        /\ stdin = <<>> /\ phase = "idle"
        /\ maxlen = 0 /\ buf = <<>>
        /\ d0 = 0 /\ line = [text |-> <<>>, spill |-> FALSE]
        /\ running = TRUE

Idle == running /\ phase = "idle"

(* The result of a call that reads one character.                          *)
ReadChar == \/ \E c \in Chars : getchar(c) /\ d0' = c
            \/ AtEnd /\ d0' = EndOfInput /\ UNCHANGED <<terminal, stdin>>

Cconis == /\ Idle
          /\ d0' = IF console_input_available THEN -1 ELSE 0
          /\ UNCHANGED <<terminal, stdin, phase, temp, cconrs, line, found, running>>

(* BIOS: Bconstat of the console.                                          *)
Bconstat == Cconis

(* Cconin and Cnecin.                                                      *)
Cconin == /\ Idle
          /\ ReadChar
          /\ UNCHANGED <<phase, temp, cconrs, line, found, running>>

NoInput == /\ Idle
           /\ ~ console_input_available
           /\ d0' = 0
           /\ UNCHANGED <<terminal, stdin, phase, temp, cconrs, line, found, running>>

(* BIOS: Bconin of the console.                                            *)
Bconin == \/ /\ Idle
             /\ console_input_available
             /\ ReadChar
             /\ UNCHANGED <<phase, temp, cconrs, line, found, running>>
          \/ NoInput

(* Crawio(0xff) and Crawcin, which clear these flags for the read.         *)
SwitchTerminal(flags) ==
    /\ Idle
    /\ console_input_available
    /\ temp' = lflag
    /\ SetFlags(lflag \ flags)
    /\ phase' = "raw"
    /\ UNCHANGED <<stdin, cconrs, d0, line, found, running>>

Crawio  == SwitchTerminal({"ICANON"}) \/ NoInput
Crawcin == SwitchTerminal({"ICANON", "ECHO"}) \/ NoInput

RawRead == /\ running /\ phase = "raw"
           /\ ReadChar
           /\ phase' = "restore"
           /\ UNCHANGED <<temp, cconrs, line, found, running>>

restoreCleared == lflag                                         \* mutant

restored == temp

RestoreTerminal == /\ running /\ phase = "restore"
                   /\ SetFlags(restored)
                   /\ phase' = "idle"
                   /\ UNCHANGED <<stdin, temp, cconrs, d0, line, found, running>>

(* Cconrs.  With a maxlen of 0 or 1 fgets reads nothing; the bytes behind  *)
(* an empty string that fgets has not written are copied as far as they    *)
(* are not zero, and spill over what lies behind the LINE.                 *)
Cconrs(max) ==
    /\ Idle
    /\ maxlen' = max /\ buf' = <<>>
    /\ IF max < 2
       THEN /\ \E spill \in BOOLEAN : line' = [text |-> <<>>, spill |-> spill]
            /\ d0' = 0
            /\ UNCHANGED phase
       ELSE phase' = "fgets" /\ UNCHANGED <<line, d0>>
    /\ UNCHANGED <<terminal, stdin, temp, found, running>>

LineFullByOne(text) == Len(text) = maxlen \/ text[Len(text)] = NL \* mutant

LineFull(text) == Len(text) = maxlen - 1 \/ text[Len(text)] = NL

WithoutLast(text) == SubSeq(text, 1, Len(text) - 1)             \* mutant

WithoutNL(text) == SubSeq(text, 1, IF text[Len(text)] = NL THEN Len(text) - 1 ELSE Len(text))

fgets(c) ==
    /\ running /\ phase = "fgets"
    /\ getchar(c)
    /\ IF LineFull(Append(buf, c))
       THEN /\ line' = [text |-> WithoutNL(Append(buf, c)), spill |-> FALSE]
            /\ d0' = 0 /\ buf' = <<>> /\ phase' = "idle"
       ELSE buf' = Append(buf, c) /\ UNCHANGED <<line, d0, phase>>
    /\ UNCHANGED <<temp, maxlen, found, running>>

(* At the end of input the line is what there was, or, if there was        *)
(* nothing, what the buffer on the emulator's stack happened to hold.      *)
fgetsEnd ==
    /\ running /\ phase = "fgets"
    /\ AtEnd
    /\ IF buf # <<>>
       THEN line' = [text |-> buf, spill |-> FALSE]
       ELSE \E n \in 0 .. maxlen : \E text \in [1 .. n -> Chars] :
              \E spill \in BOOLEAN :
                 (spill => text = <<>>) /\ line' = [text |-> text, spill |-> spill]
    /\ d0' = 0 /\ buf' = <<>> /\ phase' = "idle"
    /\ UNCHANGED <<terminal, stdin, temp, maxlen, found, running>>

Next == \/ \E c \in Chars : Type(c) \/ fgets(c)
        \/ EndInput \/ Interrupt
        \/ Cconis \/ Bconstat \/ Cconin \/ Bconin \/ Crawio \/ Crawcin
        \/ RawRead \/ RestoreTerminal
        \/ \E max \in MaxLens : Cconrs(max)
        \/ fgetsEnd

Spec == Init /\ [][Next]_vars
-----------------------------------------------------------------------------
(* Invariants                                                              *)

(* Values keep their types; marks lie in the queue, a queue that has ended *)
(* in line mode can be read to its end, and fgets stays in its buffer.     *)
TypeOK == /\ tty \in Seq(Chars) /\ stdin \in Seq(Chars) /\ buf \in Seq(Chars)
          /\ marks \subseteq 1 .. Len(tty)
          /\ ended /\ LineMode(lflag) /\ tty # <<>> => marks # {}
          /\ lflag \subseteq Flag /\ temp \subseteq Flag /\ found \subseteq Flag
          /\ ended \in BOOLEAN /\ running \in BOOLEAN
          /\ phase \in {"idle", "raw", "restore", "fgets"}
          /\ maxlen \in Nat
          /\ phase = "fgets" => Len(buf) < maxlen - 1
          /\ d0 \in Chars \cup {-1, 0, EndOfInput}
          /\ line.text \in Seq(Chars) /\ line.spill \in BOOLEAN

(* When the program is in control, or waits for a line, the terminal is as *)
(* it was found; while it is not, the emulator never waits for a key, so   *)
(* that only a signal at that very moment leaves it changed.               *)
TerminalRestored == /\ phase \in {"idle", "fgets"} => lflag = found
                    /\ phase = "raw" => ~ Waits

(* After a poll that said yes a read does not wait.                        *)
YesMeansInput == d0 = -1 /\ phase = "idle" => ~ Waits

-----------------------------------------------------------------------------
(* Whatever mixture of calls a program reads with, in either mode of the   *)
(* terminal, it gets what was typed, in order and once.                    *)
Promise == INSTANCE Keyboard WITH pending <- buf \o stdin \o tty

ImplementsKeyboard == Promise!Spec

=============================================================================
