---------------------------- MODULE ConsoleProofs ----------------------------
(***************************************************************************)
(* Console implements Keyboard, leaves the terminal as it found it and     *)
(* never waits behind a poll that said yes: for all characters, LINEs and  *)
(* amounts of input on their way.                                          *)
(***************************************************************************)
EXTENDS Console, SequenceTheorems, TLAPS

-----------------------------------------------------------------------------
(* The invariant.                                                          *)

(* Only line mode has marks; of input that has ended it can read the last  *)
(* character.                                                              *)
MarksRight == /\ ~ LineMode(lflag) => marks = {}
              /\ ended /\ LineMode(lflag) /\ tty # <<>> => Len(tty) \in marks

(* A line that is being read has no newline in it yet.                     *)
LineBegun == IF phase = "fgets"
             THEN maxlen \in MaxLens /\ \A i \in 1 .. Len(buf) : buf[i] # NL
             ELSE buf = <<>>

(* While the terminal is switched, its flags are kept to be restored, a    *)
(* read takes all there is, and the answer of the last poll is gone.       *)
Switched == /\ phase \in {"raw", "restore"} => temp = found
            /\ phase = "raw" => ~ LineMode(lflag)
            /\ phase = "restore" => d0 # -1

(* TypeOK in two parts: the terminal and the buffer of stdio, and the rest.*)
InputType == /\ tty \in Seq(Chars) /\ stdin \in Seq(Chars)
             /\ marks \subseteq 1 .. Len(tty)
             /\ lflag \subseteq Flag /\ ended \in BOOLEAN

CallType == /\ buf \in Seq(Chars)
            /\ temp \subseteq Flag /\ found \subseteq Flag
            /\ running \in BOOLEAN
            /\ phase \in {"idle", "raw", "restore", "fgets"}
            /\ maxlen \in Nat
            /\ phase = "fgets" => Len(buf) < maxlen - 1
            /\ d0 \in Chars \cup {-1, 0, EndOfInput}
            /\ line.text \in Seq(Chars) /\ line.spill \in BOOLEAN

Inv == /\ InputType /\ MarksRight
       /\ CallType /\ LineBegun /\ Switched
       /\ TerminalRestored /\ YesMeansInput

LEMMA InvTypes == Inv => TypeOK
  BY DEF Inv, TypeOK, InputType, CallType, MarksRight

LEMMA CharFacts == /\ Chars \subseteq Int /\ NL \in Chars
                   /\ \A c \in Chars : c # -1 /\ c # 0 /\ c # EndOfInput
                   /\ EndOfInput # -1
  BY CharAssumption DEF EndOfInput

(* What can be read without waiting.                                       *)
LEMMA Available ==
  ASSUME InputType, console_input_available
  PROVE  ended \/ tty # <<>>
<1>1. tty = <<>> => Len(tty) = 0
  BY EmptySeq
<1>2. tty = <<>> => marks = {}
  BY <1>1 DEF InputType
<1> QED
  BY <1>2 DEF console_input_available, Readable

-----------------------------------------------------------------------------
(* What the host's functions do.                                           *)

LEMMA HeadTailOfConcat ==
  ASSUME NEW S, NEW s \in Seq(S), s # <<>>, NEW t \in Seq(S)
  PROVE  /\ s \o t \in Seq(S) /\ s \o t # <<>>
         /\ Head(s \o t) = Head(s)
         /\ Tail(s \o t) = Tail(s) \o t
<1>1. s \o t \in Seq(S) /\ s \o t # <<>>
  BY ConcatProperties, ConcatEqualIffEmpty
<1>2. Len(s) \in Nat \ {0} /\ Len(t) \in Nat /\ Len(s \o t) = Len(s) + Len(t)
  BY EmptySeq, LenProperties, ConcatProperties
<1>3. Head(s \o t) = Head(s)
  BY <1>1, <1>2, ConcatProperties
<1>4. /\ Tail(s) \in Seq(S) /\ Tail(s) \o t \in Seq(S) /\ Tail(s \o t) \in Seq(S)
      /\ Len(Tail(s)) = Len(s) - 1 /\ Len(Tail(s \o t)) = Len(s) + Len(t) - 1
      /\ Len(Tail(s) \o t) = Len(s) - 1 + Len(t)
  BY <1>1, <1>2, HeadTailProperties, ConcatProperties
<1>5. ASSUME NEW i \in 1 .. Len(Tail(s \o t))
      PROVE  Tail(s \o t)[i] = (Tail(s) \o t)[i]
  <2>1. Tail(s \o t)[i] = (s \o t)[i + 1]
    BY <1>1, HeadTailProperties
  <2>2. (s \o t)[i + 1] = IF i + 1 <= Len(s) THEN s[i + 1] ELSE t[i + 1 - Len(s)]
    BY <1>2, <1>4, ConcatProperties
  <2>3. (Tail(s) \o t)[i] = IF i <= Len(s) - 1 THEN Tail(s)[i] ELSE t[i - (Len(s) - 1)]
    BY <1>2, <1>4, ConcatProperties
  <2>4. i <= Len(s) - 1 => Tail(s)[i] = s[i + 1]
    BY <1>2, <1>4, HeadTailProperties
  <2> QED
    BY <1>2, <1>4, <2>1, <2>2, <2>3, <2>4
<1>6. Tail(s \o t) = Tail(s) \o t
  BY <1>2, <1>4, <1>5, SeqEqual
<1> QED
  BY <1>1, <1>3, <1>6

(* getchar takes the first character of what has been typed.               *)
LEMMA GetcharTakes ==
  ASSUME InputType, MarksRight, NEW c, getchar(c)
  PROVE  /\ InputType' /\ MarksRight'
         /\ UNCHANGED <<lflag, ended>>
         /\ c \in Chars
         /\ stdin \o tty # <<>>
         /\ c = Head(stdin \o tty)
         /\ stdin' \o tty' = Tail(stdin \o tty)
<1> USE DEF InputType
<1>1. CASE /\ stdin # <<>>
           /\ c = Head(stdin)
           /\ stdin' = Tail(stdin)
           /\ UNCHANGED terminal
  <2>1. UNCHANGED <<tty, marks, lflag, ended>>
    BY <1>1 DEF terminal
  <2>2. c \in Chars /\ stdin' \in Seq(Chars)
    BY <1>1, HeadTailProperties
  <2>3. stdin \o tty # <<>> /\ Head(stdin \o tty) = c /\ Tail(stdin \o tty) = Tail(stdin) \o tty
    BY <1>1, HeadTailOfConcat
  <2> QED
    BY <1>1, <2>1, <2>2, <2>3 DEF MarksRight
<1>2. ASSUME NEW n \in 1 .. Len(tty),
             stdin = <<>>, Chunk(n), c = tty[1],
             stdin' = SubSeq(tty, 2, n),
             tty' = SubSeq(tty, n + 1, Len(tty)),
             marks' = {k - n : k \in marks \ {n}},
             UNCHANGED <<lflag, ended>>
      PROVE  /\ InputType' /\ MarksRight'
             /\ c \in Chars
             /\ stdin \o tty # <<>>
             /\ c = Head(stdin \o tty)
             /\ stdin' \o tty' = Tail(stdin \o tty)
  <2>1. Len(tty) \in Nat /\ n \in Nat /\ 1 <= n /\ n <= Len(tty) /\ tty # <<>>
    BY <1>2, LenProperties, EmptySeq
  <2>2. /\ stdin' \in Seq(Chars) /\ tty' \in Seq(Chars)
        /\ Len(tty') = Len(tty) - n
    <3>1. \A i \in 1 .. Len(tty) : tty[i] \in Chars
      BY ElementOfSeq
    <3>2. stdin' \in Seq(Chars)
      BY <1>2, <2>1, <3>1, SubSeqProperties
    <3>3. tty' \in Seq(Chars) /\ Len(tty') = Len(tty) - n
      BY <1>2, <2>1, <3>1, SubSeqProperties
    <3> QED
      BY <3>2, <3>3
  <2>3. stdin \o tty = tty /\ c = Head(tty) /\ c \in Chars
    BY <1>2, <2>1, ConcatEmptySeq, ElementOfSeq
  <2>4. stdin' \o tty' = Tail(tty)
    <3>1. SubSeq(tty, 2, n) \o SubSeq(tty, n + 1, Len(tty)) = SubSeq(tty, 2, Len(tty))
      <4>1. 2 \in 1 .. Len(tty) + 1 /\ n \in 2 - 1 .. Len(tty) /\ Len(tty) \in n .. Len(tty)
        BY <2>1
      <4> QED
        BY <4>1, ConcatAdjacentSubSeq
    <3> QED
      BY <1>2, <2>1, <3>1, TailIsSubSeq
  <2>5. marks' \subseteq 1 .. Len(tty')
    <3>1. ASSUME NEW k \in marks \ {n}
          PROVE  k - n \in 1 .. Len(tty')
      <4>1. k >= n
        BY <1>2, <3>1, <2>1 DEF Chunk, MarksRight
      <4> QED
        BY <4>1, <3>1, <2>1, <2>2
    <3> QED
      BY <1>2, <3>1
  <2>6. MarksRight'
    <3>0. ~ LineMode(lflag)' => marks' = {}
      BY <1>2 DEF MarksRight, LineMode
    <3> SUFFICES ASSUME ended', LineMode(lflag)', tty' # <<>>
                 PROVE  Len(tty') \in marks'
      BY <3>0 DEF MarksRight
    <3>1. Len(tty) \in marks
      BY <1>2, <2>1 DEF MarksRight, LineMode
    <3>2. Len(tty) # n
      BY <2>1, <2>2, EmptySeq
    <3> QED
      BY <1>2, <2>2, <3>1, <3>2
  <2> QED
    BY <1>2, <2>1, <2>2, <2>3, <2>4, <2>5, <2>6
<1> QED
  BY <1>1, <1>2 DEF getchar, terminal

(* tcsetattr changes nothing but the flags and the marks.                  *)
LEMMA SetFlagsKeeps ==
  ASSUME InputType, MarksRight, NEW flags \in SUBSET Flag, SetFlags(flags), UNCHANGED stdin
  PROVE  /\ InputType' /\ MarksRight'
         /\ lflag' = flags
         /\ UNCHANGED <<tty, ended>>
<1>1. lflag' = flags /\ UNCHANGED <<tty, ended>>
  BY DEF SetFlags
<1>2. tty # <<>> => Len(tty) \in 1 .. Len(tty)
  BY EmptySeq DEF InputType
<1>3. marks' \in {marks, {}, {Len(tty)}} /\ (marks' = {Len(tty)} => marks' = marks \/ tty # <<>>)
  BY DEF SetFlags
<1>4. InputType'
  BY <1>1, <1>2, <1>3 DEF InputType
<1>5. MarksRight'
  <2>1. CASE LineMode(flags) <=> LineMode(lflag)
    <3>1. marks' = marks
      BY <2>1 DEF SetFlags, LineMode
    <3> QED
      BY <1>1, <2>1, <3>1 DEF MarksRight, LineMode
  <2>2. CASE ~(LineMode(flags) <=> LineMode(lflag))
    <3>1. marks' = IF LineMode(flags) /\ tty # <<>> THEN {Len(tty)} ELSE {}
      BY <2>2 DEF SetFlags, LineMode
    <3> QED
      BY <1>1, <2>2, <3>1 DEF MarksRight, LineMode
  <2> QED
    BY <2>1, <2>2
<1> QED
  BY <1>1, <1>4, <1>5

(* What could be read still can be after a key, or the end of input.       *)
LEMMA TypeKeeps ==
  ASSUME InputType, MarksRight, NEW c \in Chars, Type(c)
  PROVE  /\ InputType' /\ MarksRight'
         /\ tty' = Append(tty, c) /\ tty' # <<>>
         /\ ~ Waits => ~ Waits'
<1>1. /\ tty' = Append(tty, c) /\ ~ended
      /\ marks' = IF LineMode(lflag) /\ c = NL THEN marks \cup {Len(tty) + 1} ELSE marks
      /\ UNCHANGED <<lflag, ended, stdin>>
  BY DEF Type
<1>2. tty' \in Seq(Chars) /\ tty' # <<>> /\ Len(tty') = Len(tty) + 1 /\ Len(tty) \in Nat
  BY <1>1, AppendProperties, LenProperties DEF InputType
<1>3. marks' \subseteq 1 .. Len(tty')
  <2>1. marks \subseteq 1 .. Len(tty) /\ marks' \subseteq marks \cup {Len(tty) + 1}
    BY <1>1 DEF InputType
  <2>2. 1 .. Len(tty) \subseteq 1 .. Len(tty') /\ Len(tty) + 1 \in 1 .. Len(tty')
    BY <1>2
  <2> QED
    BY <2>1, <2>2
<1>4. MarksRight'
  BY <1>1 DEF MarksRight, LineMode
<1>5. ~ Waits => ~ Waits'
  BY <1>1, <1>2 DEF Waits, Readable, LineMode
<1> QED
  BY <1>1, <1>2, <1>3, <1>4, <1>5 DEF InputType

LEMMA EndInputKeeps ==
  ASSUME InputType, MarksRight, EndInput
  PROVE  InputType' /\ MarksRight' /\ ~ Waits'
<1>1. /\ ended' = TRUE
      /\ marks' = IF LineMode(lflag) /\ tty # <<>> THEN marks \cup {Len(tty)} ELSE marks
      /\ UNCHANGED <<tty, lflag, stdin>>
  BY DEF EndInput
<1>2. tty # <<>> => Len(tty) \in 1 .. Len(tty)
  BY EmptySeq DEF InputType
<1>3. InputType'
  BY <1>1, <1>2 DEF InputType
<1>4. MarksRight'
  BY <1>1 DEF MarksRight, LineMode
<1> QED
  BY <1>1, <1>3, <1>4 DEF Waits

-----------------------------------------------------------------------------
(* Every step keeps the invariant.                                         *)

LEMMA InitInv == Init => Inv
<1> SUFFICES ASSUME Init PROVE Inv
  OBVIOUS
<1>1. /\ tty = <<>> /\ stdin = <<>> /\ buf = <<>> /\ line.text = <<>> /\ marks = {}
      /\ <<>> \in Seq(Chars)
  BY EmptySeq DEF Init
<1>2. InputType /\ MarksRight
  BY <1>1 DEF Init, InputType, MarksRight
<1>3. CallType
  BY <1>1 DEF Init, CallType
<1>4. LineBegun /\ Switched
  BY <1>1 DEF Init, LineBegun, Switched
<1>5. TerminalRestored /\ YesMeansInput
  BY <1>1 DEF Init, TerminalRestored, YesMeansInput
<1> QED
  BY <1>2, <1>3, <1>4, <1>5 DEF Inv

(* Steps of the host.                                                      *)
LEMMA TypeInv ==
  ASSUME Inv, NEW c \in Chars, Type(c)
  PROVE  Inv'
<1>1. InputType' /\ MarksRight' /\ (~ Waits => ~ Waits')
  BY TypeKeeps DEF Inv
<1>2. UNCHANGED <<lflag, phase, temp, maxlen, buf, d0, line, found, running>>
  BY DEF Type, cconrs
<1>3. CallType' /\ LineBegun' /\ Switched'
  BY <1>2 DEF Inv, CallType, LineBegun, Switched, LineMode
<1>4. TerminalRestored' /\ YesMeansInput'
  BY <1>1, <1>2 DEF Inv, TerminalRestored, YesMeansInput
<1> QED
  BY <1>1, <1>3, <1>4 DEF Inv

LEMMA EndInputInv ==
  ASSUME Inv, EndInput
  PROVE  Inv'
<1>1. InputType' /\ MarksRight' /\ ~ Waits'
  BY EndInputKeeps DEF Inv
<1>2. UNCHANGED <<lflag, phase, temp, maxlen, buf, d0, line, found, running>>
  BY DEF EndInput, cconrs
<1>3. CallType' /\ LineBegun' /\ Switched'
  BY <1>2 DEF Inv, CallType, LineBegun, Switched, LineMode
<1>4. TerminalRestored' /\ YesMeansInput'
  BY <1>1, <1>2 DEF Inv, TerminalRestored, YesMeansInput
<1> QED
  BY <1>1, <1>3, <1>4 DEF Inv

LEMMA InterruptInv ==
  ASSUME Inv, Interrupt \/ UNCHANGED vars
  PROVE  Inv'
<1>1. /\ UNCHANGED <<tty, marks, lflag, ended, stdin>>
      /\ UNCHANGED <<phase, temp, maxlen, buf, d0, line, found>>
      /\ running' \in {running, FALSE}
  BY DEF Interrupt, vars, terminal, cconrs
<1>2. InputType' /\ MarksRight' /\ (~ Waits => ~ Waits')
  BY <1>1 DEF Inv, InputType, MarksRight, Waits, Readable, LineMode
<1>3. CallType' /\ LineBegun' /\ Switched'
  BY <1>1 DEF Inv, CallType, LineBegun, Switched, LineMode
<1>4. TerminalRestored' /\ YesMeansInput'
  BY <1>1, <1>2 DEF Inv, TerminalRestored, YesMeansInput
<1> QED
  BY <1>2, <1>3, <1>4 DEF Inv

(* Polls.                                                                  *)
LEMMA PollInv ==
  ASSUME Inv, Cconis \/ NoInput
  PROVE  Inv'
<1>1. /\ UNCHANGED <<tty, marks, lflag, ended, stdin>>
      /\ UNCHANGED <<phase, temp, maxlen, buf, line, found, running>>
      /\ phase = "idle"
      /\ d0' = 0 \/ (d0' = -1 /\ console_input_available)
  BY DEF Cconis, NoInput, Idle, terminal, cconrs
<1>2. InputType' /\ MarksRight'
  BY <1>1 DEF Inv, InputType, MarksRight, LineMode
<1>3. console_input_available => ~ Waits'
  BY <1>1 DEF console_input_available, Waits, Readable, LineMode
<1>4. CallType' /\ LineBegun' /\ Switched'
  BY <1>1 DEF Inv, CallType, LineBegun, Switched, LineMode
<1>5. TerminalRestored' /\ YesMeansInput'
  BY <1>1, <1>3 DEF Inv, TerminalRestored, YesMeansInput
<1> QED
  BY <1>2, <1>4, <1>5 DEF Inv

(* The result of a character read is never the yes of a poll.              *)
LEMMA ReadCharKeeps ==
  ASSUME Inv, ReadChar
  PROVE  /\ InputType' /\ MarksRight'
         /\ UNCHANGED <<lflag, ended>>
         /\ d0' \in Chars \cup {EndOfInput} /\ d0' # -1
<1>1. ASSUME NEW c \in Chars, getchar(c), d0' = c
      PROVE  /\ InputType' /\ MarksRight'
             /\ UNCHANGED <<lflag, ended>>
             /\ d0' \in Chars \cup {EndOfInput} /\ d0' # -1
  BY <1>1, GetcharTakes, CharFacts DEF Inv
<1>2. CASE AtEnd /\ d0' = EndOfInput /\ UNCHANGED <<terminal, stdin>>
  <2>1. UNCHANGED <<tty, marks, lflag, ended, stdin>> /\ d0' = EndOfInput
    BY <1>2 DEF terminal
  <2> QED
    BY <2>1, CharFacts DEF Inv, InputType, MarksRight, LineMode
<1> QED
  BY <1>1, <1>2 DEF ReadChar

(* Cconin, and Bconin when there is input.                                 *)
LEMMA CharInv ==
  ASSUME Inv, Idle, ReadChar,
         UNCHANGED <<phase, temp, cconrs, line, found, running>>
  PROVE  Inv'
<1>1. /\ InputType' /\ MarksRight'
      /\ UNCHANGED <<lflag, ended>>
      /\ d0' \in Chars \cup {EndOfInput} /\ d0' # -1
  BY ReadCharKeeps
<1>2. UNCHANGED <<phase, temp, maxlen, buf, line, found, running>> /\ phase = "idle"
  BY DEF cconrs, Idle
<1>3. CallType' /\ LineBegun' /\ Switched'
  BY <1>1, <1>2 DEF Inv, CallType, LineBegun, Switched
<1>4. TerminalRestored' /\ YesMeansInput'
  BY <1>1, <1>2 DEF Inv, TerminalRestored, YesMeansInput
<1> QED
  BY <1>1, <1>3, <1>4 DEF Inv

(* The terminal is switched only when there is input, all of which can be  *)
(* read at once out of line mode.                                          *)
LEMMA SwitchInv ==
  ASSUME Inv, NEW flags \in SUBSET Flag, "ICANON" \in flags, SwitchTerminal(flags)
  PROVE  Inv'
<1>1. /\ phase = "idle" /\ phase' = "raw" /\ console_input_available
      /\ temp' = lflag /\ SetFlags(lflag \ flags)
      /\ UNCHANGED <<stdin, maxlen, buf, d0, line, found, running>>
  BY DEF SwitchTerminal, Idle, cconrs
<1>2. lflag \ flags \in SUBSET Flag
  BY DEF Inv, InputType
<1>3. InputType' /\ MarksRight' /\ lflag' = lflag \ flags /\ UNCHANGED <<tty, ended>>
  BY <1>1, <1>2, SetFlagsKeeps DEF Inv
<1>4. ~ LineMode(lflag)'
  BY <1>3 DEF LineMode
<1>5. ~ Waits'
  BY <1>1, <1>3, <1>4, Available DEF Inv, Waits, Readable
<1>6. lflag = found
  BY <1>1 DEF Inv, TerminalRestored
<1>7. CallType' /\ LineBegun' /\ Switched'
  BY <1>1, <1>3, <1>4, <1>6 DEF Inv, CallType, LineBegun, Switched, LineMode
<1>8. TerminalRestored' /\ YesMeansInput'
  BY <1>1, <1>5 DEF TerminalRestored, YesMeansInput
<1> QED
  BY <1>3, <1>7, <1>8 DEF Inv

LEMMA RawReadInv ==
  ASSUME Inv, RawRead
  PROVE  Inv'
<1>1. /\ phase = "raw" /\ phase' = "restore"
      /\ UNCHANGED <<temp, maxlen, buf, line, found, running>>
  BY DEF RawRead, cconrs
<1>2. /\ InputType' /\ MarksRight'
      /\ d0' \in Chars \cup {EndOfInput} /\ d0' # -1
  BY ReadCharKeeps DEF RawRead
<1>3. CallType' /\ LineBegun' /\ Switched'
  BY <1>1, <1>2 DEF Inv, CallType, LineBegun, Switched
<1>4. TerminalRestored' /\ YesMeansInput'
  BY <1>1 DEF TerminalRestored, YesMeansInput
<1> QED
  BY <1>2, <1>3, <1>4 DEF Inv

LEMMA RestoreInv ==
  ASSUME Inv, RestoreTerminal
  PROVE  Inv'
<1>1. /\ phase = "restore" /\ phase' = "idle" /\ SetFlags(temp)
      /\ UNCHANGED <<stdin, temp, maxlen, buf, d0, line, found, running>>
  BY DEF RestoreTerminal, restored, cconrs
<1>2. temp = found /\ d0 # -1 /\ temp \in SUBSET Flag
  BY <1>1 DEF Inv, Switched, CallType
<1>3. InputType' /\ MarksRight' /\ lflag' = temp
  BY <1>1, <1>2, SetFlagsKeeps DEF Inv
<1>4. CallType' /\ LineBegun' /\ Switched'
  BY <1>1 DEF Inv, CallType, LineBegun, Switched
<1>5. TerminalRestored' /\ YesMeansInput'
  BY <1>1, <1>2, <1>3 DEF TerminalRestored, YesMeansInput
<1> QED
  BY <1>3, <1>4, <1>5 DEF Inv

(* Cconrs.                                                                 *)
LEMMA CconrsInv ==
  ASSUME Inv, NEW max \in MaxLens, Cconrs(max)
  PROVE  Inv'
<1>1. /\ phase = "idle" /\ maxlen' = max /\ buf' = <<>>
      /\ UNCHANGED <<tty, marks, lflag, ended, stdin, temp, found, running>>
  BY DEF Cconrs, Idle, terminal
<1>2. max \in Nat /\ <<>> \in Seq(Chars) /\ Len(<<>>) = 0
  BY CharAssumption, EmptySeq
<1>3. \/ max < 2 /\ line'.text = <<>> /\ line'.spill \in BOOLEAN /\ d0' = 0 /\ phase' = phase
      \/ ~(max < 2) /\ phase' = "fgets" /\ UNCHANGED <<line, d0>>
  BY DEF Cconrs
<1>4. InputType' /\ MarksRight'
  BY <1>1 DEF Inv, InputType, MarksRight, LineMode
<1>5. CallType'
  <2>1. /\ buf' \in Seq(Chars) /\ Len(buf') = 0 /\ maxlen' \in Nat
        /\ phase' = "fgets" => Len(buf') < maxlen' - 1
    BY <1>1, <1>2, <1>3
  <2>2. /\ phase' \in {"idle", "fgets"} /\ d0' \in Chars \cup {-1, 0, EndOfInput}
        /\ line'.text \in Seq(Chars) /\ line'.spill \in BOOLEAN
    BY <1>1, <1>2, <1>3 DEF Inv, CallType
  <2> QED
    BY <1>1, <2>1, <2>2 DEF Inv, CallType
<1>6. LineBegun' /\ Switched'
  BY <1>1, <1>2, <1>3 DEF Inv, LineBegun, Switched
<1>7. TerminalRestored' /\ YesMeansInput'
  BY <1>1, <1>3 DEF Inv, TerminalRestored, YesMeansInput
<1> QED
  BY <1>4, <1>5, <1>6, <1>7 DEF Inv

LEMMA LineText ==
  ASSUME NEW text \in Seq(Chars), text # <<>>
  PROVE  WithoutNL(text) \in Seq(Chars)
<1>1. Len(text) \in Nat \ {0} /\ \A i \in 1 .. Len(text) : text[i] \in Chars
  BY EmptySeq, ElementOfSeq
<1>2. \A n \in {Len(text), Len(text) - 1} : SubSeq(text, 1, n) \in Seq(Chars)
  <2> SUFFICES ASSUME NEW n \in {Len(text), Len(text) - 1}
               PROVE  SubSeq(text, 1, n) \in Seq(Chars)
    OBVIOUS
  <2>1. n \in Int /\ \A i \in 1 .. n : text[i] \in Chars
    BY <1>1
  <2> QED
    BY <2>1, SubSeqProperties
<1> QED
  BY <1>2 DEF WithoutNL

LEMMA FgetsInv ==
  ASSUME Inv, NEW c \in Chars, fgets(c)
  PROVE  Inv'
<1>1. /\ phase = "fgets" /\ getchar(c)
      /\ UNCHANGED <<temp, maxlen, found, running>>
  BY DEF fgets
<1>2. InputType' /\ MarksRight' /\ UNCHANGED <<lflag, ended>>
  BY <1>1, GetcharTakes DEF Inv
<1> DEFINE text == Append(buf, c)
<1>3. /\ text \in Seq(Chars) /\ text # <<>> /\ Len(text) = Len(buf) + 1 /\ Len(buf) \in Nat
      /\ \A i \in 1 .. Len(buf) : text[i] = buf[i]
      /\ text[Len(text)] = c
  BY AppendProperties, LenProperties DEF Inv, CallType
<1>4. /\ maxlen \in MaxLens /\ maxlen \in Nat /\ Len(buf) < maxlen - 1 /\ lflag = found
      /\ \A i \in 1 .. Len(buf) : buf[i] # NL
  BY <1>1 DEF Inv, LineBegun, CallType, TerminalRestored
<1>5. CASE LineFull(text)
  <2>1. /\ line' = [text |-> WithoutNL(text), spill |-> FALSE]
        /\ d0' = 0 /\ buf' = <<>> /\ phase' = "idle"
    BY <1>5 DEF fgets
  <2>2. line'.text \in Seq(Chars) /\ line'.spill \in BOOLEAN /\ <<>> \in Seq(Chars)
    BY <1>3, <2>1, LineText, EmptySeq
  <2>3. CallType' /\ LineBegun' /\ Switched'
    BY <1>1, <2>1, <2>2 DEF Inv, CallType, LineBegun, Switched
  <2>4. TerminalRestored' /\ YesMeansInput'
    BY <1>1, <1>2, <1>4, <2>1 DEF TerminalRestored, YesMeansInput
  <2> QED
    BY <1>2, <2>3, <2>4 DEF Inv
<1>6. CASE ~ LineFull(text)
  <2>1. buf' = text /\ UNCHANGED <<line, d0, phase>>
    BY <1>6 DEF fgets
  <2>2. Len(text) # maxlen - 1 /\ c # NL
    BY <1>3, <1>6 DEF LineFull
  <2> HIDE DEF text
  <2>3. Len(buf') < maxlen' - 1 /\ buf' \in Seq(Chars)
    BY <1>1, <1>3, <1>4, <2>1, <2>2
  <2>4. CallType'
    BY <1>1, <2>1, <2>3 DEF Inv, CallType
  <2>5. \A i \in 1 .. Len(buf') : buf'[i] # NL
    BY <1>3, <1>4, <2>1, <2>2
  <2>6. LineBegun' /\ Switched'
    BY <1>1, <1>4, <2>1, <2>5 DEF Inv, LineBegun, Switched
  <2>7. TerminalRestored' /\ YesMeansInput'
    BY <1>1, <1>2, <1>4, <2>1 DEF TerminalRestored, YesMeansInput
  <2> QED
    BY <1>2, <2>4, <2>6, <2>7 DEF Inv
<1> QED
  BY <1>5, <1>6

LEMMA FgetsEndInv ==
  ASSUME Inv, fgetsEnd
  PROVE  Inv'
<1>1. /\ phase = "fgets" /\ phase' = "idle" /\ d0' = 0 /\ buf' = <<>>
      /\ UNCHANGED <<tty, marks, lflag, ended, stdin, temp, maxlen, found, running>>
  BY DEF fgetsEnd, terminal
<1>2. line'.text \in Seq(Chars) /\ line'.spill \in BOOLEAN
  <2>1. CASE buf # <<>>
    <3>1. line' = [text |-> buf, spill |-> FALSE]
      BY <2>1 DEF fgetsEnd
    <3> QED
      BY <3>1 DEF Inv, CallType
  <2>2. CASE buf = <<>>
    <3>1. PICK n \in 0 .. maxlen :
             \E text \in [1 .. n -> Chars], spill \in BOOLEAN :
                line' = [text |-> text, spill |-> spill]
      BY <2>2 DEF fgetsEnd
    <3>2. PICK text \in [1 .. n -> Chars], spill \in BOOLEAN :
             line' = [text |-> text, spill |-> spill]
      BY <3>1
    <3>3. text \in Seq(Chars)
      BY <3>1, <3>2, SeqDef DEF Inv, CallType
    <3> QED
      BY <3>2, <3>3
  <2> QED
    BY <2>1, <2>2
<1>3. InputType' /\ MarksRight'
  BY <1>1 DEF Inv, InputType, MarksRight, LineMode
<1>4. CallType' /\ LineBegun' /\ Switched'
  BY <1>1, <1>2, EmptySeq DEF Inv, CallType, LineBegun, Switched
<1>5. TerminalRestored' /\ YesMeansInput'
  BY <1>1 DEF Inv, TerminalRestored, YesMeansInput
<1> QED
  BY <1>3, <1>4, <1>5 DEF Inv

LEMMA NextInv == Inv /\ [Next]_vars => Inv'
<1> SUFFICES ASSUME Inv, [Next]_vars PROVE Inv'
  OBVIOUS
<1>1. ASSUME NEW c \in Chars, Type(c) \/ fgets(c) PROVE Inv'
  BY <1>1, TypeInv, FgetsInv
<1>2. CASE EndInput
  BY <1>2, EndInputInv
<1>3. CASE Interrupt \/ UNCHANGED vars
  BY <1>3, InterruptInv
<1>4. CASE Cconis \/ Bconstat
  BY <1>4, PollInv DEF Bconstat
<1>5. CASE Cconin \/ Bconin
  BY <1>5, CharInv, PollInv DEF Cconin, Bconin
<1>6. CASE Crawio \/ Crawcin
  <2>1. {"ICANON"} \in SUBSET Flag /\ {"ICANON", "ECHO"} \in SUBSET Flag
    BY DEF Flag
  <2> QED
    BY <1>6, <2>1, SwitchInv, PollInv DEF Crawio, Crawcin
<1>7. CASE RawRead \/ RestoreTerminal
  BY <1>7, RawReadInv, RestoreInv
<1>8. ASSUME NEW max \in MaxLens, Cconrs(max) PROVE Inv'
  BY <1>8, CconrsInv
<1>9. CASE fgetsEnd
  BY <1>9, FgetsEndInv
<1> QED
  BY <1>1, <1>2, <1>3, <1>4, <1>5, <1>6, <1>7, <1>8, <1>9 DEF Next

LEMMA SpecInv == Spec => []Inv
  BY InitInv, NextInv, PTL DEF Spec

(* Values keep their types, and the marks lie where a read can end.        *)
THEOREM TypeCorrect == Spec => []TypeOK
  BY SpecInv, InvTypes, PTL

(* The terminal is as it was found whenever the program is in control, and *)
(* the emulator never waits for a key while it is not.                     *)
THEOREM TerminalIsRestored == Spec => []TerminalRestored
<1>1. Inv => TerminalRestored
  BY DEF Inv
<1> QED
  BY <1>1, SpecInv, PTL

(* Behind a poll that said yes no read waits.                              *)
THEOREM YesIsTrue == Spec => []YesMeansInput
<1>1. Inv => YesMeansInput
  BY DEF Inv
<1> QED
  BY <1>1, SpecInv, PTL

-----------------------------------------------------------------------------
(* The refinement.  What is pending in Keyboard:                           *)
Pending == buf \o stdin \o tty

LEMMA PendingFacts ==
  ASSUME Inv
  PROVE  /\ stdin \o tty \in Seq(Chars) /\ Pending \in Seq(Chars)
         /\ Pending = buf \o (stdin \o tty)
         /\ buf = <<>> => Pending = stdin \o tty
         /\ Pending = <<>> <=> buf = <<>> /\ stdin = <<>> /\ tty = <<>>
<1>1. buf \in Seq(Chars) /\ stdin \in Seq(Chars) /\ tty \in Seq(Chars)
  BY DEF Inv, InputType, CallType
<1>2. stdin \o tty \in Seq(Chars) /\ buf \o stdin \in Seq(Chars) /\ Pending \in Seq(Chars)
  BY <1>1, ConcatProperties DEF Pending
<1>3. Pending = buf \o (stdin \o tty)
  BY <1>1, ConcatAssociative DEF Pending
<1>4. buf = <<>> => Pending = stdin \o tty
  BY <1>2, <1>3, ConcatEmptySeq
<1>5. Pending = <<>> <=> buf = <<>> /\ stdin = <<>> /\ tty = <<>>
  <2>1. Pending = <<>> <=> buf = <<>> /\ stdin \o tty = <<>>
    BY <1>1, <1>2, <1>3, ConcatEqualIffEmpty
  <2>2. stdin \o tty = <<>> <=> stdin = <<>> /\ tty = <<>>
    BY <1>1, ConcatEqualIffEmpty
  <2> QED
    BY <2>1, <2>2
<1> QED
  BY <1>2, <1>3, <1>4, <1>5

(* A sequence cut behind its first part.                                   *)
LEMMA CutBehind ==
  ASSUME NEW S, NEW s \in Seq(S), NEW t \in Seq(S)
  PROVE  /\ SubSeq(s \o t, Len(s) + 1, Len(s \o t)) = t
         /\ \A k \in 0 .. Len(s) : SubSeq(s \o t, 1, k) = SubSeq(s, 1, k)
         /\ \A k \in 1 .. Len(s) : (s \o t)[k] = s[k]
         /\ Len(s) \in 0 .. Len(s \o t)
<1>1. Len(s) \in Nat /\ Len(t) \in Nat /\ Len(s \o t) = Len(s) + Len(t)
  BY LenProperties, ConcatProperties
<1>2. SubSeq(s \o t, Len(s) + 1, Len(s \o t)) = t
  <2>1. CASE t = <<>>
    <3>1. Len(s \o t) < Len(s) + 1
      BY <1>1, <2>1, EmptySeq
    <3> QED
      BY <1>1, <2>1, <3>1, SubSeqEmpty
  <2>2. CASE t # <<>>
    <3>1. Len(t) >= 1
      BY <1>1, <2>2, EmptySeq
    <3>2. /\ Len(s) + 1 \in Len(s) + 1 .. Len(s) + Len(t)
          /\ Len(s) + Len(t) \in Len(s) + 1 .. Len(s) + Len(t)
      BY <1>1, <3>1
    <3>3. SubSeq(s \o t, Len(s) + 1, Len(s) + Len(t))
             = SubSeq(t, Len(s) + 1 - Len(s), Len(s) + Len(t) - Len(s))
      BY <3>2, SubSeqOfConcat2
    <3>4. Len(s) + 1 - Len(s) = 1 /\ Len(s) + Len(t) - Len(s) = Len(t)
      BY <1>1
    <3> QED
      BY <1>1, <3>3, <3>4, SubSeqFull
  <2> QED
    BY <2>1, <2>2
<1>3. ASSUME NEW k \in 0 .. Len(s)
      PROVE  SubSeq(s \o t, 1, k) = SubSeq(s, 1, k)
  <2>1. CASE k = 0
    BY <2>1, SubSeqEmpty
  <2>2. CASE k # 0
    <3>1. 1 \in 1 .. Len(s) /\ k \in 1 .. Len(s)
      BY <1>1, <1>3, <2>2
    <3> QED
      BY <3>1, SubSeqOfConcat1
  <2> QED
    BY <2>1, <2>2
<1>4. ASSUME NEW k \in 1 .. Len(s)
      PROVE  (s \o t)[k] = s[k]
  BY <1>1, <1>4, ConcatProperties
<1> QED
  BY <1>1, <1>2, <1>3, <1>4

LEMMA InitRefines == Init => Promise!Init
<1> SUFFICES ASSUME Init PROVE Promise!Init
  OBVIOUS
<1>1. buf \o stdin \o tty = <<>>
  BY InitInv, PendingFacts DEF Init, Pending
<1> QED
  BY <1>1 DEF Init, Promise!Init

LEMMA TypeRefines ==
  ASSUME Inv, NEW c \in Chars, Type(c)
  PROVE  Promise!Type(c)
<1>1. /\ tty' = Append(tty, c) /\ ~ ended
      /\ UNCHANGED <<ended, stdin, buf, d0, line>>
  BY DEF Type, cconrs
<1>2. /\ buf \in Seq(Chars) /\ stdin \in Seq(Chars) /\ tty \in Seq(Chars)
      /\ buf \o stdin \in Seq(Chars) /\ <<c>> \in Seq(Chars)
  BY ConcatProperties DEF Inv, InputType, CallType
<1>3. (buf \o stdin) \o (tty \o <<c>>) = ((buf \o stdin) \o tty) \o <<c>>
  BY <1>2, ConcatAssociative
<1>4. Append(tty, c) = tty \o <<c>> /\ Append(Pending, c) = Pending \o <<c>>
  BY <1>2, PendingFacts, AppendIsConcat
<1>5. Pending' = Append(Pending, c)
  BY <1>1, <1>3, <1>4 DEF Pending
<1> QED
  BY <1>1, <1>5 DEF Promise!Type, Pending

(* Steps that change nothing a program is promised anything about.         *)
Unnoticed == UNCHANGED <<Pending, ended, d0, line>>

LEMMA UnnoticedRefines == Unnoticed => UNCHANGED Promise!vars
  BY DEF Unnoticed, Pending, Promise!vars

LEMMA HiddenRefines ==
  ASSUME Inv, \/ Interrupt \/ UNCHANGED vars \/ RestoreTerminal
              \/ \E flags \in SUBSET Flag : SwitchTerminal(flags)
  PROVE  Unnoticed
<1>1. UNCHANGED <<tty, ended, stdin, buf, d0, line>>
  BY DEF Interrupt, vars, terminal, cconrs, RestoreTerminal, SwitchTerminal, SetFlags
<1> QED
  BY <1>1 DEF Unnoticed, Pending

LEMMA EndInputRefines ==
  ASSUME EndInput
  PROVE  Promise!End
<1>1. ended' = TRUE /\ UNCHANGED <<tty, stdin, buf, d0, line>>
  BY DEF EndInput, cconrs
<1> QED
  BY <1>1 DEF Promise!End

LEMMA PollRefines ==
  ASSUME Inv, Cconis \/ NoInput
  PROVE  Promise!Yes \/ Promise!Nothing
<1>1. /\ UNCHANGED <<tty, ended, stdin, buf, line>>
      /\ d0' = 0 \/ (d0' = -1 /\ console_input_available)
  BY DEF Cconis, NoInput, terminal, cconrs
<1>2. console_input_available => Pending # <<>> \/ ended
  BY Available, PendingFacts DEF Inv
<1> QED
  BY <1>1, <1>2 DEF Promise!Yes, Promise!Nothing, Pending

LEMMA CharRefines ==
  ASSUME Inv, ReadChar, phase # "fgets", UNCHANGED <<buf, line>>
  PROVE  Promise!Read
<1>1. buf = <<>> /\ buf' = <<>>
  BY DEF Inv, LineBegun
<1>2. Pending = stdin \o tty
  BY <1>1, PendingFacts
<1>3. ASSUME NEW c \in Chars, getchar(c), d0' = c
      PROVE  Promise!Read
  <2>1. /\ InputType' /\ ended' = ended
        /\ Pending # <<>> /\ c = Head(Pending)
        /\ stdin' \o tty' = Tail(Pending)
    BY <1>2, <1>3, GetcharTakes DEF Inv
  <2>2. (buf \o stdin \o tty)' = Tail(Pending)
    <3>1. stdin' \in Seq(Chars)
      BY <2>1 DEF InputType
    <3>2. buf' \o stdin' = stdin'
      BY <1>1, <3>1, ConcatEmptySeq
    <3> QED
      BY <2>1, <3>2
  <2> QED
    BY <1>3, <2>1, <2>2 DEF Promise!Read, Promise!Exhausted, Pending
<1>4. CASE AtEnd /\ d0' = EndOfInput /\ UNCHANGED <<terminal, stdin>>
  <2>1. UNCHANGED <<tty, ended, stdin, buf, line>> /\ ended /\ d0' = EndOfInput
    BY <1>4 DEF terminal, AtEnd
  <2>2. Pending = <<>>
    BY <1>1, <1>4, PendingFacts DEF AtEnd
  <2> QED
    BY <2>1, <2>2 DEF Promise!Read, Promise!Exhausted, Pending
<1> QED
  BY <1>3, <1>4 DEF ReadChar

LEMMA CconrsRefines ==
  ASSUME Inv, NEW max \in MaxLens, Cconrs(max)
  PROVE  Promise!NoLine(max) \/ Unnoticed
<1>1. /\ phase = "idle" /\ buf' = <<>>
      /\ UNCHANGED <<tty, ended, stdin>>
  BY DEF Cconrs, Idle, terminal
<1>2. buf = <<>> /\ Pending' = Pending
  BY <1>1 DEF Inv, LineBegun, Pending
<1>3. CASE max < 2
  <2>1. line'.text = <<>> /\ d0' = 0
    BY <1>3 DEF Cconrs
  <2>2. max \in Nat /\ <<>> \in [1 .. 0 -> Chars] /\ 0 \in 0 .. max
    BY CharAssumption, EmptySeq, LenProperties
  <2> QED
    BY <1>1, <1>2, <1>3, <2>1, <2>2 DEF Promise!NoLine, Pending
<1>4. CASE ~(max < 2)
  BY <1>1, <1>2, <1>4 DEF Cconrs, Unnoticed
<1> QED
  BY <1>3, <1>4

(* A line is complete: the beginning of what was pending is delivered.     *)
LEMMA LineRefines ==
  ASSUME NEW max \in MaxLens,
         NEW text \in Seq(Chars), text # <<>>, NEW rest \in Seq(Chars),
         Pending = text \o rest, Pending' = rest,
         Len(text) < max,
         \A i \in 1 .. Len(text) - 1 : text[i] # NL,
         \/ Len(text) = max - 1
         \/ text[Len(text)] = NL
         \/ ended /\ rest = <<>>,
         line' = [text |-> WithoutNL(text), spill |-> FALSE],
         d0' = 0, UNCHANGED ended
  PROVE  Promise!ReadLine(max)
<1> DEFINE n == Len(text)
<1>1. n \in Nat \ {0} /\ max \in Nat
  BY EmptySeq, CharAssumption
<1>2. /\ SubSeq(Pending, n + 1, Len(Pending)) = rest
      /\ \A k \in 0 .. n : SubSeq(Pending, 1, k) = SubSeq(text, 1, k)
      /\ \A k \in 1 .. n : Pending[k] = text[k]
      /\ n \in 0 .. Len(Pending)
  BY CutBehind
<1>3. rest = <<>> => n = Len(Pending)
  <2>1. rest = <<>> => Pending = text
    BY ConcatEmptySeq
  <2> QED
    BY <2>1
<1> HIDE DEF n
<1>4. n \in 1 .. Len(Pending) /\ Pending[n] = text[n]
  BY <1>1, <1>2
<1>5. Promise!IsLine(n, max)
  <2>1. \A i \in 1 .. n - 1 : Pending[i] # NL
    BY <1>1, <1>2 DEF n
  <2>2. n = max - 1 \/ Pending[n] = NL \/ (ended /\ n = Len(Pending))
    BY <1>3, <1>4 DEF n
  <2>3. n < max
    BY DEF n
  <2> QED
    BY <1>4, <2>1, <2>2, <2>3 DEF Promise!IsLine, Pending
<1>6. WithoutNL(text) = SubSeq(Pending, 1, IF Pending[n] = NL THEN n - 1 ELSE n)
  <2>1. n - 1 \in 0 .. n /\ n \in 0 .. n
    BY <1>1
  <2>2. WithoutNL(text) = SubSeq(text, 1, IF text[n] = NL THEN n - 1 ELSE n)
    BY DEF WithoutNL, n
  <2> QED
    BY <1>2, <1>4, <2>1, <2>2
<1> QED
  BY <1>2, <1>4, <1>5, <1>6 DEF Promise!ReadLine, Pending

LEMMA FgetsRefines ==
  ASSUME Inv, NEW c \in Chars, fgets(c)
  PROVE  (\E max \in MaxLens : Promise!ReadLine(max)) \/ Unnoticed
<1> DEFINE text == Append(buf, c)
           q == stdin \o tty
           rest == stdin' \o tty'
<1>1. phase = "fgets" /\ getchar(c) /\ maxlen' = maxlen
  BY DEF fgets
<1>2. /\ maxlen \in MaxLens /\ maxlen \in Nat /\ Len(buf) < maxlen - 1
      /\ buf \in Seq(Chars) /\ \A i \in 1 .. Len(buf) : buf[i] # NL
  BY <1>1 DEF Inv, LineBegun, CallType
<1>3. /\ InputType' /\ ended' = ended
      /\ q # <<>> /\ c = Head(q) /\ rest = Tail(q)
  BY <1>1, GetcharTakes DEF Inv
<1>4. q \in Seq(Chars) /\ Pending = buf \o q
  BY PendingFacts
<1>5. rest \in Seq(Chars) /\ q = <<c>> \o rest
  <2>1. stdin' \in Seq(Chars) /\ tty' \in Seq(Chars)
    BY <1>3 DEF InputType
  <2>2. rest \in Seq(Chars)
    BY <2>1, ConcatProperties
  <2>3. q = <<c>> \o rest
    <3> HIDE DEF q, rest
    <3>1. Len(q) \in Nat \ {0}
      BY <1>3, <1>4, EmptySeq
    <3>2. SubSeq(q, 1, Len(q)) = <<q[1]>> \o SubSeq(q, 2, Len(q))
      BY <1>4, <3>1, SubSeqRecursiveFirst
    <3> QED
      BY <1>3, <1>4, <3>1, <3>2, SubSeqFull, TailIsSubSeq
  <2> QED
    BY <2>2, <2>3
<1>6. /\ text \in Seq(Chars) /\ text # <<>> /\ Len(text) = Len(buf) + 1 /\ Len(buf) \in Nat
      /\ \A i \in 1 .. Len(buf) : text[i] = buf[i]
      /\ text = buf \o <<c>>
  BY <1>2, AppendProperties, LenProperties, AppendIsConcat
<1> HIDE DEF text, q
<1>7. Pending = text \o rest
  <2>1. <<c>> \in Seq(Chars)
    OBVIOUS
  <2>2. (buf \o <<c>>) \o rest = buf \o (<<c>> \o rest)
    BY <1>2, <1>5, <2>1, ConcatAssociative
  <2> QED
    BY <1>4, <1>5, <1>6, <2>2
<1>8. CASE LineFull(text)
  <2>1. line' = [text |-> WithoutNL(text), spill |-> FALSE] /\ d0' = 0 /\ buf' = <<>>
    BY <1>8 DEF fgets, text
  <2>2. Pending' = rest
    <3>1. stdin' \in Seq(Chars)
      BY <1>3 DEF InputType
    <3>2. buf' \o stdin' = stdin'
      BY <2>1, <3>1, ConcatEmptySeq
    <3> QED
      BY <3>2 DEF Pending
  <2>3. /\ Len(text) < maxlen
        /\ \A i \in 1 .. Len(text) - 1 : text[i] # NL
        /\ Len(text) = maxlen - 1 \/ text[Len(text)] = NL
    BY <1>2, <1>6, <1>8 DEF LineFull
  <2> HIDE DEF rest
  <2>4. Promise!ReadLine(maxlen)
    BY <1>2, <1>3, <1>5, <1>6, <1>7, <2>1, <2>2, <2>3, LineRefines
  <2> QED
    BY <1>2, <2>4
<1>9. CASE ~ LineFull(text)
  <2>1. buf' = text /\ UNCHANGED <<line, d0>>
    BY <1>9 DEF fgets, text
  <2>2. stdin' \in Seq(Chars) /\ tty' \in Seq(Chars)
    BY <1>3 DEF InputType
  <2>3. (text \o stdin') \o tty' = text \o (stdin' \o tty')
    BY <1>6, <2>2, ConcatAssociative
  <2>4. Pending' = Pending
    BY <1>7, <2>1, <2>3 DEF Pending
  <2> QED
    BY <1>3, <2>1, <2>4 DEF Unnoticed
<1> QED
  BY <1>8, <1>9

LEMMA FgetsEndRefines ==
  ASSUME Inv, fgetsEnd
  PROVE  \E max \in MaxLens : Promise!ReadLine(max) \/ Promise!NoLine(max)
<1>1. /\ phase = "fgets" /\ ended /\ stdin = <<>> /\ tty = <<>>
      /\ d0' = 0 /\ buf' = <<>>
      /\ UNCHANGED <<tty, ended, stdin>>
  BY DEF fgetsEnd, AtEnd, terminal
<1>2. /\ maxlen \in MaxLens /\ maxlen \in Nat /\ Len(buf) < maxlen - 1
      /\ buf \in Seq(Chars) /\ Len(buf) \in Nat /\ \A i \in 1 .. Len(buf) : buf[i] # NL
  BY <1>1, LenProperties DEF Inv, LineBegun, CallType
<1>3. <<>> \in Seq(Chars) /\ <<>> \o <<>> = <<>>
  BY EmptySeq, ConcatEmptySeq
<1>4. Pending = buf \o <<>> /\ Pending = buf /\ Pending' = <<>>
  BY <1>1, <1>2, <1>3, ConcatEmptySeq, PendingFacts DEF Pending
<1>5. CASE buf # <<>>
  <2>1. Len(buf) \in 1 .. Len(buf) /\ buf[Len(buf)] # NL
    BY <1>2, <1>5, EmptySeq
  <2>2. line' = [text |-> buf, spill |-> FALSE]
    BY <1>5 DEF fgetsEnd
  <2>3. WithoutNL(buf) = buf
    BY <1>2, <2>1, SubSeqFull DEF WithoutNL
  <2>4. \A i \in 1 .. Len(buf) - 1 : buf[i] # NL
    BY <1>2
  <2>5. Len(buf) < maxlen
    BY <1>2
  <2>6. Promise!ReadLine(maxlen)
    BY <1>1, <1>2, <1>3, <1>4, <1>5, <2>2, <2>3, <2>4, <2>5, LineRefines
  <2> QED
    BY <1>2, <2>6
<1>6. CASE buf = <<>>
  <2>1. PICK n \in 0 .. maxlen :
           \E text \in [1 .. n -> Chars], spill \in BOOLEAN :
              line' = [text |-> text, spill |-> spill]
    BY <1>6 DEF fgetsEnd
  <2>2. line'.text \in [1 .. n -> Chars]
    BY <2>1
  <2>3. Promise!NoLine(maxlen)
    BY <1>1, <1>4, <1>6, <2>1, <2>2 DEF Promise!NoLine, Promise!Exhausted, Pending
  <2> QED
    BY <1>2, <2>3
<1> QED
  BY <1>5, <1>6

LEMMA NextRefines == Inv /\ [Next]_vars => [Promise!Next]_(Promise!vars)
<1> SUFFICES ASSUME Inv, [Next]_vars PROVE Promise!Next \/ Unnoticed
  BY UnnoticedRefines
<1>1. ASSUME NEW c \in Chars, Type(c) PROVE Promise!Next
  BY <1>1, TypeRefines DEF Promise!Next
<1>2. ASSUME NEW c \in Chars, fgets(c) PROVE Promise!Next \/ Unnoticed
  BY <1>2, FgetsRefines DEF Promise!Next
<1>3. CASE EndInput
  BY <1>3, EndInputRefines DEF Promise!Next
<1>4. CASE Interrupt \/ UNCHANGED vars \/ RestoreTerminal
  BY <1>4, HiddenRefines
<1>5. CASE Cconis \/ Bconstat \/ NoInput
  BY <1>5, PollRefines DEF Bconstat, Promise!Next
<1>6. CASE Cconin \/ Bconin
  <2>1. CASE NoInput
    BY <2>1, <1>5
  <2>2. CASE ~ NoInput
    <3>1. Idle /\ ReadChar /\ UNCHANGED <<cconrs, line>>
      BY <1>6, <2>2 DEF Cconin, Bconin
    <3>2. phase # "fgets" /\ UNCHANGED <<buf, line>>
      BY <3>1 DEF Idle, cconrs
    <3> QED
      BY <3>1, <3>2, CharRefines DEF Promise!Next
  <2> QED
    BY <2>1, <2>2
<1>7. CASE Crawio \/ Crawcin
  <2>1. {"ICANON"} \in SUBSET Flag /\ {"ICANON", "ECHO"} \in SUBSET Flag
    BY DEF Flag
  <2>2. NoInput \/ \E flags \in SUBSET Flag : SwitchTerminal(flags)
    BY <1>7, <2>1 DEF Crawio, Crawcin
  <2> QED
    BY <1>5, <2>2, HiddenRefines
<1>8. CASE RawRead
  <2>1. ReadChar /\ phase # "fgets" /\ UNCHANGED <<buf, line>>
    BY <1>8 DEF RawRead, cconrs
  <2> QED
    BY <2>1, CharRefines DEF Promise!Next
<1>9. ASSUME NEW max \in MaxLens, Cconrs(max) PROVE Promise!Next \/ Unnoticed
  BY <1>9, CconrsRefines DEF Promise!Next
<1>10. CASE fgetsEnd
  BY <1>10, FgetsEndRefines DEF Promise!Next
<1> QED
  BY <1>1, <1>2, <1>3, <1>4, <1>5, <1>6, <1>7, <1>8, <1>9, <1>10 DEF Next

(* Whatever mixture of calls a program reads with, it gets what was typed, *)
(* in order and once.                                                      *)
THEOREM KeyboardImplemented == Spec => ImplementsKeyboard
  BY InitRefines, NextRefines, SpecInv, PTL DEF Spec, ImplementsKeyboard, Promise!Spec

=============================================================================
