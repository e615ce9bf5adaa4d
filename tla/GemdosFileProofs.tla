-------------------------- MODULE GemdosFileProofs --------------------------
(***************************************************************************)
(* Theorems about GemdosFile, for every size of the table, of the buffers  *)
(* and of the host's descriptor table, and for every program.              *)
(***************************************************************************)
EXTENDS GemdosFile, SequenceTheorems, TLAPS

LEMMA OverlayType ==
  ASSUME NEW bytes \in Seq(Bytes), NEW off \in Nat, NEW data \in Seq(Bytes)
  PROVE  Overlay(bytes, off, data) \in Seq(Bytes)
<1> DEFINE end == off + Len(data)
           len == IF end > Len(bytes) THEN end ELSE Len(bytes)
           new == [i \in 1 .. len |->
                     IF off < i /\ i <= end THEN data[i - off]
                     ELSE IF i <= Len(bytes) THEN bytes[i] ELSE Zero]
<1>1. len \in Nat
  OBVIOUS
<1>2. \A i \in 1 .. len : new[i] \in Bytes
  BY TableAssumption, ElementOfSeq
<1>3. new \in [1 .. len -> Bytes]
  BY <1>2
<1>4. new \in Seq(Bytes)
  BY <1>1, <1>3, SeqDef
<1> QED
  BY <1>4 DEF Overlay

LEMMA SliceType ==
  ASSUME NEW bytes \in Seq(Bytes), NEW off \in Nat, NEW n \in Nat
  PROVE  Slice(bytes, off, n) \in Seq(Bytes)
<1>1. \A i \in off + 1 .. (IF off + n < Len(bytes) THEN off + n ELSE Len(bytes)) :
         bytes[i] \in Bytes
  BY ElementOfSeq
<1> QED
  BY <1>1, SubSeqProperties DEF Slice

(* A part of a buffer is a sequence of bytes again.                        *)
LEMMA PartType ==
  ASSUME NEW bytes \in Seq(Bytes), NEW m \in Nat \ {0}, NEW n \in 0 .. Len(bytes)
  PROVE  SubSeq(bytes, m, n) \in Seq(Bytes)
<1>1. \A i \in m .. n : bytes[i] \in Bytes
  BY ElementOfSeq
<1> QED
  BY <1>1, SubSeqProperties

-----------------------------------------------------------------------------
(* No open stream is on a file that does not exist: files are deleted only *)
(* when nothing has them open.                                             *)
StreamsHaveFiles == \A fd \in DOMAIN host : host[fd].file \in DOMAIN content

Inv == TypeOK /\ HandlesOwnStreams /\ StreamsHaveFiles

Contents(c) == /\ DOMAIN c \subseteq Files \cup {Stdin, Stdout}
               /\ \A file \in DOMAIN c : c[file] \in Seq(Bytes)

(* What a handle in use stands for.                                        *)
LEMMA HandleStream ==
  ASSUME Inv, NEW h, WithStream(h)
  PROVE  /\ h \in Handle /\ h \in OpenHandles
         /\ handles[h].f \in DOMAIN host
         /\ host[handles[h].f] \in Stream
         /\ host[handles[h].f].file \in DOMAIN content
<1>1. h \in Handle /\ h \in OpenHandles
  BY DEF WithStream, GoodHandle, invalid_handle, OpenHandles
<1> QED
  BY <1>1 DEF Inv, HandlesOwnStreams, StreamsHaveFiles, TypeOK

LEMMA WrittenType ==
  ASSUME Contents(content), NEW s \in Stream, s.file \in DOMAIN content
  PROVE  Contents(Written(s)) /\ DOMAIN Written(s) = DOMAIN content
<1>1. Overlay(content[s.file], s.off, s.pending) \in Seq(Bytes)
  BY OverlayType DEF Contents, Stream
<1> QED
  BY <1>1 DEF Contents, Written, Set

(* A stream with one field changed.                                        *)
LEMMA EditAhead ==
  ASSUME NEW s \in Stream, NEW x \in Seq(Bytes)
  PROVE  /\ [s EXCEPT !.ahead = x] \in Stream
         /\ [s EXCEPT !.ahead = x].file = s.file
         /\ [s EXCEPT !.ahead = x].off = s.off
         /\ [s EXCEPT !.ahead = x].pending = s.pending
  BY DEF Stream

LEMMA EditPending ==
  ASSUME NEW s \in Stream, NEW x \in Seq(Bytes)
  PROVE  /\ [s EXCEPT !.pending = x] \in Stream
         /\ [s EXCEPT !.pending = x].file = s.file
         /\ [s EXCEPT !.pending = x].off = s.off
         /\ [s EXCEPT !.pending = x].pending = x
  BY DEF Stream

LEMMA EditOff ==
  ASSUME NEW s \in Stream, NEW x \in Nat
  PROVE  /\ [s EXCEPT !.off = x] \in Stream
         /\ [s EXCEPT !.off = x].file = s.file
         /\ [s EXCEPT !.off = x].pending = s.pending
  BY DEF Stream

LEMMA EditErr ==
  ASSUME NEW s \in Stream
  PROVE  [s EXCEPT !.err = TRUE] \in Stream /\ [s EXCEPT !.err = TRUE].file = s.file
  BY DEF Stream

LEMMA FillType ==
  ASSUME Contents(content), NEW s \in Stream, s.file \in DOMAIN content, NEW n \in Nat
  PROVE  fill(s, n) \in Stream /\ fill(s, n).file = s.file
<1> DEFINE lacking == n - Len(s.ahead)
           off == s.off + Len(s.pending)
           want == BUFSIZ * ((lacking + BUFSIZ - 1) \div BUFSIZ)
           got == IF lacking <= 0 THEN <<>> ELSE Slice(Written(s)[s.file], off, want)
<1>1. s.ahead \in Seq(Bytes) /\ s.pending \in Seq(Bytes) /\ s.off \in Nat /\ off \in Nat
  BY DEF Stream
<1>2. lacking \in Int
  BY <1>1
<1>3. lacking > 0 => want \in Nat
  <2> SUFFICES ASSUME lacking > 0 PROVE want \in Nat
    OBVIOUS
  <2>1. \A x, y \in Nat : y > 0 => x \div y \in Nat
    OBVIOUS
  <2>2. lacking + BUFSIZ - 1 \in Nat /\ BUFSIZ \in Nat /\ BUFSIZ > 0
    BY <1>2, TableAssumption
  <2>3. (lacking + BUFSIZ - 1) \div BUFSIZ \in Nat
    BY <2>1, <2>2
  <2>4. \A x, y \in Nat : x * y \in Nat
    OBVIOUS
  <2> QED
    BY <2>2, <2>3, <2>4
<1>4. Written(s)[s.file] \in Seq(Bytes)
  BY WrittenType DEF Contents
<1> HIDE DEF want, off, lacking
<1>5. got \in Seq(Bytes)
  <2>1. CASE lacking <= 0
    BY <2>1
  <2>2. CASE ~ (lacking <= 0)
    <3>1. want \in Nat
      BY <1>2, <1>3, <2>2
    <3>2. Slice(Written(s)[s.file], off, want) \in Seq(Bytes)
      BY <1>1, <1>4, <3>1, SliceType
    <3> QED
      BY <2>2, <3>2
  <2> QED
    BY <2>1, <2>2
<1> HIDE DEF got
<1> DEFINE t1 == [s EXCEPT !.ahead = s.ahead \o got]
           t2 == [t1 EXCEPT !.off = off + Len(got)]
           t3 == [t2 EXCEPT !.pending = <<>>]
<1>6. t1 \in Stream /\ t1.file = s.file
  <2>1. s.ahead \o got \in Seq(Bytes)
    BY <1>1, <1>5
  <2> QED
    BY <2>1, EditAhead
<1> HIDE DEF t1
<1>7. t2 \in Stream /\ t2.file = s.file
  <2>1. off + Len(got) \in Nat
    BY <1>1, <1>5
  <2> QED
    BY <1>6, <2>1, EditOff
<1> HIDE DEF t2
<1>8. t3 \in Stream /\ t3.file = s.file
  <2>1. <<>> \in Seq(Bytes)
    OBVIOUS
  <2> QED
    BY <1>7, <2>1, EditPending
<1>9. fill(s, n) = t3
  BY DEF fill, t3, t2, t1, got, want, off, lacking
<1> QED
  BY <1>8, <1>9

LEMMA AppendType ==
  ASSUME NEW s \in Stream, NEW data \in Seq(Bytes), Len(s.ahead) <= s.off
  PROVE  append(s, data) \in Stream /\ append(s, data).file = s.file
<1> DEFINE t1 == [s EXCEPT !.off = s.off - Len(s.ahead)]
           t2 == [t1 EXCEPT !.ahead = <<>>]
           t3 == [t2 EXCEPT !.pending = s.pending \o data]
<1>1. s.ahead \in Seq(Bytes) /\ s.pending \in Seq(Bytes) /\ s.off \in Nat
  BY DEF Stream
<1>2. s.off - Len(s.ahead) \in Nat
  BY <1>1
<1>3. t1 \in Stream /\ t1.file = s.file /\ t1.pending = s.pending
  BY <1>2, EditOff
<1> HIDE DEF t1
<1>4. t2 \in Stream /\ t2.file = s.file /\ t2.pending = s.pending
  <2>1. <<>> \in Seq(Bytes)
    OBVIOUS
  <2> QED
    BY <1>3, <2>1, EditAhead
<1> HIDE DEF t2
<1>5. t3 \in Stream /\ t3.file = s.file
  <2>1. s.pending \o data \in Seq(Bytes)
    BY <1>1
  <2> QED
    BY <1>4, <2>1, EditPending
<1>6. append(s, data) = t3
  <2>1. t2.pending = s.pending
    BY <1>4
  <2> QED
    BY <2>1 DEF append, t3, t2, t1
<1> QED
  BY <1>5, <1>6

-----------------------------------------------------------------------------
(* The invariant, step by step                                             *)

(* A call that changes one stream, and not the handles.                    *)
LEMMA OneStreamChanges ==
  ASSUME Inv, NEW fd \in DOMAIN host, NEW t \in Stream, t.file = host[fd].file,
         host' = [host EXCEPT ![fd] = t],
         Contents(content'), DOMAIN content' = DOMAIN content,
         result'.d0 \in Int, result'.data \in Seq(Bytes),
         UNCHANGED <<handles, running>>
  PROVE  Inv'
<1>1. DOMAIN host' = DOMAIN host /\ \A d \in DOMAIN host : host'[d] \in Stream
  BY DEF Inv, TypeOK
<1>2. \A d \in DOMAIN host : host'[d].file = host[d].file
  OBVIOUS
<1>3. TypeOK'
  BY <1>1 DEF Inv, TypeOK, Contents
<1>4. OpenHandles' = OpenHandles
  BY DEF OpenHandles
<1>5. HandlesOwnStreams'
  BY <1>1, <1>4 DEF Inv, HandlesOwnStreams
<1>6. StreamsHaveFiles'
  BY <1>1, <1>2 DEF Inv, StreamsHaveFiles
<1> QED
  BY <1>3, <1>5, <1>6 DEF Inv

(* A call that leaves handles, streams and files alone.                    *)
LEMMA NothingChanges ==
  ASSUME Inv, result'.d0 \in Int, result'.data \in Seq(Bytes),
         UNCHANGED <<handles, host, content, running>>
  PROVE  Inv'
<1>1. OpenHandles' = OpenHandles
  BY DEF OpenHandles
<1> QED
  BY <1>1 DEF Inv, TypeOK, HandlesOwnStreams, StreamsHaveFiles

(* The end of the emulator.                                                *)
LEMMA NothingRuns ==
  ASSUME Inv, host' = <<>>, running' = FALSE,
         Contents(content'), UNCHANGED <<handles, result>>
  PROVE  Inv'
<1>1. OpenHandles' = {}
  BY DEF OpenHandles
<1>2. DOMAIN host' = {}
  OBVIOUS
<1> QED
  BY <1>1, <1>2 DEF Inv, TypeOK, HandlesOwnStreams, StreamsHaveFiles, Contents

LEMMA ReturnsType ==
  ASSUME NEW d0 \in Int, Returns(d0)
  PROVE  result'.d0 = d0 /\ result'.d0 \in Int /\ result'.data \in Seq(Bytes)
  BY DEF Returns

LEMMA InitInv == Init => Inv
<1> SUFFICES ASSUME Init PROVE Inv
  OBVIOUS
<1>1. NewStream(Stdin, "r") \in Stream /\ NewStream(Stdout, "w") \in Stream
  BY DEF NewStream, Stream, Mode
<1>2. DOMAIN host = {0, 1, 2} /\ \A fd \in DOMAIN host : host[fd] \in Stream
  BY <1>1 DEF Init
<1>3. handles \in [Handle -> Entry]
  BY TableAssumption DEF Init, Entry
<1>4. TypeOK
  BY <1>2, <1>3, TableAssumption DEF Init, TypeOK
<1>5. OpenHandles \subseteq {0, 1} /\ \A h \in OpenHandles : handles[h].f = h
  BY DEF OpenHandles, Init, NULL
<1>6. HandlesOwnStreams
  BY <1>2, <1>5 DEF HandlesOwnStreams
<1>7. StreamsHaveFiles
  BY DEF StreamsHaveFiles, Init, NewStream
<1> QED
  BY <1>4, <1>6, <1>7 DEF Inv

(* Opening: the stream is new, so no handle has it yet.                    *)
LEMMA OpenInv ==
  ASSUME Inv, NEW file \in Files, NEW mode \in Mode, NEW tableFull \in Int,
         running, Open(file, mode, tableFull)
  PROVE  Inv'
<1>1. PICK fd \in FreeFds :
        /\ HostOpens(file, mode)
        /\ host' = Set(host, fd, NewStream(file, mode))
        /\ content' = IF mode = "w" THEN Set(content, file, <<>>) ELSE content
        /\ IF FreeHandles = {}
           THEN Returns(tableFull) /\ UNCHANGED handles
           ELSE \E h \in FreeHandles : get_handle(h, fd) /\ Returns(h)
        /\ UNCHANGED running
  BY DEF Open
<1>2. fd \in Fds /\ fd \notin DOMAIN host /\ fd # NULL
  BY TableAssumption DEF FreeFds, NULL
<1>3. NewStream(file, mode) \in Stream /\ NewStream(file, mode).file = file
  BY DEF NewStream, Stream
<1>4. /\ DOMAIN host' = DOMAIN host \cup {fd}
      /\ host'[fd] = NewStream(file, mode)
      /\ \A d \in DOMAIN host : host'[d] = host[d]
  BY <1>1, <1>2 DEF Set
<1>5. Contents(content')
  BY <1>1 DEF Contents, Inv, TypeOK, Set
<1>6. DOMAIN content' = DOMAIN content \cup {file}
  BY <1>1 DEF HostOpens, Set
<1>7. /\ result'.d0 \in Int /\ result'.data \in Seq(Bytes)
      /\ \/ handles' = handles
         \/ \E h \in FreeHandles : handles' = [handles EXCEPT ![h] = [f |-> fd, allocated |-> TRUE]]
  <2>1. CASE FreeHandles = {}
    BY <1>1, <2>1, ReturnsType
  <2>2. CASE FreeHandles # {}
    <3>1. PICK h \in FreeHandles : get_handle(h, fd) /\ Returns(h)
      BY <1>1, <2>2
    <3>2. h \in Int
      BY TableAssumption DEF FreeHandles, Handle
    <3>3. result'.d0 \in Int /\ result'.data \in Seq(Bytes)
      BY <3>1, <3>2, ReturnsType
    <3> QED
      BY <3>1, <3>3 DEF get_handle
  <2> QED
    BY <2>1, <2>2
<1>8. handles' \in [Handle -> Entry]
  <2>1. [f |-> fd, allocated |-> TRUE] \in Entry
    BY <1>2 DEF Entry
  <2>2. handles \in [Handle -> Entry]
    BY DEF Inv, TypeOK
  <2> QED
    BY <1>7, <2>1, <2>2
<1>9. TypeOK'
  BY <1>1, <1>2, <1>3, <1>4, <1>5, <1>7, <1>8 DEF Inv, TypeOK, Contents
<1>10. HandlesOwnStreams'
  <2>1. \A h \in OpenHandles' : \/ h \in OpenHandles /\ handles'[h].f = handles[h].f
                                \/ handles'[h].f = fd
    BY <1>1, <1>7 DEF OpenHandles, FreeHandles, Inv, TypeOK
  <2>2. \A h \in OpenHandles : handles[h].f \in DOMAIN host
    BY DEF Inv, HandlesOwnStreams
  <2>3. \A g, h \in OpenHandles' : handles'[g].f = fd /\ handles'[h].f = fd => g = h
    BY <1>1, <1>2, <1>7, <2>2 DEF OpenHandles, FreeHandles, Inv, TypeOK
  <2> QED
    BY <1>2, <1>4, <2>1, <2>2, <2>3 DEF Inv, HandlesOwnStreams
<1>11. StreamsHaveFiles'
  BY <1>3, <1>4, <1>6 DEF Inv, StreamsHaveFiles
<1> QED
  BY <1>9, <1>10, <1>11 DEF Inv

LEMMA RefusalInv ==
  ASSUME Inv, NEW file, NEW mode, NEW error \in Int, HostRefuses(file, mode, error)
  PROVE  Inv'
  BY ReturnsType, NothingChanges DEF HostRefuses

LEMMA BadHandleInv ==
  ASSUME Inv, NEW h, BadHandle(h)
  PROVE  Inv'
<1>1. EIHNDL \in Int
  BY DEF EIHNDL
<1> QED
  BY <1>1, ReturnsType, NothingChanges DEF BadHandle

LEMMA NullStreamInv ==
  ASSUME Inv, NEW h, NullStream(h)
  PROVE  Inv'
<1>1. Contents(content')
  BY DEF NullStream, Contents, Inv, TypeOK
<1> QED
  BY <1>1, NothingRuns DEF NullStream

(* Closing: the handle goes with its stream, no other handle has it.       *)
LEMMA CloseInv ==
  ASSUME Inv, NEW h, fclose(h)
  PROVE  Inv'
<1> DEFINE fd == handles[h].f
<1>1. WithStream(h)
  BY DEF fclose
<1>2. h \in Handle /\ h \in OpenHandles /\ fd \in DOMAIN host
      /\ host[fd] \in Stream /\ host[fd].file \in DOMAIN content
  BY <1>1, HandleStream
<1>3. Contents(content)
  BY DEF Contents, Inv, TypeOK
<1>4. Contents(content') /\ DOMAIN content' = DOMAIN content
  BY <1>2, <1>3, WrittenType DEF fclose
<1>5. /\ DOMAIN host' = DOMAIN host \ {fd}
      /\ \A d \in DOMAIN host' : host'[d] = host[d]
  BY DEF fclose, Drop
<1>6. handles' = [handles EXCEPT ![h].allocated = FALSE] /\ running' = running
  BY DEF fclose, release
<1>7. handles' \in [Handle -> Entry]
  BY <1>2, <1>6 DEF Inv, TypeOK, Entry
<1>8. result'.d0 \in Int /\ result'.data \in Seq(Bytes)
  BY ReturnsType DEF fclose
<1>9. TypeOK'
  BY <1>4, <1>5, <1>6, <1>7, <1>8 DEF Inv, TypeOK, Contents
<1>10. OpenHandles' = OpenHandles \ {h} /\ \A g \in OpenHandles' : handles'[g].f = handles[g].f
  BY <1>2, <1>6 DEF OpenHandles, Inv, TypeOK, Entry
<1>11. HandlesOwnStreams'
  BY <1>2, <1>5, <1>10 DEF Inv, HandlesOwnStreams
<1>12. StreamsHaveFiles'
  BY <1>4, <1>5 DEF Inv, StreamsHaveFiles
<1> QED
  BY <1>9, <1>11, <1>12 DEF Inv

LEMMA WrongDirectionInv ==
  ASSUME Inv, NEW h, WithStream(h), WrongDirection(h)
  PROVE  Inv'
<1> DEFINE s == host[handles[h].f]
           t == [s EXCEPT !.err = TRUE]
<1>1. s \in Stream /\ handles[h].f \in DOMAIN host
  BY HandleStream
<1>2. t \in Stream /\ t.file = s.file
  BY <1>1, EditErr
<1>3. host' = [host EXCEPT ![handles[h].f] = t]
  BY DEF WrongDirection
<1>4. Contents(content') /\ DOMAIN content' = DOMAIN content
  BY DEF WrongDirection, Contents, Inv, TypeOK
<1>5. result'.d0 \in Int /\ result'.data \in Seq(Bytes)
  BY ReturnsType DEF WrongDirection, EINTRN
<1> QED
  BY <1>1, <1>2, <1>3, <1>4, <1>5, OneStreamChanges DEF WrongDirection

LEMMA ReadInv ==
  ASSUME Inv, NEW h, NEW n \in Nat, fread(h, n)
  PROVE  Inv'
<1> DEFINE s == host[handles[h].f]
           t == fill(s, n)
           data == Slice(t.ahead, 0, n)
           rest == SubSeq(t.ahead, Len(data) + 1, Len(t.ahead))
<1>1. WithStream(h)
  BY DEF fread
<1>2. s \in Stream /\ handles[h].f \in DOMAIN host /\ s.file \in DOMAIN content
  BY <1>1, HandleStream
<1>3. Contents(content)
  BY DEF Contents, Inv, TypeOK
<1>4. CASE ~ Readable(s.mode)
  BY <1>1, <1>4, WrongDirectionInv DEF fread
<1>5. CASE Readable(s.mode)
  <2>1. /\ content' = Written(s)
        /\ host' = [host EXCEPT ![handles[h].f] = [t EXCEPT !.ahead = rest]]
        /\ result' = IF s.err THEN [d0 |-> EINTRN, data |-> <<>>]
                     ELSE [d0 |-> Len(data), data |-> data]
        /\ UNCHANGED <<handles, running>>
    BY <1>5 DEF fread
  <2>2. t \in Stream /\ t.file = s.file
    BY <1>2, <1>3, FillType
  <2>3. t.ahead \in Seq(Bytes)
    BY <2>2 DEF Stream
  <2>4. data \in Seq(Bytes)
    BY <2>3, SliceType
  <2>5. rest \in Seq(Bytes)
    <3>1. Len(data) + 1 \in Nat \ {0} /\ Len(t.ahead) \in 0 .. Len(t.ahead)
      BY <2>3, <2>4
    <3> HIDE DEF data, t
    <3> QED
      BY <2>3, <3>1, PartType
  <2>6. Contents(content') /\ DOMAIN content' = DOMAIN content
    BY <1>2, <1>3, <2>1, WrittenType
  <2>7. result'.d0 \in Int /\ result'.data \in Seq(Bytes)
    BY <2>1, <2>4 DEF EINTRN
  <2> DEFINE u == [t EXCEPT !.ahead = rest]
  <2> HIDE DEF t, rest, data
  <2>8. u \in Stream /\ u.file = t.file
    BY <2>2, <2>5, EditAhead
  <2> HIDE DEF u
  <2>9. host' = [host EXCEPT ![handles[h].f] = u]
    BY <2>1 DEF u
  <2> QED
    BY <1>2, <2>1, <2>2, <2>6, <2>7, <2>8, <2>9, OneStreamChanges
<1> QED
  BY <1>4, <1>5

LEMMA OverflowRange ==
  ASSUME NEW t \in Stream
  PROVE  overflow(t) \in 0 .. Len(t.pending) /\ Len(t.pending) \in Nat
<1> DEFINE n == Len(t.pending)
<1>1. n \in Nat
  BY DEF Stream
<1>2. \A x \in Nat : x % BUFSIZ \in 0 .. x
  BY TableAssumption
<1>3. overflow(t) = IF n <= BUFSIZ THEN 0 ELSE n - (n % BUFSIZ)
  BY DEF overflow
<1> HIDE DEF n
<1>4. n % BUFSIZ \in 0 .. n
  BY <1>1, <1>2
<1>5. overflow(t) \in 0 .. n
  BY <1>1, <1>3, <1>4
<1> QED
  BY <1>1, <1>5 DEF n

LEMMA WriteInv ==
  ASSUME Inv, NEW h, NEW data \in Seq(Bytes), fwrite(h, data)
  PROVE  Inv'
<1> DEFINE s == host[handles[h].f]
           t == append(s, data)
           out == overflow(t)
           done == SubSeq(t.pending, 1, out)
           rest == SubSeq(t.pending, out + 1, Len(t.pending))
           u == [t EXCEPT !.pending = done]
           v == [t EXCEPT !.off = t.off + out]
           w == [v EXCEPT !.pending = rest]
<1>1. WithStream(h)
  BY DEF fwrite
<1>2. s \in Stream /\ handles[h].f \in DOMAIN host /\ s.file \in DOMAIN content
  BY <1>1, HandleStream
<1>3. Contents(content)
  BY DEF Contents, Inv, TypeOK
<1>4. CASE ~ Writable(s.mode)
  BY <1>1, <1>4, WrongDirectionInv DEF fwrite
<1>5. CASE Writable(s.mode)
  <2>1. /\ Len(s.ahead) <= s.off
        /\ content' = Written([t EXCEPT !.pending = SubSeq(@, 1, out)])
        /\ host' = [host EXCEPT ![handles[h].f] =
               [t EXCEPT !.off = @ + out, !.pending = SubSeq(@, out + 1, Len(@))]]
        /\ Returns(IF s.err THEN EINTRN ELSE Len(data))
        /\ UNCHANGED <<handles, running>>
    BY <1>5 DEF fwrite
  <2>2. t \in Stream /\ t.file = s.file
    BY <1>2, <2>1, AppendType
  <2> HIDE DEF t
  <2>3. t.pending \in Seq(Bytes) /\ t.off \in Nat
    BY <2>2 DEF Stream
  <2>4. out \in 0 .. Len(t.pending) /\ Len(t.pending) \in Nat
    BY <2>2, OverflowRange
  <2> HIDE DEF out
  <2>5. done \in Seq(Bytes)
    BY <2>3, <2>4, PartType
  <2>6. rest \in Seq(Bytes)
    <3>1. out + 1 \in Nat \ {0} /\ Len(t.pending) \in 0 .. Len(t.pending)
      BY <2>4
    <3> QED
      BY <2>3, <3>1, PartType
  <2>7. u \in Stream /\ u.file = t.file
    <3> HIDE DEF done
    <3> QED
      BY <2>2, <2>5, EditPending
  <2>8. v \in Stream /\ v.file = t.file /\ v.pending = t.pending
    <3>1. t.off + out \in Nat
      BY <2>3, <2>4
    <3> QED
      BY <2>2, <3>1, EditOff
  <2>9. w \in Stream /\ w.file = v.file
    <3> HIDE DEF v, rest
    <3> QED
      BY <2>6, <2>8, EditPending
  <2>10. content' = Written(u)
    BY <2>1 DEF u, done
  <2>11. host' = [host EXCEPT ![handles[h].f] = w]
    BY <2>1, <2>8 DEF w, v, rest
  <2> HIDE DEF u, v, w
  <2>12. Contents(content') /\ DOMAIN content' = DOMAIN content
    BY <1>2, <1>3, <2>2, <2>7, <2>10, WrittenType
  <2>13. result'.d0 \in Int /\ result'.data \in Seq(Bytes)
    <3>1. (IF s.err THEN EINTRN ELSE Len(data)) \in Int
      BY DEF EINTRN
    <3> QED
      BY <2>1, <3>1, ReturnsType
  <2> QED
    BY <1>2, <2>1, <2>2, <2>8, <2>9, <2>11, <2>12, <2>13, OneStreamChanges
<1> QED
  BY <1>4, <1>5

LEMMA SeekInv ==
  ASSUME Inv, NEW h \in Named, NEW offset \in Offsets, NEW seekmode \in 0 .. 3,
         Fseek(h, offset, seekmode)
  PROVE  Inv'
<1> DEFINE s == host[h]
           to == offset + CASE seekmode = 0 -> 0
                            [] seekmode = 1 -> s.off
                            [] seekmode = 2 -> Len(content[s.file])
           t == [s EXCEPT !.off = to]
<1>1. UNCHANGED <<handles, content, running>>
  BY DEF Fseek
<1>2. \/ \E d0 \in {EINVAL, EIHNDL, EACCDN} : Returns(d0) /\ UNCHANGED host
      \/ /\ seekmode # 3 /\ h \in DOMAIN host /\ ~ (to < 0)
         /\ host' = [host EXCEPT ![h].off = to] /\ Returns(to)
  BY DEF Fseek
<1>3. CASE \E d0 \in {EINVAL, EIHNDL, EACCDN} : Returns(d0) /\ UNCHANGED host
  <2>1. PICK d0 \in {EINVAL, EIHNDL, EACCDN} : Returns(d0) /\ UNCHANGED host
    BY <1>3
  <2>2. d0 \in Int
    BY DEF EINVAL, EIHNDL, EACCDN
  <2> QED
    BY <1>1, <2>1, <2>2, ReturnsType, NothingChanges
<1>4. CASE /\ seekmode # 3 /\ h \in DOMAIN host /\ ~ (to < 0)
           /\ host' = [host EXCEPT ![h].off = to] /\ Returns(to)
  <2>1. s \in Stream /\ s.file \in DOMAIN content
    BY <1>4 DEF Inv, TypeOK, StreamsHaveFiles
  <2>2. s.off \in Nat /\ Len(content[s.file]) \in Nat /\ offset \in Int
    BY <2>1, TableAssumption DEF Stream, Inv, TypeOK
  <2>3. to \in Nat
    BY <1>4, <2>2
  <2>4. host' = [host EXCEPT ![h] = t]
    BY <1>4
  <2> HIDE DEF to
  <2>5. t \in Stream /\ t.file = s.file
    BY <2>1, <2>3, EditOff
  <2>6. result'.d0 \in Int /\ result'.data \in Seq(Bytes)
    BY <1>4, <2>3, ReturnsType
  <2>7. Contents(content') /\ DOMAIN content' = DOMAIN content
    BY <1>1 DEF Contents, Inv, TypeOK
  <2> HIDE DEF t, s
  <2> QED
    BY <1>1, <1>4, <2>4, <2>5, <2>6, <2>7, OneStreamChanges DEF s
<1> QED
  BY <1>2, <1>3, <1>4

LEMMA DeleteInv ==
  ASSUME Inv, NEW file \in Files, Fdelete(file)
  PROVE  Inv'
<1>1. CASE file \in DOMAIN content
  <2>1. /\ DOMAIN content' = DOMAIN content \ {file}
        /\ \A g \in DOMAIN content' : content'[g] = content[g]
    BY <1>1 DEF Fdelete, Drop
  <2>2. result'.d0 \in Int /\ result'.data \in Seq(Bytes)
    BY <1>1, ReturnsType DEF Fdelete
  <2>3. TypeOK'
    BY <2>1, <2>2 DEF Fdelete, Inv, TypeOK
  <2>4. OpenHandles' = OpenHandles
    BY DEF Fdelete, OpenHandles
  <2>5. HandlesOwnStreams'
    BY <2>4 DEF Fdelete, Inv, HandlesOwnStreams
  <2>6. StreamsHaveFiles'
    BY <2>1 DEF Fdelete, Inv, StreamsHaveFiles
  <2> QED
    BY <2>3, <2>5, <2>6 DEF Inv
<1>2. CASE file \notin DOMAIN content
  <2>1. result'.d0 \in Int /\ result'.data \in Seq(Bytes)
    BY <1>2, ReturnsType DEF Fdelete, EFILNF
  <2> QED
    BY <1>2, <2>1, NothingChanges DEF Fdelete
<1> QED
  BY <1>1, <1>2

LEMMA EndInv ==
  ASSUME Inv, Pterm
  PROVE  Inv'
<1>1. \A file \in DOMAIN content : Final(file) \in Seq(Bytes)
  <2> SUFFICES ASSUME NEW file \in DOMAIN content PROVE Final(file) \in Seq(Bytes)
    OBVIOUS
  <2> DEFINE behind == {fd \in DOMAIN host : host[fd].file = file /\ host[fd].pending # <<>>}
  <2>1. content[file] \in Seq(Bytes)
    BY DEF Inv, TypeOK
  <2>2. CASE behind = {}
    BY <2>1, <2>2 DEF Final
  <2>3. CASE behind # {}
    <3> DEFINE s == host[CHOOSE fd \in behind : TRUE]
    <3>1. s \in Stream
      BY <2>3 DEF Inv, TypeOK
    <3>2. s.off \in Nat /\ s.pending \in Seq(Bytes)
      BY <3>1 DEF Stream
    <3>3. Final(file) = Overlay(content[file], s.off, s.pending)
      BY <2>3 DEF Final
    <3> QED
      BY <2>1, <3>2, <3>3, OverlayType
  <2> QED
    BY <2>2, <2>3
<1>2. Contents(content')
  BY <1>1 DEF Pterm, Contents, Inv, TypeOK
<1> QED
  BY <1>2, NothingRuns DEF Pterm

-----------------------------------------------------------------------------
LEMMA NextInv == Inv /\ [Next]_vars => Inv'
<1> SUFFICES ASSUME Inv, [Next]_vars PROVE Inv'
  OBVIOUS
<1>1. ASSUME NEW file \in Files, Fcreate(file) PROVE Inv'
  <2>1. "w" \in Mode /\ EACCDN \in Int
    BY DEF Mode, EACCDN
  <2> QED
    BY <1>1, <2>1, OpenInv, RefusalInv DEF Fcreate, MayOpen
<1>2. ASSUME NEW file \in Files, Fdelete(file) PROVE Inv'
  BY <1>2, DeleteInv
<1>3. ASSUME NEW file \in Files, NEW mode \in Mode, Fopen(file, mode) PROVE Inv'
  <2>1. ENHNDL \in Int /\ EFILNF \in Int
    BY DEF ENHNDL, EFILNF
  <2> QED
    BY <1>3, <2>1, OpenInv, RefusalInv DEF Fopen, MayOpen
<1>4. ASSUME NEW h \in Named, Fclose(h) PROVE Inv'
  BY <1>4, BadHandleInv, NullStreamInv, CloseInv DEF Fclose
<1>5. ASSUME NEW h \in Named, NEW n \in 1 .. MaxLen + 1, Fread(h, n) PROVE Inv'
  <2>1. n \in Nat
    BY TableAssumption
  <2> QED
    BY <1>5, <2>1, BadHandleInv, NullStreamInv, ReadInv DEF Fread
<1>6. ASSUME NEW h \in Named, NEW data \in Data, Fwrite(h, data) PROVE Inv'
  <2>1. data \in Seq(Bytes)
    BY TableAssumption, SeqDef DEF Data
  <2> QED
    BY <1>6, <2>1, BadHandleInv, NullStreamInv, WriteInv DEF Fwrite
<1>7. ASSUME NEW h \in Named, NEW offset \in Offsets, NEW seekmode \in 0 .. 3,
             Fseek(h, offset, seekmode)
      PROVE  Inv'
  BY <1>7, SeekInv
<1>8. CASE Pterm
  BY <1>8, EndInv
<1>9. CASE UNCHANGED vars
  BY <1>9, NothingChanges DEF vars, Inv, TypeOK
<1> QED
  BY <1>1, <1>2, <1>3, <1>4, <1>5, <1>6, <1>7, <1>8, <1>9 DEF Next

THEOREM Invariance == Spec => []Inv
  BY InitInv, NextInv, PTL DEF Spec

(* Values keep their types, in every sequence of calls.                    *)
THEOREM TypeCorrect == Spec => []TypeOK
  BY Invariance, PTL DEF Inv

(* Every handle in use has an open stream of its own.                      *)
THEOREM HandlesOwn == Spec => []HandlesOwnStreams
  BY Invariance, PTL DEF Inv

-----------------------------------------------------------------------------
(* Lost streams                                                            *)

TableFull == \A h \in Handle : handles[h].allocated

LEMMA SameStreamsLeak ==
  ASSUME DOMAIN host' = DOMAIN host, UNCHANGED <<handles, running>>
  PROVE  Leaked' = Leaked
  BY DEF Leaked, OpenHandles

LEMMA NoStreamsLeak ==
  ASSUME host' = <<>>
  PROVE  Leaked' = {}
<1>1. DOMAIN host' = {}
  OBVIOUS
<1> QED
  BY <1>1 DEF Leaked

(* With a free handle the new stream is not lost.                          *)
LEMMA OpenLeak ==
  ASSUME Inv, ~ TableFull, running,
         NEW file, NEW mode, NEW tableFull, Open(file, mode, tableFull)
  PROVE  Leaked' \subseteq Leaked
<1>1. FreeHandles # {}
  BY DEF TableFull, FreeHandles
<1>2. PICK fd \in FreeFds :
        /\ host' = Set(host, fd, NewStream(file, mode))
        /\ \E h \in FreeHandles : get_handle(h, fd) /\ Returns(h)
        /\ UNCHANGED running
  BY <1>1 DEF Open
<1>3. PICK h \in FreeHandles :
        handles' = [handles EXCEPT ![h] = [f |-> fd, allocated |-> TRUE]]
  BY <1>2 DEF get_handle
<1>4. DOMAIN host' = DOMAIN host \cup {fd}
  BY <1>2 DEF Set
<1>5. fd # NULL
  BY TableAssumption DEF FreeFds, NULL
<1>6. h \in OpenHandles' /\ handles'[h].f = fd
  BY <1>2, <1>3, <1>5 DEF OpenHandles, FreeHandles, Inv, TypeOK
<1>7. \A g \in OpenHandles : g \in OpenHandles' /\ handles'[g].f = handles[g].f
  BY <1>2, <1>3 DEF OpenHandles, FreeHandles, Inv, TypeOK
<1> QED
  BY <1>4, <1>6, <1>7 DEF Leaked

(* A handle that is closed takes its stream with it.                       *)
LEMMA CloseLeak ==
  ASSUME Inv, NEW h, fclose(h)
  PROVE  Leaked' \subseteq Leaked
<1>1. h \in Handle
  BY HandleStream DEF fclose
<1>2. DOMAIN host' = DOMAIN host \ {handles[h].f}
  BY DEF fclose, Drop
<1>3. \A g \in OpenHandles : g # h => g \in OpenHandles' /\ handles'[g].f = handles[g].f
  BY <1>1 DEF fclose, release, OpenHandles, Inv, TypeOK, Entry
<1> QED
  BY <1>2, <1>3 DEF Leaked

LEMMA LeakStep == Inv /\ [Next]_vars => Leaked' \subseteq Leaked \/ TableFull
<1> SUFFICES ASSUME Inv, [Next]_vars, ~ TableFull PROVE Leaked' \subseteq Leaked
  OBVIOUS
<1>1. ASSUME NEW file \in Files, Fcreate(file) PROVE Leaked' \subseteq Leaked
  BY <1>1, OpenLeak, SameStreamsLeak DEF Fcreate, MayOpen, HostRefuses
<1>2. ASSUME NEW file \in Files, Fdelete(file) PROVE Leaked' \subseteq Leaked
  BY <1>2, SameStreamsLeak DEF Fdelete
<1>3. ASSUME NEW file \in Files, NEW mode \in Mode, Fopen(file, mode)
      PROVE  Leaked' \subseteq Leaked
  BY <1>3, OpenLeak, SameStreamsLeak DEF Fopen, MayOpen, HostRefuses
<1>4. ASSUME NEW h, BadHandle(h) PROVE Leaked' \subseteq Leaked
  BY <1>4, SameStreamsLeak DEF BadHandle
<1>5. ASSUME NEW h, NullStream(h) PROVE Leaked' \subseteq Leaked
  BY <1>5, NoStreamsLeak DEF NullStream
<1>6. ASSUME NEW h \in Named, Fclose(h) PROVE Leaked' \subseteq Leaked
  BY <1>4, <1>5, <1>6, CloseLeak DEF Fclose
<1>7. ASSUME NEW h \in Named, NEW n \in 1 .. MaxLen + 1, Fread(h, n)
      PROVE  Leaked' \subseteq Leaked
  <2>1. ASSUME fread(h, n) PROVE DOMAIN host' = DOMAIN host /\ UNCHANGED <<handles, running>>
    BY <2>1 DEF fread, WrongDirection
  <2> QED
    BY <1>4, <1>5, <1>7, <2>1, SameStreamsLeak DEF Fread
<1>8. ASSUME NEW h \in Named, NEW data \in Data, Fwrite(h, data)
      PROVE  Leaked' \subseteq Leaked
  <2>1. ASSUME fwrite(h, data) PROVE DOMAIN host' = DOMAIN host /\ UNCHANGED <<handles, running>>
    BY <2>1 DEF fwrite, WrongDirection
  <2> QED
    BY <1>4, <1>5, <1>8, <2>1, SameStreamsLeak DEF Fwrite
<1>9. ASSUME NEW h \in Named, NEW offset \in Offsets, NEW seekmode \in 0 .. 3,
             Fseek(h, offset, seekmode)
      PROVE  Leaked' \subseteq Leaked
  <2>1. DOMAIN host' = DOMAIN host /\ UNCHANGED <<handles, running>>
    BY <1>9 DEF Fseek
  <2> QED
    BY <2>1, SameStreamsLeak
<1>10. CASE Pterm
  BY <1>10, NoStreamsLeak DEF Pterm
<1>11. CASE UNCHANGED vars
  BY <1>11, SameStreamsLeak DEF vars
<1> QED
  BY <1>1, <1>2, <1>3, <1>6, <1>7, <1>8, <1>9, <1>10, <1>11 DEF Next

(* Streams are lost only when they are opened with the table full.         *)
THEOREM LeakTheorem == Spec => LeaksOnlyWhenFull
<1>1. Inv /\ [Next]_vars
        => [Leaked' \subseteq Leaked \/ \A h \in Handle : handles[h].allocated]_vars
  BY LeakStep DEF TableFull
<1> QED
  BY <1>1, Invariance, PTL DEF LeaksOnlyWhenFull, Spec

-----------------------------------------------------------------------------
(* GemdosFile implements OpenFiles: behind the table, the buffers and the  *)
(* host's descriptors a program finds the files OpenFiles promises.        *)

-----------------------------------------------------------------------------
(* Writing and reading sequences of bytes                                  *)

(* A write is as long as it must be, and has the data where it was put.    *)
LEMMA OverlayBytes ==
  ASSUME NEW bytes \in Seq(Bytes), NEW off \in Nat, NEW data \in Seq(Bytes), data # <<>>
  PROVE  /\ Len(Overlay(bytes, off, data)) =
              IF off + Len(data) > Len(bytes) THEN off + Len(data) ELSE Len(bytes)
         /\ \A i \in 1 .. Len(Overlay(bytes, off, data)) :
              Overlay(bytes, off, data)[i] =
                IF off < i /\ i <= off + Len(data) THEN data[i - off]
                ELSE IF i <= Len(bytes) THEN bytes[i] ELSE Zero
<1> DEFINE end == off + Len(data)
           len == IF end > Len(bytes) THEN end ELSE Len(bytes)
           new == [i \in 1 .. len |->
                     IF off < i /\ i <= end THEN data[i - off]
                     ELSE IF i <= Len(bytes) THEN bytes[i] ELSE Zero]
<1>1. len \in Nat
  OBVIOUS
<1>2. Overlay(bytes, off, data) = new
  BY DEF Overlay
<1>3. Overlay(bytes, off, data) \in Seq(Bytes)
  BY OverlayType
<1>4. Len(new) = len
  BY <1>1, <1>2, <1>3, LenProperties
<1> QED
  BY <1>2, <1>4

(* Two writes, the second behind the first, are one write.                 *)
LEMMA OverlayConcat ==
  ASSUME NEW bytes \in Seq(Bytes), NEW off \in Nat,
         NEW p \in Seq(Bytes), NEW q \in Seq(Bytes)
  PROVE  Overlay(Overlay(bytes, off, p), off + Len(p), q) = Overlay(bytes, off, p \o q)
<1>1. CASE p = <<>>
  BY <1>1 DEF Overlay
<1>2. CASE q = <<>>
  BY <1>2 DEF Overlay
<1>3. CASE p # <<>> /\ q # <<>>
  <2> DEFINE one == Overlay(bytes, off, p)
             two == Overlay(one, off + Len(p), q)
             all == Overlay(bytes, off, p \o q)
  <2>1. /\ Len(p) \in Nat \ {0} /\ Len(q) \in Nat \ {0} /\ Len(bytes) \in Nat
        /\ p \o q \in Seq(Bytes) /\ Len(p \o q) = Len(p) + Len(q) /\ p \o q # <<>>
        /\ \A i \in 1 .. Len(p) + Len(q) :
             (p \o q)[i] = IF i <= Len(p) THEN p[i] ELSE q[i - Len(p)]
    BY <1>3, ConcatProperties
  <2>2. one \in Seq(Bytes) /\ off + Len(p) \in Nat
    BY <2>1, OverlayType
  <2>3. two \in Seq(Bytes) /\ all \in Seq(Bytes)
    BY <2>1, <2>2, OverlayType
  <2>4. /\ Len(one) = IF off + Len(p) > Len(bytes) THEN off + Len(p) ELSE Len(bytes)
        /\ \A i \in 1 .. Len(one) :
             one[i] = IF off < i /\ i <= off + Len(p) THEN p[i - off]
                      ELSE IF i <= Len(bytes) THEN bytes[i] ELSE Zero
    BY <1>3, OverlayBytes
  <2>5. /\ Len(all) = IF off + Len(p) + Len(q) > Len(bytes)
                      THEN off + Len(p) + Len(q) ELSE Len(bytes)
        /\ \A i \in 1 .. Len(all) :
             all[i] = IF off < i /\ i <= off + Len(p) + Len(q) THEN (p \o q)[i - off]
                      ELSE IF i <= Len(bytes) THEN bytes[i] ELSE Zero
    <3> HIDE DEF all
    <3>1. /\ Len(all) = IF off + Len(p \o q) > Len(bytes)
                        THEN off + Len(p \o q) ELSE Len(bytes)
          /\ \A i \in 1 .. Len(all) :
               all[i] = IF off < i /\ i <= off + Len(p \o q) THEN (p \o q)[i - off]
                        ELSE IF i <= Len(bytes) THEN bytes[i] ELSE Zero
      BY <2>1, OverlayBytes DEF all
    <3> QED
      BY <2>1, <3>1
  <2> HIDE DEF one, all
  <2>6. /\ Len(two) = IF off + Len(p) + Len(q) > Len(one)
                      THEN off + Len(p) + Len(q) ELSE Len(one)
        /\ \A i \in 1 .. Len(two) :
             two[i] = IF off + Len(p) < i /\ i <= off + Len(p) + Len(q)
                      THEN q[i - (off + Len(p))]
                      ELSE IF i <= Len(one) THEN one[i] ELSE Zero
    BY <1>3, <2>1, <2>2, OverlayBytes
  <2> HIDE DEF two
  <2>7. Len(two) = Len(all)
    BY <2>1, <2>4, <2>5, <2>6
  <2>8. ASSUME NEW i \in 1 .. Len(two) PROVE two[i] = all[i]
    <3>1. i \in Nat /\ i > 0 /\ i <= Len(two) /\ Len(two) \in Nat
      BY <2>3, LenProperties
    <3>2. CASE off < i /\ i <= off + Len(p)
      BY <2>1, <2>4, <2>5, <2>6, <2>7, <3>1, <3>2
    <3>3. CASE off + Len(p) < i /\ i <= off + Len(p) + Len(q)
      <4>1. i - off \in 1 .. Len(p) + Len(q) /\ ~ (i - off <= Len(p))
            /\ (i - off) - Len(p) = i - (off + Len(p))
        BY <2>1, <3>1, <3>3
      <4>2. all[i] = (p \o q)[i - off]
        BY <2>1, <2>5, <2>7, <3>1, <3>3
      <4>3. two[i] = q[i - (off + Len(p))]
        BY <2>6, <3>3
      <4> QED
        BY <2>1, <4>1, <4>2, <4>3
    <3>4. CASE ~ (off < i /\ i <= off + Len(p) + Len(q))
      BY <2>1, <2>4, <2>5, <2>6, <2>7, <3>1, <3>4
    <3> QED
      BY <2>1, <3>1, <3>2, <3>3, <3>4
  <2>9. two = all
    BY <2>3, <2>7, <2>8, SeqEqual
  <2> QED
    BY <2>9 DEF two, one, all
<1> QED
  BY <1>1, <1>2, <1>3

(* A buffer may be written in two parts.                                   *)
LEMMA OverlaySplit ==
  ASSUME NEW bytes \in Seq(Bytes), NEW off \in Nat,
         NEW p \in Seq(Bytes), NEW k \in 0 .. Len(p)
  PROVE  Overlay(Overlay(bytes, off, SubSeq(p, 1, k)), off + k, SubSeq(p, k + 1, Len(p)))
           = Overlay(bytes, off, p)
<1> DEFINE first == SubSeq(p, 1, k)
           rest == SubSeq(p, k + 1, Len(p))
<1>1. Len(p) \in Nat /\ k \in Nat /\ k <= Len(p)
  OBVIOUS
<1>2. first \in Seq(Bytes) /\ Len(first) = k
  <2>1. \A i \in 1 .. k : p[i] \in Bytes
    BY <1>1, ElementOfSeq
  <2> QED
    BY <1>1, <2>1, SubSeqProperties
<1>3. rest \in Seq(Bytes)
  BY <1>1, PartType
<1>4. first \o rest = p
  <2>1. first \o rest = SubSeq(p, 1, Len(p))
    <3>1. 1 \in 1 .. Len(p) + 1 /\ k \in 1 - 1 .. Len(p) /\ Len(p) \in k .. Len(p)
      BY <1>1
    <3> QED
      BY <3>1, ConcatAdjacentSubSeq
  <2> QED
    BY <2>1, SubSeqFull
<1> HIDE DEF first, rest
<1>5. Overlay(Overlay(bytes, off, first), off + Len(first), rest) = Overlay(bytes, off, first \o rest)
  BY <1>2, <1>3, OverlayConcat
<1> QED
  BY <1>2, <1>4, <1>5 DEF first, rest

(* What a read gets.                                                       *)
LEMMA SliceBytes ==
  ASSUME NEW bytes \in Seq(Bytes), NEW off \in Nat, NEW n \in Nat
  PROVE  /\ Slice(bytes, off, n) \in Seq(Bytes)
         /\ Len(Slice(bytes, off, n)) = IF off + n <= Len(bytes) THEN n
                                        ELSE IF off <= Len(bytes) THEN Len(bytes) - off ELSE 0
         /\ \A i \in 1 .. Len(Slice(bytes, off, n)) : Slice(bytes, off, n)[i] = bytes[off + i]
<1> DEFINE last == IF off + n < Len(bytes) THEN off + n ELSE Len(bytes)
<1>1. last \in Nat /\ Len(bytes) \in Nat
  OBVIOUS
<1>2. \A i \in off + 1 .. last : bytes[i] \in Bytes
  BY ElementOfSeq
<1>3. Slice(bytes, off, n) = SubSeq(bytes, off + 1, last)
  BY DEF Slice
<1> HIDE DEF last
<1>4. /\ SubSeq(bytes, off + 1, last) \in Seq(Bytes)
      /\ Len(SubSeq(bytes, off + 1, last)) = IF off + 1 <= last THEN last - (off + 1) + 1 ELSE 0
      /\ \A i \in 1 .. last - (off + 1) + 1 : SubSeq(bytes, off + 1, last)[i] = bytes[off + 1 + i - 1]
  <2>1. off + 1 \in Int /\ last \in Int
    BY <1>1
  <2> QED
    BY <1>2, <2>1, SubSeqProperties
<1>5. Len(Slice(bytes, off, n)) = IF off + 1 <= last THEN last - off ELSE 0
  BY <1>1, <1>3, <1>4
<1>6. ASSUME NEW i \in 1 .. Len(Slice(bytes, off, n)) PROVE Slice(bytes, off, n)[i] = bytes[off + i]
  <2>1. i \in 1 .. last - (off + 1) + 1 /\ off + 1 + i - 1 = off + i
    BY <1>1, <1>5
  <2> QED
    BY <1>3, <1>4, <2>1
<1> QED
  BY <1>1, <1>3, <1>4, <1>5, <1>6 DEF last

(* The bytes that are ahead are those the file holds from pos.             *)
IsAhead(bytes, pos, ahead) ==
    ahead # <<>> => /\ pos + Len(ahead) <= Len(bytes)
                    /\ \A i \in 1 .. Len(ahead) : ahead[i] = bytes[pos + i]

(* Reading whole buffers until there is enough: what is ahead stays part   *)
(* of the file, and its first n bytes are the ones a read of the file gets.*)
LEMMA AheadGrows ==
  ASSUME NEW bytes \in Seq(Bytes), NEW pos \in Nat, NEW n \in Nat, NEW want \in Nat,
         NEW ahead \in Seq(Bytes), IsAhead(bytes, pos, ahead),
         n > Len(ahead) => want >= n - Len(ahead),
         NEW got, got = IF n <= Len(ahead) THEN <<>> ELSE Slice(bytes, pos + Len(ahead), want)
  PROVE  /\ ahead \o got \in Seq(Bytes)
         /\ IsAhead(bytes, pos, ahead \o got)
         /\ Slice(ahead \o got, 0, n) = Slice(bytes, pos, n)
<1> DEFINE all == ahead \o got
<1>1. Len(ahead) \in Nat /\ Len(bytes) \in Nat /\ pos + Len(ahead) \in Nat
  OBVIOUS
<1>2. /\ got \in Seq(Bytes)
      /\ Len(got) \in Nat
      /\ n <= Len(ahead) => Len(got) = 0
      /\ n > Len(ahead) =>
           Len(got) = IF pos + Len(ahead) + want <= Len(bytes) THEN want
                      ELSE IF pos + Len(ahead) <= Len(bytes)
                           THEN Len(bytes) - (pos + Len(ahead)) ELSE 0
      /\ \A i \in 1 .. Len(got) : got[i] = bytes[pos + Len(ahead) + i]
  <2>1. CASE n <= Len(ahead)
    BY <1>1, <2>1
  <2>2. CASE n > Len(ahead)
    <3> DEFINE off == pos + Len(ahead)
    <3>1. got = Slice(bytes, off, want) /\ off \in Nat
      BY <1>1, <2>2
    <3> HIDE DEF off
    <3>2. /\ got \in Seq(Bytes)
          /\ Len(got) = IF off + want <= Len(bytes) THEN want
                        ELSE IF off <= Len(bytes) THEN Len(bytes) - off ELSE 0
          /\ \A i \in 1 .. Len(got) : got[i] = bytes[off + i]
      <4>1. off \in Nat
        BY <3>1
      <4>2. /\ Slice(bytes, off, want) \in Seq(Bytes)
            /\ Len(Slice(bytes, off, want)) =
                 IF off + want <= Len(bytes) THEN want
                 ELSE IF off <= Len(bytes) THEN Len(bytes) - off ELSE 0
            /\ \A i \in 1 .. Len(Slice(bytes, off, want)) :
                 Slice(bytes, off, want)[i] = bytes[off + i]
        BY <4>1, SliceBytes
      <4> QED
        BY <3>1, <4>2
    <3>3. Len(got) \in Nat
      BY <3>2
    <3> QED
      BY <1>1, <2>2, <3>2, <3>3 DEF off
  <2> QED
    BY <1>1, <2>1, <2>2
<1>3. /\ all \in Seq(Bytes) /\ Len(all) = Len(ahead) + Len(got)
      /\ \A i \in 1 .. Len(ahead) + Len(got) :
           all[i] = IF i <= Len(ahead) THEN ahead[i] ELSE got[i - Len(ahead)]
  BY <1>2, ConcatProperties
<1> HIDE DEF all
<1>4. ASSUME NEW i \in 1 .. Len(all) PROVE all[i] = bytes[pos + i]
  <2>1. i \in Nat /\ i > 0 /\ i <= Len(ahead) + Len(got)
    BY <1>1, <1>2, <1>3
  <2>2. CASE i <= Len(ahead)
    <3>1. ahead # <<>>
      BY <2>1, <2>2
    <3> QED
      BY <1>1, <1>3, <2>1, <2>2, <3>1 DEF IsAhead
  <2>3. CASE ~ (i <= Len(ahead))
    <3>1. i - Len(ahead) \in 1 .. Len(got) /\ pos + Len(ahead) + (i - Len(ahead)) = pos + i
      BY <1>1, <1>2, <2>1, <2>3
    <3>2. all[i] = got[i - Len(ahead)]
      BY <1>1, <1>3, <2>1, <2>3
    <3> QED
      BY <1>2, <3>1, <3>2
  <2> QED
    BY <2>2, <2>3
<1>5. all # <<>> => pos + Len(all) <= Len(bytes)
  <2>1. CASE ahead = <<>>
    <3>1. Len(ahead) = 0
      BY <2>1
    <3>2. all # <<>> => Len(all) > 0
      BY <1>3
    <3> QED
      BY <1>1, <1>2, <1>3, <3>1, <3>2
  <2>2. CASE ahead # <<>>
    <3>1. pos + Len(ahead) <= Len(bytes)
      BY <2>2 DEF IsAhead
    <3> QED
      BY <1>1, <1>2, <1>3, <3>1
  <2> QED
    BY <2>1, <2>2
<1>6. IsAhead(bytes, pos, all)
  BY <1>4, <1>5 DEF IsAhead
<1>7. Slice(all, 0, n) = Slice(bytes, pos, n)
  <2> DEFINE x == Slice(all, 0, n)
             y == Slice(bytes, pos, n)
  <2>1. /\ x \in Seq(Bytes) /\ Len(all) \in Nat
        /\ Len(x) = IF n <= Len(all) THEN n ELSE Len(all)
        /\ \A i \in 1 .. Len(x) : x[i] = all[i]
    <3>1. /\ Slice(all, 0, n) \in Seq(Bytes)
          /\ Len(Slice(all, 0, n)) = IF 0 + n <= Len(all) THEN n
                                     ELSE IF 0 <= Len(all) THEN Len(all) - 0 ELSE 0
          /\ \A i \in 1 .. Len(Slice(all, 0, n)) : Slice(all, 0, n)[i] = all[0 + i]
      <4>1. 0 \in Nat /\ all \in Seq(Bytes)
        BY <1>3
      <4> QED
        BY <4>1, SliceBytes
    <3> HIDE DEF x
    <3>2. Len(all) \in Nat
      BY <1>3
    <3>3. Len(x) = IF n <= Len(all) THEN n ELSE Len(all)
      BY <3>1, <3>2 DEF x
    <3>4. \A i \in 1 .. Len(x) : 0 + i = i
      OBVIOUS
    <3> QED
      BY <3>1, <3>2, <3>3, <3>4 DEF x
  <2>2. /\ y \in Seq(Bytes)
        /\ Len(y) = IF pos + n <= Len(bytes) THEN n
                    ELSE IF pos <= Len(bytes) THEN Len(bytes) - pos ELSE 0
        /\ \A i \in 1 .. Len(y) : y[i] = bytes[pos + i]
    BY SliceBytes
  <2> HIDE DEF x, y
  <2>3. Len(x) = Len(y)
    <3>1. CASE n <= Len(ahead)
      <4>1. CASE n = 0
        BY <1>1, <1>2, <1>3, <2>1, <2>2, <4>1
      <4>2. CASE n > 0
        <5>1. ahead # <<>>
          BY <3>1, <4>2
        <5>2. pos + Len(ahead) <= Len(bytes)
          BY <5>1 DEF IsAhead
        <5> QED
          BY <1>1, <1>2, <1>3, <2>1, <2>2, <3>1, <5>2
      <4> QED
        BY <4>1, <4>2
    <3>2. CASE n > Len(ahead)
      <4>1. Len(ahead) > 0 => pos + Len(ahead) <= Len(bytes)
        <5>1. Len(ahead) > 0 => ahead # <<>>
          OBVIOUS
        <5> QED
          BY <5>1 DEF IsAhead
      <4> QED
        <5>1. /\ Len(got) = IF pos + Len(ahead) + want <= Len(bytes) THEN want
                            ELSE IF pos + Len(ahead) <= Len(bytes)
                                 THEN Len(bytes) - (pos + Len(ahead)) ELSE 0
              /\ Len(all) = Len(ahead) + Len(got)
              /\ want >= n - Len(ahead)
          BY <1>1, <1>2, <1>3, <3>2
        <5>2. Len(x) = IF n <= Len(all) THEN n ELSE Len(all)
          BY <2>1
        <5>3. Len(y) = IF pos + n <= Len(bytes) THEN n
                       ELSE IF pos <= Len(bytes) THEN Len(bytes) - pos ELSE 0
          BY <2>2
        <5> QED
          BY <1>1, <3>2, <4>1, <5>1, <5>2, <5>3
    <3> QED
      BY <1>1, <3>1, <3>2
  <2>4. \A i \in 1 .. Len(x) : x[i] = y[i]
    BY <1>1, <1>3, <1>4, <2>1, <2>2, <2>3
  <2>5. x = y
    BY <2>1, <2>2, <2>3, <2>4, SeqEqual
  <2> QED
    BY <2>5 DEF x, y
<1> QED
  BY <1>3, <1>6, <1>7 DEF all

(* Whole buffers are enough.                                               *)
LEMMA WholeBuffers ==
  ASSUME NEW lacking \in Nat
  PROVE  /\ BUFSIZ * ((lacking + BUFSIZ - 1) \div BUFSIZ) \in Nat
         /\ BUFSIZ * ((lacking + BUFSIZ - 1) \div BUFSIZ) >= lacking
<1>1. \A x \in Nat, b \in Nat \ {0} : x \div b \in Nat /\ b * (x \div b) \in Nat
                                      /\ b * (x \div b) >= x - (b - 1)
  OBVIOUS
<1> DEFINE x == lacking + BUFSIZ - 1
<1>2. x \in Nat /\ BUFSIZ \in Nat \ {0} /\ x - (BUFSIZ - 1) = lacking
  BY TableAssumption
<1> HIDE DEF x
<1>3. BUFSIZ * (x \div BUFSIZ) \in Nat /\ BUFSIZ * (x \div BUFSIZ) >= lacking
  BY <1>1, <1>2
<1> QED
  BY <1>3 DEF x

-----------------------------------------------------------------------------
(* The inductive invariant.                                                *)

(* The stream of a handle.                                                 *)
Str(h) == host[handles[h].f]

(* What a stream has read ahead is what its file holds; and a stream does  *)
(* not read ahead and write behind at the same time.                       *)
Fits(s, bytes) == /\ s.ahead # <<>> => s.pending = <<>>
                  /\ Len(s.ahead) <= s.off
                  /\ IsAhead(bytes, s.off - Len(s.ahead), s.ahead)

(* No two handles are on one file, so no stream has bytes that another     *)
(* should see; no stream without a handle has bytes to write.              *)
OneEach   == \A g, h \in OpenHandles : Str(g).file = Str(h).file => g = h
LostEmpty == \A fd \in DOMAIN host :
                (\A h \in OpenHandles : handles[h].f # fd) => host[fd].pending = <<>>
AllFit    == \A h \in OpenHandles : Fits(Str(h), content[Str(h).file])

BufferInv == Inv /\ OneEach /\ LostEmpty /\ AllFit

(* What a file will hold: its handle's stream knows, or the file itself.   *)
Finals ==
    /\ \A file \in DOMAIN content, h \in OpenHandles :
          Str(h).file = file => Final(file) = Overlay(content[file], Str(h).off, Str(h).pending)
    /\ \A file \in DOMAIN content :
          (\A h \in OpenHandles : Str(h).file # file) => Final(file) = content[file]

LEMMA FinalsKnown == BufferInv => Finals
<1> SUFFICES ASSUME BufferInv PROVE Finals
  OBVIOUS
<1> DEFINE behind(file) == {fd \in DOMAIN host : host[fd].file = file /\ host[fd].pending # <<>>}
<1>1. \A file : \A fd \in behind(file) : \E h \in OpenHandles : handles[h].f = fd
  BY DEF BufferInv, LostEmpty
<1>2. ASSUME NEW file, behind(file) = {} PROVE Final(file) = content[file]
  BY <1>2 DEF Final
<1>3. ASSUME NEW file \in DOMAIN content, NEW h \in OpenHandles, Str(h).file = file
      PROVE  Final(file) = Overlay(content[file], Str(h).off, Str(h).pending)
  <2>1. handles[h].f \in DOMAIN host
    BY DEF BufferInv, Inv, HandlesOwnStreams
  <2>2. \A fd \in behind(file) : fd = handles[h].f
    BY <1>1, <1>3 DEF BufferInv, OneEach, Str
  <2>3. CASE Str(h).pending = <<>>
    <3>1. behind(file) = {}
      BY <2>2, <2>3, <1>3 DEF Str
    <3> QED
      BY <1>2, <2>3, <3>1 DEF Overlay
  <2>4. CASE Str(h).pending # <<>>
    <3>1. behind(file) = {handles[h].f}
      BY <1>3, <2>1, <2>2, <2>4 DEF Str
    <3>2. (CHOOSE fd \in behind(file) : TRUE) = handles[h].f
      BY <3>1
    <3> QED
      BY <3>1, <3>2 DEF Final, Str
  <2> QED
    BY <2>3, <2>4
<1>4. ASSUME NEW file \in DOMAIN content, \A h \in OpenHandles : Str(h).file # file
      PROVE  Final(file) = content[file]
  <2>1. behind(file) = {}
    BY <1>1, <1>4 DEF Str
  <2> QED
    BY <1>2, <2>1
<1> QED
  BY <1>3, <1>4 DEF Finals

LEMMA FinalsKnownNext == BufferInv' => Finals'
  BY FinalsKnown, PTL

(* What a handle in use stands for.                                        *)
LEMMA InUse ==
  ASSUME Inv, NEW h \in OpenHandles
  PROVE  /\ h \in Handle /\ running
         /\ handles[h].f \in DOMAIN host
         /\ Str(h) \in Stream
         /\ Str(h).file \in DOMAIN content
         /\ content[Str(h).file] \in Seq(Bytes)
<1>1. h \in Handle /\ running /\ handles[h].f \in DOMAIN host
  BY DEF Inv, HandlesOwnStreams, OpenHandles
<1> QED
  BY <1>1 DEF Inv, StreamsHaveFiles, TypeOK, Str

LEMMA WithStreamInUse ==
  ASSUME Inv, NEW h, WithStream(h)
  PROVE  h \in OpenHandles
  BY HandleStream

(* One file changes.                                                       *)
FileBecomes(file, bytes) ==
    /\ DOMAIN content' = DOMAIN content
    /\ \A g \in DOMAIN content : content'[g] = IF g = file THEN bytes ELSE content[g]

(* A call changes the stream of one handle, and its file.                  *)
LEMMA OneStreamKeeps ==
  ASSUME BufferInv, Inv', NEW h \in OpenHandles, NEW t \in Stream, t.file = Str(h).file,
         host' = [host EXCEPT ![handles[h].f] = t],
         UNCHANGED <<handles, running>>,
         NEW bytes, FileBecomes(t.file, bytes), Fits(t, bytes)
  PROVE  BufferInv'
<1>1. OpenHandles' = OpenHandles
  BY DEF OpenHandles
<1>2. Str(h)' = t
  BY InUse DEF Str, BufferInv
<1>3. \A g \in OpenHandles : g # h => Str(g)' = Str(g)
  <2>1. \A g \in OpenHandles : g # h => handles[g].f # handles[h].f
    BY DEF BufferInv, Inv, HandlesOwnStreams
  <2>2. \A g \in OpenHandles : handles[g].f \in DOMAIN host
    BY DEF BufferInv, Inv, HandlesOwnStreams
  <2> QED
    BY <2>1, <2>2 DEF Str
<1>4. OneEach'
  BY <1>1, <1>2, <1>3 DEF BufferInv, OneEach
<1>5. LostEmpty'
  BY <1>1 DEF BufferInv, LostEmpty
<1>6. AllFit'
  <2> SUFFICES ASSUME NEW g \in OpenHandles
               PROVE  Fits(Str(g), content[Str(g).file])'
    BY <1>1 DEF AllFit
  <2>1. CASE g = h
    <3>1. content'[t.file] = bytes
      BY InUse DEF BufferInv, FileBecomes
    <3> QED
      BY <1>2, <2>1, <3>1 DEF Fits, IsAhead
  <2>2. CASE g # h
    <3>1. Str(g)' = Str(g) /\ Str(g).file # t.file /\ Str(g).file \in DOMAIN content
      BY <1>3, <2>2, InUse DEF BufferInv, OneEach
    <3>2. content'[Str(g).file] = content[Str(g).file]
      BY <3>1 DEF FileBecomes
    <3>3. Fits(Str(g), content[Str(g).file])
      BY DEF BufferInv, AllFit
    <3> QED
      BY <3>1, <3>2, <3>3 DEF Fits, IsAhead
  <2> QED
    BY <2>1, <2>2
<1> QED
  BY <1>4, <1>5, <1>6 DEF BufferInv

LEMMA OneStreamSeen ==
  ASSUME BufferInv, BufferInv', NEW h \in OpenHandles, NEW t \in Stream, t.file = Str(h).file,
         host' = [host EXCEPT ![handles[h].f] = t],
         UNCHANGED <<handles, running>>,
         NEW bytes, FileBecomes(t.file, bytes)
  PROVE  /\ Opened' = [Opened EXCEPT ![h] = Seen(t)]
         /\ Held' = [Held EXCEPT ![t.file] = Overlay(bytes, t.off, t.pending)]
<1>1. OpenHandles' = OpenHandles
  BY DEF OpenHandles
<1>2. Str(h)' = t
  BY InUse DEF Str, BufferInv
<1>3. \A g \in OpenHandles : g # h => Str(g)' = Str(g)
  <2>1. \A g \in OpenHandles : g # h => handles[g].f # handles[h].f
    BY DEF BufferInv, Inv, HandlesOwnStreams
  <2>2. \A g \in OpenHandles : handles[g].f \in DOMAIN host
    BY DEF BufferInv, Inv, HandlesOwnStreams
  <2> QED
    BY <2>1, <2>2 DEF Str
<1>4. Opened' = [Opened EXCEPT ![h] = Seen(t)]
  <2>1. Opened = [g \in OpenHandles |-> Seen(Str(g))]
    BY DEF Opened, Str
  <2>2. Opened' = [g \in OpenHandles |-> Seen(Str(g)')]
    BY <1>1 DEF Opened, Str, Seen
  <2> QED
    BY <1>2, <1>3, <2>1, <2>2
<1>5. Finals /\ Finals'
  BY FinalsKnown, FinalsKnownNext
<1>6. t.file \in DOMAIN content /\ DOMAIN content' = DOMAIN content
  BY InUse DEF BufferInv, FileBecomes
<1>7. Final(t.file)' = Overlay(bytes, t.off, t.pending)
  <2>1. content'[t.file] = bytes
    BY <1>6 DEF FileBecomes
  <2>2. Final(t.file)' = Overlay(content[t.file], Str(h).off, Str(h).pending)'
    BY <1>1, <1>2, <1>5, <1>6 DEF Finals
  <2>3. Overlay(content[t.file], Str(h).off, Str(h).pending)' = Overlay(bytes, t.off, t.pending)
    BY <1>2, <2>1 DEF Overlay
  <2> QED
    BY <2>2, <2>3
<1>8. ASSUME NEW file \in DOMAIN content, file # t.file PROVE Final(file)' = Final(file)
  <2>1. content'[file] = content[file] /\ file \in DOMAIN content'
    BY <1>8 DEF FileBecomes
  <2>2. CASE \A g \in OpenHandles : Str(g).file # file
    <3>1. \A g \in OpenHandles : Str(g)'.file # file
      BY <1>2, <1>3, <1>8, <2>2
    <3> QED
      BY <1>1, <1>5, <2>1, <2>2, <3>1 DEF Finals
  <2>3. CASE \E g \in OpenHandles : Str(g).file = file
    <3>1. PICK g \in OpenHandles : Str(g).file = file
      BY <2>3
    <3>2. g # h /\ Str(g)' = Str(g)
      BY <1>3, <1>8, <3>1
    <3>3. Final(file) = Overlay(content[file], Str(g).off, Str(g).pending)
      BY <1>5, <3>1 DEF Finals
    <3>4. Final(file)' = Overlay(content[file], Str(g).off, Str(g).pending)'
      BY <1>1, <1>5, <2>1, <3>1, <3>2 DEF Finals
    <3>5. Overlay(content[file], Str(g).off, Str(g).pending)'
            = Overlay(content[file], Str(g).off, Str(g).pending)
      BY <2>1, <3>1, <3>2 DEF Overlay
    <3> QED
      BY <3>3, <3>4, <3>5
  <2> QED
    BY <2>2, <2>3
<1>9. Held' = [Held EXCEPT ![t.file] = Overlay(bytes, t.off, t.pending)]
  <2>1. Held' = [file \in DOMAIN content |-> Final(file)']
    BY <1>6 DEF Held
  <2>2. \A file \in DOMAIN content :
           Final(file)' = IF file = t.file THEN Overlay(bytes, t.off, t.pending) ELSE Final(file)
    BY <1>7, <1>8
  <2> HIDE DEF Final
  <2>3. [Held EXCEPT ![t.file] = Overlay(bytes, t.off, t.pending)]
           = [file \in DOMAIN content |->
                IF file = t.file THEN Overlay(bytes, t.off, t.pending) ELSE Final(file)]
    BY <1>6 DEF Held
  <2> QED
    BY <2>1, <2>2, <2>3
<1> QED
  BY <1>4, <1>9

-----------------------------------------------------------------------------
(* Reading                                                                 *)

Got(s, n) == IF n <= Len(s.ahead) THEN <<>>
             ELSE Slice(Written(s)[s.file], s.off + Len(s.pending),
                        BUFSIZ * ((n - Len(s.ahead) + BUFSIZ - 1) \div BUFSIZ))

LEMMA FillFields ==
  ASSUME NEW s \in Stream, NEW n \in Nat
  PROVE  /\ fill(s, n).file = s.file /\ fill(s, n).mode = s.mode /\ fill(s, n).err = s.err
         /\ fill(s, n).ahead = s.ahead \o Got(s, n)
         /\ fill(s, n).off = s.off + Len(s.pending) + Len(Got(s, n))
         /\ fill(s, n).pending = <<>>
<1> DEFINE lacking == n - Len(s.ahead)
           got == IF lacking <= 0 THEN <<>>
                  ELSE Slice(Written(s)[s.file], s.off + Len(s.pending),
                             BUFSIZ * ((lacking + BUFSIZ - 1) \div BUFSIZ))
<1>1. Len(s.ahead) \in Nat
  BY DEF Stream
<1>2. lacking <= 0 <=> n <= Len(s.ahead)
  BY <1>1
<1>3. got = Got(s, n)
  BY <1>2 DEF Got
<1>4. fill(s, n) = [s EXCEPT !.ahead = s.ahead \o got,
                             !.off = s.off + Len(s.pending) + Len(got), !.pending = <<>>]
  BY DEF fill
<1> HIDE DEF got, lacking
<1>5. s = [file |-> s.file, mode |-> s.mode, off |-> s.off,
           ahead |-> s.ahead, pending |-> s.pending, err |-> s.err]
  BY DEF Stream
<1>6. fill(s, n) = [file |-> s.file, mode |-> s.mode,
                    off |-> s.off + Len(s.pending) + Len(got),
                    ahead |-> s.ahead \o got, pending |-> <<>>, err |-> s.err]
  BY <1>4, <1>5
<1> QED
  BY <1>3, <1>6

(* What is left of the bytes read ahead when k of them have been taken.    *)
LEMMA AheadShrinks ==
  ASSUME NEW bytes \in Seq(Bytes), NEW pos \in Nat,
         NEW ahead \in Seq(Bytes), IsAhead(bytes, pos, ahead),
         NEW k \in 0 .. Len(ahead)
  PROVE  /\ SubSeq(ahead, k + 1, Len(ahead)) \in Seq(Bytes)
         /\ Len(SubSeq(ahead, k + 1, Len(ahead))) = Len(ahead) - k
         /\ IsAhead(bytes, pos + k, SubSeq(ahead, k + 1, Len(ahead)))
<1> DEFINE rest == SubSeq(ahead, k + 1, Len(ahead))
<1>1. Len(ahead) \in Nat /\ k \in Nat /\ k <= Len(ahead)
  OBVIOUS
<1>2. \A i \in k + 1 .. Len(ahead) : ahead[i] \in Bytes
  BY <1>1, ElementOfSeq
<1>3. /\ rest \in Seq(Bytes)
      /\ Len(rest) = IF k + 1 <= Len(ahead) THEN Len(ahead) - (k + 1) + 1 ELSE 0
      /\ \A i \in 1 .. Len(ahead) - (k + 1) + 1 : rest[i] = ahead[k + 1 + i - 1]
  <2>1. k + 1 \in Int /\ Len(ahead) \in Int
    BY <1>1
  <2> QED
    BY <1>2, <2>1, SubSeqProperties
<1> HIDE DEF rest
<1>4. Len(rest) = Len(ahead) - k
  BY <1>1, <1>3
<1>5. ASSUME NEW i \in 1 .. Len(rest) PROVE rest[i] = ahead[k + i] /\ k + i \in 1 .. Len(ahead)
  <2>1. i \in 1 .. Len(ahead) - (k + 1) + 1 /\ k + 1 + i - 1 = k + i /\ k + i \in 1 .. Len(ahead)
    BY <1>1, <1>4
  <2> QED
    BY <1>3, <2>1
<1>6. IsAhead(bytes, pos + k, rest)
  <2> SUFFICES ASSUME rest # <<>>
               PROVE  /\ pos + k + Len(rest) <= Len(bytes)
                      /\ \A i \in 1 .. Len(rest) : rest[i] = bytes[pos + k + i]
    BY DEF IsAhead
  <2>1. Len(rest) > 0
    BY <1>3, EmptySeq
  <2>2. ahead # <<>>
    BY <1>1, <1>4, <2>1
  <2>3. /\ pos + Len(ahead) <= Len(bytes)
        /\ \A i \in 1 .. Len(ahead) : ahead[i] = bytes[pos + i]
    BY <2>2 DEF IsAhead
  <2>4. pos + k + Len(rest) <= Len(bytes)
    BY <1>1, <1>4, <2>3
  <2>5. ASSUME NEW i \in 1 .. Len(rest) PROVE rest[i] = bytes[pos + k + i]
    <3>1. k + i \in 1 .. Len(ahead) /\ pos + (k + i) = pos + k + i
      BY <1>1, <1>5
    <3>2. ahead[k + i] = bytes[pos + (k + i)]
      BY <2>3, <3>1
    <3> QED
      BY <1>5, <3>1, <3>2
  <2> QED
    BY <2>4, <2>5
<1> QED
  BY <1>3, <1>4, <1>6 DEF rest

LEMMA TakenOff ==
  ASSUME NEW pos \in Nat, NEW len \in Nat, NEW k \in Nat, k <= len
  PROVE  (pos + len) - (len - k) = pos + k /\ len - k <= pos + len
  OBVIOUS

(* What the file will hold, where the program is in it, what it gets, and  *)
(* what is left of the stream.                                             *)
Whole(s)   == Overlay(content[s.file], s.off, s.pending)
Pos(s)     == s.off - Len(s.ahead) + Len(s.pending)
Taken(s, n) == Slice(fill(s, n).ahead, 0, n)
Left(s, n)  == LET t == fill(s, n)
               IN  [t EXCEPT !.ahead = SubSeq(t.ahead, Len(Taken(s, n)) + 1, Len(t.ahead))]

LEMMA ReadStream ==
  ASSUME Contents(content), NEW s \in Stream, s.file \in DOMAIN content,
         Fits(s, content[s.file]), NEW n \in Nat
  PROVE  /\ Left(s, n) \in Stream /\ Left(s, n).file = s.file
         /\ Left(s, n).pending = <<>> /\ Fits(Left(s, n), Whole(s))
         /\ Left(s, n).mode = s.mode /\ Left(s, n).err = s.err
         /\ Pos(s) \in Nat /\ Whole(s) \in Seq(Bytes)
         /\ Taken(s, n) \in Seq(Bytes) /\ Taken(s, n) = Slice(Whole(s), Pos(s), n)
         /\ Left(s, n).off - Len(Left(s, n).ahead) = Pos(s) + Len(Taken(s, n))
<1> DEFINE t == fill(s, n)
           bytes == Whole(s)
           pos == Pos(s)
           data == Taken(s, n)
           u == Left(s, n)
<1>0. /\ t = fill(s, n)
      /\ bytes = Overlay(content[s.file], s.off, s.pending)
      /\ pos = s.off - Len(s.ahead) + Len(s.pending)
      /\ data = Slice(t.ahead, 0, n)
      /\ u = [t EXCEPT !.ahead = SubSeq(t.ahead, Len(data) + 1, Len(t.ahead))]
  BY DEF Whole, Pos, Taken, Left
<1> USE <1>0
<1> HIDE DEF t, bytes, pos, data, u
<1>1. /\ s.ahead \in Seq(Bytes) /\ s.pending \in Seq(Bytes) /\ s.off \in Nat
      /\ Len(s.ahead) \in Nat /\ Len(s.pending) \in Nat
  BY DEF Stream
<1>2. bytes \in Seq(Bytes)
  BY <1>1, OverlayType DEF Contents
<1>3. pos \in Nat /\ pos + Len(s.ahead) = s.off + Len(s.pending)
  BY <1>1 DEF Fits
<1>4. IsAhead(bytes, pos, s.ahead)
  <2> SUFFICES ASSUME s.ahead # <<>> PROVE IsAhead(bytes, pos, s.ahead)
    BY DEF IsAhead
  <2>1. s.pending = <<>> /\ IsAhead(content[s.file], s.off - Len(s.ahead), s.ahead)
    BY DEF Fits
  <2>2. bytes = content[s.file]
    BY <2>1 DEF Overlay
  <2>3. pos = s.off - Len(s.ahead)
    <3>1. Len(s.pending) = 0
      BY <2>1
    <3> QED
      BY <1>1, <3>1
  <2> QED
    BY <2>1, <2>2, <2>3
<1>5. Written(s)[s.file] = bytes
  BY DEF Written, Set
<1>6. PICK want \in Nat :
        /\ n > Len(s.ahead) => want >= n - Len(s.ahead)
        /\ Got(s, n) = IF n <= Len(s.ahead) THEN <<>>
                       ELSE Slice(bytes, pos + Len(s.ahead), want)
  <2>1. CASE n <= Len(s.ahead)
    <3>1. Got(s, n) = <<>>
      BY <2>1 DEF Got
    <3>2. ~ (n > Len(s.ahead)) /\ 0 \in Nat
      BY <1>1, <2>1
    <3> QED
      BY <2>1, <3>1, <3>2
  <2>2. CASE n > Len(s.ahead)
    <3> DEFINE lacking == n - Len(s.ahead)
               want == BUFSIZ * ((lacking + BUFSIZ - 1) \div BUFSIZ)
    <3>1. lacking \in Nat
      BY <1>1, <2>2
    <3>2. Got(s, n) = Slice(bytes, pos + Len(s.ahead), want)
      <4>1. ~ (n <= Len(s.ahead))
        BY <1>1, <2>2
      <4> QED
        BY <1>3, <1>5, <4>1 DEF Got
    <3> HIDE DEF lacking
    <3>3. want \in Nat /\ want >= lacking
      BY <3>1, WholeBuffers
    <3> HIDE DEF want
    <3>4. ~ (n <= Len(s.ahead)) /\ want >= n - Len(s.ahead)
      BY <1>1, <2>2, <3>3 DEF lacking
    <3> QED
      BY <3>2, <3>3, <3>4
  <2> QED
    BY <1>1, <2>1, <2>2
<1> DEFINE all == s.ahead \o Got(s, n)
<1>7. all \in Seq(Bytes) /\ IsAhead(bytes, pos, all) /\ Slice(all, 0, n) = Slice(bytes, pos, n)
  <2> DEFINE got == Got(s, n)
  <2>1. got = IF n <= Len(s.ahead) THEN <<>> ELSE Slice(bytes, pos + Len(s.ahead), want)
    BY <1>6
  <2> HIDE DEF got
  <2>2. /\ s.ahead \o got \in Seq(Bytes)
        /\ IsAhead(bytes, pos, s.ahead \o got)
        /\ Slice(s.ahead \o got, 0, n) = Slice(bytes, pos, n)
    BY <1>1, <1>2, <1>3, <1>4, <1>6, <2>1, AheadGrows
  <2> QED
    BY <2>2 DEF got
<1>8. /\ t.file = s.file /\ t.mode = s.mode /\ t.err = s.err /\ t.ahead = all
      /\ t.pending = <<>> /\ t.off = s.off + Len(s.pending) + Len(Got(s, n))
  BY FillFields
<1>9. t \in Stream
  BY FillType
<1>10. t.off = pos + Len(all) /\ Len(all) \in Nat
  <2>1. Got(s, n) \in Seq(Bytes)
    <3>1. pos + Len(s.ahead) \in Nat
      BY <1>1, <1>3
    <3>2. Slice(bytes, pos + Len(s.ahead), want) \in Seq(Bytes)
      BY <1>2, <1>6, <3>1, SliceType
    <3> QED
      BY <1>6, <3>2, EmptySeq
  <2>2. Len(all) = Len(s.ahead) + Len(Got(s, n)) /\ Len(Got(s, n)) \in Nat
    BY <1>1, <2>1, ConcatProperties
  <2> QED
    BY <1>1, <1>3, <1>8, <2>2
<1> HIDE DEF all
<1>11. data = Slice(bytes, pos, n) /\ data \in Seq(Bytes)
  <2>1. data = Slice(all, 0, n)
    BY <1>8
  <2> QED
    BY <1>2, <1>3, <1>7, <2>1, SliceType
<1>12. Len(data) \in 0 .. Len(all)
  <2>1. data = Slice(all, 0, n) /\ 0 \in Nat
    BY <1>8
  <2>2. Len(Slice(all, 0, n)) = IF 0 + n <= Len(all) THEN n
                                ELSE IF 0 <= Len(all) THEN Len(all) - 0 ELSE 0
    BY <1>7, <2>1, SliceBytes
  <2> QED
    BY <1>10, <2>1, <2>2
<1> DEFINE k == Len(data)
           rest == SubSeq(all, k + 1, Len(all))
<1>13. rest \in Seq(Bytes) /\ Len(rest) = Len(all) - k /\ IsAhead(bytes, pos + k, rest)
  <2> HIDE DEF k
  <2>1. k \in 0 .. Len(all)
    BY <1>12 DEF k
  <2> QED
    BY <1>2, <1>3, <1>7, <2>1, AheadShrinks
<1>14. u = [t EXCEPT !.ahead = rest]
  BY <1>8
<1> HIDE DEF rest, k
<1>15. /\ u \in Stream /\ u.file = t.file /\ u.off = t.off /\ u.pending = t.pending
       /\ u.ahead = rest /\ u.mode = t.mode /\ u.err = t.err
  <2>1. u \in Stream /\ u.file = t.file /\ u.off = t.off /\ u.pending = t.pending
    <3>1. /\ [t EXCEPT !.ahead = rest] \in Stream
          /\ [t EXCEPT !.ahead = rest].file = t.file
          /\ [t EXCEPT !.ahead = rest].off = t.off
          /\ [t EXCEPT !.ahead = rest].pending = t.pending
      BY <1>9, <1>13, EditAhead
    <3> QED
      BY <1>14, <3>1
  <2>2. u.ahead = rest /\ u.mode = t.mode /\ u.err = t.err
    BY <1>9, <1>14 DEF Stream
  <2> QED
    BY <2>1, <2>2
<1>16. u.off - Len(u.ahead) = pos + k /\ Len(u.ahead) <= u.off
  <2>1. k \in Nat /\ k <= Len(all)
    BY <1>10, <1>12 DEF k
  <2>2. u.off = pos + Len(all) /\ Len(u.ahead) = Len(all) - k
    BY <1>10, <1>13, <1>15
  <2>3. pos \in Nat /\ Len(all) \in Nat
    BY <1>3, <1>10
  <2>4. /\ (pos + Len(all)) - (Len(all) - k) = pos + k
        /\ Len(all) - k <= pos + Len(all)
    BY <2>1, <2>3, TakenOff
  <2> QED
    BY <2>2, <2>4
<1>17. Fits(u, bytes)
  BY <1>8, <1>13, <1>15, <1>16 DEF Fits
<1> QED
  BY <1>2, <1>3, <1>8, <1>11, <1>15, <1>16, <1>17 DEF k, t, bytes, pos, data, u

(* What OpenFiles sees of the handles and the files.                       *)
LEMMA SeenOf ==
  ASSUME BufferInv, NEW h \in OpenHandles
  PROVE  /\ h \in DOMAIN Opened
         /\ Opened[h] = Seen(Str(h))
         /\ Opened[h].file = Str(h).file /\ Opened[h].mode = Str(h).mode
         /\ Opened[h].err = Str(h).err
         /\ Opened[h].pos = Str(h).off - Len(Str(h).ahead) + Len(Str(h).pending)
         /\ Str(h).file \in DOMAIN Held
         /\ Held[Str(h).file] = Overlay(content[Str(h).file], Str(h).off, Str(h).pending)
<1>1. Opened[h] = Seen(Str(h)) /\ h \in DOMAIN Opened
  BY DEF Opened, Str
<1>2. Str(h).file \in DOMAIN content
  BY InUse DEF BufferInv
<1>3. Finals
  BY FinalsKnown
<1>4. Held[Str(h).file] = Final(Str(h).file) /\ Str(h).file \in DOMAIN Held
  BY <1>2 DEF Held
<1>5. Final(Str(h).file) = Overlay(content[Str(h).file], Str(h).off, Str(h).pending)
  BY <1>2, <1>3 DEF Finals
<1> QED
  BY <1>1, <1>4, <1>5 DEF Seen

LEMMA SeenMoves ==
  ASSUME NEW s, NEW t, t.file = s.file, t.mode = s.mode, t.err = s.err
  PROVE  Seen(t) = [Seen(s) EXCEPT !.pos = Seen(t).pos]
  BY DEF Seen

LEMMA SeenSpoilt ==
  ASSUME NEW s \in Stream
  PROVE  Seen([s EXCEPT !.err = TRUE]) = [Seen(s) EXCEPT !.err = TRUE]
<1> DEFINE t == [s EXCEPT !.err = TRUE]
<1>1. /\ t.file = s.file /\ t.mode = s.mode
      /\ t.off = s.off /\ t.ahead = s.ahead /\ t.pending = s.pending
  BY DEF Stream
<1>2. t.err = TRUE
  BY DEF Stream
<1> HIDE DEF t
<1>3. Seen(t) = [file |-> s.file, mode |-> s.mode, err |-> TRUE,
                 pos |-> s.off - Len(s.ahead) + Len(s.pending)]
  BY <1>1, <1>2, Zenon DEF Seen
<1> DEFINE pos == s.off - Len(s.ahead) + Len(s.pending)
<1>4. Seen(s) = [file |-> s.file, mode |-> s.mode, err |-> s.err, pos |-> pos]
  BY DEF Seen
<1> HIDE DEF pos
<1>5. [Seen(s) EXCEPT !.err = TRUE]
        = [file |-> s.file, mode |-> s.mode, err |-> TRUE, pos |-> pos]
  <2> DEFINE new == TRUE
  <2>1. new = TRUE
    OBVIOUS
  <2> HIDE DEF new
  <2>2. [Seen(s) EXCEPT !.err = new]
          = [file |-> s.file, mode |-> s.mode, err |-> new, pos |-> pos]
    BY <1>4
  <2> QED
    BY <2>1, <2>2, Zenon
<1> QED
  BY <1>3, <1>5 DEF t, pos

(* Using a stream in the wrong direction.                                  *)
LEMMA MisuseStep ==
  ASSUME BufferInv, Inv', NEW h, WithStream(h), WrongDirection(h)
  PROVE  BufferInv' /\ Promise!Misuse(h)
<1> DEFINE s == Str(h)
           t == [s EXCEPT !.err = TRUE]
           bytes == content[s.file]
<1>1. Inv /\ h \in OpenHandles
  BY WithStreamInUse DEF BufferInv
<1>2. s \in Stream /\ s.file \in DOMAIN content
  BY <1>1, InUse
<1>3. /\ t \in Stream /\ t.file = s.file /\ t.mode = s.mode /\ t.err = TRUE
      /\ t.off = s.off /\ t.ahead = s.ahead /\ t.pending = s.pending
  BY <1>2 DEF Stream
<1>4. host' = [host EXCEPT ![handles[h].f] = t] /\ UNCHANGED <<handles, running>>
  BY DEF WrongDirection, Str
<1>5. FileBecomes(t.file, bytes)
  BY <1>3 DEF WrongDirection, FileBecomes
<1>6. Fits(t, bytes)
  BY <1>1, <1>3 DEF BufferInv, AllFit, Fits
<1> HIDE DEF t, s, bytes
<1>7. BufferInv'
  BY <1>1, <1>3, <1>4, <1>5, <1>6, OneStreamKeeps DEF s
<1>8. /\ Opened' = [Opened EXCEPT ![h] = Seen(t)]
      /\ Held' = [Held EXCEPT ![t.file] = Overlay(bytes, t.off, t.pending)]
  BY <1>1, <1>3, <1>4, <1>5, <1>7, OneStreamSeen DEF s
<1>9. h \in DOMAIN Opened /\ Opened[h] = Seen(s)
      /\ Held[t.file] = Overlay(bytes, t.off, t.pending)
  BY <1>1, <1>3, SeenOf DEF s, bytes
<1>10. Held' = Held
  BY <1>8, <1>9 DEF Held
<1>11. Opened' = [Opened EXCEPT ![h].err = TRUE]
  <2>1. Seen(t) = [Seen(s) EXCEPT !.err = TRUE]
    BY <1>2, SeenSpoilt DEF t
  <2> QED
    BY <1>8, <1>9, <2>1
<1>12. result' = [d0 |-> EINTRN, data |-> <<>>]
  BY DEF WrongDirection, Returns
<1> QED
  BY <1>7, <1>9, <1>10, <1>11, <1>12 DEF Promise!Misuse

LEMMA SameOperators ==
  /\ \A bytes, off, n : Promise!Slice(bytes, off, n) = Slice(bytes, off, n)
  /\ \A bytes, off, data : Promise!Overlay(bytes, off, data) = Overlay(bytes, off, data)
  /\ \A f, x, value : Promise!Set(f, x, value) = Set(f, x, value)
  /\ \A f, x : Promise!Drop(f, x) = Drop(f, x)
  /\ \A mode : Promise!Readable(mode) = Readable(mode)
  /\ \A mode : Promise!Writable(mode) = Writable(mode)
  BY DEF Promise!Slice, Slice, Promise!Overlay, Overlay, Promise!Set, Set, Promise!Drop, Drop,
         Promise!Readable, Readable, Promise!Writable, Writable

LEMMA ReadStep ==
  ASSUME BufferInv, Inv', NEW h, NEW n \in Nat, fread(h, n)
  PROVE  BufferInv' /\ (Promise!Read(h, n) \/ Promise!Misuse(h))
<1> DEFINE s == Str(h)
           u == Left(s, n)
           data == Taken(s, n)
           bytes == Whole(s)
           pos == Pos(s)
<1>1. WithStream(h) /\ Inv /\ h \in OpenHandles
  BY WithStreamInUse DEF fread, BufferInv
<1>2. s \in Stream /\ s.file \in DOMAIN content /\ Contents(content) /\ Fits(s, content[s.file])
  BY <1>1, InUse DEF Contents, Inv, TypeOK, BufferInv, AllFit
<1>3. CASE ~ Readable(s.mode)
  BY <1>1, <1>3, MisuseStep DEF fread, Str
<1>4. CASE Readable(s.mode)
  <2>1. /\ content' = Written(s)
        /\ host' = [host EXCEPT ![handles[h].f] = u]
        /\ result' = IF s.err THEN [d0 |-> EINTRN, data |-> <<>>]
                     ELSE [d0 |-> Len(data), data |-> data]
        /\ UNCHANGED <<handles, running>>
    BY <1>4 DEF fread, Str, Left, Taken
  <2>2. FileBecomes(s.file, bytes)
    BY <1>2, <2>1 DEF Written, Set, FileBecomes, Whole
  <2> HIDE DEF s, data, u, bytes, pos
  <2>3. /\ u \in Stream /\ u.file = s.file /\ u.pending = <<>> /\ Fits(u, bytes)
        /\ u.mode = s.mode /\ u.err = s.err
        /\ pos \in Nat /\ bytes \in Seq(Bytes)
        /\ data \in Seq(Bytes) /\ data = Slice(bytes, pos, n)
        /\ u.off - Len(u.ahead) = pos + Len(data)
    BY <1>2, ReadStream DEF data, u, bytes, pos
  <2>4. BufferInv'
    BY <1>1, <2>1, <2>2, <2>3, OneStreamKeeps DEF s
  <2>5. /\ Opened' = [Opened EXCEPT ![h] = Seen(u)]
        /\ Held' = [Held EXCEPT ![u.file] = Overlay(bytes, u.off, u.pending)]
    BY <1>1, <2>1, <2>2, <2>3, <2>4, OneStreamSeen DEF s
  <2>6. /\ h \in DOMAIN Opened /\ Opened[h] = Seen(s)
        /\ Opened[h].file = s.file /\ Opened[h].mode = s.mode /\ Opened[h].err = s.err
        /\ Opened[h].pos = pos /\ Held[s.file] = bytes
    BY <1>1, SeenOf DEF s, bytes, pos, Whole, Pos
  <2>7. Held' = Held
    <3>1. Overlay(bytes, u.off, u.pending) = bytes
      BY <2>3 DEF Overlay
    <3> QED
      BY <2>3, <2>5, <2>6, <3>1 DEF Held
  <2>8. Seen(u).pos = pos + Len(data)
    <3>1. u.off - Len(u.ahead) + Len(u.pending) = pos + Len(data)
      <4>1. Len(u.pending) = 0 /\ Len(data) \in Nat
        BY <2>3
      <4> QED
        BY <2>3, <4>1
    <3> QED
      BY <3>1 DEF Seen
  <2>9. Opened' = [Opened EXCEPT ![h].pos = pos + Len(data)]
    <3>1. Seen(u) = [Seen(s) EXCEPT !.pos = Seen(u).pos]
      BY <2>3, SeenMoves
    <3> DEFINE next == pos + Len(data)
    <3> HIDE DEF next
    <3>2. Seen(u) = [Opened[h] EXCEPT !.pos = next]
      BY <2>6, <2>8, <3>1 DEF next
    <3> QED
      BY <2>5, <2>6, <3>2 DEF next
  <2>10. Promise!Read(h, n)
    <3>1. Promise!Slice(Held[Opened[h].file], Opened[h].pos, n) = data
      BY <2>3, <2>6, SameOperators
    <3>2. Promise!Readable(Opened[h].mode)
      BY <1>4, <2>6, SameOperators DEF Promise!Readable, Readable
    <3>3. Opened' = [Opened EXCEPT ![h].pos = @ + Len(data)]
      BY <2>6, <2>9
    <3> QED
      BY <2>1, <2>6, <2>7, <3>1, <3>2, <3>3 DEF Promise!Read
  <2> QED
    BY <2>4, <2>10
<1> QED
  BY <1>3, <1>4

-----------------------------------------------------------------------------
(* Writing                                                                 *)

LEMMA AppendFields ==
  ASSUME NEW s \in Stream, NEW data \in Seq(Bytes)
  PROVE  /\ append(s, data).file = s.file /\ append(s, data).mode = s.mode
         /\ append(s, data).err = s.err
         /\ append(s, data).ahead = <<>>
         /\ append(s, data).off = s.off - Len(s.ahead)
         /\ append(s, data).pending = s.pending \o data
<1>1. s = [file |-> s.file, mode |-> s.mode, off |-> s.off,
           ahead |-> s.ahead, pending |-> s.pending, err |-> s.err]
  BY DEF Stream
<1>2. append(s, data) = [s EXCEPT !.off = s.off - Len(s.ahead), !.ahead = <<>>,
                                  !.pending = s.pending \o data]
  BY DEF append
<1> DEFINE off == s.off - Len(s.ahead)
           pending == s.pending \o data
<1> HIDE DEF off, pending
<1>3. append(s, data) = [file |-> s.file, mode |-> s.mode, off |-> off,
                         ahead |-> <<>>, pending |-> pending, err |-> s.err]
  BY <1>1, <1>2 DEF off, pending
<1> QED
  BY <1>3 DEF off, pending

(* The stream when the buffer has been written as far as it overflows.     *)
Flushed(s, data) ==
    LET t == append(s, data)
    IN  [t EXCEPT !.off = t.off + overflow(t),
                  !.pending = SubSeq(t.pending, overflow(t) + 1, Len(t.pending))]

(* What has been written by then.                                          *)
Done(s, data) ==
    LET t == append(s, data)
    IN  Overlay(content[s.file], t.off, SubSeq(t.pending, 1, overflow(t)))

LEMMA WriteStream ==
  ASSUME Contents(content), NEW s \in Stream, s.file \in DOMAIN content,
         Fits(s, content[s.file]), NEW data \in Seq(Bytes)
  PROVE  /\ Flushed(s, data) \in Stream /\ Flushed(s, data).file = s.file
         /\ Flushed(s, data).mode = s.mode /\ Flushed(s, data).err = s.err
         /\ Fits(Flushed(s, data), Done(s, data))
         /\ Seen(Flushed(s, data)).pos = Pos(s) + Len(data)
         /\ Overlay(Done(s, data), Flushed(s, data).off, Flushed(s, data).pending)
              = Overlay(Whole(s), Pos(s), data)
<1> DEFINE t == append(s, data)
           out == overflow(t)
           done == SubSeq(t.pending, 1, out)
           rest == SubSeq(t.pending, out + 1, Len(t.pending))
           u == Flushed(s, data)
           bytes == content[s.file]
<1>1. /\ s.ahead \in Seq(Bytes) /\ s.pending \in Seq(Bytes) /\ s.off \in Nat
      /\ Len(s.ahead) \in Nat /\ Len(s.pending) \in Nat /\ Len(data) \in Nat
      /\ bytes \in Seq(Bytes)
  BY DEF Stream, Contents
<1> HIDE DEF bytes
<1>2. Len(s.ahead) <= s.off /\ (s.ahead # <<>> => s.pending = <<>>)
  BY DEF Fits, bytes
<1>3. t \in Stream
  BY <1>2, AppendType
<1>4. /\ t.file = s.file /\ t.mode = s.mode /\ t.err = s.err
      /\ t.ahead = <<>> /\ t.off = s.off - Len(s.ahead) /\ t.pending = s.pending \o data
  BY AppendFields
<1> HIDE DEF t
<1>5. out \in 0 .. Len(t.pending) /\ Len(t.pending) \in Nat
  BY <1>3, OverflowRange
<1>6. u = [t EXCEPT !.off = t.off + out, !.pending = rest]
  BY DEF Flushed, t
<1> HIDE DEF out, u
<1>7. t.pending \in Seq(Bytes) /\ t.off \in Nat
  BY <1>3 DEF Stream
<1>8. /\ rest \in Seq(Bytes) /\ Len(rest) = Len(t.pending) - out
  <2>1. /\ out + 1 \in Int /\ Len(t.pending) \in Int
        /\ \A i \in out + 1 .. Len(t.pending) : t.pending[i] \in Bytes
    BY <1>5, <1>7, ElementOfSeq
  <2>2. /\ SubSeq(t.pending, out + 1, Len(t.pending)) \in Seq(Bytes)
        /\ Len(SubSeq(t.pending, out + 1, Len(t.pending))) =
             IF out + 1 <= Len(t.pending) THEN Len(t.pending) - (out + 1) + 1 ELSE 0
    BY <2>1, SubSeqProperties
  <2> QED
    BY <1>5, <2>2
<1>9. Overlay(Overlay(bytes, t.off, done), t.off + out, rest) = Overlay(bytes, t.off, t.pending)
  BY <1>1, <1>5, <1>7, OverlaySplit
<1>10. Done(s, data) = Overlay(bytes, t.off, done)
  BY DEF Done, t, out, bytes
<1> HIDE DEF rest, done
<1> DEFINE off == t.off + out
<1>11. off \in Nat
  BY <1>5, <1>7
<1>12. u = [t EXCEPT !.off = off, !.pending = rest]
  BY <1>6
<1> HIDE DEF off
<1>13. /\ u.file = t.file /\ u.mode = t.mode /\ u.err = t.err
       /\ u.ahead = t.ahead /\ u.off = off /\ u.pending = rest
  BY <1>3, <1>12 DEF Stream
<1>14. u \in Stream
  BY <1>3, <1>8, <1>11, <1>12 DEF Stream
<1>15. Fits(u, Done(s, data))
  BY <1>4, <1>11, <1>13 DEF Fits, IsAhead
<1>16. Overlay(bytes, t.off, t.pending) = Overlay(Whole(s), Pos(s), data)
  <2>1. CASE s.ahead = <<>>
    <3>1. t.off = s.off /\ Pos(s) = s.off + Len(s.pending)
      BY <1>1, <1>4, <2>1 DEF Pos
    <3>2. Overlay(Overlay(bytes, s.off, s.pending), s.off + Len(s.pending), data)
            = Overlay(bytes, s.off, s.pending \o data)
      <4> DEFINE from == s.off
                 p == s.pending
      <4>1. from \in Nat /\ p \in Seq(Bytes) /\ bytes \in Seq(Bytes)
        BY <1>1
      <4> HIDE DEF from, p
      <4>2. Overlay(Overlay(bytes, from, p), from + Len(p), data) = Overlay(bytes, from, p \o data)
        BY <4>1, OverlayConcat
      <4> QED
        BY <4>2 DEF from, p
    <3> QED
      BY <1>4, <3>1, <3>2 DEF Whole, bytes
  <2>2. CASE s.ahead # <<>>
    <3>1. s.pending = <<>> /\ Len(s.pending) = 0
      BY <1>2, <2>2
    <3>2. Pos(s) = t.off
      BY <1>1, <1>4, <3>1 DEF Pos
    <3>3. t.pending = data
      BY <1>4, <3>1, ConcatEmptySeq
    <3>4. Whole(s) = bytes
      BY <3>1 DEF Whole, Overlay, bytes
    <3> QED
      BY <3>2, <3>3, <3>4
  <2> QED
    BY <2>1, <2>2
<1>17. Seen(u).pos = Pos(s) + Len(data)
  <2>1. Len(t.pending) = Len(s.pending) + Len(data)
    BY <1>1, <1>4, ConcatProperties
  <2>2. Seen(u).pos = off - Len(u.ahead) + Len(rest) /\ Len(u.ahead) = 0
    BY <1>4, <1>13 DEF Seen
  <2>3. off - 0 + Len(rest) = t.off + Len(t.pending)
    BY <1>5, <1>7, <1>8 DEF off
  <2> QED
    BY <1>1, <1>4, <2>1, <2>2, <2>3 DEF Pos
<1> QED
  BY <1>4, <1>9, <1>10, <1>13, <1>14, <1>15, <1>16, <1>17 DEF u, off

LEMMA WriteStep ==
  ASSUME BufferInv, Inv', NEW h, NEW data \in Seq(Bytes), fwrite(h, data)
  PROVE  BufferInv' /\ (Promise!Write(h, data) \/ Promise!Misuse(h))
<1> DEFINE s == Str(h)
           t == append(s, data)
           u == Flushed(s, data)
           done == Done(s, data)
           pos == Pos(s)
<1>1. WithStream(h) /\ Inv /\ h \in OpenHandles
  BY WithStreamInUse DEF fwrite, BufferInv
<1>2. s \in Stream /\ s.file \in DOMAIN content /\ Contents(content) /\ Fits(s, content[s.file])
  BY <1>1, InUse DEF Contents, Inv, TypeOK, BufferInv, AllFit
<1>3. CASE ~ Writable(s.mode)
  BY <1>1, <1>3, MisuseStep DEF fwrite, Str
<1>4. CASE Writable(s.mode)
  <2>1. /\ content' = Written([t EXCEPT !.pending = SubSeq(t.pending, 1, overflow(t))])
        /\ host' = [host EXCEPT ![handles[h].f] = u]
        /\ Returns(IF s.err THEN EINTRN ELSE Len(data))
        /\ UNCHANGED <<handles, running>>
    BY <1>4 DEF fwrite, Str, Flushed
  <2>2. FileBecomes(s.file, done)
    <3> DEFINE part == SubSeq(t.pending, 1, overflow(t))
               w == [t EXCEPT !.pending = part]
    <3>1. done = Overlay(content[s.file], t.off, part)
      BY DEF Done
    <3>2. t \in Stream /\ t.file = s.file
      BY <1>2, AppendType DEF Fits
    <3>3. content' = Written(w)
      BY <2>1
    <3> HIDE DEF part, t, s, done
    <3>4. w.file = s.file /\ w.off = t.off /\ w.pending = part
      BY <3>2 DEF Stream
    <3> HIDE DEF w
    <3>5. content' = Set(content, s.file, Overlay(content[s.file], t.off, part))
      BY <3>3, <3>4 DEF Written
    <3> QED
      BY <1>2, <3>1, <3>5 DEF Set, FileBecomes
  <2> HIDE DEF s, t, u, done, pos
  <2>3. /\ u \in Stream /\ u.file = s.file /\ u.mode = s.mode /\ u.err = s.err
        /\ Fits(u, done)
        /\ Seen(u).pos = pos + Len(data)
        /\ Overlay(done, u.off, u.pending) = Overlay(Whole(s), pos, data)
    BY <1>2, WriteStream DEF u, done, pos
  <2>4. BufferInv'
    BY <1>1, <2>1, <2>2, <2>3, OneStreamKeeps DEF s
  <2>5. /\ Opened' = [Opened EXCEPT ![h] = Seen(u)]
        /\ Held' = [Held EXCEPT ![u.file] = Overlay(done, u.off, u.pending)]
    BY <1>1, <2>1, <2>2, <2>3, <2>4, OneStreamSeen DEF s
  <2>6. /\ h \in DOMAIN Opened /\ Opened[h] = Seen(s)
        /\ Opened[h].file = s.file /\ Opened[h].mode = s.mode /\ Opened[h].err = s.err
        /\ Opened[h].pos = pos /\ Held[s.file] = Whole(s) /\ s.file \in DOMAIN Held
    BY <1>1, SeenOf DEF s, pos, Whole, Pos
  <2>7. Held' = [Held EXCEPT ![Opened[h].file] =
                    Promise!Overlay(Held[Opened[h].file], Opened[h].pos, data)]
    BY <2>3, <2>5, <2>6, SameOperators
  <2>8. Opened' = [Opened EXCEPT ![h].pos = @ + Len(data)]
    <3>1. Seen(u) = [Seen(s) EXCEPT !.pos = Seen(u).pos]
      BY <2>3, SeenMoves
    <3> DEFINE next == pos + Len(data)
    <3> HIDE DEF next
    <3>2. Seen(u) = [Opened[h] EXCEPT !.pos = next]
      BY <2>3, <2>6, <3>1 DEF next
    <3> QED
      BY <2>5, <2>6, <3>2 DEF next
  <2>9. result' = [d0 |-> IF Opened[h].err THEN EINTRN ELSE Len(data), data |-> <<>>]
    BY <2>1, <2>6 DEF Returns
  <2>10. Promise!Writable(Opened[h].mode)
    BY <1>4, <2>6, SameOperators
  <2> QED
    BY <2>4, <2>6, <2>7, <2>8, <2>9, <2>10 DEF Promise!Write
<1> QED
  BY <1>3, <1>4

-----------------------------------------------------------------------------
(* The other calls                                                         *)

(* A file whose stream is left alone keeps what it will hold.              *)
LEMMA FinalStays ==
  ASSUME BufferInv, BufferInv', NEW file \in DOMAIN content, file \in DOMAIN content',
         content'[file] = content[file],
         \A g \in OpenHandles : Str(g).file = file => g \in OpenHandles' /\ Str(g)' = Str(g),
         \A g \in OpenHandles' : Str(g)'.file = file => g \in OpenHandles /\ Str(g)' = Str(g)
  PROVE  Final(file)' = Final(file)
<1>1. Finals /\ Finals'
  BY FinalsKnown, FinalsKnownNext
<1>2. CASE \A g \in OpenHandles : Str(g).file # file
  <2>1. \A g \in OpenHandles' : Str(g)'.file # file
    BY <1>2
  <2> QED
    BY <1>1, <1>2, <2>1 DEF Finals
<1>3. CASE \E g \in OpenHandles : Str(g).file = file
  <2>1. PICK g \in OpenHandles : Str(g).file = file
    BY <1>3
  <2>2. g \in OpenHandles' /\ Str(g)' = Str(g)
    BY <2>1
  <2>3. Final(file) = Overlay(content[file], Str(g).off, Str(g).pending)
    BY <1>1, <2>1 DEF Finals
  <2>4. Final(file)' = Overlay(content[file], Str(g).off, Str(g).pending)'
    BY <1>1, <2>1, <2>2 DEF Finals
  <2>5. Overlay(content[file], Str(g).off, Str(g).pending)'
          = Overlay(content[file], Str(g).off, Str(g).pending)
    BY <2>2 DEF Overlay
  <2> QED
    BY <2>3, <2>4, <2>5
<1> QED
  BY <1>2, <1>3

LEMMA NothingSeen ==
  ASSUME BufferInv, Inv', UNCHANGED <<handles, host, content, running>>
  PROVE  BufferInv' /\ Opened' = Opened /\ Held' = Held
<1>1. OpenHandles' = OpenHandles
  BY DEF OpenHandles
<1>2. \A g : Str(g)' = Str(g)
  BY DEF Str
<1>3. BufferInv'
  BY <1>1 DEF BufferInv, OneEach, LostEmpty, AllFit, Str, Fits, IsAhead
<1>4. Opened' = Opened
  BY <1>1 DEF Opened, Seen
<1>5. \A file \in DOMAIN content : Final(file)' = Final(file)
  BY DEF Final, Overlay
<1>6. Held' = Held
  BY <1>5 DEF Held
<1> QED
  BY <1>3, <1>4, <1>6

LEMMA RefuseStep ==
  ASSUME BufferInv, Inv', NEW d0 \in Int, d0 < 0, Returns(d0),
         UNCHANGED <<handles, host, content, running>>
  PROVE  BufferInv' /\ Promise!Refuse
<1>1. BufferInv' /\ Opened' = Opened /\ Held' = Held
  BY NothingSeen
<1>2. result'.d0 < 0
  BY DEF Returns
<1> QED
  BY <1>1, <1>2 DEF Promise!Refuse

LEMMA NoHandles ==
  ASSUME Inv', running' = FALSE, host' = <<>>
  PROVE  /\ BufferInv' /\ Opened' = <<>>
         /\ \A file : Final(file)' = content'[file]
<1>1. OpenHandles' = {} /\ DOMAIN host' = {}
  BY DEF OpenHandles
<1>2. BufferInv'
  BY <1>1 DEF BufferInv, OneEach, LostEmpty, AllFit
<1>3. Opened' = <<>>
  BY <1>1 DEF Opened
<1>4. \A file : Final(file)' = content'[file]
  BY <1>1 DEF Final
<1> QED
  BY <1>2, <1>3, <1>4

LEMMA EndStep ==
  ASSUME BufferInv, Inv', Pterm
  PROVE  BufferInv' /\ Promise!End
<1>1. /\ BufferInv' /\ Opened' = <<>>
      /\ \A file : Final(file)' = content'[file]
  BY NoHandles DEF Pterm
<1>2. DOMAIN content' = DOMAIN content /\ \A file \in DOMAIN content : content'[file] = Final(file)
  BY DEF Pterm
<1>3. Held' = [file \in DOMAIN content' |-> Final(file)']
  BY DEF Held
<1>4. Held' = Held
  BY <1>1, <1>2, <1>3 DEF Held
<1> QED
  BY <1>1, <1>4 DEF Promise!End, Pterm

LEMMA KillStep ==
  ASSUME BufferInv, Inv', NEW h, NullStream(h)
  PROVE  BufferInv' /\ Promise!Kill
<1>1. /\ BufferInv' /\ Opened' = <<>>
      /\ \A file : Final(file)' = content'[file]
  BY NoHandles DEF NullStream
<1>2. content' = content
  BY DEF NullStream
<1>3. Held' = [file \in DOMAIN content |-> content[file]]
  <2>1. Held' = [file \in DOMAIN content' |-> Final(file)']
    BY DEF Held
  <2> QED
    BY <1>1, <1>2, <2>1
<1>4. DOMAIN Held = DOMAIN content /\ \A file \in DOMAIN content : Held[file] = Final(file)
  BY DEF Held
<1>5. ASSUME NEW file \in DOMAIN Held
      PROVE  Held'[file] = Held[file] \/ \E g \in DOMAIN Opened : Opened[g].file = file
  <2>1. Finals
    BY FinalsKnown
  <2>2. CASE \A g \in OpenHandles : Str(g).file # file
    BY <1>3, <1>4, <1>5, <2>1, <2>2 DEF Finals
  <2>3. CASE \E g \in OpenHandles : Str(g).file = file
    BY <2>3, SeenOf
  <2> QED
    BY <2>2, <2>3
<1> QED
  BY <1>1, <1>3, <1>4, <1>5 DEF Promise!Kill, NullStream

LEMMA DeleteStep ==
  ASSUME BufferInv, Inv', NEW file \in Files, Fdelete(file)
  PROVE  BufferInv' /\ (Promise!Delete(file) \/ Promise!Refuse)
<1>1. CASE file \notin DOMAIN content
  <2>1. EFILNF \in Int /\ EFILNF < 0
    BY DEF EFILNF
  <2> QED
    BY <1>1, <2>1, RefuseStep DEF Fdelete
<1>2. CASE file \in DOMAIN content
  <2>1. /\ content' = Drop(content, file) /\ Returns(0)
        /\ \A fd \in DOMAIN host : host[fd].file # file
        /\ UNCHANGED <<handles, host, running>>
    BY <1>2 DEF Fdelete
  <2>2. /\ DOMAIN content' = DOMAIN content \ {file}
        /\ \A g \in DOMAIN content' : content'[g] = content[g]
    BY <2>1 DEF Drop
  <2>3. OpenHandles' = OpenHandles /\ \A g : Str(g)' = Str(g)
    BY <2>1 DEF OpenHandles, Str
  <2>4. \A g \in OpenHandles : Str(g).file # file /\ Str(g).file \in DOMAIN content'
    BY <2>1, <2>2, InUse DEF BufferInv, Str
  <2>5. AllFit'
    <3> SUFFICES ASSUME NEW g \in OpenHandles PROVE Fits(Str(g), content[Str(g).file])'
      BY <2>3 DEF AllFit
    <3>1. Fits(Str(g), content[Str(g).file]) /\ content'[Str(g).file] = content[Str(g).file]
      BY <2>2, <2>4 DEF BufferInv, AllFit
    <3> QED
      BY <2>3, <3>1 DEF Fits, IsAhead
  <2>6. BufferInv'
    BY <2>1, <2>3, <2>5 DEF BufferInv, OneEach, LostEmpty
  <2>7. Opened' = Opened
    BY <2>1, <2>3 DEF Opened, Seen
  <2>8. ASSUME NEW g \in DOMAIN content' PROVE Final(g)' = Final(g)
    BY <2>2, <2>3, <2>6, <2>8, FinalStays
  <2>9. Held' = Drop(Held, file)
    BY <2>2, <2>8 DEF Held, Drop
  <2>10. file \in DOMAIN Held /\ \A g \in DOMAIN Opened : Opened[g].file # file
    BY <1>2, <2>4 DEF Held, Opened, Seen, Str
  <2>11. result' = [d0 |-> 0, data |-> <<>>]
    BY <2>1 DEF Returns
  <2> QED
    BY <2>6, <2>7, <2>9, <2>10, <2>11, SameOperators DEF Promise!Delete
<1> QED
  BY <1>1, <1>2

LEMMA CloseStep ==
  ASSUME BufferInv, Inv', NEW h, fclose(h)
  PROVE  BufferInv' /\ Promise!Close(h)
<1> DEFINE s == Str(h)
<1>1. WithStream(h) /\ Inv /\ h \in OpenHandles /\ h \in Handle /\ running
  BY WithStreamInUse, InUse DEF fclose, BufferInv
<1>2. s \in Stream /\ s.file \in DOMAIN content /\ handles[h].f \in DOMAIN host
  BY <1>1, InUse
<1>3. FileBecomes(s.file, Whole(s))
  BY <1>2 DEF fclose, Written, Set, FileBecomes, Whole, Str
<1>4. /\ DOMAIN host' = DOMAIN host \ {handles[h].f}
      /\ \A d \in DOMAIN host' : host'[d] = host[d]
  BY DEF fclose, Drop
<1>5. OpenHandles' = OpenHandles \ {h} /\ \A g \in OpenHandles' : handles'[g].f = handles[g].f
  BY <1>1 DEF fclose, release, OpenHandles, Inv, TypeOK, Entry
<1>6. \A g \in OpenHandles' : /\ Str(g)' = Str(g) /\ Str(g).file # s.file
                              /\ Str(g).file \in DOMAIN content
  <2>1. \A g \in OpenHandles' : handles[g].f # handles[h].f /\ handles[g].f \in DOMAIN host
    BY <1>1, <1>5 DEF Inv, HandlesOwnStreams
  <2>2. \A g \in OpenHandles' : Str(g).file # s.file
    BY <1>1, <1>5 DEF BufferInv, OneEach
  <2>3. \A g \in OpenHandles' : Str(g).file \in DOMAIN content
    BY <1>1, <1>5, InUse
  <2> QED
    BY <1>4, <1>5, <2>1, <2>2, <2>3 DEF Str
<1>7. BufferInv'
  <2>1. OneEach'
    BY <1>5, <1>6 DEF BufferInv, OneEach
  <2>2. LostEmpty'
    BY <1>4, <1>5 DEF BufferInv, LostEmpty
  <2>3. AllFit'
    <3> SUFFICES ASSUME NEW g \in OpenHandles' PROVE Fits(Str(g), content[Str(g).file])'
      BY DEF AllFit
    <3>1. content'[Str(g).file] = content[Str(g).file]
      BY <1>3, <1>6 DEF FileBecomes
    <3>2. Fits(Str(g), content[Str(g).file])
      BY <1>5 DEF BufferInv, AllFit
    <3> QED
      BY <1>6, <3>1, <3>2 DEF Fits, IsAhead
  <2> QED
    BY <2>1, <2>2, <2>3 DEF BufferInv
<1>8. Opened' = Drop(Opened, h)
  <2>1. Opened = [g \in OpenHandles |-> Seen(Str(g))]
    BY DEF Opened, Str
  <2>2. Opened' = [g \in OpenHandles' |-> Seen(Str(g)')]
    BY DEF Opened, Str, Seen
  <2> QED
    BY <1>5, <1>6, <2>1, <2>2 DEF Drop
<1>9. ASSUME NEW file \in DOMAIN content PROVE Final(file)' = Final(file)
  <2>1. CASE file = s.file
    <3>1. Finals /\ Finals'
      BY <1>7, FinalsKnown, FinalsKnownNext
    <3>2. Final(file) = Whole(s)
      BY <1>1, <2>1, <3>1 DEF Finals, Whole
    <3>3. \A g \in OpenHandles' : Str(g)'.file # file
      BY <1>6, <2>1
    <3>4. content'[file] = Whole(s) /\ file \in DOMAIN content'
      BY <1>3, <2>1 DEF FileBecomes
    <3> QED
      BY <3>1, <3>2, <3>3, <3>4 DEF Finals
  <2>2. CASE file # s.file
    <3>1. content'[file] = content[file] /\ file \in DOMAIN content'
      BY <1>3, <2>2 DEF FileBecomes
    <3>2. \A g \in OpenHandles : Str(g).file = file => g \in OpenHandles' /\ Str(g)' = Str(g)
      BY <1>5, <1>6, <2>2
    <3>3. \A g \in OpenHandles' : g \in OpenHandles /\ Str(g)' = Str(g)
      BY <1>5, <1>6
    <3> QED
      BY <1>7, <3>1, <3>2, <3>3, FinalStays
  <2> QED
    BY <2>1, <2>2
<1>10. Held' = Held
  BY <1>3, <1>9 DEF Held, FileBecomes
<1>11. result' = [d0 |-> 0, data |-> <<>>]
  BY DEF fclose, Returns
<1>12. h \in DOMAIN Opened
  BY <1>1, SeenOf
<1> QED
  BY <1>7, <1>8, <1>10, <1>11, <1>12, SameOperators DEF Promise!Close

(* Opening, with a free handle or without.                                 *)
LEMMA OpenStep ==
  ASSUME BufferInv, Inv', NEW file \in Files, NEW mode \in Mode,
         NEW tableFull \in Int, tableFull < 0,
         MayOpen(file), Open(file, mode, tableFull)
  PROVE  /\ BufferInv'
         /\ Promise!Refuse \/ Promise!Truncate(file) \/ \E h \in Handle : Promise!Open(h, file, mode)
<1> DEFINE new == NewStream(file, mode)
<1>1. PICK fd \in FreeFds :
        /\ HostOpens(file, mode)
        /\ host' = Set(host, fd, new)
        /\ content' = IF mode = "w" THEN Set(content, file, <<>>) ELSE content
        /\ IF FreeHandles = {}
           THEN Returns(tableFull) /\ UNCHANGED handles
           ELSE \E h \in FreeHandles : get_handle(h, fd) /\ Returns(h)
        /\ UNCHANGED running
  BY DEF Open
<1>2. fd \in Fds /\ fd \notin DOMAIN host /\ fd # NULL
  BY TableAssumption DEF FreeFds, NULL
<1>3. /\ new.file = file /\ new.mode = mode /\ new.off = 0 /\ new.err = FALSE
      /\ new.ahead = <<>> /\ new.pending = <<>>
  BY DEF NewStream
<1> HIDE DEF new
<1>4. /\ DOMAIN host' = DOMAIN host \cup {fd}
      /\ host'[fd] = new
      /\ \A d \in DOMAIN host : host'[d] = host[d]
  BY <1>1, <1>2 DEF Set
<1>5. /\ DOMAIN content' = DOMAIN content \cup {file}
      /\ \A g \in DOMAIN content : g # file => content'[g] = content[g]
      /\ mode = "w" => content'[file] = <<>>
      /\ mode # "w" => content'[file] = content[file] /\ file \in DOMAIN content
  BY <1>1 DEF HostOpens, Set
<1>6. /\ handles \in [Handle -> Entry] /\ running
      /\ \A g \in OpenHandles : Str(g).file # file /\ handles[g].f \in DOMAIN host
  BY DEF BufferInv, Inv, TypeOK, HandlesOwnStreams, MayOpen, Str
<1>7. \/ FreeHandles = {} /\ Returns(tableFull) /\ handles' = handles
      \/ \E h \in FreeHandles : /\ handles' = [handles EXCEPT ![h] = [f |-> fd, allocated |-> TRUE]]
                                /\ Returns(h)
  BY <1>1 DEF get_handle
<1>8. \A g \in OpenHandles : g \in OpenHandles' /\ handles'[g].f = handles[g].f
  BY <1>1, <1>6, <1>7 DEF OpenHandles, FreeHandles
<1>9. \A g \in OpenHandles : Str(g)' = Str(g)
  BY <1>4, <1>6, <1>8 DEF Str
<1>10. \A g \in OpenHandles' : g \in OpenHandles \/ Str(g)' = new
  <2>1. \A g \in OpenHandles' : g \in OpenHandles \/ handles'[g].f = fd
    BY <1>1, <1>6, <1>7 DEF OpenHandles, FreeHandles
  <2> QED
    BY <1>4, <2>1 DEF Str
<1>11. \A g \in OpenHandles' : Str(g)' = new => handles'[g].f = fd
  <2>1. \A g \in OpenHandles' : g \in OpenHandles \/ handles'[g].f = fd
    BY <1>1, <1>6, <1>7 DEF OpenHandles, FreeHandles
  <2> QED
    BY <1>3, <1>6, <1>9, <2>1
<1>12. BufferInv'
  <2>1. \A g, h \in OpenHandles' : handles'[g].f = handles'[h].f => g = h
    BY DEF Inv, HandlesOwnStreams
  <2>2. OneEach'
    <3> SUFFICES ASSUME NEW g \in OpenHandles', NEW h \in OpenHandles',
                        Str(g)'.file = Str(h)'.file
                 PROVE  g = h
      BY DEF OneEach
    <3>1. CASE g \in OpenHandles /\ h \in OpenHandles
      BY <1>9, <3>1 DEF BufferInv, OneEach
    <3>2. CASE g \notin OpenHandles /\ h \notin OpenHandles
      BY <1>10, <1>11, <2>1, <3>2
    <3>3. CASE (g \in OpenHandles) # (h \in OpenHandles)
      BY <1>3, <1>6, <1>9, <1>10, <3>3
    <3> QED
      BY <3>1, <3>2, <3>3
  <2>3. LostEmpty'
    BY <1>3, <1>4, <1>8 DEF BufferInv, LostEmpty
  <2>4. AllFit'
    <3> SUFFICES ASSUME NEW g \in OpenHandles' PROVE Fits(Str(g), content[Str(g).file])'
      BY DEF AllFit
    <3>1. CASE g \in OpenHandles
      <4>1. Str(g).file \in DOMAIN content
        BY <3>1, InUse DEF BufferInv
      <4>2. content'[Str(g).file] = content[Str(g).file]
        BY <1>5, <1>6, <3>1, <4>1
      <4>3. Fits(Str(g), content[Str(g).file])
        BY <3>1 DEF BufferInv, AllFit
      <4> QED
        BY <1>9, <3>1, <4>2, <4>3 DEF Fits, IsAhead
    <3>2. CASE g \notin OpenHandles
      BY <1>3, <1>10, <3>2 DEF Fits, IsAhead
    <3> QED
      BY <3>1, <3>2
  <2> QED
    BY <2>2, <2>3, <2>4 DEF BufferInv
<1>13. Finals /\ Finals'
  BY <1>12, FinalsKnown, FinalsKnownNext
<1>14. Final(file)' = content'[file]
  <2>1. file \in DOMAIN content'
    BY <1>5
  <2>2. CASE \A g \in OpenHandles' : Str(g)'.file # file
    BY <1>13, <2>1, <2>2 DEF Finals
  <2>3. CASE \E g \in OpenHandles' : Str(g)'.file = file
    <3>1. PICK g \in OpenHandles' : Str(g)'.file = file
      BY <2>3
    <3>2. Str(g)' = new
      BY <1>6, <1>9, <1>10, <3>1
    <3>3. Final(file)' = Overlay(content[file], Str(g).off, Str(g).pending)'
      BY <1>13, <2>1, <3>1 DEF Finals
    <3> QED
      BY <1>3, <3>2, <3>3 DEF Overlay
  <2> QED
    BY <2>2, <2>3
<1>15. ASSUME NEW g \in DOMAIN content, g # file PROVE Final(g)' = Final(g)
  <2>1. content'[g] = content[g] /\ g \in DOMAIN content'
    BY <1>5, <1>15
  <2>2. \A k \in OpenHandles : Str(k).file = g => k \in OpenHandles' /\ Str(k)' = Str(k)
    BY <1>8, <1>9
  <2>3. \A k \in OpenHandles' : Str(k)'.file = g => k \in OpenHandles /\ Str(k)' = Str(k)
    BY <1>3, <1>9, <1>10, <1>15
  <2> QED
    BY <1>12, <2>1, <2>2, <2>3, FinalStays
<1>16. file \in DOMAIN content => Final(file) = content[file]
  BY <1>6, <1>13 DEF Finals
<1>17. Held' = IF mode = "w" THEN Set(Held, file, <<>>) ELSE Held
  <2>1. Held' = [g \in DOMAIN content' |-> Final(g)']
    BY DEF Held
  <2>2. CASE mode = "w"
    <3>1. DOMAIN Held = DOMAIN content /\ \A g \in DOMAIN content : Held[g] = Final(g)
      BY DEF Held
    <3>2. Set(Held, file, <<>>) = [g \in DOMAIN content' |-> IF g = file THEN <<>> ELSE Held[g]]
      BY <1>5, <3>1 DEF Set
    <3>3. \A g \in DOMAIN content' : Final(g)' = IF g = file THEN <<>> ELSE Held[g]
      BY <1>5, <1>14, <1>15, <2>2, <3>1
    <3> QED
      BY <2>1, <2>2, <3>2, <3>3
  <2>3. CASE mode # "w"
    <3>1. DOMAIN content' = DOMAIN content
      BY <1>5, <2>3
    <3>2. \A g \in DOMAIN content : Final(g)' = Final(g)
      BY <1>5, <1>14, <1>15, <1>16, <2>3
    <3> QED
      BY <2>1, <2>3, <3>1, <3>2 DEF Held
  <2> QED
    BY <2>2, <2>3
<1>18. \A g \in DOMAIN Opened : Opened[g].file # file
  BY <1>6 DEF Opened, Seen, Str
<1>19. Opened = [g \in OpenHandles |-> Seen(Str(g))]
  BY DEF Opened, Str
<1>20. Opened' = [g \in OpenHandles' |-> Seen(Str(g)')]
  BY DEF Opened, Str, Seen
<1>21. CASE FreeHandles = {} /\ Returns(tableFull) /\ handles' = handles
  <2>1. OpenHandles' = OpenHandles
    BY <1>1, <1>21 DEF OpenHandles
  <2>2. Opened' = Opened
    BY <1>9, <1>19, <1>20, <2>1
  <2>3. result'.d0 < 0
    BY <1>21 DEF Returns
  <2>4. CASE mode = "w"
    <3>1. Held' = Promise!Set(Held, file, <<>>)
      BY <1>17, <2>4, SameOperators
    <3>2. Promise!Truncate(file)
      BY <1>18, <2>2, <2>3, <3>1 DEF Promise!Truncate
    <3> QED
      BY <1>12, <3>2
  <2>5. CASE mode # "w"
    <3>1. Promise!Refuse
      BY <1>17, <2>2, <2>3, <2>5 DEF Promise!Refuse
    <3> QED
      BY <1>12, <3>1
  <2> QED
    BY <2>4, <2>5
<1>22. CASE \E h \in FreeHandles :
              /\ handles' = [handles EXCEPT ![h] = [f |-> fd, allocated |-> TRUE]]
              /\ Returns(h)
  <2>1. PICK h \in FreeHandles :
           /\ handles' = [handles EXCEPT ![h] = [f |-> fd, allocated |-> TRUE]]
           /\ Returns(h)
    BY <1>22
  <2>2. h \in Handle /\ h \notin OpenHandles
    BY DEF FreeHandles, OpenHandles
  <2>3. OpenHandles' = OpenHandles \cup {h}
    BY <1>1, <1>2, <1>6, <2>1, <2>2 DEF OpenHandles
  <2>4. Seen(Str(h)') = [file |-> file, mode |-> mode, pos |-> 0, err |-> FALSE]
    <3>1. Str(h)' = new
      BY <1>10, <2>2, <2>3
    <3>2. new.off - Len(new.ahead) + Len(new.pending) = 0
      BY <1>3
    <3> DEFINE pos == new.off - Len(new.ahead) + Len(new.pending)
               err == new.err
    <3>3. Seen(new) = [file |-> new.file, mode |-> new.mode, err |-> err, pos |-> pos]
      BY DEF Seen
    <3>4. pos = 0 /\ (err = FALSE)
      BY <1>3, <3>2
    <3> HIDE DEF pos, err
    <3> QED
      BY <1>3, <3>1, <3>3, <3>4, Zenon
  <2>5. Opened' = Set(Opened, h, [file |-> file, mode |-> mode, pos |-> 0, err |-> FALSE])
    <3> DEFINE rec == [file |-> file, mode |-> mode, pos |-> 0, err |-> FALSE]
    <3>1. Seen(Str(h)') = rec
      BY <2>4
    <3> HIDE DEF rec
    <3>2. Opened' = Set(Opened, h, rec)
      BY <1>9, <1>19, <1>20, <2>2, <2>3, <3>1 DEF Set
    <3> QED
      BY <3>2 DEF rec
  <2>6. h \notin DOMAIN Opened
    BY <1>19, <2>2
  <2>7. result' = [d0 |-> h, data |-> <<>>]
    BY <2>1 DEF Returns
  <2>8. Promise!Open(h, file, mode)
    BY <1>17, <1>18, <2>5, <2>6, <2>7, SameOperators DEF Promise!Open
  <2> QED
    BY <1>12, <2>2, <2>8
<1> QED
  BY <1>7, <1>21, <1>22

-----------------------------------------------------------------------------
(* The refinement                                                          *)

LEMMA InitStep == Init => BufferInv /\ Promise!Init
<1> SUFFICES ASSUME Init PROVE BufferInv /\ Promise!Init
  OBVIOUS
<1>1. Inv
  BY InitInv
<1>2. OpenHandles = {0, 1} /\ handles[0].f = 0 /\ handles[1].f = 1
  <2>1. 0 \in Handle /\ 1 \in Handle /\ 0 < Reserved /\ 1 < Reserved
    BY TableAssumption DEF Handle
  <2>2. \A h \in Handle : /\ handles[h].f = IF h \in {0, 1} THEN h ELSE NULL
                          /\ handles[h].allocated = (h < Reserved)
    BY DEF Init
  <2>3. 0 # NULL /\ 1 # NULL
    BY DEF NULL
  <2>4. handles[0].f = 0 /\ handles[1].f = 1
    BY <2>1, <2>2
  <2>5. handles[0].allocated /\ handles[1].allocated
    BY <2>1, <2>2
  <2>6. running
    BY DEF Init
  <2>7. \A h \in OpenHandles : h \in {0, 1}
    BY <2>2 DEF OpenHandles
  <2>8. 0 \in OpenHandles /\ 1 \in OpenHandles
    BY <2>1, <2>3, <2>4, <2>5, <2>6 DEF OpenHandles
  <2> QED
    BY <2>4, <2>7, <2>8
<1>3. Str(0) = NewStream(Stdin, "r") /\ Str(1) = NewStream(Stdout, "w")
  BY <1>2 DEF Init, Str
<1>4. OneEach
  <2>1. Str(0).file = Stdin /\ Str(1).file = Stdout
    BY <1>3 DEF NewStream
  <2> QED
    BY <1>2, <2>1, TableAssumption DEF OneEach
<1>5. LostEmpty
  BY DEF Init, LostEmpty, NewStream
<1>6. AllFit
  <2>1. \A h \in OpenHandles : Str(h).ahead = <<>> /\ Str(h).off = 0
    BY <1>2, <1>3 DEF NewStream
  <2> QED
    BY <2>1 DEF AllFit, Fits, IsAhead
<1>7. Opened = [h \in {0, 1} |-> [file |-> IF h = 0 THEN Stdin ELSE Stdout,
                   mode |-> IF h = 0 THEN "r" ELSE "w", pos |-> 0, err |-> FALSE]]
  <2>1. ASSUME NEW file, NEW mode
        PROVE  Seen(NewStream(file, mode)) = [file |-> file, mode |-> mode, pos |-> 0, err |-> FALSE]
    <3> DEFINE new == NewStream(file, mode)
               pos == new.off - Len(new.ahead) + Len(new.pending)
               err == new.err
    <3>1. /\ new.file = file /\ new.mode = mode /\ new.off = 0
          /\ new.ahead = <<>> /\ new.pending = <<>>
      BY DEF NewStream
    <3>2. err = FALSE
      BY DEF NewStream
    <3> HIDE DEF new
    <3>3. pos = 0
      BY <3>1
    <3>4. Seen(new) = [file |-> new.file, mode |-> new.mode, err |-> err, pos |-> pos]
      BY DEF Seen
    <3> HIDE DEF pos, err
    <3> QED
      BY <3>1, <3>2, <3>3, <3>4, Zenon DEF new
  <2> DEFINE rec(file, mode) == [file |-> file, mode |-> mode, pos |-> 0, err |-> FALSE]
  <2>2. \A file, mode : Seen(NewStream(file, mode)) = rec(file, mode)
    BY <2>1
  <2> HIDE DEF rec
  <2>3. Opened = [h \in {0, 1} |-> Seen(Str(h))]
    BY <1>2 DEF Opened, Str
  <2>4. \A h \in {0, 1} : Seen(Str(h)) = rec(IF h = 0 THEN Stdin ELSE Stdout,
                                             IF h = 0 THEN "r" ELSE "w")
    BY <1>3, <2>2
  <2>5. Opened = [h \in {0, 1} |-> rec(IF h = 0 THEN Stdin ELSE Stdout,
                                       IF h = 0 THEN "r" ELSE "w")]
    BY <2>3, <2>4
  <2> QED
    BY <2>5 DEF rec
<1>8. Promise!Init
  BY <1>7 DEF Promise!Init, Init
<1> QED
  BY <1>1, <1>4, <1>5, <1>6, <1>8 DEF BufferInv

(* Seeks that fail: Fseek takes the handle for a descriptor, and one that  *)
(* moves a stream moves another than OpenFiles would.                      *)
SeeksFail ==
    \A h \in Named, offset \in Offsets, seekmode \in 0 .. 3 :
        Fseek(h, offset, seekmode) => result'.d0 < 0

LEMMA SeekStep ==
  ASSUME BufferInv, Inv', SeeksFail,
         NEW h \in Named, NEW offset \in Offsets, NEW seekmode \in 0 .. 3,
         Fseek(h, offset, seekmode)
  PROVE  BufferInv' /\ Promise!Refuse
<1> DEFINE s == host[h]
           to == offset + CASE seekmode = 0 -> 0
                            [] seekmode = 1 -> s.off
                            [] seekmode = 2 -> Len(content[s.file])
<1>1. UNCHANGED <<handles, content, running>> /\ result'.d0 < 0
  BY DEF Fseek, SeeksFail
<1>2. \/ \E d0 \in {EINVAL, EIHNDL, EACCDN} : Returns(d0) /\ UNCHANGED host
      \/ seekmode # 3 /\ h \in DOMAIN host /\ ~ (to < 0) /\ Returns(to)
  BY DEF Fseek
<1>3. CASE \E d0 \in {EINVAL, EIHNDL, EACCDN} : Returns(d0) /\ UNCHANGED host
  <2>1. PICK d0 \in {EINVAL, EIHNDL, EACCDN} : Returns(d0) /\ UNCHANGED host
    BY <1>3
  <2>2. d0 \in Int /\ d0 < 0
    BY DEF EINVAL, EIHNDL, EACCDN
  <2> QED
    BY <1>1, <2>1, <2>2, RefuseStep
<1>4. CASE seekmode # 3 /\ h \in DOMAIN host /\ ~ (to < 0) /\ Returns(to)
  BY <1>1, <1>4 DEF Returns
<1> QED
  BY <1>2, <1>3, <1>4

(* Every step keeps the invariant and is a step of OpenFiles, or none.     *)
LEMMA NextStep == BufferInv /\ [Next]_vars /\ [SeeksFail]_vars
                    => BufferInv' /\ [Promise!Next]_(Promise!vars)
<1> SUFFICES ASSUME BufferInv, [Next]_vars, [SeeksFail]_vars
             PROVE  BufferInv' /\ [Promise!Next]_(Promise!vars)
  OBVIOUS
<1>0. Inv'
  BY NextInv DEF BufferInv
<1> DEFINE Kept == BufferInv' /\ [Promise!Next]_(Promise!vars)
<1>1. ASSUME NEW file \in Files, NEW mode \in Mode, NEW tableFull \in Int, tableFull < 0,
             MayOpen(file), Open(file, mode, tableFull)
      PROVE  Kept
  <2>1. "r" \in {"r", "w", "r+"} /\ mode \in {"r", "w", "r+"}
    BY DEF Mode
  <2> QED
    BY <1>0, <1>1, <2>1, OpenStep DEF Promise!Next
<1>2. ASSUME NEW d0 \in Int, d0 < 0, Returns(d0), UNCHANGED <<handles, host, content, running>>
      PROVE  Kept
  BY <1>0, <1>2, RefuseStep DEF Promise!Next
<1>3. ASSUME NEW file \in Files, Fcreate(file) PROVE Kept
  <2>1. "w" \in Mode /\ EACCDN \in Int /\ EACCDN < 0 /\ -1 \in Int /\ -1 < 0
    BY DEF Mode, EACCDN
  <2> QED
    BY <1>1, <1>2, <1>3, <2>1 DEF Fcreate, HostRefuses
<1>4. ASSUME NEW file \in Files, NEW mode \in Mode, Fopen(file, mode) PROVE Kept
  <2>1. ENHNDL \in Int /\ ENHNDL < 0 /\ EFILNF \in Int /\ EFILNF < 0
    BY DEF ENHNDL, EFILNF
  <2> QED
    BY <1>1, <1>2, <1>4, <2>1 DEF Fopen, HostRefuses
<1>5. ASSUME NEW file \in Files, Fdelete(file) PROVE Kept
  BY <1>0, <1>5, DeleteStep DEF Promise!Next
<1>6. ASSUME NEW h, BadHandle(h) PROVE Kept
  <2>1. EIHNDL \in Int /\ EIHNDL < 0
    BY DEF EIHNDL
  <2> QED
    BY <1>2, <1>6, <2>1 DEF BadHandle
<1>7. ASSUME NEW h, NullStream(h) PROVE Kept
  BY <1>0, <1>7, KillStep DEF Promise!Next
<1>8. ASSUME NEW h, WithStream(h) PROVE h \in Handle
  BY <1>8 DEF WithStream, GoodHandle, invalid_handle
<1>9. ASSUME NEW h \in Named, Fclose(h) PROVE Kept
  <2>1. ASSUME fclose(h) PROVE Kept
    BY <1>0, <1>8, <2>1, CloseStep DEF Promise!Next, fclose
  <2> QED
    BY <1>6, <1>7, <1>9, <2>1 DEF Fclose
<1>10. ASSUME NEW h \in Named, NEW n \in 1 .. MaxLen + 1, Fread(h, n) PROVE Kept
  <2>1. ASSUME fread(h, n) PROVE Kept
    <3>1. h \in Handle /\ n \in Nat
      BY <1>8, <2>1, TableAssumption DEF fread
    <3> QED
      BY <1>0, <2>1, <3>1, ReadStep DEF Promise!Next
  <2> QED
    BY <1>6, <1>7, <1>10, <2>1 DEF Fread
<1>11. ASSUME NEW h \in Named, NEW data \in Data, Fwrite(h, data) PROVE Kept
  <2>1. ASSUME fwrite(h, data) PROVE Kept
    <3>1. h \in Handle /\ data \in Seq(Bytes)
      BY <1>8, <2>1, TableAssumption, SeqDef DEF fwrite, Data
    <3> QED
      BY <1>0, <2>1, <3>1, WriteStep DEF Promise!Next
  <2> QED
    BY <1>6, <1>7, <1>11, <2>1 DEF Fwrite
<1>12. ASSUME NEW h \in Named, NEW offset \in Offsets, NEW seekmode \in 0 .. 3,
              Fseek(h, offset, seekmode), SeeksFail
       PROVE  Kept
  BY <1>0, <1>12, SeekStep DEF Promise!Next
<1>13. CASE Pterm
  BY <1>0, <1>13, EndStep DEF Promise!Next
<1>14. CASE UNCHANGED vars
  <2>1. UNCHANGED <<handles, host, content, running, result>>
    BY <1>14 DEF vars
  <2>2. BufferInv' /\ Opened' = Opened /\ Held' = Held
    BY <1>0, <2>1, NothingSeen
  <2> QED
    BY <2>1, <2>2 DEF Promise!vars
<1> QED
  BY <1>3, <1>4, <1>5, <1>9, <1>10, <1>11, <1>12, <1>13, <1>14 DEF Next

(* The table, the buffers and the descriptors do what OpenFiles promises,  *)
(* in every behaviour whose seeks fail.                                    *)
THEOREM Refinement == Spec /\ [][SeeksFail]_vars => ImplementsOpenFiles
<1>1. Spec /\ [][SeeksFail]_vars => []BufferInv
  BY InitStep, NextStep, PTL DEF Spec
<1> QED
  BY <1>1, InitStep, NextStep, PTL DEF Spec, ImplementsOpenFiles, Promise!Spec

(* So do they for every program that does not seek, and for every program  *)
(* whose handles are no descriptors: its seeks all fail.                   *)
LEMMA NothingSought ==
  ASSUME Offsets = {} \/ Named \cap Fds = {}, Inv
  PROVE  SeeksFail
<1> SUFFICES ASSUME NEW h \in Named, NEW offset \in Offsets, NEW seekmode \in 0 .. 3,
                    Fseek(h, offset, seekmode)
             PROVE  result'.d0 < 0
  BY DEF SeeksFail
<1>1. h \notin DOMAIN host
  BY DEF Inv, TypeOK
<1>2. h \in DOMAIN host \/ \E d0 \in {EINVAL, EIHNDL, EACCDN} : Returns(d0)
  BY DEF Fseek
<1> QED
  BY <1>1, <1>2 DEF Returns, EINVAL, EIHNDL, EACCDN

THEOREM RefinementWithoutSeeks ==
  ASSUME Offsets = {} \/ Named \cap Fds = {}
  PROVE  Spec => ImplementsOpenFiles
<1>1. Inv => SeeksFail
  BY NothingSought
<1> QED
  BY <1>1, Invariance, Refinement, PTL
=============================================================================
