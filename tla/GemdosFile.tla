----------------------------- MODULE GemdosFile -----------------------------
(***************************************************************************)
(* The file handles of GEMDOS (gemdosfile.c): the table handles, the host  *)
(* streams (FILE) in it, their buffers, and the host descriptors below.    *)
(*                                                                         *)
(* A FILE is named by its descriptor.  The host is external: descriptors   *)
(* are given out lowest first, a stream reads ahead and writes behind by   *)
(* buffers of BUFSIZ bytes as glibc does.  The program is any program that *)
(* has a file open under one handle at most.                               *)
(***************************************************************************)
EXTENDS ByteFiles, FiniteSets

CONSTANTS
    HANDLES,    \* 10, entries of the table
    Reserved,   \* 6, entries set aside when the emulator starts
    Fds,        \* bound: the host's descriptors
    Files,      \* names of files
    Stdin, Stdout,  \* what is behind the standard streams
    Bytes,      \* values of bytes
    BUFSIZ,     \* size of a stream's buffer
    Named,      \* bound: the handles the program passes
    MaxOpen,    \* bound: how many files the program opens at a time
    MaxLen,     \* bound: length of a file
    Offsets     \* bound: offsets passed to Fseek

ASSUME TableAssumption ==
    /\ HANDLES \in Nat /\ Reserved \in Nat /\ 2 <= Reserved /\ Reserved <= HANDLES
    /\ Fds \subseteq Nat /\ {0, 1, 2} \subseteq Fds
    /\ {Stdin, Stdout} \cap Files = {} /\ Stdin # Stdout
    /\ BUFSIZ \in Nat \ {0}
    /\ Offsets \subseteq Int /\ MaxLen \in Nat /\ MaxOpen \in Nat
    /\ Zero \in Bytes /\ Named \subseteq Nat

VARIABLES
    handles,    \* the table: a stream or NULL, and the flag HANDLE_ALLOCATED
    host,       \* the open streams, by descriptor
    content,    \* the host's files
    result,     \* what the last call returned: D0, and the data of an Fread
    running     \* the emulator runs

vars == <<handles, host, content, result, running>>

NULL == -1

(* GEMDOS return values                                                    *)
EINVAL == -25
EFILNF == -33
ENHNDL == -35
EACCDN == -36
EIHNDLwithoutSign == 37                                         \* mutant
EIHNDL == -37
EINTRN == -65

Handle == 0 .. HANDLES - 1
Entry  == [f : Fds \cup {NULL}, allocated : BOOLEAN]
Mode   == {"r", "w", "r+"}
Stream == [file : Files \cup {Stdin, Stdout}, mode : Mode, off : Nat,
           ahead : Seq(Bytes), pending : Seq(Bytes), err : BOOLEAN]

Returns(d0) == result' = [d0 |-> d0, data |-> <<>>]

-----------------------------------------------------------------------------
(* The host (external)                                                     *)

First(x, S) == x \in S /\ \A y \in S : x <= y

FreeFds == Fds \ DOMAIN host

NewStream(file, mode) == [file |-> file, mode |-> mode, off |-> 0,
                          ahead |-> <<>>, pending |-> <<>>, err |-> FALSE]

Written(s) == Set(content, s.file, Overlay(content[s.file], s.off, s.pending))

(* s after a flush, and after whole buffers have been read until there are *)
(* n bytes or the file ends.                                               *)
fill(s, n) ==
    LET lacking == n - Len(s.ahead)
        off == s.off + Len(s.pending)
        got == IF lacking <= 0 THEN <<>>
               ELSE Slice(Written(s)[s.file], off,
                          BUFSIZ * ((lacking + BUFSIZ - 1) \div BUFSIZ))
    IN  [s EXCEPT !.ahead = @ \o got, !.off = off + Len(got), !.pending = <<>>]

appendWholeBuffer(s, data) ==                                   \* mutant
    [s EXCEPT !.off = @ - BUFSIZ, !.ahead = <<>>, !.pending = @ \o data]

(* A write gives back what was read ahead, and goes to the buffer.         *)
append(s, data) ==
    [s EXCEPT !.off = @ - Len(s.ahead), !.ahead = <<>>, !.pending = @ \o data]

(* A buffer that overflows is written as far as it fills whole buffers.    *)
overflow(s) == IF Len(s.pending) <= BUFSIZ THEN 0
               ELSE Len(s.pending) - (Len(s.pending) % BUFSIZ)

-----------------------------------------------------------------------------
(* The table                                                               *)

FreeHandlesButLast ==                                           \* mutant
    {h \in 0 .. HANDLES - 2 : ~ handles[h].allocated}

FreeHandles == {h \in Handle : ~ handles[h].allocated}

get_handle(h, fd) ==
    /\ First(h, FreeHandles)
    /\ handles' = [handles EXCEPT ![h] = [f |-> fd, allocated |-> TRUE]]

invalid_handle(h) == h \in Handle => ~ handles[h].allocated

releaseForgetsFlag(h) == handles                                \* mutant

(* Fclose leaves the pointer to the stream behind.                         *)
release(h) == [handles EXCEPT ![h].allocated = FALSE]

(* The handles that stand for a stream, and the streams no handle names.   *)
OpenHandles == {h \in Handle : running /\ handles[h].allocated /\ handles[h].f # NULL}

Leaked == {fd \in DOMAIN host \ {2} : \A h \in OpenHandles : handles[h].f # fd}

(* gemdos_file_init                                                        *)
Init == /\ handles = [h \in Handle |-> [f |-> IF h \in {0, 1} THEN h ELSE NULL,
                                        allocated |-> h < Reserved]]
        /\ host = [fd \in {0, 1, 2} |-> IF fd = 0 THEN NewStream(Stdin, "r")
                                                  ELSE NewStream(Stdout, "w")]
        /\ content = [file \in {Stdin, Stdout} |-> <<>>]
        /\ result = [d0 |-> 0, data |-> <<>>]
        /\ running = TRUE

-----------------------------------------------------------------------------
(* Opening.  The program opens no file it has open, and at most MaxOpen.   *)

MayOpen(file) ==
    /\ running
    /\ \A h \in OpenHandles : host[handles[h].f].file # file
    /\ Cardinality(OpenHandles \ {0, 1}) < MaxOpen

HostOpens(file, mode) == FreeFds # {} /\ (mode = "w" \/ file \in DOMAIN content)

HostRefuses(file, mode, error) ==
    /\ ~ HostOpens(file, mode)
    /\ Returns(error)
    /\ UNCHANGED <<handles, host, content, running>>

(* The stream is open, the file emptied, before a handle is looked for.    *)
Open(file, mode, tableFull) ==
    \E fd \in FreeFds :
        /\ HostOpens(file, mode) /\ First(fd, FreeFds)
        /\ host' = Set(host, fd, NewStream(file, mode))
        /\ content' = IF mode = "w" THEN Set(content, file, <<>>) ELSE content
        /\ IF FreeHandles = {}
           THEN Returns(tableFull) /\ UNCHANGED handles
           ELSE \E h \in FreeHandles : get_handle(h, fd) /\ Returns(h)
        /\ UNCHANGED running

Fcreate(file) ==
    /\ MayOpen(file)
    /\ Open(file, "w", -1) \/ HostRefuses(file, "w", EACCDN)

Fopen(file, mode) ==
    /\ MayOpen(file)
    /\ Open(file, mode, ENHNDL) \/ HostRefuses(file, mode, EFILNF)

-----------------------------------------------------------------------------
(* Using a handle                                                          *)

BadHandle(h) ==
    /\ running /\ h \in Named
    /\ invalid_handle(h)
    /\ Returns(EIHNDL)
    /\ UNCHANGED <<handles, host, content, running>>

GoodHandle(h) == running /\ h \in Named /\ ~ invalid_handle(h)

(* Handles 2 to 5 are allocated but have no stream: stdio follows a null   *)
(* pointer and the emulator is killed, with what its buffers hold.         *)
NullStream(h) ==
    /\ GoodHandle(h)
    /\ handles[h].f = NULL
    /\ running' = FALSE
    /\ host' = <<>>
    /\ UNCHANGED <<handles, content, result>>

WithStream(h) == GoodHandle(h) /\ handles[h].f # NULL

(* stdio marks a stream used in the direction it is not open for.          *)
WrongDirection(h) ==
    /\ host' = [host EXCEPT ![handles[h].f].err = TRUE]
    /\ Returns(EINTRN)
    /\ UNCHANGED <<handles, content, running>>

fcloseDropsBuffer(h) ==                                         \* mutant
    /\ WithStream(h)
    /\ handles' = release(h)
    /\ host' = Drop(host, handles[h].f)
    /\ Returns(0)
    /\ UNCHANGED <<content, running>>

fclose(h) ==
    /\ WithStream(h)
    /\ handles' = release(h)
    /\ content' = Written(host[handles[h].f])
    /\ host' = Drop(host, handles[h].f)
    /\ Returns(0)
    /\ UNCHANGED running

Fclose(h) == BadHandle(h) \/ NullStream(h) \/ fclose(h)

fread(h, n) ==
    /\ WithStream(h)
    /\ LET s == host[handles[h].f]
           t == fill(s, n)
           data == Slice(t.ahead, 0, n)
       IN  IF ~ Readable(s.mode) THEN WrongDirection(h)
           ELSE /\ content' = Written(s)
                /\ host' = [host EXCEPT ![handles[h].f] =
                       [t EXCEPT !.ahead = SubSeq(@, Len(data) + 1, Len(@))]]
                /\ result' = IF s.err THEN [d0 |-> EINTRN, data |-> <<>>]
                             ELSE [d0 |-> Len(data), data |-> data]
                /\ UNCHANGED <<handles, running>>

Fread(h, n) == BadHandle(h) \/ NullStream(h) \/ fread(h, n)

fwrite(h, data) ==
    /\ WithStream(h)
    /\ LET s == host[handles[h].f]
           t == append(s, data)
           out == overflow(t)
       IN  IF ~ Writable(s.mode) THEN WrongDirection(h)
           ELSE /\ Len(s.ahead) <= s.off \* bound: not seeked to before what was read
                /\ t.off + Len(t.pending) <= MaxLen
                /\ content' = Written([t EXCEPT !.pending = SubSeq(@, 1, out)])
                /\ host' = [host EXCEPT ![handles[h].f] =
                       [t EXCEPT !.off = @ + out, !.pending = SubSeq(@, out + 1, Len(@))]]
                /\ Returns(IF s.err THEN EINTRN ELSE Len(data))
                /\ UNCHANGED <<handles, running>>

Fwrite(h, data) == BadHandle(h) \/ NullStream(h) \/ fwrite(h, data)

(* Fseek hands the handle to lseek as it is: the stream it moves is the    *)
(* one with that descriptor, and buffers do not move with it.              *)
Fseek(h, offset, seekmode) ==
    /\ running /\ h \in Named
    /\ LET s == host[h]
           to == offset + CASE seekmode = 0 -> 0
                            [] seekmode = 1 -> s.off
                            [] seekmode = 2 -> Len(content[s.file])
       IN  CASE seekmode = 3               -> Returns(EINVAL) /\ UNCHANGED host
             [] h \notin DOMAIN host       -> Returns(EIHNDL) /\ UNCHANGED host
             [] s.file \in {Stdin, Stdout} -> Returns(EACCDN) /\ UNCHANGED host
             [] to < 0                     -> Returns(EINVAL) /\ UNCHANGED host
             [] OTHER -> /\ host' = [host EXCEPT ![h].off = to]
                         /\ Returns(to)
    /\ UNCHANGED <<handles, content, running>>

(* The program deletes no file that is open.                               *)
Fdelete(file) ==
    /\ running
    /\ \A fd \in DOMAIN host : host[fd].file # file
    /\ IF file \in DOMAIN content
       THEN content' = Drop(content, file) /\ Returns(0)
       ELSE Returns(EFILNF) /\ UNCHANGED content
    /\ UNCHANGED <<handles, host, running>>

(* What the file will hold when its stream has been written out.           *)
Final(file) ==
    LET behind == {fd \in DOMAIN host : host[fd].file = file /\ host[fd].pending # <<>>}
    IN  IF behind = {} THEN content[file]
        ELSE LET s == host[CHOOSE fd \in behind : TRUE] IN Overlay(content[file], s.off, s.pending)

(* Pterm and Pterm0, or the end of the main loop: exit writes all streams. *)
Pterm == /\ running
         /\ running' = FALSE
         /\ content' = [file \in DOMAIN content |-> Final(file)]
         /\ host' = <<>>
         /\ UNCHANGED <<handles, result>>

Data == UNION {[1 .. n -> Bytes] : n \in 1 .. MaxLen}

Next == \/ \E file \in Files : Fcreate(file) \/ Fdelete(file)
        \/ \E file \in Files, mode \in Mode : Fopen(file, mode)
        \/ \E h \in Named : Fclose(h)
        \/ \E h \in Named, n \in 1 .. MaxLen + 1 : Fread(h, n)
        \/ \E h \in Named, data \in Data : Fwrite(h, data)
        \/ \E h \in Named, offset \in Offsets, seekmode \in 0 .. 3 :
              Fseek(h, offset, seekmode)
        \/ Pterm

Spec == Init /\ [][Next]_vars
-----------------------------------------------------------------------------
(* Invariants                                                              *)

(* Values keep their types, and no descriptor is outside the host's table. *)
TypeOK == /\ handles \in [Handle -> Entry]
          /\ DOMAIN host \subseteq Fds /\ \A fd \in DOMAIN host : host[fd] \in Stream
          /\ DOMAIN content \subseteq Files \cup {Stdin, Stdout}
          /\ \A file \in DOMAIN content : content[file] \in Seq(Bytes)
          /\ result.d0 \in Int /\ result.data \in Seq(Bytes)
          /\ running \in BOOLEAN

(* Every handle in use has a stream of its own that is open: no sequence   *)
(* of opens and closes makes two handles share a stream, or leaves a       *)
(* handle with a stream that was closed.                                   *)
HandlesOwnStreams ==
    /\ \A h \in OpenHandles : handles[h].f \in DOMAIN host
    /\ \A g, h \in OpenHandles : handles[g].f = handles[h].f => g = h

-----------------------------------------------------------------------------
(* Action properties                                                       *)

(* A stream is lost to the program only when it is opened while every      *)
(* entry of the table is in use: get_handle finds none and the stream is   *)
(* not closed.                                                             *)
LeaksOnlyWhenFull ==
    [][Leaked' \subseteq Leaked \/ \A h \in Handle : handles[h].allocated]_vars

(* What the program knows of a stream, of its handles, and of the files.   *)
Seen(s) == [file |-> s.file, mode |-> s.mode, err |-> s.err,
            pos |-> s.off - Len(s.ahead) + Len(s.pending)]

Opened == [h \in OpenHandles |-> Seen(host[handles[h].f])]

Held == [file \in DOMAIN content |-> Final(file)]

(* The table, the buffers and the descriptors do what OpenFiles promises   *)
(* a program that keeps to handles with streams and few files open.        *)
Promise == INSTANCE OpenFiles WITH
    Handles <- Handle, Lengths <- 1 .. MaxLen + 1, Internal <- EINTRN,
    Standard <- [h \in {0, 1} |-> [file |-> IF h = 0 THEN Stdin ELSE Stdout,
                     mode |-> IF h = 0 THEN "r" ELSE "w", pos |-> 0, err |-> FALSE]],
    open <- Opened, content <- Held

ImplementsOpenFiles == Promise!Spec

-----------------------------------------------------------------------------
(* What comments say and the code does not do.                             *)

(* "From start of file": the file is the one the handle stands for.        *)
SeekMovesItsFile ==
    [][\A h \in OpenHandles, offset \in Offsets :
          Fseek(h, offset, 0) /\ result'.d0 = offset
             => host'[handles[h].f].off = offset]_vars
=============================================================================
