------------------------------ MODULE OpenFiles ------------------------------
(***************************************************************************)
(* What GEMDOS promises of open files: a handle stands for a file, a mode  *)
(* and a position; what is written is in the file, what is read is what    *)
(* the file holds at the position.  No buffers, no host descriptors.  A    *)
(* file is open under one handle at most.                                  *)
(***************************************************************************)
EXTENDS ByteFiles

CONSTANTS
    Handles,    \* the numbers of handles
    Standard,   \* the handles open at the start, as open holds them
    Files, Lengths, Data,   \* what the program asks for
    Internal    \* the error GEMDOS_EINTRN

VARIABLES
    content,    \* the files that exist, and the bytes they hold
    open,       \* the handles in use: [file, mode, pos, err]
    result      \* what the last call returned: [d0, data]

vars == <<content, open, result>>

Init == open = Standard /\ result = [d0 |-> 0, data |-> <<>>]

(* A call that fails has no effect on the files that are open; an open     *)
(* that fails may have emptied or created the file.                        *)
Refuse == /\ result'.d0 < 0
          /\ UNCHANGED <<content, open>>

Truncate(file) == /\ result'.d0 < 0
                  /\ \A g \in DOMAIN open : open[g].file # file
                  /\ content' = Set(content, file, <<>>)
                  /\ UNCHANGED open

Open(h, file, mode) ==
    /\ h \notin DOMAIN open
    /\ \A g \in DOMAIN open : open[g].file # file
    /\ open' = Set(open, h, [file |-> file, mode |-> mode, pos |-> 0, err |-> FALSE])
    /\ content' = IF mode = "w" THEN Set(content, file, <<>>) ELSE content
    /\ result' = [d0 |-> h, data |-> <<>>]

Close(h) == /\ h \in DOMAIN open
            /\ open' = Drop(open, h)
            /\ result' = [d0 |-> 0, data |-> <<>>]
            /\ UNCHANGED content

Read(h, n) ==
    /\ h \in DOMAIN open /\ Readable(open[h].mode)
    /\ LET data == Slice(content[open[h].file], open[h].pos, n)
       IN  /\ open' = [open EXCEPT ![h].pos = @ + Len(data)]
           /\ result' = IF open[h].err THEN [d0 |-> Internal, data |-> <<>>]
                        ELSE [d0 |-> Len(data), data |-> data]
    /\ UNCHANGED content

Write(h, data) ==
    /\ h \in DOMAIN open /\ Writable(open[h].mode)
    /\ content' = [content EXCEPT ![open[h].file] = Overlay(@, open[h].pos, data)]
    /\ open' = [open EXCEPT ![h].pos = @ + Len(data)]
    /\ result' = [d0 |-> IF open[h].err THEN Internal ELSE Len(data), data |-> <<>>]

(* Reading a handle open for writing, or the reverse, spoils the handle:   *)
(* its calls have their effect from then on, but report an error.          *)
Misuse(h) == /\ h \in DOMAIN open
             /\ open' = [open EXCEPT ![h].err = TRUE]
             /\ result' = [d0 |-> Internal, data |-> <<>>]
             /\ UNCHANGED content

Delete(file) == /\ file \in DOMAIN content
                /\ \A g \in DOMAIN open : open[g].file # file
                /\ content' = Drop(content, file)
                /\ result' = [d0 |-> 0, data |-> <<>>]
                /\ UNCHANGED open

(* The program ends: its files hold all that was written.                  *)
End == open' = <<>> /\ UNCHANGED <<content, result>>

(* A handle that stands for nothing is used: the program is killed, and    *)
(* what it wrote to the files it had open may be lost.                     *)
Kill == /\ open' = <<>>
        /\ DOMAIN content' = DOMAIN content
        /\ \A file \in DOMAIN content :
              content'[file] = content[file] \/ \E g \in DOMAIN open : open[g].file = file
        /\ UNCHANGED result

Next ==
    \/ Refuse
    \/ \E file \in Files : Truncate(file) \/ Delete(file)
    \/ \E h \in Handles, file \in Files, mode \in {"r", "w", "r+"} : Open(h, file, mode)
    \/ \E h \in Handles : Close(h) \/ Misuse(h)
    \/ \E h \in Handles, n \in Lengths : Read(h, n)
    \/ \E h \in Handles, data \in Data : Write(h, data)
    \/ End \/ Kill

Spec == Init /\ [][Next]_vars
=============================================================================
