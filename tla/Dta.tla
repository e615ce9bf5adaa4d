--------------------------------- MODULE Dta ---------------------------------
(***************************************************************************)
(* The directory searches of GEMDOS (gemdosfile.c): Fsetdta, Fsfirst and   *)
(* Fsnext.  Fsfirst keeps what glob found in a list of the emulator, under *)
(* an id, and writes id and index into the reserved bytes of the DTA, in   *)
(* the program's memory; Fsnext finds its search by what is there.         *)
(***************************************************************************)
EXTENDS Integers, Sequences

CONSTANTS
    Addresses,  \* where the program keeps DTAs
    Default,    \* 0x830, the DTA at the start
    Unmapped,   \* an address without host memory behind it
    Names,      \* names of files
    glob,       \* what the host's glob lists of a set of names that match
    Patterns,   \* what the program searches for: sets of names
    NoName,     \* no name
    MaxSearches,\* bound: how often the program calls Fsfirst
    MaxIndex    \* bound: how far an index is counted

ASSUME DtaAssumption ==
    /\ Default \in Addresses /\ Unmapped \notin Addresses
    /\ Patterns \subseteq SUBSET Names
    /\ glob \in [SUBSET Names -> Seq(Names)]
    /\ NoName \notin Names
    /\ MaxSearches \in Nat /\ MaxIndex \in Nat

VARIABLES
    dta_addr,   \* the current DTA
    memory,     \* the DTAs as the program's memory holds them: [id, index]
    globs,      \* the list from globhead: for each id the names found
    sid,        \* the id given out last
    files,      \* the files that exist on the host
    d0,         \* what the last call returned
    name,       \* the d_fname the last call wrote, or NoName
    running     \* the emulator runs

vars == <<dta_addr, memory, globs, sid, files, d0, name, running>>

EFILNF == -33
ENMFIL == -49

Cell == [id : Nat, index : Nat]

FirstId == 42

(* Bytes that are no DTA's.                                                *)
Empty == [id |-> 0, index |-> 0]

(* gemdos_find_dta finds an item.                                          *)
find_dta(id) == id \in DOMAIN globs

Found(pattern) == glob[pattern \cap files]

Init == /\ dta_addr = Default
        /\ memory = [a \in Addresses |-> Empty]
        /\ globs = <<>>
        /\ sid = FirstId
        /\ files \in SUBSET Names
        /\ d0 = 0 /\ name = NoName
        /\ running = TRUE

Fsetdta(addr) == /\ running
                 /\ dta_addr' = addr
                 /\ d0' = 0
                 /\ UNCHANGED <<memory, globs, sid, files, name, running>>

(* tos_mem_to_host_mem gives a null pointer, which is followed.            *)
NullPointer == /\ running' = FALSE
               /\ UNCHANGED <<dta_addr, memory, globs, sid, files, d0, name>>

WithItem(id, names) ==
    [i \in DOMAIN globs \cup {id} |-> IF i = id THEN names ELSE globs[i]]

prepareNextId(id, names) == WithItem(id + 1, names)             \* mutant

prepareOldId(id, names) == WithItem(id - 1, names)              \* mutant

(* gemdos_prepare_dta, and what glob then puts in the item.                *)
prepare_dta(id, names) == WithItem(id, names)

(* The search is kept also when nothing matches, or the path lies outside  *)
(* the directory the program is confined to; the DTA is then not written.  *)
Fsfirst(pattern) ==
    /\ running
    /\ sid - FirstId < MaxSearches
    /\ sid' = sid + 1
    /\ globs' = prepare_dta(sid', Found(pattern))
    /\ IF Found(pattern) = <<>>
       THEN d0' = EFILNF /\ name' = NoName /\ UNCHANGED <<memory, running>>
       ELSE IF dta_addr = Unmapped
       THEN running' = FALSE /\ UNCHANGED <<memory, d0, name>>
       ELSE /\ memory' = [memory EXCEPT ![dta_addr] = [id |-> sid', index |-> 0]]
            /\ d0' = 0 /\ name' = Head(Found(pattern))
            /\ UNCHANGED running
    /\ UNCHANGED <<dta_addr, files>>

(* The DTA in memory holds no search: a null pointer is followed.          *)
FsnextNull ==
    /\ running
    /\ dta_addr # Unmapped => ~ find_dta(memory[dta_addr].id)
    /\ running' = FALSE
    /\ UNCHANGED <<dta_addr, memory, globs, sid, files, d0, name>>

(* Whether or not there is a next name, the index is counted on.           *)
Fsnext ==
    /\ running
    /\ dta_addr # Unmapped
    /\ find_dta(memory[dta_addr].id)
    /\ LET gres == globs[memory[dta_addr].id]
           i    == memory[dta_addr].index + 1
       IN  /\ i <= MaxIndex
           /\ memory' = [memory EXCEPT ![dta_addr].index = i]
           /\ IF i < Len(gres)
              THEN d0' = 0 /\ name' = gres[i + 1]
              ELSE d0' = ENMFIL /\ name' = NoName
    /\ UNCHANGED <<dta_addr, globs, sid, files, running>>

(* The program copies the bytes of a DTA, or uses them for something else. *)
Copy(from, to) ==
    /\ running
    /\ memory' = [memory EXCEPT ![to] = memory[from]]
    /\ UNCHANGED <<dta_addr, globs, sid, files, d0, name, running>>

Overwrite(addr) ==
    /\ running
    /\ memory' = [memory EXCEPT ![addr] = Empty]
    /\ UNCHANGED <<dta_addr, globs, sid, files, d0, name, running>>

(* Files come and go while a search runs.                                  *)
HostChanges(file) ==
    /\ running
    /\ files' \in {files \cup {file}, files \ {file}}
    /\ UNCHANGED <<dta_addr, memory, globs, sid, d0, name, running>>

Next == \/ \E addr \in Addresses \cup {Unmapped} : Fsetdta(addr)
        \/ \E pattern \in Patterns : Fsfirst(pattern)
        \/ Fsnext \/ FsnextNull
        \/ \E from, to \in Addresses : Copy(from, to)
        \/ \E addr \in Addresses : Overwrite(addr)
        \/ \E file \in Names : HostChanges(file)

Spec == Init /\ [][Next]_vars
-----------------------------------------------------------------------------
(* Values keep their types; ids are given out once.                        *)
TypeOK == /\ dta_addr \in Addresses \cup {Unmapped}
          /\ memory \in [Addresses -> Cell]
          /\ sid \in Nat /\ FirstId <= sid
          /\ DOMAIN globs \subseteq FirstId .. sid
          /\ \A id \in DOMAIN globs : globs[id] \in Seq(Names)
          /\ files \subseteq Names
          /\ d0 \in {0, EFILNF, ENMFIL} /\ name \in Names \cup {NoName}
          /\ running \in BOOLEAN

(* The names a DTA still has to deliver.                                   *)
NoSearch == <<NoName>>

Left(addr) ==
    LET names == globs[memory[addr].id]
    IN  IF find_dta(memory[addr].id)
        THEN SubSeq(names, memory[addr].index + 2, Len(names))
        ELSE NoSearch

(* However searches are interleaved, copied and abandoned, and whatever    *)
(* happens to the files meanwhile, each DTA delivers what its Fsfirst      *)
(* found, each name once and in order.                                     *)
Promise == INSTANCE Searches WITH
    Nowhere <- Unmapped, Lists <- {glob[S] : S \in SUBSET Names}, First <- Default,
    dta <- dta_addr, left <- [addr \in Addresses |-> Left(addr)]

ImplementsSearches == Promise!Spec
=============================================================================
