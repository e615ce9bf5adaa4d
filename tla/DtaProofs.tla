------------------------------ MODULE DtaProofs ------------------------------
(***************************************************************************)
(* Dta implements Searches, for every number of DTAs and files and every   *)
(* order in which the host lists them.                                     *)
(***************************************************************************)
EXTENDS Dta, SequenceTheorems, TLAPS

LEMMA FoundType ==
  ASSUME TypeOK, NEW pattern \in Patterns
  PROVE  /\ Found(pattern) \in Seq(Names)
         /\ Found(pattern) \in {glob[S] : S \in SUBSET Names}
         /\ Found(pattern) # <<>> => Head(Found(pattern)) \in Names
<1>1. pattern \cap files \in SUBSET Names
  BY DEF TypeOK
<1>2. Found(pattern) \in Seq(Names) /\ Found(pattern) \in {glob[S] : S \in SUBSET Names}
  BY <1>1, DtaAssumption DEF Found
<1> QED
  BY <1>2, HeadTailProperties

(* No DTA holds an id that has not been given out: a new search is not     *)
(* mistaken for one a DTA holds already.                                   *)
IdsGivenOut == \A addr \in Addresses : memory[addr].id <= sid

Inv == TypeOK /\ IdsGivenOut

LEMMA InitInv == Init => Inv
  BY DtaAssumption DEF Init, Inv, TypeOK, IdsGivenOut, Cell, Empty, FirstId

LEMMA FsfirstInv ==
  ASSUME Inv, NEW pattern \in Patterns, Fsfirst(pattern)
  PROVE  Inv'
<1>1. sid' = sid + 1 /\ sid \in Nat
  BY DEF Fsfirst, Inv, TypeOK
<1>2. /\ DOMAIN globs' = DOMAIN globs \cup {sid'}
      /\ \A id \in DOMAIN globs' : globs'[id] = IF id = sid' THEN Found(pattern) ELSE globs[id]
  BY DEF Fsfirst, prepare_dta, WithItem
<1>3. /\ FirstId <= sid' /\ DOMAIN globs' \subseteq FirstId .. sid'
      /\ \A id \in DOMAIN globs' : globs'[id] \in Seq(Names)
  <2>1. FirstId \in Int /\ sid' >= FirstId
    BY <1>1 DEF Inv, TypeOK, FirstId
  <2> QED
    BY <1>1, <1>2, <2>1, FoundType DEF Inv, TypeOK
<1>4. /\ \/ memory' = memory
         \/ dta_addr # Unmapped /\ memory' = [memory EXCEPT ![dta_addr] = [id |-> sid', index |-> 0]]
      /\ d0' \in {0, EFILNF, ENMFIL} /\ name' \in Names \cup {NoName}
      /\ running' \in BOOLEAN
      /\ UNCHANGED <<dta_addr, files>>
  BY FoundType DEF Fsfirst, Inv, TypeOK
<1>5. memory' \in [Addresses -> Cell]
  <2>1. [id |-> sid', index |-> 0] \in Cell
    BY <1>1 DEF Cell
  <2> QED
    BY <1>4, <2>1 DEF Inv, TypeOK
<1>6. TypeOK'
  BY <1>1, <1>3, <1>4, <1>5 DEF Inv, TypeOK
<1>7. IdsGivenOut'
  <2>1. \A addr \in Addresses : memory[addr].id \in Nat /\ memory[addr].id <= sid
    BY DEF Inv, TypeOK, IdsGivenOut, Cell
  <2>2. \A addr \in Addresses : memory'[addr].id \in {memory[addr].id, sid'}
    BY <1>4 DEF Inv, TypeOK
  <2> QED
    BY <1>1, <2>1, <2>2 DEF IdsGivenOut
<1> QED
  BY <1>6, <1>7 DEF Inv

LEMMA FsnextInv ==
  ASSUME Inv, Fsnext
  PROVE  Inv'
<1> DEFINE gres == globs[memory[dta_addr].id]
           i == memory[dta_addr].index + 1
<1>1. dta_addr \in Addresses /\ memory[dta_addr] \in Cell
  BY DEF Fsnext, Inv, TypeOK
<1>2. i \in Nat \ {0} /\ memory[dta_addr].id \in Nat
  BY <1>1 DEF Cell
<1>3. gres \in Seq(Names)
  BY DEF Fsnext, find_dta, Inv, TypeOK
<1>4. memory' = [memory EXCEPT ![dta_addr].index = i]
  BY DEF Fsnext
<1>5. memory' \in [Addresses -> Cell] /\ \A addr \in Addresses : memory'[addr].id = memory[addr].id
  <2>1. [memory[dta_addr] EXCEPT !.index = i] \in Cell
    BY <1>1, <1>2 DEF Cell
  <2>2. [memory[dta_addr] EXCEPT !.index = i].id = memory[dta_addr].id
    BY <1>1 DEF Cell
  <2>3. memory' = [memory EXCEPT ![dta_addr] = [memory[dta_addr] EXCEPT !.index = i]]
    BY <1>4
  <2> HIDE DEF i
  <2> QED
    BY <1>1, <2>1, <2>2, <2>3 DEF Inv, TypeOK
<1>6. d0' \in {0, EFILNF, ENMFIL} /\ name' \in Names \cup {NoName}
  <2>1. i < Len(gres) => gres[i + 1] \in Names
    BY <1>2, <1>3, ElementOfSeq
  <2>2. IF i < Len(gres) THEN d0' = 0 /\ name' = gres[i + 1]
        ELSE d0' = ENMFIL /\ name' = NoName
    BY DEF Fsnext
  <2> QED
    BY <2>1, <2>2
<1>7. UNCHANGED <<dta_addr, globs, sid, files, running>>
  BY DEF Fsnext
<1> QED
  BY <1>5, <1>6, <1>7 DEF Inv, TypeOK, IdsGivenOut

LEMMA NextInv == Inv /\ [Next]_vars => Inv'
<1> SUFFICES ASSUME Inv, [Next]_vars PROVE Inv'
  OBVIOUS
<1> USE DEF Inv, TypeOK, IdsGivenOut
<1>1. ASSUME NEW addr \in Addresses \cup {Unmapped}, Fsetdta(addr) PROVE Inv'
  BY <1>1 DEF Fsetdta
<1>2. ASSUME NEW pattern \in Patterns, Fsfirst(pattern) PROVE Inv'
  BY <1>2, FsfirstInv
<1>3. CASE Fsnext
  BY <1>3, FsnextInv
<1>4. CASE FsnextNull
  BY <1>4 DEF FsnextNull
<1>5. ASSUME NEW from \in Addresses, NEW to \in Addresses, Copy(from, to) PROVE Inv'
  BY <1>5 DEF Copy
<1>6. ASSUME NEW addr \in Addresses, Overwrite(addr) PROVE Inv'
  <2>1. Empty \in Cell /\ Empty.id <= sid
    BY DEF Empty, Cell
  <2> QED
    BY <1>6, <2>1 DEF Overwrite
<1>7. ASSUME NEW file \in Names, HostChanges(file) PROVE Inv'
  BY <1>7 DEF HostChanges
<1>8. CASE UNCHANGED vars
  BY <1>8 DEF vars
<1> QED
  BY <1>1, <1>2, <1>3, <1>4, <1>5, <1>6, <1>7, <1>8 DEF Next

THEOREM Invariance == Spec => []Inv
  BY InitInv, NextInv, PTL DEF Spec

(* Values keep their types, and ids lie between the first and the last     *)
(* one given out.                                                          *)
THEOREM TypeCorrect == Spec => []TypeOK
  BY Invariance, PTL DEF Inv

-----------------------------------------------------------------------------
(* Refinement                                                              *)

AllLeft == [addr \in Addresses |-> Left(addr)]

(* What is left of a search, from its index on.                            *)
LEMMA LeftIs ==
  ASSUME Inv, NEW addr \in Addresses
  PROVE  /\ ~ find_dta(memory[addr].id) => Left(addr) = NoSearch
         /\ find_dta(memory[addr].id) =>
               LET names == globs[memory[addr].id]
               IN  /\ names \in Seq(Names)
                   /\ Left(addr) = SubSeq(names, memory[addr].index + 2, Len(names))
                   /\ Left(addr) # NoSearch
<1>1. CASE ~ find_dta(memory[addr].id)
  BY <1>1 DEF Left
<1>2. CASE find_dta(memory[addr].id)
  <2> DEFINE names == globs[memory[addr].id]
             from == memory[addr].index + 2
  <2>1. names \in Seq(Names)
    BY <1>2 DEF find_dta, Inv, TypeOK
  <2>2. from \in Nat /\ from >= 2
    BY DEF Inv, TypeOK, Cell
  <2>3. Left(addr) = SubSeq(names, from, Len(names))
    BY <1>2 DEF Left
  <2> HIDE DEF names, from
  <2>4. \A k \in from .. Len(names) : names[k] \in Names
    BY <2>1, <2>2, ElementOfSeq
  <2>5. Left(addr) \in Seq(Names)
    <3>1. SubSeq(names, from, Len(names)) \in Seq(Names)
      BY <2>1, <2>2, <2>4, SubSeqProperties
    <3> QED
      BY <2>3, <3>1
  <2>6. Left(addr) # NoSearch
    <3>1. NoSearch[1] = NoName /\ Len(NoSearch) = 1
      BY DEF NoSearch
    <3>2. ASSUME Left(addr) = NoSearch PROVE FALSE
      <4>1. Left(addr)[1] \in Names
        BY <2>5, <3>1, <3>2, ElementOfSeq
      <4> QED
        BY <3>1, <3>2, <4>1, DtaAssumption
    <3> QED
      BY <3>2
  <2> QED
    BY <1>2, <2>1, <2>3, <2>6 DEF names, from
<1> QED
  BY <1>1, <1>2

(* A DTA nobody writes keeps what is left, when its item stays.            *)
LEMMA SameLeft ==
  ASSUME NEW addr \in Addresses, memory'[addr] = memory[addr],
         find_dta(memory[addr].id)' = find_dta(memory[addr].id),
         find_dta(memory[addr].id) => globs'[memory[addr].id] = globs[memory[addr].id]
  PROVE  Left(addr)' = Left(addr)
  BY DEF Left, find_dta

LEMMA FsfirstRefines ==
  ASSUME Inv, Inv', NEW pattern \in Patterns, Fsfirst(pattern)
  PROVE  Promise!Next \/ UNCHANGED Promise!vars
<1> DEFINE list == Found(pattern)
<1>1. sid' = sid + 1 /\ sid \in Nat
  BY DEF Fsfirst, Inv, TypeOK
<1>2. /\ DOMAIN globs' = DOMAIN globs \cup {sid'}
      /\ globs'[sid'] = list
      /\ \A id \in DOMAIN globs : id # sid' => globs'[id] = globs[id]
  BY DEF Fsfirst, prepare_dta, WithItem
<1>3. \A addr \in Addresses : memory[addr].id \in Nat /\ memory[addr].id # sid'
  BY <1>1 DEF Inv, TypeOK, IdsGivenOut, Cell
<1>4. \A addr \in Addresses : memory'[addr] = memory[addr] => Left(addr)' = Left(addr)
  <2> SUFFICES ASSUME NEW addr \in Addresses, memory'[addr] = memory[addr]
               PROVE  Left(addr)' = Left(addr)
    OBVIOUS
  <2>1. find_dta(memory[addr].id)' = find_dta(memory[addr].id)
    BY <1>2, <1>3 DEF find_dta
  <2>2. find_dta(memory[addr].id) => globs'[memory[addr].id] = globs[memory[addr].id]
    BY <1>2, <1>3 DEF find_dta
  <2> QED
    BY <2>1, <2>2, SameLeft
<1>5. CASE list = <<>>
  <2>1. name' = NoName /\ memory' = memory /\ dta_addr' = dta_addr
    BY <1>5 DEF Fsfirst
  <2>2. AllLeft' = AllLeft
    BY <1>4, <2>1 DEF AllLeft
  <2>3. Promise!NothingFound
    BY <2>1, <2>2 DEF Promise!NothingFound, AllLeft
  <2> QED
    BY <2>3 DEF Promise!Next
<1>6. CASE list # <<>> /\ dta_addr = Unmapped
  <2>1. UNCHANGED <<name, memory, dta_addr>>
    BY <1>6 DEF Fsfirst
  <2>2. AllLeft' = AllLeft
    BY <1>4, <2>1 DEF AllLeft
  <2> QED
    BY <2>1, <2>2 DEF Promise!vars, AllLeft
<1>7. CASE list # <<>> /\ dta_addr # Unmapped
  <2>1. /\ memory' = [memory EXCEPT ![dta_addr] = [id |-> sid', index |-> 0]]
        /\ name' = Head(list) /\ dta_addr' = dta_addr
    BY <1>7 DEF Fsfirst
  <2>2. dta_addr \in Addresses
    BY <1>7 DEF Inv, TypeOK
  <2>3. memory'[dta_addr] = [id |-> sid', index |-> 0]
    BY <2>1, <2>2 DEF Inv, TypeOK
  <2>4. Left(dta_addr)' = Tail(list)
    <3>1. (Left(dta_addr))' = SubSeq(list, 2, Len(list))
      BY <1>2, <2>1, <2>3 DEF Left, find_dta
    <3>2. list \in Seq(Names)
      BY FoundType DEF Inv
    <3>3. Tail(list) = SubSeq(list, 2, Len(list))
      BY <1>7, <3>2, TailIsSubSeq
    <3> QED
      BY <3>1, <3>3
  <2>5. \A addr \in Addresses : addr # dta_addr => Left(addr)' = Left(addr)
    BY <1>4, <2>1 DEF Inv, TypeOK
  <2>6. AllLeft' = [AllLeft EXCEPT ![dta_addr] = Tail(list)]
    <3> HIDE DEF list
    <3> QED
      BY <2>1, <2>2, <2>4, <2>5 DEF AllLeft
  <2>7. list \in {glob[S] : S \in SUBSET Names}
    BY FoundType DEF Inv
  <2>8. Promise!Begin(list)
    BY <1>7, <2>1, <2>6 DEF Promise!Begin, AllLeft
  <2> QED
    BY <2>7, <2>8 DEF Promise!Next
<1> QED
  BY <1>5, <1>6, <1>7

LEMMA FsnextRefines ==
  ASSUME Inv, Inv', Fsnext
  PROVE  Promise!Next
<1> DEFINE gres == globs[memory[dta_addr].id]
           index == memory[dta_addr].index
           left == Left(dta_addr)
<1>1. dta_addr \in Addresses /\ dta_addr # Unmapped /\ find_dta(memory[dta_addr].id)
  BY DEF Fsnext, Inv, TypeOK
<1>2. index \in Nat /\ memory[dta_addr] \in Cell
  BY <1>1 DEF Inv, TypeOK, Cell
<1>3. gres \in Seq(Names) /\ left = SubSeq(gres, index + 2, Len(gres)) /\ left # NoSearch
  BY <1>1, LeftIs
<1>4. /\ memory' = [memory EXCEPT ![dta_addr].index = index + 1]
      /\ UNCHANGED <<dta_addr, globs>>
      /\ IF index + 1 < Len(gres) THEN name' = gres[index + 2] ELSE name' = NoName
  <2>1. index + 1 + 1 = index + 2
    BY <1>2
  <2> QED
    BY <2>1 DEF Fsnext
<1>5. memory'[dta_addr].id = memory[dta_addr].id /\ memory'[dta_addr].index = index + 1
  BY <1>1, <1>2, <1>4 DEF Inv, TypeOK, Cell
<1>6. Left(dta_addr)' = SubSeq(gres, index + 3, Len(gres))
  <2>1. Left(dta_addr)' = SubSeq(gres, index + 1 + 2, Len(gres))
    BY <1>1, <1>4, <1>5 DEF Left, find_dta
  <2>2. index + 1 + 2 = index + 3
    BY <1>2
  <2> QED
    BY <2>1, <2>2
<1>7. \A addr \in Addresses : addr # dta_addr => Left(addr)' = Left(addr)
  BY <1>4, SameLeft DEF Inv, TypeOK, find_dta
<1>8. AllLeft' = [AllLeft EXCEPT ![dta_addr] = Left(dta_addr)']
  BY <1>1, <1>4, <1>7 DEF AllLeft
<1>9. AllLeft[dta_addr] = left
  BY <1>1 DEF AllLeft
<1> HIDE DEF gres, index
<1>10. CASE index + 1 < Len(gres)
  <2>1. index + 2 \in 1 .. Len(gres) /\ Len(gres) \in index + 2 .. Len(gres)
    BY <1>2, <1>3, <1>10
  <2>2. Head(left) = gres[index + 2]
    BY <1>3, <2>1, HeadTailOfSubSeq
  <2>3. Tail(left) = SubSeq(gres, index + 2 + 1, Len(gres))
    BY <1>3, <2>1, HeadTailOfSubSeq
  <2>4. index + 2 + 1 = index + 3
    BY <1>2
  <2>5. left # <<>>
    <3>1. \A k \in index + 2 .. Len(gres) : gres[k] \in Names
      BY <1>2, <1>3, ElementOfSeq
    <3>2. Len(left) = Len(gres) - (index + 2) + 1
      <4>1. index + 2 \in Int /\ Len(gres) \in Int /\ index + 2 <= Len(gres)
        BY <1>2, <2>1
      <4> QED
        BY <1>3, <3>1, <4>1, SubSeqProperties
    <3>3. Len(left) > 0
      BY <1>2, <2>1, <3>2
    <3> QED
      BY <3>3
  <2>6. name' = Head(left)
    BY <1>4, <1>10, <2>2
  <2>7. AllLeft' = [AllLeft EXCEPT ![dta_addr] = Tail(@)]
    BY <1>6, <1>8, <1>9, <2>3, <2>4
  <2>8. Promise!Continue
    BY <1>1, <1>3, <1>4, <1>9, <2>5, <2>6, <2>7 DEF Promise!Continue, AllLeft, NoSearch
  <2> QED
    BY <2>8 DEF Promise!Next
<1>11. CASE ~ (index + 1 < Len(gres))
  <2>1. Len(gres) < index + 2 /\ Len(gres) < index + 3
    BY <1>2, <1>3, <1>11
  <2>2. left = <<>>
    BY <1>2, <1>3, <2>1, SubSeqEmpty
  <2>3. SubSeq(gres, index + 3, Len(gres)) = <<>>
    BY <1>2, <1>3, <2>1, SubSeqEmpty
  <2>4. AllLeft' = AllLeft
    BY <1>1, <1>6, <1>8, <1>9, <2>2, <2>3 DEF AllLeft
  <2>5. name' = NoName
    BY <1>4, <1>11
  <2>6. Promise!Continue
    BY <1>1, <1>3, <1>4, <1>9, <2>2, <2>4, <2>5 DEF Promise!Continue, AllLeft, NoSearch
  <2> QED
    BY <2>6 DEF Promise!Next
<1> QED
  BY <1>10, <1>11

LEMMA CopyRefines ==
  ASSUME Inv, NEW from \in Addresses, NEW to \in Addresses, Copy(from, to)
  PROVE  Promise!Next
<1>1. memory' = [memory EXCEPT ![to] = memory[from]] /\ UNCHANGED <<dta_addr, globs, name>>
  BY DEF Copy
<1>2. memory'[to] = memory[from] /\ \A addr \in Addresses : addr # to => memory'[addr] = memory[addr]
  BY <1>1 DEF Inv, TypeOK
<1>3. Left(to)' = Left(from)
  BY <1>1, <1>2 DEF Left, find_dta
<1>4. \A addr \in Addresses : addr # to => Left(addr)' = Left(addr)
  BY <1>1, <1>2 DEF Left, find_dta
<1>5. AllLeft' = [AllLeft EXCEPT ![to] = AllLeft[from]]
  BY <1>3, <1>4 DEF AllLeft
<1>6. Promise!Copy(from, to)
  BY <1>1, <1>5 DEF Promise!Copy, AllLeft
<1> QED
  BY <1>6 DEF Promise!Next

LEMMA OverwriteRefines ==
  ASSUME Inv, NEW addr \in Addresses, Overwrite(addr)
  PROVE  Promise!Next
<1>1. memory' = [memory EXCEPT ![addr] = Empty] /\ UNCHANGED <<dta_addr, globs, name>>
  BY DEF Overwrite
<1>2. memory'[addr] = Empty /\ \A a \in Addresses : a # addr => memory'[a] = memory[a]
  BY <1>1 DEF Inv, TypeOK
<1>3. Left(addr)' = NoSearch
  <2>1. 0 \notin FirstId .. sid
    BY DEF FirstId
  <2>2. ~ find_dta(0) /\ find_dta(0)' = find_dta(0)
    BY <1>1, <2>1 DEF find_dta, Inv, TypeOK
  <2> QED
    BY <1>2, <2>2 DEF Left, Empty
<1>4. \A a \in Addresses : a # addr => Left(a)' = Left(a)
  BY <1>1, <1>2 DEF Left, find_dta
<1>5. AllLeft' = [AllLeft EXCEPT ![addr] = NoSearch]
  BY <1>3, <1>4 DEF AllLeft
<1>6. Promise!Forget(addr)
  BY <1>1, <1>5 DEF Promise!Forget, AllLeft
<1> QED
  BY <1>6 DEF Promise!Next

LEMMA SameMemoryRefines ==
  ASSUME UNCHANGED <<memory, globs>>
  PROVE  AllLeft' = AllLeft
  BY DEF AllLeft, Left, find_dta

LEMMA InitRefines == Init => Promise!Init
<1> SUFFICES ASSUME Init PROVE Promise!Init
  OBVIOUS
<1>1. \A addr \in Addresses : Left(addr) = NoSearch
  BY DEF Init, Left, find_dta
<1> QED
  BY <1>1 DEF Init, Promise!Init

LEMMA NextRefines == Inv /\ Inv' /\ [Next]_vars => [Promise!Next]_(Promise!vars)
<1> SUFFICES ASSUME Inv, Inv', [Next]_vars
             PROVE  Promise!Next \/ UNCHANGED Promise!vars
  OBVIOUS
<1>1. ASSUME NEW addr \in Addresses \cup {Unmapped}, Fsetdta(addr) PROVE Promise!Next
  <2>1. AllLeft' = AllLeft
    BY <1>1, SameMemoryRefines DEF Fsetdta
  <2>2. Promise!SetDta(addr)
    BY <1>1, <2>1 DEF Fsetdta, Promise!SetDta, AllLeft
  <2> QED
    BY <2>2 DEF Promise!Next
<1>2. ASSUME NEW pattern \in Patterns, Fsfirst(pattern)
      PROVE  Promise!Next \/ UNCHANGED Promise!vars
  BY <1>2, FsfirstRefines
<1>3. CASE Fsnext
  BY <1>3, FsnextRefines
<1>4. CASE FsnextNull
  <2>1. AllLeft' = AllLeft
    BY <1>4, SameMemoryRefines DEF FsnextNull
  <2> QED
    BY <1>4, <2>1 DEF FsnextNull, Promise!vars, AllLeft
<1>5. ASSUME NEW from \in Addresses, NEW to \in Addresses, Copy(from, to) PROVE Promise!Next
  BY <1>5, CopyRefines
<1>6. ASSUME NEW addr \in Addresses, Overwrite(addr) PROVE Promise!Next
  BY <1>6, OverwriteRefines
<1>7. ASSUME NEW file \in Names, HostChanges(file) PROVE UNCHANGED Promise!vars
  <2>1. AllLeft' = AllLeft
    BY <1>7, SameMemoryRefines DEF HostChanges
  <2> QED
    BY <1>7, <2>1 DEF HostChanges, Promise!vars, AllLeft
<1>8. CASE UNCHANGED vars
  <2>1. AllLeft' = AllLeft
    BY <1>8, SameMemoryRefines DEF vars
  <2> QED
    BY <1>8, <2>1 DEF vars, Promise!vars, AllLeft
<1> QED
  BY <1>1, <1>2, <1>3, <1>4, <1>5, <1>6, <1>7, <1>8 DEF Next

(* Whatever the program searches for, copies and abandons, each DTA        *)
(* delivers what its Fsfirst found, each name once and in order.           *)
THEOREM SearchesImplemented == Spec => ImplementsSearches
  BY InitRefines, NextRefines, Invariance, PTL DEF Spec, ImplementsSearches, Promise!Spec
=============================================================================
