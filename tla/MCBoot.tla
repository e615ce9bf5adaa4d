------------------------------- MODULE MCBoot -------------------------------
(***************************************************************************)
(* Boot on a machine whose bytes have three values, with six small areas   *)
(* in the order of the real ones and gaps where the real map has gaps.     *)
(***************************************************************************)
EXTENDS Boot

BlockNames == {"staticmem0", "magicmem0", "staticmem1", "superram", "basepage", "userram"}

SmallLayout == [staticmem0 |-> [base |-> 0,  len |-> 8],
                magicmem0  |-> [base |-> 9,  len |-> 2],
                staticmem1 |-> [base |-> 12, len |-> 2],
                superram   |-> [base |-> 14, len |-> 2],
                basepage   |-> [base |-> 16, len |-> 1],
                userram    |-> [base |-> 17, len |-> 26]]

SmallTexts == {<<1, 2, 0, 1, 2, 2, 2, 2, 0, 1, 2, 0>>}

NoTable == [absflag |-> TRUE, first |-> 1, bytes |-> <<0>>]

Table(first, bytes) ==
    [absflag |-> FALSE, first |-> first, bytes |-> Append(bytes, 0)]

(* One place, none, two and three places, places behind a skip, places     *)
(* that overlap and places outside user RAM.                               *)
SmallTables ==
    {NoTable, Table(0, <<4>>)} \cup
    {Table(first, bytes) : first \in {1, 4, 24},
                           bytes \in {<<>>, <<4>>, <<2>>, <<4, 4>>, <<1, 4>>, <<4, 1, 1, 4>>}}

TrapVectors == {33, 45, 46}

SmallFunctions ==
    [v \in TrapVectors |->
        CASE v = 33 -> <<[id |-> 9, fnct |-> "Cconws"], [id |-> 5, fnct |-> "NULL"],
                         [id |-> 7, fnct |-> "Unknown"], [id |-> 8, fnct |-> "Super"],
                         [id |-> 0, fnct |-> "Pterm"]>>
          [] v = 45 -> <<[id |-> 3, fnct |-> "Putchar"], [id |-> 5, fnct |-> "Setexc"],
                         [id |-> 0, fnct |-> "NULL"]>>
          [] OTHER  -> <<[id |-> 5, fnct |-> "NULL"], [id |-> 5, fnct |-> "NULL"],
                         [id |-> 8, fnct |-> "Super"]>>]

SmallBehind == {[v \in TrapVectors |-> [id |-> n, fnct |-> "garbage"]] : n \in {0, 4}}
=============================================================================
