---------------------------- MODULE MCGemdosMem ----------------------------
(***************************************************************************)
(* GemdosMem on a very small machine: managed memory starts at 2, the base *)
(* page is one byte and a few bytes of user RAM lie behind it.  Memory     *)
(* must not start at 0, or a wrapped address could not be told from one    *)
(* below managed memory; the word size leaves room above user RAM, or the  *)
(* sizes that only make sense as negative numbers would be missing.        *)
(***************************************************************************)
EXTENDS GemdosMem

ASSUME TopOfRAMIsNotTheLastWord == LowTPA + mem_allocatable_top < Query
=============================================================================
