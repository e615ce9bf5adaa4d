---------------------------- MODULE MCGemdosFile ----------------------------
(***************************************************************************)
(* GemdosFile for TLC.                                                     *)
(***************************************************************************)
EXTENDS GemdosFile

Descriptors == 0 .. 6
=============================================================================
