------------------------------ MODULE MCConsole ------------------------------
(***************************************************************************)
(* Console with a letter and the newline.                                  *)
(***************************************************************************)
EXTENDS Console

Newline == 10
Letters == {97, Newline}
=============================================================================
