---------------------------- MODULE MCSupervisor ----------------------------
(***************************************************************************)
(* Supervisor with two code addresses.  The stacks have room for the two   *)
(* return addresses and the arguments of two nested calls and of Super.    *)
(***************************************************************************)
EXTENDS Supervisor

(* A program whose code lies below 64K.                                    *)
LowCode == {9, 11}
=============================================================================
