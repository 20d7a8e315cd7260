---------------------------- MODULE MCHalLoader ----------------------------
(***************************************************************************)
(* The loader on every sequence of the bytes that make a difference: the   *)
(* commands, the zero, and one byte without a meaning.  Four positions     *)
(* make both of them wrap.                                                 *)
(***************************************************************************)
EXTENDS HalLoader

MCBytes == {0, 3, Ping, Download, Run}
=============================================================================
