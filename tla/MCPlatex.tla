------------------------------ MODULE MCPlatex -------------------------------
(***************************************************************************)
(* The six tasks and nine devices of the program; two signals are enough   *)
(* for one to arrive while the first is handled.                           *)
(***************************************************************************)
EXTENDS Platex
=============================================================================
