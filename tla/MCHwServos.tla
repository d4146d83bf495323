----------------------------- MODULE MCHwServos ------------------------------
(***************************************************************************)
(* Two servos, limits 2 and 3, requests on either side of both limits.     *)
(***************************************************************************)
EXTENDS HwServos, TLC

Symmetry == Permutations(Task)
=============================================================================
