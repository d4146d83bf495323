------------------------------ MODULE MCSensors ------------------------------
(***************************************************************************)
(* Two tasks on the three sensors.                                         *)
(***************************************************************************)
EXTENDS Sensors, TLC

Symmetry == Permutations(Task)
=============================================================================
