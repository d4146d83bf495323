------------------------------ MODULE MCSpiAdc -------------------------------
(***************************************************************************)
(* Two tasks, channels 0 and 1 and the temperature, a FIFO of three, room  *)
(* for two initialisations.                                                *)
(***************************************************************************)
EXTENDS SpiAdc, TLC

Symmetry == Permutations(Task)
=============================================================================
