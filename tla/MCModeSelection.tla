--------------------------- MODULE MCModeSelection ----------------------------
(***************************************************************************)
(* The whole program; only signals and pipe are bounded.                   *)
(***************************************************************************)
EXTENDS ModeSelection
===============================================================================
