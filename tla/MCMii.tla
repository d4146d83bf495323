-------------------------------- MODULE MCMii --------------------------------
(***************************************************************************)
(* The program and its PHY, with the widths, register numbers and bits of  *)
(* the code.                                                               *)
(***************************************************************************)
EXTENDS Mii
=============================================================================
