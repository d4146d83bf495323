------------------------------ MODULE MCI2CBus -------------------------------
(***************************************************************************)
(* Small instances of I2CBus: a compass, a sonar address and an address    *)
(* out of range, so that every address check goes both ways.               *)
(***************************************************************************)
EXTENDS I2CBus

MCAddress == {0, 33, 128}
=============================================================================
