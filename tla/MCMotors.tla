------------------------------ MODULE MCMotors -------------------------------
(***************************************************************************)
(* Two motors and two encoders, the first of each used by the tasks;       *)
(* settings below zero, within the limits 2 and 1, and above both.         *)
(***************************************************************************)
EXTENDS Motors, TLC

MCMotor == {<<"pwm", 0>>}
MCEnc == {<<"qenc", 0>>}
MCSetting == {-1, 2, 3}

Symmetry == Permutations(Task)
=============================================================================
