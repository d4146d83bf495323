------------------------------- MODULE MCGpio --------------------------------
(***************************************************************************)
(* Two fields side by side in a register of four bits, as the two banks of *)
(* LEDs are in the General Outputs core, and a write of the whole word.    *)
(***************************************************************************)
EXTENDS GpioLife

MCBit == 0..3

MCField == {[mask |-> {0, 1}, shift |-> 0], [mask |-> {2, 3}, shift |-> 2],
            [mask |-> MCBit, shift |-> 0]}

MCValue == {{}, {0}, {0, 1, 2}}
=============================================================================
