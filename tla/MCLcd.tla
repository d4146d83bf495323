-------------------------------- MODULE MCLcd --------------------------------
(***************************************************************************)
(* Lines of three characters, a banner that fills them, and messages that  *)
(* are shorter, as long and longer than the display.                       *)
(***************************************************************************)
EXTENDS Lcd

A == <<4, 1>>
B == <<5, 3>>

MCChar == {A, B}

MCBanner == <<A, B, B, A, A, B, NUL, NUL, NUL>>

MCMessages == {<<B, NUL>>, <<B, A, A, B>>, <<A, A, B, B, B, A, A>>}
=============================================================================
