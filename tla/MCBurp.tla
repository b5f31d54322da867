-------------------------------- MODULE MCBurp --------------------------------
(* Burp with blocks small enough for the growth loop to run several times. *)
EXTENDS Burp

CONSTANTS out, save, x

MCChar == {x, NL, SP}
MCShortTexts == {<<x>>, <<NL>>}
MCTexts == {<<>>, <<x>>, <<NL>>, <<NL, x>>, <<SP, x>>}
===============================================================================
