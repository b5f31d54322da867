-------------------------------- MODULE MCDynamo --------------------------------
(***************************************************************************)
(* The definitions of the prelude, every one of them flagged or not.       *)
(***************************************************************************)
EXTENDS Dynamo

Text == INSTANCE PreludeText
TheSections == Text!PreludeSections
=================================================================================
