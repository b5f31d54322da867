------------------------------ MODULE MCPrelude ------------------------------
(* Prelude with scripts of up to two constructs, of every kind there is.     *)
EXTENDS Prelude

AllSites == Sites
ParameterSites == Parameters
===============================================================================
