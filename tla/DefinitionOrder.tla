---------------------------- MODULE DefinitionOrder ----------------------------
(***************************************************************************)
(* What print_function_def_subtree promises: Python has no use for bash's  *)
(* nested definitions in place, so every function definition of a script   *)
(* is printed on its own, once, in the order in which they were come upon. *)
(***************************************************************************)
EXTENDS Naturals, Sequences

CONSTANT Name

VARIABLES
  seen,         \* the names of the definitions come upon so far
  printed       \* the names of those whose printing has begun

vars == <<seen, printed>>

Init == seen = <<>> /\ printed = <<>>

ComeUpon(n) == seen' = Append(seen, n) /\ UNCHANGED printed

PrintNext ==
  /\ Len(printed) < Len(seen)
  /\ printed' = Append(printed, seen[Len(printed) + 1])
  /\ UNCHANGED seen

\* A definition outside of any function is printed as soon as it is come upon.
ComeUponAndPrint(n) ==
  /\ printed = seen
  /\ seen' = Append(seen, n)
  /\ printed' = Append(printed, n)

Next == (\E n \in Name : ComeUpon(n) \/ ComeUponAndPrint(n)) \/ PrintNext

Spec == Init /\ [][Next]_vars /\ WF_vars(PrintNext)
===============================================================================
