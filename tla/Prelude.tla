------------------------------- MODULE Prelude -------------------------------
(***************************************************************************)
(* translate.c, close_translator: the Python definitions (imports, the     *)
(* Expand and Bash2Py classes, helper functions) that are written in front *)
(* of a translated script.                                                 *)
(*                                                                         *)
(* While a script is translated, every emitter that prints a name which    *)
(* Python does not know raises a flag of g_translate.  At the end five     *)
(* passes add the flags of what the flagged definitions themselves need,   *)
(* one after the other and each of them once; then every flagged           *)
(* definition is printed.  A pass that reads a flag which a later pass     *)
(* raises, or a rule that is missing, leaves the script with a NameError   *)
(* that shows only when that line of the script runs.                      *)
(*                                                                         *)
(* A flag is named as the Python definition it stands for.                 *)
(***************************************************************************)
EXTENDS Naturals, FiniteSets

CONSTANTS
  Constructs,   \* what the scripts contain, as sites of the emitters
  MaxConstructs \* bound: different constructs in one script

Imports ==      \* usesS; print is "from __future__ import print_function"
  {"sys", "os", "subprocess", "signal", "threading", "glob", "re", "stat", "print"}

Functions ==    \* functionS
  {"IsDefined", "GetVariable", "Make", "GetValue", "SetValue", "Str", "Array", "Glob"}

UnsupportedParameters == {"Expand.exclamation", "Expand.underbar", "Expand.hyphen"}
UnsupportedLists ==
  {"Expand.prefixStar", "Expand.prefixAt", "Expand.indicesStar", "Expand.indicesAt"}
Operators ==    \* ${x-w} and its kind
  {"Expand.minus", "Expand.plus", "Expand.eq", "Expand.qmark",
   "Expand.colonMinus", "Expand.colonPlus", "Expand.colonEq", "Expand.colonQmark"}

Expansions ==   \* expandS
  {"Expand.star", "Expand.at", "Expand.hash", "Expand.dollar"}
  \union UnsupportedParameters \union UnsupportedLists \union Operators

Assigners ==
  {".setValue", ".plus", ".minus", ".multiply", ".idivide", ".mod",
   ".lsh", ".rsh", ".band", ".bor", ".bxor"}
Steppers == {".preinc", ".postinc"}

Methods == {".val", ".isNull", ".notNullElse"} \union Steppers \union Assigners

Flag == Imports \union Functions \union Expansions \union Methods \union {"Bash2PyException"}

\* Names the text may refer to: the class itself goes with any of its methods.
Names == Flag \union {"Bash2Py"}

(***************************************************************************)
(* The sites: the flags an emitter raises and the names it prints.         *)
(***************************************************************************)
Site == [sets : SUBSET Flag, refs : SUBSET Names]
Flagged(names) == {[sets |-> {n}, refs |-> {n}] : n \in names}

\* $*, $@, $#, $$, $!, $_, $-; ${x-w} ... ${x:+w}; ${!x*} ... ${!x[@]}
Parameters == Flagged(Expansions)

\* $1 outside of functions; re.sub for ${x/y/z}; os.popen for $(...); ~
StringParts == Flagged({"sys", "re", "os"})

\* ${!x}, and ${!x-w}
Indirections ==
  {[sets |-> {}, refs |-> {"GetValue"}]}
  \union {[sets |-> {"GetValue", o}, refs |-> {"GetValue", o}] : o \in Operators}

\* Str(...) and Array(...) around a part of another type, Glob(...) around all
Casts == Flagged({"Str", "Array"}) \union {[sets |-> {"glob", "Glob"}, refs |-> {"Glob"}]}

\* x op= e, ++x, x++: applied to Make("x")
Arithmetic ==
  {[sets |-> {"Make", m}, refs |-> {"Make", m}] : m \in Assigners \union Steppers}
  \union {[sets |-> {".val"}, refs |-> {".val"}]}

\* An assignment makes an object as a statement and sets one in a condition.
Assignments ==
  {[sets |-> {".val"}, refs |-> {"Bash2Py"}],
   [sets |-> {"Make", ".setValue", ".val"}, refs |-> {"Make", ".setValue"}]}

\* echo, printf, declare -p
Printers == Flagged({"print"})

\* let, read, trap, umask
Readers ==
  Flagged({"signal", "os"})
  \union {[sets |-> {".val"}, refs |-> {"Bash2Py"}],
          [sets |-> {"os", "print"}, refs |-> {"os", "print"}]}

\* cd, logout, pwd, export and what is not built in
SimpleCommands ==
  Flagged({"os", "sys", "subprocess"})
  \union {[sets |-> {"os", "print"}, refs |-> {"os", "print"}]}

\* [ -e f ] and its kind, [ -s f ] and its kind, =~
Tests == Flagged({"os", "re"}) \union {[sets |-> {"os", "stat"}, refs |-> {"os", "stat"}]}

Loops == Flagged({"Make"})

\* & and |
Connections ==
  Flagged({"threading"}) \union {[sets |-> {"os", "sys"}, refs |-> {"os", "sys"}]}

\* A redirection that duplicates a descriptor, and one of an echo or a printf.
Redirections ==
  {[sets |-> {}, refs |-> {"os"}],
   [sets |-> {"print"}, refs |-> {"print", "subprocess"}]}

Sites ==
  Parameters \union StringParts \union Indirections \union Casts \union Arithmetic
    \union Assignments \union Printers \union Readers \union SimpleCommands
    \union Tests \union Loops \union Connections \union Redirections

ASSUME ConstructsAreSites == Constructs \subseteq Sites
ASSUME BoundIsNat == MaxConstructs \in Nat

VARIABLES
  flags,        \* g_translate
  text,         \* the names the emitted text refers to
  pass,         \* passes done; 0 while the script is translated, 6 at the end
  used,         \* constructs of this script so far (bounds the model)
  provided      \* what the prelude that was written defines

vars == <<flags, text, pass, used, provided>>

Init ==
  /\ flags = {} /\ text = {} /\ pass = 0 /\ used = 0
  /\ provided = {}

Emit ==
  /\ pass = 0 /\ used < MaxConstructs
  /\ \E c \in Constructs :
       /\ flags' = flags \union c.sets
       /\ text' = text \union c.refs
  /\ used' = used + 1
  /\ UNCHANGED <<pass, provided>>

(***************************************************************************)
(* The passes                                                              *)
(***************************************************************************)
\* "if (any of from) to = TRUE"
Need(from, to, f) == IF from \intersect f # {} THEN f \union {to} ELSE f

SetValueFrom == {"Expand.eq", "Expand.colonEq"}
\* Mutant: ${x:?w} is forgotten.
GetValueFromLess == {"SetValue", "Expand.minus", "Expand.eq", "Expand.colonMinus",
                     "Expand.colonEq", "Expand.colonPlus"}

GetValueFrom == {"SetValue", "Expand.minus", "Expand.eq", "Expand.colonMinus",
                 "Expand.colonEq", "Expand.colonQmark", "Expand.colonPlus"}
GetVariableFrom == {"Make", "GetValue"}
IsDefinedFrom == {"Expand.minus", "Expand.eq", "Expand.qmark", "Expand.plus"}
ExceptionFrom == UnsupportedParameters \union UnsupportedLists
                   \union {"Expand.qmark", "Expand.colonQmark"}
SysFrom == {"Expand.star", "Expand.at", "Expand.hash"}

NeededExpands(f) == Need({"Expand.star"}, "Expand.at", f)

\* Mutant: what needs GetVariable is looked at before GetValue is known.
NeededFunctionsSwapped(f) ==
  LET f1 == Need(SetValueFrom, "SetValue", f)
      f2 == Need(GetVariableFrom, "GetVariable", f1)
      f3 == Need(GetValueFrom, "GetValue", f2)
  IN  Need(IsDefinedFrom, "IsDefined", f3)

NeededFunctions(f) ==
  LET f1 == Need(SetValueFrom, "SetValue", f)
      f2 == Need(GetValueFrom, "GetValue", f1)
      f3 == Need(GetVariableFrom, "GetVariable", f2)
  IN  Need(IsDefinedFrom, "IsDefined", f3)

NeededBash2Py(f) == Need({"Make"}, ".val", Need({".notNullElse"}, ".isNull", f))

NeededExceptions(f) == Need(ExceptionFrom, "Bash2PyException", f)

NeededUses(f) == Need({"Glob"}, "glob", Need({"Expand.dollar"}, "os", Need(SysFrom, "sys", f)))

PassResult(i, f) ==
  IF i = 1 THEN NeededExpands(f)
  ELSE IF i = 2 THEN NeededFunctions(f)
  ELSE IF i = 3 THEN NeededBash2Py(f)
  ELSE IF i = 4 THEN NeededExceptions(f)
  ELSE NeededUses(f)

Pass ==
  /\ pass < 5
  /\ flags' = PassResult(pass + 1, flags)
  /\ pass' = pass + 1
  /\ UNCHANGED <<text, used, provided>>

(***************************************************************************)
(* Writing: emitUses, emitExceptions, emitBash2PyClass, emitFunctions and  *)
(* emitExpandClass print what is flagged, each definition under its own    *)
(* flag, the class Bash2Py if any of its methods is.                       *)
(***************************************************************************)
Written(f) == f \union (IF f \intersect Methods # {} THEN {"Bash2Py"} ELSE {})

Write ==
  /\ pass = 5
  /\ provided' = Written(flags)
  /\ pass' = 6
  /\ UNCHANGED <<flags, text, used>>

\* The names the text of a definition refers to.
References(n) ==
  IF n = "Make" THEN {"GetVariable", "Bash2Py"}
  ELSE IF n = "GetValue" THEN {"GetVariable"}
  ELSE IF n = "SetValue" THEN {"GetVariable", "Bash2Py"}
  ELSE IF n = "Glob" THEN {"glob"}
  ELSE IF n = ".notNullElse" THEN {".isNull"}
  ELSE IF n \in {"Expand.at", "Expand.hash"} THEN {"sys"}
  ELSE IF n = "Expand.star" THEN {"sys", "Expand.at"}
  ELSE IF n = "Expand.dollar" THEN {"os"}
  ELSE IF n = "Expand.minus" THEN {"IsDefined", "GetValue"}
  ELSE IF n = "Expand.plus" THEN {"IsDefined"}
  ELSE IF n = "Expand.eq" THEN {"IsDefined", "SetValue", "GetValue"}
  ELSE IF n = "Expand.qmark" THEN {"IsDefined", "GetValue", "Bash2PyException"}
  ELSE IF n \in {"Expand.colonMinus", "Expand.colonPlus"} THEN {"GetValue"}
  ELSE IF n = "Expand.colonEq" THEN {"GetValue", "SetValue"}
  ELSE IF n = "Expand.colonQmark" THEN {"GetValue", "Bash2PyException"}
  ELSE IF n \in UnsupportedParameters \union UnsupportedLists THEN {"Bash2PyException"}
  ELSE {}

Finished == pass = 6 /\ UNCHANGED vars

Next == Emit \/ Pass \/ Write \/ Finished

Spec == Init /\ [][Next]_vars

-------------------------------------------------------------------------------
(***************************************************************************)
(* Properties                                                              *)
(***************************************************************************)
\* The values every variable may take: no flag is raised that nothing writes.
TypeOK ==
  /\ flags \subseteq Flag /\ text \subseteq Names /\ provided \subseteq Names
  /\ pass \in 0..6 /\ used \in 0..MaxConstructs

\* Doing each pass once, in close_translator's order, is enough: when the
\* prelude is written no pass would add anything, in whatever order and however
\* often they were repeated.
PassesSettle == pass >= 5 => \A i \in 1..5 : PassResult(i, flags) = flags

\* The rules of the passes know every name that a definition of the prelude
\* refers to, with two exceptions: Expand.qmark calls GetValue, and SetValue makes
\* a Bash2Py object, whether or not anything else has asked for them.
KnownGap(n) ==
  IF n = "Expand.qmark" THEN {"GetValue"}
  ELSE IF n = "SetValue" THEN {"Bash2Py"} ELSE {}

DefinitionsClosed ==
  /\ TypeOK
  /\ pass = 6 => \A n \in provided : References(n) \subseteq provided \union KnownGap(n)
===============================================================================
