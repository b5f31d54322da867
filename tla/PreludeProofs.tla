---------------------------- MODULE PreludeProofs ----------------------------
(***************************************************************************)
(* The five passes of close_translator, done once each, reach a fixed      *)
(* point of all their rules, and what the prelude's own definitions refer  *)
(* to is then defined, with two exceptions: for every set of constructs.   *)
(***************************************************************************)
EXTENDS Prelude, TLAPS

\* A rule that has nothing left to do.
Rule(from, to, f) == from \intersect f # {} => to \in f

Settled1(f) == Rule({"Expand.star"}, "Expand.at", f)
Settled2(f) ==
  /\ Rule(SetValueFrom, "SetValue", f)
  /\ Rule(GetValueFrom, "GetValue", f)
  /\ Rule(GetVariableFrom, "GetVariable", f)
  /\ Rule(IsDefinedFrom, "IsDefined", f)
Settled3(f) == Rule({".notNullElse"}, ".isNull", f) /\ Rule({"Make"}, ".val", f)
Settled4(f) == Rule(ExceptionFrom, "Bash2PyException", f)
Settled5(f) ==
  /\ Rule(SysFrom, "sys", f) /\ Rule({"Expand.dollar"}, "os", f) /\ Rule({"Glob"}, "glob", f)

Inv ==
  /\ pass \in 0..6
  /\ pass >= 1 => Settled1(flags)
  /\ pass >= 2 => Settled2(flags)
  /\ pass >= 3 => Settled3(flags)
  /\ pass >= 4 => Settled4(flags)
  /\ pass >= 5 => Settled5(flags)
  /\ pass = 6 => provided = Written(flags)

-------------------------------------------------------------------------------
(* A rule that has been applied is settled; one that is settled changes     *)
(* nothing; and applying one leaves another settled unless it feeds it.     *)
LEMMA NeedSettles == \A from, to, f : Rule(from, to, Need(from, to, f))
BY DEF Rule, Need

LEMMA NeedIdle == \A from, to, f : Rule(from, to, f) => Need(from, to, f) = f
BY DEF Rule, Need

LEMMA NeedKeeps ==
  \A from, to, f, from2, to2 :
    Rule(from, to, f) /\ to2 \notin from => Rule(from, to, Need(from2, to2, f))
BY DEF Rule, Need

(* neededFunctions tests its flags in an order in which no rule feeds an    *)
(* earlier one.                                                             *)
LEMMA FunctionsSettle == \A f : Settled2(NeededFunctions(f))
<1> SUFFICES ASSUME NEW f PROVE Settled2(NeededFunctions(f))
  OBVIOUS
<1> DEFINE f1 == Need(SetValueFrom, "SetValue", f)
           f2 == Need(GetValueFrom, "GetValue", f1)
           f3 == Need(GetVariableFrom, "GetVariable", f2)
           f4 == Need(IsDefinedFrom, "IsDefined", f3)
<1>1. /\ "GetValue" \notin SetValueFrom /\ "GetVariable" \notin SetValueFrom
      /\ "IsDefined" \notin SetValueFrom /\ "GetVariable" \notin GetValueFrom
      /\ "IsDefined" \notin GetValueFrom /\ "IsDefined" \notin GetVariableFrom
  BY DEF SetValueFrom, GetValueFrom, GetVariableFrom
<1>2. NeededFunctions(f) = f4
  BY DEF NeededFunctions
<1> HIDE DEF f4
<1>3. Rule(SetValueFrom, "SetValue", f4)
  BY <1>1, NeedSettles, NeedKeeps DEF f4
<1>4. Rule(GetValueFrom, "GetValue", f4)
  BY <1>1, NeedSettles, NeedKeeps DEF f4
<1>5. Rule(GetVariableFrom, "GetVariable", f4)
  BY <1>1, NeedSettles, NeedKeeps DEF f4
<1>6. Rule(IsDefinedFrom, "IsDefined", f4)
  BY NeedSettles DEF f4
<1> QED BY <1>2, <1>3, <1>4, <1>5, <1>6 DEF Settled2

(* A later pass raises no flag that an earlier one looks at.                *)
LEMMA EarlierStaySettled ==
  ASSUME NEW f
  PROVE  /\ Settled1(f) => Settled1(NeededFunctions(f))
         /\ Settled1(f) /\ Settled2(f) =>
              LET g == NeededBash2Py(f) IN Settled1(g) /\ Settled2(g)
         /\ Settled1(f) /\ Settled2(f) /\ Settled3(f) =>
              LET g == NeededExceptions(f) IN Settled1(g) /\ Settled2(g) /\ Settled3(g)
         /\ Settled1(f) /\ Settled2(f) /\ Settled3(f) /\ Settled4(f) =>
              LET g == NeededUses(f)
              IN  Settled1(g) /\ Settled2(g) /\ Settled3(g) /\ Settled4(g)
<1> DEFINE All == {"Expand.star"} \union SetValueFrom \union GetValueFrom
                    \union GetVariableFrom \union IsDefinedFrom
                    \union {".notNullElse", "Make"} \union ExceptionFrom
<1>1. {".isNull", ".val", "Bash2PyException", "sys", "os", "glob"} \intersect All = {}
  BY DEF SetValueFrom, GetValueFrom, GetVariableFrom, IsDefinedFrom, ExceptionFrom,
         UnsupportedParameters, UnsupportedLists
<1>2. ASSUME NEW from, NEW to, NEW from2, NEW to2, NEW g, Rule(from, to, g),
             from \subseteq All,
             to2 \in {".isNull", ".val", "Bash2PyException", "sys", "os", "glob"}
      PROVE  Rule(from, to, Need(from2, to2, g))
  BY <1>1, <1>2, NeedKeeps
<1>3. /\ {"Expand.star"} \subseteq All /\ SetValueFrom \subseteq All
      /\ GetValueFrom \subseteq All /\ GetVariableFrom \subseteq All
      /\ IsDefinedFrom \subseteq All /\ {".notNullElse"} \subseteq All
      /\ {"Make"} \subseteq All /\ ExceptionFrom \subseteq All
  OBVIOUS
<1> HIDE DEF All
<1>4. Settled1(f) => Settled1(NeededFunctions(f))
  BY NeedKeeps DEF Settled1, NeededFunctions
<1>5. ASSUME NEW g, NEW from2,
             NEW to2 \in {".isNull", ".val", "Bash2PyException", "sys", "os", "glob"}
      PROVE  LET h == Need(from2, to2, g)
             IN  /\ Settled1(g) => Settled1(h)
                 /\ Settled2(g) => Settled2(h)
                 /\ Settled3(g) => Settled3(h)
                 /\ Settled4(g) => Settled4(h)
  BY <1>2, <1>3 DEF Settled1, Settled2, Settled3, Settled4
<1>6. /\ Settled1(f) => Settled1(NeededBash2Py(f))
      /\ Settled2(f) => Settled2(NeededBash2Py(f))
  BY <1>5 DEF NeededBash2Py
<1>7. /\ Settled1(f) => Settled1(NeededExceptions(f))
      /\ Settled2(f) => Settled2(NeededExceptions(f))
      /\ Settled3(f) => Settled3(NeededExceptions(f))
  BY <1>5 DEF NeededExceptions
<1>8. /\ Settled1(f) => Settled1(NeededUses(f))
      /\ Settled2(f) => Settled2(NeededUses(f))
      /\ Settled3(f) => Settled3(NeededUses(f))
      /\ Settled4(f) => Settled4(NeededUses(f))
  BY <1>5 DEF NeededUses
<1> QED BY <1>4, <1>6, <1>7, <1>8

LEMMA LaterSettle ==
  ASSUME NEW f
  PROVE  /\ Settled1(NeededExpands(f)) /\ Settled3(NeededBash2Py(f))
         /\ Settled4(NeededExceptions(f)) /\ Settled5(NeededUses(f))
<1>1. Settled1(NeededExpands(f)) /\ Settled4(NeededExceptions(f))
  BY NeedSettles DEF Settled1, NeededExpands, Settled4, NeededExceptions
<1>2. Settled3(NeededBash2Py(f))
  BY NeedSettles, NeedKeeps DEF Settled3, NeededBash2Py
<1>3. Settled5(NeededUses(f))
  <2>1. /\ "os" \notin SysFrom /\ "glob" \notin SysFrom
        /\ "glob" \notin {"Expand.dollar"}
    BY DEF SysFrom
  <2> QED BY <2>1, NeedSettles, NeedKeeps DEF Settled5, NeededUses
<1> QED BY <1>1, <1>2, <1>3

LEMMA PassInv == Inv /\ Pass => Inv'
<1> SUFFICES ASSUME Inv, Pass PROVE Inv'
  OBVIOUS
<1>1. /\ pass \in 0..4 /\ pass' = pass + 1
      /\ flags' = PassResult(pass + 1, flags)
  BY DEF Pass, Inv
<1>2. CASE pass = 0
  BY <1>1, <1>2, LaterSettle DEF Inv, PassResult
<1>3. CASE pass = 1
  BY <1>1, <1>3, FunctionsSettle, EarlierStaySettled DEF Inv, PassResult
<1>4. CASE pass = 2
  BY <1>1, <1>4, LaterSettle, EarlierStaySettled DEF Inv, PassResult
<1>5. CASE pass = 3
  BY <1>1, <1>5, LaterSettle, EarlierStaySettled DEF Inv, PassResult
<1>6. CASE pass = 4
  BY <1>1, <1>6, LaterSettle, EarlierStaySettled DEF Inv, PassResult
<1> QED BY <1>1, <1>2, <1>3, <1>4, <1>5, <1>6

LEMMA PreludeInvariant == Spec => []Inv
<1>1. Init => Inv
  BY DEF Init, Inv
<1>2. Inv /\ [Next]_vars => Inv'
  <2> SUFFICES ASSUME Inv, [Next]_vars PROVE Inv'
    OBVIOUS
  <2>1. CASE Emit
    BY <2>1 DEF Emit, Inv
  <2>2. CASE Pass
    BY <2>2, PassInv
  <2>3. CASE Write
    BY <2>3 DEF Write, Inv
  <2>4. CASE Finished \/ UNCHANGED vars
    BY <2>4 DEF Finished, Inv, vars
  <2> QED BY <2>1, <2>2, <2>3, <2>4 DEF Next
<1> QED BY <1>1, <1>2, PTL DEF Spec

(* The order of the passes is right: none would add anything afterwards.    *)
THEOREM PassesReachFixedPoint == Spec => []PassesSettle
<1>1. Inv => PassesSettle
  <2> SUFFICES ASSUME Inv, pass >= 5, NEW i \in 1..5 PROVE PassResult(i, flags) = flags
    BY DEF PassesSettle
  <2>1. /\ Settled1(flags) /\ Settled2(flags) /\ Settled3(flags)
        /\ Settled4(flags) /\ Settled5(flags)
    BY DEF Inv
  <2>2. NeededExpands(flags) = flags
    BY <2>1, NeedIdle DEF Settled1, NeededExpands
  <2>3. NeededFunctions(flags) = flags
    BY <2>1, NeedIdle DEF Settled2, NeededFunctions
  <2>4. NeededBash2Py(flags) = flags
    BY <2>1, NeedIdle DEF Settled3, NeededBash2Py
  <2>5. NeededExceptions(flags) = flags
    BY <2>1, NeedIdle DEF Settled4, NeededExceptions
  <2>6. NeededUses(flags) = flags
    BY <2>1, NeedIdle DEF Settled5, NeededUses
  <2> QED BY <2>2, <2>3, <2>4, <2>5, <2>6 DEF PassResult
<1> QED BY <1>1, PreludeInvariant, PTL

-------------------------------------------------------------------------------
(* Every emitter raises flags that there are, and so do the passes.         *)
LEMMA SitesAreTyped == \A c \in Sites : c.sets \subseteq Flag /\ c.refs \subseteq Names
<1>1. \A n \in Flag : {n} \subseteq Flag /\ {n} \subseteq Names
  BY DEF Names
<1>2. \A names \in SUBSET Flag : \A c \in Flagged(names) : c.sets \subseteq Flag /\ c.refs \subseteq Names
  BY <1>1 DEF Flagged
<1>3. /\ Operators \subseteq Flag /\ Assigners \subseteq Flag /\ Steppers \subseteq Flag /\ Expansions \subseteq Flag
      /\ Imports \subseteq Flag /\ Functions \subseteq Flag /\ Flag \subseteq Names
      /\ {"GetValue", "Make", "Str", "Array", "Glob", ".val", ".setValue"} \subseteq Flag
      /\ "Bash2Py" \in Names
  <2>1. /\ Operators \subseteq Flag /\ Assigners \subseteq Flag /\ Steppers \subseteq Flag /\ Expansions \subseteq Flag
      /\ Imports \subseteq Flag /\ Functions \subseteq Flag /\ Flag \subseteq Names
      /\ {"GetValue", "Make", "Str", "Array", "Glob", ".val"} \subseteq Flag
      /\ "Bash2Py" \in Names
    BY DEF Flag, Expansions, Methods, Functions, Names
  <2>2. ".setValue" \in Flag
    BY DEF Flag, Methods, Assigners
  <2> QED BY <2>1, <2>2
<1>4. \A c \in Parameters \union StringParts \union Printers \union Loops
                 : c.sets \subseteq Flag /\ c.refs \subseteq Names
  BY <1>2, <1>3 DEF Parameters, StringParts, Printers, Loops, Imports
<1>5. \A c \in Indirections \union Arithmetic : c.sets \subseteq Flag /\ c.refs \subseteq Names
  BY <1>3 DEF Indirections, Arithmetic
<1>6. \A c \in Casts \union Readers \union SimpleCommands \union Tests \union Connections
                 : c.sets \subseteq Flag /\ c.refs \subseteq Names
  BY <1>2, <1>3 DEF Casts, Readers, SimpleCommands, Tests, Connections, Imports
<1>7. \A c \in Assignments \union Redirections : c.sets \subseteq Flag /\ c.refs \subseteq Names
  BY <1>3 DEF Assignments, Redirections, Imports
<1> QED BY <1>4, <1>5, <1>6, <1>7 DEF Sites

LEMMA PassKeepsFlags == \A i \in 1..5 : \A f \in SUBSET Flag : PassResult(i, f) \subseteq Flag
<1>1. \A from : \A to \in Flag : \A f \in SUBSET Flag : Need(from, to, f) \in SUBSET Flag
  BY DEF Need
<1>2. {"Expand.at", "SetValue", "GetValue", "GetVariable", "IsDefined", ".val", ".isNull",
       "Bash2PyException", "glob", "os", "sys"} \subseteq Flag
  BY DEF Flag, Imports, Functions, Expansions, Methods
<1>3. \A f \in SUBSET Flag : NeededExpands(f) \in SUBSET Flag /\ NeededExceptions(f) \in SUBSET Flag
  BY <1>1, <1>2 DEF NeededExpands, NeededExceptions
<1>4. \A f \in SUBSET Flag : NeededFunctions(f) \in SUBSET Flag
  BY <1>1, <1>2 DEF NeededFunctions
<1>5. \A f \in SUBSET Flag : NeededBash2Py(f) \in SUBSET Flag /\ NeededUses(f) \in SUBSET Flag
  BY <1>1, <1>2 DEF NeededBash2Py, NeededUses
<1> QED BY <1>3, <1>4, <1>5 DEF PassResult

(* The flags, the text and the prelude are made of known names, whatever    *)
(* emitters a script reaches.                                               *)
THEOREM PreludeTypes == Spec => []TypeOK
<1>1. Init => TypeOK
  BY BoundIsNat DEF Init, TypeOK
<1>2. TypeOK /\ [Next]_vars => TypeOK'
  <2> SUFFICES ASSUME TypeOK, [Next]_vars PROVE TypeOK'
    OBVIOUS
  <2>1. CASE Emit
    BY <2>1, SitesAreTyped, ConstructsAreSites, BoundIsNat DEF Emit, TypeOK
  <2>2. CASE Pass
    BY <2>2, PassKeepsFlags DEF Pass, TypeOK
  <2>3. CASE Write
    BY <2>3 DEF Write, Written, TypeOK, Names
  <2>4. CASE Finished \/ UNCHANGED vars
    BY <2>4 DEF Finished, TypeOK, vars
  <2> QED BY <2>1, <2>2, <2>3, <2>4 DEF Next
<1> QED BY <1>1, <1>2, PTL DEF Spec

(* What Expand.minus, SetValue and the others call is printed with them.    *)
THEOREM PreludeIsClosed == Spec => []DefinitionsClosed
<1>1. Inv /\ TypeOK => DefinitionsClosed
  <2> SUFFICES ASSUME Inv, TypeOK, pass = 6, NEW n \in provided
               PROVE  References(n) \subseteq provided \union KnownGap(n)
    BY DEF DefinitionsClosed
  <2>1. /\ Settled1(flags) /\ Settled2(flags) /\ Settled3(flags)
        /\ Settled4(flags) /\ Settled5(flags) /\ provided = Written(flags)
    BY DEF Inv
  <2>2. flags \subseteq provided /\ (n \in flags \/ n = "Bash2Py")
    BY <2>1 DEF Written
  <2>3. CASE n = "Make"
    <3>1. "GetVariable" \in flags /\ ".val" \in flags
      BY <2>1, <2>2, <2>3 DEF Settled2, Settled3, Rule, GetVariableFrom
    <3>2. "Bash2Py" \in provided
      BY <2>1, <3>1 DEF Written, Methods
    <3> QED BY <2>2, <2>3, <3>1, <3>2 DEF References
  <2>4. CASE n \in {"GetValue", "SetValue"}
    <3>1. "GetVariable" \in flags
      BY <2>1, <2>2, <2>4 DEF Settled2, Rule, GetVariableFrom, GetValueFrom
    <3> QED BY <2>2, <2>4, <3>1 DEF References, KnownGap
  <2>5. CASE n \in {"Glob", ".notNullElse", "Expand.dollar"}
    BY <2>1, <2>2, <2>5 DEF References, Settled3, Settled5, Rule
  <2>6. CASE n \in {"Expand.at", "Expand.hash", "Expand.star"}
    BY <2>1, <2>2, <2>6 DEF References, Settled1, Settled5, Rule, SysFrom
  <2>7. CASE n \in {"Expand.minus", "Expand.plus"}
    BY <2>1, <2>2, <2>7 DEF References, Settled2, Rule, IsDefinedFrom, GetValueFrom
  <2>8. CASE n \in {"Expand.eq", "Expand.colonEq"}
    BY <2>1, <2>2, <2>8
    DEF References, Settled2, Rule, IsDefinedFrom, GetValueFrom, SetValueFrom
  <2>9. CASE n \in {"Expand.colonMinus", "Expand.colonPlus"}
    BY <2>1, <2>2, <2>9 DEF References, Settled2, Rule, GetValueFrom
  <2>10. CASE n \in {"Expand.qmark", "Expand.colonQmark"}
    BY <2>1, <2>2, <2>10
    DEF References, Settled2, Settled4, Rule, IsDefinedFrom, GetValueFrom, ExceptionFrom, KnownGap
  <2>11. CASE n \in UnsupportedParameters \union UnsupportedLists
    <3>1. References(n) = {"Bash2PyException"}
      BY <2>11 DEF References, UnsupportedParameters, UnsupportedLists
    <3>2. "Bash2PyException" \in flags
      <4>1. n \in ExceptionFrom
        BY <2>11 DEF ExceptionFrom
      <4>2. n # "Bash2Py"
        BY <2>11 DEF UnsupportedParameters, UnsupportedLists
      <4> QED BY <2>1, <2>2, <4>1, <4>2 DEF Settled4, Rule
    <3> QED BY <2>2, <3>1, <3>2
  <2> DEFINE Listed == {"Make", "GetValue", "SetValue", "Glob", ".notNullElse", "Expand.dollar",
                        "Expand.at", "Expand.hash", "Expand.star", "Expand.minus", "Expand.plus",
                        "Expand.eq", "Expand.colonEq", "Expand.colonMinus", "Expand.colonPlus",
                        "Expand.qmark", "Expand.colonQmark"}
  <2>12. CASE n \notin Listed \union UnsupportedParameters \union UnsupportedLists
    <3>1. References(n) = {}
      BY <2>12 DEF References
    <3> QED BY <3>1
  <2> QED
    BY <2>3, <2>4, <2>5, <2>6, <2>7, <2>8, <2>9, <2>10, <2>11, <2>12
<1> QED BY <1>1, PreludeInvariant, PreludeTypes, PTL

===============================================================================
