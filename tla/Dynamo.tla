--------------------------------- MODULE Dynamo ---------------------------------
(***************************************************************************)
(* dynamo.c: the generator of the Python definitions in front of a script. *)
(* A caller makes the lines of a function with def_, asgn_, if_, else_,    *)
(* ret_ and raise_, keeps the pointers it is given, and hands them all to  *)
(* write_function.                                                         *)
(*                                                                         *)
(* The pointers lead to static buffers, three of each kind, and one for    *)
(* headers and for raise; write_function prints as many lines as           *)
(* g_lines_in_func counted, whatever it is given.  The depth of a line is  *)
(* the margin at the moment it is made.  So every line depends on all the  *)
(* calls before it, of this function and of those before.                  *)
(*                                                                         *)
(* The texts are tokens, written with the macros of the source.            *)
(***************************************************************************)
EXTENDS Integers, Sequences, SequencesExt, FiniteSetsExt

CONSTANT Sections   \* the definitions there are, in the order of close_translator

Kinds == {"def", "asgn", "set", "ret", "raise", "literal", "if", "else"}
Statements == [kind : Kinds, depth : Nat, subs : Nat, l : STRING, r : STRING]

Definitions == UNION {ToSet(Sections[i].defs) : i \in DOMAIN Sections}

ASSUME SectionsAssumption ==
  /\ \A i \in DOMAIN Sections : Sections[i].class \in STRING /\ Sections[i].static \in BOOLEAN
  /\ \A d \in Definitions :
       /\ d.always \in BOOLEAN /\ d.unsupported \in BOOLEAN
       /\ d.calls \in Seq(Statements) /\ d.calls # <<>>

VARIABLES
  g_left_margin, g_return_count, g_if_count, g_asgn_count, g_lines_in_func,
  g_conditional_nesting, g_inside_class, g_is_static,
  buffers,      \* the static buffers of all routines, by the pointer to them
  working_str,  \* the buffer of expand_macros
  clauses,      \* the calls of _process_ifelse_subordinates that are active
  args,         \* the pointers the caller has
  section, inside, \* close_translator's place: the section, and whether it was begun
  def, call,    \* the definition, and its next call; 0 between definitions
  written       \* what write_function has just printed

counts == <<g_return_count, g_if_count, g_asgn_count, g_lines_in_func>>
margin == <<g_left_margin, g_inside_class, g_is_static>>
nesting == <<g_conditional_nesting, clauses>>
place == <<section, inside, def>>
vars == <<counts, margin, nesting, buffers, working_str, args, place, call, written>>

Pools == {"ret", "if", "asgn"}
Pointers == {<<p, i>> : p \in Pools, i \in 0..2} \union {<<"def", 0>>, <<"raise", 0>>}

Init ==                                         \* init_dynamo
  /\ g_left_margin = 0 /\ g_return_count = 0 /\ g_if_count = 0 /\ g_asgn_count = 0
  /\ g_lines_in_func = 0 /\ g_conditional_nesting = 0
  /\ g_inside_class = FALSE /\ g_is_static = FALSE
  /\ buffers = [p \in Pointers |-> <<>>] /\ working_str = ""
  /\ clauses = <<>> /\ args = <<>>
  /\ section = 1 /\ inside = FALSE /\ def = 1 /\ call = 0
  /\ written = <<>>

(***************************************************************************)
(* The building blocks                                                     *)
(***************************************************************************)
\* assert(g_return_count <= 3) and its kind: no call after one that failed.
Alive == g_return_count <= 3 /\ g_if_count <= 3 /\ g_asgn_count <= 3

Calls == Sections[section].defs[def].calls
ClauseIsDone == clauses # <<>> /\ Last(clauses).left = 0
Statement(kinds) ==
  Alive /\ ~ClauseIsDone /\ call # 0 /\ call \in DOMAIN Calls /\ Calls[call].kind \in kinds

\* _write_line: the margin is that of the moment.
Line(indent, kind, l, r) == [indent |-> indent, kind |-> kind, l |-> l, r |-> r]

\* The margins and counters are unsigned char.
Byte(n) == n % 256

\* A line of its own is an argument of write_function to be, and is counted; a
\* subordinate one is copied behind the clause it stands in, which lies in the
\* buffer of the outermost if_ or else_, and its letter in types is done with.
Outermost == <<"if", clauses[1].slot>>
Subordinate == [clauses EXCEPT ![Len(clauses)].left = @ - 1]

Made(pointer, line) ==
  IF clauses = <<>>
  THEN /\ buffers' = [buffers EXCEPT ![pointer] = <<line>>]
       /\ args' = Append(args, pointer)
  ELSE /\ buffers' = [buffers EXCEPT ![pointer] = <<line>>,
                                     ![Outermost] = Append(@, line)]
       /\ UNCHANGED args

CountLine ==
  g_lines_in_func' = IF g_conditional_nesting = 0 THEN Byte(g_lines_in_func + 1)
                                                  ELSE g_lines_in_func

Expanded(text) == working_str' = text

NextCall == call' = call + 1 /\ UNCHANGED <<place, written>>

\* def_, with the line @staticmethod if the method is to be static
Def ==
  /\ Statement({"def"})
  /\ LET indent == IF g_inside_class THEN 2 ELSE 0
         header == Line(indent, "def", Calls[call].l, Calls[call].r)
     IN  /\ buffers' = [buffers EXCEPT ![<<"def", 0>>] =
                          IF g_is_static THEN <<Line(indent, "static", "", ""), header>>
                          ELSE <<header>>]
         /\ g_left_margin' = indent + 2
  /\ Expanded(Calls[call].l)
  /\ args' = Append(args, <<"def", 0>>)
  /\ g_lines_in_func' = Byte(g_lines_in_func + 1)
  /\ NextCall
  /\ UNCHANGED <<g_return_count, g_if_count, g_asgn_count, g_inside_class, g_is_static, nesting>>

\* ret_, and R inside of a clause
RetOutdenting(levels) ==
  /\ Statement({"ret"})
  /\ g_return_count' = g_return_count + 1
  /\ Made(<<"ret", g_return_count>>, Line(g_left_margin, "ret", Calls[call].l, ""))
  /\ Expanded(Calls[call].l)
  /\ g_left_margin' = Byte(g_left_margin - 2 * levels)
  /\ CountLine
  /\ clauses' = IF clauses = <<>> THEN clauses ELSE Subordinate
  /\ NextCall
  /\ UNCHANGED <<g_if_count, g_asgn_count, g_inside_class, g_is_static, g_conditional_nesting>>

\* Mutant: return also leaves the function's definition.
RetLeavesTwo == RetOutdenting(2)

Ret == RetOutdenting(1)

\* raise of write_unsupported_func, and r inside of a clause
Raise ==
  /\ Statement({"raise"})
  /\ Made(<<"raise", 0>>, Line(g_left_margin, "raise", Calls[call].l, ""))
  /\ Expanded(Calls[call].l)
  /\ CountLine
  /\ clauses' = IF clauses = <<>> THEN clauses ELSE Subordinate
  /\ NextCall
  /\ UNCHANGED <<g_return_count, g_if_count, g_asgn_count, margin, g_conditional_nesting>>

\* asgn_, and A inside of a clause: the left side is expanded and copied by
\* strdup, the right side is where expand_macros leaves it.  The kind "set" is
\* the call of _asgn_internal with texts that are not expanded.
AsgnOf(left) ==
  /\ Statement({"asgn", "set"})
  /\ g_asgn_count' = g_asgn_count + 1
  /\ IF Calls[call].kind = "asgn" THEN Expanded(Calls[call].r) ELSE UNCHANGED working_str
  /\ LET here == IF g_inside_class /\ g_left_margin = 0 THEN 2 ELSE g_left_margin
     IN  /\ Made(<<"asgn", g_asgn_count>>, Line(here, Calls[call].kind, left, Calls[call].r))
         /\ g_left_margin' = here
  /\ CountLine
  /\ clauses' = IF clauses = <<>> THEN clauses ELSE Subordinate
  /\ NextCall
  /\ UNCHANGED <<g_return_count, g_if_count, g_inside_class, g_is_static, g_conditional_nesting>>

Asgn == AsgnOf(Calls[call].l)

\* L inside of a clause
Literal ==
  /\ Statement({"literal"})
  /\ buffers' = [buffers EXCEPT ![Outermost] =
                   Append(@, Line(g_left_margin, "literal", Calls[call].l, ""))]
  /\ Expanded(Calls[call].l)
  /\ clauses' = Subordinate
  /\ NextCall
  /\ UNCHANGED <<counts, margin, args, g_conditional_nesting>>

\* if_, else_, and I inside of a clause, up to the first subordinate statement
If ==
  /\ Statement({"if", "else"})
  /\ g_if_count' = g_if_count + 1
  /\ Made(<<"if", g_if_count>>, Line(g_left_margin, Calls[call].kind, Calls[call].l, ""))
  /\ IF Calls[call].kind = "if" THEN Expanded(Calls[call].l) ELSE UNCHANGED working_str
  /\ g_left_margin' = g_left_margin + 2
  /\ CountLine
  /\ clauses' = Append(IF clauses = <<>> THEN clauses ELSE Subordinate,
                       [slot |-> g_if_count, left |-> Calls[call].subs, margin |-> g_left_margin])
  /\ g_conditional_nesting' = g_conditional_nesting + 1
  /\ NextCall
  /\ UNCHANGED <<g_return_count, g_asgn_count, g_inside_class, g_is_static>>

\* Mutant: what follows a clause stands where its last statement left the margin.
EndClauseInside ==
  /\ ClauseIsDone
  /\ g_conditional_nesting' = g_conditional_nesting - 1
  /\ clauses' = Front(clauses)
  /\ UNCHANGED <<counts, margin, buffers, working_str, args, place, call, written>>

EndClause ==
  /\ ClauseIsDone
  /\ g_left_margin' = Last(clauses).margin
  /\ g_conditional_nesting' = g_conditional_nesting - 1
  /\ clauses' = Front(clauses)
  /\ UNCHANGED <<counts, g_inside_class, g_is_static, buffers, working_str, args,
                 place, call, written>>

(***************************************************************************)
(* Writing                                                                 *)
(***************************************************************************)
\* One "%s" for every line counted after the first.  vfprintf does not know how
\* many arguments it was given; what it reads behind them is no line.
Unknown == Line(0, "unknown", "", "")
Printed == FlattenSeq([i \in 1..g_lines_in_func |->
                         IF i <= Len(args) THEN buffers[args[i]] ELSE <<Unknown>>])

WriteFunctionLeaving(returns, ifs, assignments) ==
  /\ Alive /\ clauses = <<>> /\ call # 0 /\ call = Len(Calls) + 1
  /\ written' = Printed
  /\ g_lines_in_func' = 0
  /\ g_return_count' = returns /\ g_if_count' = ifs /\ g_asgn_count' = assignments
  /\ g_left_margin' = IF Sections[section].defs[def].unsupported THEN 0 ELSE g_left_margin
  /\ args' = <<>>
  /\ call' = 0 /\ def' = def + 1
  /\ UNCHANGED <<g_inside_class, g_is_static, nesting, buffers, working_str, section, inside>>

\* Mutant: the buffers of the clauses are not given back.
WriteFunctionKeepsIfs == WriteFunctionLeaving(0, g_if_count, 0)

WriteFunction == WriteFunctionLeaving(0, 0, 0)

(***************************************************************************)
(* The emit routines of translate.c: a section is left out if none of its  *)
(* definitions is flagged, each definition if it is not.                   *)
(***************************************************************************)
Here == Sections[section]
Open == section \in DOMAIN Sections /\ call = 0

SkipSection ==
  /\ Open /\ ~inside
  /\ section' = section + 1
  /\ UNCHANGED <<counts, margin, nesting, buffers, working_str, args, inside, def, call, written>>

\* cls and set_static
BeginSection ==
  /\ Open /\ ~inside
  /\ inside' = TRUE
  /\ IF Here.class = ""
     THEN UNCHANGED margin
     ELSE g_left_margin' = 0 /\ g_inside_class' = TRUE /\ g_is_static' = Here.static
  /\ UNCHANGED <<counts, nesting, buffers, working_str, args, section, def, call, written>>

StartDefinition ==
  /\ Open /\ inside /\ def \in DOMAIN Here.defs
  /\ call' = 1 /\ written' = <<>>
  /\ UNCHANGED <<counts, margin, nesting, buffers, working_str, args, place>>

SkipDefinition ==
  /\ Open /\ inside /\ def \in DOMAIN Here.defs /\ ~Here.defs[def].always
  /\ def' = def + 1 /\ written' = <<>>
  /\ UNCHANGED <<counts, margin, nesting, buffers, working_str, args, section, inside, call>>

\* end_cls
EndSection ==
  /\ Open /\ inside /\ def > Len(Here.defs)
  /\ section' = section + 1 /\ inside' = FALSE /\ def' = 1 /\ written' = <<>>
  /\ IF Here.class = ""
     THEN UNCHANGED margin
     ELSE g_left_margin' = 0 /\ g_inside_class' = FALSE /\ g_is_static' = FALSE
  /\ UNCHANGED <<counts, nesting, buffers, working_str, args, call>>

\* cleanup_dynamo, and nothing more
Finished == section > Len(Sections)
CleanupDynamo ==
  /\ Finished
  /\ g_left_margin' = 0 /\ g_return_count' = 0 /\ g_if_count' = 0 /\ g_asgn_count' = 0
  /\ g_lines_in_func' = 0 /\ g_conditional_nesting' = 0
  /\ g_inside_class' = FALSE /\ g_is_static' = FALSE
  /\ UNCHANGED <<clauses, buffers, working_str, args, place, call, written>>

Block == Def \/ Ret \/ Raise \/ Asgn \/ Literal \/ If \/ EndClause \/ WriteFunction
Emit == SkipSection \/ BeginSection \/ StartDefinition \/ SkipDefinition \/ EndSection

Next == Block \/ Emit \/ CleanupDynamo

Spec == Init /\ [][Next]_vars

-------------------------------------------------------------------------------
(***************************************************************************)
(* Properties                                                              *)
(***************************************************************************)
\* The values of the counters and margins; no clause is deeper than two in another.
TypeOK ==
  /\ {g_return_count, g_if_count, g_asgn_count} \subseteq 0..4
  /\ g_left_margin \in {0, 2, 4, 6, 8} /\ g_lines_in_func \in 0..5
  /\ g_conditional_nesting = Len(clauses) /\ Len(clauses) <= 2
  /\ g_inside_class \in BOOLEAN /\ g_is_static \in BOOLEAN
  /\ ToSet(args) \subseteq Pointers /\ DOMAIN buffers = Pointers
  /\ section \in 1..Len(Sections) + 1 /\ inside \in BOOLEAN

\* No definition of the prelude needs a fourth buffer of one kind, wherever its
\* returns, clauses and assignments stand: the assertions of dynamo.c hold,
\* whichever definitions were printed before.
PoolsSuffice == TypeOK /\ Alive

\* What a definition is meant to look like: its lines in the order made, each as
\* deep as it is nested.
Meant(section_, def_) ==
  LET base == IF Sections[section_].class = "" THEN 0 ELSE 2
      LinesOf(s) ==
        (IF s.kind = "def" /\ Sections[section_].static
         THEN <<Line(base, "static", "", "")>> ELSE <<>>)
          \o <<Line(base + 2 * s.depth, s.kind, s.l, s.r)>>
      calls == Sections[section_].defs[def_].calls
  IN  FlattenSeq([i \in DOMAIN calls |-> LinesOf(calls[i])])

\* Whichever definitions were printed before it, a definition is printed with
\* all of its lines, each once, with the text it was made with and as deep as it
\* is nested: no buffer was written again, no line was counted twice or not at all,
\* and no margin is left from another definition.
PrintedAsMeant ==
  [][call # 0 /\ call' = 0 => written' = Meant(section, def)]_vars
================================================================================
