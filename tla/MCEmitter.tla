------------------------------- MODULE MCEmitter -------------------------------
(* Emitter on every command tree of a small depth; after each of them comes a *)
(* second command, which would show what the first has left behind.           *)
EXTENDS Emitter

Node(type, redirects) == [type |-> type, not |-> FALSE, redirects |-> redirects]
Simple(kind, redirects) == Node("simple", redirects) @@ [kind |-> kind]
Body(type, c) == Node(type, <<>>) @@ [body |-> c]
Tested(type, t, c) == Node(type, <<>>) @@ [test |-> t, body |-> c]
If(type, t, c, e) == Node(type, <<>>) @@ [test |-> t, then |-> c, orelse |-> e]
Cond(operator) == Node("cond", <<>>) @@ [operator |-> operator]
Connect(k, a, b) == Node("connection", <<>>) @@ [connector |-> k, first |-> a, second |-> b]
CaseOf(w, c, d) == Node("case", <<>>) @@
  [word |-> w,
   clauses |-> <<[any |-> FALSE, body |-> c], [any |-> FALSE, body |-> d], [any |-> TRUE, body |-> c]>>]
Not(c) == [c EXCEPT !.not = TRUE]
Redirected(c, rs) == [c EXCEPT !.redirects = rs]

\* The commands that c is made of
Named(c) == SetToSeq({"body", "test", "then", "orelse", "first", "second"} \intersect DOMAIN c)

Parts(c) ==
  SelectSeq(IF c.type = "case" THEN [i \in DOMAIN c.clauses |-> c.clauses[i].body]
            ELSE [i \in DOMAIN Named(c) |-> c[Named(c)[i]]],
            LAMBDA part : part # NoCommand)

RECURSIVE Cases(_)
Cases(c) ==
  FoldLeft(LAMBDA n, part : n + Cases(part), IF c.type = "case" THEN 1 ELSE 0, Parts(c))

\* Cases in one another have different words.
Case(c, d) == CaseOf(IF c = NoCommand \/ Cases(c) = 0 THEN "$1" ELSE "$2", c, d)

X == Simple("assign", <<>>)
A == Simple("external", <<>>)
E == Simple("external", <<"dup">>)
W == Simple("word", <<>>)
And(c, d) == Connect("&&", c, d)
Then(c, d) == Connect(";", c, d)
Background(c) == Connect("&", c, NoCommand)

Define(c) == Body("function", Body("group", c))

(***************************************************************************)
(* The trees that the grammar of parse.y builds: connectives by precedence *)
(* and associating to the left, except that connect_async_list gives the   *)
(* "&" of "a; b &" to b alone.                                             *)
(***************************************************************************)
Rank(c) ==
  IF c.type # "connection" THEN 0
  ELSE IF c.connector = "|" THEN 1
  ELSE IF c.connector \in {"&&", "||"} THEN 2 ELSE 3

Closed(c) == c.type = "connection" => c.second # NoCommand

RECURSIVE Grammatical(_)
Grammatical(c) ==
  \/ c = NoCommand
  \/ c.type \in {"simple", "cond", "arith"}
  \/ /\ c.type \in {"for", "arith for", "subshell", "group", "select", "coproc", "while", "until"}
     /\ Grammatical(c.body)
     /\ c.type \in {"while", "until"} => Grammatical(c.test)
  \/ /\ c.type = "function"
     /\ c.body.type \notin {"simple", "connection", "function"} /\ Grammatical(c.body)
  \/ /\ c.type \in {"if", "elif"}
     /\ Grammatical(c.test) /\ Grammatical(c.then) /\ Grammatical(c.orelse)
  \/ c.type = "case" /\ \A i \in DOMAIN c.clauses : Grammatical(c.clauses[i].body)
  \/ /\ c.type = "connection"
     /\ c.first # NoCommand /\ Closed(c.first) /\ Rank(c.first) <= Rank(c)
     /\ Grammatical(c.first) /\ Grammatical(c.second)
     /\ c.connector = "&" => (Rank(c.first) = 3 => c.first.connector = "&")
     /\ \/ c.second = NoCommand /\ c.connector = "&"
        \/ c.second # NoCommand /\ Rank(c.second) < Rank(c)
        \/ c.second # NoCommand /\ c.connector = ";" /\ Rank(c.second) = 3
             /\ c.second.connector = "&" /\ Rank(c.second.first) < 3

Parsed(cs) == {c \in cs : Grammatical(c)}

\* The compound commands around c, whose blocks Python has
Blocks(c) ==
  {Body(t, c) : t \in {"for", "arith for", "subshell"}}
  \union {Tested(t, Cond("other"), c) : t \in {"while", "until"}}
  \union {If("if", Cond("other"), c, NoCommand), If("if", Cond("=~"), W, c)}

Wrapped(c) ==
  Blocks(c) \union {Body(t, c) : t \in {"coproc", "group", "select"}}
    \union {Define(c)}
    \union {Tested("while", c, W), If("if", c, W, W), Case(c, W)}

Connectors == {"|", "&", ";", "&&", "||"}
Joined(c, d) == {Connect(k, c, d) : k \in Connectors}

Level1(leaves) ==
  UNION {Wrapped(c) : c \in leaves}
    \union UNION {Joined(c, d) : c \in leaves, d \in leaves}
    \union {Background(c) : c \in leaves}

Level2(leaves) ==
  UNION {Wrapped(c) : c \in Level1(leaves)}
    \union UNION {Joined(c, d) \union Joined(d, c) : c \in Level1(leaves), d \in leaves}

\* elif and =~, here-documents, "!" and what prints nothing
Elifs ==
  {If("if", t, W, If("elif", u, X, If("elif", v, W, e))) :
     t \in {A, Cond("=~")}, u \in {A, Cond("=~")}, v \in {A, Cond("=~")}, e \in {NoCommand, X}}

Others ==
  {Connect(k, Redirected(Body("group", A), rs), c) :
     k \in Connectors, rs \in {<<"here">>, <<"file", "here2", "here">>, <<"dup word">>},
     c \in {X, Simple("external", <<"file", "here2">>)}}
  \union {Body("function", Redirected(Body("group", c), rs)) :
     c \in {A, Background(A)}, rs \in {<<"file">>, <<"here">>}}
  \union {Not(c) : c \in {A, Cond("other"), Connect("|", A, A), Body("subshell", A)}}
  \union {Tested("while", Redirected(Body("group", A), <<"here">>), X)}
  \union {Tested("while", Then(Define(Then(A, X)), X), X), And(Define(Then(A, X)), X)}
  \union {Cond("=~"), Node("arith", <<>>), Simple("none", <<"file">>), Case(NoCommand, A)}
  \union {Then(Redirected(Body("group", Redirected(Body("subshell", A), <<"here2">>)), <<"here">>), X)}
  \union {Connect(k, c, Redirected(d, <<"here">>)) :
     k \in Connectors, c \in {A, Redirected(Body("group", X), <<"here2">>)},
     d \in {Body("group", X), Body("for", A), A}}
  \union {Connect(k, c, Body("function", Redirected(Body("group", A), <<"here">>))) :
     k \in Connectors, c \in {A, Redirected(Body("group", X), <<"here2">>)}}
  \union {Then(Body("function", Redirected(Body("group", A), <<"here">>)), c) :
     c \in {A, Redirected(Body("for", A), <<"here2">>)}}
  \union {Body("for", Connect(k, Redirected(Body("for", A), <<"here">>), Simple("external", <<"here2">>))) :
     k \in Connectors}
  \union {Connect(k, CaseOf("$1", A, W), CaseOf("$2", W, A)) : k \in Connectors}
  \union {Case(Then(Case(A, W), X), Define(Case(A, X)))}
  \union {Then(Body("group", Redirected(Body("for", c), <<"here">>)), X) : c \in {A, X}}
  \union {Then(Then(c, A), X) : c \in {A, Redirected(A, <<"here">>), Redirected(Body("for", A), <<"here">>)}}

Followed(cs) == {<<c, X>> : c \in Parsed(cs)}

(***************************************************************************)
(* Pipes in and next to pipes                                              *)
(***************************************************************************)
Piped(cs, ds) ==
  {Connect(k, c, d) : k \in {"|", ";"}, c \in cs, d \in ds}
    \union {Body("subshell", c) : c \in cs} \union {Define(c) : c \in cs}
    \union {Background(c) : c \in cs}
Pipes1 == Piped({E}, {E})
Pipes2 == Piped(Pipes1 \union {E}, Pipes1 \union {E})
PipePrograms == {<<c>> : c \in Parsed(Piped(Pipes2, Pipes1 \union {E}) \union Piped(Pipes1, Pipes2))}

(***************************************************************************)
(* A condition whose root has no operator, wherever a command may stand    *)
(***************************************************************************)
N == Cond("NULL")

FaultElifs ==
  {If("if", t, c, If("elif", u, c, If("elif", v, W, NoCommand))) :
     t \in {A, Cond("=~"), N}, u \in {A, Cond("=~")}, v \in {A, N}, c \in {W, N}}
Faulty1 ==
  {N} \union Level1({N}) \union Joined(N, A) \union Joined(A, N)
    \union {Tested(t, N, c) : t \in {"while", "until"}, c \in {A, Then(A, N)}}
    \union {If("if", N, W, W), Define(Then(A, N)), Body("function", N), Then(A, Then(A, N))}
    \union FaultElifs
FaultPrograms ==
  Followed(Faulty1 \union UNION {Wrapped(c) \union Joined(c, A) \union Joined(A, c) : c \in Faulty1})

(***************************************************************************)
(* Scripts whose layout is Python's: an operand on the left of && or || is *)
(* a command of one line, no function consists of definitions alone, and   *)
(* none of them holds a group.                                             *)
(***************************************************************************)
Nests(cs) ==
  UNION {Blocks(c) \union {Case(c, W), Define(Then(c, A)), Background(c)} : c \in cs}
    \union {Connect(k, A, c) : k \in Connectors, c \in cs}
    \union {Connect(k, c, A) : k \in {"|", "&", ";"}, c \in cs}
Nested1 == Nests({A, X})
LayoutPrograms == Followed(Nested1 \union Nests(Nested1) \union Elifs
                             \union {Body("group", c) : c \in Nested1})

MCPrograms ==
  Followed(Level2({X, A}) \union Elifs \union Others)
    \union PipePrograms \union LayoutPrograms \union FaultPrograms

\* What these scripts become has the layout of Python.
PlainScriptsHaveLayout == script \in LayoutPrograms => PythonLayout

(***************************************************************************)
(* Here documents                                                          *)
(***************************************************************************)
RECURSIVE Subtrees(_)
Subtrees(c) == {c} \union UNION {Subtrees(part) : part \in Range(Parts(c))}

\* The "!" of a connection is moved to its second command.
MCCommands ==
  LET trees == UNION {UNION {Subtrees(cs[i]) : i \in DOMAIN cs} : cs \in MCPrograms}
  IN  trees \union {Not(c.second) : c \in {d \in trees : d.type = "connection" /\ d.not}}

\* A function that is defined by an operand of a connection other than ";"
IsDropped(c, part) == c.type = "connection" /\ c.connector # ";" /\ part.type = "function"

RECURSIVE Documents(_)
Documents(c) ==
  (Range(c.redirects) \intersect HereDocument)
     \union UNION {Documents(part) : part \in {p \in Range(Parts(c)) : ~IsDropped(c, p)}}

\* The text of every here document is written, although lists of them are
\* deferred, dropped and overwritten by others.  Exception: the document of a
\* function that is defined by an operand of &&, ||, | or &.
HereDocumentsPrinted ==
  AtRest /\ at = Len(script) =>
    \A i \in DOMAIN script : \A d \in Documents(script[i]) :
      \E k \in DOMAIN output : output[k].tok = d

\* Every else and elif continues an if of its level, in these scripts, if they
\* have at most one case: the second one begins with elif, because
\* first_if_clause is never set again.
BranchesHaveIf ==
  script \in LayoutPrograms /\ FoldLeft(LAMBDA n, c : n + Cases(c), 0, script) <= 1 => ElseHasIf

\* How many clauses of c, other than the last resort, test the word w
RECURSIVE Tests(_, _)
Tests(c, w) ==
  FoldLeft(LAMBDA n, part : n + Tests(part, w),
           IF c.type = "case" /\ c.word = w THEN Len(SelectSeq(c.clauses, LAMBDA v : ~v.any)) ELSE 0,
           Parts(c))

CaseInCase(c) == \E d \in Subtrees(c) : d.type = "case" /\ Cases(d) > 1

\* Every clause of a case tests the word of its own case, in any order of cases, unless
\* one stands in a clause of another: then the clauses that follow it test its word.
CasesTestTheirWord ==
  AtRest /\ at = Len(script) /\ (\A i \in DOMAIN script : ~CaseInCase(script[i])) =>
    \A w \in CaseWord :
      Cardinality({i \in DOMAIN output : output[i].tok = w})
        = FoldLeft(LAMBDA n, c : n + Tests(c, w), 0, script)

\* What is printed before or after a command agrees with what the command is.
StatementsWellPlaced == AssignmentsAreStatements /\ BranchesHaveIf /\ CasesTestTheirWord

\* print_if_command reads the operator of its test, emit_command that of a condition that
\* is a statement.  free: embedded in nothing; fresh: nothing of its line is printed.
RECURSIVE Faults(_, _, _)
Faults(c, free, fresh) ==
  IF c = NoCommand THEN FALSE
  ELSE IF c.type = "cond" THEN fresh /\ IsNull(c)
  ELSE IF c.type = "function"
  THEN Faults(IF c.body.type = "group" THEN c.body.body ELSE c.body, TRUE, FALSE)
  ELSE IF c.type = "connection"
  THEN Faults(c.first, free, FALSE)
         \/ Faults(c.second, free, free /\ c.connector \in {";", "&"})
  ELSE \/ c.type \in {"if", "elif"} /\ IsNull(c.test)
       \/ \E part \in Range(Parts(c)) : Faults(part, FALSE, FALSE)

\* The translation of every script ends with its last command: no OUTDENT meets its
\* assertion.  Exception: a [[ ... ]] of &&, || or ( ) ends the program where it is a
\* statement or the test of an if or elif, and there only.
TranslationEnds ==
  <>(IF \E i \in DOMAIN script : Faults(script[i], TRUE, TRUE) THEN On("fault")
     ELSE AtRest /\ at = Len(script))
===============================================================================
