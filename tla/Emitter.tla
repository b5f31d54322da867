-------------------------------- MODULE Emitter --------------------------------
(***************************************************************************)
(* translate.c, emit_command: the recursive printer of command trees.      *)
(*                                                                         *)
(* What a command prints depends on where it stands, and where it stands   *)
(* is kept in globals: g_started and g_embedded decide whether a command   *)
(* is a statement ("x=Bash2Py(1)", "_rc0 = ...") or part of a condition    *)
(* ("Make("x").setValue(1)"), g_printing_connection numbers nested pipes,  *)
(* g_stdout_connection is the pipe that standard output goes to, and the   *)
(* indentation level belongs to whichever buffer is g_output.  Each        *)
(* routine changes some of them, calls emit_command for a part, and counts *)
(* on finding them as it left them.                                        *)
(*                                                                         *)
(* The C stack is the sequence ops of what remains to be done.  The text   *)
(* is a sequence of tokens; a token that begins a line has the level of    *)
(* indentation that burp gave it.  Heads and arguments of commands (words, *)
(* expressions, patterns, declarations of globals) are single tokens.      *)
(***************************************************************************)
EXTENDS Integers, Sequences, SequencesExt

CONSTANTS
  Programs,     \* the scripts: sequences of command trees
  Commands,     \* the trees, and all that they consist of
  NoCommand     \* a NULL command

OrNone == Commands \union {NoCommand}

\* Two words of case commands that can be told apart, as tokens.
CaseWord == {"$1", "$2"}
NoWord == "no word"

\* Two here documents that can be told apart; their text is a token of that name.
\* "dup" is 2>&1, "dup word" is >&word.
HereDocument == {"here", "here2"}
Redirection == HereDocument \union {"file", "dup", "dup word"}

Clause == [any : BOOLEAN, body : OrNone]

\* The root of [[ ... ]]: &&, || and ( ) are nodes without an operator.
Operator == {"=~", "other", "NULL"}

\* The parts that the parser gives a command of each type (command.h).
WellFormed(c) ==
  /\ c.redirects \in Seq(Redirection)
  /\ c.type \in {"for", "arith for", "select", "while", "until", "group", "subshell", "coproc",
                 "function"} => c.body \in OrNone
  /\ c.type = "function" => c.body # NoCommand
  /\ c.type \in {"while", "until", "if", "elif"} => c.test \in OrNone
  /\ c.type \in {"if", "elif"} => c.then \in OrNone /\ c.orelse \in OrNone
  /\ c.type = "cond" => c.operator \in Operator
  /\ c.type = "case" => c.word \in CaseWord /\ c.clauses \in Seq(Clause)
  /\ c.type = "connection" =>
       /\ c.first \in OrNone /\ c.second \in OrNone
       /\ c.not => [c.second EXCEPT !.not = TRUE] \in OrNone

ASSUME CommandsAssumption ==
  /\ Programs \subseteq Seq(Commands) /\ NoCommand \notin Commands
  /\ \A c \in Commands : WellFormed(c)

VARIABLES
  script,       \* the commands that are read
  at,           \* how many of them have been read
  ops,          \* the C stack
  output,       \* the text and level of g_output
  indent,
  save,         \* the text and level of save
  saveIndent,
  inside,       \* g_is_inside_function
  later,        \* the queue of inner functions
  embedded,     \* g_embedded
  started,      \* g_started
  printing,     \* g_printing_connection
  stdout,       \* g_stdout_connection
  deferred,     \* g_deferred_heredocs
  wasHeredoc,   \* g_was_heredoc
  firstClause,  \* first_if_clause of print_case_clauses
  caseVar,      \* g_case_var
  threads       \* m_threading

place == <<embedded, started, printing, stdout>>
function == <<save, saveIndent, inside, later>>
heredocs == <<deferred, wasHeredoc>>
counters == <<firstClause, caseVar, threads>>
input == <<script, at>>
vars == <<input, ops, output, indent, function, place, heredocs, counters>>

Init ==
  /\ script \in Programs /\ at = 0
  /\ ops = <<>>
  /\ output = <<>> /\ indent = 0
  /\ save = <<>> /\ saveIndent = 0 /\ inside = FALSE /\ later = <<>>
  /\ embedded = 0 /\ started = 0 /\ printing = 0 /\ stdout = 0
  /\ deferred = <<>> /\ wasHeredoc = FALSE
  /\ firstClause = TRUE /\ caseVar = NoWord /\ threads = 0

(***************************************************************************)
(* Text                                                                    *)
(***************************************************************************)
MidLine == -1
Blank == {"\n", " "}

\* A function's body begins with four spaces that no indentation precedes.
ColumnAfter(kind) == IF kind = "\n" THEN indent ELSE MidLine
Column(text) ==
  IF text = <<>> THEN (IF inside THEN 1 ELSE 0) ELSE ColumnAfter(Last(text).tok)

Token(kind, n, col) == [tok |-> kind, n |-> n, col |-> col]

\* The number that goes with a token: a pipe's, or a thread's.
NumberOf(kind) ==
  IF kind \in {"pipe", "reader", "writer"} THEN printing
  ELSE IF kind = "stderr" THEN stdout
  ELSE IF kind \in {"def thread", "start"} THEN threads ELSE 0

Written(text, kinds) ==
  text \o [i \in DOMAIN kinds |->
             Token(kinds[i], NumberOf(kinds[i]),
                   IF i = 1 THEN Column(text) ELSE ColumnAfter(kinds[i - 1]))]

Write(kinds) == output' = Written(output, kinds)

(***************************************************************************)
(* The C stack.  The operations named here that are not actions of their   *)
(* own below are the statements that the name says.                        *)
(***************************************************************************)
Put(kinds) == IF kinds = <<>> THEN <<>> ELSE <<[op |-> "put", kinds |-> kinds]>>
Emit(c) == <<[op |-> "emit", c |-> c]>>
Do(name) == <<[op |-> name]>>
With(name, v) == <<[op |-> name, v |-> v]>>
Test(c) == Emit(c) \o Do("trim")
Block(c) == Do("indent") \o Emit(c) \o Do("heredocs") \o Do("outdent")

On(name) == ops # <<>> /\ Head(ops).op = name
Goto(new) == ops' = new \o Tail(ops)
Return == ops' = Tail(ops)

(***************************************************************************)
(* Redirections                                                            *)
(***************************************************************************)
\* handle_redirection_list
Handled(redirects) ==
  FlattenSeq([i \in DOMAIN redirects |->
    IF redirects[i] \in HereDocument THEN <<"print '''", "\n", redirects[i]>>
    ELSE IF redirects[i] = "dup word" THEN <<"os.dup2", "\n">>
    ELSE <<"redirection">>])

Selected(redirects, S) ==
  FlattenSeq([i \in DOMAIN redirects |-> IF redirects[i] \in S THEN <<redirects[i]>> ELSE <<>>])

HereDocs(redirects) == Selected(redirects, HereDocument)

\* print_redirection_list, print_heredocs
PrintRedirectionList(redirects) ==
  LET others == Len(redirects) - Len(HereDocs(redirects))
      shown == [i \in 1..others |-> "redirection"]
      bodies == FlattenSeq([i \in DOMAIN HereDocs(redirects) |->
                              <<"print '''", "\n", HereDocs(redirects)[i], "\n">>])
  IN  IF HereDocs(redirects) = <<>>
      THEN Write(shown) /\ wasHeredoc' = FALSE /\ UNCHANGED deferred
      ELSE IF printing > 0
      THEN Write(shown) /\ wasHeredoc' = FALSE /\ deferred' = HereDocs(redirects)
      ELSE Write(shown \o bodies) /\ wasHeredoc' = TRUE /\ UNCHANGED deferred

\* print_deferred_heredocs: neither of its callers' connectors is printed.
PrintDeferredHeredocs ==
  /\ Write([i \in DOMAIN deferred |-> "print '''"] \o <<"\n">>
             \o FlattenSeq([i \in DOMAIN deferred |-> <<deferred[i], "\n">>]))
  /\ wasHeredoc' = TRUE
  /\ deferred' = <<>>

\* PRINT_DEFERRED_HEREDOCS("")
DeferredHeredocs ==
  /\ On("heredocs")
  /\ IF deferred = <<>> THEN UNCHANGED <<output, heredocs>>
     ELSE PrintDeferredHeredocs
  /\ Return
  /\ UNCHANGED <<input, indent, function, place, counters>>

(***************************************************************************)
(* emit_command                                                            *)
(***************************************************************************)
At(types) == On("emit") /\ Head(ops).c # NoCommand /\ Head(ops).c.type \in types
Command == Head(ops).c

\* The beginning and the end that all commands share around their own plan.
\* Redirections of a simple command are its own affair.
Around(c, plan) ==
  /\ started' = started + 1
  /\ Goto(Put(IF c.type = "simple" THEN <<>> ELSE Handled(c.redirects))
            \o Put(IF c.not /\ c.type \notin {"simple", "connection"} THEN <<"not">> ELSE <<>>)
            \o plan
            \o <<[op |-> "return", embedded |-> embedded,
                  redirects |-> IF c.type = "simple" THEN <<>> ELSE c.redirects]>>)
  /\ UNCHANGED <<input, output, indent, function, printing, stdout, heredocs>>

\* A compound command embeds its parts.
Embeds(c, plan) == Around(c, plan) /\ embedded' = embedded + 1
Embedding(c, plan) == Embeds(c, plan) /\ UNCHANGED counters

\* Arithmetic, conditions and connections do not.
Transparent(c, plan) ==
  Around(c, plan) /\ UNCHANGED embedded /\ UNCHANGED counters

EmitNull ==
  /\ On("emit") /\ Command = NoCommand
  /\ Return
  /\ UNCHANGED <<input, output, indent, function, place, heredocs, counters>>

EmitReturn ==
  /\ On("return")
  /\ embedded' = Head(ops).embedded
  /\ IF Head(ops).redirects = <<>> THEN UNCHANGED <<output, heredocs>>
     ELSE PrintRedirectionList(Head(ops).redirects)
  /\ Return
  /\ UNCHANGED <<input, indent, function, started, printing, stdout, counters>>

\* print_simple_command.  n is g_started; "none" has no words, "word" is a
\* built-in or a function of the script, "external" anything else.
Prefix(n) == IF n < 2 THEN <<"_rc =">> ELSE <<>>

\* Mutant: a test counts as a statement.
AssignmentLate(n) == IF n > 2 THEN <<"setValue">> ELSE <<"assign">>

\* print_assignment_command
Assignment(n) == IF n > 1 THEN <<"setValue">> ELSE <<"assign">>

SimpleText(c, n) ==
  IF c.kind = "none" THEN <<>>
  ELSE IF c.kind = "assign" THEN Assignment(n)
  ELSE IF c.kind = "word" THEN <<"word">>
  ELSE Prefix(n)
         \o (IF c.not THEN <<"not">> ELSE <<>>)
         \o <<"call">>
         \o [i \in DOMAIN Selected(c.redirects, {"dup"}) |-> "stderr"]
         \o (IF c.redirects = <<>> THEN <<>> ELSE <<"\n">>)
         \o FlattenSeq([i \in DOMAIN HereDocs(c.redirects) |->
                          <<"communicate", "\n", "wait">>])

EmitSimple ==
  /\ At({"simple"})
  /\ Embedding(Command,
       Put(SimpleText(Command, started + 1)) \o Put(Handled(Command.redirects)))

\* (( ... )) and [[ ... ]]
EmitArith == At({"arith"}) /\ Transparent(Command, Put(<<"expression">>))

\* The operator of a condition is read: strcmp(..Cond->op->word, "=~")
IsNull(c) == c.type = "cond" /\ c.operator = "NULL"
ReadOperator(c) == IF IsNull(c) THEN Do("fault") ELSE <<>>

EmitCond ==
  /\ At({"cond"})
  /\ Transparent(Command,
       (IF started > 0 THEN <<>>
        ELSE ReadOperator(Command)
               \o Put(IF Command.operator = "=~" THEN <<"match =">> ELSE <<"_rc =">>))
         \o Put(<<"condition">>))

EmitFor == At({"for"}) /\ Embedding(Command, Put(<<"for", ":", "\n">>) \o Block(Command.body))

EmitArithFor ==
  /\ At({"arith for"})
  /\ Embedding(Command,
       Put(<<"expression", "\n", "while", ":", "\n">>) \o Do("indent") \o Emit(Command.body)
         \o Put(<<"\n", "expression">>) \o Do("outdent"))

EmitSelect ==
  /\ At({"select"})
  /\ Embedding(Command,
       Put(<<"select", "\n", "do", "\n">>) \o Block(Command.body) \o Put(<<"\n", "done">>))

EmitWhile ==
  /\ At({"while"})
  /\ Embedding(Command,
       Put(<<"while">>) \o Test(Command.test) \o Put(<<":", "\n">>) \o Do("heredocs")
         \o Block(Command.body))

EmitUntil ==
  /\ At({"until"})
  /\ Embedding(Command,
       Put(<<"while", ":", "\n">>) \o Do("heredocs") \o Do("indent") \o Emit(Command.body)
         \o Put(<<"\n", "if">>) \o Test(Command.test) \o Put(<<":", "\n">>)
         \o Do("indent") \o Put(<<"break">>) \o Do("outdent") \o Do("heredocs") \o Do("outdent"))

EmitCase ==
  /\ At({"case"})
  /\ Embeds(Command, FlattenSeq([i \in DOMAIN Command.clauses |->
       With("clause", Command.clauses[i])
         \o Do("indent") \o Emit(Command.clauses[i].body) \o Do("outdent") \o Do("heredocs")]))
  /\ caseVar' = Command.word
  /\ UNCHANGED <<firstClause, threads>>

\* Mutant: the flag is lowered before it is looked at.
CaseClauseLate ==
  /\ On("clause")
  /\ Write(IF Head(ops).v.any THEN <<"\n", "else", ":", "\n">>
           ELSE <<"\n", "elif", caseVar, ":", "\n">>)
  /\ firstClause' = FALSE
  /\ Return
  /\ UNCHANGED <<input, indent, function, place, heredocs, caseVar, threads>>

\* The head of one clause: first_if_clause is static.
CaseClause ==
  /\ On("clause")
  /\ IF Head(ops).v.any
     THEN Write(<<"\n", "else", ":", "\n">>) /\ UNCHANGED firstClause
     ELSE /\ Write(<<"\n", IF firstClause THEN "if" ELSE "elif", caseVar, ":", "\n">>)
          /\ firstClause' = FALSE
  /\ Return
  /\ UNCHANGED <<input, indent, function, place, heredocs, caseVar, threads>>

EmitGroup ==
  /\ At({"group"})
  /\ Embedding(Command,
       IF inside
       THEN Put(<<"\n">>) \o Do("indent") \o Emit(Command.body) \o Put(<<"\n">>) \o Do("outdent")
       ELSE Emit(Command.body) \o Put(<<" ">>))

EmitSubshell ==
  At({"subshell"}) /\ Embedding(Command, Put(<<"(">>) \o Emit(Command.body) \o Put(<<")">>))

EmitCoproc ==
  /\ At({"coproc"})
  /\ Embedding(Command,
       Put(<<"coproc", "\n">>) \o Do("indent") \o Emit(Command.body) \o Do("outdent"))

(***************************************************************************)
(* if: regmatch_in_progress says that the test has been printed, extra     *)
(* counts the levels that elif with =~ has added.                          *)
(***************************************************************************)
IsRegmatch(c) == c.test.type = "cond" /\ c.test.operator = "=~"

Matching(c) == Put(<<"match =">>) \o Test(c.test) \o Put(<<"\n", "if">>)

RestartIf(c, extra) == <<[op |-> "if", c |-> c, extra |-> extra]>>

EmitIf ==
  /\ At({"if"})
  /\ Embedding(Command,
       ReadOperator(Command.test)
         \o (IF IsRegmatch(Command) THEN Matching(Command) ELSE Put(<<"if">>))
         \o RestartIf(Command, 0))

\* Mutant: the levels that elif has added are kept.
IfBranchesForget ==
  /\ On("if")
  /\ LET c == Head(ops).c
         extra == Head(ops).extra
         elseIf == c.orelse # NoCommand /\ c.orelse.type = "elif"
     IN  Goto((IF IsRegmatch(c) THEN <<>> ELSE Test(c.test))
                \o Put(<<":", "\n">>) \o Block(c.then)
                \o (IF ~elseIf
                    THEN IF c.orelse = NoCommand THEN <<>>
                         ELSE Put(<<"\n", "else", ":", "\n">>) \o Block(c.orelse)
                    ELSE ReadOperator(c.orelse.test)
                         \o (IF IsRegmatch(c.orelse)
                             THEN Put(<<"\n", "else", ":", "\n">>) \o Do("indent")
                                    \o Matching(c.orelse) \o RestartIf(c.orelse, extra + 1)
                             ELSE Put(<<"\n", "elif">>) \o RestartIf(c.orelse, extra))))
  /\ UNCHANGED <<input, output, indent, function, place, heredocs, counters>>

IfBranches ==
  /\ On("if")
  /\ LET c == Head(ops).c
         extra == Head(ops).extra
         elseIf == c.orelse # NoCommand /\ c.orelse.type = "elif"
     IN  Goto((IF IsRegmatch(c) THEN <<>> ELSE Test(c.test))
                \o Put(<<":", "\n">>) \o Block(c.then)
                \o (IF ~elseIf
                    THEN (IF c.orelse = NoCommand THEN <<>>
                          ELSE Put(<<"\n", "else", ":", "\n">>) \o Block(c.orelse))
                         \o FlattenSeq([i \in 1..extra |-> Do("outdent")])
                    ELSE ReadOperator(c.orelse.test)
                         \o (IF IsRegmatch(c.orelse)
                             THEN Put(<<"\n", "else", ":", "\n">>) \o Do("indent")
                                    \o Matching(c.orelse) \o RestartIf(c.orelse, extra + 1)
                             ELSE Put(<<"\n", "elif">>) \o RestartIf(c.orelse, extra))))
  /\ UNCHANGED <<input, output, indent, function, place, heredocs, counters>>

(***************************************************************************)
(* Connections                                                             *)
(***************************************************************************)
DropHeredocs == Do("drop")

Condition(first, second, opening) ==
  DropHeredocs \o Put(opening) \o Emit(first) \o Put(<<":">>) \o Do("indent")
    \o Put(<<"\n">>) \o Emit(second) \o Do("outdent")

ConnectionPlan(c, second) ==
  IF c.connector = "|"
  THEN Do("prefix") \o DropHeredocs \o Put(<<"pipe", "\n", "if", ":", "\n">>)
         \o Do("indent") \o Put(<<"reader", "\n">>) \o Emit(second)
         \o Put(<<"\n">>) \o Do("outdent")
         \o Put(<<"else", ":", "\n">>) \o Do("indent") \o Put(<<"writer", "\n">>)
         \o With("writer", c.first)
         \o Put(<<"\n", "sys.exit", "\n">>) \o Do("outdent")
  ELSE IF c.connector = "&"
  THEN Do("prefix") \o With("async", c.first)
         \o (IF second = NoCommand THEN <<>>
             ELSE Put(<<"\n">>) \o Do("fresh") \o Emit(second) \o Put(<<"\n">>))
  ELSE IF c.connector = ";"
  THEN Do("prefix") \o Emit(c.first) \o Do("separate") \o Do("fresh") \o Emit(second)
         \o Do("heredocs")
  ELSE Condition(c.first, second, IF c.connector = "&&" THEN <<"if">> ELSE <<"if", "not">>)

\* "!" before a connection is a "!" before its second command.
EmitConnection ==
  /\ At({"connection"})
  /\ Transparent(Command,
       Do("++printing")
         \o ConnectionPlan(Command, IF Command.not THEN [Command.second EXCEPT !.not = TRUE]
                                    ELSE Command.second)
         \o Do("--printing"))

Fresh ==
  /\ On("fresh")
  /\ started' = IF embedded = 0 THEN 0 ELSE started
  /\ Return
  /\ UNCHANGED <<input, output, indent, function, embedded, printing, stdout, heredocs, counters>>

WritePrefix ==
  /\ On("prefix")
  /\ Write(Prefix(started))
  /\ Return
  /\ UNCHANGED <<input, indent, function, place, heredocs, counters>>

\* Mutant: what was deferred is forgotten.
SeparateForgets ==
  /\ On("separate")
  /\ deferred' = <<>>
  /\ IF wasHeredoc THEN wasHeredoc' = FALSE /\ UNCHANGED output
     ELSE Write(<<"\n">>) /\ UNCHANGED wasHeredoc
  /\ Return
  /\ UNCHANGED <<input, indent, function, place, counters>>

\* Between the two commands of a ";"
Separate ==
  /\ On("separate")
  /\ IF deferred # <<>> THEN PrintDeferredHeredocs
     ELSE IF wasHeredoc THEN wasHeredoc' = FALSE /\ UNCHANGED <<output, deferred>>
     ELSE Write(<<"\n">>) /\ UNCHANGED heredocs
  /\ Return
  /\ UNCHANGED <<input, indent, function, place, counters>>

Drop ==
  /\ On("drop")
  /\ deferred' = <<>>
  /\ Return
  /\ UNCHANGED <<input, output, indent, function, place, wasHeredoc, counters>>

\* Mutant: the count is not restored.
CountConnectionUp ==
  /\ On("++printing") \/ On("--printing")
  /\ printing' = IF On("++printing") THEN printing + 1 ELSE printing
  /\ Return
  /\ UNCHANGED <<input, output, indent, function, embedded, started, stdout, heredocs, counters>>

\* Mutant: the count is not raised.
CountConnectionDown ==
  /\ On("++printing") \/ On("--printing")
  /\ printing' = IF On("++printing") THEN printing ELSE printing - 1
  /\ Return
  /\ UNCHANGED <<input, output, indent, function, embedded, started, stdout, heredocs, counters>>

CountConnection ==
  /\ On("++printing") \/ On("--printing")
  /\ printing' = IF On("++printing") THEN printing + 1 ELSE printing - 1
  /\ Return
  /\ UNCHANGED <<input, output, indent, function, embedded, started, stdout, heredocs, counters>>

\* Mutant: what follows the first command still goes to the pipe.
RestoreNothing ==
  /\ On("restore stdout")
  /\ Return
  /\ UNCHANGED <<input, output, indent, function, place, heredocs, counters>>

\* The first command of a pipe writes to it.
Writer ==
  /\ On("writer")
  /\ stdout' = printing
  /\ Goto(Emit(Head(ops).v) \o With("restore stdout", stdout))
  /\ UNCHANGED <<input, output, indent, function, embedded, started, printing, heredocs, counters>>

RestoreStdout ==
  /\ On("restore stdout")
  /\ stdout' = Head(ops).v
  /\ Return
  /\ UNCHANGED <<input, output, indent, function, embedded, started, printing, heredocs, counters>>

\* print_async_command: "Don't need a thread to start threads"
Async ==
  /\ On("async")
  /\ LET c == Head(ops).v
     IN  IF c.type = "connection" /\ c.connector = "&" /\ c.second = NoCommand
         THEN /\ Goto(Emit(c) \o Put(<<"\n">>))
              /\ UNCHANGED <<heredocs, threads>>
         ELSE /\ threads' = threads + 1
              /\ deferred' = <<>> /\ UNCHANGED wasHeredoc
              /\ Goto(Put(<<"def thread", ":", "\n">>) \o Do("indent") \o Emit(c)
                        \o Put(<<"\n">>) \o Do("outdent") \o With("start", threads + 1))
  /\ UNCHANGED <<input, output, indent, function, place, firstClause, caseVar>>

StartThread ==
  /\ On("start")
  /\ output' = Append(output, Token("start", Head(ops).v, Column(output))) \o <<Token("\n", 0, MidLine)>>
  /\ Return
  /\ UNCHANGED <<input, indent, function, place, heredocs, counters>>

(***************************************************************************)
(* Function definitions (FunctionSchedule has the rest of this)            *)
(***************************************************************************)
EmitFunctionDef ==
  /\ At({"function"})
  /\ Embedding(Command, With("function", Command.body))

\* Only the outermost definition is printed now.
FunctionSubtree ==
  /\ On("function")
  /\ IF inside
     THEN later' = Append(later, Head(ops).v) /\ Return
     ELSE Goto(With("print function", Head(ops).v) \o Do("service queue")) /\ UNCHANGED later
  /\ UNCHANGED <<input, output, indent, save, saveIndent, inside, place, heredocs, counters>>

PrintFunction ==
  /\ On("print function")
  /\ LET body == Head(ops).v
         isGroup == body.type = "group"
     IN  Goto(Emit(IF isGroup THEN body.body ELSE body)
                \o Put(<<"\n">>) \o Do("outdent") \o Put(<<"\n">>)
                \o With("end function", IF isGroup THEN body.redirects ELSE <<>>))
  /\ embedded' = 0
  /\ save' = Written(output, <<"def">>) /\ output' = <<>>
  /\ indent' = saveIndent + 1 /\ saveIndent' = indent
  /\ inside' = TRUE
  /\ UNCHANGED <<input, later, started, printing, stdout, heredocs, counters>>

\* Mutant: the body keeps the level it was given in its own buffer.
IndentedNot(text, by) == text

\* burps(&save, g_output.m_P): every line of the body is indented again
Indented(text, by) ==
  [i \in DOMAIN text |-> IF text[i].col = MidLine THEN text[i]
                         ELSE [text[i] EXCEPT !.col = @ + by]]

EndFunction ==
  /\ On("end function")
  /\ output' = save \o <<Token(":", 0, MidLine), Token("\n", 0, MidLine)>>
                 \o Indented(output, saveIndent)
  /\ save' = output
  /\ indent' = saveIndent /\ saveIndent' = indent
  /\ inside' = FALSE
  /\ Goto(IF Head(ops).v = <<>> THEN <<>> ELSE With("redirections", Head(ops).v))
  /\ UNCHANGED <<input, later, place, heredocs, counters>>

FunctionRedirections ==
  /\ On("redirections")
  /\ PrintRedirectionList(Head(ops).v)
  /\ Return
  /\ UNCHANGED <<input, indent, function, place, counters>>

\* Mutant: the loop does not see that the queue is empty.
ServiceQueueSpins ==
  /\ On("service queue")
  /\ IF later = <<>> THEN UNCHANGED <<ops, later>>
     ELSE /\ Goto(With("print function", Head(later)) \o Do("service queue"))
          /\ later' = Tail(later)
  /\ UNCHANGED <<input, output, indent, save, saveIndent, inside, place, heredocs, counters>>

ServiceQueue ==
  /\ On("service queue")
  /\ IF later = <<>> THEN Return /\ UNCHANGED later
     ELSE /\ Goto(With("print function", Head(later)) \o Do("service queue"))
          /\ later' = Tail(later)
  /\ UNCHANGED <<input, output, indent, save, saveIndent, inside, place, heredocs, counters>>

(***************************************************************************)
(* The plain statements                                                    *)
(***************************************************************************)
WriteTokens ==
  /\ On("put")
  /\ Write(Head(ops).kinds)
  /\ Return
  /\ UNCHANGED <<input, indent, function, place, heredocs, counters>>

\* OUTDENT asserts that there is a level to leave.
Indentation ==
  /\ On("indent") \/ (On("outdent") /\ indent > 0)
  /\ indent' = IF On("indent") THEN indent + 1 ELSE indent - 1
  /\ Return
  /\ UNCHANGED <<input, output, function, place, heredocs, counters>>

\* emit_embedded_command: a test ends where its text does.
Trim ==
  /\ On("trim")
  /\ \E n \in 0..Len(output) :
       /\ n > 0 => output[n].tok \notin Blank
       /\ \A i \in (n + 1)..Len(output) : output[i].tok \in Blank
       /\ output' = SubSeq(output, 1, n)
  /\ Return
  /\ UNCHANGED <<input, indent, function, place, heredocs, counters>>

\* reader_loop, print_command: the next command
ReadCommand ==
  /\ ops = <<>> /\ at < Len(script)
  /\ ops' = Emit(script[at + 1]) \o Put(<<"\n">>)
  /\ at' = at + 1
  /\ wasHeredoc' = FALSE /\ deferred' = <<>> /\ embedded' = 0 /\ started' = 0
  /\ UNCHANGED <<script, output, indent, function, printing, stdout, counters>>

AtRest == ops = <<>>

\* Nothing follows a NULL pointer that is read: the program has been ended.
Done == ((AtRest /\ at = Len(script)) \/ On("fault")) /\ UNCHANGED vars

Compound ==
  \/ EmitFor \/ EmitArithFor \/ EmitSelect \/ EmitWhile \/ EmitUntil
  \/ EmitCase \/ CaseClause \/ EmitIf \/ IfBranches
  \/ EmitGroup \/ EmitSubshell \/ EmitCoproc

Connection ==
  \/ EmitConnection \/ WritePrefix \/ Separate \/ Fresh \/ Drop
  \/ CountConnection \/ Writer \/ RestoreStdout \/ Async \/ StartThread

Function ==
  \/ EmitFunctionDef \/ FunctionSubtree \/ PrintFunction \/ EndFunction
  \/ FunctionRedirections \/ ServiceQueue

Translate ==
  \/ ReadCommand \/ EmitNull \/ EmitSimple \/ EmitArith \/ EmitCond \/ EmitReturn
  \/ Compound \/ Connection \/ Function
  \/ WriteTokens \/ Indentation \/ Trim \/ DeferredHeredocs

Next == Translate \/ Done

Spec == Init /\ [][Next]_vars

\* One thread: as long as there is something to translate it is translated.
FairSpec == Spec /\ WF_vars(Translate)

-------------------------------------------------------------------------------
(***************************************************************************)
(* The text as lines.  A line is named by the index of its first token;    *)
(* blank lines do not count.                                               *)
(***************************************************************************)
Lines ==
  {i \in DOMAIN output :
     /\ output[i].tok # "\n" /\ output[i].col # MidLine
     /\ output[i].tok = " " => i < Len(output) /\ output[i + 1].tok # "\n"}

LineOf(i) == CHOOSE l \in Lines : l <= i /\ \A k \in Lines : k <= l \/ k > i

Follows(i, j) == i < j /\ \A k \in Lines : k <= i \/ k >= j

\* A line that ends in a colon opens a block.
Opens(i) ==
  \E c \in i..Len(output) :
    /\ output[c].tok = ":"
    /\ \A k \in i..c : output[k].tok # "\n"
    /\ c = Len(output) \/ output[c + 1].tok = "\n"

\* The lines whose blocks line l is in.
Enclosing(l) ==
  {e \in Lines : e < l /\ \A k \in Lines : e < k /\ k <= l => output[k].col > output[e].col}

\* The pipes of which token i is in the first command.
Writers(i) ==
  {w \in DOMAIN output : output[w].tok = "writer" /\ \E e \in Enclosing(LineOf(i)) : Follows(e, w)}

(***************************************************************************)
(* Properties                                                              *)
(***************************************************************************)
\* The values every variable may take.
TypeOK ==
  /\ indent \in Nat /\ saveIndent \in Nat
  /\ embedded \in Nat /\ started \in Nat /\ printing \in Nat /\ stdout \in 0..printing
  /\ inside \in BOOLEAN /\ wasHeredoc \in BOOLEAN /\ firstClause \in BOOLEAN
  /\ caseVar \in CaseWord \union {NoWord} /\ threads \in Nat
  /\ \A i \in DOMAIN output : output[i].col \in Nat \union {MidLine}

\* Whatever a command consists of, when it has been printed the level of
\* indentation is the one it was printed at, nothing is pending, and the globals
\* that make_command_string does not reset have the values they began with.
NothingLeaks ==
  /\ TypeOK
  /\ AtRest => /\ indent = 0 /\ saveIndent = 0 /\ ~inside /\ later = <<>>
               /\ embedded = 0 /\ printing = 0 /\ stdout = 0

\* "x=Bash2Py(..)" is a statement of its own and never part of a condition,
\* a subshell or a list that is embedded in one: it begins its line.  Exception:
\* g_was_heredoc stays up after a here document, so that the statement after the
\* next one of the list does not get a line of its own.
AssignmentsAreStatements ==
  \A i \in DOMAIN output :
    output[i].tok = "assign" /\ output[i].col = MidLine =>
      /\ LineOf(i) > 2
      /\ output[LineOf(i) - 2].tok \in HereDocument
      /\ \A k \in LineOf(i)..i : output[k].tok \in {"_rc =", "call", "word", "assign"}

\* The two branches of a pipe use the descriptors that its own os.pipe() made,
\* however many pipes are nested in the first of them; and a pipe does not
\* take the names of a pipe that it stands in.
PipesMatch ==
  AtRest =>
    \A i \in DOMAIN output :
      /\ output[i].tok \in {"reader", "writer"} =>
           \E p \in DOMAIN output :
             /\ p < i /\ output[p].tok = "pipe" /\ output[p].n = output[i].n
             /\ output[LineOf(p)].col = output[i].col - 1
             /\ \A k \in (p + 1)..i : output[k].tok = "pipe" =>
                  output[LineOf(k)].col >= output[i].col
      /\ output[i].tok = "pipe" => \A w \in Writers(i) : output[w].n < output[i].n

\* 2>&1 sends a command's errors to the pipe that its standard output goes to:
\* the one of the innermost first command that it is part of.
StderrFollowsStdout ==
  AtRest =>
    \A i \in DOMAIN output : output[i].tok = "stderr" =>
      IF Writers(i) = {} THEN output[i].n = 0
      ELSE output[i].n = output[CHOOSE w \in Writers(i) : \A v \in Writers(i) : v <= w].n

\* What is written into a pipe, errors included, is read from it.
ConnectionsMatch == PipesMatch /\ StderrFollowsStdout

\* Python's layout: a line is deeper than the line before it, by one level, if
\* and only if that one opens a block; so no block is empty, and every line
\* that closes blocks returns to the level of one that is open.
PythonLayout ==
  AtRest =>
    /\ \A i, j \in Lines : Follows(i, j) =>
         IF Opens(i) THEN output[j].col = output[i].col + 1 ELSE output[j].col <= output[i].col
    /\ \A i \in Lines : Opens(i) => \E j \in Lines : j > i

\* An else or an elif continues an if of the same level.
ElseHasIf ==
  AtRest => \A i \in Lines : output[i].tok \in {"else", "elif"} =>
    \E h \in Lines : /\ h < i /\ output[h].col = output[i].col
                     /\ \E t \in h..i : LineOf(t) = h /\ output[t].tok \in {"if", "elif", "pipe"}
                     /\ \A k \in Lines : h < k /\ k < i => output[k].col > output[i].col

===============================================================================
