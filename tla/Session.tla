-------------------------------- MODULE Session --------------------------------
(***************************************************************************)
(* One run of the program: main of shell.c goes through the arguments, and *)
(* for every script opens an output, reads the script command by command   *)
(* (reader_loop of eval.c), prints each command and closes the output.     *)
(*                                                                         *)
(* The options of bash were taken by parse_shell_options before; the loop  *)
(* goes over all of argv again and recognises an option only by its dash.  *)
(* The translator's globals live on from one script to the next, apart     *)
(* from those that initialize_translator and close_translator reset.       *)
(*                                                                         *)
(* A command is what matters of it here: which global it prints by, and    *)
(* which it changes.                                                       *)
(***************************************************************************)
EXTENDS Naturals, Sequences, SequencesExt

CONSTANTS
  CommandLines,   \* the argv that are given, each a sequence of names
  Texts,          \* the scripts' texts: [name -> sequence of lines of commands]
  Flags,          \* the names that begin with a dash
  Valued,         \* those of them that take the next argument
  OutputOf,       \* the name initialize_translator makes of a name
  Unwritable,     \* outputs that fopen refuses
  None

\* The names of scripts do not begin with a dash.
ASSUME SessionAssumption ==
  /\ Valued \subseteq Flags
  /\ CommandLines \subseteq Seq(DOMAIN OutputOf)
  /\ \A t \in Texts : \A name \in DOMAIN t :
       /\ name \notin Flags \union {None}
       /\ t[name] \in Seq(Seq(STRING))
  /\ None \notin {"done", "not found", "no output", "fatal", "abort"}

VARIABLES
  argv, texts,
  script,     \* main's loop variable
  phase,      \* what main does: "open", "loop", "read", "close", "exit"
  status,     \* why it ended
  source,     \* the name that default_buffered_input was opened by
  input,      \* the lines of it that are not read yet
  line,       \* shell_input_line: the rest of the line that the parser is in
  EOF_Reached,
  output,     \* g_output: what is printed of the script
  uses,       \* g_translate.m_uses: the output needs its prelude
  carried,    \* the translator's other globals
  files       \* the outputs on disk

inputs == <<source, input, line, EOF_Reached>>
globals == <<output, uses, carried>>
vars == <<argv, texts, script, phase, status, inputs, globals, files>>

Outputs == {OutputOf[name] : name \in DOMAIN OutputOf}

\* g_variable_namesP, g_function_namesP, g_rc_identifier, first_if_clause,
\* g_globConversionState and g_regmatch_special_case.
Fresh == [names |-> 0, functions |-> 0, rc |-> 0, case |-> 0, glob |-> 0, regmatch |-> 0]

NoFile == [state |-> "absent", lines |-> <<>>, uses |-> FALSE]
Header == [NoFile EXCEPT !.state = "header"]
Empty == [NoFile EXCEPT !.state = "empty"]
Whole(lines, u) == [state |-> "whole", lines |-> lines, uses |-> u]

(***************************************************************************)
(* The arguments                                                           *)
(***************************************************************************)
IsFlag(i) == argv[i] \in Flags
Argc == Len(argv)

\* parse_shell_options: a flag at i is an option when only options come before.
IsOption(i) == \A j \in 1..i : IsFlag(j) \/ (j > 1 /\ argv[j - 1] \in Valued)

\* arg_index: the first argument that is no option; Argc + 1 when all are.
FirstScript == CHOOSE i \in 1..(Argc + 1) :
                 /\ \A j \in 1..(i - 1) : IsOption(j)
                 /\ i <= Argc => ~IsOption(i)

Init ==
  /\ argv \in CommandLines /\ texts \in Texts
  /\ script = 1 /\ phase = "open" /\ status = None
  /\ source = None /\ input = <<>> /\ line = <<>> /\ EOF_Reached = FALSE
  /\ output = <<>> /\ uses = FALSE /\ carried = Fresh
  /\ files = [o \in Outputs |-> NoFile]

(***************************************************************************)
(* What a command prints by, and what it leaves.                           *)
(***************************************************************************)
Depends == [function |-> "names", call |-> "functions", background |-> "rc",
            case |-> "case", pattern |-> "glob", subscript |-> "regmatch"]

Printed(c, g) == [cmd |-> c, by |-> IF c \in DOMAIN Depends THEN g[Depends[c]] ELSE 0]

Left(c, g) ==
  CASE c = "assign" -> [g EXCEPT !.names = 1]
    [] c = "function" -> [g EXCEPT !.names = 0, !.functions = 1]
    [] c = "background" -> [g EXCEPT !.rc = @ + 1]
    [] c = "case" -> [g EXCEPT !.case = 1]
    [] c = "substitute" -> [g EXCEPT !.glob = 1]
    [] c = "pattern" -> [g EXCEPT !.glob = 0]
    [] c = "match" -> [g EXCEPT !.regmatch = 1]
    [] c = "subscript" -> [g EXCEPT !.regmatch = 0]
    [] OTHER -> g

Uses(c) == c = "substitute"

\* What close_translator resets of the globals.
ClosedKeepsFunctions(g) == g
Closed(g) == [g EXCEPT !.functions = 0]

(***************************************************************************)
(* main                                                                    *)
(***************************************************************************)
Exit(why) == phase' = "exit" /\ status' = why

\* open_shell_script and set_bash_input; it exits when there is no such file.
OpenShellScript(name) ==
  \/ /\ name \in DOMAIN texts
     /\ source' = name /\ input' = texts[name]
     /\ phase' = "loop" /\ UNCHANGED status
  \/ /\ name \notin DOMAIN texts
     /\ Exit("not found") /\ UNCHANGED <<source, input>>

\* Before the loop; without a script the standard input is read, here empty.
OpenFirst ==
  /\ phase = "open"
  /\ \/ FirstScript <= Argc /\ OpenShellScript(argv[FirstScript])
     \/ FirstScript > Argc /\ phase' = "loop" /\ UNCHANGED <<source, input, status>>
  /\ UNCHANGED <<argv, texts, script, line, EOF_Reached, globals, files>>

\* for (script = 1; script < argc; script++), up to initialize_translator.
SkipOptionTwice ==
  /\ phase = "loop" /\ script <= Argc /\ IsFlag(script)
  /\ script' = script + 2
  /\ UNCHANGED <<argv, texts, phase, status, inputs, globals, files>>

SkipOption ==
  /\ phase = "loop" /\ script <= Argc /\ IsFlag(script)
  /\ script' = script + 1
  /\ UNCHANGED <<argv, texts, phase, status, inputs, globals, files>>

InitializeTranslator ==
  /\ phase = "loop" /\ script <= Argc /\ ~IsFlag(script)
  /\ LET o == OutputOf[argv[script]]
     IN  \/ /\ o \in Unwritable
            /\ Exit("no output") /\ UNCHANGED <<files, uses>>
         \/ /\ o \notin Unwritable
            /\ phase' = "read" /\ files' = [files EXCEPT ![o] = Header]
            /\ uses' = FALSE /\ UNCHANGED status
  /\ UNCHANGED <<argv, texts, script, inputs, output, carried>>

(***************************************************************************)
(* reader_loop: read_command, then print_translation.                      *)
(***************************************************************************)
Reading == phase = "read" /\ ~EOF_Reached
UnchangedMain == UNCHANGED <<argv, texts, script, source>>

ReadLine ==
  /\ Reading /\ line = <<>> /\ input # <<>>
  /\ line' = Head(input) /\ input' = Tail(input)
  /\ UnchangedMain /\ UNCHANGED <<phase, status, EOF_Reached, globals, files>>

ReadEOF ==
  /\ Reading /\ line = <<>> /\ input = <<>>
  /\ EOF_Reached' = TRUE
  /\ UnchangedMain /\ UNCHANGED <<phase, status, input, line, globals, files>>

\* A syntax error ends the script; the rest of its line stays where it is.
SyntaxErrorAgain ==
  /\ Reading /\ line # <<>> /\ Head(line) = "error"
  /\ UnchangedMain /\ UNCHANGED <<phase, status, input, line, EOF_Reached, globals, files>>

SyntaxError ==
  /\ Reading /\ line # <<>> /\ Head(line) = "error"
  /\ EOF_Reached' = TRUE /\ line' = Tail(line)
  /\ UnchangedMain /\ UNCHANGED <<phase, status, input, globals, files>>

PrintTranslationAtOnce ==
  /\ Reading /\ line # <<>> /\ Head(line) \notin {"error", "fatal", "abort"}
  /\ LET printed == Printed(Head(line), carried)
         o == OutputOf[argv[script]]
     IN  output' = Append(output, printed) /\ files' = [files EXCEPT ![o].lines = Append(@, printed)]
  /\ carried' = Left(Head(line), carried) /\ uses' = (uses \/ Uses(Head(line)))
  /\ line' = Tail(line)
  /\ UnchangedMain /\ UNCHANGED <<phase, status, input, EOF_Reached>>

PrintTranslation ==
  /\ Reading /\ line # <<>> /\ Head(line) \notin {"error", "fatal", "abort"}
  /\ output' = Append(output, Printed(Head(line), carried))
  /\ carried' = Left(Head(line), carried) /\ uses' = (uses \/ Uses(Head(line)))
  /\ line' = Tail(line)
  /\ UnchangedMain /\ UNCHANGED <<phase, status, input, EOF_Reached, files>>

\* exit(TRUE) in the middle of a command: exit writes out what stdio still holds.
Fatal ==
  /\ Reading /\ line # <<>> /\ Head(line) = "fatal"
  /\ Exit("fatal")
  /\ UnchangedMain /\ UNCHANGED <<input, line, EOF_Reached, globals, files>>

\* A failed assertion or a read of NULL: the signal ends the program, and the header,
\* which fputs has left in the buffer of stdio, is lost as well.
Abort ==
  /\ Reading /\ line # <<>> /\ Head(line) = "abort"
  /\ Exit("abort")
  /\ files' = [files EXCEPT ![OutputOf[argv[script]]] = Empty]
  /\ UnchangedMain /\ UNCHANGED <<input, line, EOF_Reached, globals>>

(***************************************************************************)
(* unset_bash_input and close_translator.                                  *)
(***************************************************************************)
CloseTranslator ==
  /\ phase = "read" /\ EOF_Reached
  /\ files' = [files EXCEPT ![OutputOf[argv[script]]] = Whole(output, uses)]
  /\ output' = <<>> /\ carried' = Closed(carried)
  /\ source' = None /\ input' = <<>>
  /\ phase' = "close"
  /\ UNCHANGED <<argv, texts, script, status, line, EOF_Reached, uses>>

\* shell_reinitialize to EOF_Reached = 0, for the argument that comes next.
OpenNext ==
  /\ phase = "close" /\ script < Argc
  /\ OpenShellScript(argv[script + 1])
  /\ IF argv[script + 1] \in DOMAIN texts
       THEN script' = script + 1 /\ line' = <<>> /\ EOF_Reached' = FALSE
       ELSE UNCHANGED <<script, line, EOF_Reached>>
  /\ UNCHANGED <<argv, texts, globals, files>>

Finish ==
  /\ \/ phase = "close" /\ script = Argc
     \/ phase = "loop" /\ script > Argc
  /\ Exit("done")
  /\ UNCHANGED <<argv, texts, script, inputs, globals, files>>

Next ==
  \/ OpenFirst \/ SkipOption \/ InitializeTranslator
  \/ ReadLine \/ ReadEOF \/ SyntaxError \/ PrintTranslation \/ Fatal \/ Abort
  \/ CloseTranslator \/ OpenNext \/ Finish

Spec == Init /\ [][Next]_vars

\* The program is one process that nothing waits for.
FairSpec == Spec /\ WF_vars(Next)

(***************************************************************************)
(* What the arguments promise.                                             *)
(***************************************************************************)
\* The commands of a text up to its first syntax error.
Commands(text) ==
  LET all == FlattenSeq(text)
      errors == {k \in DOMAIN all : all[k] = "error"}
  IN  SubSeq(all, 1, (CHOOSE k \in errors \union {Len(all) + 1} : \A e \in errors : k <= e) - 1)

\* The globals after each number of commands, of a translator that has just been started.
GlobalsAfter(commands) ==
  LET left[k \in 0..Len(commands)] == IF k = 0 THEN Fresh ELSE Left(commands[k], left[k - 1])
  IN  left

\* What such a translator prints for a text.
Alone(text) ==
  LET commands == Commands(text)
  IN  [k \in DOMAIN commands |-> Printed(commands[k], GlobalsAfter(commands)[k - 1])]

\* The globals that outlive a script, with the command that changes them.
Lasting == [names |-> "assign", rc |-> "background", case |-> "case",
            glob |-> "substitute", regmatch |-> "match"]

\* The text that is read for the i-th argument: main takes the value of a leading
\* option for a script, and reads the first script for it.
IsValue(i) == i > 1 /\ argv[i - 1] \in Valued
Text(i) ==
  LET name == IF ~IsValue(i) THEN argv[i] ELSE IF FirstScript > Argc THEN None ELSE argv[FirstScript]
  IN  IF name \in DOMAIN texts THEN texts[name] ELSE <<>>

\* The commands of the arguments before the i-th.
Before(i) == UNION {ToSet(FlattenSeq(Text(j))) : j \in 1..(i - 1)}

\* A command of the i-th argument is printed by what an earlier script has left.
Inherits(c, i) ==
  /\ c \in DOMAIN Depends /\ Depends[c] \in DOMAIN Lasting
  /\ Lasting[Depends[c]] \in Before(i)

\* The argument that an output was closed for last.
Started == FirstScript > Argc \/ argv[FirstScript] \in DOMAIN texts
IsClosed(i) == Started /\ ~IsFlag(i) /\ (i < script \/ (i = script /\ phase \in {"close", "exit"}))
ClosedFor(o) ==
  LET named == {i \in 1..Argc : IsClosed(i) /\ OutputOf[argv[i]] = o}
  IN  CHOOSE i \in named : \A j \in named : j <= i

\* What the i-th argument's output has to hold.
HoldsTranslation(file, i) ==
  LET commands == Commands(Text(i))
      alone == Alone(Text(i))
  IN  /\ Len(file.lines) = Len(alone)
      /\ \A k \in DOMAIN alone : file.lines[k] = alone[k] \/
            (file.lines[k].cmd = alone[k].cmd /\ Inherits(commands[k], i))
      /\ file.uses = \E k \in DOMAIN commands : Uses(commands[k])

(***************************************************************************)
(* Properties                                                              *)
(***************************************************************************)
\* The state of main and of its files is of the right type.
TypeOK ==
  /\ script \in 1..(Argc + 1) /\ phase \in {"open", "loop", "read", "close", "exit"}
  /\ status \in {None, "done", "not found", "no output", "fatal", "abort"}
  /\ (phase = "exit") = (status # None)
  /\ source \in DOMAIN texts \union {None}
  /\ EOF_Reached \in BOOLEAN /\ uses \in BOOLEAN
  /\ DOMAIN carried = DOMAIN Fresh
  /\ \A o \in Outputs : files[o].state \in {"absent", "empty", "header", "whole"}

\* A closed output holds what the script of its name, and no other, becomes when
\* it is translated in a run of its own.  Only these may make a difference: the
\* global names, the numbers of _rc, the first case, the state of the glob
\* conversion and BASH_REMATCH, which close_translator does not reset, when an
\* earlier script of the same run has changed them.  (The value of a leading
\* option is taken for a script, and its output gets the first script.)
TranslatedAsAlone ==
  /\ TypeOK
  /\ \A o \in Outputs : files[o].state = "whole" => HoldsTranslation(files[o], ClosedFor(o))

\* What the output of a script that stopped the program is left with.
Stopped == {"fatal", "abort"}
Lost == IF status = "abort" THEN Empty ELSE Header

\* A script that stops the program leaves its own output with nothing but the
\* header, or with nothing at all when a signal stops it, and the outputs closed
\* before it as they were: initialize_translator and close_translator are the
\* only ones to write.
FatalLosesOneOutput ==
  \A i \in 1..Argc : ~IsFlag(i) =>
    LET file == files[OutputOf[argv[i]]]
        current == OutputOf[argv[i]] = OutputOf[argv[script]]
    IN  IF phase = "read" \/ status \in Stopped
          THEN IF current THEN file = Lost ELSE i < script => file.state = "whole"
          ELSE IsClosed(i) /\ status # "no output" => file.state = "whole"

\* Every script gets its translation when no option comes after the first
\* argument that main takes for a script, each script can be read and its output
\* written, and none stops the program.
WellFormed ==
  /\ \A i, j \in 1..Argc : i < j /\ IsFlag(j) => IsFlag(i)
  /\ \A i \in 1..Argc : ~IsFlag(i) =>
       /\ OutputOf[argv[i]] \notin Unwritable
       /\ IsValue(i) \/ (argv[i] \in DOMAIN texts /\ ToSet(Commands(texts[argv[i]])) \intersect Stopped = {})

EveryScriptTranslated ==
  WellFormed => <>(status = "done" /\ \A i \in 1..Argc :
                      ~IsFlag(i) => files[OutputOf[argv[i]]].state = "whole")
================================================================================
