# A verification project for bash2py

bash2py turns bash scripts into Python. It is bash 4.3.30 with one change of
course: `reader_loop` (`eval.c`) calls `print_translation` where bash calls
`execute_command`, so that the shell's own parser feeds a printer instead of an
evaluator. The printer and what it rests on are a few thousand lines of C
(`translate.c`, `translate_expr.c`, `fix_string.c`, `burp.c`, `dynamo.c`) built on
global variables that recursive routines save, change and restore. These modules
describe the state that this part of the program keeps and every routine that changes
it (section 6 says what is left out), and two parts of the bash around it
that keep the most intricate state: its indexed arrays (`array.c`) and its table of
jobs (`jobs.c`).

## 1. Inventory

The translator is one process and one thread. Nothing is sent, nothing crashes and
comes back, nothing persists but the output files. The difficulty is another one:
almost every routine is a recursion over the command tree that communicates with
its caller, its callees and its callers' callers through globals. A property of
the output is therefore a property of sequences of calls. The bash around it is
different: its table of jobs is shared between the shell and a signal handler.

| Component | State | Operations | Hard behaviour | What makes it correct |
|---|---|---|---|---|
| **Output buffers** `burp.c:25-253` | per buffer: block, `m_lth`, `m_max`, indentation level and switch | `burpc`, `burps`, `burp`, `burpn`, `burp_rtrim`, `burp_insert` (doubling loop), `indentation()` (loop), `swap_burps`, `burp_reset`, `burp_close`; callers assign `m_lth` | growth from a closed block, emissions taken back leaving text and NUL behind, indentation that looks at the last character | never outside the block, always a C string, text as if the block were unlimited |
| **Function definitions** `translate.c:82-168, 2658-2836` | queue of inner functions (head, tail), `save`, names, globals, parameter counts, `g_is_inside_function` | `print_function_def_subtree`, `print_function_def`, `seen_function`, `seen_global`, `find_name` | the call that services the queue extends it; one static `save` | no leaked or freed node reached; `save` not overwritten while in use; each definition printed once, in order |
| **Command emitter** `translate.c:1750-3100` | `g_started`, `g_embedded`, `g_printing_connection`, `g_stdout_connection`, `g_deferred_heredocs`, `g_was_heredoc`, `first_if_clause`, `g_case_var`, `m_threading`, the level of `g_output` | `emit_command` and the `print_*_command` routines | each counts on the others to restore | terminates without an assertion or a read of NULL, globals restored, pipes matched, here documents printed, text with Python's layout |
| **Built-in commands** `translate.c:990-1750` | flags of `g_translate` | `print_echo_command`, `print_read_command`, ... | | flags raised for every name they print |
| **Prelude** `translate.c:3100-3553` | `g_translate` (about 60 flags) | the emitters raise flags; `close_translator` runs five passes and writes the flagged definitions | a transitive closure computed by passes that run once | fixed point reached, no undefined name |
| **Code generator** `dynamo.c` | margin, nesting, line counter, pools of three static buffers per kind of block | `def_`, `asgn_`, `if_`, `else_`, `ret_`, `raise_`, `write_function` | blocks are built before they are printed, in buffers used again; pool exhaustion is an assertion | no definition needs more than three, each line printed where it was meant |
| **Arithmetic** `translate_expr.c` | the token being read, `g_atP`, the tree | `translate_arithmetic_expr`, the levels of `translate_*`, `print_translation` | two languages' precedences meet | agrees with `expr.c`; Python reads back the same tree |
| **Word expansion** `fix_string.c` | `g_globConversionState`, two working buffers and their backups, `g_dollar_expr_nesting_level`, `g_regmatch_special_case`, types | `fix_string` and the stages it calls, itself among them | early returns between an exchange and its undoing; globals left for the next word | state back to neutral after each word, equal words translated equally, sums that Python can add |
| **Session** `shell.c:766-794`, `eval.c` | open input and output, the translator's globals | options, per script `initialize_translator`, `reader_loop`, `close_translator` | what is reset between scripts and what is not; which argument is opened when | every script translated, and as if alone |
| **Call logger** `burp.c:255-537` | stack of 48 names | `log_enter`, `log_return*` | pushes without pops on early returns | balanced per call |
| **Indexed arrays** `array.c` | ring of elements, count, largest index; `lastref`, `lastarray` | `array_insert`, `array_remove`, `array_reference`, `array_shift`, `array_rshift`, `array_flush`, `array_dispose` | searches that start at a remembered element of an array that has changed | a map from indices to values; the remembered element is never a freed one |
| **Table of jobs** `jobs.c` | `jobs`, `js`, `the_pipeline`, `bgpids`, `queue_sigchld` | `make_child`, `stop_pipeline`, `wait_for`, `wait_for_single_pid`, `wait_for_background_pids`, `wait_for_any_job`, `waitchld`, `notify_and_cleanup` | the SIGCHLD handler, trapped signals that leave a wait, process numbers used again | every wait ends and reports the right status; the table agrees with the kernel |
| **Bash evaluator** `expr.c` | bash's | recursive descent | | the reference of `ArithExpr` |
| **Parser** `parse.y`, `make_cmd.c`, `copy_cmd.c` | bash's | builds the command trees | generated | gives the trees that `MCEmitter` enumerates |
| **The rest of bash** (execution, variables, expansion, built-ins, readline, glob, malloc) | | | third-party, not run during a translation | not modelled |
| **Trace analyzers** `analyzers/` | none | Python scripts over the log | | not modelled: pure text processing |

How they interact. The session opens a script and calls the parser for each
command; `print_command` resets part of the emitter's globals and calls
`emit_command`. The emitter writes to `g_output` through the buffer routines,
hands words to `fix_string` and arithmetic to `translate_expr`, both of which
work in buffers of their own and raise flags of the prelude, and hands function
definitions to the queue. At the end `close_translator` completes the flags,
writes the prelude (through `dynamo`) and then the contents of `g_output`.

`jobs.c` and `array.c` belong to the same tree. A start-up file named by `BASH_ENV`
is run, not translated (`shell.c:1060-1188`), and with it they are; and the tree
builds plain bash when `BASH2PY` is not defined (`config.h.in:27`).

`PROJECT.json` lists the hazards line by line, with the properties that watch
over them and, for the two nothing watches, the reason.

## 2. Plan

In order of what matters most for the translation:

1. **TextBuffer, Burp** (done). Everything else writes through them. `TextBuffer`
   is the abstract specification, `Burp` its implementation; memory safety proved.
2. **DefinitionOrder, FunctionSchedule** (done). The queue with its pointers,
   shown (and, the safety part, proved) to implement a plain FIFO.
3. **Prelude** (done). Fixed point and closure proved for all scripts.
4. **Emitter** (done). The C stack as data, all command types, here documents by
   name; that nothing leaks out of a command is proved for all programs.
5. **ArithExpr** (done, model-checked). Two parsers and Python's.
6. **FixString** (done). Exchange of the working buffers, glob state from word to
   word, casts; what a word leaves behind is proved for all words.
7. **Session** (done). Is a second script translated as if alone? Proved for all scripts.
8. **Dynamo, PreludeText** (done, model-checked). Margins and pools over the calls
   that each definition of the prelude makes.
9. **SparseArrays, ArrayList** (done). `array.c` as an implementation of maps;
   invariants and refinement proved.
10. **JobTable, Jobs** (done). The table of jobs and the signals; that the table is
    what its indices say, that what it says of the children is true, and what `wait`
    reports, is proved.

What is left: the call logger; job control in `Jobs` (stopped jobs); redirections
and unwinding (`redir.c`, `unwind_prot.c`), which only plain bash runs; and proofs of
`ConnectionsMatch` (it speaks of the text, so that the invariant has to say which
columns of which earlier line each entry of `ops` will still write to) and of
`WordsIndependent` (it compares two runs of the same routines).
`PoolsSuffice` needs none: its run goes through all that the program can do.

## 3. Modules

### TextBuffer, Burp, BurpProofs, MCBurp

`TextBuffer` says what callers rely on: a buffer is a text, a level and a switch,
a call changes it at once. `Burp` is `burp.c`: `alloc`, `mem`, `lth`, `max`
are `m_P`'s block and contents, `m_lth` and `m_max`; `Junk` is what malloc leaves in
memory. One action is one step of a routine; the loops of `burp_insert` and
`indentation()` go round one iteration at a time, and `call` is the routine in
progress. `Caller(b)` is what the rest of the program may do when no routine is
running, including assigning an earlier `m_lth`. `Abstract` maps `Burp` to
`TextBuffer`; a routine has its effect when its last iteration is done.
`burp_ungetc` and `burp_esc_quote` have no callers and are left out.
1024 and 8 (first block and reserve) are the constants `FirstAlloc` and `Slack`.

### DefinitionOrder, FunctionSchedule, FunctionScheduleProofs, MCFunctionSchedule

`DefinitionOrder` has two sequences, the names come upon and those printed, and says
that the second follows the first. `FunctionSchedule` has the program: `nodes`, `head`
and `tail` are the linked list (`live` false after free), `phase` says whether the
script is read (`top`), a body is emitted (`body`), a node is being retired or
the service loop looks for the next (`retire`, `queue`). A body is a sequence of
items: what commands do to this state is come upon a definition, name a command,
assign a variable, or refer to a positional parameter. `OutputIsFlattened` compares
`g_output` with a recursive reference that flattens the tree of definitions; it
is in the MC module for that reason. `LastGlobalDeclared` is what `seen_global` can
keep (see section 5).

### Prelude, PreludeProofs, MCPrelude

Flags are named as the Python definition they stand for. A site is an emitter: the
flags it raises and the names it prints. The groups of sites (`Sites`) are the emitters of
`fix_string.c`, `translate_expr.c` and `translate.c`, one element per place where a
flag is raised. `Pass` is one of the five `needed*` routines, `Write` the `emit*`
routines, `References` the names in the text of each definition.

### Dynamo, PreludeText, MCDynamo

`PreludeText` has the calls that `emitExceptions`, `emitBash2PyClass`,
`emitFunctions` and `emitExpandClass` make, in order. `Dynamo` makes them: `pools` are the
static buffers with their counters, `margin`, `nesting` and `lines` are
`g_left_margin`, `g_conditional_nesting` and `g_lines_in_func`. A caller holds
pointers to buffers, so that a block printed is what its buffer holds when
`write_function` prints it. `PrintedAsMeant` compares the output with the
lines the caller asked for, at the depth their place in the definition gives them.
The subordinate statements of `if_` and `else_` are made by
the call itself, into the buffer of the outermost clause.

### Emitter, EmitterProofs, MCEmitter

The C stack is `ops`, the sequence of what remains to be done. An action takes the
first entry off and either changes the globals or puts a routine's plan in its
place; `return` entries carry what the routine saved in locals. The text is a sequence of
tokens; a token that begins a line has the indentation `burp` gave it. Words,
expressions, patterns and lists of globals are single tokens; a here document has a
name, so that it can be missed, and so has the word of a `case`. The root of a `[[ ... ]]`
has an operator or, for `&&`, `||` and `( )`, none; reading that puts `fault` on the stack,
where the program ends. `MCEmitter` has the
grammar of the trees that `parse.y` builds (`Grammatical`) and enumerates trees.

### ArithExpr, MCArithExpr

The states are the inputs, sequences of lexemes. `Translation` is what the parser of
`translate_expr.c` makes of one and `Expression` what that of `expr.c` does, both
recursive descents with the position (`g_atP`) passed along: `IfParsed` is the
sequence of two calls, of which the second is not made after an error. `Printed` is
`print_translation`, and `Python` reads the printed text. Everything binary is printed in parentheses,
so that of Python's precedences only those of suffixes, signs and `**` are needed.
`g_allow_array` is TRUE in the runs; the other value only leaves out subscripts.
`expr.c` is followed where it accepts more than the translator: a `++` or `--` that no name
follows is two signs (`expr.c:1260-1271`), and an assignment needs only that the last lexeme
was a name (462). `ReadAsInBash` compares the trees as they are unless there is a chain of
operators of one level, and then the translator's with bash's regrouped to the right.

### FixString, FixStringProofs, MCFixString

A word is a sequence of lexemes. `stack` is the C stack, a frame per routine
with its locals; `fix_string`, which `emitVariable` calls again for the operands of
`${x/y/z}`, is a frame like the others. The globals are those of `fix_string.c`. The
text of a result is a sequence of tokens with the calls and literals of Python, which
`MCFixString` reads as Python would (`Reads`) to say that a sum joins strings or
lists and has the type that was announced. `WordsIndependent` compares two equal
words with another word between them. `Survives` (`MCFixString`) says of a word, by where
its operators, slashes and braces are, whether its translation follows a NULL pointer; a
script of words that survive has to be translated to its end, and another has to crash.

### Session, SessionProofs, MCSession

`main`'s loop, with the argument it is at, the input that is open and the output that is
being written. A text is a sequence of lines of commands, and a command is what
matters of it here: which global of the translator it is printed by (`call`,
`subscript`, `case`, `pattern`, ...) and which it changes. `Fatal` is `exit`, which writes out
what stdio holds, `Abort` an assertion or a signal, which loses it, the header included. `TranslatedAsAlone` compares a
closed output with what the same script gives in a session of its own.

### SparseArrays, ArrayList, ArrayListProofs, MCArrayList

`SparseArrays` are partial maps and one operation in progress: it is called, has its
effect, and answers. `ArrayList` is `array.c` with its pointers: `next`, `prev`,
`ind`, `val` per element, the head of an array is the array itself; elements are
freed and allocated again at the same address. The loops of `array_insert`,
`array_remove` and `array_reference` go one element at a time (`ae`); the
others do one pass under no observation and are one step. Left out are
`array_copy`, `array_slice`, subranges, pattern operations and the conversions to and
from word lists: they read arrays or are built from `array_insert`.

### JobTable, Jobs, JobsProofs, MCJobs

`JobTable` has the functions of `jobs.c` that change the table, as operators on one
record. `Jobs` runs them: `main` is what the shell is doing (the function, where in it, for
whom), `children` are the processes as the kernel knows them, and `pending`,
`Blocked` and `queue_sigchld` decide when the handler runs. A region that
blocks SIGCHLD and does not wait is one step. A trapped signal may come in any
wait. A process number is used again once its process is collected; that the kernel
does not give one number twice within a pipeline that is still being built is
assumed. A status is the number of the fork, so that a wrong status is seen.
Left out: job control (a script has none), `j_current` and `j_previous`, printing.

## 4. Runs

A property that is a conjunction has its parts as named definitions, among them the
module's `TypeOK`; the runs check the conjunction.

| Run | What it shows | Bounds, and why they are enough |
|---|---|---|
| `burp` | `MemorySafe`, `ImplementsTextBuffer`, `CallsReturn` on one buffer (65,885 states) | first block 3, reserve 1, texts up to 4 characters: the block grows from closed, once and twice; padding of 2 forces growth in the middle of indentation. `MemorySafe` and `ImplementsTextBuffer` are proved for all sizes. |
| `burp_swap` | `ImplementsTextBuffer` with two buffers (99,728) | texts up to 2: what is exchanged are whole records |
| `function_schedule` | `QueueSound`, `NamesResolved`, `OutputIsFlattened`, `PrintsInOrder`, `SaveHasOneUser`, `Terminates` (5,604) | all 24 nestings of four definitions (two share a name), each assigning two variables, so queues of up to three with inner ones added while the head is serviced. All but `OutputIsFlattened` and `Terminates` is proved for all scripts. |
| `prelude` | `PassesSettle`, `DefinitionsClosed` (12,228) | two constructs per script: a rule fires if *any* of its premises is there, so the passes on a union give the union; a third construct has nothing to combine with. Proved for all. |
| `dynamo` | `PoolsSuffice`, `PrintedAsMeant` (424,526) | none: the definitions are the program's own, each flagged or not, and the state between two definitions is what the one before left |
| `emitter` | `NothingLeaks`, `ConnectionsMatch`, `PlainScriptsHaveLayout`, `HereDocumentsPrinted`, `StatementsWellPlaced`, `TranslationEnds` (144,071) | every tree of two levels over two kinds of leaf, elif chains of three, here documents and negations, each followed by a second command that shows what the first left behind; cases side by side and in one another with two words; conditions with and without an operator as statements, tests and operands; pipes in pipes three levels deep, on either side, in lists, subshells, functions and threads. `NothingLeaks` is proved for all programs. |
| `arith` | `ReadAsInBash`, `OperandsConverted`, `PythonReadsTheRest` (763,512) | five lexemes of operators and parentheses hold two operators with operands, or a sign and one operator in parentheses; six of the others hold a conditional and one more operator, or an assignment to a subscripted name; six of signs, steps, `&&` and assignment hold what the two parsers read differently |
| `fix_string` | `NeutralBetweenWords`, `WordsIndependent`, `WellTyped`, `ConvertedOnce`, `WordsTranslated` (230,612) | words of one or two parts, operators within operators (`${x/${x/a/b}/c}`, arithmetic in a pattern, a command in arithmetic), BASH_REMATCH in a subscript, every wanted type; and three words, the last equal to the first, with every word of one part in between: one word is enough to leave each global wrong. `NeutralBetweenWords` is proved for all words. |
| `session` | `TranslatedAsAlone`, `FatalLosesOneOutput`, `EveryScriptTranslated` (205,640) | up to five arguments with two scripts and one more; the texts are pairs of one that changes a global and one that is printed by it, a syntax error, one that exits, one that aborts and an empty one. The two safety properties are proved for all arguments and texts. |
| `array` | `ListsSound`, `InsertSucceeds`, `ImplementsSparseArrays`, `CallsReturn` (404,436) | two arrays that share three elements of memory, so that an element comes back in the other array at the same address; indices 0..2. Proved for all sizes. |
| `jobs` | `TableSound`, `ChildrenKnown`, `WaitReports`, `StatusKept`, `WaitsReturn` (543,063) | two process numbers and four forks: each number is used again; pipelines of two; a table of one slot that grows and is compacted at two; one saved status, so that one displaces another; one trapped signal, which can interrupt either wait. `CHECK_DEADLOCK` is on: the shell never waits for nobody. All but `WaitsReturn` is proved for all sizes. |

`session` has `CHECK_DEADLOCK FALSE`: the program exits.

One run ends in a counterexample:

| Run | Property | What the code does |
|---|---|---|
| `jobs_any` | `WaitAnyFindsJob` | `wait -n` looks for dead jobs, unblocks SIGCHLD, and looks for running ones (`jobs.c:2748-2757`). A job that ends in between is found by neither scan, and `wait -n` returns 127 with a status unreported. If another job runs, it waits for that one. Three forks are enough. |

### What holds only with an exception

Properties were stated from what the code and its documents promise; where the code
does something else, the property names the exception and the rest is checked. These are
the exceptions.

- *Global declarations.* `seen_global` says "If the name is new, add it to the
  registry" (`translate.c:160`), and searches with a pointer that is NULL when the
  name is new, so that the new entry becomes the list (158). Only the last new
  variable of a function is declared (`LastGlobalDeclared`).
- *Prelude.* `${x=w}` needs `SetValue`, whose text makes a `Bash2Py` object, without the
  class; `${x?w}` calls `GetValue` (`translate.c:3189`). `KnownGap` has the two.
- *Lists as conditions.* `a && b && c` becomes `if if a:` (`translate.c:2620`), `a &`
  within one `_rc0 = def thread1():` (2573). `LayoutPrograms` has only left operands that
  are one-line commands; likewise no function of definitions alone (its body would be
  empty), no group in a function (indented without a line that opens a block), and
  `if ..; fi; x` prints `_rc = if`.
- *case.* `first_if_clause` is never set again (`translate.c:2226`): the second case
  of a program begins with `elif`, in the next script of the session too. There is one
  `g_case_var` (2204): after a case in a clause, the clauses of the outer one that follow
  test the inner word (`CaseInCase`).
- *Conditions.* `emit_command` and `print_if_command` read `Cond->op->word` of the root
  (`translate.c:2919`, 2299 through 2312), but the parser gives `&&`, `||` and `( )` no
  operator (`parse.y:4708`, 4722-4726, 4790): `[[ a && b ]]` as a statement or as the test
  of an if or elif reads through NULL. `TranslationEnds` says that exactly the scripts with
  such a condition at such a place (`Faults`) end there. (As
  a statement it is one that is read by itself, or that follows `;` or `&` outside of
  compound commands: elsewhere `g_started` is not 0.)
- *Here documents of compound commands* are printed twice (2844 and 384-432);
  `HereDocumentsPrinted` is about simple commands.
- *Assignments after a here document.* `g_was_heredoc` stays up, and the statement
  after the next one does not get its own line.
- *Arithmetic.* `translate_plus` and the others recurse on the right: `2-2-2` becomes
  `(2 - (2 - 2))` (`translate_expr.c:582`), with another value than in bash, and so do all
  chains of one level; `ReadAsInBash` demands bash's own tree of every other input, and this
  one of a chain. Three kinds of input that bash evaluates are not read to their end
  (`Unread`): they meet `translation_error`, whose longjmp has no setjmp, or their end is
  dropped. These are a blank `$(( ))`, a `++` or `--` that is two signs (`++1`, `1--1`), and an
  assignment to the name that an operand on its left ends with (`1+x=2`, `-x=1`).
  `&&`, `||` and `!` are printed as they are, and `-2**2` as `(-2 ** 2)`, which Python reads as -4 and bash as 4 (`Unlike`).
- *Words.* After a word with `${x/y/z}` the glob state is PROTECTING, and a next word
  that begins with text is not globbed (`fix_string.c:969`, 1721). A nested
  `fix_string` sets the level of `$((..))` to zero, so that `$((${x/a/1}+1))` is
  not translated as arithmetic (1164-1249). BASH_REMATCH leaves
  `g_regmatch_special_case` up (1118-1126), and from then on the bracket that is
  overwritten may be one that it does not belong to: what stands before an operator, as in
  `${x[${BASH_REMATCH}/2]}`, is then read as the end of a name, so that also a word without an
  operator right after a name may leave the state at PROTECTING (`MayOperate`). Words on which the translator follows a NULL pointer: `${x/y}`, without a
  replacement (967); an operator with no closing brace behind it; and therefore a second
  operator in one word, since the first takes all up to the word's last brace (897)
  (`Survives`). The name `@` ends the search for an operator (788), so that `${@/a/b}` is
  printed as it is.
  An integer made of `$@` is cast by the type of what came before (1442-1533). A
  pattern with an operator in it does not convert its later stars.
- *Session.* An option after the first script is opened as a script by the end of the
  script before (`shell.c:786`): the program ends with 127 and the rest is not
  translated. The value of a leading option (`-O extglob a.sh`) is taken for a script:
  `extglob.py` gets the translation of `a.sh`. Scripts of one base name share one output.
  Five globals are not reset (`Lasting`).
- *Generated definitions.* `mod` is passed as `%%` and printed twice through `%s`, so
  that the prelude says `self.val %%= value`; `Bash2PyException.__init__` sets
  `self.val` and `__str__` reads `self.value`; the message of `indicesAt` says `[*]`
  (`translate.c:3408`). `PreludeText` has these as they are.
- *wait.* `CHECK_WAIT_INTR` after `waitpid` has returned a child throws the child away: its
  job stays running, and is later reported with status 0 or as no child
  (`jobs.c:3265`; `lost`). One number used again makes `delete_old_job` remove the
  statuses of its whole pipeline (883-905; `StatusKept`). Of a pipeline only the status
  of the last process is saved (1026-1029), so `StatusKept` speaks of processes whose number
  `$!` gave: with two saved statuses or more, that of `a` in `a | b &` is known from the
  job and forgotten with it.

### Fairness

- `Burp`, `ArrayList`: weak fairness of the routine in progress. Callers are not fair:
  nobody has to call.
- `FunctionSchedule`, `Emitter`, `FixString`, `Session`: weak fairness of the
  translator. The program is one thread that never waits, so a step that can be taken is taken.
- `Jobs`: the shell goes on when it is not waiting for a child (`Ready`), and every process
  ends (`WF_vars(Exit(p))`); without the second `wait` may last for ever, as it may in
  bash. The first is written `[]<>(~Ready) \/ []<><<Steps>>_vars`, which is weak
  fairness of `Steps` with its enabling condition spelled out. The delivery of
  SIGCHLD and trapped signals are not fair: every wait has to end without them.

## 5. What is proved

All proofs are for every value of the constants, under the named assumptions
next to their declarations.

- **BurpProofs.** `BurpInvariant`, and from it `BurpTypes`, `BurpCapacity`,
  `BurpStringEnds` and `BurpMemorySafe`, which joins them. Assumed: `CharsDiffer`, `TextsAreStrings`, `SizesAreNat`
  and `FirstBlockIsLargeEnough` (the first block is more than twice the reserve:
  1024 and 8). `Capacity` alone is not inductive: that doubling makes progress needs
  that `m_max` exceeds the reserve (`Roomy`), that a NUL is found needs
  that the memory has the size of the block (`Sized`), and a routine in progress
  needs what is known between its iterations. Lemmas say what `increase_burp`,
  `burpc1` and the loop of `burp_insert` do to one buffer; `CallerIInv` and
  `RoutineIInv` go through the actions.
  `BurpImplementsTextBuffer` is the refinement: a routine that goes round adds to
  the block what nobody reads yet, so that `Abstract` is the text it began with until
  its last iteration. This needs of `indentation()` that the blanks already written
  are what the character to come has to be preceded by (`PadInv`), and of `burp_insert`
  that its text is one (`RInv`).
- **FunctionScheduleProofs.** `QueueIsSound` (no freed node is reached, none is
  leaked), `SaveIsNotShared` (an action property), `SchedulePrintsInOrder` (the
  refinement of `DefinitionOrder`, its safety part). The invariant `QInv` adds
  where the service loop stands to what the queue looks like (`LoopPosition`)
  and that the flag is up exactly in a body (`NotReentrant`): without them a tail pointer to
  a freed node could be followed. `NamesAreResolved`: a word that is
  printed as a call is the name of a definition come upon before, in the order of the
  *output*, although inner definitions are printed after the text that follows them in the
  script; and each body declares its last global. `NamesInv` splits the output at the
  point where the body that is printed began, because only there do the flags and the
  registry speak of what is before it. Assumed: `NamesOfDefs`, `ProgramsAreItems`.
- **PreludeProofs.** `PassesReachFixedPoint`: each rule, once applied, is settled
  and stays so through everything later, because no later rule feeds an earlier one
  (`NeedKeeps`). `PreludeTypes`: no emitter and no pass raises a flag that nothing writes.
  `PreludeIsClosed`: at the fixed point every name that a definition
  refers to is defined, but for `KnownGap`. Assumed: `ConstructsAreSites`, `BoundIsNat`.
- **EmitterProofs.** `NothingIsLeft`: for every command, however deep, the globals and the
  indentation are after it what they were before it. A *level* is the values of the globals;
  every operation on the C stack takes one level to another (`Takes`), some any level to
  itself; and the invariant `Balanced` says that a sequence of levels (`Walk`) leads along
  all of `ops` from the globals as they are to those of the program's start. A routine's plan
  is a walk from the level of its call back to it, which is a lemma for each kind of command.
  It also gives `OutdentNeverFails` (the assertion of the decrease of indentation holds) and
  `OneFunctionAtATime` (`g_output` is exchanged once before it is exchanged back). Assumed:
  `CommandsAssumption` (every command has the fields of its type).
- **FixStringProofs.** `WordsLeaveNothing`, from `FixStringInvariant`. Three arguments. The stack:
  main calls `fix_string`, the operators call it again, and every other frame is above
  one that is waiting (`StackOK`). Texts: every text that is read, also the one that
  `emitVariable` puts together anew, has an operator only if its word has one and the
  name BASH_REMATCH only if its word has it (`Kept`): this bounds what can be left.
  Levels: `g_dollar_expr_nesting_level` is at most the number of frames that raised it. Last,
  PROTECTING does not survive the first lexeme of a word that begins with text, which
  is a statement about the moment before it is read (`Beginning`). Assumed:
  `ScriptsAssumption`.
- **SessionProofs.** `ScriptsAreTranslatedAlone` and `OneOutputIsLost`. The globals with which
  a script is read are those of a fresh start but for the lasting ones that an earlier
  script has changed; a command prints the same and leaves the same in every
  other (`LeftAlike`), so that what has been printed is line by line what the script
  alone gives. `FilesInv` says which argument an output was last written for, since
  scripts of one base name share it. Assumed: `SessionAssumption`: options that take a value are
  options, and the name of a script is not one.
- **ArrayListProofs.** `ListsAreSound` and its parts, and `InsertNeverFails`. The
  invariants speak of single links, not of reachability; that the ring is
  ordered and without gaps makes its elements those that a walk visits. To be inductive
  they need `Passed`: while a search is under way, every element the loop has passed has
  a smaller index than the one looked for. This is where `lastref` comes in: a search
  may begin there only because nothing before it can be what is looked for. Sizes of
  arrays are cardinalities, by the theorems on finite sets. Assumed:
  `ArrayListAssumption`.
  `RingImplementsSparseArrays`: every step of an operation is a step of `SparseArrays` or a stutter, at the iteration that changes the ring or knows
  the answer, with the contents of an array the pairs of index and value of what it owns.

- **JobsProofs.** `TableIsSound`, from `JobsInvariant`: every slot that is not free holds a job
  with a process, `njobs` counts those slots, `firstj` and `lastj` are the first and the last of
  them, and no more statuses are saved than may be. `JobsInv` adds what the functions rely on:
  js is at 0 in an empty table, which is where the next job is then put (`IndicesHold`); a
  pipeline that is stopped has a process (`TableHolds`), since a job with none would look like
  a free slot; what is collected had been forked (`KernelHolds`); and `queue_sigchld` is
  raised while a list is cleaned up, and may be left at 1 by a longjmp (`ShellHolds`). Each
  function of `JobTable` has a lemma that it keeps a sound table sound (`JobDeleted`,
  `Reallocated`, `RoomMade`, `PipelineStopped`, ...). The hard ones: `reset_job_indices`
  finds the next job around the end of the array because none is before the old `firstj` or
  behind the old `lastj` (`IndicesReset`); the compacted list has room for what it keeps
  (`RoomAllocated`); and the free slot is behind all jobs although only slots from `lastj` on
  are scanned (`SlotFound`).
  `ChildrenAreKnown`, from `ChildrenInvariant`: what the table says of the children is true.
  Between the collection of a process and the next use of its number a status may be
  recorded for the wrong process only if two of the table have that number; so the invariant
  `TableKnown` says that no two have, in one pipeline, in two jobs, or in a job and the
  pipeline that is built (`PipeApart`, `PipesApart`), and that a number in the table is that
  of the last fork the kernel gave it to (`ProcessKnown`). `make_child` keeps this because it
  takes the number out of the table before it is used again (`OldJobForgotten`,
  `AddedKnown`), and the handler because it records each process it collects
  (`RecordedKnown`, `AllRecordedKnown`), or loses it (`TableLost`). What removes, moves or
  marks jobs keeps whatever holds of each job and of every two jobs, which is said once
  (`Carries`). `WaitHolds` adds what is waited for at each place, and that `wait` gets -1
  only when there is no child, which `mark_all_jobs_as_dead` relies on. Assumed:
  `JobTableAssumption`, `JobsAssumption` (process numbers are finitely many).
  `WaitReportsTruly`, from `ReportsInvariant`: `wait` with a number that `$!` gave returns that
  process' own status or that it knows none, and without a number it returns only when no
  background process is left; lost processes aside. `ReportInv` adds to
  `KnownInv` what the shell has not forgotten (`TableReports`): every child is in the table
  with an entry that runs (`Attended`), or `wait` would not wait for it; a job is all in the
  foreground or all in the background, and only its last process can be that of `$!`
  (`PipeReports`); a saved status is the process' own, or that of one that was lost
  (`SavedReports`); and of one number there is one saved status, and none while a job holds
  the number (`SavedApart`), so that what `find_job` and `bgp_search` come upon first is all
  there is. `MainReports` says the same of the pipeline that is being built, and that what
  is waited for outside the `wait` builtin is in the foreground.
  `StatusIsKept`: the action property `StatusKept`, for every step. What a step does to the
  table is one of a few relations: it saves what it removes (`Saves`), marks
  jobs but leaves their processes (`Alike`), records only processes of jobs that have not
  ended (`DeadKept`), or takes the old jobs and saved status of
  one number out when it is given again. Each implies `Stays`, which follows jobs through the
  slots that they are moved to, so that the theorem on `Stays` (`KnownStays`) is needed once.

What is defined by a fold or by a recursive function (`FlattenSeq`, `FoldLeft`, `FoldSet`)
is reached by sets of numbers: a property of all numbers is shown by the set of those that
have it, which is closed (`NaturalsClosed`), or by the least one that has not
(`LeastNatural`); from these, that a fold exists and is unique (`FoldExists`, `FoldUnique`).

Only model-checked:

- the liveness properties (`CallsReturn`, `Terminates`, `TranslationEnds`, `WordsTranslated`,
  `EveryScriptTranslated`, `WaitsReturn`), which are out of the prover's reach;
- what is stated with recursive operators: `OutputIsFlattened`, the properties of `ArithExpr`
  (two recursive descents), `WellTyped` and `ConvertedOnce` (the reader in `MCFixString`);
- `ConnectionsMatch`, `PlainScriptsHaveLayout`, `HereDocumentsPrinted` and
  `StatementsWellPlaced`, which are about the text: an invariant would have to say of every
  line what the operations still on the stack will add to it;
- `WordsIndependent`, which compares two runs, the second of which starts from globals
  that are neutral but not equal;
- `PoolsSuffice` and `PrintedAsMeant`: the run of `Dynamo` has no bound.

## 6. Not modelled

- `Emitter`: the text of words, expressions, patterns and redirections, the number of
  a return-code variable (`_rcN`), the prefix of `time`.
  `print_redirection` tests `redirector` before it is assigned
  (`translate.c:212`); which of two texts it then prints is not told apart.
- `FunctionSchedule`: the texts between items; the count of positional parameters
  is 1..9, as `${10}` goes another way.
- `Prelude`, `Dynamo`: the bodies of the definitions but for their lines and the names in
  them, what `expand_macros` replaces, the sizes of the text buffers.
- `ArithExpr`: the empty subscript `x[]`, the values (so `/` on negative numbers, where `//` rounds
  differently), characters between lexemes, and what happens after
  `translation_error`, whose longjmp has no setjmp.
- `FixString`: the characters within a part, nested brace expansions, and the memory that is
  read uninitialised on some of these paths. Of the forms of `${...}`: the substring
  `${x:y:z}` (`fix_string.c:1008-1092`), which inserts into `g_buffer` what it reads, the
  indirection `${!x}` with its forms for prefixes and indices (769-792, 1000-1006); `%` and
  the other functions of `emitFunction` go the ways of `#` and of `:-`, which stand for them.
  The tilde (`emitTilde`).
- `Session`: the buffers of 32 bytes for names (`shell.c:771`); a script from standard
  input, which is read only when there is an argument.
- `Jobs`: job control, printing, and a process number used twice within one pipeline. A
  failing `fork` (`jobs.c:1771-1784`) and `pipefail` (2347). The test of `this_shell_builtin`
  (`jobs.c:2502`, `trap.c:444`) is taken as "in `wait`"; the global keeps its value after
  `wait` has returned, until the next built-in.
- The call logger: its stack matters only to diagnostics, and its balance is a
  property of each early return of every routine that logs, which the models of
  those routines do not distinguish.
- The parser is generated code. The rest of bash (about 140,000 of the tree's lines:
  execution, expansion, built-ins, readline, glob, malloc) is bash 4.3.30 unchanged
  and not reached during a translation. This is why the share of all the lines of the
  tree that the modules cover is small, while of the files that make bash2py
  different from bash nearly all is covered. The analyzers are scripts over the log.
