--------------------------- MODULE FunctionSchedule ---------------------------
(***************************************************************************)
(* translate.c: how the function definitions of a script are printed.      *)
(*                                                                         *)
(* print_function_def builds one definition: the header goes to g_output,  *)
(* g_output and the single static buffer "save" are exchanged, the body is *)
(* emitted into the (emptied) g_output while parameters, global names and  *)
(* inner definitions are collected on the side, and the two are merged.    *)
(* It must therefore never run inside itself: a definition met while a     *)
(* body is being emitted is appended to a queue (a linked list with a head *)
(* and a tail pointer), which print_function_def_subtree services once the *)
(* outer definition is done.                                               *)
(*                                                                         *)
(* A body is a sequence of items: what the commands in it do to this       *)
(* state.  The text of the buffers is a sequence of tokens.                *)
(***************************************************************************)
EXTENDS Naturals, Sequences

CONSTANTS
  Name,         \* function names
  Def,          \* the definitions in the scripts (two may have one name)
  NoDef,        \* not a definition
  NameOf,       \* [Def -> Name]
  Var,          \* variable names
  Programs      \* the scripts: [script : Seq(Item), body : [Def -> Seq(Item)]]

\* A definition, a command whose name may be a function's, an assignment and
\* a reference to a positional parameter.
Item ==
  [kind : {"def"}, d : Def]
  \union [kind : {"command"}, name : Name]
  \union [kind : {"assign"}, var : Var, local : BOOLEAN]
  \union [kind : {"parm"}, n : 1..9]

ASSUME NamesOfDefs == NameOf \in [Def -> Name] /\ NoDef \notin Def
ASSUME ProgramsAreItems ==
  Programs \subseteq [script : Seq(Item), body : [Def -> Seq(Item)]]

VARIABLES
  prog,         \* the script being translated
  at,           \* items of the script that have been translated
  phase,        \* "top", "body", "retire" or "queue"
  def,          \* the definition print_function_def is printing
  pos,          \* items of its body that have been emitted
  queued,       \* whether def came from the queue
  inside,       \* g_is_inside_function
  nodes,        \* the queue's nodes: [func, next, live], pointers are indices, 0 is NULL
  head, tail,   \* g_function_schedule_head, g_function_schedule_tail
  names,        \* g_function_namesP, last registered first
  globals,      \* g_variable_namesP
  parms,        \* g_function_parms_count
  saveParms,    \* save_parms of print_function_def
  output,       \* the text of g_output
  save,         \* the text of save
  printed       \* history: the names whose printing has begun

queue == <<nodes, head, tail>>
buffers == <<output, save>>
vars == <<prog, at, phase, def, pos, queued, inside, nodes, head, tail, names,
          globals, parms, saveParms, output, save, printed>>

Init ==
  /\ prog \in Programs
  /\ at = 0 /\ phase = "top"
  /\ def = NoDef /\ pos = 0 /\ queued = FALSE
  /\ inside = FALSE
  /\ nodes = <<>> /\ head = 0 /\ tail = 0
  /\ names = <<>> /\ globals = <<>>
  /\ parms = 0 /\ saveParms = 0
  /\ output = <<>> /\ save = <<>>
  /\ printed = <<>>

Body == prog.body[def]

\* The item emit_command comes to next, at top level or in a body.
AtTop(item) == phase = "top" /\ at < Len(prog.script) /\ item = prog.script[at + 1]
AtBody(item) == phase = "body" /\ pos < Len(Body) /\ item = Body[pos + 1]
Here(item) == AtTop(item) \/ AtBody(item)

Step ==
  \/ phase = "top" /\ at' = at + 1 /\ UNCHANGED pos
  \/ phase = "body" /\ pos' = pos + 1 /\ UNCHANGED at

Token(kind, what) == [tok |-> kind, is |-> what]

(***************************************************************************)
(* The items that are not definitions                                      *)
(***************************************************************************)
\* Mutant: only the last registered name is compared.
IsLastFunction(n) == names # <<>> /\ names[1] = n

IsInternalFunction(n) == \E i \in DOMAIN names : names[i] = n

\* print_simple_command: a call if the name is registered, else a subprocess
Command ==
  \E n \in Name :
    /\ Here([kind |-> "command", name |-> n])
    /\ output' = Append(output, Token(IF IsInternalFunction(n) THEN "call" ELSE "subprocess", n))
    /\ Step
    /\ UNCHANGED <<prog, phase, def, queued, inside, queue, names, globals,
                   parms, saveParms, save, printed>>

SeenGlobalFirst(v) == IF globals = <<>> THEN <<v>> ELSE globals

\* seen_global: the search leaves its pointer at NULL when the name is new,
\* so that the new entry becomes the list instead of being linked to its end.
SeenGlobal(v) == IF \E i \in DOMAIN globals : globals[i] = v THEN globals ELSE <<v>>

Assign ==
  \E v \in Var, local \in BOOLEAN :
    /\ Here([kind |-> "assign", var |-> v, local |-> local])
    /\ globals' = SeenGlobal(v)
    /\ output' = Append(output, Token("assign", v))
    /\ Step
    /\ UNCHANGED <<prog, phase, def, queued, inside, queue, names,
                   parms, saveParms, save, printed>>

\* $1 .. $9: a parameter of the function, or an argument of the script
Parameter ==
  \E n \in 1..9 :
    /\ Here([kind |-> "parm", n |-> n])
    /\ parms' = IF inside /\ parms < n THEN n ELSE parms
    /\ output' = Append(output, Token(IF inside THEN "parm" ELSE "argv", n))
    /\ Step
    /\ UNCHANGED <<prog, phase, def, queued, inside, queue, names, globals,
                   saveParms, save, printed>>

(***************************************************************************)
(* Definitions                                                             *)
(***************************************************************************)
\* Mutant: the body is appended to what save held, the body before it.
StartDefinitionAfterOld(d) ==
  /\ save' = Append(output, Token("def", d))
  /\ output' = save
  /\ inside' = TRUE
  /\ saveParms' = parms /\ parms' = 0
  /\ def' = d /\ pos' = 0 /\ phase' = "body"
  /\ printed' = Append(printed, NameOf[d])

\* print_function_def, up to the emission of the body
StartDefinition(d) ==
  /\ save' = Append(output, Token("def", d))
  /\ output' = <<>>
  /\ inside' = TRUE
  /\ saveParms' = parms /\ parms' = 0
  /\ def' = d /\ pos' = 0 /\ phase' = "body"
  /\ printed' = Append(printed, NameOf[d])

Register(d) == names' = <<NameOf[d]>> \o names

\* Mutant: a definition is printed where it stands.
DefinitionAnywhere ==
  \E d \in Def :
    /\ Here([kind |-> "def", d |-> d])
    /\ Register(d)
    /\ StartDefinition(d)
    /\ at' = at /\ queued' = FALSE
    /\ UNCHANGED <<prog, queue, globals>>

OuterDefinition ==
  \E d \in Def :
    /\ Here([kind |-> "def", d |-> d])
    /\ ~inside
    /\ Register(d)
    /\ StartDefinition(d)
    /\ at' = at + 1 /\ queued' = FALSE
    /\ UNCHANGED <<prog, queue, globals>>

\* Mutant: the definition is not stored in its node.
EmptyNode(d) == [func |-> NoDef, next |-> 0, live |-> TRUE]

NewNode(d) == [func |-> d, next |-> 0, live |-> TRUE]

\* Mutant: the tail is set for the first node only.
InnerDefinitionFirstTail ==
  \E d \in Def :
    /\ Here([kind |-> "def", d |-> d])
    /\ inside
    /\ Register(d)
    /\ LET new == Len(nodes) + 1
       IN  /\ nodes' = IF head = 0 \/ tail = 0 THEN Append(nodes, NewNode(d))
                       ELSE Append([nodes EXCEPT ![tail].next = new], NewNode(d))
           /\ head' = IF head = 0 THEN new ELSE head
           /\ tail' = IF head = 0 THEN new ELSE tail
    /\ Step
    /\ UNCHANGED <<prog, phase, def, queued, inside, globals, parms, saveParms,
                   buffers, printed>>

InnerDefinition ==
  \E d \in Def :
    /\ Here([kind |-> "def", d |-> d])
    /\ inside
    /\ Register(d)
    /\ LET new == Len(nodes) + 1
       IN  /\ nodes' = IF head = 0 \/ tail = 0 THEN Append(nodes, NewNode(d))
                       ELSE Append([nodes EXCEPT ![tail].next = new], NewNode(d))
           /\ head' = IF head = 0 THEN new ELSE head
           /\ tail' = new
    /\ Step
    /\ UNCHANGED <<prog, phase, def, queued, inside, globals, parms, saveParms,
                   buffers, printed>>

GlobalTokens == [i \in DOMAIN globals |-> Token("global", globals[i])]

\* print_function_def, after the emission of the body: the parameters and the
\* global declarations, then the body, are added to what was saved.
EndDefinition ==
  /\ phase = "body" /\ pos = Len(Body)
  /\ output' = save \o <<Token("parms", parms)>> \o GlobalTokens \o output
  /\ save' = output
  /\ globals' = <<>>
  /\ parms' = saveParms
  /\ inside' = FALSE
  /\ phase' = IF queued THEN "retire" ELSE "queue"
  /\ UNCHANGED <<prog, at, def, pos, queued, queue, names, saveParms, printed>>

\* Mutant: the newest definition is printed first.
ServiceTail ==
  /\ phase = "queue" /\ head # 0
  /\ StartDefinition(nodes[tail].func)
  /\ queued' = TRUE
  /\ UNCHANGED <<prog, at, queue, names, globals>>

\* print_function_def_subtree's loop: print the head of the queue ...
ServiceQueue ==
  /\ phase = "queue" /\ head # 0
  /\ StartDefinition(nodes[head].func)
  /\ queued' = TRUE
  /\ UNCHANGED <<prog, at, queue, names, globals>>

\* ... and unlink and free it.
Retire ==
  /\ phase = "retire"
  /\ nodes' = [nodes EXCEPT ![head].live = FALSE]
  /\ head' = nodes[head].next
  /\ phase' = "queue"
  /\ UNCHANGED <<prog, at, def, pos, queued, inside, tail, names, globals,
                 parms, saveParms, buffers, printed>>

\* Mutant: the loop ends when the tail is NULL.
QueueDoneByTail ==
  /\ phase = "queue" /\ head = 0
  /\ phase' = IF tail = 0 THEN "top" ELSE "queue"
  /\ UNCHANGED <<prog, at, def, pos, queued, inside, queue, names, globals,
                 parms, saveParms, buffers, printed>>

QueueDone ==
  /\ phase = "queue" /\ head = 0
  /\ phase' = "top"
  /\ UNCHANGED <<prog, at, def, pos, queued, inside, queue, names, globals,
                 parms, saveParms, buffers, printed>>

Done ==
  /\ phase = "top" /\ at = Len(prog.script)
  /\ UNCHANGED vars

Translate ==
  \/ Command \/ Assign \/ Parameter
  \/ OuterDefinition \/ InnerDefinition
  \/ EndDefinition \/ ServiceQueue \/ Retire \/ QueueDone

Next == Translate \/ Done

Spec == Init /\ [][Next]_vars

\* One thread: as long as there is something to translate it is translated.
FairSpec == Spec /\ WF_vars(Translate)

-------------------------------------------------------------------------------
TokenT == [tok : {"def", "global", "assign", "call", "subprocess", "parm", "argv", "parms"},
           is : Def \union Var \union Name \union (0..9)]

\* The values every variable may take, and that a node's func is a definition.
TypeOK ==
  /\ prog \in Programs
  /\ at \in 0..Len(prog.script)
  /\ phase \in {"top", "body", "retire", "queue"}
  /\ phase # "top" => def \in Def
  /\ phase = "body" => pos \in 0..Len(Body)
  /\ queued \in BOOLEAN /\ inside \in BOOLEAN
  /\ nodes \in Seq([func : Def, next : Nat, live : BOOLEAN])
  /\ head \in 0..Len(nodes) /\ tail \in 0..Len(nodes)
  /\ names \in Seq(Name) /\ globals \in Seq(Var)
  /\ parms \in 0..9 /\ saveParms \in 0..9
  /\ output \in Seq(TokenT) /\ save \in Seq(TokenT)
  /\ printed \in Seq(Name)

\* While one body is emitted nobody else takes the one save buffer, and nothing
\* that print_function_def will need when it is done is overwritten.
SaveHasOneUser ==
  [][inside /\ inside' => UNCHANGED <<def, queued, save, saveParms>>]_vars

\* The queue: the nodes that have not been freed are those from head to tail,
\* in that order and linked in it; when the queue is empty nothing is left
\* allocated.  (The stale tail that the service loop leaves is never followed.)
QueueSound ==
  LET first == IF head = 0 THEN Len(nodes) + 1 ELSE head
  IN  /\ head # 0 => tail = Len(nodes)
      /\ \A i \in 1..Len(nodes) :
           /\ nodes[i].live <=> i >= first
           /\ i >= first => nodes[i].next = IF i = Len(nodes) THEN 0 ELSE i + 1

\* In the script that was produced, a function is never run as an external
\* command by what follows the line that defines it, its own body included.
CallsFunctions ==
  phase = "top" =>
    \A i, j \in DOMAIN output :
      i < j /\ output[i].tok = "def" /\ output[j].tok = "subprocess" =>
        output[j].is # NameOf[output[i].is]

\* Of the variables that a body assigns, the last one at least is declared global in
\* its definition, although the script, the function being printed and those in the
\* queue share one registry.  (seen_global makes a new name the registry instead of
\* adding it, so that the others are missing; it notes that a variable is local, and
\* nobody looks at the note.)
Tokens(d) == {i \in DOMAIN output :
                \E h \in 1..i : /\ output[h] = Token("def", d)
                                /\ \A k \in (h + 1)..i : output[k].tok # "def"}
Assigns(item) == item.kind = "assign"
LastGlobalDeclared ==
  phase = "top" =>
    \A d \in Def : Tokens(d) # {} =>
      \A i \in DOMAIN prog.body[d] :
        /\ Assigns(prog.body[d][i])
        /\ \A j \in DOMAIN prog.body[d] : j > i => ~Assigns(prog.body[d][j])
        => \E k \in Tokens(d) : output[k] = Token("global", prog.body[d][i].var)

\* In a script and in its functions every name is what it is in bash, as far as one
\* registry of functions and one of variables can tell.
NamesResolved == TypeOK /\ CallsFunctions /\ LastGlobalDeclared

Reversed(s) == [i \in 1..Len(s) |-> s[Len(s) + 1 - i]]

Order == INSTANCE DefinitionOrder WITH seen <- Reversed(names)

\* Every definition is printed exactly once, in the order in which they were
\* come upon, and all of them are.
PrintsInOrder == Order!Spec

\* The translation of the script ends.
Terminates == <>(phase = "top" /\ at = Len(prog.script))
===============================================================================
