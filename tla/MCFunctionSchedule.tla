-------------------------- MODULE MCFunctionSchedule --------------------------
(* FunctionSchedule on every way four definitions can be nested, two of them  *)
(* with the same name.                                                        *)
EXTENDS FunctionSchedule, SequencesExt

CONSTANTS f, g, h, x, y

MCDef == 1..4
MCNameOf == <<f, g, h, f>>

RunName(n) == [kind |-> "command", name |-> n]
Define(d) == [kind |-> "def", d |-> d]
Set(v) == [kind |-> "assign", var |-> v, local |-> FALSE]
Local(v) == [kind |-> "assign", var |-> v, local |-> TRUE]
Parm(n) == [kind |-> "parm", n |-> n]

\* The definitions nested directly in d (0: in the script itself), in order.
Nested(parent, d) == [i \in 1..Cardinality({e \in MCDef : parent[e] = d}) |->
                        SetToSortSeq({e \in MCDef : parent[e] = d}, <)[i]]
DefItems(parent, d) == [i \in DOMAIN Nested(parent, d) |-> Define(Nested(parent, d)[i])]

Parents == {p \in [MCDef -> 0..3] : \A d \in MCDef : p[d] < d}

\* Before and after the inner definitions, a body runs a command; it refers to
\* one positional parameter and assigns one variable.
Program(parent, n, m) ==
  [script |-> <<Set(x), Parm(3), RunName(n)>> \o DefItems(parent, 0) \o <<RunName(m)>>,
   body |-> [d \in MCDef |->
               <<Parm(d), Set(y), RunName(n), IF d = 2 THEN Local(x) ELSE Set(x)>>
                 \o DefItems(parent, d) \o <<RunName(m)>>]]

MCPrograms == {Program(p, n, m) : p \in Parents, n \in {f, g, h}, m \in {f, h}}

(***************************************************************************)
(* The reference: a script without its nesting.                            *)
(***************************************************************************)
Plain(items) == SelectSeq(items, LAMBDA it : it.kind # "def")

InnerOf(items) ==
  LET defs == SelectSeq(items, LAMBDA it : it.kind = "def")
  IN  [i \in DOMAIN defs |-> defs[i].d]

\* Breadth first, from a queue of definitions.
RECURSIVE BreadthFirst(_, _)
BreadthFirst(body, ds) ==
  IF ds = <<>> THEN <<>>
  ELSE <<Head(ds)>> \o BreadthFirst(body, Tail(ds) \o InnerOf(body[Head(ds)]))

Shape(item, in) ==
  CASE item.kind = "command" -> <<"command", item.name>>
    [] item.kind = "assign" -> <<"assign", item.var>>
    [] item.kind = "parm" -> <<IF in THEN "parm" ELSE "argv", item.n>>

MaxParm(items) ==
  LET used == {items[i].n : i \in {j \in DOMAIN items : items[j].kind = "parm"}}
  IN  IF used = {} THEN 0 ELSE CHOOSE n \in used : \A k \in used : k <= n

Printed(body, d) ==
  <<<<"def", d>>, <<"parms", MaxParm(body[d])>>>>
    \o [i \in DOMAIN Plain(body[d]) |-> Shape(Plain(body[d])[i], TRUE)]

Flat(p, n) ==
  FlattenSeq([i \in 1..n |->
    IF p.script[i].kind = "def"
    THEN LET order == BreadthFirst(p.body, <<p.script[i].d>>)
         IN  FlattenSeq([k \in DOMAIN order |-> Printed(p.body, order[k])])
    ELSE <<Shape(p.script[i], FALSE)>>])

ShapeOf(tok) == <<IF tok.tok \in {"call", "subprocess"} THEN "command" ELSE tok.tok, tok.is>>

\* Whenever a top-level command is done, g_output holds what the script up to
\* there says with every definition taken out of its enclosing one: complete,
\* with the number of its own parameters, in breadth-first order, and nothing
\* lost, duplicated or left in save (global declarations aside).
OutputIsFlattened ==
  phase = "top" =>
    LET plain == SelectSeq(output, LAMBDA t : t.tok # "global")
    IN  [i \in DOMAIN plain |-> ShapeOf(plain[i])] = Flat(prog, at)
===============================================================================
