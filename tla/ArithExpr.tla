------------------------------- MODULE ArithExpr -------------------------------
(***************************************************************************)
(* translate_expr.c: arithmetic expressions are parsed into a tree and the *)
(* tree is printed as a Python expression.  "This is an adaptation of      *)
(* bash's expr.c": the parser of expr.c is the reference here, and Python's *)
(* reading of the printed text is the other one.                           *)
(*                                                                         *)
(* The input is a sequence of lexemes, spaces between them except before   *)
(* the bracket of a subscript.  Tree is what each parser builds; it        *)
(* records the conversions (makeValue, makeClass) as nodes, as the code    *)
(* does.  A parser's result says whether  *)
(* it succeeded (translation_error does not return), the tree, and the     *)
(* position of the next lexeme (g_atP).                                    *)
(***************************************************************************)
EXTENDS Naturals, Sequences, SequencesExt

CONSTANTS
  Inputs,       \* bounds the inputs: what lexemes there may be in one, and how many
  AllowArray    \* g_allow_array

ASSUME InputsAreBounded == \A in \in Inputs : in.length \in Nat
ASSUME AllowArrayIsBoolean == AllowArray \in BOOLEAN

VARIABLE tokens
vars == <<tokens>>

Init == tokens = <<>>

\* Every input that the bounds allow is a state.
CanFollow(t) ==
  \E in \in Inputs :
    /\ Len(tokens) < in.length
    /\ ToSet(tokens) \union {t} \subseteq in.lexemes

Extend == \E in \in Inputs : \E t \in in.lexemes : CanFollow(t) /\ tokens' = Append(tokens, t)

Complete ==
  /\ \A in \in Inputs : \A t \in in.lexemes : ~CanFollow(t)
  /\ UNCHANGED vars

Next == Extend \/ Complete
Spec == Init /\ [][Next]_vars

(***************************************************************************)
(* Lexemes, trees, results                                                 *)
(***************************************************************************)
Numbers == {"0", "1", "2"}
Names == {"x", "y"}

Assignments == {"=", "+=", "*="}
Steps == {"++", "--"}

\* The binary operators, loosest first.  Mutant: ^ binds tighter than &.
LevelsSwapped ==
  << {"||"}, {"&&"}, {"|"}, {"&"}, {"^"}, {"==", "!="}, {"<", "<=", ">", ">="},
     {"<<", ">>"}, {"+", "-"}, {"*", "/", "%"}, {"**"} >>

Levels ==
  << {"||"}, {"&&"}, {"|"}, {"^"}, {"&"}, {"==", "!="}, {"<", "<=", ">", ">="},
     {"<<", ">>"}, {"+", "-"}, {"*", "/", "%"}, {"**"} >>
Power == Len(Levels)
BinaryOps == UNION {Levels[k] : k \in DOMAIN Levels}

Tree(op, kids) == [op |-> op, kids |-> kids]
Leaf(lexeme) == Tree(lexeme, <<>>)

Parsed(tree, at) == [ok |-> TRUE, tree |-> tree, at |-> at]
Failed == [ok |-> FALSE]

\* What comes after a part p has been read; an error ends it all.
IfParsed(p, Rest(_)) == IF p.ok THEN Rest(p) ELSE Failed

ReadAt(s, i, set) == i \in DOMAIN s /\ s[i] \in set
At(i, set) == ReadAt(tokens, i, set)

(***************************************************************************)
(* makeValue and makeClass                                                 *)
(***************************************************************************)
\* m_returns
Returns(t) ==
  IF t.op \in Names THEN "variable"
  ELSE IF t.op = "[]" THEN "array"
  ELSE IF t.op \in {"Make", "pre", "post"} \union Assignments THEN "class"
  ELSE "number"

\* Mutant: a variable is used as it is.
ValueOfClass(t) == IF Returns(t) = "class" THEN Tree(".val", <<t>>) ELSE t

Value(t) == IF Returns(t) \in {"class", "variable"} THEN Tree(".val", <<t>>) ELSE t

HasClass(t) == Returns(t) # "number"
Class(t) == IF Returns(t) = "variable" THEN Tree("Make", <<t>>) ELSE t

(***************************************************************************)
(* The parser.  Every routine below it is called with the position of its  *)
(* first lexeme.                                                           *)
(***************************************************************************)
RECURSIVE Comma(_), Assign(_), Cond(_), Binary(_, _), Unary(_), MoreComma(_)

\* translate_variable, translate_array
Variable(i) == IF At(i, Names) THEN Parsed(Leaf(tokens[i]), i + 1) ELSE Failed

Closed(p, bracket, tree) == IF At(p.at, {bracket}) THEN Parsed(tree, p.at + 1) ELSE Failed

ArrayElement(i) ==
  IfParsed(Variable(i), LAMBDA v :
    IF ~AllowArray \/ ~At(v.at, {"["}) THEN v
    ELSE IfParsed(Comma(v.at + 1), LAMBDA s :
           Closed(s, "]", Tree("[]", <<Value(v.tree), Value(s.tree)>>))))

\* translate_post
Post(i) ==
  IfParsed(ArrayElement(i), LAMBDA a :
    IF At(a.at, Steps) THEN Parsed(Tree("post", <<Class(a.tree), Leaf(tokens[a.at])>>), a.at + 1)
    ELSE a)

\* translate_exp0
Exp0(i) ==
  IF At(i, Numbers) THEN Parsed(Leaf(tokens[i]), i + 1)
  ELSE IF At(i, {"("}) THEN IfParsed(Comma(i + 1), LAMBDA e : Closed(e, ")", e.tree))
  ELSE IF At(i, Steps)
  THEN IfParsed(ArrayElement(i + 1), LAMBDA a :
         Parsed(Tree("pre", <<Class(a.tree), Leaf(tokens[i])>>), a.at))
  ELSE Post(i)

\* translate_unary: a plus is discarded
Signs == ("-" :> "neg") @@ ("!" :> "!") @@ ("~" :> "~")

Signed(i, u) == IfParsed(u, LAMBDA v : Parsed(Tree(Signs[tokens[i]], <<Value(v.tree)>>), v.at))

\* Mutant: one sign.
UnaryOnce(i) ==
  IF At(i, {"+"}) THEN Exp0(i + 1)
  ELSE IF At(i, DOMAIN Signs) THEN Signed(i, Exp0(i + 1))
  ELSE Exp0(i)

Unary(i) ==
  IF At(i, {"+"}) THEN Unary(i + 1)
  ELSE IF At(i, DOMAIN Signs) THEN Signed(i, Unary(i + 1))
  ELSE Exp0(i)

\* translate_lor, ..., translate_power: "if", and the same level on the right.
\* Mutant: the next level on the right, so that a chain is cut off.
BinaryOnce(k, i) ==
  IF k > Power THEN Unary(i)
  ELSE IfParsed(Binary(k + 1, i), LAMBDA left :
         IF ~At(left.at, Levels[k]) THEN left
         ELSE IfParsed(Binary(k + 1, left.at + 1), LAMBDA right :
                Parsed(Tree(tokens[left.at], <<Value(left.tree), Value(right.tree)>>), right.at)))

Binary(k, i) ==
  IF k > Power THEN Unary(i)
  ELSE IfParsed(Binary(k + 1, i), LAMBDA left :
         IF ~At(left.at, Levels[k]) THEN left
         ELSE IfParsed(Binary(k, left.at + 1), LAMBDA right :
                Parsed(Tree(tokens[left.at], <<Value(left.tree), Value(right.tree)>>), right.at)))

\* translate_cond
Cond(i) ==
  IfParsed(Binary(1, i), LAMBDA c :
    IF ~At(c.at, {"?"}) THEN c
    ELSE IfParsed(Comma(c.at + 1), LAMBDA a :
           IF ~At(a.at, {":"}) THEN Failed
           ELSE IfParsed(Cond(a.at + 1), LAMBDA b :
                  Parsed(Tree("?", <<Value(c.tree), Value(a.tree), Value(b.tree)>>), b.at))))

\* translate_assign
Assign(i) ==
  IfParsed(Cond(i), LAMBDA v :
    IF ~At(v.at, Assignments) THEN v
    ELSE IfParsed(Assign(v.at + 1), LAMBDA e :
           IF ~HasClass(v.tree) THEN Failed
           ELSE Parsed(Tree(tokens[v.at], <<Class(v.tree), Value(e.tree)>>), e.at)))

\* translate_comma: one node for all that the commas separate
Comma(i) ==
  IfParsed(Assign(i), LAMBDA e :
    IF ~At(e.at, {","}) THEN e ELSE MoreComma(Parsed(Tree(",", <<Value(e.tree)>>), e.at)))

MoreComma(sofar) ==
  IF ~At(sofar.at, {","}) THEN sofar
  ELSE IfParsed(Assign(sofar.at + 1), LAMBDA e :
         MoreComma(Parsed(Tree(",", Append(sofar.tree.kids, Value(e.tree))), e.at)))

\* translate_arithmetic_expr: what follows the expression is not looked at.
Translation == Comma(1)

(***************************************************************************)
(* print_translation                                                       *)
(***************************************************************************)
\* Mutant: no parentheses.
ParensNot(text) == text

Parens(text) == <<"(">> \o text \o <<")">>

RECURSIVE Printed(_)
Printed(t) ==
  LET kid(n) == Printed(t.kids[n])
  IN  IF t.kids = <<>> THEN <<t.op>>
      ELSE IF t.op = "[]" THEN kid(1) \o <<"[">> \o kid(2) \o <<"]">>
      ELSE IF t.op = "Make" THEN <<"Make">> \o kid(1)
      ELSE IF t.op = ".val" THEN kid(1) \o <<".val">>
      ELSE IF t.op \in {"pre", "post"} THEN kid(1) \o <<t.op>> \o kid(2)
      ELSE IF t.op = "neg" THEN <<"-">> \o kid(1)
      ELSE IF t.op \in {"!", "~"} THEN <<t.op>> \o kid(1)
      ELSE IF t.op = "?" THEN Parens(kid(2) \o <<"if">> \o kid(1) \o <<"else">> \o kid(3))
      ELSE IF t.op \in Assignments THEN kid(1) \o <<t.op>> \o Parens(kid(2))
      ELSE IF t.op = ","
      THEN LET n == Len(t.kids)
           IN  Parens(FlattenSeq([i \in 1..(n - 1) |-> Parens(kid(i)) \o <<"*0+">>]) \o Parens(kid(n)))
      ELSE Parens(kid(1) \o <<t.op>> \o kid(2))

(***************************************************************************)
(* expr.c: the same operators, read by loops (the power operator aside).   *)
(* Its tree has a node for a pair of parentheses.                          *)
(***************************************************************************)
ExpLevels ==
  << {"||"}, {"&&"}, {"|"}, {"^"}, {"&"}, {"!=", "=="}, {"<=", ">=", "<", ">"},
     {"<<", ">>"}, {"+", "-"}, {"%", "*", "/"}, {"**"} >>

\* readtok: "++" is two signs, unless a name follows or it steps the variable
\* that was just read.  The second sign is a lexeme of its own here.
Halves == ("++" :> "+") @@ ("--" :> "-")
Lexemes == FlattenSeq([i \in DOMAIN tokens |->
                         IF tokens[i] \in Steps THEN <<tokens[i], Halves[tokens[i]]>> ELSE <<tokens[i]>>])

Token(s, i) == IF s[i] \in Steps /\ ~ReadAt(s, i + 2, Names) THEN s[i + 1] ELSE s[i]
IsToken(s, i, set) == i \in DOMAIN s /\ Token(s, i) \in set

\* lasttok = STR: what was read last is a variable.  (|| and && and ?: set lasttok.)
RECURSIVE EndsInVariable(_)
EndsInVariable(t) ==
  \/ t.op \in Names \union {"[]"}
  \/ t.op \in (BinaryOps \ {"||", "&&"}) \union {"neg", "!", "~"} /\ EndsInVariable(Last(t.kids))

RECURSIVE ExpComma(_, _), ExpAssign(_, _), ExpCond(_, _), ExpLevel(_, _, _), ExpLoop(_, _, _),
          Exp1(_, _), ExpMore(_, _)

ExpClosed(s, p, bracket, tree) == IF ReadAt(s, p.at, {bracket}) THEN Parsed(tree, p.at + 1) ELSE Failed

ExpVariable(s, i) ==
  IF ~ReadAt(s, i, Names) THEN Failed
  ELSE IF ~AllowArray \/ ~ReadAt(s, i + 1, {"["}) THEN Parsed(Leaf(s[i]), i + 1)
  ELSE IfParsed(ExpComma(s, i + 2), LAMBDA e : ExpClosed(s, e, "]", Tree("[]", <<Leaf(s[i]), e.tree>>)))

ExpOperand(s, i) ==
  IF IsToken(s, i, Steps)
  THEN IfParsed(ExpVariable(s, i + 2), LAMBDA v : Parsed(Tree("pre", <<v.tree, Leaf(s[i])>>), v.at))
  ELSE IF ReadAt(s, i, {"("})
  THEN IfParsed(ExpComma(s, i + 1), LAMBDA e : ExpClosed(s, e, ")", Tree("()", <<e.tree>>)))
  ELSE IF ReadAt(s, i, Numbers) THEN Parsed(Leaf(s[i]), i + 1)
  ELSE IfParsed(ExpVariable(s, i), LAMBDA v :
         IF ReadAt(s, v.at, Steps) THEN Parsed(Tree("post", <<v.tree, Leaf(s[v.at])>>), v.at + 2)
         ELSE v)

Exp1(s, i) ==
  IF IsToken(s, i, {"+"}) THEN Exp1(s, i + 1)
  ELSE IF IsToken(s, i, DOMAIN Signs)
  THEN IfParsed(Exp1(s, i + 1), LAMBDA e : Parsed(Tree(Signs[Token(s, i)], <<e.tree>>), e.at))
  ELSE ExpOperand(s, i)

ExpLevel(s, k, i) == IF k > Power THEN Exp1(s, i) ELSE ExpLoop(s, k, ExpLevel(s, k + 1, i))

ExpLoop(s, k, p) ==
  IfParsed(p, LAMBDA left :
    IF ~IsToken(s, left.at, ExpLevels[k]) THEN left
    ELSE IfParsed(ExpLevel(s, IF k = Power THEN k ELSE k + 1, left.at + 1), LAMBDA right :
           ExpLoop(s, k, Parsed(Tree(Token(s, left.at), <<left.tree, right.tree>>), right.at))))

ExpCond(s, i) ==
  IfParsed(ExpLevel(s, 1, i), LAMBDA c :
    IF ~ReadAt(s, c.at, {"?"}) THEN c
    ELSE IfParsed(ExpComma(s, c.at + 1), LAMBDA a :
           IF ~ReadAt(s, a.at, {":"}) THEN Failed
           ELSE IfParsed(ExpCond(s, a.at + 1), LAMBDA b :
                  Parsed(Tree("?", <<c.tree, a.tree, b.tree>>), b.at))))

ExpAssign(s, i) ==
  IfParsed(ExpCond(s, i), LAMBDA v :
    IF ~ReadAt(s, v.at, Assignments) THEN v
    ELSE IF ~EndsInVariable(v.tree) THEN Failed
    ELSE IfParsed(ExpAssign(s, v.at + 1), LAMBDA e :
           Parsed(Tree(s[v.at], <<v.tree, e.tree>>), e.at)))

ExpComma(s, i) == ExpMore(s, ExpAssign(s, i))

ExpMore(s, p) ==
  IfParsed(p, LAMBDA left :
    IF ~ReadAt(s, left.at, {","}) THEN left
    ELSE IfParsed(ExpAssign(s, left.at + 1), LAMBDA right :
           ExpMore(s, Parsed(Tree(",", <<left.tree, right.tree>>), right.at))))

\* subexpr: a blank is 0; all of the input is an expression, or there is an error.
Expression == IF tokens = <<>> THEN Parsed(Leaf("0"), 1) ELSE ExpComma(Lexemes, 1)
Valid == Expression.ok /\ Expression.at = Len(Lexemes) + 1

(***************************************************************************)
(* Python: how the printed text is read.  Everything binary is printed in  *)
(* parentheses of its own, so that of Python's precedences two matter: a   *)
(* suffix binds tightest, and ** binds tighter than a sign on its left.    *)
(***************************************************************************)
PythonSigns == ("-" :> "neg") @@ ("~" :> "~")
PythonOps == BinaryOps \ {"&&", "||", "**"}

RECURSIVE PyInner(_, _), PyUnary(_, _), PyTrailers(_, _), PyComma(_, _)

PyClosed(s, p, bracket, tree) == IF ReadAt(s, p.at, {bracket}) THEN Parsed(tree, p.at + 1) ELSE Failed

PyAtom(s, i) ==
  IF ReadAt(s, i, Numbers \union Names) THEN Parsed(Leaf(s[i]), i + 1)
  ELSE IF ReadAt(s, i, {"Make"}) /\ ReadAt(s, i + 1, Names)
  THEN Parsed(Tree("Make", <<Leaf(s[i + 1])>>), i + 2)
  ELSE IF ReadAt(s, i, {"("})
  THEN IfParsed(PyInner(s, i + 1), LAMBDA e : PyClosed(s, e, ")", e.tree))
  ELSE Failed

\* .val, .preinc(n), [e], .setValue(e)
PyTrailers(s, atom) ==
  IfParsed(atom, LAMBDA p :
    IF ReadAt(s, p.at, {".val"}) THEN PyTrailers(s, Parsed(Tree(".val", <<p.tree>>), p.at + 1))
    ELSE IF ReadAt(s, p.at, {"pre", "post"}) /\ ReadAt(s, p.at + 1, Steps)
    THEN PyTrailers(s, Parsed(Tree(s[p.at], <<p.tree, Leaf(s[p.at + 1])>>), p.at + 2))
    ELSE IF ReadAt(s, p.at, {"["})
    THEN PyTrailers(s, IfParsed(PyInner(s, p.at + 1), LAMBDA e :
           PyClosed(s, e, "]", Tree("[]", <<p.tree, e.tree>>))))
    ELSE IF ReadAt(s, p.at, Assignments) /\ ReadAt(s, p.at + 1, {"("})
    THEN PyTrailers(s, IfParsed(PyInner(s, p.at + 2), LAMBDA e :
           PyClosed(s, e, ")", Tree(s[p.at], <<p.tree, e.tree>>))))
    ELSE p)

PyUnary(s, i) ==
  IF ReadAt(s, i, DOMAIN PythonSigns)
  THEN IfParsed(PyUnary(s, i + 1), LAMBDA e : Parsed(Tree(PythonSigns[s[i]], <<e.tree>>), e.at))
  ELSE IfParsed(PyTrailers(s, PyAtom(s, i)), LAMBDA p :
         IF ~ReadAt(s, p.at, {"**"}) THEN p
         ELSE IfParsed(PyUnary(s, p.at + 1), LAMBDA e :
                Parsed(Tree("**", <<p.tree, e.tree>>), e.at)))

\* (a)*0+(b)*0+(c)
PyComma(s, p) ==
  IF ~ReadAt(s, p.at, {"*0+"}) THEN p
  ELSE IfParsed(PyAtom(s, p.at + 1), LAMBDA e :
         PyComma(s, Parsed(Tree(",", Append(p.tree.kids, e.tree)), e.at)))

PyInner(s, i) ==
  IfParsed(PyUnary(s, i), LAMBDA e :
    IF ReadAt(s, e.at, PythonOps)
    THEN IfParsed(PyUnary(s, e.at + 1), LAMBDA f :
           Parsed(Tree(s[e.at], <<e.tree, f.tree>>), f.at))
    ELSE IF ReadAt(s, e.at, {"*0+"}) THEN PyComma(s, Parsed(Tree(",", <<e.tree>>), e.at))
    ELSE IF ReadAt(s, e.at, {"if"})
    THEN IfParsed(PyUnary(s, e.at + 1), LAMBDA c :
           IF ~ReadAt(s, c.at, {"else"}) THEN Failed
           ELSE IfParsed(PyUnary(s, c.at + 1), LAMBDA f :
                  Parsed(Tree("?", <<c.tree, e.tree, f.tree>>), f.at)))
    ELSE e)

Python == PyInner(Printed(Translation.tree), 1)
PythonReads == Python.ok /\ Python.at = Len(Printed(Translation.tree)) + 1

(***************************************************************************)
(* Properties                                                              *)
(***************************************************************************)
\* The tree without the conversions, and one comma for every two operands.
RECURSIVE Plain(_)
Plain(t) ==
  IF t.op \in {".val", "Make"} THEN Plain(t.kids[1])
  ELSE LET kids == [i \in DOMAIN t.kids |-> Plain(t.kids[i])]
       IN  IF t.op = "," THEN FoldLeft(LAMBDA a, b : Tree(",", <<a, b>>), kids[1], Tail(kids))
           ELSE Tree(t.op, kids)

\* Of (a op b) op c, with two operators of one level, the tree a op (b op c).
SameLevel(op1, op2) == \E k \in DOMAIN ExpLevels : {op1, op2} \subseteq ExpLevels[k]
IsChain(t) == Len(t.kids) = 2 /\ SameLevel(t.op, t.kids[1].op)

RECURSIVE RightGrouped(_), WithoutParens(_), Subtrees(_), Stepped(_)
RightGrouped(t) ==
  IF IsChain(t)
  THEN LET left == t.kids[1]
       IN  RightGrouped(Tree(left.op, <<left.kids[1], Tree(t.op, <<left.kids[2], t.kids[2]>>)>>))
  ELSE Tree(t.op, [i \in DOMAIN t.kids |-> RightGrouped(t.kids[i])])

WithoutParens(t) ==
  IF t.op = "()" THEN WithoutParens(t.kids[1])
  ELSE Tree(t.op, [i \in DOMAIN t.kids |-> WithoutParens(t.kids[i])])

Subtrees(t) == {t} \union UNION {Subtrees(t.kids[i]) : i \in DOMAIN t.kids}

\* How many ++ and -- of the input step a variable.
Stepped(t) ==
  FoldLeft(LAMBDA n, kid : n + Stepped(kid), IF t.op \in {"pre", "post"} THEN 1 ELSE 0, t.kids)

\* What bash evaluates and the translator does not read: a blank; a ++ or --
\* that is two signs (++1, 1--1); an assignment to the variable that the operand
\* on its left ends with (1+x=2, -x=1).
Unread ==
  \/ tokens = <<>>
  \/ Stepped(Expression.tree) # Len(SelectSeq(tokens, LAMBDA t : t \in Steps))
  \/ \E t \in Subtrees(Expression.tree) :
       t.op \in Assignments /\ t.kids[1].op \notin Names \union {"[]"}

\* Read to its last lexeme: without translation_error, whose longjmp has no
\* setjmp, and without an end that is dropped.
ReadToEnd == Translation.ok /\ Translation.at = Len(tokens) + 1

\* Some operator follows another of its level on the left: x-1-1, 1<x<2.
Chained == \E t \in Subtrees(Expression.tree) : IsChain(t)

\* The translator reads what bash evaluates, except for what Unread names, and
\* to the same tree: parentheses, precedence, order of operands.  The exception
\* is a chain of operators of one level, which bash groups to the left and the
\* translator, whose levels recurse where bash's loop, to the right.
ReadAsInBash ==
  Valid =>
    IF Unread THEN ~ReadToEnd
    ELSE /\ ReadToEnd
         /\ Plain(Translation.tree) =
              WithoutParens(IF Chained THEN RightGrouped(Expression.tree) ELSE Expression.tree)

\* What an operator or a subscript is applied to is a value and not an object,
\* and what is assigned to or stepped is an object or an element.
RECURSIVE WellTyped(_)
WellTyped(t) ==
  /\ \A i \in DOMAIN t.kids : WellTyped(t.kids[i])
  /\ t.op \in BinaryOps \union {"?", ",", "neg", "!", "~", "[]"} =>
       \A i \in DOMAIN t.kids : Returns(t.kids[i]) \in {"number", "array"}
  /\ t.op \in Assignments \union {"pre", "post"} =>
       Returns(t.kids[1]) \in {"class", "array"} /\ Returns(t.kids[2]) \in {"number", "array"}
OperandsConverted == Translation.ok => WellTyped(Translation.tree)

\* The text that is printed is a Python expression, and Python reads it as the
\* tree it was printed from, whatever Python's precedences are ("rather too many
\* parenthesis are preferred to too few").
PythonReadsTree == Translation.ok => PythonReads /\ Python.tree = Translation.tree

\* What is printed as it is, but is not in Python's grammar or binds otherwise
\* there: bash's logical operators, and a sign before the base of a power.
RECURSIVE Unlike(_)
Unlike(t) ==
  \/ t.op \in {"&&", "||", "!"}
  \/ t.op = "**" /\ t.kids[1].op \in {"neg", "~"}
  \/ \E i \in DOMAIN t.kids : Unlike(t.kids[i])

\* Those aside, Python reads the text as the tree it was printed from.
PythonReadsTheRest == Translation.ok /\ ~Unlike(Translation.tree) => PythonReadsTree
===============================================================================
