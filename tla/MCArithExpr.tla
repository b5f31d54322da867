------------------------------ MODULE MCArithExpr ------------------------------
(* ArithExpr on every input of a small length, from different sets of lexemes. *)
EXTENDS ArithExpr

Kind(lexemes, length) == [lexemes |-> lexemes, length |-> length]

Operators == Kind({"1", "x", "-", "*", "**", "<", "&", "^", "(", ")"}, 5)
Others == Kind({"1", "x", "?", ":", "=", ",", "++", "[", "]"}, 6)
StepsAndSigns == Kind({"1", "x", "-", "--", "&&", "="}, 6)
MCInputs == {Operators, Others, StepsAndSigns}
===============================================================================
