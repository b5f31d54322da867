------------------------------- MODULE MCSession -------------------------------
(* Session with up to three arguments after the options, of which two get     *)
(* every pair of texts.                                                       *)
EXTENDS Session

MCFlags == {"-x", "-O"}
MCValued == {"-O"}

MCOutputOf ==
  [name \in {"a.sh", "a.bash", "b.sh", "gone.sh", "locked.sh", "extglob", "-x", "-O"} |->
     CASE name \in {"a.sh", "a.bash"} -> "a.py"
       [] name = "b.sh" -> "b.py"
       [] name = "gone.sh" -> "gone.py"
       [] name = "locked.sh" -> "locked.py"
       [] OTHER -> "extglob.py"]

MCUnwritable == {"locked.py"}

\* Options before the scripts, and anything but a valued option among them.
MCCommandLines ==
  LET Rest == DOMAIN MCOutputOf \ {"-O", "extglob"}
      Options == {<<>>, <<"-x">>, <<"-O", "extglob">>, <<"-O", "extglob", "-x">>}
  IN  {<<o>> : o \in Rest} \union
      UNION {{o \o <<s>>, o \o <<s, t>>} : o \in Options, s \in Rest, t \in Rest} \union
      {<<r, s, t>> : r \in {"a.sh", "b.sh"}, s \in Rest, t \in {"a.sh", "a.bash", "b.sh"}} \union Options

\* Scripts that change a global, that are printed by one, and that fail.
Some ==
  {<<<<"assign", "function">>, <<"call">>>>, <<<<"call", "function">>>>,
   <<<<"case", "background">>, <<"case", "background">>>>,
   <<<<"substitute">>, <<"pattern", "pattern">>>>, <<<<"substitute", "assign">>>>,
   <<<<"subscript", "match">>, <<"subscript", "match">>>>,
   <<<<"pattern">>, <<"error", "subscript">>, <<"call">>>>,
   <<<<"function", "fatal">>>>, <<<<"assign", "abort">>>>, <<>>}

MCTexts == [{"a.sh", "b.sh"} -> Some]

MCTextsAndAnother ==
  {[name \in {"a.sh", "b.sh", "a.bash", "locked.sh"} |->
      IF name \in {"a.sh", "b.sh"} THEN t[name] ELSE <<<<"call", "pattern">>>>] : t \in MCTexts}
================================================================================
