----------------------------- MODULE MCFixString -----------------------------
EXTENDS FixString

Plain == {<<"a">>, <<"*">>, <<"\"", "*", "\"">>, <<"$x">>, <<"$@">>, <<"$#">>, <<"$M">>,
          <<"${x", "}">>, <<"${@", "}">>, <<"${x", "[", "a", "]", "}">>, <<"${M", "[", "a", "]", "}">>, <<"{a,b}">>}

\* Words that are not put together with others
Subscripts == {<<"${x", "[", "$x", "]", "}">>, <<"${M", "[", "$((", "$x", "))", "]", "}">>,
               <<"${x", "[", "${x", "#", "a", "}", "]", "}">>, <<"${x", ":-", "a", "[", "a", "]", "}">>,
               <<"${x", "[", "${M", "}", "#", "a", "]", "}">>, <<"${@", "/", "a", "}">>,
               <<"${x", "/", "/", "/", "a", "/", "a", "}">>, <<"${x", "/", "a", "/", "a", "}", "${x", "}">>}

\* Words that are not survived, for each of the reasons there are
Fatal == {<<"${x", "/", "a", "}">>, <<"${x", "/", "a", "/", "}">>, <<"${x", "/", "/", "/", "a", "}">>,
          <<"${x", "/", "${x", "/", "a", "}", "/", "a", "}">>,
          <<"${x", "#", "a", "}", "${x", "#", "a", "}">>, <<"${x", "#", "a">>}

Inner == {<<"a">>, <<"*">>, <<"$x">>, <<"a", "*">>, <<"$@", "a">>}
Nested(ws) ==
  UNION {{<<"${x", "/">> \o w \o <<"/", "a", "}">>, <<"${x", "/", "/", "a", "/">> \o w \o <<"}">>,
          <<"${x", "#">> \o w \o <<"}">>, <<"${x", ":-">> \o w \o <<"}">>,
          <<"$((">> \o w \o <<"))">>, <<"$(">> \o w \o <<")">>} : w \in ws}

One == Plain \union Nested(Inner)
Two == {v \o w : v \in One, w \in Plain} \union {v \o w : v \in Plain, w \in One}
Deep == Nested(Nested({<<"a">>, <<"*">>, <<"$x">>}))
Words == One \union Two \union Deep \union Subscripts \union Fatal

Wants == {"STRING", "ARRAY", "VAR", "INT", "EXPRESSION"}
Item(w, t) == [word |-> w, want |-> t]
Again == {<<"a">>, <<"*">>, <<"$x">>, <<"${x", "}">>, <<"$((", "$x", "))">>, <<"{a,b}", "*">>}
Between == One \union {v \o w : v \in {<<"a">>, <<"$x">>}, w \in One}

\* Every word by itself, and some words with another word between them
MCScripts == {<<Item(w, t)>> : w \in Words, t \in Wants}
               \union {<<Item(w, "STRING"), Item(v, t), Item(w, "STRING")>> :
                           w \in Again, v \in Between, t \in {"STRING", "EXPRESSION"}}

(***************************************************************************)
(* A reader of the result: sums of calls, names and literals with their    *)
(* types.  A reading is [ok, at, got, in]; the text is taken up to at.     *)
(***************************************************************************)
Fail == [at |-> 0, got |-> "NONE"]
Tok(text, p) == IF p <= Len(text) THEN text[p] ELSE "end"
Calls == {"str(", "Str(", "Array(", "int(", "Glob(", "popen(", "T(", "("}

\* What a call makes of an argument of type got
Returns(call, got) ==
  CASE call = "str(" -> IF got = "ARRAY" THEN "NONE" ELSE "STRING"
    [] call = "Str(" -> IF got = "ARRAY" THEN "STRING" ELSE "NONE"
    [] call = "Array(" -> "ARRAY"
    [] call = "int(" -> "INT"
    [] call = "Glob(" -> IF got = "STRING" THEN "ARRAY" ELSE "NONE"
    [] call = "popen(" -> "STRING"

LiteralEnd(text, p) == FirstFrom(text, {"q>"}, p) + 1

RECURSIVE Sum(_, _, _), Term(_, _), Skip(_, _, _)

\* The end of the literal, or of what is in parentheses, that p is in
Skip(text, p, depth) ==
  LET c == Tok(text, p)
  IN  IF c = "end" THEN 0
      ELSE IF c = "<q" THEN Skip(text, LiteralEnd(text, p), depth)
      ELSE IF c \in Calls \union {"re.sub(", "minus(", "["} THEN Skip(text, p + 1, depth + 1)
      ELSE IF c \in {")", "]"} THEN IF depth = 1 THEN p + 1 ELSE Skip(text, p + 1, depth - 1)
      ELSE Skip(text, p + 1, depth)

\* Past a subscript, when there is one
Indexed(text, p) == IF p # 0 /\ Tok(text, p) = "[" THEN Skip(text, p, 0) ELSE p

Term(text, p) ==
  LET c == Tok(text, p)
  IN  IF c = "r" THEN [at |-> LiteralEnd(text, p), got |-> "STRING"]
      ELSE IF c = "<q" THEN [at |-> LiteralEnd(text, p), got |-> "STRING"]
      ELSE IF c \in {"x.val", "x", "group"}
      THEN [at |-> IF Tok(text, p + 1) = IF c = "group" THEN "(" ELSE "["
                   THEN Skip(text, p + 1, 0) ELSE p + 1, got |-> "VAR"]
      ELSE IF c = "at" THEN [at |-> p + 1, got |-> "ARRAY"]
      ELSE IF c = "hash" THEN [at |-> p + 1, got |-> "INT"]
      ELSE IF c = "0" THEN [at |-> p + 1, got |-> "INT"]
      ELSE IF c \in {"T(", "("} THEN [at |-> Skip(text, p, 0), got |-> "INT"]
      ELSE IF c \in {"re.sub(", "minus("} THEN [at |-> Indexed(text, Skip(text, p, 0)), got |-> "STRING"]
      ELSE IF c \in Calls
      THEN LET arg == IF Tok(text, p + 1) = ")" THEN [at |-> p + 1, got |-> "STRING"]
                      ELSE Sum(text, p + 1, "NONE")
               type == Returns(c, arg.got)
           IN  IF arg.at = 0 \/ Tok(text, arg.at) # ")" \/ type = "NONE" THEN Fail
               ELSE [at |-> arg.at + 1, got |-> type]
      ELSE Fail

\* A sum joins strings or lists, not both.
Sum(text, p, left) ==
  LET t == Term(text, p)
  IN  IF t.at = 0 THEN Fail
      ELSE IF left # "NONE" /\ (t.got # left \/ left \notin {"STRING", "ARRAY"}) THEN Fail
      ELSE IF Tok(text, t.at) = "+" THEN Sum(text, t.at + 1, t.got) ELSE t

Reads(text) == Sum(text, 1, "NONE")

\* ${@/a}: the operator is not looked for, and is printed as it is.
OperatesOnAll(word) == \E i \in 1..(Len(word) - 1) : word[i] = "${@" /\ word[i + 1] \in {"/", "#"}

\* What a word becomes is one expression of Python, whose value has the type
\* that was announced for it, and the type STRING or INT when that was asked for.
\* Exceptions: an integer made of "$@" (combine_types casts by the wrong type), an
\* operator after "@",
\* an element of an array after BASH_REMATCH (which is indexed as a call), and
\* brace expressions, which become lists.
WellTyped ==
  AtRest =>
    \A i \in DOMAIN results :
      LET text == results[i].text
          got == results[i].got
          word == script[i].word
          want == script[i].want
      IN  text # <<>> /\ want # "EXPRESSION" /\ ~Has(word, {"{a,b}"})
          /\ ~ (want = "INT" /\ Has(word, {"$@", "${@"})) /\ ~OperatesOnAll(word)
          /\ ~ (Has(word, {"$M", "${M"}) /\ Has(word, {"${x"}))
          => /\ Reads(text).at = Len(text) + 1
             /\ Reads(text).got = got
             /\ want \in {"STRING", "INT"} => got = want

(***************************************************************************)
(* Where a lexeme of the result stands: the calls that are open, and        *)
(* whether it is inside a literal                                          *)
(***************************************************************************)
\* The calls between the nearest command and here that are arithmetic
InArithmetic(open) ==
  \E i \in DOMAIN open : open[i] \in {"T(", "("} /\ \A k \in i..Len(open) : open[k] # "popen("

Names == {"x", "x.val", "group"}

Placed(text) ==
  LET Step(s, c) ==
        LET quoted == IF s.quoted THEN c # "q>" ELSE c = "<q"
            open == IF s.quoted THEN s.open
                    ELSE IF c = "(" /\ s.last \in Names THEN Append(s.open, "index(")
                    ELSE IF c \in Calls \union {"re.sub(", "minus("} THEN Append(s.open, c)
                    ELSE IF c = ")" /\ s.open # <<>> THEN Front(s.open)
                    ELSE IF c = "," /\ s.open # <<>> /\ Last(s.open) = "re.sub("
                    THEN Append(Front(s.open), "rest(")
                    ELSE s.open
        IN  [quoted |-> quoted, open |-> open, last |-> c,
             places |-> Append(s.places, [open |-> s.open, quoted |-> s.quoted, last |-> s.last])]
  IN  FoldLeft(Step, [quoted |-> FALSE, open |-> <<>>, last |-> "", places |-> <<>>], text).places

\* Arithmetic is handed to the translator of arithmetic once, as the outermost
\* $((...)) or $(...) around it; a variable is read through .val exactly where
\* that translator does not see it.  Exception: an operator inside $((...)),
\* whose nested fix_string forgets how deep the expression is.
ArithmeticTranslatedOnce ==
  AtRest =>
    \A i \in DOMAIN results :
      LET text == results[i].text
          places == Placed(text)
          word == script[i].word
      IN  ~ (HasOperator(word) /\ (Has(word, {"$(("}) \/ script[i].want = "EXPRESSION")) =>
            \A k \in DOMAIN text :
              ~places[k].quoted =>
                /\ text[k] = "T(" => ~InArithmetic(places[k].open)
                /\ text[k] = "(" /\ places[k].last \notin Names => InArithmetic(places[k].open)
                /\ text[k] \in {"x", "x.val"} => (text[k] = "x" <=> InArithmetic(places[k].open))

\* A pattern character becomes a regular expression in the pattern of an operator
\* and nowhere else.  Exception: what follows an operator inside the pattern.
StarsConverted ==
  AtRest =>
    \A i \in DOMAIN results :
      LET text == results[i].text
          places == Placed(text)
          nested == \E k \in 2..Len(script[i].word) : HasOperator(SubSeq(script[i].word, k, Len(script[i].word)))
      IN  \A k \in DOMAIN text :
            LET pattern == places[k].open # <<>> /\ Last(places[k].open) = "re.sub("
            IN  /\ text[k] \in {".*", ".*?"} => pattern
                /\ text[k] = "*" /\ pattern => nested

\* Each part of a word is converted once, by the routine it belongs to.
ConvertedOnce == ArithmeticTranslatedOnce /\ StarsConverted

(***************************************************************************)
(* Which words are translated                                              *)
(***************************************************************************)
\* The words whose translation does not follow a NULL pointer.  An operator takes
\* what is between it and the last brace of the word: there must be such a brace
\* (a second operator finds none behind it), and a / must have a second / with a
\* replacement.  The pattern and the replacement are words themselves.
RECURSIVE Survives(_)
Survives(word) ==
  LET NameEnd(i) == FirstFrom(word, Operators, i + 1)
      operators == {o \in DOMAIN word : \E i \in DOMAIN word :
                      word[i] \in Named /\ o = NameEnd(i) /\ word[o] \in {"/", "#"}}
      first == CHOOSE o \in operators : \A k \in operators : o <= k
      two == first < Len(word) /\ word[first + 1] \in {word[first], "#"}
      from == IF two THEN first + 2 ELSE first + 1
      last == LastBrace(word, from)
      inside == SubSeq(word, from, last - 1)
      slash == Delimiter(inside)
      pattern == IF slash = 0 THEN inside ELSE SubSeq(inside, 1, slash - 1)
      replacement == SubSeq(inside, slash + 1, Len(inside))
  IN  operators = {} \/
        /\ last # 0
        /\ IF word[first] = "#" THEN Survives(inside)
           ELSE slash # 0 /\ replacement # <<>> /\ Survives(pattern) /\ Survives(replacement)
        /\ Survives(SubSeq(word, last + 1, Len(word)))

AllSurvive == \A i \in DOMAIN script : Survives(script[i].word)
RematchNamed == NamedBy(Len(script))

\* The text of a word is in what it becomes, no part twice and none left out.
\* (Brace expressions repeat what stands next to them.)
NothingLost ==
  \A i \in DOMAIN results :
    LET text == results[i].text
        word == script[i].word
    IN  Has(word, {"{a,b}"}) \/ Count(text, {"a"}, Len(text)) = Count(word, {"a"}, Len(word))

\* A script comes to its end: every word is translated, with nothing of it lost, or
\* one has an operator without a brace at its end or without a replacement, and the
\* program ends there, where it follows a NULL pointer.
\* After BASH_REMATCH, which may overwrite a brace, only a word with an operator is
\* not survived.
WordsTranslated ==
  <>(\/ AllTranslated /\ (RematchNamed \/ (AllSurvive /\ NothingLost))
     \/ crashed /\ (IF RematchNamed THEN MayOperate(Len(results) + 1) ELSE ~AllSurvive))
===============================================================================
