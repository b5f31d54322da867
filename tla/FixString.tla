------------------------------- MODULE FixString -------------------------------
(***************************************************************************)
(* fix_string.c: a word of bash becomes an expression of Python.           *)
(*                                                                         *)
(* The routines call one another in almost every combination, and          *)
(* emitVariable even calls fix_string, the routine they all work for.      *)
(* What they share is global: the two working buffers, the level of        *)
(* $((...)), whether glob patterns are being made into regular             *)
(* expressions, and whether the name BASH_REMATCH has been met.            *)
(*                                                                         *)
(* A word is a sequence of lexemes: "a" is ordinary text, "*" a pattern    *)
(* character, "$x" and "${x" begin a variable, "$M" and "${M" the          *)
(* variable BASH_REMATCH, "$@" and "${@" the positional parameters, and    *)
(* "{a,b}" is a brace expression.  The C stack is the sequence stack of    *)
(* frames, the first of them running; ret is what the last routine that    *)
(* ended returned.                                                         *)
(***************************************************************************)
EXTENDS Integers, Sequences, FiniteSets, SequencesExt

CONSTANTS
  Scripts     \* sequences of [word, want], in the order they are translated

Types == {"NONE", "INT", "STRING", "VAR", "ARRAY", "EXPRESSION"}

ASSUME ScriptsAssumption == Scripts \subseteq Seq([word : Seq(STRING), want : Types])

VARIABLES
  script,     \* the words
  results,    \* what the words up to now have become
  buffer,     \* g_buffer: the text that is read
  new,        \* g_new: the text that is written
  braced,     \* g_braced
  glob,       \* g_globConversionState
  nesting,    \* g_dollar_expr_nesting_level
  regmatch,   \* g_regmatch_special_case
  stack,      \* the C stack
  ret,        \* [end, got, text]: the position after what was read, 0 for NULL;
              \* its type; the text that fix_string returns
  crashed     \* a NULL pointer was followed

burps == <<buffer, new, braced>>
flags == <<glob, nesting, regmatch>>
vars == <<script, results, burps, flags, stack, ret, crashed>>

Nothing == [end |-> 0, got |-> "NONE", text |-> <<>>]

Init ==
  /\ script \in Scripts /\ results = <<>>
  /\ buffer = <<>> /\ new = <<>> /\ braced = <<>>
  /\ glob = "INACTIVE" /\ nesting = 0 /\ regmatch = FALSE
  /\ stack = <<>> /\ ret = Nothing /\ crashed = FALSE

(***************************************************************************)
(* Lexemes                                                                 *)
(***************************************************************************)
Simple == {"$x", "$@", "$#", "$M"}
Named == {"${x", "${M"}
Braced == Named \union {"${@"}
Special == Simple \union Braced \union {"$((", "$("}

Char(p) == IF p <= Len(buffer) THEN buffer[p] ELSE "end"

\* How many of the lexemes up to the first p are in S.
Count(text, S, p) == Len(SelectSeq(SubSeq(text, 1, p), LAMBDA c : c \in S))

\* The first position from p on with a lexeme in S, or the end.
FirstFrom(text, S, p) ==
  LET found == {i \in p..Len(text) : text[i] \in S}
  IN  IF found = {} THEN Len(text) + 1 ELSE CHOOSE i \in found : \A k \in found : i <= k

\* strrchr(.., '}'), 0 for NULL
LastBrace(text, p) ==
  LET found == {i \in p..Len(text) : text[i] = "}"}
  IN  IF found = {} THEN 0 ELSE CHOOSE i \in found : \A k \in found : k <= i

\* skip_to_delim: the first / that is in no quotes and no nested expansion.  A
\* pattern may begin with one.
Delimiter(text) ==
  LET Open(i) == Count(text, Braced \union {"$((", "$("}, i) - Count(text, {"}", "))", ")"}, i)
      found == {i \in DOMAIN text :
                  i # 1 /\ text[i] = "/" /\ Open(i) = 0 /\ Count(text, {"\""}, i) % 2 = 0}
  IN  IF found = {} THEN 0 ELSE CHOOSE i \in found : \A k \in found : i <= k

(***************************************************************************)
(* Frames                                                                  *)
(***************************************************************************)
Top == Head(stack)
In(proc, pc) == stack # <<>> /\ Top.proc = proc /\ Top.pc = pc /\ ~crashed

Goto(frame) == stack' = <<frame>> \o Tail(stack)
Enter(frame, callee) == stack' = callee \o <<frame>> \o Tail(stack)
LeaveWith(r) == stack' = Tail(stack) /\ ret' = r
Leave(end, got) == LeaveWith([end |-> end, got |-> got, text |-> <<>>])

FixStringOf(word, want) ==
  <<[proc |-> "fix_string", pc |-> "start", want |-> want, alts |-> <<word>>, list |-> FALSE]>>

EmitEnclosed(p, want) ==
  <<[proc |-> "enclosed", pc |-> "start", at |-> p, start |-> Len(new), want |-> want]>>

EmitString(p, terminators) ==
  <<[proc |-> "string", pc |-> "loop", at |-> p, first |-> p, ends |-> terminators,
     quote |-> FALSE, offset |-> 0]>>

Wrapped(text, offset, call) ==
  SubSeq(text, 1, offset) \o <<call>> \o SubSeq(text, offset + 1, Len(text)) \o <<")">>

NotQuoted == -1

(***************************************************************************)
(* fix_string, fixBracedString, fix_string1                                *)
(***************************************************************************)
\* brace_expand: the brace expressions outside ${...}
Expansions(word) ==
  LET Outside(i) == Count(word, Braced, i) = Count(word, {"}"}, i)
      With(c) == [i \in DOMAIN word |-> IF word[i] = "{a,b}" /\ Outside(i) THEN c ELSE word[i]]
  IN  IF \E i \in DOMAIN word : word[i] = "{a,b}" /\ Outside(i)
      THEN <<With("a"), With("b")>> ELSE <<word>>

\* Mutant: the text of the brace expression before is still there.
FixStringCollects ==
  /\ In("fix_string", "start")
  /\ LET word == Top.alts[1]
         list == Top.want # "EXPRESSION" /\ \E i \in DOMAIN word : word[i] = "{a,b}"
     IN  IF word = <<>> THEN LeaveWith(Nothing) /\ UNCHANGED <<nesting, braced>>
         ELSE /\ nesting' = 0
              /\ braced' = IF list /\ Top.want = "ARRAY" THEN Append(braced, "[") ELSE braced
              /\ Goto([Top EXCEPT !.pc = "next", !.list = list,
                                  !.alts = IF list THEN Expansions(word) ELSE <<word>>])
              /\ UNCHANGED ret
  /\ UNCHANGED <<script, results, buffer, new, glob, regmatch, crashed>>

FixString ==
  /\ In("fix_string", "start")
  /\ LET word == Top.alts[1]
         list == Top.want # "EXPRESSION" /\ \E i \in DOMAIN word : word[i] = "{a,b}"
     IN  IF word = <<>> THEN LeaveWith(Nothing) /\ UNCHANGED <<nesting, braced>>
         ELSE /\ nesting' = 0
              /\ braced' = IF ~list THEN braced
                           ELSE IF Top.want = "ARRAY" THEN <<"[">> ELSE <<>>
              /\ Goto([Top EXCEPT !.pc = "next", !.list = list,
                                  !.alts = IF list THEN Expansions(word) ELSE <<word>>])
              /\ UNCHANGED ret
  /\ UNCHANGED <<script, results, buffer, new, glob, regmatch, crashed>>

\* fix_string1, as far as the call of the routine that expands.
\* replaceSingleQuotes has been through the text: it is its own scratch.
FixString1 ==
  /\ In("fix_string", "next")
  /\ LET want == IF Top.list /\ Top.want = "ARRAY" THEN "VAR" ELSE Top.want
     IN  /\ buffer' = Top.alts[1] /\ new' = <<>>
         /\ nesting' = IF want = "EXPRESSION" THEN 1 ELSE 0
         /\ Enter([Top EXCEPT !.pc = "fixed", !.alts = Tail(@)],
              IF want = "EXPRESSION"
              THEN <<[proc |-> "expand", pc |-> "loop", at |-> 1, offset |-> 0]>>
              ELSE <<[proc |-> "substitute", pc |-> "start", at |-> 1, want |-> want,
                      want1 |-> want, file |-> FALSE, got |-> "NONE", quote |-> NotQuoted,
                      offset |-> 0]>>)
  /\ UNCHANGED <<script, results, braced, glob, regmatch, ret, crashed>>

\* The rest of fix_string1: what has been written becomes the buffer.  The text
\* of a brace expression is collected from its alternatives.
Fixed ==
  /\ In("fix_string", "fixed")
  /\ LET text == IF Top.want = "EXPRESSION" THEN <<"T(">> \o new \o <<")">> ELSE new
         array == Top.list /\ Top.want = "ARRAY"
         after == IF Top.alts # <<>> THEN <<",">> ELSE IF array THEN <<"]">> ELSE <<>>
     IN  /\ buffer' = text /\ new' = buffer
         /\ braced' = IF Top.list THEN braced \o text \o after ELSE braced
         /\ IF Top.alts # <<>> THEN Goto([Top EXCEPT !.pc = "next"]) /\ UNCHANGED <<nesting, ret>>
            ELSE /\ nesting' = 0
                 /\ LeaveWith([end |-> 0, text |-> IF Top.list THEN braced' ELSE text,
                               got |-> IF array THEN "ARRAY"
                                       ELSE IF Top.want = "EXPRESSION" THEN "EXPRESSION"
                                       ELSE ret.got])
  /\ UNCHANGED <<script, results, glob, regmatch, crashed>>

(***************************************************************************)
(* substitute                                                              *)
(***************************************************************************)
Converting == glob \in {"CONVERTING_GREEDY", "CONVERTING_UNGREEDY"}

\* Mutant: a list is cast like any other value.
StrOfLists(got) == "str("

Str(got) == IF got = "ARRAY" THEN "Str(" ELSE "str("

\* combine_types: the piece of text after offset is joined to what is before it.
Combine(text, offset, want, was, type) ==
  LET cast ==
        IF want \in {"NONE", "VAR", type} THEN [text |-> text, got |-> type]
        ELSE IF want = "ARRAY" THEN [text |-> Wrapped(text, offset, "Array("), got |-> "ARRAY"]
        ELSE IF want = "INT" /\ was = "NONE"
        THEN [text |-> Wrapped(text, offset, "int("), got |-> "INT"]
        ELSE [text |-> Wrapped(text, offset, Str(was)), got |-> "STRING"]
      before == SubSeq(text, 1, offset)
      piece == SubSeq(cast.text, offset + 1, Len(cast.text))
      raw == Converting /\ offset > 0 /\ text[offset] = "r"
  IN  IF was = "NONE" THEN cast
      ELSE IF was = cast.got /\ was \in {"ARRAY", "STRING"}
      THEN [cast EXCEPT !.text =
              IF raw THEN SubSeq(before, 1, offset - 1) \o <<"+", "r">> \o piece
              ELSE before \o <<"+">> \o piece]
      ELSE [got |-> "STRING",
            text |-> (IF was = "STRING" THEN before ELSE Wrapped(before, 0, Str(was)))
                       \o <<"+">>
                       \o (IF cast.got = "STRING" THEN piece ELSE Wrapped(piece, 0, Str(cast.got)))]

\* A pattern character outside quotes, anywhere in the text
HasPattern(text) ==
  \E i \in DOMAIN text : text[i] \in {"*", "["} /\ Count(text, {"\""}, i) % 2 = 0

Substitute ==
  /\ In("substitute", "start")
  /\ LET file == glob = "INACTIVE" /\ HasPattern(buffer)
     IN  Goto([Top EXCEPT !.pc = "loop", !.file = file,
                          !.want1 = IF file THEN "STRING" ELSE @])
  /\ UNCHANGED <<script, results, burps, flags, ret, crashed>>

\* Mutant: the loop does not go past the quote.
SubstituteQuoteStays ==
  /\ In("substitute", "loop") /\ Char(Top.at) = "\""
  /\ UNCHANGED vars

\* Quotes are dropped.
SubstituteQuote ==
  /\ In("substitute", "loop") /\ Char(Top.at) = "\""
  /\ Goto([Top EXCEPT !.at = @ + 1])
  /\ UNCHANGED <<script, results, burps, flags, ret, crashed>>

\* The quotes that Python needs end before an expansion.
Closed ==
  IF Top.quote = NotQuoted THEN [text |-> new, got |-> Top.got]
  ELSE Combine(Append(new, "q>"), Top.quote, Top.want1, Top.got, "STRING")

SubstituteSpecial ==
  /\ In("substitute", "loop") /\ Char(Top.at) \in Special
  /\ new' = Closed.text
  /\ Enter([Top EXCEPT !.pc = "emitted", !.got = Closed.got, !.quote = NotQuoted,
                       !.offset = Len(Closed.text)],
           <<[proc |-> "enclosed", pc |-> "start", at |-> Top.at,
              start |-> Len(Closed.text), want |-> Top.want1]>>)
  /\ UNCHANGED <<script, results, buffer, braced, flags, ret, crashed>>

SubstituteEmitted ==
  /\ In("substitute", "emitted")
  /\ LET frame == [Top EXCEPT !.file = @ /\ glob = "INACTIVE"]
         joined == Combine(new, Top.offset, Top.want1, Top.got, ret.got)
     IN  IF ret.end # 0
         THEN /\ new' = joined.text
              /\ Goto([frame EXCEPT !.pc = "loop", !.at = ret.end, !.got = joined.got])
         ELSE /\ new' = SubSeq(new, 1, Top.offset)
              /\ Goto([frame EXCEPT !.pc = "literal"])
  /\ UNCHANGED <<script, results, buffer, braced, flags, ret, crashed>>

\* What is written for a character of a pattern
Regex(c) ==
  IF c # "*" THEN c ELSE IF glob = "CONVERTING_GREEDY" THEN ".*" ELSE ".*?"

\* Mutant: nothing ends the protection.
SubstituteLiteralProtects ==
  /\ \/ In("substitute", "literal")
     \/ In("substitute", "loop") /\ Char(Top.at) \notin Special \union {"\"", "end"}
  /\ LET open == Top.quote = NotQuoted
         raw == IF Converting THEN <<"r">> ELSE <<>>
         c == Char(Top.at)
     IN  /\ new' = new \o (IF open THEN raw \o <<"<q">> ELSE <<>>)
                       \o <<IF Converting THEN Regex(c) ELSE c>>
         /\ Goto([Top EXCEPT !.pc = "loop", !.at = @ + 1,
                             !.quote = IF open THEN Len(new) + Len(raw) ELSE @])
  /\ UNCHANGED <<script, results, buffer, braced, flags, ret, crashed>>

SubstituteLiteral ==
  /\ \/ In("substitute", "literal")
     \/ In("substitute", "loop") /\ Char(Top.at) \notin Special \union {"\"", "end"}
  /\ LET open == Top.quote = NotQuoted
         raw == IF Converting THEN <<"r">> ELSE <<>>
         c == Char(Top.at)
     IN  /\ new' = new \o (IF open THEN raw \o <<"<q">> ELSE <<>>)
                       \o <<IF Converting THEN Regex(c) ELSE c>>
         /\ Goto([Top EXCEPT !.pc = "loop", !.at = @ + 1,
                             !.quote = IF open THEN Len(new) + Len(raw) ELSE @])
  /\ glob' = IF glob = "PROTECTING" THEN "INACTIVE" ELSE glob
  /\ UNCHANGED <<script, results, buffer, braced, nesting, regmatch, ret, crashed>>

SubstituteEnd ==
  /\ In("substitute", "loop") /\ Char(Top.at) = "end"
  /\ LET text == IF Top.file THEN Wrapped(Closed.text, 0, "Glob(") ELSE Closed.text
         got == IF Top.file THEN "ARRAY" ELSE Closed.got
         cast == Top.want \in {"INT", "STRING"} /\ got # Top.want
     IN  /\ new' = IF ~cast THEN text
                   ELSE Wrapped(text, 0, IF Top.want = "INT" THEN "int(" ELSE Str(got))
         /\ Leave(0, IF cast THEN Top.want ELSE got)
  /\ UNCHANGED <<script, results, buffer, braced, flags, crashed>>

(***************************************************************************)
(* expand_without_substituting                                             *)
(***************************************************************************)
Expand ==
  /\ In("expand", "loop")
  /\ LET c == Char(Top.at)
     IN  CASE c = "end" -> Leave(0, "NONE") /\ UNCHANGED new
           [] c \in Special ->
                /\ Enter([Top EXCEPT !.pc = "emitted", !.offset = Len(new)],
                         EmitEnclosed(Top.at, "EXPRESSION"))
                /\ UNCHANGED <<new, ret>>
           [] c = "\"" -> Goto([Top EXCEPT !.at = @ + 1]) /\ UNCHANGED <<new, ret>>
           [] OTHER -> /\ Goto([Top EXCEPT !.at = @ + 1])
                       /\ new' = Append(new, c)
                       /\ UNCHANGED ret
  /\ UNCHANGED <<script, results, buffer, braced, flags, crashed>>

ExpandEmitted ==
  /\ In("expand", "emitted")
  /\ new' = IF ret.end # 0 THEN new ELSE Append(SubSeq(new, 1, Top.offset), Char(Top.at))
  /\ Goto([Top EXCEPT !.pc = "loop", !.at = IF ret.end # 0 THEN ret.end ELSE @ + 1])
  /\ UNCHANGED <<script, results, buffer, braced, flags, ret, crashed>>

(***************************************************************************)
(* emit_enclosed_subexpr and what it dispatches to                         *)
(***************************************************************************)
At(lexemes) == In("enclosed", "start") /\ Char(Top.at) \in lexemes

\* What was emitted is cast to what is wanted.
Cast ==
  /\ In("enclosed", "cast")
  /\ IF ret.end = 0 \/ Top.want \notin {"STRING", "ARRAY"} \/ ret.got = Top.want
     THEN LeaveWith(ret) /\ UNCHANGED new
     ELSE /\ new' = Wrapped(new, Top.start, IF Top.want = "ARRAY" THEN "Array(" ELSE Str(ret.got))
          /\ Leave(ret.end, Top.want)
  /\ UNCHANGED <<script, results, buffer, braced, flags, crashed>>

\* emitSimpleVariable
Name(c) ==
  CASE c \in {"$x", "${x"} -> IF nesting = 0 THEN "x.val" ELSE "x"
    [] c \in {"$M", "${M"} -> "group"
    [] c \in {"$@", "${@"} -> "at"
    [] c = "$#" -> "hash"

Type(c) == IF c \in {"$@", "${@"} THEN "ARRAY" ELSE IF c = "$#" THEN "INT" ELSE "VAR"

Regmatch(c) == regmatch \/ c \in {"$M", "${M"}

SimpleVariable ==
  /\ At(Simple)
  /\ new' = Append(new, Name(Char(Top.at)))
  /\ regmatch' = Regmatch(Char(Top.at))
  /\ Goto([Top EXCEPT !.pc = "cast"])
  /\ ret' = [end |-> Top.at + 1, got |-> Type(Char(Top.at)), text |-> <<>>]
  /\ UNCHANGED <<script, results, buffer, braced, glob, nesting, crashed>>

(***************************************************************************)
(* emitVariable with braces                                                *)
(***************************************************************************)
\* What ends a name.  ("@" is a name that ends at once, before any operator.)
Operators == {"}", "[", ":-", "/", "#"}
Operator == FirstFrom(buffer, Operators, Top.at + 1)

\* The loop up to the closing brace, from p on.  A flag that is up makes the
\* character at p an opening parenthesis.
Rest(p, match, got) ==
  <<[proc |-> "rest", pc |-> "loop", at |-> p, array |-> match \/ Char(p) = "[",
     got |-> IF match \/ Char(p) = "[" THEN "VAR" ELSE got, want |-> Top.want, offset |-> 0]>>

Reopened(text, p, match) ==
  IF match /\ p \in DOMAIN text THEN [text EXCEPT ![p] = "("] ELSE text

Unterminated ==
  /\ At(Named) /\ Char(Operator) = "end"
  /\ Goto([Top EXCEPT !.pc = "cast"])
  /\ ret' = [Nothing EXCEPT !.got = "STRING"]
  /\ UNCHANGED <<script, results, burps, flags, crashed>>

BracedVariable ==
  /\ At(Braced) /\ (Char(Top.at) \notin Named \/ Char(Operator) \in {"}", "["})
  /\ LET c == Char(Top.at)
     IN  /\ new' = Append(new, Name(c))
         /\ regmatch' = Regmatch(c)
         /\ buffer' = Reopened(buffer, Top.at + 1, Regmatch(c))
         /\ Enter([Top EXCEPT !.pc = "cast"], Rest(Top.at + 1, Regmatch(c), Type(c)))
  /\ UNCHANGED <<script, results, braced, glob, nesting, ret, crashed>>

Rests ==
  /\ In("rest", "loop")
  /\ LET c == Char(Top.at)
     IN  CASE c = "end" -> Leave(0, Top.got) /\ UNCHANGED <<new, regmatch>>
           [] c = "}" -> Leave(Top.at + 1, Top.got) /\ UNCHANGED <<new, regmatch>>
           [] c \in Special ->
                /\ Enter([Top EXCEPT !.pc = "emitted", !.offset = Len(new)],
                         EmitEnclosed(Top.at, Top.want))
                /\ UNCHANGED <<new, regmatch, ret>>
           [] c = "]" /\ Top.array ->
                /\ new' = Append(new, IF regmatch THEN ")" ELSE "]")
                /\ regmatch' = FALSE
                /\ Goto([Top EXCEPT !.at = @ + 1, !.array = FALSE])
                /\ UNCHANGED ret
           [] OTHER -> /\ new' = Append(new, c)
                       /\ Goto([Top EXCEPT !.at = @ + 1])
                       /\ UNCHANGED <<regmatch, ret>>
  /\ UNCHANGED <<script, results, buffer, braced, glob, nesting, crashed>>

RestEmitted ==
  /\ In("rest", "emitted")
  /\ new' = IF ret.end # 0 THEN new ELSE Append(SubSeq(new, 1, Top.offset), Char(Top.at))
  /\ Goto([Top EXCEPT !.pc = "loop", !.at = IF ret.end # 0 THEN ret.end ELSE @ + 1])
  /\ UNCHANGED <<script, results, buffer, braced, flags, ret, crashed>>

\* ${x:-word}: emitFunction
DefaultValue ==
  /\ At(Named) /\ Char(Operator) = ":-"
  /\ new' = new \o <<"minus(", "name", ",">>
  /\ Enter([Top EXCEPT !.pc = "cast"],
       EmitString(Operator + 1, {"[", "}"})
         \o <<[proc |-> "function", pc |-> "emitted", parm |-> Operator + 1,
               offset |-> Len(new) + 2, want |-> Top.want]>>)
  /\ UNCHANGED <<script, results, buffer, braced, flags, ret, crashed>>

DefaultEmitted ==
  /\ In("function", "emitted")
  /\ IF ret.end = 0 THEN Leave(0, "STRING") /\ UNCHANGED <<buffer, new>>
     ELSE /\ new' = Append(IF ret.end = Top.parm THEN SubSeq(new, 1, Top.offset) ELSE new, ")")
          /\ buffer' = Reopened(buffer, ret.end, regmatch)
          /\ stack' = Rest(ret.end, regmatch, "STRING") \o Tail(stack)
          /\ UNCHANGED ret
  /\ UNCHANGED <<script, results, braced, flags, crashed>>

(***************************************************************************)
(* ${x/pattern/replacement}, ${x#pattern}: each part goes through          *)
(* fix_string, while the buffers of the word are set aside.                *)
(***************************************************************************)
Substitution ==
  /\ At(Named) /\ Char(Operator) \in {"/", "#"}
  /\ LET op == Char(Operator)
         doubled == Char(Operator + 1) = op
         value == Operator + (IF doubled \/ Char(Operator + 1) = "#" THEN 2 ELSE 1)
         last == LastBrace(buffer, value)
         parameters == SubSeq(buffer, value, last - 1)
         delim == IF op = "/" THEN Delimiter(parameters) ELSE 0
     IN  IF last = 0 THEN crashed' = TRUE /\ UNCHANGED <<stack, buffer, new, glob>>
         ELSE /\ glob' = IF doubled THEN "CONVERTING_GREEDY" ELSE "CONVERTING_UNGREEDY"
              /\ buffer' = <<>> /\ new' = <<>>
              /\ Enter([Top EXCEPT !.pc = "cast"],
                   FixStringOf(IF delim = 0 THEN parameters ELSE SubSeq(parameters, 1, delim - 1),
                               "STRING")
                     \o <<[proc |-> "operator", pc |-> "pattern", op |-> op, last |-> last,
                           name |-> IF Char(Top.at) = "${M" THEN "$M" ELSE "$x",
                           repl |-> IF delim = 0 THEN <<>>
                                    ELSE SubSeq(parameters, delim + 1, Len(parameters)),
                           pattern |-> <<>>, replaced |-> <<>>, buffer |-> buffer, new |-> new,
                           want |-> Top.want]>>)
              /\ UNCHANGED crashed
  /\ UNCHANGED <<script, results, braced, nesting, regmatch, ret>>

\* Mutant: what follows the pattern is converted too.
PatternFixedConverts ==
  /\ In("operator", "pattern")
  /\ Enter([Top EXCEPT !.pc = "name", !.pattern = ret.text], FixStringOf(<<Top.name>>, "STRING"))
  /\ UNCHANGED <<script, results, burps, glob, nesting, regmatch, ret, crashed>>

PatternFixed ==
  /\ In("operator", "pattern")
  /\ glob' = "INACTIVE"
  /\ Enter([Top EXCEPT !.pc = "name", !.pattern = ret.text], FixStringOf(<<Top.name>>, "STRING"))
  /\ UNCHANGED <<script, results, burps, nesting, regmatch, ret, crashed>>

\* Without a replacement, fix_string gets a NULL pointer and follows it.
NameFixed ==
  /\ In("operator", "name")
  /\ LET frame == [Top EXCEPT !.pc = "replacement", !.replaced = ret.text]
     IN  IF Top.op = "#"
         THEN /\ Goto(frame) /\ ret' = [ret EXCEPT !.text = <<"<q", "q>">>]
              /\ UNCHANGED crashed
         ELSE IF Top.repl = <<>> THEN crashed' = TRUE /\ UNCHANGED <<stack, ret>>
         ELSE Enter(frame, FixStringOf(Top.repl, "STRING")) /\ UNCHANGED <<ret, crashed>>
  /\ UNCHANGED <<script, results, burps, flags>>

\* Mutant: the text before the operator is not restored.
ReplacementFixedForgets ==
  /\ In("operator", "replacement")
  /\ glob' = "PROTECTING"
  /\ new' = <<"re.sub(">> \o Top.pattern \o <<",">> \o ret.text \o <<",">>
              \o Top.replaced \o <<")">>
  /\ buffer' = Reopened(Top.buffer, Top.last, regmatch)
  /\ stack' = Rest(Top.last, regmatch, "STRING") \o Tail(stack)
  /\ UNCHANGED <<script, results, braced, nesting, regmatch, ret, crashed>>

ReplacementFixed ==
  /\ In("operator", "replacement")
  /\ glob' = "PROTECTING"
  /\ new' = Top.new \o <<"re.sub(">> \o Top.pattern \o <<",">> \o ret.text \o <<",">>
              \o Top.replaced \o <<")">>
  /\ buffer' = Reopened(Top.buffer, Top.last, regmatch)
  /\ stack' = Rest(Top.last, regmatch, "STRING") \o Tail(stack)
  /\ UNCHANGED <<script, results, braced, nesting, regmatch, ret, crashed>>

(***************************************************************************)
(* $((...)), $(...) and emitString                                         *)
(***************************************************************************)
DollarExpression ==
  /\ At({"$(("})
  /\ nesting' = nesting + 1
  /\ new' = Append(new, "(")
  /\ Enter([Top EXCEPT !.pc = "cast"],
       <<[proc |-> "arith", pc |-> "loop", at |-> Top.at + 1, start |-> Len(new),
          blank |-> TRUE, offset |-> 0]>>)
  /\ UNCHANGED <<script, results, buffer, braced, glob, regmatch, ret, crashed>>

\* Mutant: the level only goes up.
DollarEndStays(p, blank) ==
  /\ UNCHANGED nesting
  /\ new' = IF blank THEN Append(SubSeq(new, 1, Top.start), "0")
            ELSE Append(IF nesting = 1 THEN [new EXCEPT ![Top.start + 1] = "T("] ELSE new, ")")
  /\ Leave(p, "INT")

\* "Only do for the outermost $((...))": what is inside is translated with it.
DollarEnd(p, blank) ==
  /\ nesting' = nesting - 1
  /\ new' = IF blank THEN Append(SubSeq(new, 1, Top.start), "0")
            ELSE Append(IF nesting = 1 THEN [new EXCEPT ![Top.start + 1] = "T("] ELSE new, ")")
  /\ Leave(p, "INT")

DollarExpressionLoop ==
  /\ In("arith", "loop")
  /\ LET c == Char(Top.at)
     IN  CASE c = "end" -> DollarEnd(Top.at, Top.blank)
           [] c = "))" -> DollarEnd(Top.at + 1, FALSE)
           [] c \in Special ->
                /\ Enter([Top EXCEPT !.pc = "emitted", !.offset = Len(new), !.blank = FALSE],
                         EmitEnclosed(Top.at, "INT"))
                /\ UNCHANGED <<new, nesting, ret>>
           [] OTHER -> /\ new' = Append(new, c)
                       /\ Goto([Top EXCEPT !.at = @ + 1, !.blank = FALSE])
                       /\ UNCHANGED <<nesting, ret>>
  /\ UNCHANGED <<script, results, buffer, braced, glob, regmatch, crashed>>

DollarEmitted ==
  /\ In("arith", "emitted")
  /\ new' = IF ret.end # 0 THEN new ELSE Append(SubSeq(new, 1, Top.offset), Char(Top.at))
  /\ Goto([Top EXCEPT !.pc = "loop", !.at = IF ret.end # 0 THEN ret.end ELSE @ + 1])
  /\ UNCHANGED <<script, results, buffer, braced, flags, ret, crashed>>

\* Mutant: the command is taken for a part of the expression.
CommandInside ==
  /\ At({"$("})
  /\ new' = Append(new, "popen(")
  /\ Enter([Top EXCEPT !.pc = "cast"],
       EmitString(Top.at + 1, {")"}) \o <<[proc |-> "command", pc |-> "emitted", old |-> nesting]>>)
  /\ UNCHANGED <<script, results, buffer, braced, flags, ret, crashed>>

\* emitCommand: a command is not part of the expression it stands in.
Command ==
  /\ At({"$("})
  /\ nesting' = 0
  /\ new' = Append(new, "popen(")
  /\ Enter([Top EXCEPT !.pc = "cast"],
       EmitString(Top.at + 1, {")"}) \o <<[proc |-> "command", pc |-> "emitted", old |-> nesting]>>)
  /\ UNCHANGED <<script, results, buffer, braced, glob, regmatch, ret, crashed>>

CommandEmitted ==
  /\ In("command", "emitted")
  /\ nesting' = Top.old
  /\ IF ret.end = 0 THEN Leave(0, "STRING") /\ UNCHANGED new
     ELSE Leave(ret.end + 1, "STRING") /\ new' = Append(new, ")")
  /\ UNCHANGED <<script, results, buffer, braced, glob, regmatch, crashed>>

StringLoop ==
  /\ In("string", "loop") /\ Char(Top.at) \in Special
  /\ LET text == new \o (IF Top.quote THEN <<"q>">> ELSE <<>>)
                     \o (IF Top.at # Top.first THEN <<"+">> ELSE <<>>)
     IN  /\ new' = text
         /\ Enter([Top EXCEPT !.pc = "emitted", !.offset = Len(new)],
                  <<[proc |-> "enclosed", pc |-> "start", at |-> Top.at, start |-> Len(text),
                     want |-> "STRING"]>>)
  /\ UNCHANGED <<script, results, buffer, braced, flags, ret, crashed>>

StringEmitted ==
  /\ In("string", "emitted")
  /\ IF ret.end # 0
     THEN Goto([Top EXCEPT !.pc = "loop", !.at = ret.end, !.quote = FALSE]) /\ UNCHANGED new
     ELSE Goto([Top EXCEPT !.pc = "literal"]) /\ new' = SubSeq(new, 1, Top.offset)
  /\ UNCHANGED <<script, results, buffer, braced, flags, ret, crashed>>

StringLiteral ==
  /\ \/ In("string", "literal")
     \/ In("string", "loop") /\ Char(Top.at) \notin Special \union Top.ends \union {"end"}
  /\ new' = new \o (IF Top.quote THEN <<>>
                    ELSE (IF Top.at # Top.first THEN <<"+">> ELSE <<>>) \o <<"<q">>)
                \o <<Char(Top.at)>>
  /\ Goto([Top EXCEPT !.pc = "loop", !.at = @ + 1, !.quote = TRUE])
  /\ UNCHANGED <<script, results, buffer, braced, flags, ret, crashed>>

StringEnd ==
  /\ In("string", "loop") /\ Char(Top.at) \in Top.ends \union {"end"}
  /\ Leave(IF Char(Top.at) = "end" THEN 0 ELSE Top.at, "NONE")
  /\ new' = IF Top.quote /\ Char(Top.at) # "end" THEN Append(new, "q>") ELSE new
  /\ UNCHANGED <<script, results, buffer, braced, flags, crashed>>

(***************************************************************************)
(* The translator comes to the next word                                   *)
(***************************************************************************)
NextWord ==
  /\ stack = <<>> /\ Len(results) < Len(script) /\ ~crashed
  /\ LET next == script[Len(results) + 1]
     IN  stack' = FixStringOf(next.word, next.want) \o <<[proc |-> "main", pc |-> "fixed"]>>
  /\ UNCHANGED <<script, results, burps, flags, ret, crashed>>

WordFixed ==
  /\ In("main", "fixed")
  /\ results' = Append(results, [text |-> ret.text, got |-> ret.got])
  /\ stack' = <<>> /\ ret' = Nothing
  /\ UNCHANGED <<script, burps, flags, crashed>>

AllTranslated == stack = <<>> /\ Len(results) = Len(script) /\ ~crashed

Translate ==
  \/ NextWord \/ WordFixed \/ FixString \/ FixString1 \/ Fixed
  \/ Substitute \/ SubstituteQuote \/ SubstituteSpecial \/ SubstituteEmitted
  \/ SubstituteLiteral \/ SubstituteEnd \/ Expand \/ ExpandEmitted
  \/ Cast \/ SimpleVariable \/ Unterminated \/ BracedVariable \/ Rests \/ RestEmitted
  \/ DefaultValue \/ DefaultEmitted
  \/ Substitution \/ PatternFixed \/ NameFixed \/ ReplacementFixed
  \/ DollarExpression \/ DollarExpressionLoop \/ DollarEmitted
  \/ Command \/ CommandEmitted \/ StringLoop \/ StringEmitted \/ StringLiteral \/ StringEnd

\* The program ends after the last word, or with a crash.
Ended == (AllTranslated \/ crashed) /\ UNCHANGED vars

Next == Translate \/ Ended

Spec == Init /\ [][Next]_vars

\* One thread that never waits: a step that can be taken is taken.
FairSpec == Spec /\ WF_vars(Translate)

-------------------------------------------------------------------------------
(***************************************************************************)
(* Properties                                                              *)
(***************************************************************************)
AtRest == stack = <<>> /\ ~crashed

\* The frames from the bottom of the C stack, and those up to the m-th that read
\* arithmetic
Frame(j) == stack[Len(stack) + 1 - j]
ReadsArithmetic(f) == f.proc = "arith" \/ (f.proc = "fix_string" /\ f.want = "EXPRESSION")
Levels(m) == {j \in 1..m : ReadsArithmetic(Frame(j))}

\* The values every variable may take.  The level is never more than the number
\* of $((...)) and arithmetic expressions that are being read.
TypeOK ==
  /\ glob \in {"INACTIVE", "CONVERTING_GREEDY", "CONVERTING_UNGREEDY", "PROTECTING"}
  /\ nesting \in Int /\ nesting <= Cardinality(Levels(Len(stack)))
  /\ regmatch \in BOOLEAN /\ crashed \in BOOLEAN
  /\ ret.end \in Nat /\ ret.got \in Types
  /\ Len(results) <= Len(script)

Has(word, lexemes) == \E i \in DOMAIN word : word[i] \in lexemes

\* One of the operators / and # after a name, as the first that follows it, or
\* anywhere behind it
OpensOperator(word, loosely) ==
  \E i, j \in DOMAIN word :
    /\ i < j /\ word[i] \in Named /\ word[j] \in {"/", "#"}
    /\ loosely \/ \A k \in (i + 1)..(j - 1) : word[k] \notin Operators

HasOperator(word) == OpensOperator(word, FALSE)

NamesRematch(word) == Has(word, {"$M", "${M"})
NamedBy(k) == \E i \in 1..k : NamesRematch(script[i].word)

\* The word has an operator.  Once BASH_REMATCH has been named, a bracket or a brace that
\* stood before the operator may have been overwritten, as in ${x[${BASH_REMATCH}/2]}.
MayOperate(k) ==
  \/ HasOperator(script[k].word)
  \/ NamedBy(k) /\ OpensOperator(script[k].word, TRUE)

BeginsWithText(item) ==
  item.word # <<>> /\ item.word[1] \in {"a", "*"} /\ item.want # "EXPRESSION"

\* The globals that one word may leave changed for the next
Sticky(word) == HasOperator(word) \/ NamesRematch(word)

\* Between two words nothing is being converted and no $((...)) is open; patterns
\* are protected only from a word with an operator to the first word that begins
\* with text, and a [ of BASH_REMATCH is pending only after a word that named it.
NeutralBetweenWords ==
  /\ TypeOK
  /\ AtRest =>
       /\ nesting = 0
       /\ glob = "INACTIVE" \/ (glob = "PROTECTING"
              /\ \E i \in DOMAIN results :
                   /\ MayOperate(i)
                   /\ \A k \in (i + 1)..Len(results) : ~BeginsWithText(script[k]))
       /\ regmatch => NamedBy(Len(results))

\* What a word becomes does not depend on the words before it, unless one of
\* them left a global changed.
WordsIndependent ==
  AtRest =>
    \A i, j \in DOMAIN results :
      /\ i < j /\ script[i] = script[j]
      /\ \A k \in 1..(j - 1) : ~Sticky(script[k].word)
      => results[i] = results[j]
===============================================================================
