------------------------------- MODULE PreludeText ------------------------------
(***************************************************************************)
(* The definitions that emitExceptions, emitBash2PyClass, emitFunctions    *)
(* and emitExpandClass of translate.c make with the blocks of dynamo.c, as *)
(* the calls they make, in order.  A text is written as in the source,     *)
(* with the macros that expand_macros replaces.                            *)
(***************************************************************************)
EXTENDS Naturals, Sequences, SequencesExt

LOCAL Call(kind, subs, l, r) ==
  <<[kind |-> kind, depth |-> 0, subs |-> subs, l |-> l, r |-> r]>>
LOCAL Deeper(calls) == [i \in DOMAIN calls |-> [calls[i] EXCEPT !.depth = @ + 1]]

\* if_(cond, types, ...) with a statement for each letter of types
if_(cond, thens) == Call("if", Len(thens), cond, "") \o Deeper(FlattenSeq(thens))
else_(thens) == Call("else", Len(thens), "", "") \o Deeper(FlattenSeq(thens))
asgn_(l, r) == Call("asgn", 0, l, r)
ret_(what) == Call("ret", 0, what, "")
raise_(what) == Call("raise", 0, what, "")
literal_(text) == Call("literal", 0, text, "")
_asgn_internal(l, r) == Call("set", 0, l, r)

LOCAL Written(calls) == [always |-> FALSE, unsupported |-> FALSE, calls |-> calls]
LOCAL Always(definition) == [definition EXCEPT !.always = TRUE]

\* def_(name, sig), the lines, and write_function
def_(name, sig, lines) == Written(Call("def", 0, name, sig) \o Deeper(FlattenSeq(lines)))

\* _assignment_func_internal
write_init_func(sig) ==
  Always(def_("__init__", sig, <<_asgn_internal("self.val", "= value")>>))
write_assignment_func(name, oper) ==
  def_(name, "SV", <<_asgn_internal("self.val", oper \o "= value"), ret_("$L")>>)
write_preincrement_func ==
  def_("preinc", "SI", <<_asgn_internal("self.val", "+= inc"), ret_("$L")>>)
write_postincrement_func ==
  def_("postinc", "SI", <<asgn_("tmp", "$L"), _asgn_internal("self.val", "+= inc"), ret_("tmp")>>)

write_unsupported_func(name, sig, bash_expr) ==
  [def_(name, sig, <<raise_(bash_expr \o " unsupported")>>) EXCEPT !.unsupported = TRUE]

Section(class, static, defs) == [class |-> class, static |-> static, defs |-> defs]

Exceptions == Section("Bash2PyException", FALSE, <<
  write_init_func("SV0"),
  Always(def_("__str__", "S", <<ret_("repr($S)")>>)) >>)

Bash2PyClass == Section("Bash2Py", FALSE, <<
  Always(Written(asgn_("__slots__", "[\"$u\"]"))),
  write_init_func("SV'"),
  def_("t()", "SV0", <<asgn_("$L", "$v"), ret_("$v")>>),
  write_preincrement_func,
  write_postincrement_func,
  def_("isNull", "S", <<ret_("$L $0")>>),
  def_("notNullElse", "SV", <<if_("$s.isNull()", <<ret_("$v")>>), ret_("$L")>>),
  write_assignment_func("$p", "+"),
  write_assignment_func("$m", "-"),
  write_assignment_func("multiply", "*"),
  write_assignment_func("idivide", "//"),
  write_assignment_func("mod", "%%"),
  write_assignment_func("lsh", "<<"),
  write_assignment_func("rsh", ">>"),
  write_assignment_func("band", "&"),
  write_assignment_func("bor", "|"),
  write_assignment_func("bxor", "^") >>)

Functions == Section("", FALSE, <<
  def_("D()", "NL", <<ret_("$n\\g()|$n\\$l")>>),
  def_("b()", "NL",
    <<if_("$n\\$l", <<ret_("L[$n]")>>), if_("$n\\g()", <<ret_("g()[$n]")>>), ret_("$N")>>),
  def_("Make", "NL",
    <<asgn_("$r", "b($n, $l)"),
      if_("$r $0", <<asgn_("$r", "Bash2Py(0)"), asgn_("g()[$n]", "$r")>>),
      ret_("ret")>>),
  def_("G()", "NL",
    <<asgn_("$b", "b($n,$l)"), if_("$b $0|$b.$u $0", <<ret_("''")>>), ret_("$b.$u")>>),
  def_("S()", "NVL",
    <<asgn_("$b", "b($n,$l)"),
      if_("$b $0", <<asgn_("g()[$n]", "Bash2Py($v)")>>),
      else_(<<asgn_("$b.$u", "$v")>>),
      ret_("$v")>>),
  def_("Str", "V",
    <<if_("i($v, list)", <<ret_("\" \".j($v)")>>),
      if_("i($v, basestring)", <<ret_("$v")>>),
      ret_("str($v)")>>),
  def_("Array", "V",
    <<if_("i($v, list)", <<ret_("$v")>>),
      if_("i($v, basestring)", <<ret_("$v.strip().split(' ')")>>),
      ret_("[ $v ]")>>),
  def_("$G", "V",
    <<asgn_("$r", "$g.$g($v)"), if_("l($r) < 1", <<asgn_("$r", "[ $v ]")>>), ret_("ret")>>) >>)

\* The definitions of ${x-w} and its kind
Operators == <<
  def_("$m", "NV'", <<if_("D($n)", <<ret_("G($n)")>>), ret_("$v")>>),
  def_("eq", "NV'", <<if_("~D($n)", <<literal_("S($n, $v)"), ret_("$v")>>), ret_("G($n)")>>),
  def_("qmark", "NV0",
    <<if_("~D($n)", <<if_("$v $0|$v == ''", <<asgn_("$v", "$Z")>>), raise_("$v")>>),
      ret_("G($n)")>>),
  def_("$p", "NV'", <<if_("~D($n)", <<ret_("''")>>), ret_("$v")>>),
  def_("$c$M", "NV'",
    <<asgn_("$r", "G($n)"), if_("$r $0|$r $q", <<asgn_("$r", "$v")>>), ret_("$r")>>),
  def_("$cEq", "NV'",
    <<asgn_("$r", "G($n)"),
      if_("$r $0|$r $q", <<literal_("S($n, $v)"), asgn_("$r", "$v")>>),
      ret_("$r")>>),
  def_("$cQmark", "NV0",
    <<asgn_("$r", "G($n)"),
      if_("$r $0|$r $q", <<if_("$v $0|$v $q", <<asgn_("$v", "$Z"), raise_("$v")>>)>>),
      ret_("$r")>>),
  def_("$c$P", "NV'",
    <<asgn_("$r", "G($n)"), if_("$r $0|$r $q", <<ret_("''")>>), ret_("$v")>>) >>

Expand == Section("Expand", TRUE, <<
  def_("at", "", <<if_("l($a) < 2", <<ret_("[]")>>), ret_("s[1:]")>>),
  def_("$t", "Q",
    <<if_("in_quotes",
          <<if_("l($a) < 2", <<ret_("\"\"")>>), ret_("\" \".j(s[1:])")>>),
      ret_("Expand.at()")>>),
  def_("hash", "", <<ret_("l($a)-1")>>),
  def_("dollar", "", <<ret_("os.getpid()")>>),
  write_unsupported_func("exclamation", "", "$!"),
  write_unsupported_func("underbar", "", "$_"),
  write_unsupported_func("hyphen", "", "$-") >>
  \o Operators \o <<
  write_unsupported_func("$f$T", "N", "${!$f*}"),
  write_unsupported_func("$fAt", "N", "${!$f@}"),
  write_unsupported_func("indices$T", "N", "${!$n[*]}"),
  write_unsupported_func("indicesAt", "N", "${!$n[*]}") >>)

PreludeSections == <<Exceptions, Bash2PyClass, Functions, Expand>>
=================================================================================
