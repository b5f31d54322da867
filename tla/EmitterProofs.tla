----------------------------- MODULE EmitterProofs -----------------------------
(***************************************************************************)
(* Whatever the commands of a script consist of, and however deep they     *)
(* nest, emit_command leaves its globals as it found them.                 *)
(*                                                                         *)
(* The argument follows the C stack.  A level is what the globals are      *)
(* between two of the operations that remain to be done; each operation    *)
(* takes one level to the next; a walk along a sequence of operations      *)
(* gives a level before and after each of them.  The invariant is that a   *)
(* walk leads along ops from the globals as they are to the globals as     *)
(* they began.  A step that puts the parts of a command in the place of    *)
(* the command preserves it if a walk along the parts leads from the       *)
(* globals after the step to where the command was to lead.                *)
(***************************************************************************)
EXTENDS Emitter, WellFoundedInduction, TLAPS

-------------------------------------------------------------------------------
(***************************************************************************)
(* Induction over numbers: a closed set of naturals is Nat, because what   *)
(* it lacks would have a least member.                                     *)
(***************************************************************************)
LEMMA LeastNatural ==
  ASSUME NEW T \in SUBSET Nat, T # {}
  PROVE  \E n \in T : \A m \in T : n <= m
<1> DEFINE R == OpToRel(<, Nat)
<1>1. IsWellFoundedOn(R, Nat)
  BY NatLessThanWellFounded
<1>2. \A x, y \in Nat : (<<x, y>> \in R) <=> x < y
  BY DEF OpToRel
<1> HIDE DEF R
<1>3. PICK n \in T : \A m \in T : ~(<<m, n>> \in R)
  BY <1>1, WFMin
<1>4. ASSUME NEW m \in T PROVE n <= m
  <2>1. m \in Nat /\ n \in Nat
    OBVIOUS
  <2>2. ~(m < n)
    BY <1>2, <1>3, <2>1
  <2> QED BY ONLY <2>1, <2>2
<1> QED BY <1>4

LEMMA NaturalsClosed ==
  ASSUME NEW S \in SUBSET Nat, 0 \in S, \A n \in S : n + 1 \in S
  PROVE  S = Nat
<1> DEFINE T == Nat \ S
<1>1. SUFFICES ASSUME T # {} PROVE FALSE
  OBVIOUS
<1>2. PICK n \in T : \A m \in T : n <= m
  BY <1>1, LeastNatural
<1>3. n - 1 \in Nat /\ n - 1 \in S
  BY <1>2
<1> QED BY <1>3

LEMMA SequenceOf ==
  ASSUME NEW T, NEW n \in Nat, NEW f \in [1..n -> T]
  PROVE  f \in Seq(T)
OBVIOUS

-------------------------------------------------------------------------------
(***************************************************************************)
(* FlattenSeq is defined by recursion over the places of the sequence.     *)
(***************************************************************************)
\* The function that FlattenSeq is defined by exists.
Flattens(f, s, n) == f = [i \in 1..n |-> IF i = 1 THEN s[i] ELSE f[i - 1] \o s[i]]

LEMMA FlatteningExists ==
  ASSUME NEW s
  PROVE  \A n \in Nat : \E f : Flattens(f, s, n)
<1> DEFINE S == {n \in Nat : \E f : Flattens(f, s, n)}
<1>1. 0 \in S
  <2>1. Flattens(<<>>, s, 0)
    BY DEF Flattens
  <2> QED BY <2>1
<1>2. ASSUME NEW n \in S PROVE n + 1 \in S
  <2>1. n \in Nat /\ \E f : Flattens(f, s, n)
    OBVIOUS
  <2>2. PICK f : Flattens(f, s, n)
    BY <2>1
  <2> HIDE DEF S
  <2> DEFINE last == IF n = 0 THEN s[n + 1] ELSE f[n] \o s[n + 1]
             g == [i \in 1..(n + 1) |-> IF i = n + 1 THEN last ELSE f[i]]
  <2>3. \A i \in 1..n : f[i] = IF i = 1 THEN s[i] ELSE f[i - 1] \o s[i]
    BY <2>2 DEF Flattens
  <2>4. ASSUME NEW i \in 1..(n + 1)
        PROVE  g[i] = IF i = 1 THEN s[i] ELSE g[i - 1] \o s[i]
    <3> HIDE DEF last
    <3>1. CASE i = n + 1 /\ n = 0
      BY <3>1 DEF last
    <3>2. CASE i = n + 1 /\ n # 0
      <4>1. n \in 1..(n + 1) /\ n # n + 1 /\ i - 1 = n /\ i # 1
        BY <2>1, <3>2
      <4>2. g[i] = last /\ g[n] = f[n]
        BY <4>1, <3>2
      <4> QED BY <3>2, <4>1, <4>2 DEF last
    <3>3. CASE i # n + 1
      <4>1. i \in 1..n /\ (i # 1 => i - 1 \in 1..(n + 1) /\ i - 1 # n + 1)
        BY <2>1, <3>3
      <4>2. g[i] = f[i] /\ (i # 1 => g[i - 1] = f[i - 1])
        BY <3>3, <4>1
      <4> QED BY <2>3, <4>1, <4>2
    <3> QED BY <3>1, <3>2, <3>3
  <2>5. g = [i \in 1..(n + 1) |-> IF i = 1 THEN s[i] ELSE g[i - 1] \o s[i]]
    <3>1. g = [i \in 1..(n + 1) |-> g[i]]
      OBVIOUS
    <3> HIDE DEF g
    <3> QED BY <3>1, <2>4
  <2> HIDE DEF g
  <2>6. Flattens(g, s, n + 1)
    BY <2>5 DEF Flattens
  <2> QED BY <2>1, <2>6 DEF S
<1> HIDE DEF S
<1>3. S = Nat
  BY <1>1, <1>2, NaturalsClosed DEF S
<1> QED BY <1>3 DEF S

\* FlattenSeq joins one part after the other.
LEMMA FlattenSteps ==
  ASSUME NEW s, Len(s) \in Nat \ {0}
  PROVE  \E f : /\ f[1] = s[1]
                /\ \A i \in 2..Len(s) : f[i] = f[i - 1] \o s[i]
                /\ FlattenSeq(s) = f[Len(s)]
<1> DEFINE f == CHOOSE f : Flattens(f, s, Len(s))
<1>1. Flattens(f, s, Len(s))
  BY FlatteningExists
<1>2. FlattenSeq(s) = f[Len(s)]
  BY DEF FlattenSeq, Flattens
<1> HIDE DEF f
<1>3. \A i \in 1..Len(s) : f[i] = IF i = 1 THEN s[i] ELSE f[i - 1] \o s[i]
  BY <1>1 DEF Flattens
<1>4. f[1] = s[1]
  BY <1>3
<1>5. ASSUME NEW i \in 2..Len(s) PROVE f[i] = f[i - 1] \o s[i]
  <2>1. i \in 1..Len(s) /\ i # 1
    OBVIOUS
  <2> QED BY <1>3, <2>1
<1> QED BY <1>2, <1>4, <1>5

LEMMA FlattenEmpty == FlattenSeq(<<>>) = <<>>
BY DEF FlattenSeq

LEMMA FlattenType ==
  ASSUME NEW T, NEW s \in Seq(Seq(T))
  PROVE  FlattenSeq(s) \in Seq(T)
<1>1. CASE s = <<>>
  <2>1. FlattenSeq(s) = <<>>
    BY <1>1, FlattenEmpty
  <2> QED BY <2>1
<1>2. CASE s # <<>>
  <2>1. Len(s) \in Nat \ {0} /\ \A i \in 1..Len(s) : s[i] \in Seq(T)
    BY <1>2
  <2>2. PICK f : /\ f[1] = s[1]
                 /\ \A i \in 2..Len(s) : f[i] = f[i - 1] \o s[i]
                 /\ FlattenSeq(s) = f[Len(s)]
    BY <2>1, FlattenSteps
  <2> DEFINE S == {n \in Nat : n \in 1..Len(s) => f[n] \in Seq(T)}
  <2>3. ASSUME NEW n \in Nat, n \in 1..Len(s) => f[n] \in Seq(T), n + 1 \in 1..Len(s)
        PROVE  f[n + 1] \in Seq(T)
    <3>1. CASE n = 0
      BY <3>1, <2>1, <2>2
    <3>2. CASE n # 0
      <4>1. n \in 1..Len(s) /\ n + 1 \in 2..Len(s) /\ (n + 1) - 1 = n
        BY <3>2, <2>1, <2>3
      <4>2. f[n] \in Seq(T) /\ s[n + 1] \in Seq(T)
        BY <4>1, <2>1, <2>3
      <4>3. f[n + 1] = f[n] \o s[n + 1]
        BY <4>1, <2>2
      <4> QED BY <4>2, <4>3
    <3> QED BY <3>1, <3>2
  <2>4. S = Nat
    <3>1. S \in SUBSET Nat /\ 0 \in S
      OBVIOUS
    <3>2. ASSUME NEW n \in S PROVE n + 1 \in S
      <4>1. n \in Nat /\ (n \in 1..Len(s) => f[n] \in Seq(T))
        OBVIOUS
      <4>2. n + 1 \in 1..Len(s) => f[n + 1] \in Seq(T)
        BY <4>1, <2>3
      <4> QED BY <4>1, <4>2
    <3> HIDE DEF S
    <3> QED BY <3>1, <3>2, NaturalsClosed
  <2>5. Len(s) \in S
    BY <2>1, <2>4
  <2> QED BY <2>1, <2>2, <2>5
<1> QED BY <1>1, <1>2

\* What is joined for the elements of a sequence
LEMMA PartsType ==
  ASSUME NEW T, NEW U, NEW s \in Seq(T), NEW parts \in [DOMAIN s -> Seq(U)]
  PROVE  FlattenSeq(parts) \in Seq(U)
<1>1. Len(s) \in Nat /\ DOMAIN s = 1..Len(s)
  OBVIOUS
<1>2. parts \in Seq(Seq(U))
  BY <1>1, SequenceOf
<1> QED BY <1>2, FlattenType

-------------------------------------------------------------------------------
Kinds ==
  HereDocument \union CaseWord \union {NoWord, " "} \union
  {":", "\n", "(", ")", "_rc =", "assign", "break", "call", "communicate", "condition", "coproc",
   "def", "def thread", "do", "done", "elif", "else", "expression", "for", "if", "match =", "not",
   "os.dup2", "pipe", "print '''", "reader", "redirection", "select", "setValue", "start",
   "stderr", "sys.exit", "wait", "while", "word", "writer"}

Statements ==
  {"trim", "heredocs", "drop", "prefix", "fresh", "separate", "fault",
   "indent", "outdent", "++printing", "--printing", "service queue"}

Conditional == {c \in Commands : c.type \in {"if", "elif"}}

Op ==
  [op : {"put"}, kinds : Seq(Kinds)]
    \union [op : {"emit"}, c : OrNone]
    \union [op : {"if"}, c : Conditional, extra : Nat]
    \union [op : {"return"}, embedded : Nat, redirects : Seq(Redirection)]
    \union [op : {"clause"}, v : Clause]
    \union [op : {"writer", "async"}, v : OrNone]
    \union [op : {"function", "print function"}, v : Commands]
    \union [op : {"restore stdout", "start"}, v : Nat]
    \union [op : {"end function", "redirections"}, v : Seq(Redirection)]
    \union [op : Statements]

\* queue: a "service queue" is still to be done.
Level ==
  {a \in [indent : Nat, save : Nat, embedded : Nat, printing : Nat, stdout : Nat,
          inside : BOOLEAN, queue : BOOLEAN] :
     a.stdout <= a.printing /\ (a.inside => a.queue)}

\* A definition in a command that is printed here would find the queue empty.
Free(a) == a.inside \/ ~a.queue

Allowed(o, a) ==
  /\ o.op \in {"emit", "if", "writer", "async", "function"} => Free(a)
  /\ o.op = "print function" => ~a.inside
  /\ o.op = "end function" => a.inside
  /\ o.op = "service queue" => ~a.inside /\ a.embedded = 0

Effect(o, a) ==
  CASE o.op = "indent" -> [a EXCEPT !.indent = @ + 1]
    [] o.op = "outdent" -> [a EXCEPT !.indent = @ - 1]
    [] o.op = "if" -> [a EXCEPT !.indent = @ - o.extra]
    [] o.op = "++printing" -> [a EXCEPT !.printing = @ + 1]
    [] o.op = "--printing" -> [a EXCEPT !.printing = @ - 1]
    [] o.op = "restore stdout" -> [a EXCEPT !.stdout = o.v]
    [] o.op = "return" -> [a EXCEPT !.embedded = o.embedded]
    [] o.op = "function" -> IF a.inside THEN a ELSE [a EXCEPT !.embedded = 0]
    [] o.op = "print function" -> [a EXCEPT !.embedded = 0, !.queue = TRUE]
    [] o.op = "end function" -> [a EXCEPT !.indent = a.save, !.save = a.indent, !.inside = FALSE]
    [] o.op = "service queue" -> [a EXCEPT !.queue = FALSE]
    [] OTHER -> a

Takes(o, a, b) == o \in Op /\ Allowed(o, a) /\ b = Effect(o, a)

Walk(s, a, b) ==
  /\ s \in Seq(Op)
  /\ \E f \in [1..(Len(s) + 1) -> Level] :
       /\ f[1] = a /\ f[Len(s) + 1] = b
       /\ \A i \in 1..Len(s) : Takes(s[i], f[i], f[i + 1])

-------------------------------------------------------------------------------
(***************************************************************************)
(* Walks                                                                   *)
(***************************************************************************)
LEMMA WalkNil == ASSUME NEW a \in Level PROVE Walk(<<>>, a, a)
<1> DEFINE f == [i \in {1} |-> a]
<1>1. f \in [1..(Len(<<>>) + 1) -> Level] /\ f[1] = a
  OBVIOUS
<1> HIDE DEF f
<1> QED BY <1>1 DEF Walk

LEMMA WalkNowhere == ASSUME NEW a, NEW b, Walk(<<>>, a, b) PROVE a = b
BY DEF Walk

LEMMA WalkLevels == ASSUME NEW s, NEW a, NEW b, Walk(s, a, b) PROVE a \in Level /\ b \in Level
BY DEF Walk

LEMMA WalkOne ==
  ASSUME NEW o, NEW a \in Level, NEW b \in Level, Takes(o, a, b)
  PROVE  Walk(<<o>>, a, b)
<1> DEFINE f == [i \in 1..2 |-> IF i = 1 THEN a ELSE b]
<1>1. f \in [1..2 -> Level] /\ f[1] = a /\ f[2] = b
  OBVIOUS
<1>2. o \in Op
  BY DEF Takes
<1>3. <<o>> \in Seq(Op) /\ Len(<<o>>) = 1 /\ <<o>>[1] = o
  BY <1>2
<1> HIDE DEF f
<1> QED BY <1>1, <1>3 DEF Walk

LEMMA WalkConcat ==
  ASSUME NEW s, NEW t, NEW a, NEW b, NEW c, Walk(s, a, b), Walk(t, b, c)
  PROVE  Walk(s \o t, a, c)
<1>1. s \in Seq(Op) /\ t \in Seq(Op)
  BY DEF Walk
<1>2. PICK f \in [1..(Len(s) + 1) -> Level] :
        /\ f[1] = a /\ f[Len(s) + 1] = b
        /\ \A i \in 1..Len(s) : Takes(s[i], f[i], f[i + 1])
  BY DEF Walk
<1>3. PICK g \in [1..(Len(t) + 1) -> Level] :
        /\ g[1] = b /\ g[Len(t) + 1] = c
        /\ \A i \in 1..Len(t) : Takes(t[i], g[i], g[i + 1])
  BY DEF Walk
<1> DEFINE n == Len(s)
           m == Len(t)
           h == [i \in 1..(n + m + 1) |-> IF i <= n THEN f[i] ELSE g[i - n]]
<1>4. n \in Nat /\ m \in Nat
  BY <1>1
<1>5. s \o t \in Seq(Op) /\ Len(s \o t) = n + m
  BY <1>1
<1>6. \A i \in 1..(n + m) : (s \o t)[i] = IF i <= n THEN s[i] ELSE t[i - n]
  BY <1>1
<1> HIDE DEF n, m
<1>7. h \in [1..(n + m + 1) -> Level]
  BY <1>2, <1>3, <1>4 DEF n, m
<1>8. h[1] = a /\ h[n + m + 1] = c
  <2>1. CASE n = 0
    BY <2>1, <1>2, <1>3, <1>4 DEF n, m
  <2>2. CASE n # 0
    BY <2>2, <1>2, <1>3, <1>4 DEF n, m
  <2> QED BY <2>1, <2>2
<1>9. \A i \in 1..(n + m + 1) : h[i] = IF i <= n THEN f[i] ELSE g[i - n]
  OBVIOUS
<1> HIDE DEF h
<1>10. ASSUME NEW i \in 1..(n + m) PROVE Takes((s \o t)[i], h[i], h[i + 1])
  <2>1. i \in 1..(n + m + 1) /\ i + 1 \in 1..(n + m + 1) /\ i \in Int /\ n \in Int
    BY <1>4
  <2>2. CASE i < n
    <3>1. i <= n /\ i + 1 <= n /\ i \in 1..n
      BY <2>1, <2>2
    <3>2. h[i] = f[i] /\ h[i + 1] = f[i + 1] /\ (s \o t)[i] = s[i]
      BY <2>1, <3>1, <1>6, <1>9
    <3> QED BY <3>1, <3>2, <1>2 DEF n
  <2>3. CASE i = n
    <3>1. i <= n /\ ~(i + 1 <= n) /\ (i + 1) - n = 1 /\ i \in 1..n
      BY <2>1, <2>3
    <3>2. h[i] = f[i] /\ h[i + 1] = g[1] /\ (s \o t)[i] = s[i]
      BY <2>1, <3>1, <1>6, <1>9
    <3>3. g[1] = f[i + 1]
      BY <2>3, <1>2, <1>3 DEF n
    <3> QED BY <3>1, <3>2, <3>3, <1>2 DEF n
  <2>4. CASE i > n
    <3>1. i - n \in 1..m /\ (i + 1) - n = (i - n) + 1 /\ ~(i <= n) /\ ~(i + 1 <= n)
      BY <2>1, <2>4, <1>4
    <3>2. h[i] = g[i - n] /\ (s \o t)[i] = t[i - n]
      BY <2>1, <3>1, <1>6, <1>9
    <3>3. h[i + 1] = g[(i + 1) - n]
      BY <2>1, <3>1, <1>9
    <3>4. \A j \in 1..m : Takes(t[j], g[j], g[j + 1])
      BY <1>3 DEF m
    <3>5. Takes(t[i - n], g[i - n], g[(i - n) + 1])
      BY <3>1, <3>4
    <3>6. h[i + 1] = g[(i - n) + 1]
      BY <3>1, <3>3
    <3> QED BY <3>2, <3>5, <3>6
  <2>5. i < n \/ i = n \/ i > n
    BY <2>1
  <2> QED BY <2>2, <2>3, <2>4, <2>5, Zenon
<1> QED BY <1>5, <1>7, <1>8, <1>10 DEF Walk

\* The first operation, and the rest of the walk.
LEMMA WalkTail ==
  ASSUME NEW s, NEW a, NEW c, Walk(s, a, c), s # <<>>
  PROVE  /\ Takes(Head(s), a, Effect(Head(s), a)) /\ Effect(Head(s), a) \in Level
         /\ Walk(Tail(s), Effect(Head(s), a), c)
<1>1. s \in Seq(Op) /\ Len(s) \in Nat \ {0} /\ Head(s) = s[1]
  BY DEF Walk
<1>2. PICK f \in [1..(Len(s) + 1) -> Level] :
        /\ f[1] = a /\ f[Len(s) + 1] = c
        /\ \A i \in 1..Len(s) : Takes(s[i], f[i], f[i + 1])
  BY DEF Walk
<1> DEFINE n == Len(s) - 1
           g == [i \in 1..(n + 1) |-> f[i + 1]]
<1>3. n \in Nat /\ Len(s) = n + 1
  BY <1>1
<1>4. Tail(s) \in Seq(Op) /\ Len(Tail(s)) = n /\ \A i \in 1..n : Tail(s)[i] = s[i + 1]
  BY <1>1
<1> HIDE DEF n
<1>5. Takes(s[1], f[1], f[2]) /\ f[2] \in Level
  BY <1>2, <1>3
<1>6. f[2] = Effect(Head(s), a)
  BY <1>1, <1>2, <1>5 DEF Takes
<1>7. g \in [1..(n + 1) -> Level] /\ g[1] = f[2] /\ g[n + 1] = c
  BY <1>2, <1>3
<1>8. ASSUME NEW i \in 1..n PROVE Takes(Tail(s)[i], g[i], g[i + 1])
  <2>1. i + 1 \in 1..Len(s) /\ g[i] = f[i + 1] /\ g[i + 1] = f[(i + 1) + 1]
    BY <1>3
  <2> QED BY <2>1, <1>2, <1>4
<1> HIDE DEF g
<1>9. Walk(Tail(s), f[2], c)
  BY <1>4, <1>7, <1>8 DEF Walk
<1> QED BY <1>1, <1>2, <1>5, <1>6, <1>9

-------------------------------------------------------------------------------
(***************************************************************************)
(* The walk of each operation                                              *)
(***************************************************************************)
Deeper(a) == [a EXCEPT !.indent = @ + 1]

LEMMA SameLevel ==
  ASSUME NEW a \in Level, NEW b \in Level,
         a.indent = b.indent, a.save = b.save, a.embedded = b.embedded,
         a.printing = b.printing, a.stdout = b.stdout,
         a.inside = b.inside, a.queue = b.queue
  PROVE  a = b
<1> DEFINE Copy(c) == [indent |-> c.indent, save |-> c.save, embedded |-> c.embedded,
                       printing |-> c.printing, stdout |-> c.stdout,
                       inside |-> c.inside, queue |-> c.queue]
<1>1. a = Copy(a) /\ b = Copy(b)
  BY DEF Level
<1> QED BY <1>1

LEMMA DeeperLevel ==
  ASSUME NEW a \in Level
  PROVE  Deeper(a) \in Level /\ (Free(a) <=> Free(Deeper(a)))
BY DEF Deeper, Level, Free

LEMMA OpStatement == ASSUME NEW n \in Statements PROVE [op |-> n] \in Op
BY DEF Op

\* These leave the level alone.
LEMMA StepPut == ASSUME NEW k \in Seq(Kinds), NEW a \in Level PROVE Walk(Put(k), a, a)
<1>1. CASE k = <<>>
  BY <1>1, WalkNil DEF Put
<1>2. CASE k # <<>>
  <2> DEFINE o == [op |-> "put", kinds |-> k]
  <2>1. o \in Op
    BY DEF Op
  <2>2. Takes(o, a, a)
    BY <2>1 DEF Takes, Allowed, Effect
  <2> QED BY <1>2, <2>2, WalkOne DEF Put
<1> QED BY <1>1, <1>2

LEMMA StepEmit ==
  ASSUME NEW c \in OrNone, NEW a \in Level, Free(a)
  PROVE  Walk(Emit(c), a, a)
<1> DEFINE o == [op |-> "emit", c |-> c]
<1>1. o \in Op
  BY DEF Op
<1>2. Takes(o, a, a)
  BY <1>1 DEF Takes, Allowed, Effect
<1> QED BY <1>2, WalkOne DEF Emit

LEMMA StepDo ==
  ASSUME NEW n \in {"trim", "heredocs", "drop", "prefix", "fresh", "separate", "fault"}, NEW a \in Level
  PROVE  Walk(Do(n), a, a)
<1> DEFINE o == [op |-> n]
<1>1. o \in Op
  BY OpStatement DEF Statements
<1>2. Takes(o, a, a)
  BY <1>1 DEF Takes, Allowed, Effect
<1> QED BY <1>2, WalkOne DEF Do

LEMMA StepIndent == ASSUME NEW a \in Level PROVE Walk(Do("indent"), a, Deeper(a))
<1> DEFINE o == [op |-> "indent"]
<1>1. o \in Op
  BY OpStatement DEF Statements
<1>2. Takes(o, a, Deeper(a))
  BY <1>1 DEF Takes, Allowed, Effect, Deeper
<1> QED BY <1>2, WalkOne, DeeperLevel DEF Do

LEMMA StepOutdent == ASSUME NEW a \in Level PROVE Walk(Do("outdent"), Deeper(a), a)
<1> DEFINE o == [op |-> "outdent"]
<1>1. o \in Op
  BY OpStatement DEF Statements
<1>2. [Deeper(a) EXCEPT !.indent = @ - 1] = a
  <2> DEFINE b == [Deeper(a) EXCEPT !.indent = @ - 1]
  <2>0. Deeper(a) \in Level /\ Deeper(a).indent - 1 = a.indent /\ a.indent \in Nat
    BY DEF Deeper, Level
  <2>1. b \in Level /\ b.indent = a.indent
    BY <2>0 DEF Level
  <2>2. /\ b.save = a.save /\ b.embedded = a.embedded /\ b.printing = a.printing
        /\ b.stdout = a.stdout /\ b.inside = a.inside /\ b.queue = a.queue
    BY DEF Deeper, Level
  <2> HIDE DEF b
  <2>3. b = a
    BY <2>1, <2>2, SameLevel
  <2> QED BY <2>3 DEF b
<1>3. Takes(o, Deeper(a), a)
  BY <1>1, <1>2 DEF Takes, Allowed, Effect
<1> QED BY <1>3, WalkOne, DeeperLevel DEF Do

LEMMA StepClause ==
  ASSUME NEW v \in Clause, NEW a \in Level
  PROVE  Walk(With("clause", v), a, a)
<1> DEFINE o == [op |-> "clause", v |-> v]
<1>1. o \in Op
  BY DEF Op
<1>2. Takes(o, a, a)
  BY <1>1 DEF Takes, Allowed, Effect
<1> QED BY <1>2, WalkOne DEF With

LEMMA StepJob ==
  ASSUME NEW n \in {"writer", "async"}, NEW v \in OrNone, NEW a \in Level, Free(a)
  PROVE  Walk(With(n, v), a, a)
<1> DEFINE o == [op |-> n, v |-> v]
<1>1. o \in Op
  BY DEF Op
<1>2. Takes(o, a, a)
  BY <1>1 DEF Takes, Allowed, Effect
<1> QED BY <1>2, WalkOne DEF With

LEMMA StepStart ==
  ASSUME NEW v \in Nat, NEW a \in Level
  PROVE  Walk(With("start", v), a, a)
<1> DEFINE o == [op |-> "start", v |-> v]
<1>1. o \in Op
  BY DEF Op
<1>2. Takes(o, a, a)
  BY <1>1 DEF Takes, Allowed, Effect
<1> QED BY <1>2, WalkOne DEF With

LEMMA StepRedirections ==
  ASSUME NEW v \in Seq(Redirection), NEW a \in Level
  PROVE  Walk(With("redirections", v), a, a)
<1> DEFINE o == [op |-> "redirections", v |-> v]
<1>1. o \in Op
  BY DEF Op
<1>2. Takes(o, a, a)
  BY <1>1 DEF Takes, Allowed, Effect
<1> QED BY <1>2, WalkOne DEF With

\* These do not.
LEMMA StepIf ==
  ASSUME NEW c \in Conditional, NEW extra \in Nat, NEW a \in Level, Free(a), a.indent >= extra
  PROVE  Walk(RestartIf(c, extra), a, [a EXCEPT !.indent = @ - extra])
<1> DEFINE o == [op |-> "if", c |-> c, extra |-> extra]
           b == [a EXCEPT !.indent = @ - extra]
<1>1. o \in Op
  BY DEF Op
<1>2. Takes(o, a, b)
  BY <1>1 DEF Takes, Allowed, Effect
<1>3. b \in Level
  BY DEF Level
<1> QED BY <1>2, <1>3, WalkOne DEF RestartIf

LEMMA StepReturn ==
  ASSUME NEW n \in Nat, NEW rs \in Seq(Redirection), NEW a \in Level
  PROVE  Walk(<<[op |-> "return", embedded |-> n, redirects |-> rs]>>, a, [a EXCEPT !.embedded = n])
<1> DEFINE o == [op |-> "return", embedded |-> n, redirects |-> rs]
           b == [a EXCEPT !.embedded = n]
<1>1. o \in Op
  BY DEF Op
<1>2. Takes(o, a, b)
  BY <1>1 DEF Takes, Allowed, Effect
<1>3. b \in Level
  BY DEF Level
<1> QED BY <1>2, <1>3, WalkOne

LEMMA StepRestoreStdout ==
  ASSUME NEW n \in Nat, NEW a \in Level, n <= a.printing
  PROVE  Walk(With("restore stdout", n), a, [a EXCEPT !.stdout = n])
<1> DEFINE o == [op |-> "restore stdout", v |-> n]
           b == [a EXCEPT !.stdout = n]
<1>1. o \in Op
  BY DEF Op
<1>2. Takes(o, a, b)
  BY <1>1 DEF Takes, Allowed, Effect
<1>3. b \in Level
  BY DEF Level
<1> QED BY <1>2, <1>3, WalkOne DEF With

LEMMA StepCount ==
  ASSUME NEW a \in Level, NEW b, b = [a EXCEPT !.printing = @ + 1]
  PROVE  b \in Level /\ Walk(Do("++printing"), a, b) /\ Walk(Do("--printing"), b, a)
<1>1. b \in Level /\ [b EXCEPT !.printing = @ - 1] = a
  <2> DEFINE c == [b EXCEPT !.printing = @ - 1]
  <2>0. /\ b \in Level /\ b.printing - 1 = a.printing /\ b.stdout = a.stdout
        /\ a.printing \in Nat /\ a.stdout <= a.printing
    BY DEF Level
  <2>1. b \in Level /\ c \in Level /\ c.printing = a.printing
    BY <2>0 DEF Level
  <2>2. /\ c.indent = a.indent /\ c.save = a.save /\ c.embedded = a.embedded
        /\ c.stdout = a.stdout /\ c.inside = a.inside /\ c.queue = a.queue
    BY DEF Level
  <2> HIDE DEF c
  <2>3. c = a
    BY <2>1, <2>2, SameLevel
  <2> QED BY <2>1, <2>3 DEF c
<1>2. [op |-> "++printing"] \in Op /\ [op |-> "--printing"] \in Op
  BY OpStatement DEF Statements
<1>3. Takes([op |-> "++printing"], a, b)
  BY <1>2 DEF Takes, Allowed, Effect
<1>4. Takes([op |-> "--printing"], b, a)
  BY <1>1, <1>2 DEF Takes, Allowed, Effect
<1> QED BY <1>1, <1>3, <1>4, WalkOne DEF Do

LEMMA StepFunction ==
  ASSUME NEW v \in Commands, NEW a \in Level, Free(a)
  PROVE  Walk(With("function", v), a, IF a.inside THEN a ELSE [a EXCEPT !.embedded = 0])
<1> DEFINE o == [op |-> "function", v |-> v]
           b == IF a.inside THEN a ELSE [a EXCEPT !.embedded = 0]
<1>1. o \in Op
  BY DEF Op
<1>2. Takes(o, a, b)
  BY <1>1 DEF Takes, Allowed, Effect
<1>3. b \in Level
  BY DEF Level
<1> QED BY <1>2, <1>3, WalkOne DEF With

\* A definition and the queue that it leaves
LEMMA StepPrintFunction ==
  ASSUME NEW v \in Commands, NEW a \in Level, ~a.inside
  PROVE  Walk(With("print function", v) \o Do("service queue"), a,
              [a EXCEPT !.embedded = 0, !.queue = FALSE])
<1> DEFINE o == [op |-> "print function", v |-> v]
           s == [op |-> "service queue"]
           b == [a EXCEPT !.embedded = 0, !.queue = TRUE]
           c == [a EXCEPT !.embedded = 0, !.queue = FALSE]
<1>1. o \in Op /\ s \in Op
  BY OpStatement DEF Op, Statements
<1>2. b \in Level /\ c \in Level /\ ~b.inside /\ b.embedded = 0 /\ [b EXCEPT !.queue = FALSE] = c
  BY DEF Level
<1>3. Takes(o, a, b)
  BY <1>1 DEF Takes, Allowed, Effect
<1> HIDE DEF b, c
<1>4. Takes(s, b, c)
  BY <1>1, <1>2 DEF Takes, Allowed, Effect
<1>5. Walk(<<o>>, a, b) /\ Walk(<<s>>, b, c)
  BY <1>2, <1>3, <1>4, WalkOne
<1>6. Walk(<<o>> \o <<s>>, a, c)
  BY <1>5, WalkConcat
<1> QED BY <1>6 DEF With, Do, c

LEMMA StepEndFunction ==
  ASSUME NEW v \in Seq(Redirection), NEW a \in Level, a.inside
  PROVE  Walk(With("end function", v), a,
              [a EXCEPT !.indent = a.save, !.save = a.indent, !.inside = FALSE])
<1> DEFINE o == [op |-> "end function", v |-> v]
           b == [a EXCEPT !.indent = a.save, !.save = a.indent, !.inside = FALSE]
<1>1. o \in Op
  BY DEF Op
<1>2. Takes(o, a, b)
  BY <1>1 DEF Takes, Allowed, Effect
<1>3. b \in Level
  BY DEF Level
<1> QED BY <1>2, <1>3, WalkOne DEF With

-------------------------------------------------------------------------------
(***************************************************************************)
(* The walks of plans, which are read from the end                         *)
(***************************************************************************)
LEMMA ThenNeutral ==
  ASSUME NEW s, NEW t, NEW a, NEW b, Walk(s, a, b), Walk(t, b, b)
  PROVE  Walk(s \o t, a, b)
BY WalkConcat

LEMMA ThenIndent ==
  ASSUME NEW s, NEW a, NEW b, Walk(s, a, b)
  PROVE  Walk(s \o Do("indent"), a, Deeper(b))
<1>1. Walk(Do("indent"), b, Deeper(b))
  BY WalkLevels, StepIndent
<1> QED BY <1>1, WalkConcat

LEMMA ThenOutdent ==
  ASSUME NEW s, NEW a, NEW b \in Level, Walk(s, a, Deeper(b))
  PROVE  Walk(s \o Do("outdent"), a, b)
<1>1. Walk(Do("outdent"), Deeper(b), b)
  BY StepOutdent
<1> QED BY <1>1, WalkConcat

LEMMA WalkRead == ASSUME NEW c, NEW a \in Level PROVE Walk(ReadOperator(c), a, a)
BY StepDo, WalkNil DEF ReadOperator

LEMMA WalkTest ==
  ASSUME NEW c \in OrNone, NEW a \in Level, Free(a)
  PROVE  Walk(Test(c), a, a)
BY StepEmit, StepDo, ThenNeutral DEF Test

LEMMA WalkBlock ==
  ASSUME NEW c \in OrNone, NEW a \in Level, Free(a)
  PROVE  Walk(Block(c), a, a)
BY StepIndent, StepEmit, StepDo, DeeperLevel, ThenNeutral, ThenOutdent DEF Block

\* A sequence of parts, each of which leads back.
LEMMA FlattenWalk ==
  ASSUME NEW s, Len(s) \in Nat, NEW a \in Level,
         \A i \in 1..Len(s) : Walk(s[i], a, a), Len(s) = 0 => s = <<>>
  PROVE  Walk(FlattenSeq(s), a, a)
<1>1. CASE Len(s) = 0
  BY <1>1, FlattenEmpty, WalkNil
<1>2. CASE Len(s) # 0
  <2>1. PICK f : /\ f[1] = s[1]
                 /\ \A i \in 2..Len(s) : f[i] = f[i - 1] \o s[i]
                 /\ FlattenSeq(s) = f[Len(s)]
    BY <1>2, FlattenSteps
  <2> DEFINE S == {n \in Nat : n \in 1..Len(s) => Walk(f[n], a, a)}
  <2>2. ASSUME NEW n \in S, n + 1 \in 1..Len(s) PROVE Walk(f[n + 1], a, a)
    <3>1. CASE n = 0
      BY <3>1, <2>1, <1>2
    <3>2. CASE n # 0
      <4>1. n \in 1..Len(s) /\ n + 1 \in 2..Len(s) /\ (n + 1) - 1 = n
        BY <3>2, <2>2
      <4>2. Walk(f[n], a, a) /\ Walk(s[n + 1], a, a)
        BY <4>1
      <4>3. f[n + 1] = f[n] \o s[n + 1]
        BY <4>1, <2>1
      <4> QED BY <4>2, <4>3, WalkConcat
    <3> QED BY <3>1, <3>2
  <2>3. S \in SUBSET Nat /\ 0 \in S
    OBVIOUS
  <2>4. \A n \in S : n + 1 \in S
    BY <2>2
  <2> HIDE DEF S
  <2>5. S = Nat
    BY <2>3, <2>4, NaturalsClosed
  <2>6. Walk(f[Len(s)], a, a)
    BY <1>2, <2>5 DEF S
  <2> QED BY <2>1, <2>6
<1> QED BY <1>1, <1>2

-------------------------------------------------------------------------------
(***************************************************************************)
(* The walk from the globals as they are                                   *)
(***************************************************************************)
Now(q) ==
  [indent |-> indent, save |-> saveIndent, embedded |-> embedded,
   printing |-> printing, stdout |-> stdout, inside |-> inside, queue |-> q]

Rest ==
  [indent |-> 0, save |-> 0, embedded |-> 0, printing |-> 0, stdout |-> 0,
   inside |-> FALSE, queue |-> FALSE]

Balanced == \E q \in BOOLEAN : (later # <<>> => q) /\ Walk(ops, Now(q), Rest)

levels == <<indent, saveIndent, inside, later, embedded, printing, stdout>>

LEMMA Opened ==
  ASSUME Balanced, ops # <<>>
  PROVE  \E q \in BOOLEAN :
           /\ later # <<>> => q
           /\ Now(q) \in Level /\ Head(ops) \in Op /\ Allowed(Head(ops), Now(q))
           /\ Walk(Tail(ops), Effect(Head(ops), Now(q)), Rest)
<1>1. PICK q \in BOOLEAN : (later # <<>> => q) /\ Walk(ops, Now(q), Rest)
  BY DEF Balanced
<1>2. Now(q) \in Level
  BY <1>1, WalkLevels
<1>3. /\ Takes(Head(ops), Now(q), Effect(Head(ops), Now(q)))
      /\ Walk(Tail(ops), Effect(Head(ops), Now(q)), Rest)
  BY <1>1, WalkTail
<1> QED BY <1>1, <1>2, <1>3 DEF Takes

LEMMA ReplacedBy ==
  ASSUME NEW q \in BOOLEAN, NEW new, NEW b, later' # <<>> => q,
         ops' = new \o Tail(ops), Walk(new, Now(q)', b), Walk(Tail(ops), b, Rest)
  PROVE  Balanced'
<1>1. Walk(ops', Now(q)', Rest)
  BY WalkConcat
<1> QED BY <1>1 DEF Balanced, Now, Rest

LEMMA Returned ==
  ASSUME NEW q \in BOOLEAN, later' # <<>> => q, Return, Walk(Tail(ops), Now(q)', Rest)
  PROVE  Balanced'
BY DEF Balanced, Now, Rest, Return

\* What is done, and has no effect on the level.
Indifferent == {"emit", "clause", "start", "redirections", "put", "trim", "heredocs", "drop",
                "prefix", "fresh", "separate", "async", "writer"}

LEMMA IndifferentEffect ==
  ASSUME NEW o, NEW a, o.op \in Indifferent
  PROVE  Effect(o, a) = a
BY DEF Indifferent, Effect

LEMMA IndifferentStep ==
  ASSUME Balanced, ops # <<>>, Head(ops).op \in Indifferent, Return, UNCHANGED levels
  PROVE  Balanced'
<1>1. PICK q \in BOOLEAN : /\ later # <<>> => q
                           /\ Walk(Tail(ops), Effect(Head(ops), Now(q)), Rest)
  BY Opened
<1>2. Effect(Head(ops), Now(q)) = Now(q) /\ Now(q)' = Now(q)
  BY IndifferentEffect DEF Now, levels
<1>3. (later' # <<>> => q) /\ Walk(Tail(ops), Now(q)', Rest)
  BY <1>1, <1>2 DEF levels
<1> QED BY <1>3, Returned

LEMMA IndifferentGoto ==
  ASSUME NEW new, Balanced, ops # <<>>, Head(ops).op \in Indifferent, Goto(new),
         \A q \in BOOLEAN :
           Now(q) \in Level /\ Allowed(Head(ops), Now(q)) => Walk(new, Now(q), Now(q)),
         UNCHANGED levels
  PROVE  Balanced'
<1>1. PICK q \in BOOLEAN : /\ later # <<>> => q
                           /\ Now(q) \in Level /\ Allowed(Head(ops), Now(q))
                           /\ Walk(Tail(ops), Effect(Head(ops), Now(q)), Rest)
  BY Opened
<1>2. Effect(Head(ops), Now(q)) = Now(q) /\ Now(q)' = Now(q)
  BY IndifferentEffect DEF Now, levels
<1>3. Walk(new, Now(q)', Now(q)) /\ Walk(Tail(ops), Now(q), Rest)
  BY <1>1, <1>2
<1>4. (later' # <<>> => q) /\ ops' = new \o Tail(ops)
  BY <1>1 DEF levels, Goto
<1> QED BY <1>3, <1>4, ReplacedBy

\* The plan of a command, wherever it is printed
IsPlan(p) ==
  \A a \in Level : Free(a) => Walk(p, a, a) \/ Walk(p, a, [a EXCEPT !.embedded = 0])

LEMMA Spelled ==
  /\ \A x \in Kinds : <<x>> \in Seq(Kinds)
  /\ \A x, y \in Kinds : <<x, y>> \in Seq(Kinds)
  /\ \A x, y, z \in Kinds : <<x, y, z>> \in Seq(Kinds)
  /\ \A x, y, z, u \in Kinds : <<x, y, z, u>> \in Seq(Kinds)
  /\ \A x, y, z, u, v \in Kinds : <<x, y, z, u, v>> \in Seq(Kinds)
  /\ <<>> \in Seq(Kinds)
OBVIOUS

LEMMA Spelling == {":", "\n", " ", "(", ")", "_rc =", "assign", "break", "call", "communicate", "condition", "coproc",
   "def", "def thread", "do", "done", "elif", "else", "expression", "for", "if", "match =", "not",
   "os.dup2", "pipe", "print '''", "reader", "redirection", "select", "setValue", "start",
   "stderr", "sys.exit", "wait", "while", "word", "writer"} \subseteq Kinds
BY DEF Kinds

LEMMA HandledType ==
  ASSUME NEW rs \in Seq(Redirection)
  PROVE  Handled(rs) \in Seq(Kinds)
<1> DEFINE part(r) == IF r \in HereDocument THEN <<"print '''", "\n", r>>
                      ELSE IF r = "dup word" THEN <<"os.dup2", "\n">>
                      ELSE <<"redirection">>
           parts == [i \in DOMAIN rs |-> part(rs[i])]
<1>1. ASSUME NEW r \in Redirection PROVE part(r) \in Seq(Kinds)
  <2>1. r \in HereDocument => r \in Kinds
    BY DEF Kinds
  <2> QED BY <2>1, Spelled, Spelling
<1>2. \A i \in DOMAIN rs : rs[i] \in Redirection
  OBVIOUS
<1> HIDE DEF part
<1>3. parts \in [DOMAIN rs -> Seq(Kinds)]
  BY <1>1, <1>2
<1> HIDE DEF parts
<1>4. FlattenSeq(parts) \in Seq(Kinds)
  BY <1>3, PartsType
<1> QED BY <1>4 DEF Handled, part, parts

LEMMA SelectedType ==
  ASSUME NEW rs \in Seq(Redirection), NEW S
  PROVE  Selected(rs, S) \in Seq(S \intersect Redirection)
<1> DEFINE T == S \intersect Redirection
           part(r) == IF r \in S THEN <<r>> ELSE <<>>
           parts == [i \in DOMAIN rs |-> part(rs[i])]
<1>1. ASSUME NEW r \in Redirection PROVE part(r) \in Seq(T)
  <2>1. r \in S => r \in T
    OBVIOUS
  <2> HIDE DEF T
  <2>2. (r \in S => <<r>> \in Seq(T)) /\ <<>> \in Seq(T)
    BY <2>1
  <2> QED BY <2>2
<1>2. \A i \in DOMAIN rs : rs[i] \in Redirection
  OBVIOUS
<1> HIDE DEF part, T
<1>3. parts \in [DOMAIN rs -> Seq(T)]
  BY <1>1, <1>2
<1> HIDE DEF parts
<1>4. FlattenSeq(parts) \in Seq(T)
  BY <1>3, PartsType
<1> QED BY <1>4 DEF Selected, part, parts, T

LEMMA HereDocsType ==
  ASSUME NEW rs \in Seq(Redirection)
  PROVE  HereDocs(rs) \in Seq(HereDocument)
<1>1. HereDocument \intersect Redirection = HereDocument
  BY DEF Redirection
<1> QED BY <1>1, SelectedType DEF HereDocs

LEMMA SimpleTextType ==
  ASSUME NEW c, c.redirects \in Seq(Redirection), NEW n
  PROVE  SimpleText(c, n) \in Seq(Kinds)
<1> DEFINE waits == [i \in DOMAIN HereDocs(c.redirects) |-> <<"communicate", "\n", "wait">>]
           errors == [i \in DOMAIN Selected(c.redirects, {"dup"}) |-> "stderr"]
<1>1. FlattenSeq(waits) \in Seq(Kinds)
  <2>1. HereDocs(c.redirects) \in Seq(HereDocument)
    BY HereDocsType
  <2>2. <<"communicate", "\n", "wait">> \in Seq(Kinds)
    BY Spelled, Spelling
  <2>3. waits \in [DOMAIN HereDocs(c.redirects) -> Seq(Kinds)]
    BY <2>2
  <2> HIDE DEF waits
  <2> QED BY <2>1, <2>3, PartsType
<1>2. errors \in Seq(Kinds)
  <2>1. /\ Len(Selected(c.redirects, {"dup"})) \in Nat
        /\ DOMAIN Selected(c.redirects, {"dup"}) = 1..Len(Selected(c.redirects, {"dup"}))
    BY SelectedType
  <2>2. errors \in [1..Len(Selected(c.redirects, {"dup"})) -> Kinds]
    BY <2>1, Spelling
  <2> HIDE DEF errors
  <2> QED BY <2>1, <2>2, SequenceOf
<1>3. Assignment(n) \in Seq(Kinds) /\ Prefix(n) \in Seq(Kinds)
  BY Spelled, Spelling DEF Assignment, Prefix
<1>4. /\ <<"word">> \in Seq(Kinds) /\ <<"not">> \in Seq(Kinds) /\ <<"call">> \in Seq(Kinds)
      /\ <<"\n">> \in Seq(Kinds) /\ <<>> \in Seq(Kinds)
  BY Spelled, Spelling
<1>5. \A x, y \in Seq(Kinds) : x \o y \in Seq(Kinds)
  OBVIOUS
<1> HIDE DEF waits, errors
<1> DEFINE call == Prefix(n) \o (IF c.not THEN <<"not">> ELSE <<>>) \o <<"call">> \o errors
                     \o (IF c.redirects = <<>> THEN <<>> ELSE <<"\n">>) \o FlattenSeq(waits)
<1>6. call \in Seq(Kinds)
  BY <1>1, <1>2, <1>3, <1>4, <1>5, Zenon
<1>7. SimpleText(c, n) = IF c.kind = "none" THEN <<>>
                         ELSE IF c.kind = "assign" THEN Assignment(n)
                         ELSE IF c.kind = "word" THEN <<"word">> ELSE call
  BY DEF SimpleText, waits, errors
<1> HIDE DEF call
<1> QED BY <1>3, <1>4, <1>6, <1>7

-------------------------------------------------------------------------------
(***************************************************************************)
(* Every step keeps the balance                                            *)
(***************************************************************************)
Embedded(a, n) == [a EXCEPT !.embedded = n]

LEMMA EmbeddedAgain ==
  ASSUME NEW a \in Level, NEW m \in Nat, NEW n \in Nat
  PROVE  /\ Embedded(a, m) \in Level
         /\ Embedded(a, a.embedded) = a
         /\ Embedded(Embedded(a, m), n) = Embedded(a, n)
<1> DEFINE same == [a EXCEPT !.embedded = a.embedded]
           first == [a EXCEPT !.embedded = m]
           twice == [first EXCEPT !.embedded = n]
           once == [a EXCEPT !.embedded = n]
<1>1. same \in Level /\ once \in Level /\ first \in Level
  BY DEF Level
<1>2. twice \in Level
  <2> HIDE DEF first
  <2> QED BY <1>1 DEF Level
<1>3. same = a
  <2>1. /\ same.indent = a.indent /\ same.save = a.save /\ same.embedded = a.embedded
        /\ same.printing = a.printing /\ same.stdout = a.stdout
        /\ same.inside = a.inside /\ same.queue = a.queue
    BY DEF Level
  <2> HIDE DEF same
  <2> QED BY <1>1, <2>1, SameLevel
<1>4. twice = once
  <2>1. /\ twice.indent = once.indent /\ twice.save = once.save /\ twice.embedded = once.embedded
        /\ twice.printing = once.printing /\ twice.stdout = once.stdout
        /\ twice.inside = once.inside /\ twice.queue = once.queue
    BY DEF Level
  <2> HIDE DEF twice, once
  <2> QED BY <1>1, <1>2, <2>1, SameLevel
<1>5. same = Embedded(a, a.embedded) /\ first = Embedded(a, m)
  BY DEF Embedded
<1>6. once = Embedded(a, n) /\ twice = Embedded(first, n)
  BY DEF Embedded
<1> HIDE DEF same, first, twice, once
<1> QED BY <1>1, <1>3, <1>4, <1>5, <1>6

LEMMA AroundStep ==
  ASSUME Balanced, ops # <<>>, Head(ops).op = "emit",
         NEW c \in Commands, NEW plan, IsPlan(plan), Around(c, plan),
         embedded' \in {embedded, embedded + 1}
  PROVE  Balanced'
<1>1. PICK q \in BOOLEAN :
        /\ later # <<>> => q
        /\ Now(q) \in Level /\ Allowed(Head(ops), Now(q))
        /\ Walk(Tail(ops), Effect(Head(ops), Now(q)), Rest)
  BY Opened
<1>2. Effect(Head(ops), Now(q)) = Now(q)
  BY IndifferentEffect DEF Indifferent
<1>3. Free(Now(q)) /\ embedded \in Nat
  BY <1>1 DEF Allowed, Level, Now
<1> DEFINE a == [Now(q) EXCEPT !.embedded = embedded']
           outside == [Now(q) EXCEPT !.embedded = 0]
           rs == IF c.type = "simple" THEN <<>> ELSE c.redirects
           head == Put(IF c.type = "simple" THEN <<>> ELSE Handled(c.redirects))
           not == Put(IF c.not /\ c.type \notin {"simple", "connection"} THEN <<"not">> ELSE <<>>)
           return == <<[op |-> "return", embedded |-> embedded, redirects |-> rs]>>
<1>4. a \in Level /\ Free(a) /\ outside \in Level
  BY <1>1, <1>3 DEF Level, Free
<1>5. Now(q)' = a /\ later' = later
  BY DEF Around, function, Now
<1>6. c.redirects \in Seq(Redirection)
  BY CommandsAssumption DEF WellFormed
<1>7. rs \in Seq(Redirection)
  BY <1>6
<1>8. Walk(head, a, a) /\ Walk(not, a, a)
  <2>1. \A k \in Seq(Kinds) : Walk(Put(k), a, a)
    BY <1>4, StepPut
  <2>2. Handled(c.redirects) \in Seq(Kinds)
    BY <1>6, HandledType
  <2>3. <<>> \in Seq(Kinds) /\ <<"not">> \in Seq(Kinds)
    BY Spelled, Spelling
  <2>4. Walk(head, a, a)
    BY <2>1, <2>2, <2>3
  <2>5. Walk(not, a, a)
    BY <2>1, <2>3
  <2> QED BY <2>4, <2>5
<1>9. /\ [a EXCEPT !.embedded = embedded] = Now(q)
      /\ [outside EXCEPT !.embedded = embedded] = Now(q)
      /\ [a EXCEPT !.embedded = 0] = outside
  <2>1. Now(q).embedded = embedded /\ embedded' \in Nat /\ 0 \in Nat
    BY <1>3 DEF Now
  <2>2. Now(q) \in Level /\ embedded' \in Nat /\ embedded \in Nat /\ 0 \in Nat
    BY <1>1, <1>3, <2>1
  <2>3. Embedded(Embedded(Now(q), embedded'), embedded) = Now(q)
    BY <2>1, <2>2, EmbeddedAgain
  <2>4. Embedded(Embedded(Now(q), 0), embedded) = Now(q)
    BY <2>1, <2>2, EmbeddedAgain
  <2>5. Embedded(Embedded(Now(q), embedded'), 0) = Embedded(Now(q), 0)
    BY <2>2, EmbeddedAgain
  <2> QED BY <2>3, <2>4, <2>5 DEF Embedded
<1>10. Walk(return, a, Now(q)) /\ Walk(return, outside, Now(q))
  <2>1. \A b \in Level : Walk(return, b, [b EXCEPT !.embedded = embedded])
    <3> HIDE DEF rs
    <3> QED BY <1>3, <1>7, StepReturn
  <2> HIDE DEF return, a, outside
  <2> QED BY <1>4, <1>9, <2>1
<1>11. Walk(plan, a, a) \/ Walk(plan, a, outside)
  BY <1>4, <1>9 DEF IsPlan
<1>12. ops' = (head \o not \o plan \o return) \o Tail(ops)
  BY DEF Around, Goto
<1> HIDE DEF head, not, return, a, outside, rs
<1>13. Walk(head \o not, a, a)
  BY <1>8, WalkConcat
<1>14. Walk(head \o not \o plan \o return, a, Now(q))
  <2>1. CASE Walk(plan, a, a)
    <3>1. Walk(head \o not \o plan, a, a)
      BY <1>13, <2>1, WalkConcat
    <3> QED BY <3>1, <1>10, WalkConcat
  <2>2. CASE Walk(plan, a, outside)
    <3>1. Walk(head \o not \o plan, a, outside)
      BY <1>13, <2>2, WalkConcat
    <3> QED BY <3>1, <1>10, WalkConcat
  <2> QED BY <1>11, <2>1, <2>2
<1>15. Walk(Tail(ops), Now(q), Rest) /\ (later' # <<>> => q)
  BY <1>1, <1>2, <1>5
<1> HIDE DEF Now
<1>16. Walk(head \o not \o plan \o return, Now(q)', Now(q))
  BY <1>5, <1>14
<1> QED BY <1>12, <1>15, <1>16, ReplacedBy

LEMMA EmittedCommand ==
  ASSUME Balanced, NEW types, At(types)
  PROVE  /\ ops # <<>> /\ Head(ops).op = "emit"
         /\ Command \in Commands /\ Command.type \in types /\ WellFormed(Command)
<1>1. ops # <<>> /\ Head(ops).op = "emit" /\ Command # NoCommand /\ Command.type \in types
  BY DEF At, On, Command
<1>2. Head(ops) \in Op
  BY <1>1, Opened
<1>3. Command \in OrNone
  BY <1>1, <1>2 DEF Op, Command, Statements
<1> QED BY <1>1, <1>3, CommandsAssumption DEF OrNone

\* What a command leads back from
LEMMA PlanStep ==
  ASSUME Balanced, NEW types, At(types), NEW plan,
         \A a \in Level : Free(a) => Walk(plan, a, a),
         Embeds(Command, plan) \/ Embedding(Command, plan) \/ Transparent(Command, plan)
  PROVE  Balanced'
<1>1. ops # <<>> /\ Head(ops).op = "emit" /\ Command \in Commands
  BY EmittedCommand
<1>2. IsPlan(plan)
  BY DEF IsPlan
<1>3. Around(Command, plan) /\ embedded' \in {embedded, embedded + 1}
  BY DEF Embeds, Embedding, Transparent
<1> QED BY <1>1, <1>2, <1>3, AroundStep

LEMMA SimpleStep == Balanced /\ EmitSimple => Balanced'
<1> SUFFICES ASSUME Balanced, EmitSimple PROVE Balanced'
  OBVIOUS
<1> DEFINE text == SimpleText(Command, started + 1)
           handled == Handled(Command.redirects)
<1>1. At({"simple"}) /\ Embedding(Command, Put(text) \o Put(handled))
  BY DEF EmitSimple
<1>2. Command.redirects \in Seq(Redirection)
  BY <1>1, EmittedCommand DEF WellFormed
<1>3. text \in Seq(Kinds) /\ handled \in Seq(Kinds)
  BY <1>2, SimpleTextType, HandledType
<1> HIDE DEF text, handled
<1>4. ASSUME NEW a \in Level PROVE Walk(Put(text) \o Put(handled), a, a)
  BY <1>3, StepPut, ThenNeutral
<1> QED BY <1>1, <1>4, PlanStep

LEMMA ArithStep == Balanced /\ EmitArith => Balanced'
<1> SUFFICES ASSUME Balanced, EmitArith PROVE Balanced'
  OBVIOUS
<1>1. At({"arith"}) /\ Transparent(Command, Put(<<"expression">>))
  BY DEF EmitArith
<1>2. <<"expression">> \in Seq(Kinds)
  BY Spelled, Spelling
<1> QED BY <1>1, <1>2, StepPut, PlanStep

LEMMA CondStep == Balanced /\ EmitCond => Balanced'
<1> SUFFICES ASSUME Balanced, EmitCond PROVE Balanced'
  OBVIOUS
<1> DEFINE k == IF Command.operator = "=~" THEN <<"match =">> ELSE <<"_rc =">>
           head == IF started > 0 THEN <<>> ELSE ReadOperator(Command) \o Put(k)
<1>1. At({"cond"}) /\ Transparent(Command, head \o Put(<<"condition">>))
  BY DEF EmitCond
<1>2. k \in Seq(Kinds) /\ <<"condition">> \in Seq(Kinds)
  BY Spelled, Spelling
<1> HIDE DEF k
<1>3. ASSUME NEW a \in Level PROVE Walk(head \o Put(<<"condition">>), a, a)
  <2>1. Walk(ReadOperator(Command) \o Put(k), a, a) /\ Walk(<<>>, a, a)
    BY <1>2, WalkRead, StepPut, WalkNil, WalkConcat
  <2>2. Walk(head, a, a)
    BY <2>1
  <2> HIDE DEF head
  <2> QED BY <1>2, <2>2, StepPut, WalkConcat
<1> HIDE DEF head
<1> QED BY <1>1, <1>3, PlanStep

LEMMA ForStep == Balanced /\ EmitFor => Balanced'
<1> SUFFICES ASSUME Balanced, EmitFor PROVE Balanced'
  OBVIOUS
<1> DEFINE plan == Put(<<"for", ":", "\n">>) \o Block(Command.body)
<1>1. At({"for"}) /\ Embedding(Command, plan)
  BY DEF EmitFor
<1>2. Command.body \in OrNone
  BY <1>1, EmittedCommand DEF WellFormed
<1>3. <<"for", ":", "\n">> \in Seq(Kinds)
  BY Spelled, Spelling
<1>4. ASSUME NEW a \in Level, Free(a) PROVE Walk(plan, a, a)
  BY <1>2, <1>3, <1>4, StepPut, WalkBlock, ThenNeutral
<1> QED BY <1>1, <1>4, PlanStep

LEMMA ArithForStep == Balanced /\ EmitArithFor => Balanced'
<1> SUFFICES ASSUME Balanced, EmitArithFor PROVE Balanced'
  OBVIOUS
<1> DEFINE plan == Put(<<"expression", "\n", "while", ":", "\n">>) \o Do("indent")
                     \o Emit(Command.body) \o Put(<<"\n", "expression">>) \o Do("outdent")
<1>1. At({"arith for"}) /\ Embedding(Command, plan)
  BY DEF EmitArithFor
<1>2. Command.body \in OrNone
  BY <1>1, EmittedCommand DEF WellFormed
<1>3. <<"expression", "\n", "while", ":", "\n">> \in Seq(Kinds) /\ <<"\n", "expression">> \in Seq(Kinds)
  BY Spelled, Spelling
<1>4. ASSUME NEW a \in Level, Free(a) PROVE Walk(plan, a, a)
  <2>1. Deeper(a) \in Level /\ Free(Deeper(a))
    BY <1>4, DeeperLevel
  <2> QED BY <1>2, <1>3, <2>1, StepPut, StepEmit, ThenIndent, ThenNeutral, ThenOutdent
<1> QED BY <1>1, <1>4, PlanStep

LEMMA SelectStep == Balanced /\ EmitSelect => Balanced'
<1> SUFFICES ASSUME Balanced, EmitSelect PROVE Balanced'
  OBVIOUS
<1> DEFINE plan == Put(<<"select", "\n", "do", "\n">>) \o Block(Command.body) \o Put(<<"\n", "done">>)
<1>1. At({"select"}) /\ Embedding(Command, plan)
  BY DEF EmitSelect
<1>2. Command.body \in OrNone
  BY <1>1, EmittedCommand DEF WellFormed
<1>3. <<"select", "\n", "do", "\n">> \in Seq(Kinds) /\ <<"\n", "done">> \in Seq(Kinds)
  BY Spelled, Spelling
<1>4. ASSUME NEW a \in Level, Free(a) PROVE Walk(plan, a, a)
  BY <1>2, <1>3, <1>4, StepPut, WalkBlock, ThenNeutral
<1> QED BY <1>1, <1>4, PlanStep

LEMMA WhileStep == Balanced /\ EmitWhile => Balanced'
<1> SUFFICES ASSUME Balanced, EmitWhile PROVE Balanced'
  OBVIOUS
<1> DEFINE plan == Put(<<"while">>) \o Test(Command.test) \o Put(<<":", "\n">>) \o Do("heredocs")
                     \o Block(Command.body)
<1>1. At({"while"}) /\ Embedding(Command, plan)
  BY DEF EmitWhile
<1>2. Command.body \in OrNone /\ Command.test \in OrNone
  BY <1>1, EmittedCommand DEF WellFormed
<1>3. <<"while">> \in Seq(Kinds) /\ <<":", "\n">> \in Seq(Kinds)
  BY Spelled, Spelling
<1>4. ASSUME NEW a \in Level, Free(a) PROVE Walk(plan, a, a)
  BY <1>2, <1>3, <1>4, StepPut, StepDo, WalkTest, WalkBlock, ThenNeutral
<1> QED BY <1>1, <1>4, PlanStep

LEMMA UntilStep == Balanced /\ EmitUntil => Balanced'
<1> SUFFICES ASSUME Balanced, EmitUntil PROVE Balanced'
  OBVIOUS
<1> DEFINE upto == Put(<<"while", ":", "\n">>) \o Do("heredocs") \o Do("indent") \o Emit(Command.body)
                     \o Put(<<"\n", "if">>) \o Test(Command.test) \o Put(<<":", "\n">>)
           plan == upto \o Do("indent") \o Put(<<"break">>) \o Do("outdent") \o Do("heredocs")
                     \o Do("outdent")
<1>1. At({"until"}) /\ Embedding(Command, plan)
  BY DEF EmitUntil
<1>2. Command.body \in OrNone /\ Command.test \in OrNone
  BY <1>1, EmittedCommand DEF WellFormed
<1>3. /\ <<"while", ":", "\n">> \in Seq(Kinds) /\ <<"\n", "if">> \in Seq(Kinds)
      /\ <<":", "\n">> \in Seq(Kinds) /\ <<"break">> \in Seq(Kinds)
  BY Spelled, Spelling
<1>4. ASSUME NEW a \in Level, Free(a) PROVE Walk(plan, a, a)
  <2> DEFINE b == Deeper(a)
             c == Deeper(b)
  <2>1. b \in Level /\ Free(b) /\ c \in Level
    BY <1>4, DeeperLevel
  <2>2. Walk(upto, a, b)
    BY <1>2, <1>3, <2>1, StepPut, StepDo, StepEmit, WalkTest, ThenIndent, ThenNeutral
  <2> HIDE DEF upto
  <2>3. Walk(upto \o Do("indent"), a, c)
    BY <2>2, ThenIndent
  <2> HIDE DEF c
  <2>4. Walk(upto \o Do("indent") \o Put(<<"break">>), a, c)
    BY <1>3, <2>1, <2>3, StepPut, ThenNeutral
  <2>5. Walk(upto \o Do("indent") \o Put(<<"break">>) \o Do("outdent"), a, b)
    BY <2>1, <2>4, ThenOutdent DEF c
  <2> QED BY <2>1, <2>5, StepDo, ThenNeutral, ThenOutdent
<1> HIDE DEF upto
<1> QED BY <1>1, <1>4, PlanStep

LEMMA CaseStep == Balanced /\ EmitCase => Balanced'
<1> SUFFICES ASSUME Balanced, EmitCase PROVE Balanced'
  OBVIOUS
<1> DEFINE cs == Command.clauses
           Part(v) == With("clause", v) \o Do("indent") \o Emit(v.body) \o Do("outdent") \o Do("heredocs")
           parts == [i \in DOMAIN cs |-> Part(cs[i])]
<1>1. At({"case"}) /\ Embeds(Command, FlattenSeq(parts))
  BY DEF EmitCase
<1>2. cs \in Seq(Clause)
  <2>1. Command.type = "case" /\ WellFormed(Command)
    BY <1>1, EmittedCommand
  <2>2. Command.clauses \in Seq(Clause)
    BY <2>1 DEF WellFormed
  <2> QED BY <2>2
<1>3. Len(cs) \in Nat /\ DOMAIN cs = 1..Len(cs) /\ \A i \in 1..Len(cs) : cs[i] \in Clause
  BY <1>2
<1> HIDE DEF cs
<1>4. ASSUME NEW a \in Level, Free(a) PROVE Walk(FlattenSeq(parts), a, a)
  <2>1. ASSUME NEW v \in Clause PROVE Walk(Part(v), a, a)
    <3>1. Deeper(a) \in Level /\ Free(Deeper(a)) /\ v.body \in OrNone
      BY <1>4, DeeperLevel DEF Clause
    <3>2. Walk(With("clause", v) \o Do("indent"), a, Deeper(a))
      BY StepClause, ThenIndent
    <3> QED BY <3>1, <3>2, StepEmit, StepDo, ThenNeutral, ThenOutdent
  <2> HIDE DEF Part
  <2>2. parts \in [1..Len(cs) -> {Part(cs[i]) : i \in 1..Len(cs)}]
    BY <1>3
  <2>3. parts \in Seq({Part(cs[i]) : i \in 1..Len(cs)})
    BY <1>3, <2>2, SequenceOf
  <2>4. Len(parts) = Len(cs) /\ (Len(parts) = 0 => parts = <<>>)
    BY <1>3, <2>2, <2>3
  <2>5. \A i \in 1..Len(parts) : Walk(parts[i], a, a)
    BY <1>3, <2>1, <2>4
  <2> HIDE DEF parts
  <2> QED BY <1>3, <2>4, <2>5, FlattenWalk
<1> HIDE DEF parts
<1> QED BY <1>1, <1>4, PlanStep

LEMMA MatchingWalk ==
  ASSUME NEW c, c.test \in OrNone, NEW a \in Level, Free(a)
  PROVE  Walk(Matching(c), a, a)
<1>1. <<"match =">> \in Seq(Kinds) /\ <<"\n", "if">> \in Seq(Kinds)
  BY Spelled, Spelling
<1> QED BY <1>1, StepPut, WalkTest, ThenNeutral DEF Matching

LEMMA IfStep == Balanced /\ EmitIf => Balanced'
<1> SUFFICES ASSUME Balanced, EmitIf PROVE Balanced'
  OBVIOUS
<1> DEFINE begin == IF IsRegmatch(Command) THEN Matching(Command) ELSE Put(<<"if">>)
           head == ReadOperator(Command.test) \o begin
<1>1. At({"if"}) /\ Embedding(Command, head \o RestartIf(Command, 0))
  BY DEF EmitIf
<1>2. Command.test \in OrNone /\ Command \in Conditional
  BY <1>1, EmittedCommand DEF WellFormed, Conditional
<1>3. <<"if">> \in Seq(Kinds)
  BY Spelled, Spelling
<1>4. ASSUME NEW a \in Level, Free(a) PROVE Walk(head \o RestartIf(Command, 0), a, a)
  <2>1. Walk(head, a, a)
    <3>1. Walk(begin, a, a)
      BY <1>2, <1>3, <1>4, StepPut, MatchingWalk
    <3> HIDE DEF begin
    <3> QED BY <3>1, WalkRead, WalkConcat
  <2>2. 0 \in Nat /\ a.indent >= 0 /\ [a EXCEPT !.indent = @ - 0] = a
    BY DEF Level
  <2>3. Walk(RestartIf(Command, 0), a, a)
    BY <1>2, <1>4, <2>2, StepIf
  <2> HIDE DEF head
  <2> QED BY <2>1, <2>3, WalkConcat
<1> HIDE DEF head
<1> QED BY <1>1, <1>4, PlanStep

LEMMA GroupStep == Balanced /\ EmitGroup => Balanced'
<1> SUFFICES ASSUME Balanced, EmitGroup PROVE Balanced'
  OBVIOUS
<1> DEFINE body == Command.body
           indented == Put(<<"\n">>) \o Do("indent") \o Emit(body) \o Put(<<"\n">>) \o Do("outdent")
           plan == IF inside THEN indented ELSE Emit(body) \o Put(<<" ">>)
<1>1. At({"group"}) /\ Embedding(Command, plan)
  BY DEF EmitGroup
<1>2. body \in OrNone
  BY <1>1, EmittedCommand DEF WellFormed
<1>3. <<"\n">> \in Seq(Kinds) /\ <<" ">> \in Seq(Kinds)
  BY Spelled, Spelling
<1> HIDE DEF body
<1>4. ASSUME NEW a \in Level, Free(a) PROVE Walk(plan, a, a)
  <2>1. Deeper(a) \in Level /\ Free(Deeper(a))
    BY <1>4, DeeperLevel
  <2>2. Walk(indented, a, a)
    BY <1>2, <1>3, <2>1, StepPut, StepEmit, ThenIndent, ThenNeutral, ThenOutdent
  <2>3. Walk(Emit(body) \o Put(<<" ">>), a, a)
    BY <1>2, <1>3, <1>4, StepEmit, StepPut, ThenNeutral
  <2> QED BY <2>2, <2>3
<1> HIDE DEF plan
<1> QED BY <1>1, <1>4, PlanStep

LEMMA SubshellStep == Balanced /\ EmitSubshell => Balanced'
<1> SUFFICES ASSUME Balanced, EmitSubshell PROVE Balanced'
  OBVIOUS
<1> DEFINE plan == Put(<<"(">>) \o Emit(Command.body) \o Put(<<")">>)
<1>1. At({"subshell"}) /\ Embedding(Command, plan)
  BY DEF EmitSubshell
<1>2. Command.body \in OrNone
  BY <1>1, EmittedCommand DEF WellFormed
<1>3. <<"(">> \in Seq(Kinds) /\ <<")">> \in Seq(Kinds)
  BY Spelled, Spelling
<1>4. ASSUME NEW a \in Level, Free(a) PROVE Walk(plan, a, a)
  BY <1>2, <1>3, <1>4, StepPut, StepEmit, ThenNeutral
<1> QED BY <1>1, <1>4, PlanStep

LEMMA CoprocStep == Balanced /\ EmitCoproc => Balanced'
<1> SUFFICES ASSUME Balanced, EmitCoproc PROVE Balanced'
  OBVIOUS
<1> DEFINE plan == Put(<<"coproc", "\n">>) \o Do("indent") \o Emit(Command.body) \o Do("outdent")
<1>1. At({"coproc"}) /\ Embedding(Command, plan)
  BY DEF EmitCoproc
<1>2. Command.body \in OrNone
  BY <1>1, EmittedCommand DEF WellFormed
<1>3. <<"coproc", "\n">> \in Seq(Kinds)
  BY Spelled, Spelling
<1>4. ASSUME NEW a \in Level, Free(a) PROVE Walk(plan, a, a)
  <2>1. Deeper(a) \in Level /\ Free(Deeper(a))
    BY <1>4, DeeperLevel
  <2> QED BY <1>2, <1>3, <2>1, StepPut, StepEmit, ThenIndent, ThenNeutral, ThenOutdent
<1> QED BY <1>1, <1>4, PlanStep


\* At the end of the last branch, the levels that elif has added are left.
Lower(a, n) == [a EXCEPT !.indent = @ - n]

LEMMA LowerLevel ==
  ASSUME NEW a \in Level, NEW n \in Nat, n < a.indent
  PROVE  /\ Lower(a, n) \in Level /\ Lower(a, n + 1) \in Level
         /\ Lower(a, n) = Deeper(Lower(a, n + 1))
<1> DEFINE b == Lower(a, n)
           c == Lower(a, n + 1)
<1>1. a.indent \in Nat /\ a.indent - n \in Nat /\ a.indent - (n + 1) \in Nat
  BY DEF Level
<1>2. b \in Level /\ c \in Level
  BY <1>1 DEF Lower, Level
<1>3. b.indent = a.indent - n /\ c.indent = a.indent - (n + 1)
  BY DEF Lower, Level
<1>4. /\ b.save = c.save /\ b.embedded = c.embedded /\ b.printing = c.printing
      /\ b.stdout = c.stdout /\ b.inside = c.inside /\ b.queue = c.queue
  BY DEF Lower, Level
<1> HIDE DEF b, c
<1>5. Deeper(c) \in Level /\ Deeper(c).indent = c.indent + 1
  BY <1>2, DeeperLevel DEF Deeper, Level
<1>6. /\ Deeper(c).save = c.save /\ Deeper(c).embedded = c.embedded
      /\ Deeper(c).printing = c.printing /\ Deeper(c).stdout = c.stdout
      /\ Deeper(c).inside = c.inside /\ Deeper(c).queue = c.queue
  BY <1>2 DEF Deeper, Level
<1>7. b.indent = Deeper(c).indent
  BY <1>1, <1>3, <1>5
<1>8. b = Deeper(c)
  BY <1>2, <1>4, <1>5, <1>6, <1>7, SameLevel
<1> QED BY <1>2, <1>8 DEF b, c

LEMMA OutdentsWalk ==
  ASSUME NEW n \in Nat, NEW a \in Level, n <= a.indent
  PROVE  Walk(FlattenSeq([i \in 1..n |-> Do("outdent")]), a, Lower(a, n))
<1> DEFINE s == [i \in 1..n |-> Do("outdent")]
<1>0. a.indent \in Nat /\ Lower(a, 0) = a
  BY DEF Lower, Level
<1>1. s \in Seq({Do("outdent")}) /\ Len(s) = n /\ \A i \in 1..n : s[i] = Do("outdent")
  OBVIOUS
<1>2. CASE n = 0
  <2>1. s = <<>>
    BY <1>2
  <2> QED BY <1>0, <1>2, <2>1, FlattenEmpty, WalkNil
<1>3. CASE n # 0
  <2> HIDE DEF s
  <2>1. PICK f : /\ f[1] = s[1]
                 /\ \A i \in 2..Len(s) : f[i] = f[i - 1] \o s[i]
                 /\ FlattenSeq(s) = f[Len(s)]
    BY <1>1, <1>3, FlattenSteps
  <2>2. ASSUME NEW k \in Nat, k < n
        PROVE  Lower(a, k) \in Level /\ Walk(Do("outdent"), Lower(a, k), Lower(a, k + 1))
    <3>1. k < a.indent
      BY <1>0, <2>2
    <3> QED BY <3>1, LowerLevel, StepOutdent
  <2> DEFINE S == {k \in Nat : k \in 1..n => Walk(f[k], a, Lower(a, k))}
  <2>3. ASSUME NEW k \in S, k + 1 \in 1..n PROVE Walk(f[k + 1], a, Lower(a, k + 1))
    <3>1. Walk(Do("outdent"), Lower(a, k), Lower(a, k + 1)) /\ s[k + 1] = Do("outdent")
      BY <1>1, <2>2, <2>3
    <3>2. CASE k = 0
      <4>1. f[k + 1] = Do("outdent")
        BY <3>1, <3>2, <2>1
      <4> QED BY <4>1, <3>1, <3>2, <1>0
    <3>3. CASE k # 0
      <4>1. k \in 1..n /\ k + 1 \in 2..n /\ (k + 1) - 1 = k
        BY <3>3, <2>3
      <4>2. Walk(f[k], a, Lower(a, k))
        BY <4>1
      <4>3. f[k + 1] = f[k] \o s[k + 1]
        BY <4>1, <2>1, <1>1
      <4> QED BY <4>2, <4>3, <3>1, WalkConcat
    <3> QED BY <3>2, <3>3
  <2>4. S \in SUBSET Nat /\ 0 \in S
    OBVIOUS
  <2>5. \A k \in S : k + 1 \in S
    BY <2>3
  <2> HIDE DEF S
  <2>6. S = Nat
    BY <2>4, <2>5, NaturalsClosed
  <2>7. Walk(f[n], a, Lower(a, n))
    BY <1>3, <2>6 DEF S
  <2> QED BY <2>1, <2>7, <1>1 DEF s
<1> QED BY <1>2, <1>3

LEMMA BranchesStep == Balanced /\ IfBranches => Balanced'
<1> SUFFICES ASSUME Balanced, IfBranches PROVE Balanced'
  OBVIOUS
<1> DEFINE c == Head(ops).c
           extra == Head(ops).extra
           elseIf == c.orelse # NoCommand /\ c.orelse.type = "elif"
           lasts == (IF c.orelse = NoCommand THEN <<>>
                     ELSE Put(<<"\n", "else", ":", "\n">>) \o Block(c.orelse))
           outdents == FlattenSeq([i \in 1..extra |-> Do("outdent")])
           nested == Put(<<"\n", "else", ":", "\n">>) \o Do("indent")
                       \o Matching(c.orelse) \o RestartIf(c.orelse, extra + 1)
           elif == Put(<<"\n", "elif">>) \o RestartIf(c.orelse, extra)
           then == (IF IsRegmatch(c) THEN <<>> ELSE Test(c.test))
                     \o Put(<<":", "\n">>) \o Block(c.then)
           rest == IF ~elseIf THEN lasts \o outdents
                   ELSE ReadOperator(c.orelse.test) \o (IF IsRegmatch(c.orelse) THEN nested ELSE elif)
<1>1. On("if") /\ Goto(then \o rest) /\ UNCHANGED levels
  BY DEF IfBranches, levels, function, place
<1>2. ops # <<>> /\ Head(ops).op = "if"
  BY <1>1 DEF On
<1>3. PICK q \in BOOLEAN :
        /\ later # <<>> => q
        /\ Now(q) \in Level /\ Head(ops) \in Op /\ Allowed(Head(ops), Now(q))
        /\ Walk(Tail(ops), Effect(Head(ops), Now(q)), Rest)
  BY <1>2, Opened
<1> DEFINE a == Now(q)
<1>4. c \in Conditional /\ extra \in Nat
  BY <1>2, <1>3 DEF Op, Statements
<1>5. /\ c.test \in OrNone /\ c.then \in OrNone /\ c.orelse \in OrNone
      /\ elseIf => c.orelse \in Conditional /\ c.orelse.test \in OrNone
  <2>1. c \in Commands /\ c.type \in {"if", "elif"} /\ WellFormed(c)
    BY <1>4, CommandsAssumption DEF Conditional
  <2>2. c.test \in OrNone /\ c.then \in OrNone /\ c.orelse \in OrNone
    BY <2>1 DEF WellFormed
  <2>3. ASSUME elseIf PROVE c.orelse \in Conditional /\ c.orelse.test \in OrNone
    <3>1. c.orelse \in Commands /\ c.orelse.type = "elif"
      BY <2>2, <2>3 DEF OrNone
    <3>2. WellFormed(c.orelse)
      BY <3>1, CommandsAssumption
    <3> QED BY <3>1, <3>2 DEF Conditional, WellFormed
  <2> QED BY <2>2, <2>3
<1>6. Free(a) /\ a \in Level
  BY <1>2, <1>3 DEF Allowed
<1>7. Effect(Head(ops), a) = Lower(a, extra)
  BY <1>2 DEF Effect, Lower
<1>8. Lower(a, extra) \in Level
  <2>1. Tail(ops) \in Seq(Op) /\ Walk(Tail(ops), Lower(a, extra), Rest)
    BY <1>3, <1>7 DEF Walk
  <2> QED BY <2>1, WalkLevels
<1>9. extra <= a.indent /\ a.indent \in Nat
  BY <1>4, <1>6, <1>8 DEF Lower, Level
<1>10. /\ <<":", "\n">> \in Seq(Kinds) /\ <<"\n", "elif">> \in Seq(Kinds)
       /\ <<"\n", "else", ":", "\n">> \in Seq(Kinds)
  BY Spelled, Spelling
<1> HIDE DEF a, c, extra, elseIf
<1>11. Walk(then, a, a)
  <2>1. Walk(Test(c.test), a, a) /\ Walk(<<>>, a, a) /\ Walk(Block(c.then), a, a)
    BY <1>5, <1>6, WalkTest, WalkNil, WalkBlock
  <2>2. Walk(IF IsRegmatch(c) THEN <<>> ELSE Test(c.test), a, a)
    BY <2>1
  <2> QED BY <1>6, <1>10, <2>1, <2>2, StepPut, ThenNeutral
<1>12. Walk(lasts \o outdents, a, Lower(a, extra))
  <2>1. Walk(lasts, a, a)
    <3>1. Walk(Put(<<"\n", "else", ":", "\n">>) \o Block(c.orelse), a, a) /\ Walk(<<>>, a, a)
      BY <1>5, <1>6, <1>10, StepPut, WalkBlock, WalkNil, ThenNeutral
    <3> QED BY <3>1
  <2>2. Walk(outdents, a, Lower(a, extra))
    BY <1>4, <1>6, <1>9, OutdentsWalk DEF extra
  <2> HIDE DEF lasts, outdents
  <2> QED BY <2>1, <2>2, WalkConcat
<1>13. ASSUME elseIf PROVE Walk(elif, a, Lower(a, extra))
  <2>1. Walk(RestartIf(c.orelse, extra), a, Lower(a, extra))
    BY <1>4, <1>5, <1>6, <1>9, <1>13, StepIf DEF Lower, extra
  <2>2. Walk(Put(<<"\n", "elif">>), a, a)
    BY <1>6, <1>10, StepPut
  <2> QED BY <2>1, <2>2, WalkConcat
<1>14. ASSUME elseIf PROVE Walk(nested, a, Lower(a, extra))
  <2> DEFINE b == Deeper(a)
  <2>1. b \in Level /\ Free(b)
    BY <1>6, DeeperLevel
  <2>2. extra + 1 \in Nat /\ b.indent >= extra + 1 /\ extra \in Nat
    BY <1>4, <1>6, <1>9 DEF Deeper, Level, extra
  <2>3. Lower(b, extra + 1) = Lower(a, extra)
    <3>1. b.indent = a.indent + 1
      BY <1>6 DEF Deeper, Level
    <3>2. Lower(b, extra + 1) = [a EXCEPT !.indent = b.indent - (extra + 1)]
      BY <1>6 DEF Lower, Deeper, Level
    <3>3. b.indent - (extra + 1) = a.indent - extra
      BY <1>9, <2>2, <3>1
    <3> QED BY <3>2, <3>3 DEF Lower
  <2> HIDE DEF b
  <2>4. Walk(RestartIf(c.orelse, extra + 1), b, Lower(b, extra + 1))
    BY <1>5, <1>14, <2>1, <2>2, StepIf DEF Lower
  <2>5. Walk(Put(<<"\n", "else", ":", "\n">>) \o Do("indent"), a, b)
    BY <1>6, <1>10, StepPut, ThenIndent DEF b
  <2>6. Walk(Matching(c.orelse), b, b)
    BY <1>5, <1>14, <2>1, MatchingWalk
  <2>7. Walk(Put(<<"\n", "else", ":", "\n">>) \o Do("indent") \o Matching(c.orelse), a, b)
    BY <2>5, <2>6, WalkConcat
  <2> QED BY <2>3, <2>4, <2>7, WalkConcat
<1> HIDE DEF lasts, outdents, nested, elif, then
<1>15. Walk(rest, a, Lower(a, extra))
  <2>1. Walk(ReadOperator(c.orelse.test), a, a)
    BY <1>6, WalkRead
  <2>2. ASSUME elseIf PROVE Walk(IF IsRegmatch(c.orelse) THEN nested ELSE elif, a, Lower(a, extra))
    BY <1>13, <1>14, <2>2
  <2>3. ASSUME elseIf
        PROVE  Walk(ReadOperator(c.orelse.test) \o (IF IsRegmatch(c.orelse) THEN nested ELSE elif),
                    a, Lower(a, extra))
    BY <2>1, <2>2, <2>3, WalkConcat
  <2> QED BY <1>12, <2>3
<1> HIDE DEF rest
<1>16. Walk(then \o rest, a, Lower(a, extra))
  BY <1>11, <1>15, WalkConcat
<1>17. Now(q)' = a
  BY <1>1 DEF a, Now, levels
<1>18. ops' = (then \o rest) \o Tail(ops) /\ (later' # <<>> => q)
  BY <1>1, <1>3 DEF Goto, levels
<1>19. Walk(then \o rest, Now(q)', Lower(a, extra)) /\ Walk(Tail(ops), Lower(a, extra), Rest)
  BY <1>3, <1>7, <1>16, <1>17 DEF a, extra
<1> QED BY <1>18, <1>19, ReplacedBy

(***************************************************************************)
(* Connections                                                             *)
(***************************************************************************)
LEMMA ConditionWalk ==
  ASSUME NEW c \in OrNone, NEW d \in OrNone, NEW opening \in Seq(Kinds), NEW a \in Level, Free(a)
  PROVE  Walk(Condition(c, d, opening), a, a)
<1> DEFINE first == DropHeredocs \o Put(opening) \o Emit(c) \o Put(<<":">>)
           whole == first \o Do("indent") \o Put(<<"\n">>) \o Emit(d) \o Do("outdent")
<1>1. <<":">> \in Seq(Kinds) /\ <<"\n">> \in Seq(Kinds)
  BY Spelled, Spelling
<1>2. Deeper(a) \in Level /\ Free(Deeper(a))
  BY DeeperLevel
<1>3. Walk(first, a, a)
  BY <1>1, StepDo, StepPut, StepEmit, ThenNeutral DEF DropHeredocs
<1> HIDE DEF first
<1>4. Walk(whole, a, a)
  BY <1>1, <1>2, <1>3, StepPut, StepEmit, ThenIndent, ThenNeutral, ThenOutdent
<1> QED BY <1>4 DEF Condition, first

LEMMA PipeWalk ==
  ASSUME NEW c \in OrNone, NEW d \in OrNone, NEW a \in Level, Free(a)
  PROVE  Walk(Do("prefix") \o DropHeredocs \o Put(<<"pipe", "\n", "if", ":", "\n">>)
                \o Do("indent") \o Put(<<"reader", "\n">>) \o Emit(d)
                \o Put(<<"\n">>) \o Do("outdent")
                \o Put(<<"else", ":", "\n">>) \o Do("indent") \o Put(<<"writer", "\n">>)
                \o With("writer", c)
                \o Put(<<"\n", "sys.exit", "\n">>) \o Do("outdent"), a, a)
<1> DEFINE reader == Do("prefix") \o DropHeredocs \o Put(<<"pipe", "\n", "if", ":", "\n">>)
                       \o Do("indent") \o Put(<<"reader", "\n">>) \o Emit(d)
                       \o Put(<<"\n">>) \o Do("outdent")
           whole == reader \o Put(<<"else", ":", "\n">>) \o Do("indent") \o Put(<<"writer", "\n">>)
                      \o With("writer", c)
                      \o Put(<<"\n", "sys.exit", "\n">>) \o Do("outdent")
<1>1. /\ <<"pipe", "\n", "if", ":", "\n">> \in Seq(Kinds) /\ <<"reader", "\n">> \in Seq(Kinds)
      /\ <<"\n">> \in Seq(Kinds) /\ <<"else", ":", "\n">> \in Seq(Kinds)
      /\ <<"writer", "\n">> \in Seq(Kinds) /\ <<"\n", "sys.exit", "\n">> \in Seq(Kinds)
  BY Spelled, Spelling
<1>2. Deeper(a) \in Level /\ Free(Deeper(a))
  BY DeeperLevel
<1>3. Walk(reader, a, a)
  BY <1>1, <1>2, StepDo, StepPut, StepEmit, ThenIndent, ThenNeutral, ThenOutdent DEF DropHeredocs
<1> HIDE DEF reader
<1>4. Walk(whole, a, a)
  BY <1>1, <1>2, <1>3, StepPut, StepJob, ThenIndent, ThenNeutral, ThenOutdent
<1> QED BY <1>4 DEF reader

LEMMA AsyncWalk ==
  ASSUME NEW c \in OrNone, NEW d \in OrNone, NEW a \in Level, Free(a)
  PROVE  Walk(Do("prefix") \o With("async", c)
                \o (IF d = NoCommand THEN <<>>
                    ELSE Put(<<"\n">>) \o Do("fresh") \o Emit(d) \o Put(<<"\n">>)), a, a)
<1> DEFINE second == Put(<<"\n">>) \o Do("fresh") \o Emit(d) \o Put(<<"\n">>)
<1>1. <<"\n">> \in Seq(Kinds)
  BY Spelled, Spelling
<1>2. Walk(second, a, a) /\ Walk(<<>>, a, a)
  BY <1>1, WalkNil, StepDo, StepPut, StepEmit, ThenNeutral
<1>3. Walk(Do("prefix") \o With("async", c), a, a)
  BY StepDo, StepJob, ThenNeutral
<1> HIDE DEF second
<1>4. Walk(IF d = NoCommand THEN <<>> ELSE second, a, a)
  BY <1>2
<1> QED BY <1>3, <1>4, ThenNeutral DEF second

LEMMA ListWalk ==
  ASSUME NEW c \in OrNone, NEW d \in OrNone, NEW a \in Level, Free(a)
  PROVE  Walk(Do("prefix") \o Emit(c) \o Do("separate") \o Do("fresh") \o Emit(d)
                \o Do("heredocs"), a, a)
BY StepDo, StepEmit, ThenNeutral

LEMMA ConnectionWalk ==
  ASSUME NEW c, c.first \in OrNone, NEW d \in OrNone, NEW a \in Level, Free(a)
  PROVE  Walk(ConnectionPlan(c, d), a, a)
<1>1. CASE c.connector = "|"
  BY <1>1, PipeWalk DEF ConnectionPlan
<1>2. CASE c.connector = "&"
  BY <1>2, AsyncWalk DEF ConnectionPlan
<1>3. CASE c.connector = ";"
  BY <1>3, ListWalk DEF ConnectionPlan
<1>4. CASE c.connector \notin {"|", "&", ";"}
  <2>1. <<"if">> \in Seq(Kinds) /\ <<"if", "not">> \in Seq(Kinds)
    BY Spelled, Spelling
  <2> DEFINE opening == IF c.connector = "&&" THEN <<"if">> ELSE <<"if", "not">>
  <2>2. opening \in Seq(Kinds)
    BY <2>1
  <2>3. ConnectionPlan(c, d) = Condition(c.first, d, opening)
    BY <1>4 DEF ConnectionPlan
  <2> HIDE DEF opening
  <2> QED BY <2>2, <2>3, ConditionWalk
<1> QED BY <1>1, <1>2, <1>3, <1>4

LEMMA ConnectionStep == Balanced /\ EmitConnection => Balanced'
<1> SUFFICES ASSUME Balanced, EmitConnection PROVE Balanced'
  OBVIOUS
<1> DEFINE second == IF Command.not THEN [Command.second EXCEPT !.not = TRUE] ELSE Command.second
           plan == Do("++printing") \o ConnectionPlan(Command, second) \o Do("--printing")
<1>1. At({"connection"}) /\ Transparent(Command, plan)
  BY DEF EmitConnection
<1>2. Command.first \in OrNone /\ second \in OrNone
  <2>1. Command.type = "connection" /\ WellFormed(Command)
    BY <1>1, EmittedCommand
  <2>2. /\ Command.first \in OrNone /\ Command.second \in OrNone
        /\ Command.not => [Command.second EXCEPT !.not = TRUE] \in OrNone
    BY <2>1 DEF WellFormed
  <2> QED BY <2>2
<1> HIDE DEF second
<1>3. ASSUME NEW a \in Level, Free(a) PROVE Walk(plan, a, a)
  <2> DEFINE b == [a EXCEPT !.printing = @ + 1]
  <2>1. b \in Level /\ Walk(Do("++printing"), a, b) /\ Walk(Do("--printing"), b, a)
    BY StepCount
  <2>2. Free(b)
    BY <1>3 DEF Free, Level
  <2> HIDE DEF b
  <2>3. Walk(ConnectionPlan(Command, second), b, b)
    BY <1>2, <2>1, <2>2, ConnectionWalk
  <2> QED BY <2>1, <2>3, WalkConcat
<1> HIDE DEF plan
<1> QED BY <1>1, <1>3, PlanStep

LEMMA CountStep == Balanced /\ CountConnection => Balanced'
<1> SUFFICES ASSUME Balanced, CountConnection PROVE Balanced'
  OBVIOUS
<1>1. /\ ops # <<>> /\ Return
      /\ \/ Head(ops).op = "++printing" /\ printing' = printing + 1
         \/ Head(ops).op = "--printing" /\ printing' = printing - 1
      /\ UNCHANGED <<indent, saveIndent, inside, later, embedded, stdout>>
  BY DEF CountConnection, On, function
<1>2. PICK q \in BOOLEAN :
        /\ later # <<>> => q
        /\ Now(q) \in Level
        /\ Walk(Tail(ops), Effect(Head(ops), Now(q)), Rest)
  BY <1>1, Opened
<1>3. Effect(Head(ops), Now(q)) = Now(q)'
  BY <1>1 DEF Effect, Now
<1> QED BY <1>1, <1>2, <1>3, Returned

LEMMA WriterStep == Balanced /\ Writer => Balanced'
<1> SUFFICES ASSUME Balanced, Writer PROVE Balanced'
  OBVIOUS
<1> DEFINE c == Head(ops).v
           new == Emit(c) \o With("restore stdout", stdout)
<1>1. /\ ops # <<>> /\ Head(ops).op = "writer" /\ stdout' = printing /\ ops' = new \o Tail(ops)
      /\ UNCHANGED <<indent, saveIndent, inside, later, embedded, printing>>
  BY DEF Writer, On, Goto, function
<1>2. PICK q \in BOOLEAN :
        /\ later # <<>> => q
        /\ Now(q) \in Level /\ Head(ops) \in Op /\ Allowed(Head(ops), Now(q))
        /\ Walk(Tail(ops), Effect(Head(ops), Now(q)), Rest)
  BY <1>1, Opened
<1>3. c \in OrNone
  BY <1>1, <1>2 DEF Op, Statements
<1>4. Free(Now(q)) /\ Effect(Head(ops), Now(q)) = Now(q)
  <2>1. Free(Now(q))
    BY <1>1, <1>2 DEF Allowed
  <2>2. Head(ops).op \in Indifferent
    BY <1>1 DEF Indifferent
  <2> QED BY <2>1, <2>2, IndifferentEffect
<1> DEFINE b == [Now(q) EXCEPT !.stdout = printing]
<1>5. /\ stdout \in Nat /\ printing \in Nat /\ stdout <= printing
      /\ b \in Level /\ Free(b) /\ b.printing = printing
  BY <1>2, <1>4 DEF Level, Now, Free
<1>6. Now(q)' = b /\ [b EXCEPT !.stdout = stdout] = Now(q)
  <2> DEFINE c2 == [b EXCEPT !.stdout = stdout]
  <2>1. c2 \in Level /\ c2.stdout = Now(q).stdout
    <3>1. Now(q).stdout = stdout
      BY DEF Now
    <3> HIDE DEF b
    <3> QED BY <1>5, <3>1 DEF Level
  <2>2. /\ c2.indent = Now(q).indent /\ c2.save = Now(q).save
        /\ c2.embedded = Now(q).embedded /\ c2.printing = Now(q).printing
        /\ c2.inside = Now(q).inside /\ c2.queue = Now(q).queue
    BY <1>2 DEF Level
  <2> HIDE DEF c2
  <2>3. c2 = Now(q)
    BY <1>2, <2>1, <2>2, SameLevel
  <2>4. Now(q)' = b
    <3> DEFINE d == Now(q)'
    <3>1. d \in Level
      BY <1>1, <1>2, <1>5 DEF Now, Level
    <3>2. /\ d.indent = b.indent /\ d.save = b.save
          /\ d.embedded = b.embedded /\ d.printing = b.printing /\ d.stdout = b.stdout
          /\ d.inside = b.inside /\ d.queue = b.queue
      BY <1>1 DEF Now
    <3> HIDE DEF b, d
    <3>3. d = b
      BY <1>5, <3>1, <3>2, SameLevel
    <3> QED BY <3>3 DEF d
  <2>5. [b EXCEPT !.stdout = stdout] = Now(q)
    BY <2>3 DEF c2
  <2> HIDE DEF b
  <2> QED BY <2>4, <2>5
<1> HIDE DEF c
<1>7. Walk(Emit(c), b, b) /\ Walk(With("restore stdout", stdout), b, Now(q))
  <2> HIDE DEF b
  <2> QED BY <1>3, <1>5, <1>6, StepEmit, StepRestoreStdout
<1>8. Walk(new, Now(q)', Now(q))
  BY <1>6, <1>7, WalkConcat
<1>9. Walk(Tail(ops), Now(q), Rest) /\ (later' # <<>> => q)
  BY <1>1, <1>2, <1>4
<1> HIDE DEF new
<1> QED BY <1>1, <1>8, <1>9, ReplacedBy

LEMMA RestoreStep == Balanced /\ RestoreStdout => Balanced'
<1> SUFFICES ASSUME Balanced, RestoreStdout PROVE Balanced'
  OBVIOUS
<1>1. /\ ops # <<>> /\ Head(ops).op = "restore stdout" /\ Return /\ stdout' = Head(ops).v
      /\ UNCHANGED <<indent, saveIndent, inside, later, embedded, printing>>
  BY DEF RestoreStdout, On, function
<1>2. PICK q \in BOOLEAN :
        /\ later # <<>> => q
        /\ Walk(Tail(ops), Effect(Head(ops), Now(q)), Rest)
  BY <1>1, Opened
<1>3. Effect(Head(ops), Now(q)) = Now(q)'
  BY <1>1 DEF Effect, Now
<1> QED BY <1>1, <1>2, <1>3, Returned

\* threads \in Nat: StartThread prints the number of its thread.
LEMMA AsyncStep == Balanced /\ threads \in Nat /\ Async => Balanced'
<1> SUFFICES ASSUME Balanced, threads \in Nat, Async PROVE Balanced'
  OBVIOUS
<1> DEFINE c == Head(ops).v
           direct == Emit(c) \o Put(<<"\n">>)
           thread == Put(<<"def thread", ":", "\n">>) \o Do("indent") \o Emit(c)
                       \o Put(<<"\n">>) \o Do("outdent") \o With("start", threads + 1)
<1>1. /\ ops # <<>> /\ Head(ops).op = "async" /\ (Goto(direct) \/ Goto(thread))
      /\ UNCHANGED levels
  BY DEF Async, On, function, place, levels
<1>2. <<"\n">> \in Seq(Kinds) /\ <<"def thread", ":", "\n">> \in Seq(Kinds)
  BY Spelled, Spelling
<1>3. Head(ops) \in Op
  BY <1>1, Opened
<1>4. c \in OrNone
  BY <1>1, <1>3 DEF Op, Statements
<1> HIDE DEF c
<1>5. ASSUME NEW a \in Level, Free(a) PROVE Walk(direct, a, a) /\ Walk(thread, a, a)
  <2>1. Deeper(a) \in Level /\ Free(Deeper(a)) /\ threads + 1 \in Nat
    BY <1>5, DeeperLevel
  <2>2. Walk(direct, a, a)
    BY <1>2, <1>4, <1>5, StepPut, StepEmit, ThenNeutral
  <2>3. Walk(thread, a, a)
    BY <1>2, <1>4, <2>1, StepPut, StepEmit, StepStart, ThenIndent, ThenNeutral, ThenOutdent
  <2> QED BY <2>2, <2>3
<1> HIDE DEF direct, thread
<1>6. \A q \in BOOLEAN : Now(q) \in Level /\ Allowed(Head(ops), Now(q)) => Free(Now(q))
  BY <1>1 DEF Allowed
<1>7. Head(ops).op \in Indifferent
  BY <1>1 DEF Indifferent
<1>8. CASE Goto(direct)
  BY <1>1, <1>5, <1>6, <1>7, <1>8, IndifferentGoto
<1>9. CASE Goto(thread)
  BY <1>1, <1>5, <1>6, <1>7, <1>9, IndifferentGoto
<1> QED BY <1>1, <1>8, <1>9

(***************************************************************************)
(* Function definitions                                                    *)
(***************************************************************************)
LEMMA FunctionDefStep == Balanced /\ EmitFunctionDef => Balanced'
<1> SUFFICES ASSUME Balanced, EmitFunctionDef PROVE Balanced'
  OBVIOUS
<1> DEFINE plan == With("function", Command.body)
<1>1. At({"function"}) /\ Embedding(Command, plan)
  BY DEF EmitFunctionDef
<1>2. ops # <<>> /\ Head(ops).op = "emit" /\ Command \in Commands /\ Command.body \in Commands
  <2>1. /\ ops # <<>> /\ Head(ops).op = "emit"
        /\ Command \in Commands /\ Command.type = "function" /\ WellFormed(Command)
    BY <1>1, EmittedCommand
  <2>2. Command.body \in OrNone /\ Command.body # NoCommand
    BY <2>1 DEF WellFormed
  <2> QED BY <2>1, <2>2 DEF OrNone
<1>3. IsPlan(plan)
  <2> SUFFICES ASSUME NEW a \in Level, Free(a)
               PROVE  Walk(plan, a, a) \/ Walk(plan, a, [a EXCEPT !.embedded = 0])
    BY DEF IsPlan
  <2>1. Walk(plan, a, IF a.inside THEN a ELSE [a EXCEPT !.embedded = 0])
    BY <1>2, StepFunction
  <2> QED BY <2>1
<1>4. Around(Command, plan) /\ embedded' \in {embedded, embedded + 1}
  BY <1>1 DEF Embedding, Embeds
<1> HIDE DEF plan
<1> QED BY <1>2, <1>3, <1>4, AroundStep

\* The outermost definition is printed and the queue serviced, both from a level
\* at which no queue is pending; an inner definition joins the queue.
LEMMA SubtreeStep == Balanced /\ FunctionSubtree => Balanced'
<1> SUFFICES ASSUME Balanced, FunctionSubtree PROVE Balanced'
  OBVIOUS
<1> DEFINE v == Head(ops).v
<1>1. /\ ops # <<>> /\ Head(ops).op = "function"
      /\ UNCHANGED <<indent, saveIndent, inside, embedded, printing, stdout>>
  BY DEF FunctionSubtree, On, place
<1>2. PICK q \in BOOLEAN :
        /\ later # <<>> => q
        /\ Now(q) \in Level /\ Head(ops) \in Op /\ Allowed(Head(ops), Now(q))
        /\ Walk(Tail(ops), Effect(Head(ops), Now(q)), Rest)
  BY <1>1, Opened
<1>3. v \in Commands
  BY <1>1, <1>2 DEF Op, Statements
<1>4. Free(Now(q)) /\ Now(q)' = Now(q) /\ (Now(q).inside <=> inside) /\ Now(q).queue = q
  BY <1>1, <1>2 DEF Allowed, Now
<1>5. Effect(Head(ops), Now(q)) = IF Now(q).inside THEN Now(q) ELSE [Now(q) EXCEPT !.embedded = 0]
  BY <1>1 DEF Effect
<1>6. CASE inside
  <2>1. Return /\ q
    BY <1>2, <1>4, <1>6 DEF FunctionSubtree, Level
  <2>2. Walk(Tail(ops), Now(q)', Rest)
    BY <1>2, <1>4, <1>5, <1>6
  <2> QED BY <2>1, <2>2, Returned
<1>7. CASE ~inside
  <2> DEFINE new == With("print function", v) \o Do("service queue")
             b == [Now(q) EXCEPT !.embedded = 0]
  <2>1. ops' = new \o Tail(ops) /\ later' = later
    BY <1>7 DEF FunctionSubtree, Goto
  <2>2. Now(q).queue = FALSE
    BY <1>4, <1>7 DEF Free
  <2>3. [Now(q) EXCEPT !.embedded = 0, !.queue = FALSE] = b
    BY <2>2 DEF Now
  <2>4. Walk(new, Now(q), b)
    BY <1>2, <1>3, <1>4, <1>7, <2>3, StepPrintFunction
  <2>5. Walk(Tail(ops), b, Rest)
    BY <1>2, <1>4, <1>5, <1>7
  <2> HIDE DEF new, b
  <2> QED BY <1>2, <1>4, <2>1, <2>4, <2>5, ReplacedBy
<1> QED BY <1>6, <1>7

\* swap_buffers exchanges the levels, and the one after the body exchanges them back.
LEMMA PrintStep == Balanced /\ PrintFunction => Balanced'
<1> SUFFICES ASSUME Balanced, PrintFunction PROVE Balanced'
  OBVIOUS
<1> DEFINE v == Head(ops).v
           isGroup == v.type = "group"
           c == IF isGroup THEN v.body ELSE v
           rs == IF isGroup THEN v.redirects ELSE <<>>
           text == Emit(c) \o Put(<<"\n">>) \o Do("outdent") \o Put(<<"\n">>)
           new == text \o With("end function", rs)
<1>0. ops' = new \o Tail(ops)
  BY DEF PrintFunction, Goto
<1>1. /\ ops # <<>> /\ Head(ops).op = "print function"
      /\ embedded' = 0 /\ indent' = saveIndent + 1 /\ saveIndent' = indent /\ inside' = TRUE
      /\ UNCHANGED <<later, printing, stdout>>
  BY DEF PrintFunction, On
<1>2. PICK q \in BOOLEAN :
        /\ later # <<>> => q
        /\ Now(q) \in Level /\ Head(ops) \in Op /\ Allowed(Head(ops), Now(q))
        /\ Walk(Tail(ops), Effect(Head(ops), Now(q)), Rest)
  BY <1>1, Opened
<1>3. v \in Commands
  BY <1>1, <1>2 DEF Op, Statements
<1>4. c \in OrNone /\ rs \in Seq(Redirection)
  <2>1. WellFormed(v)
    BY <1>3, CommandsAssumption
  <2>2. isGroup => v.body \in OrNone
    BY <2>1 DEF WellFormed
  <2>3. v.redirects \in Seq(Redirection)
    BY <2>1 DEF WellFormed
  <2> QED BY <1>3, <2>2, <2>3 DEF OrNone
<1> HIDE DEF v, isGroup
<1> DEFINE a == Now(TRUE)'
           body == [a EXCEPT !.indent = saveIndent]
           after == [Now(q) EXCEPT !.embedded = 0, !.queue = TRUE]
<1>5. ~inside /\ indent \in Nat /\ saveIndent \in Nat /\ printing \in Nat /\ stdout \in Nat
      /\ stdout <= printing
  BY <1>1, <1>2 DEF Allowed, Level, Now
<1>6. /\ a.indent = saveIndent + 1 /\ a.save = indent /\ a.embedded = 0 /\ a.printing = printing
      /\ a.stdout = stdout /\ a.inside = TRUE /\ a.queue = TRUE
  BY <1>1 DEF Now
<1>7. a \in Level /\ Free(a)
  <2>1. /\ indent' \in Nat /\ saveIndent' \in Nat /\ embedded' \in Nat
        /\ printing' \in Nat /\ stdout' \in Nat /\ inside' \in BOOLEAN
    <3>1. indent' \in Nat
      <4>1. indent' = saveIndent + 1
        BY <1>1
      <4>2. saveIndent \in Nat
        BY <1>5
      <4> QED BY ONLY <4>1, <4>2
    <3>2. saveIndent' \in Nat /\ embedded' \in Nat
      BY <1>1, <1>5
    <3>3. printing' \in Nat /\ stdout' \in Nat
      BY <1>1, <1>5
    <3>4. inside' \in BOOLEAN
      BY <1>1
    <3> QED BY <3>1, <3>2, <3>3, <3>4
  <2>2. a \in [indent : Nat, save : Nat, embedded : Nat, printing : Nat, stdout : Nat,
               inside : BOOLEAN, queue : BOOLEAN]
    BY <2>1 DEF Now
  <2> HIDE DEF a
  <2> QED BY <1>5, <1>6, <2>2 DEF Level, Free
<1> HIDE DEF a
<1>8. /\ body \in Level /\ body.inside
      /\ body.indent = saveIndent /\ body.save = indent /\ body.embedded = 0
      /\ body.printing = printing /\ body.stdout = stdout
      /\ body.inside = TRUE /\ body.queue = TRUE
  BY <1>5, <1>6, <1>7 DEF Level
<1>9. /\ Now(q).indent = indent /\ Now(q).save = saveIndent /\ Now(q).embedded = embedded
      /\ Now(q).printing = printing /\ Now(q).stdout = stdout /\ Now(q).inside = inside
  BY DEF Now
<1>10. /\ after \in Level
       /\ after.indent = indent /\ after.save = saveIndent /\ after.embedded = 0
       /\ after.printing = printing /\ after.stdout = stdout
       /\ after.inside = inside /\ after.queue = TRUE
  BY <1>2, <1>9 DEF Level
<1>11. Effect(Head(ops), Now(q)) = after
  BY <1>1 DEF Effect
<1> HIDE DEF body, after
<1>12. a = Deeper(body)
  <2> DEFINE b == Deeper(body)
  <2>1. b \in Level
    BY <1>8, DeeperLevel
  <2>2. /\ b.indent = a.indent /\ b.save = a.save /\ b.embedded = a.embedded
        /\ b.printing = a.printing /\ b.stdout = a.stdout
        /\ b.inside = a.inside /\ b.queue = a.queue
    BY <1>6, <1>8 DEF Deeper, Level
  <2> HIDE DEF b
  <2>3. b = a
    BY <1>7, <2>1, <2>2, SameLevel
  <2> QED BY <2>3 DEF b
<1>13. [body EXCEPT !.indent = body.save, !.save = body.indent, !.inside = FALSE] = after
  <2> DEFINE b == [body EXCEPT !.indent = body.save, !.save = body.indent, !.inside = FALSE]
  <2>1. b \in Level
    BY <1>8 DEF Level
  <2>2. /\ b.indent = after.indent /\ b.save = after.save /\ b.embedded = after.embedded
        /\ b.printing = after.printing /\ b.stdout = after.stdout
        /\ b.inside = after.inside /\ b.queue = after.queue
    BY <1>5, <1>8, <1>10 DEF Level
  <2> HIDE DEF b
  <2>3. b = after
    BY <1>10, <2>1, <2>2, SameLevel
  <2> QED BY <2>3 DEF b
<1>14. <<"\n">> \in Seq(Kinds)
  BY Spelled, Spelling
<1>15. Walk(text, a, body)
  <2> HIDE DEF c
  <2>1. Walk(Emit(c) \o Put(<<"\n">>), Deeper(body), Deeper(body))
    BY <1>4, <1>7, <1>12, <1>14, StepEmit, StepPut, ThenNeutral
  <2>2. Walk(Emit(c) \o Put(<<"\n">>) \o Do("outdent"), Deeper(body), body)
    BY <1>8, <2>1, ThenOutdent
  <2> QED BY <1>8, <1>12, <1>14, <2>2, StepPut, ThenNeutral
<1>16. Walk(With("end function", rs), body, after)
  <2> HIDE DEF rs
  <2> QED BY <1>4, <1>8, <1>13, StepEndFunction
<1> HIDE DEF text, rs
<1>17. Walk(new, Now(TRUE)', after)
  BY <1>15, <1>16, WalkConcat DEF a
<1>18. Walk(Tail(ops), after, Rest)
  BY <1>2, <1>11
<1> HIDE DEF new
<1> QED BY <1>0, <1>1, <1>17, <1>18, ReplacedBy

LEMMA EndStep == Balanced /\ EndFunction => Balanced'
<1> SUFFICES ASSUME Balanced, EndFunction PROVE Balanced'
  OBVIOUS
<1> DEFINE v == Head(ops).v
           new == IF v = <<>> THEN <<>> ELSE With("redirections", v)
<1>1. /\ ops # <<>> /\ Head(ops).op = "end function" /\ ops' = new \o Tail(ops)
      /\ indent' = saveIndent /\ saveIndent' = indent /\ inside' = FALSE
      /\ UNCHANGED <<later, embedded, printing, stdout>>
  BY DEF EndFunction, On, Goto, place
<1>2. PICK q \in BOOLEAN :
        /\ later # <<>> => q
        /\ Now(q) \in Level /\ Head(ops) \in Op /\ Allowed(Head(ops), Now(q))
        /\ Walk(Tail(ops), Effect(Head(ops), Now(q)), Rest)
  BY <1>1, Opened
<1>3. v \in Seq(Redirection)
  BY <1>1, <1>2 DEF Op, Statements
<1>4. Effect(Head(ops), Now(q)) = Now(q)'
  BY <1>1 DEF Effect, Now
<1>5. Now(q)' \in Level
  BY <1>1, <1>2 DEF Now, Level
<1> HIDE DEF v
<1>6. Walk(new, Now(q)', Now(q)')
  BY <1>3, <1>5, WalkNil, StepRedirections
<1> HIDE DEF new
<1> QED BY <1>1, <1>2, <1>4, <1>6, ReplacedBy

LEMMA QueueStep == Balanced /\ later \in Seq(Commands) /\ ServiceQueue => Balanced'
<1> SUFFICES ASSUME Balanced, later \in Seq(Commands), ServiceQueue PROVE Balanced'
  OBVIOUS
<1>1. /\ ops # <<>> /\ Head(ops).op = "service queue"
      /\ UNCHANGED <<indent, saveIndent, inside, embedded, printing, stdout>>
  BY DEF ServiceQueue, On, place
<1>2. PICK q \in BOOLEAN :
        /\ later # <<>> => q
        /\ Now(q) \in Level /\ Allowed(Head(ops), Now(q))
        /\ Walk(Tail(ops), Effect(Head(ops), Now(q)), Rest)
  BY <1>1, Opened
<1>3. ~inside /\ embedded = 0 /\ Now(q)' = Now(q)
  BY <1>1, <1>2 DEF Allowed, Now
<1>4. Effect(Head(ops), Now(q)) = Now(FALSE)
  BY <1>1 DEF Effect, Now
<1>5. CASE later = <<>>
  <2>1. Return /\ later' = <<>>
    BY <1>5 DEF ServiceQueue
  <2>2. Now(FALSE)' = Now(FALSE)
    BY <1>1 DEF Now
  <2> QED BY <1>2, <1>4, <2>1, <2>2, Returned
<1>6. CASE later # <<>>
  <2> DEFINE new == With("print function", Head(later)) \o Do("service queue")
  <2>1. ops' = new \o Tail(ops) /\ q
    BY <1>2, <1>6 DEF ServiceQueue, Goto
  <2>2. Head(later) \in Commands /\ ~Now(q).inside
    BY <1>3, <1>6 DEF Now
  <2>3. [Now(q) EXCEPT !.embedded = 0, !.queue = FALSE] = Now(FALSE)
    <3> DEFINE b == [Now(q) EXCEPT !.embedded = 0, !.queue = FALSE]
               c == Now(FALSE)
    <3>1. b \in Level /\ c \in Level
      BY <1>2, <1>3 DEF Level, Now
    <3>2. /\ b.indent = c.indent /\ b.save = c.save /\ b.embedded = c.embedded
          /\ b.printing = c.printing /\ b.stdout = c.stdout
          /\ b.inside = c.inside /\ b.queue = c.queue
      BY <1>3 DEF Now
    <3> HIDE DEF b, c
    <3>3. b = c
      BY <3>1, <3>2, SameLevel
    <3> QED BY <3>3 DEF b, c
  <2>4. Walk(new, Now(q), Now(FALSE))
    BY <1>2, <2>2, <2>3, StepPrintFunction
  <2> HIDE DEF new
  <2> QED BY <1>2, <1>3, <1>4, <2>1, <2>4, ReplacedBy
<1> QED BY <1>5, <1>6

-------------------------------------------------------------------------------
(***************************************************************************)
(* Types                                                                   *)
(***************************************************************************)
Text == Seq([tok : Kinds, n : Nat, col : Nat \union {MidLine}])

Typed ==
  /\ script \in Programs /\ at \in 0..Len(script)
  /\ output \in Text /\ save \in Text
  /\ started \in Nat /\ threads \in Nat
  /\ wasHeredoc \in BOOLEAN /\ firstClause \in BOOLEAN
  /\ caseVar \in CaseWord \union {NoWord}
  /\ deferred \in Seq(HereDocument)
  /\ later \in Seq(Commands)

IInv == Typed /\ Balanced

LEMMA Globals ==
  ASSUME Balanced
  PROVE  /\ indent \in Nat /\ saveIndent \in Nat /\ embedded \in Nat
         /\ printing \in Nat /\ stdout \in 0..printing /\ inside \in BOOLEAN
<1>1. PICK q \in BOOLEAN : Now(q) \in Level
  BY WalkLevels DEF Balanced
<1>2. /\ Now(q).indent \in Nat /\ Now(q).save \in Nat /\ Now(q).embedded \in Nat
      /\ Now(q).printing \in Nat /\ Now(q).stdout \in Nat /\ Now(q).inside \in BOOLEAN
      /\ Now(q).stdout <= Now(q).printing
  BY <1>1 DEF Level
<1>3. /\ indent \in Nat /\ saveIndent \in Nat /\ embedded \in Nat
      /\ printing \in Nat /\ stdout \in Nat /\ inside \in BOOLEAN /\ stdout <= printing
  BY <1>2 DEF Now
<1> QED BY <1>3

LEMMA HeadType == ASSUME Balanced, ops # <<>> PROVE Head(ops) \in Op
BY Opened

LEMMA WrittenType ==
  ASSUME IInv, NEW text \in Text, NEW kinds \in Seq(Kinds)
  PROVE  Written(text, kinds) \in Text
<1> DEFINE T == [tok : Kinds, n : Nat, col : Nat \union {MidLine}]
           ColumnOf(i) == IF i = 1 THEN Column(text) ELSE ColumnAfter(kinds[i - 1])
           added == [i \in DOMAIN kinds |-> Token(kinds[i], NumberOf(kinds[i]), ColumnOf(i))]
<1>1. indent \in Nat /\ printing \in Nat /\ stdout \in Nat /\ threads \in Nat
  BY Globals DEF IInv, Typed
<1>2. \A k : ColumnAfter(k) \in Nat \union {MidLine} /\ NumberOf(k) \in Nat
  BY <1>1 DEF ColumnAfter, NumberOf
<1>3. Column(text) \in Nat \union {MidLine}
  BY <1>2 DEF Column
<1>4. Len(kinds) \in Nat /\ DOMAIN kinds = 1..Len(kinds)
  OBVIOUS
<1>5. ASSUME NEW i \in 1..Len(kinds)
      PROVE  Token(kinds[i], NumberOf(kinds[i]), ColumnOf(i)) \in T
  <2>1. kinds[i] \in Kinds
    OBVIOUS
  <2>2. ColumnOf(i) \in Nat \union {MidLine} /\ NumberOf(kinds[i]) \in Nat
    BY <1>2, <1>3
  <2> HIDE DEF ColumnOf
  <2> QED BY <2>1, <2>2 DEF Token
<1> HIDE DEF ColumnOf, T
<1>6. added \in [1..Len(kinds) -> T]
  BY <1>4, <1>5
<1> HIDE DEF added
<1>7. added \in Seq(T)
  BY <1>4, <1>6, SequenceOf
<1>8. text \in Seq(T)
  BY DEF Text, T
<1>9. text \o added \in Seq(T)
  BY <1>7, <1>8
<1> QED BY <1>9 DEF Text, T, Written, added, ColumnOf

LEMMA WriteType ==
  ASSUME IInv, NEW kinds \in Seq(Kinds), Write(kinds)
  PROVE  output' \in Text
BY WrittenType DEF Write, IInv, Typed

LEMMA DocumentsText ==
  ASSUME NEW ds \in Seq(HereDocument)
  PROVE  /\ FlattenSeq([i \in DOMAIN ds |-> <<ds[i], "\n">>]) \in Seq(Kinds)
         /\ FlattenSeq([i \in DOMAIN ds |-> <<"print '''", "\n", ds[i], "\n">>]) \in Seq(Kinds)
         /\ [i \in DOMAIN ds |-> "print '''"] \in Seq(Kinds)
<1> DEFINE ends == [i \in DOMAIN ds |-> <<ds[i], "\n">>]
           bodies == [i \in DOMAIN ds |-> <<"print '''", "\n", ds[i], "\n">>]
           prints == [i \in DOMAIN ds |-> "print '''"]
<1>1. Len(ds) \in Nat /\ DOMAIN ds = 1..Len(ds) /\ \A i \in DOMAIN ds : ds[i] \in Kinds
  <2>1. HereDocument \subseteq Kinds
    BY DEF Kinds
  <2> QED BY <2>1
<1>2. "\n" \in Kinds /\ "print '''" \in Kinds
  BY Spelling
<1>3. ends \in [DOMAIN ds -> Seq(Kinds)] /\ bodies \in [DOMAIN ds -> Seq(Kinds)]
  BY <1>1, <1>2, Spelled
<1>4. prints \in [1..Len(ds) -> Kinds]
  BY <1>1, <1>2
<1> HIDE DEF ends, bodies, prints
<1>5. FlattenSeq(ends) \in Seq(Kinds) /\ FlattenSeq(bodies) \in Seq(Kinds)
  BY <1>3, PartsType
<1>6. prints \in Seq(Kinds)
  BY <1>1, <1>4, SequenceOf
<1> QED BY <1>5, <1>6 DEF ends, bodies, prints

LEMMA ShownType ==
  ASSUME NEW n \in Int
  PROVE  [i \in 1..n |-> "redirection"] \in Seq(Kinds)
<1> DEFINE shown(m) == [i \in 1..m |-> "redirection"]
<1>1. "redirection" \in Kinds
  BY Spelling
<1>2. ASSUME NEW m \in Nat PROVE shown(m) \in Seq(Kinds)
  <2>1. shown(m) \in [1..m -> Kinds]
    BY <1>1
  <2> HIDE DEF shown
  <2> QED BY <2>1, SequenceOf
<1>3. n \in Nat \/ 1..n = 1..0
  OBVIOUS
<1> QED BY <1>2, <1>3

LEMMA RedirectionListType ==
  ASSUME IInv, NEW rs \in Seq(Redirection), PrintRedirectionList(rs)
  PROVE  output' \in Text /\ wasHeredoc' \in BOOLEAN /\ deferred' \in Seq(HereDocument)
<1> DEFINE ds == HereDocs(rs)
           shown == [i \in 1..(Len(rs) - Len(ds)) |-> "redirection"]
           bodies == FlattenSeq([i \in DOMAIN ds |-> <<"print '''", "\n", ds[i], "\n">>])
<1>1. ds \in Seq(HereDocument)
  BY HereDocsType
<1>2. Len(rs) - Len(ds) \in Int
  BY <1>1
<1>3. shown \in Seq(Kinds) /\ bodies \in Seq(Kinds)
  BY <1>1, <1>2, ShownType, DocumentsText
<1>4. deferred \in Seq(HereDocument)
  BY DEF IInv, Typed
<1>5. IF ds = <<>>
      THEN Write(shown) /\ wasHeredoc' = FALSE /\ UNCHANGED deferred
      ELSE IF printing > 0
      THEN Write(shown) /\ wasHeredoc' = FALSE /\ deferred' = ds
      ELSE Write(shown \o bodies) /\ wasHeredoc' = TRUE /\ UNCHANGED deferred
  BY DEF PrintRedirectionList
<1> HIDE DEF ds, shown, bodies
<1>6. shown \o bodies \in Seq(Kinds)
  BY <1>3
<1> QED BY <1>1, <1>3, <1>4, <1>5, <1>6, WriteType

LEMMA DeferredType ==
  ASSUME IInv, PrintDeferredHeredocs
  PROVE  output' \in Text /\ wasHeredoc' \in BOOLEAN /\ deferred' \in Seq(HereDocument)
<1> DEFINE prints == [i \in DOMAIN deferred |-> "print '''"]
           ends == FlattenSeq([i \in DOMAIN deferred |-> <<deferred[i], "\n">>])
<1>1. deferred \in Seq(HereDocument)
  BY DEF IInv, Typed
<1>2. prints \in Seq(Kinds) /\ ends \in Seq(Kinds)
  BY <1>1, DocumentsText
<1>3. <<"\n">> \in Seq(Kinds)
  BY Spelled, Spelling
<1>4. Write(prints \o <<"\n">> \o ends) /\ wasHeredoc' = TRUE /\ deferred' = <<>>
  BY DEF PrintDeferredHeredocs
<1> HIDE DEF prints, ends
<1>5. prints \o <<"\n">> \o ends \in Seq(Kinds)
  BY <1>2, <1>3
<1>6. output' \in Text
  BY <1>4, <1>5, WriteType
<1>7. deferred' \in Seq(HereDocument)
  BY <1>4
<1> QED BY <1>4, <1>6, <1>7

\* What a step leaves alone keeps its type.
LEMMA TypedParts ==
  ASSUME Typed, script' = script, at' = at,
         output' \in Text, save' \in Text, started' \in Nat, threads' \in Nat,
         wasHeredoc' \in BOOLEAN, firstClause' \in BOOLEAN,
         caseVar' \in CaseWord \union {NoWord},
         deferred' \in Seq(HereDocument), later' \in Seq(Commands)
  PROVE  Typed'
BY DEF Typed, Text

\* The actions that begin a command
Begin ==
  \/ EmitSimple \/ EmitArith \/ EmitCond \/ EmitFor \/ EmitArithFor \/ EmitSelect \/ EmitWhile
  \/ EmitUntil \/ EmitCase \/ EmitIf \/ EmitGroup \/ EmitSubshell \/ EmitCoproc \/ EmitConnection
  \/ EmitFunctionDef

LEMMA BeginTyped == IInv /\ Begin => Typed'
<1> SUFFICES ASSUME IInv, Begin PROVE Typed'
  OBVIOUS
<1>a. CASE EmitCase
  <2>1. caseVar' \in CaseWord
    <3>1. At({"case"}) /\ caseVar' = Command.word
      BY <1>a DEF EmitCase
    <3>2. WellFormed(Command) /\ Command.type = "case"
      BY <3>1, EmittedCommand DEF IInv
    <3> QED BY <3>1, <3>2 DEF WellFormed
  <2>2. /\ started' = started + 1
        /\ UNCHANGED <<script, at, output, save, later, threads, wasHeredoc, firstClause, deferred>>
    BY <1>a DEF EmitCase, Embeds, Around, input, function, heredocs
  <2> QED BY <2>1, <2>2, TypedParts DEF IInv, Typed
<1> SUFFICES ASSUME ~EmitCase PROVE Typed'
  BY <1>a
<1>1. \E plan : Embedding(Command, plan) \/ Transparent(Command, plan)
  BY DEF Begin, EmitSimple, EmitArith, EmitCond, EmitFor, EmitArithFor, EmitSelect, EmitWhile,
         EmitUntil, EmitIf, EmitGroup, EmitSubshell, EmitCoproc, EmitConnection,
         EmitFunctionDef
<1>2. /\ started' = started + 1
      /\ UNCHANGED <<script, at, output, save, later, threads, wasHeredoc, firstClause, caseVar, deferred>>
  BY <1>1 DEF Embedding, Embeds, Transparent, Around, input, function, heredocs, counters
<1> QED BY <1>2, TypedParts DEF IInv, Typed

LEMMA BeginBalanced == Balanced /\ Begin => Balanced'
BY SimpleStep, ArithStep, CondStep, ForStep, ArithForStep, SelectStep, WhileStep, UntilStep,
   CaseStep, IfStep, GroupStep, SubshellStep, CoprocStep, ConnectionStep, FunctionDefStep
   DEF Begin

LEMMA NullStep == IInv /\ EmitNull => IInv'
<1> SUFFICES ASSUME IInv, EmitNull PROVE IInv'
  OBVIOUS
<1>1. /\ ops # <<>> /\ Head(ops).op = "emit" /\ Return
      /\ UNCHANGED <<script, at, output, save, started, threads, wasHeredoc, firstClause, caseVar, deferred, later>>
      /\ UNCHANGED levels
  BY DEF EmitNull, On, input, function, place, heredocs, counters, levels
<1>2. Typed'
  BY <1>1, TypedParts DEF IInv, Typed
<1>3. Balanced'
  BY <1>1, IndifferentStep DEF IInv, Indifferent
<1> QED BY <1>2, <1>3 DEF IInv

LEMMA ReturnStep == IInv /\ EmitReturn => IInv'
<1> SUFFICES ASSUME IInv, EmitReturn PROVE IInv'
  OBVIOUS
<1> DEFINE rs == Head(ops).redirects
<1>1. /\ ops # <<>> /\ Head(ops).op = "return" /\ Return /\ embedded' = Head(ops).embedded
      /\ IF rs = <<>> THEN UNCHANGED <<output, deferred, wasHeredoc>> ELSE PrintRedirectionList(rs)
      /\ UNCHANGED <<script, at, indent, save, saveIndent, inside, later, started, printing, stdout,
                     firstClause, caseVar, threads>>
  BY DEF EmitReturn, On, input, function, heredocs, counters
<1>2. Head(ops) \in Op
  BY <1>1, HeadType DEF IInv
<1>3. rs \in Seq(Redirection)
  BY <1>1, <1>2 DEF Op, Statements
<1> HIDE DEF rs
<1>4. output' \in Text /\ wasHeredoc' \in BOOLEAN /\ deferred' \in Seq(HereDocument)
  BY <1>1, <1>3, RedirectionListType DEF IInv, Typed
<1>5. Typed'
  BY <1>1, <1>4, TypedParts DEF IInv, Typed
<1>6. PICK q \in BOOLEAN :
        /\ later # <<>> => q
        /\ Walk(Tail(ops), Effect(Head(ops), Now(q)), Rest)
  BY <1>1, Opened DEF IInv
<1>7. Effect(Head(ops), Now(q)) = Now(q)'
  BY <1>1 DEF Effect, Now
<1>8. Balanced'
  BY <1>1, <1>6, <1>7, Returned
<1> QED BY <1>5, <1>8 DEF IInv

LEMMA DeferredStep == IInv /\ DeferredHeredocs => IInv'
<1> SUFFICES ASSUME IInv, DeferredHeredocs PROVE IInv'
  OBVIOUS
<1>1. /\ ops # <<>> /\ Head(ops).op = "heredocs" /\ Return
      /\ IF deferred = <<>> THEN UNCHANGED <<output, deferred, wasHeredoc>> ELSE PrintDeferredHeredocs
      /\ UNCHANGED <<script, at, save, started, threads, firstClause, caseVar, later>>
      /\ UNCHANGED levels
  BY DEF DeferredHeredocs, On, input, function, place, heredocs, counters, levels
<1>2. output' \in Text /\ wasHeredoc' \in BOOLEAN /\ deferred' \in Seq(HereDocument)
  BY <1>1, DeferredType DEF IInv, Typed
<1>3. Typed'
  BY <1>1, <1>2, TypedParts DEF IInv, Typed
<1>4. Balanced'
  BY <1>1, IndifferentStep DEF IInv, Indifferent
<1> QED BY <1>3, <1>4 DEF IInv

LEMMA SeparateStep == IInv /\ Separate => IInv'
<1> SUFFICES ASSUME IInv, Separate PROVE IInv'
  OBVIOUS
<1>1. /\ ops # <<>> /\ Head(ops).op = "separate" /\ Return
      /\ IF deferred # <<>> THEN PrintDeferredHeredocs
         ELSE IF wasHeredoc THEN wasHeredoc' = FALSE /\ UNCHANGED <<output, deferred>>
         ELSE Write(<<"\n">>) /\ UNCHANGED <<deferred, wasHeredoc>>
      /\ UNCHANGED <<script, at, save, started, threads, firstClause, caseVar, later>>
      /\ UNCHANGED levels
  BY DEF Separate, On, input, function, place, heredocs, counters, levels
<1>2. <<"\n">> \in Seq(Kinds)
  BY Spelled, Spelling
<1>3. output' \in Text /\ wasHeredoc' \in BOOLEAN /\ deferred' \in Seq(HereDocument)
  BY <1>1, <1>2, DeferredType, WriteType DEF IInv, Typed
<1>4. Typed'
  BY <1>1, <1>3, TypedParts DEF IInv, Typed
<1>5. Balanced'
  BY <1>1, IndifferentStep DEF IInv, Indifferent
<1> QED BY <1>4, <1>5 DEF IInv

LEMMA RedirectionsStep == IInv /\ FunctionRedirections => IInv'
<1> SUFFICES ASSUME IInv, FunctionRedirections PROVE IInv'
  OBVIOUS
<1> DEFINE rs == Head(ops).v
<1>1. /\ ops # <<>> /\ Head(ops).op = "redirections" /\ Return /\ PrintRedirectionList(rs)
      /\ UNCHANGED <<script, at, save, started, threads, firstClause, caseVar, later>>
      /\ UNCHANGED levels
  BY DEF FunctionRedirections, On, input, function, place, heredocs, counters, levels
<1>2. Head(ops) \in Op
  BY <1>1, HeadType DEF IInv
<1>3. rs \in Seq(Redirection)
  BY <1>1, <1>2 DEF Op, Statements
<1> HIDE DEF rs
<1>4. output' \in Text /\ wasHeredoc' \in BOOLEAN /\ deferred' \in Seq(HereDocument)
  BY <1>1, <1>3, RedirectionListType
<1>5. Typed'
  BY <1>1, <1>4, TypedParts DEF IInv, Typed
<1>6. Balanced'
  BY <1>1, IndifferentStep DEF IInv, Indifferent
<1> QED BY <1>5, <1>6 DEF IInv

LEMMA ClauseStep == IInv /\ CaseClause => IInv'
<1> SUFFICES ASSUME IInv, CaseClause PROVE IInv'
  OBVIOUS
<1>1. /\ ops # <<>> /\ Head(ops).op = "clause" /\ Return
      /\ \/ Write(<<"\n", "else", ":", "\n">>) /\ UNCHANGED firstClause
         \/ Write(<<"\n", "if", caseVar, ":", "\n">>) /\ firstClause' = FALSE
         \/ Write(<<"\n", "elif", caseVar, ":", "\n">>) /\ firstClause' = FALSE
      /\ UNCHANGED <<script, at, save, started, threads, deferred, wasHeredoc, caseVar, later>>
      /\ UNCHANGED levels
  BY DEF CaseClause, On, input, function, place, heredocs, levels
<1>2. /\ <<"\n", "else", ":", "\n">> \in Seq(Kinds)
      /\ <<"\n", "if", caseVar, ":", "\n">> \in Seq(Kinds)
      /\ <<"\n", "elif", caseVar, ":", "\n">> \in Seq(Kinds)
  <2>1. caseVar \in Kinds
    BY DEF IInv, Typed, Kinds
  <2> QED BY <2>1, Spelled, Spelling
<1>3. output' \in Text /\ firstClause' \in BOOLEAN
  BY <1>1, <1>2, WriteType DEF IInv, Typed
<1>4. Typed'
  BY <1>1, <1>3, TypedParts DEF IInv, Typed
<1>5. Balanced'
  BY <1>1, IndifferentStep DEF IInv, Indifferent
<1> QED BY <1>4, <1>5 DEF IInv

LEMMA PrefixStep == IInv /\ WritePrefix => IInv'
<1> SUFFICES ASSUME IInv, WritePrefix PROVE IInv'
  OBVIOUS
<1>1. /\ ops # <<>> /\ Head(ops).op = "prefix" /\ Return /\ Write(Prefix(started))
      /\ UNCHANGED <<script, at, save, started, threads, deferred, wasHeredoc, firstClause, caseVar, later>>
      /\ UNCHANGED levels
  BY DEF WritePrefix, On, input, function, place, heredocs, counters, levels
<1>2. Prefix(started) \in Seq(Kinds)
  BY Spelled, Spelling DEF Prefix
<1>3. Typed'
  BY <1>1, <1>2, WriteType, TypedParts DEF IInv, Typed
<1>4. Balanced'
  BY <1>1, IndifferentStep DEF IInv, Indifferent
<1> QED BY <1>3, <1>4 DEF IInv

LEMMA PutStep == IInv /\ WriteTokens => IInv'
<1> SUFFICES ASSUME IInv, WriteTokens PROVE IInv'
  OBVIOUS
<1>1. /\ ops # <<>> /\ Head(ops).op = "put" /\ Return /\ Write(Head(ops).kinds)
      /\ UNCHANGED <<script, at, save, started, threads, deferred, wasHeredoc, firstClause, caseVar, later>>
      /\ UNCHANGED levels
  BY DEF WriteTokens, On, input, function, place, heredocs, counters, levels
<1>2. Head(ops) \in Op
  BY <1>1, HeadType DEF IInv
<1>3. Head(ops).kinds \in Seq(Kinds)
  BY <1>1, <1>2 DEF Op, Statements
<1>4. Typed'
  BY <1>1, <1>3, WriteType, TypedParts DEF IInv, Typed
<1>5. Balanced'
  BY <1>1, IndifferentStep DEF IInv, Indifferent
<1> QED BY <1>4, <1>5 DEF IInv

LEMMA FreshStep == IInv /\ Fresh => IInv'
<1> SUFFICES ASSUME IInv, Fresh PROVE IInv'
  OBVIOUS
<1>1. /\ ops # <<>> /\ Head(ops).op = "fresh" /\ Return /\ started' \in {0, started}
      /\ UNCHANGED <<script, at, output, save, threads, deferred, wasHeredoc, firstClause, caseVar, later>>
      /\ UNCHANGED levels
  BY DEF Fresh, On, input, function, heredocs, counters, levels
<1>2. Typed'
  BY <1>1, TypedParts DEF IInv, Typed
<1>3. Balanced'
  BY <1>1, IndifferentStep DEF IInv, Indifferent
<1> QED BY <1>2, <1>3 DEF IInv

LEMMA DropStep == IInv /\ Drop => IInv'
<1> SUFFICES ASSUME IInv, Drop PROVE IInv'
  OBVIOUS
<1>1. /\ ops # <<>> /\ Head(ops).op = "drop" /\ Return /\ deferred' = <<>>
      /\ UNCHANGED <<script, at, output, save, started, threads, wasHeredoc, firstClause, caseVar, later>>
      /\ UNCHANGED levels
  BY DEF Drop, On, input, function, place, counters, levels
<1>2. deferred' \in Seq(HereDocument)
  BY <1>1
<1>3. Typed'
  BY <1>1, <1>2, TypedParts DEF IInv, Typed
<1>4. Balanced'
  BY <1>1, IndifferentStep DEF IInv, Indifferent
<1> QED BY <1>3, <1>4 DEF IInv

LEMMA TrimStep == IInv /\ Trim => IInv'
<1> SUFFICES ASSUME IInv, Trim PROVE IInv'
  OBVIOUS
<1>1. /\ ops # <<>> /\ Head(ops).op = "trim" /\ Return
      /\ \E n \in 0..Len(output) : output' = SubSeq(output, 1, n)
      /\ UNCHANGED <<script, at, save, started, threads, deferred, wasHeredoc, firstClause, caseVar, later>>
      /\ UNCHANGED levels
  BY DEF Trim, On, input, function, place, heredocs, counters, levels
<1>2. output' \in Text
  <2>1. output \in Text
    BY DEF IInv, Typed
  <2>2. PICK n \in 0..Len(output) : output' = SubSeq(output, 1, n)
    BY <1>1
  <2> DEFINE T == [tok : Kinds, n : Nat, col : Nat \union {MidLine}]
  <2>3. output \in Seq(T)
    BY <2>1 DEF Text
  <2> HIDE DEF T
  <2>4. SubSeq(output, 1, n) \in Seq(T)
    BY <2>3
  <2> QED BY <2>2, <2>4 DEF Text, T
<1>3. Typed'
  BY <1>1, <1>2, TypedParts DEF IInv, Typed
<1>4. Balanced'
  BY <1>1, IndifferentStep DEF IInv, Indifferent
<1> QED BY <1>3, <1>4 DEF IInv

LEMMA StartStep == IInv /\ StartThread => IInv'
<1> SUFFICES ASSUME IInv, StartThread PROVE IInv'
  OBVIOUS
<1>1. /\ ops # <<>> /\ Head(ops).op = "start" /\ Return
      /\ output' = Append(output, Token("start", Head(ops).v, Column(output))) \o <<Token("\n", 0, MidLine)>>
      /\ UNCHANGED <<script, at, save, started, threads, deferred, wasHeredoc, firstClause, caseVar, later>>
      /\ UNCHANGED levels
  BY DEF StartThread, On, input, function, place, heredocs, counters, levels
<1>2. Head(ops) \in Op
  BY <1>1, HeadType DEF IInv
<1>3. Head(ops).v \in Nat
  BY <1>1, <1>2 DEF Op, Statements
<1>4. output' \in Text
  <2>1. Column(output) \in Nat \union {MidLine}
    BY Globals DEF IInv, Column, ColumnAfter
  <2>2. "start" \in Kinds /\ "\n" \in Kinds
    BY Spelling
  <2> DEFINE T == [tok : Kinds, n : Nat, col : Nat \union {MidLine}]
             x == Token("start", Head(ops).v, Column(output))
             y == Token("\n", 0, MidLine)
  <2>3. x \in T /\ y \in T
    BY <1>3, <2>1, <2>2 DEF Token
  <2>4. output \in Seq(T)
    BY DEF IInv, Typed, Text
  <2> HIDE DEF T, x, y
  <2>5. Append(output, x) \o <<y>> \in Seq(T)
    BY <2>3, <2>4
  <2> QED BY <1>1, <2>5 DEF Text, T, x, y
<1>5. Typed'
  BY <1>1, <1>4, TypedParts DEF IInv, Typed
<1>6. Balanced'
  BY <1>1, IndifferentStep DEF IInv, Indifferent
<1> QED BY <1>5, <1>6 DEF IInv

LEMMA CountTyped ==
  ASSUME IInv,
         IfBranches \/ CountConnection \/ Writer \/ RestoreStdout \/ Indentation
  PROVE  Typed'
<1>1. UNCHANGED <<script, at, output, save, started, threads, deferred, wasHeredoc, firstClause, caseVar, later>>
  BY DEF IfBranches, CountConnection, Writer, RestoreStdout, Indentation,
         input, function, place, heredocs, counters
<1> QED BY <1>1, TypedParts DEF IInv, Typed

LEMMA IndentationStep == Balanced /\ Indentation => Balanced'
<1> SUFFICES ASSUME Balanced, Indentation PROVE Balanced'
  OBVIOUS
<1>1. /\ ops # <<>> /\ Return
      /\ \/ Head(ops).op = "indent" /\ indent' = indent + 1
         \/ Head(ops).op = "outdent" /\ indent' = indent - 1
      /\ UNCHANGED <<saveIndent, inside, later, embedded, printing, stdout>>
  BY DEF Indentation, On, function, place
<1>2. PICK q \in BOOLEAN :
        /\ later # <<>> => q
        /\ Walk(Tail(ops), Effect(Head(ops), Now(q)), Rest)
  BY <1>1, Opened
<1>3. Effect(Head(ops), Now(q)) = Now(q)'
  BY <1>1 DEF Effect, Now
<1> QED BY <1>1, <1>2, <1>3, Returned

LEMMA AsyncTyped == IInv /\ Async => Typed'
<1> SUFFICES ASSUME IInv, Async PROVE Typed'
  OBVIOUS
<1>1. /\ \/ UNCHANGED <<deferred, wasHeredoc, threads>>
         \/ threads' = threads + 1 /\ deferred' = <<>> /\ UNCHANGED wasHeredoc
      /\ UNCHANGED <<script, at, output, save, started, firstClause, caseVar, later>>
  BY DEF Async, input, function, place, heredocs
<1>2. deferred \in Seq(HereDocument) /\ threads \in Nat /\ wasHeredoc \in BOOLEAN
  BY DEF IInv, Typed
<1>3. wasHeredoc' \in BOOLEAN
  BY <1>1, <1>2
<1>4. threads' \in Nat
  BY <1>1, <1>2
<1>5. deferred' \in Seq(HereDocument)
  <2>1. CASE deferred' = deferred
    BY <2>1, <1>2
  <2>2. CASE deferred' = <<>>
    BY <2>2
  <2> QED BY <1>1, <2>1, <2>2
<1> QED BY <1>1, <1>3, <1>4, <1>5, TypedParts DEF IInv, Typed

LEMMA SubtreeTyped == IInv /\ FunctionSubtree => Typed'
<1> SUFFICES ASSUME IInv, FunctionSubtree PROVE Typed'
  OBVIOUS
<1>1. /\ ops # <<>> /\ Head(ops).op = "function"
      /\ later' = Append(later, Head(ops).v) \/ later' = later
      /\ UNCHANGED <<script, at, output, save, started, threads, deferred, wasHeredoc, firstClause, caseVar>>
  BY DEF FunctionSubtree, On, input, place, heredocs, counters
<1>2. Head(ops) \in Op
  BY <1>1, HeadType DEF IInv
<1>3. Head(ops).v \in Commands
  BY <1>1, <1>2 DEF Op, Statements
<1>4. later' \in Seq(Commands)
  BY <1>1, <1>3 DEF IInv, Typed
<1> QED BY <1>1, <1>4, TypedParts DEF IInv, Typed

LEMMA QueueTyped == IInv /\ ServiceQueue => Typed'
<1> SUFFICES ASSUME IInv, ServiceQueue PROVE Typed'
  OBVIOUS
<1>1. /\ later' = later \/ (later # <<>> /\ later' = Tail(later))
      /\ UNCHANGED <<script, at, output, save, started, threads, deferred, wasHeredoc, firstClause, caseVar>>
  BY DEF ServiceQueue, input, place, heredocs, counters
<1>2. later \in Seq(Commands)
  BY DEF IInv, Typed
<1>3. later' \in Seq(Commands)
  BY <1>1, <1>2
<1> QED BY <1>1, <1>3, TypedParts DEF IInv, Typed

LEMMA PrintTyped == IInv /\ PrintFunction => Typed'
<1> SUFFICES ASSUME IInv, PrintFunction PROVE Typed'
  OBVIOUS
<1>1. /\ save' = Written(output, <<"def">>) /\ output' = <<>>
      /\ UNCHANGED <<script, at, started, threads, deferred, wasHeredoc, firstClause, caseVar, later>>
  BY DEF PrintFunction, input, heredocs, counters
<1>2. <<"def">> \in Seq(Kinds)
  BY Spelled, Spelling
<1>3. save' \in Text
  BY <1>1, <1>2, WrittenType DEF IInv, Typed
<1>4. output' \in Text
  BY <1>1 DEF Text
<1> QED BY <1>1, <1>3, <1>4, TypedParts DEF IInv, Typed

LEMMA IndentedType ==
  ASSUME NEW text \in Text, NEW by \in Nat
  PROVE  Indented(text, by) \in Text
<1> DEFINE T == [tok : Kinds, n : Nat, col : Nat \union {MidLine}]
           indented == Indented(text, by)
<1>1. Len(text) \in Nat /\ DOMAIN text = 1..Len(text) /\ \A i \in 1..Len(text) : text[i] \in T
  <2>1. text \in Seq(T)
    BY DEF Text
  <2> HIDE DEF T
  <2> QED BY <2>1
<1>2. ASSUME NEW x \in T PROVE (IF x.col = MidLine THEN x ELSE [x EXCEPT !.col = @ + by]) \in T
  BY DEF MidLine
<1>3. indented \in [1..Len(text) -> T]
  <2> HIDE DEF T
  <2> QED BY <1>1, <1>2 DEF Indented
<1> HIDE DEF T, indented
<1>4. indented \in Seq(T)
  BY <1>1, <1>3, SequenceOf
<1> QED BY <1>4 DEF Text, T, indented

LEMMA EndTyped == IInv /\ EndFunction => Typed'
<1> SUFFICES ASSUME IInv, EndFunction PROVE Typed'
  OBVIOUS
<1> DEFINE T == [tok : Kinds, n : Nat, col : Nat \union {MidLine}]
           x == Token(":", 0, MidLine)
           y == Token("\n", 0, MidLine)
           body == Indented(output, saveIndent)
<1>1. /\ output' = save \o <<x, y>> \o body /\ save' = output
      /\ UNCHANGED <<script, at, started, threads, deferred, wasHeredoc, firstClause, caseVar, later>>
  BY DEF EndFunction, input, place, heredocs, counters
<1>2. ":" \in Kinds /\ "\n" \in Kinds
  BY Spelling
<1>3. x \in T /\ y \in T
  BY <1>2 DEF Token
<1>4. saveIndent \in Nat /\ output \in Text /\ save \in Text
  BY Globals DEF IInv, Typed
<1>5. body \in Seq(T) /\ save \in Seq(T)
  BY <1>4, IndentedType DEF Text
<1> HIDE DEF T, x, y, body
<1>6. save \o <<x, y>> \o body \in Seq(T)
  BY <1>3, <1>5
<1>7. output' \in Text /\ save' \in Text
  BY <1>1, <1>4, <1>6 DEF Text, T
<1> QED BY <1>1, <1>7, TypedParts DEF IInv, Typed

\* At the start of a command nothing remains of the commands before it.
LEMMA AtRestLevel ==
  ASSUME Balanced, ops = <<>>
  PROVE  /\ indent = 0 /\ saveIndent = 0 /\ ~inside /\ later = <<>>
         /\ embedded = 0 /\ printing = 0 /\ stdout = 0
<1>1. PICK q \in BOOLEAN : (later # <<>> => q) /\ Walk(<<>>, Now(q), Rest)
  BY DEF Balanced
<1>2. Now(q) = Rest
  BY <1>1, WalkNowhere
<1>3. /\ Now(q).indent = Rest.indent /\ Now(q).save = Rest.save /\ Now(q).inside = Rest.inside
      /\ Now(q).embedded = Rest.embedded /\ Now(q).printing = Rest.printing
      /\ Now(q).stdout = Rest.stdout /\ Now(q).queue = Rest.queue
  BY <1>2
<1> QED BY <1>1, <1>3 DEF Now, Rest

LEMMA ReadStep == IInv /\ ReadCommand => IInv'
<1> SUFFICES ASSUME IInv, ReadCommand PROVE IInv'
  OBVIOUS
<1> DEFINE c == script[at + 1]
           new == Emit(c) \o Put(<<"\n">>)
<1>1. /\ ops = <<>> /\ at < Len(script) /\ ops' = new /\ at' = at + 1
      /\ wasHeredoc' = FALSE /\ deferred' = <<>> /\ embedded' = 0 /\ started' = 0
      /\ UNCHANGED <<script, output, indent, save, saveIndent, inside, later, printing, stdout,
                     firstClause, caseVar, threads>>
  BY DEF ReadCommand, function, counters
<1>2. script \in Seq(Commands) /\ at \in 0..Len(script)
  BY CommandsAssumption DEF IInv, Typed
<1>3. c \in OrNone /\ at + 1 \in 0..Len(script)
  BY <1>1, <1>2 DEF OrNone
<1> HIDE DEF c
<1>4. Typed'
  <2>1. deferred' \in Seq(HereDocument)
    BY <1>1
  <2> QED BY <1>1, <1>3, <2>1 DEF IInv, Typed, Text
<1>5. Rest \in Level /\ Free(Rest)
  BY DEF Rest, Level, Free
<1>6. <<"\n">> \in Seq(Kinds)
  BY Spelled, Spelling
<1>7. Walk(new, Rest, Rest)
  BY <1>3, <1>5, <1>6, StepEmit, StepPut, ThenNeutral
<1>8. /\ indent = 0 /\ saveIndent = 0 /\ inside = FALSE /\ later = <<>>
      /\ printing = 0 /\ stdout = 0
  <2>1. ~inside /\ inside \in BOOLEAN
    BY <1>1, AtRestLevel, Globals DEF IInv
  <2> QED BY <1>1, <2>1, AtRestLevel DEF IInv
<1>10. /\ indent' = 0 /\ saveIndent' = 0 /\ inside' = FALSE /\ later' = <<>>
       /\ printing' = 0 /\ stdout' = 0 /\ embedded' = 0
  BY <1>1, <1>8
<1>11. Now(FALSE)' = Rest
  BY <1>10 DEF Now, Rest
<1> HIDE DEF new
<1>9. Balanced'
  BY <1>1, <1>7, <1>10, <1>11 DEF Balanced, Now, Rest
<1> QED BY <1>4, <1>9 DEF IInv

LEMMA InitStep == Init => IInv
<1> SUFFICES ASSUME Init PROVE IInv
  OBVIOUS
<1>1. script \in Seq(Commands)
  BY CommandsAssumption DEF Init
<1>2. Typed
  <2>1. script \in Programs /\ at = 0 /\ output = <<>> /\ save = <<>> /\ started = 0 /\ threads = 0
        /\ wasHeredoc = FALSE /\ firstClause = TRUE /\ caseVar = NoWord /\ deferred = <<>> /\ later = <<>>
    BY DEF Init
  <2>2. at \in 0..Len(script)
    BY <1>1, <2>1
  <2>3. output \in Text /\ save \in Text
    BY <2>1 DEF Text
  <2>4. deferred \in Seq(HereDocument) /\ later \in Seq(Commands)
    BY <2>1
  <2> QED BY <2>1, <2>2, <2>3, <2>4 DEF Typed
<1>3. Rest \in Level
  BY DEF Rest, Level
<1>4. Now(FALSE) = Rest /\ ops = <<>> /\ later = <<>>
  BY DEF Init, Now, Rest
<1>5. Walk(ops, Now(FALSE), Rest)
  BY <1>3, <1>4, WalkNil
<1> QED BY <1>2, <1>4, <1>5 DEF IInv, Balanced

LEMMA StutterStep == IInv /\ UNCHANGED vars => IInv'
<1> SUFFICES ASSUME IInv, UNCHANGED vars PROVE IInv'
  OBVIOUS
<1>1. /\ UNCHANGED <<script, at, output, save, started, threads, deferred, wasHeredoc, firstClause, caseVar>>
      /\ UNCHANGED <<ops, later, indent, saveIndent, embedded, printing, stdout, inside>>
  BY DEF vars, input, function, place, heredocs, counters
<1>2. Typed'
  BY <1>1, TypedParts DEF IInv, Typed
<1>3. Balanced'
  BY <1>1 DEF IInv, Balanced, Now, Rest
<1> QED BY <1>2, <1>3 DEF IInv

-------------------------------------------------------------------------------
LEMMA NextStep == IInv /\ [Next]_vars => IInv'
<1> SUFFICES ASSUME IInv, [Next]_vars PROVE IInv'
  OBVIOUS
<1>1. CASE Begin
  BY <1>1, BeginTyped, BeginBalanced DEF IInv
<1>2. CASE EmitNull \/ EmitReturn \/ DeferredHeredocs \/ Separate \/ FunctionRedirections
           \/ CaseClause \/ WritePrefix \/ WriteTokens \/ Fresh \/ Drop \/ Trim \/ StartThread
  BY <1>2, NullStep, ReturnStep, DeferredStep, SeparateStep, RedirectionsStep, ClauseStep,
     PrefixStep, PutStep, FreshStep, DropStep, TrimStep, StartStep
<1>3. CASE IfBranches \/ CountConnection \/ Writer \/ RestoreStdout \/ Indentation
  BY <1>3, CountTyped, BranchesStep, CountStep, WriterStep, RestoreStep, IndentationStep DEF IInv
<1>4. CASE Async
  BY <1>4, AsyncTyped, AsyncStep DEF IInv, Typed
<1>5. CASE FunctionSubtree
  BY <1>5, SubtreeTyped, SubtreeStep DEF IInv
<1>6. CASE PrintFunction
  BY <1>6, PrintTyped, PrintStep DEF IInv
<1>7. CASE EndFunction
  BY <1>7, EndTyped, EndStep DEF IInv
<1>8. CASE ServiceQueue
  BY <1>8, QueueTyped, QueueStep DEF IInv, Typed
<1>9. CASE ReadCommand
  BY <1>9, ReadStep
<1>10. CASE Done \/ UNCHANGED vars
  BY <1>10, StutterStep DEF Done
<1> QED BY <1>1, <1>2, <1>3, <1>4, <1>5, <1>6, <1>7, <1>8, <1>9, <1>10
        DEF Next, Translate, Compound, Connection, Function, Begin

\* The globals, the C stack and the text belong together: whatever remains to be
\* done leads from the globals as they are to the globals as they began.
THEOREM EmitterInvariant == Spec => []IInv
<1>1. Init => IInv
  BY InitStep
<1>2. IInv /\ [Next]_vars => IInv'
  BY NextStep
<1> QED BY <1>1, <1>2, PTL DEF Spec

\* Whatever a command consists of, when it has been printed the level of
\* indentation is the one it was printed at, the queue of inner functions is
\* empty and the globals of emit_command are what they were.
THEOREM NothingIsLeft == Spec => []NothingLeaks
<1>1. IInv => NothingLeaks
  <2> SUFFICES ASSUME IInv PROVE NothingLeaks
    OBVIOUS
  <2>1. TypeOK
    <3>1. \A i \in DOMAIN output : output[i].col \in Nat \union {MidLine}
      <4> DEFINE T == [tok : Kinds, n : Nat, col : Nat \union {MidLine}]
      <4>1. output \in Seq(T)
        BY DEF IInv, Typed, Text
      <4>2. \A i \in DOMAIN output : output[i] \in T
        <5> HIDE DEF T
        <5> QED BY <4>1
      <4> QED BY <4>2
    <3> QED BY <3>1, Globals DEF IInv, Typed, TypeOK
  <2>2. AtRest => /\ indent = 0 /\ saveIndent = 0 /\ ~inside /\ later = <<>>
                  /\ embedded = 0 /\ printing = 0 /\ stdout = 0
    BY AtRestLevel DEF AtRest, IInv
  <2> QED BY <2>1, <2>2 DEF NothingLeaks
<1> QED BY <1>1, EmitterInvariant, PTL

\* OUTDENT asserts that there is a level to leave: it never fails, not in the
\* buffer of a function either, and not after any number of elif.
OutdentAllowed == On("outdent") => indent > 0

THEOREM OutdentNeverFails == Spec => []OutdentAllowed
<1>1. IInv => OutdentAllowed
  <2> SUFFICES ASSUME IInv, On("outdent") PROVE indent > 0
    BY DEF OutdentAllowed
  <2>1. ops # <<>> /\ Head(ops).op = "outdent"
    BY DEF On
  <2>2. PICK q \in BOOLEAN : /\ Now(q) \in Level
                             /\ Walk(Tail(ops), Effect(Head(ops), Now(q)), Rest)
    BY <2>1, Opened DEF IInv
  <2>3. [Now(q) EXCEPT !.indent = @ - 1] \in Level
    BY <2>1, <2>2, WalkLevels DEF Effect
  <2>4. Now(q).indent - 1 \in Nat /\ Now(q).indent = indent /\ indent \in Nat
    BY <2>2, <2>3 DEF Level, Now
  <2> QED BY <2>4
<1> QED BY <1>1, EmitterInvariant, PTL

\* Only servicing the queue ends the wait of the functions in it.
LEMMA QueueServiced ==
  ASSUME NEW s, NEW a, NEW b, Walk(s, a, b), a.queue, ~b.queue
  PROVE  \E i \in DOMAIN s : s[i].op = "service queue"
<1>1. SUFFICES ASSUME \A i \in DOMAIN s : s[i].op # "service queue" PROVE FALSE
  OBVIOUS
<1>2. Len(s) \in Nat /\ DOMAIN s = 1..Len(s)
  BY DEF Walk
<1>3. PICK f \in [1..(Len(s) + 1) -> Level] :
        /\ f[1] = a /\ f[Len(s) + 1] = b
        /\ \A i \in 1..Len(s) : Takes(s[i], f[i], f[i + 1])
  BY DEF Walk
<1> DEFINE S == {n \in Nat : n < Len(s) + 1 => f[n + 1].queue}
<1>4. ASSUME NEW n \in Nat, n < Len(s) + 1 => f[n + 1].queue, n + 1 < Len(s) + 1
      PROVE  f[(n + 1) + 1].queue
  <2>1. n + 1 \in 1..Len(s) /\ f[n + 1].queue
    BY <1>2, <1>4
  <2>2. Takes(s[n + 1], f[n + 1], f[(n + 1) + 1])
    BY <1>3, <2>1, Zenon
  <2>3. s[n + 1].op # "service queue"
    BY <1>1, <1>2, <2>1
  <2>4. f[n + 1] \in Level
    BY <1>2, <1>4
  <2>5. Effect(s[n + 1], f[n + 1]).queue
    BY <2>1, <2>3, <2>4 DEF Effect, Level
  <2> QED BY <2>2, <2>5 DEF Takes
<1>5. S = Nat
  <2>1. S \in SUBSET Nat /\ 0 \in S
    BY <1>3
  <2>2. ASSUME NEW n \in S PROVE n + 1 \in S
    <3>1. n \in Nat /\ (n < Len(s) + 1 => f[n + 1].queue)
      OBVIOUS
    <3>2. n + 1 < Len(s) + 1 => f[(n + 1) + 1].queue
      BY <3>1, <1>4
    <3> QED BY <3>1, <3>2
  <2> HIDE DEF S
  <2> QED BY <2>1, <2>2, NaturalsClosed
<1>6. Len(s) \in S
  BY <1>2, <1>5
<1>7. f[Len(s) + 1].queue
  BY <1>2, <1>6
<1> QED BY <1>3, <1>7

\* One buffer for functions: swap_buffers is called for a definition only when
\* no other definition is being printed, and the queue is serviced, again, only
\* when that one is complete.  The second call of swap_buffers follows the first,
\* and no function that waits in the queue is forgotten.
BuffersAlternate ==
  /\ On("print function") \/ On("service queue") => ~inside
  /\ On("end function") => inside
  /\ later # <<>> => \E i \in DOMAIN ops : ops[i].op = "service queue"

THEOREM OneFunctionAtATime == Spec => []BuffersAlternate
<1>1. IInv => BuffersAlternate
  <2> SUFFICES ASSUME IInv PROVE BuffersAlternate
    OBVIOUS
  <2>1. ASSUME ops # <<>>
        PROVE  /\ Head(ops).op \in {"print function", "service queue"} => ~inside
               /\ Head(ops).op = "end function" => inside
    <3>1. PICK q \in BOOLEAN : Allowed(Head(ops), Now(q))
      BY <2>1, Opened DEF IInv
    <3>2. Now(q).inside = inside
      BY DEF Now
    <3> QED BY <3>1, <3>2 DEF Allowed
  <2>2. On("print function") \/ On("service queue") => ~inside
    BY <2>1 DEF On
  <2>3. On("end function") => inside
    BY <2>1 DEF On
  <2>4. ASSUME later # <<>> PROVE \E i \in DOMAIN ops : ops[i].op = "service queue"
    <3>1. Walk(ops, Now(TRUE), Rest)
      BY <2>4 DEF IInv, Balanced
    <3>2. Now(TRUE).queue /\ ~Rest.queue
      BY DEF Now, Rest
    <3> QED BY <3>1, <3>2, QueueServiced
  <2> QED BY <2>2, <2>3, <2>4 DEF BuffersAlternate
<1> QED BY <1>1, EmitterInvariant, PTL
================================================================================
