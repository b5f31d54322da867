----------------------------- MODULE SessionProofs -----------------------------
(***************************************************************************)
(* Proofs about Session: what an output holds does not depend on the other *)
(* scripts of the run, and a script that stops the program costs no other  *)
(* output, for every list of arguments and all texts.                      *)
(***************************************************************************)
EXTENDS Session, Integers, SequenceTheorems, WellFoundedInduction, TLAPS

-------------------------------------------------------------------------------
(***************************************************************************)
(* Induction over numbers: a closed set of naturals is Nat, because what   *)
(* it lacks would have a least member.                                     *)
(***************************************************************************)
LEMMA LeastNatural ==
  ASSUME NEW T \in SUBSET Nat, T # {}
  PROVE  \E n \in T : \A m \in T : n <= m
<1> DEFINE R == OpToRel(<, Nat)
<1>1. IsWellFoundedOn(R, Nat)
  BY NatLessThanWellFounded
<1>2. \A x, y \in Nat : (<<x, y>> \in R) <=> x < y
  BY DEF OpToRel
<1> HIDE DEF R
<1>3. PICK n \in T : \A m \in T : ~(<<m, n>> \in R)
  BY <1>1, WFMin
<1>4. ASSUME NEW m \in T PROVE n <= m
  <2>1. m \in Nat /\ n \in Nat
    OBVIOUS
  <2>2. ~(m < n)
    BY <1>2, <1>3, <2>1
  <2> QED BY ONLY <2>1, <2>2
<1> QED BY <1>4

LEMMA NaturalsClosed ==
  ASSUME NEW S \in SUBSET Nat, 0 \in S, \A n \in S : n + 1 \in S
  PROVE  S = Nat
<1> DEFINE T == Nat \ S
<1>1. SUFFICES ASSUME T # {} PROVE FALSE
  OBVIOUS
<1>2. PICK n \in T : \A m \in T : n <= m
  BY <1>1, LeastNatural
<1>3. n - 1 \in Nat /\ n - 1 \in S
  BY <1>2
<1> QED BY <1>3

LEMMA SequenceOf ==
  ASSUME NEW T, NEW n \in Nat, NEW f \in [1..n -> T]
  PROVE  f \in Seq(T)
OBVIOUS

-------------------------------------------------------------------------------
(***************************************************************************)
(* FlattenSeq is defined by recursion over the places of the sequence.     *)
(***************************************************************************)
\* The function that FlattenSeq is defined by exists.
Flattens(f, s, n) == f = [i \in 1..n |-> IF i = 1 THEN s[i] ELSE f[i - 1] \o s[i]]

LEMMA FlatteningExists ==
  ASSUME NEW s
  PROVE  \A n \in Nat : \E f : Flattens(f, s, n)
<1> DEFINE S == {n \in Nat : \E f : Flattens(f, s, n)}
<1>1. 0 \in S
  <2>1. Flattens(<<>>, s, 0)
    BY DEF Flattens
  <2> QED BY <2>1
<1>2. ASSUME NEW n \in S PROVE n + 1 \in S
  <2>1. n \in Nat /\ \E f : Flattens(f, s, n)
    OBVIOUS
  <2>2. PICK f : Flattens(f, s, n)
    BY <2>1
  <2> HIDE DEF S
  <2> DEFINE last == IF n = 0 THEN s[n + 1] ELSE f[n] \o s[n + 1]
             g == [i \in 1..(n + 1) |-> IF i = n + 1 THEN last ELSE f[i]]
  <2>3. \A i \in 1..n : f[i] = IF i = 1 THEN s[i] ELSE f[i - 1] \o s[i]
    BY <2>2 DEF Flattens
  <2>4. ASSUME NEW i \in 1..(n + 1)
        PROVE  g[i] = IF i = 1 THEN s[i] ELSE g[i - 1] \o s[i]
    <3> HIDE DEF last
    <3>1. CASE i = n + 1 /\ n = 0
      BY <3>1 DEF last
    <3>2. CASE i = n + 1 /\ n # 0
      <4>1. n \in 1..(n + 1) /\ n # n + 1 /\ i - 1 = n /\ i # 1
        BY <2>1, <3>2
      <4>2. g[i] = last /\ g[n] = f[n]
        BY <4>1, <3>2
      <4> QED BY <3>2, <4>1, <4>2 DEF last
    <3>3. CASE i # n + 1
      <4>1. i \in 1..n /\ (i # 1 => i - 1 \in 1..(n + 1) /\ i - 1 # n + 1)
        BY <2>1, <3>3
      <4>2. g[i] = f[i] /\ (i # 1 => g[i - 1] = f[i - 1])
        BY <3>3, <4>1
      <4> QED BY <2>3, <4>1, <4>2
    <3> QED BY <3>1, <3>2, <3>3
  <2>5. g = [i \in 1..(n + 1) |-> IF i = 1 THEN s[i] ELSE g[i - 1] \o s[i]]
    <3>1. g = [i \in 1..(n + 1) |-> g[i]]
      OBVIOUS
    <3> HIDE DEF g
    <3> QED BY <3>1, <2>4
  <2> HIDE DEF g
  <2>6. Flattens(g, s, n + 1)
    BY <2>5 DEF Flattens
  <2> QED BY <2>1, <2>6 DEF S
<1> HIDE DEF S
<1>3. S = Nat
  BY <1>1, <1>2, NaturalsClosed DEF S
<1> QED BY <1>3 DEF S

\* FlattenSeq joins one part after the other.
LEMMA FlattenSteps ==
  ASSUME NEW s, Len(s) \in Nat \ {0}
  PROVE  \E f : /\ f[1] = s[1]
                /\ \A i \in 2..Len(s) : f[i] = f[i - 1] \o s[i]
                /\ FlattenSeq(s) = f[Len(s)]
<1> DEFINE f == CHOOSE f : Flattens(f, s, Len(s))
<1>1. Flattens(f, s, Len(s))
  BY FlatteningExists
<1>2. FlattenSeq(s) = f[Len(s)]
  BY DEF FlattenSeq, Flattens
<1> HIDE DEF f
<1>3. \A i \in 1..Len(s) : f[i] = IF i = 1 THEN s[i] ELSE f[i - 1] \o s[i]
  BY <1>1 DEF Flattens
<1>4. f[1] = s[1]
  BY <1>3
<1>5. ASSUME NEW i \in 2..Len(s) PROVE f[i] = f[i - 1] \o s[i]
  <2>1. i \in 1..Len(s) /\ i # 1
    OBVIOUS
  <2> QED BY <1>3, <2>1
<1> QED BY <1>2, <1>4, <1>5

LEMMA FlattenEmpty == FlattenSeq(<<>>) = <<>>
BY DEF FlattenSeq

LEMMA FlattenType ==
  ASSUME NEW T, NEW s \in Seq(Seq(T))
  PROVE  FlattenSeq(s) \in Seq(T)
<1>1. CASE s = <<>>
  <2>1. FlattenSeq(s) = <<>>
    BY <1>1, FlattenEmpty
  <2> QED BY <2>1
<1>2. CASE s # <<>>
  <2>1. Len(s) \in Nat \ {0} /\ \A i \in 1..Len(s) : s[i] \in Seq(T)
    BY <1>2
  <2>2. PICK f : /\ f[1] = s[1]
                 /\ \A i \in 2..Len(s) : f[i] = f[i - 1] \o s[i]
                 /\ FlattenSeq(s) = f[Len(s)]
    BY <2>1, FlattenSteps
  <2> DEFINE S == {n \in Nat : n \in 1..Len(s) => f[n] \in Seq(T)}
  <2>3. ASSUME NEW n \in Nat, n \in 1..Len(s) => f[n] \in Seq(T), n + 1 \in 1..Len(s)
        PROVE  f[n + 1] \in Seq(T)
    <3>1. CASE n = 0
      BY <3>1, <2>1, <2>2
    <3>2. CASE n # 0
      <4>1. n \in 1..Len(s) /\ n + 1 \in 2..Len(s) /\ (n + 1) - 1 = n
        BY <3>2, <2>1, <2>3
      <4>2. f[n] \in Seq(T) /\ s[n + 1] \in Seq(T)
        BY <4>1, <2>1, <2>3
      <4>3. f[n + 1] = f[n] \o s[n + 1]
        BY <4>1, <2>2
      <4> QED BY <4>2, <4>3
    <3> QED BY <3>1, <3>2
  <2>4. S = Nat
    <3>1. S \in SUBSET Nat /\ 0 \in S
      OBVIOUS
    <3>2. ASSUME NEW n \in S PROVE n + 1 \in S
      <4>1. n \in Nat /\ (n \in 1..Len(s) => f[n] \in Seq(T))
        OBVIOUS
      <4>2. n + 1 \in 1..Len(s) => f[n + 1] \in Seq(T)
        BY <4>1, <2>3
      <4> QED BY <4>1, <4>2
    <3> HIDE DEF S
    <3> QED BY <3>1, <3>2, NaturalsClosed
  <2>5. Len(s) \in S
    BY <2>1, <2>4
  <2> QED BY <2>1, <2>2, <2>5
<1> QED BY <1>1, <1>2

-------------------------------------------------------------------------------
(***************************************************************************)
(* The inductive invariant                                                 *)
(***************************************************************************)
CommandsOf(i) == Commands(Text(i))

\* A global that is not as in a fresh start was changed by an earlier script.
Carried(f, i) == f \in DOMAIN Lasting /\ Lasting[f] \in Before(i)
Carries(i) == \A f \in DOMAIN Fresh : carried[f] = 0 \/ Carried(f, i)

\* The text that the loop has at hand when it looks at the argument script.
FirstText == IF FirstScript <= Argc THEN texts[argv[FirstScript]] ELSE <<>>
AtHand ==
  \/ (\A j \in 1..(script - 1) : IsFlag(j)) /\ input = FirstText
  \/ /\ script \in 2..Argc /\ ~IsFlag(script - 1)
     /\ argv[script] \in DOMAIN texts /\ input = texts[argv[script]]

OutputAt(i) == OutputOf[argv[i]]
IsWhole(i) == files[OutputAt(i)].state = "whole"

Types ==
  /\ argv \in CommandLines /\ texts \in Texts
  /\ script \in 1..(Argc + 1) /\ phase \in {"open", "loop", "read", "close", "exit"}
  /\ status \in {None, "done", "not found", "no output", "fatal", "abort"}
  /\ (phase = "exit") = (status # None)
  /\ source \in DOMAIN texts \union {None}
  /\ input \in Seq(Seq(STRING)) /\ line \in Seq(STRING)
  /\ EOF_Reached \in BOOLEAN /\ uses \in BOOLEAN
  /\ output \in Seq([cmd : STRING, by : Nat])
  /\ carried \in [DOMAIN Fresh -> Nat]
  /\ files \in [Outputs -> [state : {"absent", "empty", "header", "whole"},
                            lines : Seq([cmd : STRING, by : Nat]), uses : BOOLEAN]]

OpenInv ==
  phase = "open" =>
    /\ script = 1 /\ carried = Fresh /\ output = <<>> /\ line = <<>> /\ ~EOF_Reached
    /\ input = <<>> /\ \A o \in Outputs : files[o].state = "absent"

LoopInv ==
  phase = "loop" =>
    /\ Started /\ AtHand /\ Carries(script)
    /\ output = <<>> /\ line = <<>> /\ ~EOF_Reached

AtScript == Started /\ script \in 1..Argc /\ ~IsFlag(script)

\* As much of the text has been printed as was read, each command by the globals
\* of a fresh start or by what an earlier script has left.
WhatIsRead ==
  LET commands == CommandsOf(script)
      n == Len(output)
  IN  /\ n <= Len(commands)
      /\ EOF_Reached => n = Len(commands)
      /\ ~EOF_Reached =>
           FlattenSeq(Text(script)) = SubSeq(commands, 1, n) \o (line \o FlattenSeq(input))

AsAlone(k) ==
  LET alone == Alone(Text(script))
  IN  \/ output[k] = alone[k]
      \/ output[k].cmd = alone[k].cmd /\ Inherits(CommandsOf(script)[k], script)

WhatIsPrinted ==
  /\ \A k \in 1..Len(output) : AsAlone(k)
  /\ uses = \E k \in 1..Len(output) : Uses(CommandsOf(script)[k])

WhatIsLeft ==
  \A f \in DOMAIN Fresh :
    carried[f] = GlobalsAfter(CommandsOf(script))[Len(output)][f] \/ Carried(f, script)

ReadInv ==
  phase = "read" => AtScript /\ WhatIsRead /\ WhatIsPrinted /\ WhatIsLeft

CloseInv ==
  phase = "close" => AtScript /\ Carries(script + 1) /\ output = <<>>

Busy == phase = "read" \/ status \in Stopped

\* A whole output holds the last script of its name, and there is one of every
\* script that the loop has left behind.
LastFor(o, i) ==
  /\ i \in 1..Argc /\ IsClosed(i) /\ OutputAt(i) = o
  /\ \A j \in 1..Argc : IsClosed(j) /\ OutputAt(j) = o => j <= i

FilesInv ==
  /\ \A o \in Outputs : files[o].state = "whole" =>
       o \notin Unwritable /\ \E i \in 1..Argc : LastFor(o, i) /\ HoldsTranslation(files[o], i)
  /\ Busy => AtScript /\ files[OutputAt(script)] = Lost /\ OutputAt(script) \notin Unwritable
  /\ Started => \A i \in 1..Argc : i < script /\ ~IsFlag(i) =>
       IsWhole(i) \/ (Busy /\ OutputAt(i) = OutputAt(script))
  /\ phase = "close" \/ status \in {"done", "not found"} =>
       (AtScript => IsWhole(script))

SInv == Types /\ OpenInv /\ LoopInv /\ ReadInv /\ CloseInv /\ FilesInv

-------------------------------------------------------------------------------
(***************************************************************************)
(* What a command changes                                                  *)
(***************************************************************************)
Globals == [DOMAIN Fresh -> Nat]

LEMMA FieldNames ==
  /\ DOMAIN Fresh = {"names", "functions", "rc", "case", "glob", "regmatch"}
  /\ DOMAIN Lasting = {"names", "rc", "case", "glob", "regmatch"}
  /\ \A c \in DOMAIN Depends : Depends[c] \in DOMAIN Fresh
  /\ \A f \in DOMAIN Fresh : Fresh[f] = 0
BY DEF Fresh, Lasting, Depends

LEMMA FreshGlobals == Fresh \in Globals
BY FieldNames DEF Globals, Fresh

\* Every command leaves numbers, and raises a global only when it is the one that lasts.
LEMMA LeftIn ==
  ASSUME NEW c, NEW g \in Globals
  PROVE  /\ Left(c, g) \in Globals
         /\ \A f \in DOMAIN Fresh : Left(c, g)[f] # 0 =>
              g[f] # 0 \/ f = "functions" \/ c = Lasting[f]
<1> USE FieldNames DEF Globals, Lasting
<1>1. CASE c = "assign"
  BY <1>1 DEF Left
<1>2. CASE c = "function"
  BY <1>2 DEF Left
<1>3. CASE c = "background"
  BY <1>3 DEF Left
<1>4. CASE c = "case"
  BY <1>4 DEF Left
<1>5. CASE c = "substitute"
  BY <1>5 DEF Left
<1>6. CASE c = "pattern"
  BY <1>6 DEF Left
<1>7. CASE c = "match"
  BY <1>7 DEF Left
<1>8. CASE c = "subscript"
  BY <1>8 DEF Left
<1>9. CASE c \notin {"assign", "function", "background", "case", "substitute", "pattern",
                     "match", "subscript"}
  BY <1>9 DEF Left
<1> QED BY <1>1, <1>2, <1>3, <1>4, <1>5, <1>6, <1>7, <1>8, <1>9

\* A global that is the same before a command is the same after it.
LEMMA LeftAlike ==
  ASSUME NEW c, NEW g \in Globals, NEW h \in Globals, NEW f \in DOMAIN Fresh, g[f] = h[f]
  PROVE  Left(c, g)[f] = Left(c, h)[f]
<1> USE FieldNames DEF Globals
<1>1. CASE c = "assign"
  BY <1>1 DEF Left
<1>2. CASE c = "function"
  BY <1>2 DEF Left
<1>3. CASE c = "background"
  BY <1>3 DEF Left
<1>4. CASE c = "case"
  BY <1>4 DEF Left
<1>5. CASE c = "substitute"
  BY <1>5 DEF Left
<1>6. CASE c = "pattern"
  BY <1>6 DEF Left
<1>7. CASE c = "match"
  BY <1>7 DEF Left
<1>8. CASE c = "subscript"
  BY <1>8 DEF Left
<1>9. CASE c \notin {"assign", "function", "background", "case", "substitute", "pattern",
                     "match", "subscript"}
  BY <1>9 DEF Left
<1> QED BY <1>1, <1>2, <1>3, <1>4, <1>5, <1>6, <1>7, <1>8, <1>9

\* What a command prints by is a number.
LEMMA PrintedIn ==
  ASSUME NEW c \in STRING, NEW g \in Globals
  PROVE  Printed(c, g) \in [cmd : STRING, by : Nat]
BY FieldNames DEF Printed, Globals

-------------------------------------------------------------------------------
(***************************************************************************)
(* The globals after some commands                                         *)
(***************************************************************************)
Changes(f, commands, n) ==
  f = [k \in 0..n |-> IF k = 0 THEN Fresh ELSE Left(commands[k], f[k - 1])]

LEMMA ChangesExist ==
  ASSUME NEW commands
  PROVE  \A n \in Nat : \E f : Changes(f, commands, n)
<1> DEFINE S == {n \in Nat : \E f : Changes(f, commands, n)}
<1>1. 0 \in S
  <2>1. Changes([k \in 0..0 |-> Fresh], commands, 0)
    BY DEF Changes
  <2> QED BY <2>1
<1>2. ASSUME NEW n \in S PROVE n + 1 \in S
  <2>1. n \in Nat /\ \E f : Changes(f, commands, n)
    OBVIOUS
  <2>2. PICK f : Changes(f, commands, n)
    BY <2>1
  <2> HIDE DEF S
  <2> DEFINE g == [k \in 0..(n + 1) |-> IF k = n + 1 THEN Left(commands[n + 1], f[n]) ELSE f[k]]
  <2>3. \A k \in 0..n : f[k] = IF k = 0 THEN Fresh ELSE Left(commands[k], f[k - 1])
    BY <2>2 DEF Changes
  <2>4. ASSUME NEW k \in 0..(n + 1)
        PROVE  g[k] = IF k = 0 THEN Fresh ELSE Left(commands[k], g[k - 1])
    <3>1. CASE k = n + 1
      <4>1. k # 0 /\ k - 1 = n /\ n \in 0..(n + 1) /\ n # n + 1
        BY <2>1, <3>1
      <4>2. g[n] = f[n] /\ g[n + 1] = Left(commands[n + 1], f[n])
        BY <2>1, <4>1
      <4> QED BY <3>1, <4>1, <4>2
    <3>2. CASE k # n + 1
      <4>1. k \in 0..n /\ (k # 0 => k - 1 \in 0..(n + 1) /\ k - 1 # n + 1)
        BY <2>1, <3>2
      <4>2. g[k] = f[k] /\ (k # 0 => g[k - 1] = f[k - 1])
        BY <3>2, <4>1
      <4> QED BY <2>3, <4>1, <4>2
    <3> QED BY <3>1, <3>2
  <2>5. g = [k \in 0..(n + 1) |-> IF k = 0 THEN Fresh ELSE Left(commands[k], g[k - 1])]
    <3>1. g = [k \in 0..(n + 1) |-> g[k]]
      OBVIOUS
    <3> HIDE DEF g
    <3> QED BY <3>1, <2>4
  <2> HIDE DEF g
  <2>6. Changes(g, commands, n + 1)
    BY <2>5 DEF Changes
  <2> QED BY <2>1, <2>6 DEF S
<1> HIDE DEF S
<1>3. S = Nat
  <2>1. S \in SUBSET Nat
    BY DEF S
  <2> QED BY <1>1, <1>2, <2>1, NaturalsClosed
<1> QED BY <1>3 DEF S

\* The first command changes a fresh start, each other one what the one before has left.
LEMMA GlobalsStep ==
  ASSUME NEW T, NEW commands \in Seq(T)
  PROVE  /\ GlobalsAfter(commands)[0] = Fresh
         /\ \A k \in 1..Len(commands) :
              GlobalsAfter(commands)[k] = Left(commands[k], GlobalsAfter(commands)[k - 1])
<1> DEFINE n == Len(commands)
           f == CHOOSE f : Changes(f, commands, n)
<1>0. n \in Nat
  OBVIOUS
<1>1. Changes(f, commands, n)
  BY <1>0, ChangesExist
<1>2. GlobalsAfter(commands) = f
  BY DEF GlobalsAfter, Changes
<1> HIDE DEF f
<1>3. \A k \in 0..n : f[k] = IF k = 0 THEN Fresh ELSE Left(commands[k], f[k - 1])
  BY <1>1 DEF Changes
<1>4. f[0] = Fresh
  BY <1>0, <1>3
<1>5. ASSUME NEW k \in 1..n PROVE f[k] = Left(commands[k], f[k - 1])
  <2>1. k \in 0..n /\ k # 0
    BY <1>0
  <2> QED BY <1>3, <2>1
<1> QED BY <1>2, <1>4, <1>5

\* They are numbers, and those that last are raised by the command that raises them.
LEMMA GlobalsIn ==
  ASSUME NEW T, NEW commands \in Seq(T), NEW n \in 0..Len(commands)
  PROVE  /\ GlobalsAfter(commands)[n] \in Globals
         /\ \A f \in DOMAIN Fresh : GlobalsAfter(commands)[n][f] # 0 =>
              f = "functions" \/ \E k \in 1..n : commands[k] = Lasting[f]
<1> DEFINE Raised(m) == \A f \in DOMAIN Fresh : GlobalsAfter(commands)[m][f] # 0 =>
              f = "functions" \/ \E k \in 1..m : commands[k] = Lasting[f]
           Good(m) == GlobalsAfter(commands)[m] \in Globals /\ Raised(m)
           S == {m \in Nat : m <= Len(commands) => Good(m)}
<1>0. Len(commands) \in Nat
  OBVIOUS
<1>1. 0 \in S
  BY GlobalsStep, FreshGlobals, FieldNames
<1>2. ASSUME NEW m \in S PROVE m + 1 \in S
  <2>1. m \in Nat /\ (m <= Len(commands) => Good(m))
    OBVIOUS
  <2> HIDE DEF S
  <2>2. SUFFICES ASSUME m + 1 <= Len(commands) PROVE Good(m + 1)
    BY <2>1 DEF S
  <2>3. GlobalsAfter(commands)[m] \in Globals /\ Raised(m)
    BY <1>0, <2>1, <2>2
  <2>4. m + 1 \in 1..Len(commands) /\ (m + 1) - 1 = m
    BY <1>0, <2>1, <2>2
  <2>5. GlobalsAfter(commands)[m + 1] = Left(commands[m + 1], GlobalsAfter(commands)[m])
    BY <2>4, GlobalsStep
  <2>6. GlobalsAfter(commands)[m + 1] \in Globals
    BY <2>3, <2>5, LeftIn
  <2>7. ASSUME NEW f \in DOMAIN Fresh, GlobalsAfter(commands)[m + 1][f] # 0
        PROVE  f = "functions" \/ \E k \in 1..(m + 1) : commands[k] = Lasting[f]
    <3>1. GlobalsAfter(commands)[m][f] # 0 \/ f = "functions" \/ commands[m + 1] = Lasting[f]
      BY <2>3, <2>5, <2>7, LeftIn
    <3>2. CASE GlobalsAfter(commands)[m][f] # 0
      <4>1. f = "functions" \/ \E k \in 1..m : commands[k] = Lasting[f]
        BY <2>3, <3>2
      <4>2. 1..m \subseteq 1..(m + 1)
        BY <2>1
      <4> QED BY <4>1, <4>2
    <3>3. m + 1 \in 1..(m + 1)
      BY <2>1
    <3> QED BY <3>1, <3>2, <3>3
  <2> QED BY <2>6, <2>7
<1>3. S = Nat
  <2>1. S \in SUBSET Nat
    OBVIOUS
  <2> HIDE DEF S
  <2> QED BY <1>1, <1>2, <2>1, NaturalsClosed
<1>4. n \in Nat /\ n <= Len(commands)
  BY <1>0
<1>5. n \in S
  BY <1>3, <1>4
<1> QED BY <1>4, <1>5

-------------------------------------------------------------------------------
(***************************************************************************)
(* The commands of a text                                                  *)
(***************************************************************************)
\* The first line comes first.
LEMMA FlattenHead ==
  ASSUME NEW T, NEW s \in Seq(Seq(T)), s # <<>>
  PROVE  FlattenSeq(s) = Head(s) \o FlattenSeq(Tail(s))
<1> DEFINE t == Tail(s)
<1>1. /\ t \in Seq(Seq(T)) /\ Len(s) \in Nat \ {0} /\ Len(t) = Len(s) - 1
      /\ Head(s) = s[1] /\ s[1] \in Seq(T)
      /\ \A i \in 1..Len(t) : t[i] = s[i + 1] /\ t[i] \in Seq(T)
  OBVIOUS
<1> HIDE DEF t
<1>2. PICK f : /\ f[1] = s[1]
               /\ \A i \in 2..Len(s) : f[i] = f[i - 1] \o s[i]
               /\ FlattenSeq(s) = f[Len(s)]
  BY <1>1, FlattenSteps
<1>3. CASE t = <<>>
  <2>1. Len(s) = 1 /\ FlattenSeq(t) = <<>>
    <3>1. Len(t) = 0
      BY <1>3
    <3>2. Len(s) = 1
      BY <1>1, <3>1
    <3> QED BY <1>3, <3>2, FlattenEmpty
  <2>2. FlattenSeq(s) = s[1] /\ s[1] \o <<>> = s[1]
    BY <1>1, <1>2, <2>1, ConcatEmptySeq
  <2> QED BY <1>1, <2>1, <2>2 DEF t
<1>4. CASE t # <<>>
  <2>1. Len(t) \in Nat \ {0}
    BY <1>1, <1>4, EmptySeq
  <2>2. PICK g : /\ g[1] = t[1]
                 /\ \A i \in 2..Len(t) : g[i] = g[i - 1] \o t[i]
                 /\ FlattenSeq(t) = g[Len(t)]
    BY <2>1, FlattenSteps
  <2> DEFINE Joined(i) == g[i] \in Seq(T) /\ f[i + 1] = s[1] \o g[i]
             S == {i \in Nat : i \in 1..Len(t) => Joined(i)}
  <2>3. ASSUME NEW i \in Nat, i \in 1..Len(t) => Joined(i), i + 1 \in 1..Len(t)
        PROVE  Joined(i + 1)
    <3>1. CASE i = 0
      <4>1. 2 \in 2..Len(s) /\ 2 - 1 = 1 /\ t[1] = s[2] /\ t[1] \in Seq(T)
        BY <1>1, <2>1, <3>1, <2>3
      <4>2. f[2] = f[1] \o s[2]
        BY <1>2, <4>1
      <4>3. g[1] \in Seq(T) /\ f[2] = s[1] \o g[1]
        BY <1>1, <1>2, <2>2, <4>1, <4>2
      <4>4. i + 1 = 1 /\ 1 + 1 = 2
        BY <3>1
      <4> QED BY <4>3, <4>4
    <3>2. CASE i # 0
      <4>1. /\ i \in 1..Len(t) /\ i + 1 \in 2..Len(t) /\ i + 2 \in 2..Len(s)
            /\ (i + 1) - 1 = i /\ (i + 2) - 1 = i + 1 /\ (i + 1) + 1 = i + 2
        BY <1>1, <2>1, <2>3, <3>2
      <4>2. g[i + 1] = g[i] \o t[i + 1] /\ f[i + 2] = f[i + 1] \o s[i + 2]
        BY <1>2, <2>2, <4>1
      <4>3. t[i + 1] = s[i + 2] /\ t[i + 1] \in Seq(T) /\ Joined(i)
        BY <1>1, <2>3, <4>1
      <4>4. (s[1] \o g[i]) \o t[i + 1] = s[1] \o (g[i] \o t[i + 1])
        <5>1. s[1] \in Seq(T) /\ g[i] \in Seq(T) /\ t[i + 1] \in Seq(T)
          BY <1>1, <4>3
        <5>2. \A a, b, c \in Seq(T) : (a \o b) \o c = a \o (b \o c)
          <6> TAKE a, b, c \in Seq(T)
          <6> QED BY ONLY a \in Seq(T), b \in Seq(T), c \in Seq(T)
        <5> QED BY ONLY <5>1, <5>2
      <4>5. g[i] \o t[i + 1] \in Seq(T)
        BY <4>3
      <4> QED BY <4>1, <4>2, <4>3, <4>4, <4>5
    <3> QED BY <3>1, <3>2
  <2>4. S = Nat
    <3>1. S \in SUBSET Nat /\ 0 \in S
      <4>1. 0 \notin 1..Len(t)
        BY <2>1
      <4> HIDE DEF Joined
      <4> QED BY <4>1
    <3>2. ASSUME NEW i \in S PROVE i + 1 \in S
      <4>1. i \in Nat /\ (i \in 1..Len(t) => Joined(i))
        OBVIOUS
      <4> HIDE DEF Joined
      <4>2. i + 1 \in 1..Len(t) => Joined(i + 1)
        BY <4>1, <2>3
      <4> QED BY <4>1, <4>2
    <3> HIDE DEF S
    <3> QED BY <3>1, <3>2, NaturalsClosed
  <2>5. Joined(Len(t))
    <3>1. Len(t) \in 1..Len(t) /\ Len(t) \in Nat
      BY <2>1
    <3> HIDE DEF Joined
    <3>2. Len(t) \in {i \in Nat : i \in 1..Len(t) => Joined(i)}
      BY <2>4, <3>1
    <3> QED BY <3>1, <3>2
  <2>6. Len(t) + 1 = Len(s)
    BY <1>1, <2>1 DEF t
  <2>7. FlattenSeq(s) = s[1] \o FlattenSeq(t)
    BY <1>2, <2>2, <2>5, <2>6
  <2> QED BY <1>1, <2>7 DEF t
<1> QED BY <1>3, <1>4

\* The commands are those before the first error.
LEMMA CommandsAre ==
  ASSUME NEW text \in Seq(Seq(STRING))
  PROVE  LET all == FlattenSeq(text)
             m == Len(Commands(text))
         IN  /\ all \in Seq(STRING) /\ Commands(text) \in Seq(STRING)
             /\ m \in Nat /\ m <= Len(all) /\ Len(all) \in Nat
             /\ \A k \in 1..m : Commands(text)[k] = all[k] /\ all[k] # "error"
             /\ m < Len(all) => all[m + 1] = "error"
<1> DEFINE all == FlattenSeq(text)
           errors == {k \in DOMAIN all : all[k] = "error"}
           ends == errors \union {Len(all) + 1}
           First(k) == k \in ends /\ \A e \in errors : k <= e
           first == CHOOSE k \in ends : \A e \in errors : k <= e
<1>1. all \in Seq(STRING)
  BY FlattenType
<1>2. Len(all) \in Nat /\ DOMAIN all = 1..Len(all)
  BY <1>1
<1>3. ends \in SUBSET Nat /\ ends # {}
  BY <1>2
<1>4. PICK least \in ends : \A e \in ends : least <= e
  <2> HIDE DEF ends
  <2> QED BY <1>3, LeastNatural
<1>5. first \in ends /\ \A e \in errors : first <= e
  BY <1>4
<1>6. Commands(text) = SubSeq(all, 1, first - 1)
  BY DEF Commands
<1> HIDE DEF first
<1>7. first \in 1..(Len(all) + 1)
  BY <1>2, <1>5
<1>8. first - 1 \in Nat /\ first - 1 <= Len(all)
  BY <1>2, <1>7
<1> HIDE DEF all
<1>9. /\ SubSeq(all, 1, first - 1) \in Seq(STRING)
      /\ Len(SubSeq(all, 1, first - 1)) = first - 1
      /\ \A k \in 1..(first - 1) : SubSeq(all, 1, first - 1)[k] = all[k]
  BY <1>1, <1>2, <1>8
<1>10. ASSUME NEW k \in 1..(first - 1) PROVE all[k] # "error"
  <2>1. k \in DOMAIN all /\ ~(first <= k)
    BY <1>2, <1>7
  <2> QED BY <1>5, <2>1
<1>11. first - 1 < Len(all) => all[(first - 1) + 1] = "error"
  <2>1. first - 1 < Len(all) => first # Len(all) + 1
    BY <1>2, <1>7
  <2>2. (first - 1) + 1 = first
    BY <1>7
  <2> QED BY <1>5, <2>1, <2>2
<1> QED BY <1>1, <1>2, <1>6, <1>8, <1>9, <1>10, <1>11 DEF all

\* The parser has read the first n commands, and rest of the text is before it.
LEMMA ReadingOn ==
  ASSUME NEW text \in Seq(Seq(STRING)), NEW n \in Nat, n <= Len(Commands(text)),
         NEW rest \in Seq(STRING), FlattenSeq(text) = SubSeq(Commands(text), 1, n) \o rest
  PROVE  /\ rest = <<>> \/ Head(rest) = "error" => n = Len(Commands(text))
         /\ rest # <<>> /\ Head(rest) # "error" =>
              /\ n + 1 <= Len(Commands(text)) /\ Commands(text)[n + 1] = Head(rest)
              /\ FlattenSeq(text) = SubSeq(Commands(text), 1, n + 1) \o Tail(rest)
<1> DEFINE all == FlattenSeq(text)
           cs == Commands(text)
           m == Len(cs)
           before == SubSeq(cs, 1, n)
<1>1. /\ all \in Seq(STRING) /\ cs \in Seq(STRING)
      /\ m \in Nat /\ m <= Len(all) /\ Len(all) \in Nat
      /\ \A k \in 1..m : cs[k] = all[k] /\ all[k] # "error"
      /\ m < Len(all) => all[m + 1] = "error"
  BY CommandsAre
<1>2. all = before \o rest /\ n <= m
  OBVIOUS
<1> HIDE DEF all, cs
<1>3. before \in Seq(STRING) /\ Len(before) = n /\ \A k \in 1..n : before[k] = cs[k]
  BY <1>1, <1>2
<1> HIDE DEF before
<1>4. Len(all) = n + Len(rest) /\ Len(rest) \in Nat
  BY <1>2, <1>3
<1>5. rest = <<>> => n = m
  BY <1>1, <1>2, <1>4
<1>6. rest # <<>> => Len(rest) >= 1 /\ all[n + 1] = Head(rest)
  <2>1. rest # <<>> => Len(rest) >= 1 /\ rest[1] = Head(rest)
    BY <1>4
  <2>2. rest # <<>> => (before \o rest)[n + 1] = rest[1]
    BY <1>3, <1>4, <2>1
  <2> QED BY <1>2, <2>1, <2>2
<1>7. ASSUME rest # <<>>, Head(rest) = "error" PROVE n = m
  <2>1. ~(n + 1 \in 1..m)
    BY <1>1, <1>6, <1>7
  <2> QED BY <1>1, <1>2, <2>1
<1>8. ASSUME rest # <<>>, Head(rest) # "error"
      PROVE  n + 1 <= m /\ cs[n + 1] = Head(rest) /\ all = SubSeq(cs, 1, n + 1) \o Tail(rest)
  <2>1. n + 1 <= Len(all)
    BY <1>1, <1>4, <1>6, <1>8
  <2>2. n # m
    BY <1>1, <1>6, <1>8, <2>1
  <2>3. n + 1 <= m /\ n + 1 \in 1..m
    BY <1>1, <1>2, <2>2
  <2>4. cs[n + 1] = Head(rest)
    BY <1>1, <1>6, <1>8, <2>3
  <2>5. SubSeq(cs, 1, n + 1) = Append(before, cs[n + 1])
    BY <1>1, <2>3 DEF before
  <2>6. Append(before, Head(rest)) \o Tail(rest) = before \o rest
    <3>1. Head(rest) \in STRING /\ Tail(rest) \in Seq(STRING) /\ rest = <<Head(rest)>> \o Tail(rest)
      BY <1>8, HeadTailProperties
    <3>2. <<Head(rest)>> \in Seq(STRING) /\ Append(before, Head(rest)) = before \o <<Head(rest)>>
      BY <1>3, <3>1, AppendIsConcat
    <3>3. (before \o <<Head(rest)>>) \o Tail(rest) = before \o (<<Head(rest)>> \o Tail(rest))
      <4>1. \A a, b, c \in Seq(STRING) : (a \o b) \o c = a \o (b \o c)
        <5> TAKE a, b, c \in Seq(STRING)
        <5> QED BY ONLY a \in Seq(STRING), b \in Seq(STRING), c \in Seq(STRING)
      <4> QED BY <1>3, <3>1, <3>2, <4>1
    <3> QED BY <3>1, <3>2, <3>3
  <2> QED BY <1>2, <2>3, <2>4, <2>5, <2>6
<1> QED BY <1>5, <1>7, <1>8 DEF all, cs

LEMMA AloneIs ==
  ASSUME NEW text \in Seq(Seq(STRING))
  PROVE  /\ Alone(text) \in Seq([cmd : STRING, by : Nat])
         /\ Len(Alone(text)) = Len(Commands(text))
         /\ \A k \in 1..Len(Commands(text)) :
              Alone(text)[k] = Printed(Commands(text)[k], GlobalsAfter(Commands(text))[k - 1])
<1> DEFINE cs == Commands(text)
<1>1. cs \in Seq(STRING) /\ Len(cs) \in Nat /\ DOMAIN cs = 1..Len(cs)
  BY CommandsAre
<1>2. Alone(text) = [k \in 1..Len(cs) |-> Printed(cs[k], GlobalsAfter(cs)[k - 1])]
  BY <1>1 DEF Alone
<1> HIDE DEF cs
<1>3. ASSUME NEW k \in 1..Len(cs)
      PROVE  Printed(cs[k], GlobalsAfter(cs)[k - 1]) \in [cmd : STRING, by : Nat]
  <2>1. k - 1 \in 0..Len(cs) /\ cs[k] \in STRING
    BY <1>1
  <2>2. GlobalsAfter(cs)[k - 1] \in Globals
    BY <1>1, <2>1, GlobalsIn
  <2> QED BY <2>1, <2>2, PrintedIn
<1>4. Alone(text) \in [1..Len(cs) -> [cmd : STRING, by : Nat]]
  BY <1>2, <1>3
<1>5. Alone(text) \in Seq([cmd : STRING, by : Nat]) /\ Len(Alone(text)) = Len(cs)
  <2> DEFINE T == [cmd : STRING, by : Nat]
  <2> HIDE DEF T
  <2>1. Alone(text) \in [1..Len(cs) -> T]
    BY <1>4 DEF T
  <2>2. Alone(text) \in Seq(T)
    BY <1>1, <2>1, SequenceOf
  <2>3. Len(Alone(text)) = Len(cs)
    BY <1>1, <2>1, <2>2
  <2> QED BY <2>2, <2>3 DEF T
<1> QED BY <1>2, <1>5 DEF cs

-------------------------------------------------------------------------------
(***************************************************************************)
(* The arguments                                                           *)
(***************************************************************************)
ArgumentsIn == argv \in CommandLines /\ texts \in Texts

LEMMA ArgumentFacts ==
  ASSUME ArgumentsIn
  PROVE  /\ Argc \in Nat /\ DOMAIN argv = 1..Argc
         /\ \A i \in 1..Argc : argv[i] \in DOMAIN OutputOf /\ OutputAt(i) \in Outputs
         /\ \A name \in DOMAIN texts : /\ name \notin Flags /\ name # None
                                       /\ texts[name] \in Seq(Seq(STRING))
         /\ \A i : argv[i] \in Valued => IsFlag(i)
<1>1. argv \in Seq(DOMAIN OutputOf)
  BY SessionAssumption DEF ArgumentsIn
<1>2. Argc \in Nat /\ DOMAIN argv = 1..Argc /\ \A i \in 1..Argc : argv[i] \in DOMAIN OutputOf
  BY <1>1 DEF Argc
<1>3. \A i \in 1..Argc : OutputAt(i) \in Outputs
  BY <1>2 DEF OutputAt, Outputs
<1>4. \A name \in DOMAIN texts : /\ name \notin Flags /\ name # None
                                 /\ texts[name] \in Seq(Seq(STRING))
  BY SessionAssumption DEF ArgumentsIn
<1>5. \A i : argv[i] \in Valued => IsFlag(i)
  BY SessionAssumption DEF IsFlag
<1> QED BY <1>2, <1>3, <1>4, <1>5

LEMMA NoCommands == <<>> \in Seq(Seq(STRING)) /\ <<>> \in Seq(STRING)
BY EmptySeq

LEMMA TextIn ==
  ASSUME ArgumentsIn, NEW i
  PROVE  Text(i) \in Seq(Seq(STRING))
<1> DEFINE name == IF ~IsValue(i) THEN argv[i] ELSE IF FirstScript > Argc THEN None ELSE argv[FirstScript]
<1>1. Text(i) = IF name \in DOMAIN texts THEN texts[name] ELSE <<>>
  BY DEF Text
<1> HIDE DEF name
<1> QED BY <1>1, ArgumentFacts, NoCommands

\* The first script is the first argument that is no option.
LEMMA FirstScriptIs ==
  ASSUME ArgumentsIn
  PROVE  /\ FirstScript \in 1..(Argc + 1)
         /\ \A j \in 1..(FirstScript - 1) : IsOption(j)
         /\ FirstScript <= Argc => ~IsOption(FirstScript)
<1> DEFINE others == {i \in 1..(Argc + 1) : i <= Argc => ~IsOption(i)}
           First(i) == /\ \A j \in 1..(i - 1) : IsOption(j)
                       /\ i <= Argc => ~IsOption(i)
<1>1. Argc \in Nat
  BY ArgumentFacts
<1>2. Argc + 1 \in others /\ others \in SUBSET Nat
  BY <1>1
<1>3. PICK i \in others : \A m \in others : i <= m
  <2> HIDE DEF others
  <2> QED BY <1>2, LeastNatural
<1>4. ASSUME NEW j \in 1..(i - 1) PROVE IsOption(j)
  <2>1. j \in 1..(Argc + 1) /\ j <= Argc /\ ~(i <= j)
    BY <1>1, <1>3
  <2> QED BY <1>3, <2>1
<1>5. i \in 1..(Argc + 1) /\ First(i)
  BY <1>3, <1>4
<1>6. FirstScript = CHOOSE k \in 1..(Argc + 1) : First(k)
  BY DEF FirstScript
<1> HIDE DEF First
<1>7. FirstScript \in 1..(Argc + 1) /\ First(FirstScript)
  BY <1>5, <1>6
<1> QED BY <1>7 DEF First

\* The text at hand is the one that the argument is to be translated from.
LEMMA TextAtHand ==
  ASSUME ArgumentsIn, Started, AtHand, script \in 1..Argc, ~IsFlag(script)
  PROVE  input = Text(script)
<1>0. Argc \in Nat /\ \A i : argv[i] \in Valued => IsFlag(i)
  BY ArgumentFacts
<1>1. CASE (\A j \in 1..(script - 1) : IsFlag(j)) /\ input = FirstText
  <2>1. CASE IsValue(script)
    <3>1. CASE FirstScript > Argc
      <4>1. None \notin DOMAIN texts /\ ~(FirstScript <= Argc)
        BY <1>0, <3>1, ArgumentFacts, FirstScriptIs
      <4> QED BY <1>1, <2>1, <3>1, <4>1 DEF Text, FirstText
    <3>2. CASE ~(FirstScript > Argc)
      <4>1. FirstScript <= Argc
        BY <1>0, <3>2, FirstScriptIs
      <4> QED BY <1>1, <2>1, <3>2, <4>1 DEF Text, FirstText, Started
    <3> QED BY <3>1, <3>2
  <2>2. CASE ~IsValue(script)
    <3>1. ASSUME NEW j \in 1..(script - 1) PROVE IsOption(j)
      BY <1>0, <1>1 DEF IsOption
    <3>2. ~IsOption(script)
      <4>1. script \in 1..script
        BY <1>0
      <4> QED BY <2>2, <4>1 DEF IsOption, IsValue
    <3>3. FirstScript = script
      <4>1. ~(FirstScript < script)
        BY <1>0, <3>1, FirstScriptIs
      <4>2. ~(script < FirstScript)
        BY <1>0, <3>2, FirstScriptIs
      <4> QED BY <1>0, <4>1, <4>2, FirstScriptIs
    <3>4. FirstScript <= Argc /\ ~(FirstScript > Argc)
      BY <1>0, <3>3
    <3> QED BY <1>1, <2>2, <3>3, <3>4 DEF Text, FirstText, Started
  <2> QED BY <2>1, <2>2
<1>2. CASE /\ script \in 2..Argc /\ ~IsFlag(script - 1)
           /\ argv[script] \in DOMAIN texts /\ input = texts[argv[script]]
  <2>1. ~IsValue(script)
    BY <1>0, <1>2 DEF IsValue
  <2> QED BY <1>2, <2>1 DEF Text
<1> QED BY <1>1, <1>2 DEF AtHand

LEMMA FirstTextIn ==
  ASSUME ArgumentsIn, Started
  PROVE  FirstText \in Seq(Seq(STRING))
<1>1. CASE FirstScript <= Argc
  <2>1. ~(FirstScript > Argc)
    BY <1>1, ArgumentFacts, FirstScriptIs
  <2>2. argv[FirstScript] \in DOMAIN texts
    BY <2>1 DEF Started
  <2> QED BY <1>1, <2>2, ArgumentFacts DEF FirstText
<1>2. CASE ~(FirstScript <= Argc)
  BY <1>2, NoCommands DEF FirstText
<1> QED BY <1>1, <1>2

LEMMA BeforeGrows ==
  ASSUME ArgumentsIn, NEW i \in Nat \ {0}
  PROVE  /\ Before(i) \subseteq Before(i + 1)
         /\ \A k \in 1..Len(CommandsOf(i)) : CommandsOf(i)[k] \in Before(i + 1)
<1>1. 1..(i - 1) \subseteq 1..((i + 1) - 1) /\ i \in 1..((i + 1) - 1)
  OBVIOUS
<1>2. Before(i) \subseteq Before(i + 1)
  BY <1>1 DEF Before
<1>3. ASSUME NEW k \in 1..Len(CommandsOf(i)) PROVE CommandsOf(i)[k] \in Before(i + 1)
  <2> DEFINE all == FlattenSeq(Text(i))
  <2>1. Text(i) \in Seq(Seq(STRING))
    BY TextIn
  <2>2. /\ CommandsOf(i)[k] = all[k] /\ all \in Seq(STRING)
        /\ Len(CommandsOf(i)) \in Nat /\ Len(CommandsOf(i)) <= Len(all)
    BY <1>3, <2>1, CommandsAre DEF CommandsOf
  <2> HIDE DEF all
  <2>3. k \in DOMAIN all
    BY <2>2
  <2>4. all[k] \in ToSet(all)
    BY <2>3 DEF ToSet
  <2>5. ToSet(all) \subseteq Before(i + 1)
    BY <1>1 DEF Before, all
  <2> QED BY <2>2, <2>4, <2>5
<1> QED BY <1>2, <1>3

\* The arguments and the texts stay, and what is defined by them alone.
LEMMA Unmoved ==
  ASSUME UNCHANGED <<argv, texts>>
  PROVE  /\ Argc' = Argc /\ (Started' <=> Started)
         /\ FirstText' = FirstText /\ FirstScript' = FirstScript
         /\ \A i : /\ IsFlag(i)' <=> IsFlag(i)
                   /\ Text(i)' = Text(i) /\ CommandsOf(i)' = CommandsOf(i)
                   /\ OutputAt(i)' = OutputAt(i)
         /\ \A f, i : Carried(f, i)' <=> Carried(f, i)
         /\ \A c, i : Inherits(c, i)' <=> Inherits(c, i)
         /\ \A file, i : HoldsTranslation(file, i)' <=> HoldsTranslation(file, i)
<1>1. Argc' = Argc /\ \A i : IsFlag(i)' <=> IsFlag(i)
  BY DEF Argc, IsFlag
<1>2. FirstScript' = FirstScript
  BY DEF FirstScript, IsOption, IsFlag, Argc
<1>3. Started' <=> Started
  BY <1>1, <1>2 DEF Started
<1>4. FirstText' = FirstText
  BY <1>1, <1>2 DEF FirstText
<1>5. \A i : Text(i)' = Text(i) /\ OutputAt(i)' = OutputAt(i)
  BY <1>1, <1>2 DEF Text, IsValue, OutputAt
<1>6. \A i : CommandsOf(i)' = CommandsOf(i)
  BY <1>5 DEF CommandsOf
<1>7. \A i : Before(i)' = Before(i)
  BY <1>5 DEF Before
<1>8. \A f, i : Carried(f, i)' <=> Carried(f, i)
  BY <1>7 DEF Carried
<1>9. \A c, i : Inherits(c, i)' <=> Inherits(c, i)
  BY <1>7 DEF Inherits
<1>10. \A file, i : HoldsTranslation(file, i)' <=> HoldsTranslation(file, i)
  BY <1>5, <1>9 DEF HoldsTranslation
<1> QED BY <1>1, <1>2, <1>3, <1>4, <1>5, <1>6, <1>8, <1>9, <1>10

-------------------------------------------------------------------------------
(***************************************************************************)
(* Files                                                                   *)
(***************************************************************************)
Entries == [cmd : STRING, by : Nat]
FileSet == [state : {"absent", "empty", "header", "whole"}, lines : Seq(Entries), uses : BOOLEAN]

LEMMA Headers ==
  /\ Header \in FileSet /\ NoFile \in FileSet /\ Empty \in FileSet
  /\ Header.state = "header" /\ NoFile.state = "absent" /\ Empty.state = "empty"
<1>1. <<>> \in Seq(Entries)
  BY EmptySeq
<1>2. NoFile \in FileSet /\ NoFile.state = "absent"
  BY <1>1 DEF NoFile, FileSet
<1>3. Header \in FileSet /\ Header.state = "header"
  BY <1>2 DEF Header, FileSet
<1>4. Empty \in FileSet /\ Empty.state = "empty"
  BY <1>2 DEF Empty, FileSet
<1> QED BY <1>2, <1>3, <1>4

LEMMA LostIs == Lost \in FileSet /\ Lost.state # "whole" /\ (status # "abort" => Lost = Header)
BY Headers DEF Lost

LEMMA Wholes ==
  ASSUME NEW lines \in Seq(Entries), NEW u \in BOOLEAN
  PROVE  /\ Whole(lines, u) \in FileSet /\ Whole(lines, u).state = "whole"
         /\ Whole(lines, u).lines = lines /\ Whole(lines, u).uses = u
BY DEF Whole, FileSet

\* A step that writes no file and does not move on keeps what is said of the files.
LEMMA FilesStay ==
  ASSUME FilesInv, UNCHANGED <<argv, texts, script, phase, status, files>>
  PROVE  FilesInv'
<1>0. UNCHANGED <<argv, texts>>
  OBVIOUS
<1>1. \A i : IsClosed(i)' <=> IsClosed(i)
  BY <1>0, Unmoved DEF IsClosed
<1>2. \A o, i : LastFor(o, i)' <=> LastFor(o, i)
  BY <1>0, <1>1, Unmoved DEF LastFor
<1>3. Argc' = Argc
  BY <1>0, Unmoved DEF Outputs
<1>4. \A i : IsWhole(i)' <=> IsWhole(i)
  BY <1>0, Unmoved DEF IsWhole
<1>5. (Busy' <=> Busy) /\ (AtScript' <=> AtScript)
  BY <1>0, Unmoved DEF Busy, Stopped, AtScript
<1>6. OutputAt(script)' = OutputAt(script)
  BY <1>0, Unmoved
<1>7. \A file, i : HoldsTranslation(file, i)' <=> HoldsTranslation(file, i)
  BY <1>0, Unmoved
<1>8. (\A o \in Outputs : files[o].state = "whole" =>
        o \notin Unwritable /\ \E i \in 1..Argc : LastFor(o, i) /\ HoldsTranslation(files[o], i))'
  BY <1>2, <1>3, <1>7 DEF FilesInv
<1>9. (Busy => AtScript /\ files[OutputAt(script)] = Lost /\ OutputAt(script) \notin Unwritable)'
  BY <1>5, <1>6 DEF FilesInv, Lost
<1>10. (Started => \A i \in 1..Argc : i < script /\ ~IsFlag(i) =>
          IsWhole(i) \/ (Busy /\ OutputAt(i) = OutputAt(script)))'
  BY <1>3, <1>4, <1>5, <1>0, Unmoved DEF FilesInv
<1>11. (phase = "close" \/ status \in {"done", "not found"} => (AtScript => IsWhole(script)))'
  BY <1>4, <1>5 DEF FilesInv
<1> QED BY <1>8, <1>9, <1>10, <1>11 DEF FilesInv

\* The same for a step of the loop: what was closed before it is closed after it.
LEMMA FilesMove ==
  ASSUME FilesInv, Types, UNCHANGED <<argv, texts, files>>, ~Busy, ~Busy',
         \A i \in 1..Argc : OutputAt(i) \notin Unwritable => (IsClosed(i)' <=> IsClosed(i)),
         Started => \A i \in 1..Argc : i < script' /\ ~IsFlag(i) => IsWhole(i),
         (phase = "close" \/ status \in {"done", "not found"} => (AtScript => IsWhole(script)))'
  PROVE  FilesInv'
<1>0. /\ Argc' = Argc /\ (Started' <=> Started)
      /\ \A i : (IsFlag(i)' <=> IsFlag(i)) /\ OutputAt(i)' = OutputAt(i)
      /\ \A file, i : HoldsTranslation(file, i)' <=> HoldsTranslation(file, i)
  BY Unmoved
<1>1. \A i : IsWhole(i)' <=> IsWhole(i)
  BY <1>0 DEF IsWhole
<1>2. ASSUME NEW o \in Outputs, files[o].state = "whole"
      PROVE  o \notin Unwritable /\ \E i \in 1..Argc : LastFor(o, i)' /\ HoldsTranslation(files[o], i)
  <2>1. o \notin Unwritable
    BY <1>2 DEF FilesInv
  <2>2. PICK i \in 1..Argc : LastFor(o, i) /\ HoldsTranslation(files[o], i)
    BY <1>2 DEF FilesInv
  <2>3. LastFor(o, i)'
    BY <1>0, <2>1, <2>2 DEF LastFor
  <2> QED BY <2>1, <2>2, <2>3
<1>3. (\A o \in Outputs : files[o].state = "whole" =>
        o \notin Unwritable /\ \E i \in 1..Argc : LastFor(o, i) /\ HoldsTranslation(files[o], i))'
  <2> SUFFICES ASSUME NEW o \in Outputs, files'[o].state = "whole"
               PROVE  o \notin Unwritable /\ \E i \in 1..Argc' : LastFor(o, i)' /\ HoldsTranslation(files[o], i)'
    BY DEF Outputs
  <2> QED BY <1>0, <1>2
<1>4. (Started => \A i \in 1..Argc : i < script /\ ~IsFlag(i) =>
          IsWhole(i) \/ (Busy /\ OutputAt(i) = OutputAt(script)))'
  BY <1>0, <1>1
<1> QED BY <1>3, <1>4 DEF FilesInv

-------------------------------------------------------------------------------
(***************************************************************************)
(* The steps                                                               *)
(***************************************************************************)
LEMMA InitSInv == Init => SInv
<1> SUFFICES ASSUME Init PROVE SInv
  OBVIOUS
<1>1. /\ argv \in CommandLines /\ texts \in Texts /\ script = 1 /\ phase = "open" /\ status = None
      /\ source = None /\ input = <<>> /\ line = <<>> /\ EOF_Reached = FALSE
      /\ output = <<>> /\ uses = FALSE /\ carried = Fresh /\ files = [o \in Outputs |-> NoFile]
  BY DEF Init
<1>2. Argc \in Nat /\ ArgumentsIn
  BY <1>1, ArgumentFacts DEF ArgumentsIn
<1>3. None \notin {"done", "not found", "no output", "fatal", "abort"}
  BY SessionAssumption
<1>4. \A o \in Outputs : files[o] \in FileSet /\ files[o].state = "absent"
  BY <1>1, Headers
<1>5. Types
  <2>1. <<>> \in Seq(Entries)
    BY EmptySeq
  <2>2. files \in [Outputs -> FileSet]
    BY <1>1, Headers
  <2>3. carried \in [DOMAIN Fresh -> Nat]
    BY <1>1, FreshGlobals DEF Globals
  <2>4. output \in Seq(Entries) /\ input \in Seq(Seq(STRING)) /\ line \in Seq(STRING)
    BY <1>1, <2>1, NoCommands
  <2>5. script \in 1..(Argc + 1)
    BY <1>1, <1>2
  <2> QED BY <1>1, <1>3, <2>2, <2>3, <2>4, <2>5 DEF Types, Entries, FileSet
<1>6. OpenInv
  BY <1>1, <1>4 DEF OpenInv
<1>7. LoopInv /\ ReadInv /\ CloseInv
  BY <1>1 DEF LoopInv, ReadInv, CloseInv
<1>8. FilesInv
  <2>1. ~Busy
    BY <1>1, <1>3 DEF Busy, Stopped
  <2>2. ~(phase = "close" \/ status \in {"done", "not found"})
    BY <1>1, <1>3
  <2>3. \A i \in 1..Argc : ~(i < script)
    BY <1>1
  <2> QED BY <1>4, <2>1, <2>2, <2>3 DEF FilesInv
<1> QED BY <1>5, <1>6, <1>7, <1>8 DEF SInv

LEMMA OpenFirstSInv ==
  ASSUME SInv, OpenFirst
  PROVE  SInv'
<1>1. /\ phase = "open" /\ UNCHANGED <<argv, texts, script, line, EOF_Reached, output, uses, carried, files>>
      /\ \/ FirstScript <= Argc /\ OpenShellScript(argv[FirstScript])
         \/ FirstScript > Argc /\ phase' = "loop" /\ UNCHANGED <<source, input, status>>
  BY DEF OpenFirst, globals
<1>2. Types /\ OpenInv /\ ArgumentsIn
  BY DEF SInv, Types, ArgumentsIn
<1>3. Argc \in Nat /\ FirstScript \in 1..(Argc + 1)
  BY <1>2, ArgumentFacts, FirstScriptIs
<1>4. status = None /\ None \notin {"done", "not found", "no output", "fatal", "abort"}
  BY <1>1, <1>2, SessionAssumption DEF Types
<1>5. \/ phase' = "loop" /\ status' = None /\ Started /\ input' = FirstText /\ source' \in DOMAIN texts \union {None}
      \/ phase' = "exit" /\ status' = "not found" /\ ~Started /\ UNCHANGED <<input, source>>
  <2>1. CASE FirstScript > Argc /\ phase' = "loop" /\ UNCHANGED <<source, input, status>>
    <3>1. ~(FirstScript <= Argc) /\ input = <<>>
      BY <1>1, <1>2, <1>3, <2>1 DEF OpenInv
    <3> QED BY <1>2, <1>4, <2>1, <3>1 DEF Started, FirstText, Types
  <2>2. CASE FirstScript <= Argc /\ OpenShellScript(argv[FirstScript])
    <3>1. ~(FirstScript > Argc)
      BY <1>3, <2>2
    <3> QED BY <1>4, <2>2, <3>1 DEF Started, FirstText, OpenShellScript, Exit
  <2> QED BY <1>1, <2>1, <2>2
<1>6. Types'
  <2>1. FirstText \in Seq(Seq(STRING)) \/ ~Started
    BY <1>2, FirstTextIn
  <2>2. input' \in Seq(Seq(STRING))
    BY <1>2, <1>5, <2>1 DEF Types
  <2>3. Argc' = Argc
    BY <1>1, Unmoved
  <2>4. source' \in DOMAIN texts \union {None}
    BY <1>2, <1>5 DEF Types
  <2>5. (phase' = "exit") = (status' # None) /\ phase' \in {"loop", "exit"} /\ status' \in {None, "not found"}
    BY <1>4, <1>5
  <2> QED BY <1>1, <1>2, <2>2, <2>3, <2>4, <2>5 DEF Types
<1>7. OpenInv' /\ ReadInv' /\ CloseInv'
  BY <1>5 DEF OpenInv, ReadInv, CloseInv
<1>8. LoopInv'
  <2> SUFFICES ASSUME phase' = "loop" PROVE (Started /\ AtHand /\ Carries(script) /\ output = <<>> /\ line = <<>> /\ ~EOF_Reached)'
    BY DEF LoopInv
  <2>1. Started' /\ input' = FirstText' /\ script' = 1
    BY <1>1, <1>2, <1>5, Unmoved DEF OpenInv
  <2>2. AtHand'
    BY <2>1 DEF AtHand
  <2>3. Carries(script)'
    BY <1>1, <1>2, FieldNames DEF Carries, OpenInv
  <2>4. output' = <<>> /\ line' = <<>> /\ ~EOF_Reached'
    BY <1>1, <1>2 DEF OpenInv
  <2> QED BY <2>1, <2>2, <2>3, <2>4
<1>9. FilesInv'
  <2>1. \A o \in Outputs : files[o].state # "whole"
    BY <1>1, <1>2 DEF OpenInv
  <2>2. (Started' <=> Started) /\ script' = 1
    BY <1>1, <1>2, Unmoved DEF OpenInv
  <2>3. ~Busy'
    BY <1>4, <1>5 DEF Busy, Stopped
  <2>4. ~(phase = "close" \/ status \in {"done", "not found"})' \/ ~AtScript'
    BY <1>4, <1>5, <2>2 DEF AtScript
  <2>5. \A i \in 1..Argc' : ~(i < script')
    BY <2>2
  <2> QED BY <1>1, <2>1, <2>2, <2>3, <2>4, <2>5 DEF FilesInv
<1> QED BY <1>6, <1>7, <1>8, <1>9 DEF SInv

LEMMA SkipOptionSInv ==
  ASSUME SInv, SkipOption
  PROVE  SInv'
<1>1. /\ phase = "loop" /\ script <= Argc /\ IsFlag(script) /\ script' = script + 1
      /\ UNCHANGED <<argv, texts, phase, status, source, input, line, EOF_Reached, output, uses, carried, files>>
  BY DEF SkipOption, inputs, globals
<1>2. Types /\ LoopInv /\ FilesInv /\ ArgumentsIn
  BY DEF SInv, Types, ArgumentsIn
<1>3. Argc \in Nat /\ script \in 1..Argc /\ Argc' = Argc
  <2>1. Argc \in Nat /\ Argc' = Argc
    BY <1>1, <1>2, ArgumentFacts, Unmoved
  <2>2. script \in 1..(Argc + 1)
    BY <1>2 DEF Types
  <2> QED BY <1>1, <2>1, <2>2
<1>4. status = None /\ None \notin {"done", "not found", "no output", "fatal", "abort"}
  BY <1>1, <1>2, SessionAssumption DEF Types
<1>5. Types'
  <2>1. script' \in 1..(Argc + 1)
    BY <1>1, <1>3
  <2> QED BY <1>1, <1>2, <1>3, <2>1 DEF Types
<1>6. OpenInv' /\ ReadInv' /\ CloseInv'
  BY <1>1 DEF OpenInv, ReadInv, CloseInv
<1>7. Started /\ (\A j \in 1..(script - 1) : IsFlag(j)) /\ input = FirstText
  <2>1. ~(argv[script] \in DOMAIN texts)
    BY <1>1, <1>2, ArgumentFacts DEF IsFlag
  <2> QED BY <1>1, <1>2, <2>1 DEF LoopInv, AtHand
<1>8. LoopInv'
  <2>1. \A j \in 1..(script' - 1) : IsFlag(j)'
    <3> SUFFICES ASSUME NEW j \in 1..(script' - 1) PROVE IsFlag(j)
      BY <1>1, Unmoved
    <3>1. j \in 1..(script - 1) \/ j = script
      BY <1>1, <1>3
    <3> QED BY <1>1, <1>7, <3>1
  <2>2. AtHand' /\ Started'
    BY <1>1, <1>7, <2>1, Unmoved DEF AtHand
  <2>3. Carries(script)'
    <3>1. Before(script) \subseteq Before(script + 1)
      BY <1>2, <1>3, BeforeGrows
    <3>2. \A f : Carried(f, script) => Carried(f, script + 1)
      BY <3>1 DEF Carried
    <3>3. \A f, i : Carried(f, i)' <=> Carried(f, i)
      BY <1>1, Unmoved
    <3>4. \A f \in DOMAIN Fresh : carried[f] = 0 \/ Carried(f, script)
      BY <1>1, <1>2 DEF LoopInv, Carries
    <3>5. \A f \in DOMAIN Fresh : carried'[f] = 0 \/ Carried(f, script)'
      BY <1>1, <3>2, <3>3, <3>4
    <3> QED BY <3>5 DEF Carries
  <2> QED BY <1>1, <1>2, <2>2, <2>3 DEF LoopInv
<1>9. FilesInv'
  <2>1. ~Busy /\ ~Busy'
    BY <1>1, <1>4 DEF Busy, Stopped
  <2>2. \A i : (IsFlag(i)' <=> IsFlag(i)) /\ (Started' <=> Started)
    BY <1>1, Unmoved
  <2>3. ASSUME NEW i \in 1..Argc PROVE IsClosed(i)' <=> IsClosed(i)
    <3>1. ~IsFlag(i) => (i < script + 1 <=> i < script)
      BY <1>1, <1>3
    <3>2. ~IsFlag(i) => i # script
      BY <1>1
    <3> QED BY <1>1, <2>2, <3>1, <3>2 DEF IsClosed
  <2>4. ASSUME Started, NEW i \in 1..Argc, i < script', ~IsFlag(i) PROVE IsWhole(i)
    <3>1. i < script
      BY <1>1, <1>3, <2>4
    <3> QED BY <1>2, <2>1, <2>4, <3>1 DEF FilesInv
  <2>5. ~(phase = "close" \/ status \in {"done", "not found"})'
    BY <1>1, <1>4
  <2>6. UNCHANGED <<argv, texts, files>>
    BY <1>1
  <2> QED BY <1>2, <2>1, <2>3, <2>4, <2>5, <2>6, FilesMove
<1> QED BY <1>5, <1>6, <1>8, <1>9 DEF SInv

LEMMA Outcomes == None \notin {"done", "not found", "no output", "fatal", "abort"}
BY SessionAssumption

LEMMA InitializeTranslatorSInv ==
  ASSUME SInv, InitializeTranslator
  PROVE  SInv'
<1> DEFINE o == OutputAt(script)
<1>1. /\ phase = "loop" /\ script <= Argc /\ ~IsFlag(script)
      /\ \/ o \in Unwritable /\ Exit("no output") /\ UNCHANGED <<files, uses>>
         \/ /\ o \notin Unwritable /\ phase' = "read"
            /\ files' = [files EXCEPT ![o] = Header] /\ uses' = FALSE /\ UNCHANGED status
      /\ UNCHANGED <<argv, texts, script, source, input, line, EOF_Reached, output, carried>>
  BY DEF InitializeTranslator, inputs, OutputAt
<1>2. Types /\ LoopInv /\ FilesInv /\ ArgumentsIn
  BY DEF SInv, Types, ArgumentsIn
<1>3. Argc \in Nat /\ script \in 1..Argc /\ Argc' = Argc /\ o \in Outputs
  <2>1. Argc \in Nat /\ Argc' = Argc /\ \A i \in 1..Argc : OutputAt(i) \in Outputs
    BY <1>1, <1>2, ArgumentFacts, Unmoved
  <2>2. script \in 1..(Argc + 1)
    BY <1>2 DEF Types
  <2>3. script <= Argc
    BY <1>1
  <2>4. script \in 1..Argc
    BY ONLY <2>1, <2>2, <2>3
  <2> QED BY <2>1, <2>4
<1>4. status = None /\ ~Busy
  BY <1>1, <1>2, Outcomes DEF Types, Busy, Stopped
<1>5. /\ Started /\ Carries(script) /\ output = <<>> /\ line = <<>> /\ ~EOF_Reached
      /\ input = Text(script)
  <2>1. /\ Started /\ AtHand /\ Carries(script) /\ output = <<>> /\ line = <<>> /\ ~EOF_Reached
    BY <1>1, <1>2 DEF LoopInv
  <2> QED BY <1>1, <1>2, <1>3, <2>1, TextAtHand
<1>6. /\ (Started' <=> Started)
      /\ \A i : (IsFlag(i)' <=> IsFlag(i)) /\ OutputAt(i)' = OutputAt(i) /\ Text(i)' = Text(i)
                  /\ CommandsOf(i)' = CommandsOf(i)
      /\ \A f, i : Carried(f, i)' <=> Carried(f, i)
      /\ \A file, i : HoldsTranslation(file, i)' <=> HoldsTranslation(file, i)
  BY <1>1, Unmoved
<1> HIDE DEF o
<1>7. CASE o \in Unwritable /\ Exit("no output") /\ UNCHANGED <<files, uses>>
  <2>1. phase' = "exit" /\ status' = "no output"
    BY <1>7 DEF Exit
  <2>2. Types'
    <3>1. (phase' = "exit") = (status' # None)
      BY <2>1, Outcomes
    <3> QED BY <1>1, <1>2, <1>3, <1>7, <2>1, <3>1 DEF Types
  <2>3. OpenInv' /\ LoopInv' /\ ReadInv' /\ CloseInv'
    BY <2>1 DEF OpenInv, LoopInv, ReadInv, CloseInv
  <2>4. ~Busy'
    BY <2>1 DEF Busy, Stopped
  <2>5. ASSUME NEW i \in 1..Argc, OutputAt(i) \notin Unwritable
        PROVE  IsClosed(i)' <=> IsClosed(i)
    <3>1. i # script
      BY <1>7, <2>5 DEF o
    <3> QED BY <1>1, <1>6, <3>1 DEF IsClosed
  <2>6. ASSUME Started, NEW i \in 1..Argc, i < script', ~IsFlag(i) PROVE IsWhole(i)
    BY <1>1, <1>2, <1>4, <2>6 DEF FilesInv
  <2>7. ~(phase = "close" \/ status \in {"done", "not found"})'
    BY <2>1
  <2>8. UNCHANGED <<argv, texts, files>>
    BY <1>1, <1>7
  <2>9. FilesInv'
    BY <1>2, <1>4, <2>4, <2>5, <2>6, <2>7, <2>8, FilesMove
  <2> QED BY <2>2, <2>3, <2>9 DEF SInv
<1>8. CASE /\ o \notin Unwritable /\ phase' = "read"
           /\ files' = [files EXCEPT ![o] = Header] /\ uses' = FALSE /\ UNCHANGED status
  <2>0. files \in [Outputs -> FileSet]
    BY <1>2 DEF Types, FileSet, Entries
  <2>1. /\ files' \in [Outputs -> FileSet] /\ files'[o] = Header
        /\ \A p \in Outputs : p # o => files'[p] = files[p]
    BY <1>3, <1>8, <2>0, Headers
  <2>2. Types'
    <3>1. (phase' = "exit") = (status' # None)
      BY <1>4, <1>8
    <3>2. uses' \in BOOLEAN /\ phase' \in {"open", "loop", "read", "close", "exit"}
      BY <1>8
    <3> QED BY <1>1, <1>2, <1>3, <1>8, <2>1, <3>1, <3>2 DEF Types, FileSet, Entries
  <2>3. OpenInv' /\ LoopInv' /\ CloseInv'
    BY <1>8 DEF OpenInv, LoopInv, CloseInv
  <2>4. ReadInv'
    <3> DEFINE cs == CommandsOf(script)
    <3>1. Text(script) \in Seq(Seq(STRING))
      BY <1>2, TextIn
    <3>2. cs \in Seq(STRING) /\ Len(cs) \in Nat /\ FlattenSeq(Text(script)) \in Seq(STRING)
      BY <3>1, CommandsAre DEF CommandsOf
    <3>3. CommandsOf(script)' = cs /\ Text(script)' = Text(script) /\ AtScript'
      BY <1>1, <1>3, <1>5, <1>6 DEF AtScript
    <3>4. \A f \in DOMAIN Fresh : carried[f] = GlobalsAfter(cs)[0][f] \/ Carried(f, script)
      BY <1>5, <3>2, GlobalsStep, FieldNames DEF Carries
    <3>5. FlattenSeq(Text(script)) = SubSeq(cs, 1, 0) \o (<<>> \o FlattenSeq(Text(script)))
      <4>1. SubSeq(cs, 1, 0) = <<>>
        BY <3>2
      <4>2. \A s \in Seq(STRING) : s = <<>> \o (<<>> \o s)
        BY ConcatEmptySeq
      <4> QED BY <3>2, <4>1, <4>2
    <3>6. Len(output') = 0 /\ line' = <<>> /\ ~EOF_Reached' /\ input' = Text(script)
          /\ carried' = carried /\ uses' = FALSE /\ script' = script
      BY <1>1, <1>5, <1>8
    <3>7. 1..0 = {}
      OBVIOUS
    <3> HIDE DEF cs
    <3>8. WhatIsLeft'
      <4>1. \A f \in DOMAIN Fresh : carried'[f] = GlobalsAfter(cs)[0][f] \/ Carried(f, script)'
        BY <1>6, <3>4, <3>6
      <4> QED BY <3>3, <3>6, <4>1 DEF WhatIsLeft
    <3>9. WhatIsRead'
      BY <3>2, <3>3, <3>5, <3>6 DEF WhatIsRead
    <3>10. WhatIsPrinted'
      <4>1. ~(\E k \in 1..Len(output') : Uses(CommandsOf(script)'[k]))
        BY <3>6, <3>7
      <4>2. \A k \in 1..Len(output') : AsAlone(k)'
        BY <3>6, <3>7
      <4> QED BY <3>6, <4>1, <4>2 DEF WhatIsPrinted
    <3> QED BY <3>3, <3>8, <3>9, <3>10 DEF ReadInv
  <2>5. FilesInv'
    <3>1. Busy' /\ AtScript' /\ OutputAt(script)' = o
      BY <1>1, <1>3, <1>5, <1>6, <1>8 DEF Busy, Stopped, AtScript, o
    <3>2. \A i \in 1..Argc : IsClosed(i)' <=> IsClosed(i)
      BY <1>1, <1>6, <1>8 DEF IsClosed
    <3>3. ASSUME NEW p \in Outputs, files'[p].state = "whole"
          PROVE  p \notin Unwritable /\ \E i \in 1..Argc' : LastFor(p, i)' /\ HoldsTranslation(files[p], i)'
      <4>1. p # o /\ files'[p] = files[p]
        BY <2>1, <3>3, Headers
      <4>2. p \notin Unwritable
        BY <1>2, <3>3, <4>1 DEF FilesInv
      <4>3. PICK i \in 1..Argc : LastFor(p, i) /\ HoldsTranslation(files[p], i)
        BY <1>2, <3>3, <4>1 DEF FilesInv
      <4>4. LastFor(p, i)'
        BY <1>3, <1>6, <3>2, <4>3 DEF LastFor
      <4>5. HoldsTranslation(files[p], i)'
        BY <1>6, <4>1, <4>3
      <4> QED BY <1>3, <4>2, <4>4, <4>5
    <3>4. ASSUME Started, NEW i \in 1..Argc, i < script, ~IsFlag(i)
          PROVE  IsWhole(i)' \/ OutputAt(i)' = OutputAt(script)'
      <4>1. IsWhole(i)
        BY <1>2, <1>4, <3>4 DEF FilesInv
      <4>2. OutputAt(i) \in Outputs
        BY <1>2, <3>4, ArgumentFacts
      <4> QED BY <1>6, <2>1, <3>1, <4>1, <4>2 DEF IsWhole
    <3>5. ~(phase = "close" \/ status \in {"done", "not found"})'
      BY <1>4, <1>8, Outcomes
    <3>6. (\A p \in Outputs : files[p].state = "whole" =>
             p \notin Unwritable /\ \E i \in 1..Argc : LastFor(p, i) /\ HoldsTranslation(files[p], i))'
      BY <3>3 DEF Outputs
    <3>7. (Busy => AtScript /\ files[OutputAt(script)] = Lost /\ OutputAt(script) \notin Unwritable)'
      BY <1>4, <1>8, <2>1, <3>1, Outcomes DEF Lost
    <3>8. (Started => \A i \in 1..Argc : i < script /\ ~IsFlag(i) =>
             IsWhole(i) \/ (Busy /\ OutputAt(i) = OutputAt(script)))'
      BY <1>1, <1>3, <1>6, <3>1, <3>4
    <3> QED BY <3>5, <3>6, <3>7, <3>8 DEF FilesInv
  <2> QED BY <2>2, <2>3, <2>4, <2>5 DEF SInv
<1> QED BY <1>1, <1>7, <1>8

\* The text that the parser still has to read, when the line it is in is not empty.
LEMMA InTheLine ==
  ASSUME Types, ReadInv, Reading, line # <<>>
  PROVE  LET cs == CommandsOf(script)
             n == Len(output)
         IN  /\ n \in Nat /\ Text(script) \in Seq(Seq(STRING)) /\ cs \in Seq(STRING)
             /\ Head(line) \in STRING
             /\ Head(line) = "error" => n = Len(cs)
             /\ Head(line) # "error" =>
                  /\ n + 1 <= Len(cs) /\ cs[n + 1] = Head(line)
                  /\ FlattenSeq(Text(script)) =
                       SubSeq(cs, 1, n + 1) \o (Tail(line) \o FlattenSeq(input))
<1> DEFINE text == Text(script)
           cs == CommandsOf(script)
           n == Len(output)
           after == FlattenSeq(input)
<1>1. /\ line \in Seq(STRING) /\ input \in Seq(Seq(STRING)) /\ ArgumentsIn
      /\ output \in Seq(Entries)
  BY DEF Types, ArgumentsIn, Entries
<1>2. text \in Seq(Seq(STRING)) /\ n \in Nat /\ after \in Seq(STRING)
  BY <1>1, TextIn, FlattenType
<1>3. cs = Commands(text) /\ cs \in Seq(STRING)
  BY <1>2, CommandsAre DEF CommandsOf
<1>4. n <= Len(cs) /\ FlattenSeq(text) = SubSeq(cs, 1, n) \o (line \o after)
  BY DEF ReadInv, WhatIsRead, Reading
<1> HIDE DEF text, cs, n, after
<1>5. /\ line \o after \in Seq(STRING) /\ line \o after # <<>>
      /\ Head(line \o after) = Head(line) /\ Tail(line \o after) = Tail(line) \o after
      /\ Head(line) \in STRING
  <2>1. Len(line) \in Nat /\ Len(line) # 0 /\ Len(after) \in Nat
    BY <1>1, <1>2
  <2>2. line \o after \in Seq(STRING) /\ Len(line \o after) = Len(line) + Len(after)
    BY <1>1, <1>2
  <2>3. line \o after # <<>>
    BY <2>1, <2>2
  <2>4. Head(line \o after) = Head(line) /\ Head(line) \in STRING
    BY <1>1, <1>2, <2>1, <2>3
  <2>5. Tail(line \o after) = Tail(line) \o after
    BY <1>1, <1>2, <2>1, <2>2, <2>3
  <2> QED BY <2>2, <2>3, <2>4, <2>5
<1>6. /\ Head(line) = "error" => n = Len(cs)
      /\ Head(line) # "error" =>
           /\ n + 1 <= Len(cs) /\ cs[n + 1] = Head(line)
           /\ FlattenSeq(text) = SubSeq(cs, 1, n + 1) \o (Tail(line) \o after)
  <2> DEFINE rest == line \o after
  <2>1. rest \in Seq(STRING) /\ FlattenSeq(text) = SubSeq(Commands(text), 1, n) \o rest
    BY <1>3, <1>4, <1>5
  <2>2. n <= Len(Commands(text)) /\ rest # <<>>
    BY <1>3, <1>4, <1>5
  <2>3. Head(rest) = Head(line) /\ Tail(rest) = Tail(line) \o after
    BY <1>5
  <2> HIDE DEF rest
  <2>4. /\ Head(rest) = "error" => n = Len(Commands(text))
        /\ Head(rest) # "error" =>
             /\ n + 1 <= Len(Commands(text)) /\ Commands(text)[n + 1] = Head(rest)
             /\ FlattenSeq(text) = SubSeq(Commands(text), 1, n + 1) \o Tail(rest)
    BY <1>2, <2>1, <2>2, ReadingOn
  <2> QED BY <1>3, <2>3, <2>4
<1> QED BY <1>2, <1>3, <1>5, <1>6 DEF text, cs, n, after

LEMMA ReadLineSInv ==
  ASSUME SInv, ReadLine
  PROVE  SInv'
<1>1. /\ phase = "read" /\ ~EOF_Reached /\ line = <<>> /\ input # <<>>
      /\ line' = Head(input) /\ input' = Tail(input)
      /\ UNCHANGED <<argv, texts, script, source, phase, status, EOF_Reached, output, uses, carried, files>>
  BY DEF ReadLine, Reading, UnchangedMain, globals
<1>2. Types /\ ReadInv /\ FilesInv
  BY DEF SInv
<1>3. line' \in Seq(STRING) /\ input' \in Seq(Seq(STRING)) /\ input \in Seq(Seq(STRING))
  <2>1. input \in Seq(Seq(STRING)) /\ input # <<>>
    BY <1>1, <1>2 DEF Types
  <2>2. Head(input) \in Seq(STRING) /\ Tail(input) \in Seq(Seq(STRING))
    BY <2>1, HeadTailProperties
  <2> QED BY <1>1, <2>1, <2>2
<1>4. Types'
  BY <1>1, <1>2, <1>3, Unmoved DEF Types
<1>5. OpenInv' /\ LoopInv' /\ CloseInv'
  BY <1>1 DEF OpenInv, LoopInv, CloseInv
<1>6. FilesInv'
  BY <1>1, <1>2, FilesStay
<1>7. AtScript' /\ WhatIsPrinted' /\ WhatIsLeft'
  <2>1. AtScript /\ WhatIsPrinted /\ WhatIsLeft
    BY <1>1, <1>2 DEF ReadInv
  <2>2. AtScript'
    BY <1>1, <2>1, Unmoved DEF AtScript
  <2>3. WhatIsPrinted'
    BY <1>1, <2>1, Unmoved DEF WhatIsPrinted, AsAlone
  <2>4. WhatIsLeft'
    BY <1>1, <2>1, Unmoved DEF WhatIsLeft
  <2> QED BY <2>2, <2>3, <2>4
<1>8. WhatIsRead'
  <2>1. WhatIsRead
    BY <1>1, <1>2 DEF ReadInv
  <2>2. FlattenSeq(input) = Head(input) \o FlattenSeq(Tail(input))
    BY <1>1, <1>3, FlattenHead
  <2>3. line \o FlattenSeq(input) = FlattenSeq(input)
    <3>1. FlattenSeq(input) \in Seq(STRING)
      BY <1>3, FlattenType
    <3> QED BY <1>1, <3>1, ConcatEmptySeq
  <2>4. CommandsOf(script)' = CommandsOf(script) /\ Text(script)' = Text(script)
    BY <1>1, Unmoved
  <2>5. line' \o FlattenSeq(input') = line \o FlattenSeq(input)
    BY <1>1, <2>2, <2>3
  <2> QED BY <1>1, <2>1, <2>4, <2>5 DEF WhatIsRead
<1>9. ReadInv'
  BY <1>7, <1>8 DEF ReadInv
<1> QED BY <1>4, <1>5, <1>6, <1>9 DEF SInv

\* A step to the end of the text, after which nothing of it is read any more.
LEMMA EndsSInv ==
  ASSUME SInv, phase = "read", EOF_Reached', Len(output) = Len(CommandsOf(script)),
         line' \in Seq(STRING),
         UNCHANGED <<argv, texts, script, source, phase, status, input, output, uses, carried, files>>
  PROVE  SInv'
<1>2. Types /\ ReadInv /\ FilesInv
  BY DEF SInv
<1>3. EOF_Reached' \in BOOLEAN => Types'
  BY <1>2, Unmoved DEF Types
<1>5. OpenInv' /\ LoopInv' /\ CloseInv'
  BY DEF OpenInv, LoopInv, CloseInv
<1>6. FilesInv'
  BY <1>2, FilesStay
<1>7. AtScript /\ WhatIsPrinted /\ WhatIsLeft /\ WhatIsRead
  BY <1>2 DEF ReadInv
<1>8. AtScript' /\ WhatIsPrinted' /\ WhatIsLeft'
  <2>2. AtScript'
    BY <1>7, Unmoved DEF AtScript
  <2>3. WhatIsPrinted'
    BY <1>7, Unmoved DEF WhatIsPrinted, AsAlone
  <2>4. WhatIsLeft'
    BY <1>7, Unmoved DEF WhatIsLeft
  <2> QED BY <2>2, <2>3, <2>4
<1>9. WhatIsRead'
  <2>1. CommandsOf(script)' = CommandsOf(script)
    BY Unmoved
  <2> QED BY <1>7, <2>1 DEF WhatIsRead
<1>10. ReadInv'
  BY <1>8, <1>9 DEF ReadInv
<1> QED BY <1>3, <1>5, <1>6, <1>10 DEF SInv

LEMMA ReadEOFSInv ==
  ASSUME SInv, ReadEOF
  PROVE  SInv'
<1>1. /\ phase = "read" /\ ~EOF_Reached /\ line = <<>> /\ input = <<>> /\ EOF_Reached' = TRUE
      /\ UNCHANGED <<argv, texts, script, source, phase, status, input, line, output, uses, carried, files>>
  BY DEF ReadEOF, Reading, UnchangedMain, globals
<1>2. Types /\ ReadInv /\ ArgumentsIn
  BY DEF SInv, Types, ArgumentsIn
<1>3. Len(output) = Len(CommandsOf(script))
  <2>1. WhatIsRead /\ output \in Seq(Entries)
    BY <1>1, <1>2 DEF ReadInv, Types, Entries
  <2>2. Len(output) \in Nat /\ Text(script) \in Seq(Seq(STRING))
    BY <1>2, <2>1, TextIn
  <2>3. line \o FlattenSeq(input) = <<>> /\ <<>> \in Seq(STRING)
    BY <1>1, FlattenEmpty, ConcatEmptySeq, NoCommands
  <2>4. /\ Len(output) <= Len(Commands(Text(script)))
        /\ FlattenSeq(Text(script)) = SubSeq(Commands(Text(script)), 1, Len(output)) \o <<>>
    BY <1>1, <2>1, <2>3 DEF WhatIsRead, CommandsOf
  <2> QED BY <2>2, <2>3, <2>4, ReadingOn DEF CommandsOf
<1>4. line' \in Seq(STRING)
  BY <1>1, NoCommands
<1> QED BY <1>1, <1>3, <1>4, EndsSInv

LEMMA SyntaxErrorSInv ==
  ASSUME SInv, SyntaxError
  PROVE  SInv'
<1>1. /\ phase = "read" /\ Reading /\ line # <<>> /\ Head(line) = "error"
      /\ EOF_Reached' = TRUE /\ line' = Tail(line)
      /\ UNCHANGED <<argv, texts, script, source, phase, status, input, output, uses, carried, files>>
  BY DEF SyntaxError, Reading, UnchangedMain, globals
<1>2. Types /\ ReadInv
  BY DEF SInv
<1>3. Len(output) = Len(CommandsOf(script))
  BY <1>1, <1>2, InTheLine
<1>4. line' \in Seq(STRING)
  <2>1. line \in Seq(STRING)
    BY <1>2 DEF Types
  <2> QED BY <1>1, <2>1, HeadTailProperties
<1> QED BY <1>1, <1>3, <1>4, EndsSInv

LEMMA PrintTranslationSInv ==
  ASSUME SInv, PrintTranslation
  PROVE  SInv'
<1> DEFINE c == Head(line)
           cs == CommandsOf(script)
           n == Len(output)
           printed == Printed(c, carried)
<1>1. /\ phase = "read" /\ Reading /\ ~EOF_Reached /\ line # <<>> /\ c # "error"
      /\ output' = Append(output, printed)
      /\ carried' = Left(c, carried) /\ uses' = (uses \/ Uses(c)) /\ line' = Tail(line)
      /\ UNCHANGED <<argv, texts, script, source, phase, status, input, EOF_Reached, files>>
  BY DEF PrintTranslation, Reading, UnchangedMain
<1>2. Types /\ ReadInv /\ FilesInv
  BY DEF SInv
<1>3. /\ n \in Nat /\ Text(script) \in Seq(Seq(STRING)) /\ cs \in Seq(STRING) /\ c \in STRING
      /\ n + 1 <= Len(cs) /\ cs[n + 1] = c
      /\ FlattenSeq(Text(script)) = SubSeq(cs, 1, n + 1) \o (Tail(line) \o FlattenSeq(input))
  BY <1>1, <1>2, InTheLine
<1>4. carried \in Globals /\ output \in Seq(Entries) /\ line \in Seq(STRING) /\ uses \in BOOLEAN
  BY <1>2 DEF Types, Globals, Entries
<1>5. AtScript /\ WhatIsRead /\ WhatIsPrinted /\ WhatIsLeft
  BY <1>1, <1>2 DEF ReadInv
<1>6. /\ CommandsOf(script)' = cs /\ Text(script)' = Text(script)
      /\ \A d, i : Inherits(d, i)' <=> Inherits(d, i)
      /\ \A f, i : Carried(f, i)' <=> Carried(f, i)
      /\ Argc' = Argc
  BY <1>1, Unmoved
<1>7. AtScript'
  BY <1>1, <1>5, Unmoved DEF AtScript
<1>8. printed \in Entries /\ Left(c, carried) \in Globals
  BY <1>3, <1>4, PrintedIn, LeftIn DEF Entries
<1>9. n + 1 \in 1..Len(cs) /\ n \in 0..Len(cs) /\ Len(cs) \in Nat
  BY <1>3
<1>10. /\ GlobalsAfter(cs)[n + 1] = Left(c, GlobalsAfter(cs)[n])
       /\ GlobalsAfter(cs)[n] \in Globals
  <2>1. (n + 1) - 1 = n
    BY <1>3
  <2> QED BY <1>3, <1>9, <2>1, GlobalsStep, GlobalsIn
<1>11. /\ output' \in Seq(Entries) /\ Len(output') = n + 1 /\ output'[n + 1] = printed
       /\ \A k \in 1..n : output'[k] = output[k]
  <2> HIDE DEF printed
  <2> QED BY <1>1, <1>4, <1>8
<1>12. Alone(Text(script))[n + 1] = Printed(c, GlobalsAfter(cs)[n])
  <2>1. cs = Commands(Text(script)) /\ (n + 1) - 1 = n
    BY <1>3 DEF CommandsOf
  <2> QED BY <1>3, <1>9, <2>1, AloneIs
<1>13. \A f \in DOMAIN Fresh : carried[f] = GlobalsAfter(cs)[n][f] \/ Carried(f, script)
  BY <1>5 DEF WhatIsLeft
<1>14. printed.cmd = c /\ Printed(c, GlobalsAfter(cs)[n]).cmd = c
  BY DEF Printed
<1>15. printed = Printed(c, GlobalsAfter(cs)[n]) \/ Inherits(c, script)
  <2>1. CASE c \notin DOMAIN Depends
    BY <2>1 DEF Printed
  <2>2. CASE c \in DOMAIN Depends
    <3>1. Depends[c] \in DOMAIN Fresh
      BY <2>2, FieldNames
    <3>2. CASE Carried(Depends[c], script)
      BY <2>2, <3>2 DEF Inherits, Carried
    <3>3. CASE carried[Depends[c]] = GlobalsAfter(cs)[n][Depends[c]]
      BY <2>2, <3>3 DEF Printed
    <3> QED BY <1>13, <3>1, <3>2, <3>3
  <2> QED BY <2>1, <2>2
<1>16. \A f \in DOMAIN Fresh : carried'[f] = GlobalsAfter(cs)[n + 1][f] \/ Carried(f, script)
  <2> HIDE DEF cs, n, c
  <2> SUFFICES ASSUME NEW f \in DOMAIN Fresh, ~Carried(f, script)
               PROVE  Left(c, carried)[f] = GlobalsAfter(cs)[n + 1][f]
    BY <1>1
  <2>1. carried[f] = GlobalsAfter(cs)[n][f]
    BY <1>13
  <2> QED BY <1>4, <1>10, <2>1, LeftAlike
<1>17. uses = \E k \in 1..n : Uses(cs[k])
  BY <1>5 DEF WhatIsPrinted
<1>18. \A k \in 1..n : AsAlone(k)
  BY <1>5 DEF WhatIsPrinted
<1> HIDE DEF c, cs, n, printed
<1>19. line' \in Seq(STRING)
  BY <1>1, <1>4, HeadTailProperties
<1>20. Types'
  <2>1. carried' \in [DOMAIN Fresh -> Nat] /\ output' \in Seq([cmd : STRING, by : Nat])
    BY <1>1, <1>8, <1>11 DEF Globals, Entries
  <2>2. uses' \in BOOLEAN
    BY <1>1, <1>4 DEF Uses
  <2> QED BY <1>1, <1>2, <1>6, <1>19, <2>1, <2>2 DEF Types
<1>21. OpenInv' /\ LoopInv' /\ CloseInv'
  BY <1>1 DEF OpenInv, LoopInv, CloseInv
<1>22. FilesInv'
  BY <1>1, <1>2, FilesStay
<1>23. WhatIsRead'
  BY <1>1, <1>3, <1>6, <1>11 DEF WhatIsRead
<1>24. WhatIsLeft'
  <2>1. \A f \in DOMAIN Fresh : Carried(f, script)' <=> Carried(f, script)
    BY <1>1, <1>6
  <2> QED BY <1>6, <1>11, <1>16, <2>1 DEF WhatIsLeft
<1>25. \A k \in 1..(n + 1) : AsAlone(k)'
  <2> SUFFICES ASSUME NEW k \in 1..(n + 1) PROVE AsAlone(k)'
    OBVIOUS
  <2>1. CASE k = n + 1
    <3>1. /\ output'[k] = printed /\ cs[k] = c
          /\ Alone(Text(script))[k] = Printed(c, GlobalsAfter(cs)[n])
      BY <1>3, <1>11, <1>12, <2>1
    <3>2. \/ output'[k] = Alone(Text(script))[k]
          \/ output'[k].cmd = Alone(Text(script))[k].cmd /\ Inherits(cs[k], script)
      BY <1>14, <1>15, <3>1
    <3> QED BY <1>1, <1>6, <3>2 DEF AsAlone
  <2>2. CASE k # n + 1
    <3>1. k \in 1..n
      BY <1>3, <2>2
    <3>2. AsAlone(k) /\ output'[k] = output[k]
      BY <1>11, <1>18, <3>1
    <3> QED BY <1>1, <1>6, <3>2 DEF AsAlone, cs
  <2> QED BY <2>1, <2>2
<1>26. uses' = \E k \in 1..(n + 1) : Uses(cs[k])
  <2>1. 1..(n + 1) = 1..n \union {n + 1}
    BY <1>3
  <2>2. (\E k \in 1..(n + 1) : Uses(cs[k])) = ((\E k \in 1..n : Uses(cs[k])) \/ Uses(cs[n + 1]))
    BY <2>1
  <2> QED BY <1>1, <1>3, <1>17, <2>2
<1>27. WhatIsPrinted'
  BY <1>6, <1>11, <1>25, <1>26 DEF WhatIsPrinted
<1>28. ReadInv'
  BY <1>7, <1>23, <1>24, <1>27 DEF ReadInv
<1> QED BY <1>20, <1>21, <1>22, <1>28 DEF SInv

\* The program stops in the middle of a script, of which it may lose the header.
LEMMA StoppedSInv ==
  ASSUME SInv, Fatal \/ Abort
  PROVE  SInv'
<1>1. /\ phase = "read" /\ phase' = "exit" /\ status' \in Stopped
      /\ UNCHANGED <<argv, texts, script, source, input, line, EOF_Reached, output, uses, carried>>
      /\ \/ status' = "fatal" /\ UNCHANGED files
         \/ status' = "abort" /\ files' = [files EXCEPT ![OutputAt(script)] = Empty]
  BY DEF Fatal, Abort, Reading, UnchangedMain, globals, Exit, OutputAt, Stopped
<1>2. Types /\ ReadInv /\ FilesInv
  BY DEF SInv
<1>files. /\ files \in [Outputs -> FileSet] /\ files' \in [Outputs -> FileSet]
      /\ \A o \in Outputs : o # OutputAt(script) => files'[o] = files[o]
  <2>1. files \in [Outputs -> FileSet]
    BY <1>2 DEF Types, FileSet, Entries
  <2>2. CASE status' = "fatal" /\ UNCHANGED files
    BY <2>1, <2>2
  <2>3. CASE status' = "abort" /\ files' = [files EXCEPT ![OutputAt(script)] = Empty]
    BY <2>1, <2>3, Headers
  <2> QED BY <1>1, <2>2, <2>3
<1>why. status' = "fatal" \/ status' = "abort"
  BY <1>1 DEF Stopped
<1>3. Types'
  <2>1. (phase' = "exit") = (status' # None)
    BY <1>1, Outcomes
  <2>2. files' \in [Outputs' -> FileSet]
    BY <1>files DEF Outputs
  <2> QED BY <1>1, <1>2, <1>why, <2>1, <2>2, Unmoved DEF Types, FileSet, Entries
<1>4. OpenInv' /\ LoopInv' /\ ReadInv' /\ CloseInv'
  BY <1>1 DEF OpenInv, LoopInv, ReadInv, CloseInv
<1>5. /\ Argc' = Argc /\ (Started' <=> Started)
      /\ \A i : (IsFlag(i)' <=> IsFlag(i)) /\ OutputAt(i)' = OutputAt(i)
      /\ \A file, i : HoldsTranslation(file, i)' <=> HoldsTranslation(file, i)
  BY <1>1, Unmoved
<1>6. Busy /\ Busy'
  BY <1>1 DEF Busy, Stopped
<1>7. /\ AtScript /\ files[OutputAt(script)] = Lost /\ OutputAt(script) \notin Unwritable
      /\ OutputAt(script) \in Outputs
  <2>1. AtScript /\ files[OutputAt(script)] = Lost /\ OutputAt(script) \notin Unwritable
    BY <1>2, <1>6 DEF FilesInv
  <2>2. ArgumentsIn
    BY <1>2 DEF Types, ArgumentsIn
  <2> QED BY <2>1, <2>2, ArgumentFacts DEF AtScript
<1>lost. files'[OutputAt(script)] = Lost'
  <2>1. status # "abort"
    BY <1>1, <1>2, Outcomes DEF Types
  <2>2. CASE status' = "fatal" /\ UNCHANGED files
    BY <1>7, <2>1, <2>2, LostIs DEF Lost
  <2>3. CASE status' = "abort" /\ files' = [files EXCEPT ![OutputAt(script)] = Empty]
    BY <1>7, <1>files, <2>3 DEF Lost
  <2> QED BY <1>1, <2>2, <2>3
<1>8. (\A o \in Outputs : files[o].state = "whole" =>
         o \notin Unwritable /\ \E i \in 1..Argc : LastFor(o, i) /\ HoldsTranslation(files[o], i))'
  <2> SUFFICES ASSUME NEW o \in Outputs, files'[o].state = "whole"
               PROVE  o \notin Unwritable /\ \E i \in 1..Argc' : LastFor(o, i)' /\ HoldsTranslation(files[o], i)'
    BY DEF Outputs
  <2>other. OutputAt(script) # o
    BY <1>1, <1>7, <1>lost, Headers, <1>why DEF Lost
  <2>same. files'[o] = files[o]
    BY <1>files, <2>other
  <2>1. PICK i \in 1..Argc : LastFor(o, i) /\ HoldsTranslation(files[o], i)
    BY <1>2, <2>same DEF FilesInv
  <2>2. o \notin Unwritable /\ OutputAt(script) # o
    BY <1>2, <2>other, <2>same DEF FilesInv
  <2>3. \A j \in 1..Argc : OutputAt(j) = o => (IsClosed(j)' <=> IsClosed(j))
    <3> SUFFICES ASSUME NEW j \in 1..Argc, OutputAt(j) = o PROVE IsClosed(j)' <=> IsClosed(j)
      OBVIOUS
    <3>1. j # script
      BY <2>2
    <3> QED BY <1>1, <1>5, <3>1 DEF IsClosed
  <2>4. LastFor(o, i)'
    BY <1>5, <2>1, <2>3 DEF LastFor
  <2> QED BY <1>1, <1>5, <2>1, <2>2, <2>4, <2>same
<1>9. (Busy => AtScript /\ files[OutputAt(script)] = Lost /\ OutputAt(script) \notin Unwritable)'
  BY <1>1, <1>5, <1>7, <1>lost DEF AtScript
<1>10. (Started => \A i \in 1..Argc : i < script /\ ~IsFlag(i) =>
          IsWhole(i) \/ (Busy /\ OutputAt(i) = OutputAt(script)))'
  <2>1. \A i \in 1..Argc : OutputAt(i) # OutputAt(script) => (IsWhole(i)' <=> IsWhole(i))
    BY <1>2, <1>5, <1>files, ArgumentFacts DEF IsWhole, Types, ArgumentsIn
  <2> QED BY <1>1, <1>2, <1>5, <1>6, <2>1 DEF FilesInv
<1>11. ~(phase = "close" \/ status \in {"done", "not found"})'
  BY <1>1, <1>why
<1>12. FilesInv'
  BY <1>8, <1>9, <1>10, <1>11 DEF FilesInv
<1> QED BY <1>3, <1>4, <1>12 DEF SInv

LEMMA CloseTranslatorSInv ==
  ASSUME SInv, CloseTranslator
  PROVE  SInv'
<1> DEFINE o == OutputAt(script)
           whole == Whole(output, uses)
<1>1. /\ phase = "read" /\ EOF_Reached /\ phase' = "close"
      /\ files' = [files EXCEPT ![o] = whole]
      /\ output' = <<>> /\ carried' = Closed(carried) /\ source' = None /\ input' = <<>>
      /\ UNCHANGED <<argv, texts, script, status, line, EOF_Reached, uses>>
  BY DEF CloseTranslator, OutputAt
<1>2. Types /\ ReadInv /\ FilesInv /\ ArgumentsIn
  BY DEF SInv, Types, ArgumentsIn
<1>3. status = None
  BY <1>1, <1>2 DEF Types
<1>4. /\ output \in Seq(Entries) /\ uses \in BOOLEAN /\ carried \in Globals
      /\ files \in [Outputs -> FileSet]
  BY <1>2 DEF Types, Entries, FileSet, Globals
<1>5. AtScript /\ WhatIsRead /\ WhatIsPrinted /\ WhatIsLeft
  BY <1>1, <1>2 DEF ReadInv
<1>6. /\ Started /\ script \in 1..Argc /\ ~IsFlag(script) /\ Argc \in Nat /\ o \in Outputs
  BY <1>2, <1>5, ArgumentFacts DEF AtScript
<1>7. /\ Argc' = Argc /\ (Started' <=> Started)
      /\ \A i : (IsFlag(i)' <=> IsFlag(i)) /\ OutputAt(i)' = OutputAt(i)
      /\ \A f, i : Carried(f, i)' <=> Carried(f, i)
      /\ \A file, i : HoldsTranslation(file, i)' <=> HoldsTranslation(file, i)
  BY <1>1, Unmoved
<1>8. whole \in FileSet /\ whole.state = "whole" /\ whole.lines = output /\ whole.uses = uses
  BY <1>4, Wholes
<1>9. Len(output) = Len(CommandsOf(script))
  BY <1>1, <1>5 DEF WhatIsRead
<1>10. /\ Text(script) \in Seq(Seq(STRING)) /\ CommandsOf(script) \in Seq(STRING)
       /\ Len(CommandsOf(script)) \in Nat /\ CommandsOf(script) = Commands(Text(script))
  BY <1>2, TextIn, CommandsAre DEF CommandsOf
<1>11. HoldsTranslation(whole, script)
  <2> DEFINE cs == Commands(Text(script))
             alone == Alone(Text(script))
  <2>1. Len(alone) = Len(cs) /\ DOMAIN alone = 1..Len(cs) /\ DOMAIN cs = 1..Len(cs)
    <3>1. alone \in Seq(Entries) /\ Len(alone) = Len(cs) /\ cs \in Seq(STRING)
      BY <1>10, AloneIs DEF Entries
    <3> HIDE DEF alone, cs
    <3> QED BY <3>1
  <2>2. \A k \in 1..Len(cs) : output[k] = alone[k] \/
           (output[k].cmd = alone[k].cmd /\ Inherits(cs[k], script))
    BY <1>5, <1>9, <1>10 DEF WhatIsPrinted, AsAlone
  <2>3. uses = \E k \in 1..Len(cs) : Uses(cs[k])
    BY <1>5, <1>9, <1>10 DEF WhatIsPrinted
  <2> HIDE DEF whole
  <2> QED BY <1>8, <1>9, <1>10, <2>1, <2>2, <2>3 DEF HoldsTranslation
<1>12. Carries(script + 1)'
  <2>1. /\ Before(script) \subseteq Before(script + 1)
        /\ \A k \in 1..Len(CommandsOf(script)) : CommandsOf(script)[k] \in Before(script + 1)
    BY <1>2, <1>6, BeforeGrows
  <2>2. ASSUME NEW f \in DOMAIN Fresh, carried'[f] # 0 PROVE Carried(f, script + 1)
    <3>1. f # "functions" /\ carried[f] # 0 /\ f \in DOMAIN Lasting
      BY <1>1, <1>4, <2>2, FieldNames DEF Closed, Globals
    <3>2. CASE Carried(f, script)
      BY <2>1, <3>2 DEF Carried
    <3>3. CASE carried[f] = GlobalsAfter(CommandsOf(script))[Len(output)][f]
      <4>1. Len(output) \in 0..Len(CommandsOf(script))
        BY <1>9, <1>10
      <4>2. \E k \in 1..Len(output) : CommandsOf(script)[k] = Lasting[f]
        BY <1>10, <3>1, <3>3, <4>1, GlobalsIn
      <4> QED BY <1>9, <2>1, <3>1, <4>2 DEF Carried
    <3> QED BY <1>5, <3>2, <3>3 DEF WhatIsLeft
  <2> QED BY <1>1, <1>7, <2>2 DEF Carries
<1> HIDE DEF o, whole
<1>13. /\ files' \in [Outputs -> FileSet] /\ files'[o] = whole
       /\ \A p \in Outputs : p # o => files'[p] = files[p]
  BY <1>1, <1>4, <1>6, <1>8
<1>14. Types'
  <2>1. carried' \in [DOMAIN Fresh -> Nat]
    BY <1>1, <1>4, FieldNames DEF Closed, Globals
  <2>2. output' \in Seq([cmd : STRING, by : Nat])
    BY <1>1, EmptySeq
  <2>3. (phase' = "exit") = (status' # None) /\ phase' \in {"open", "loop", "read", "close", "exit"}
    BY <1>1, <1>3
  <2>4. files' \in [Outputs -> [state : {"absent", "empty", "header", "whole"},
                               lines : Seq([cmd : STRING, by : Nat]), uses : BOOLEAN]]
    BY <1>13 DEF FileSet, Entries
  <2>5. input' \in Seq(Seq(STRING))
    BY <1>1, NoCommands
  <2>6. source' \in DOMAIN texts' \union {None}
    BY <1>1
  <2> QED BY <1>1, <1>2, <1>7, <2>1, <2>2, <2>3, <2>4, <2>5, <2>6 DEF Types
<1>15. OpenInv' /\ LoopInv' /\ ReadInv'
  BY <1>1 DEF OpenInv, LoopInv, ReadInv
<1>16. AtScript'
  BY <1>1, <1>6, <1>7 DEF AtScript
<1>17. CloseInv'
  BY <1>1, <1>12, <1>16 DEF CloseInv
<1>18. FilesInv'
  <2>1. Busy /\ ~Busy'
    BY <1>1, <1>3, Outcomes DEF Busy, Stopped
  <2>2. o \notin Unwritable
    BY <1>2, <2>1 DEF FilesInv, o
  <2>3. \A i \in 1..Argc : i # script => (IsClosed(i)' <=> IsClosed(i))
    BY <1>1, <1>7 DEF IsClosed
  <2>4. /\ IsClosed(script)' /\ OutputAt(script)' = o
        /\ \A i \in 1..Argc : IsClosed(i)' => i <= script
    <3>1. IsClosed(script)' /\ OutputAt(script)' = o
      BY <1>1, <1>6, <1>7 DEF IsClosed, o
    <3>2. \A i \in 1..Argc : IsClosed(i)' => i < script \/ i = script
      BY <1>1 DEF IsClosed
    <3> QED BY <1>6, <3>1, <3>2
  <2>5. \A p : p = o => LastFor(p, script)'
    BY <1>1, <1>6, <1>7, <2>4 DEF LastFor
  <2>6. ASSUME NEW p \in Outputs, files'[p].state = "whole"
        PROVE  p \notin Unwritable /\ \E i \in 1..Argc' : LastFor(p, i)' /\ HoldsTranslation(files[p], i)'
    <3>1. CASE p = o
      <4>1. HoldsTranslation(files[p], script)'
        <5>1. files'[p] = whole /\ script' = script
          BY <1>1, <1>13, <3>1
        <5> QED BY <1>7, <1>11, <5>1
      <4>2. LastFor(p, script)' /\ script' \in 1..Argc'
        BY <1>1, <1>6, <1>7, <2>5, <3>1
      <4> QED BY <2>2, <3>1, <4>1, <4>2
    <3>2. CASE p # o
      <4>1. files'[p] = files[p]
        BY <1>13, <3>2
      <4>2. PICK i \in 1..Argc : p \notin Unwritable /\ LastFor(p, i) /\ HoldsTranslation(files[p], i)
        BY <1>2, <2>6, <4>1 DEF FilesInv
      <4>3. LastFor(p, i)'
        <5>1. \A j \in 1..Argc : OutputAt(j) = p => j # script
          BY <3>2 DEF o
        <5> QED BY <1>7, <2>3, <4>2, <5>1 DEF LastFor
      <4> QED BY <1>7, <4>1, <4>2, <4>3
    <3> QED BY <3>1, <3>2
  <2>7. (\A p \in Outputs : files[p].state = "whole" =>
           p \notin Unwritable /\ \E i \in 1..Argc : LastFor(p, i) /\ HoldsTranslation(files[p], i))'
    BY <2>6 DEF Outputs
  <2>8. ASSUME Started', NEW i \in 1..Argc, i < script, ~IsFlag(i) PROVE IsWhole(i)'
    <3>1. OutputAt(i) \in Outputs
      BY <1>2, <2>8, ArgumentFacts
    <3>2. CASE OutputAt(i) = o
      BY <1>7, <1>8, <1>13, <3>2 DEF IsWhole
    <3>3. CASE OutputAt(i) # o
      <4>1. IsWhole(i)
        BY <1>2, <1>6, <2>8, <3>3 DEF FilesInv, o
      <4> QED BY <1>7, <1>13, <3>1, <3>3, <4>1 DEF IsWhole
    <3> QED BY <3>2, <3>3
  <2>9. IsWhole(script)'
    BY <1>1, <1>8, <1>13, <2>4 DEF IsWhole
  <2> QED BY <1>1, <1>7, <2>1, <2>7, <2>8, <2>9 DEF FilesInv
<1> QED BY <1>14, <1>15, <1>17, <1>18 DEF SInv

LEMMA OpenNextSInv ==
  ASSUME SInv, OpenNext
  PROVE  SInv'
<1> DEFINE name == argv[script + 1]
<1>1. /\ phase = "close" /\ script < Argc /\ OpenShellScript(name)
      /\ name \in DOMAIN texts => script' = script + 1 /\ line' = <<>> /\ EOF_Reached' = FALSE
      /\ name \notin DOMAIN texts => UNCHANGED <<script, line, EOF_Reached>>
      /\ UNCHANGED <<argv, texts, output, uses, carried, files>>
  BY DEF OpenNext, globals
<1>2. Types /\ CloseInv /\ FilesInv /\ ArgumentsIn
  BY DEF SInv, Types, ArgumentsIn
<1>3. status = None /\ ~Busy
  BY <1>1, <1>2, Outcomes DEF Types, Busy, Stopped
<1>4. AtScript /\ Carries(script + 1) /\ output = <<>>
  BY <1>1, <1>2 DEF CloseInv
<1>5. /\ Started /\ script \in 1..Argc /\ ~IsFlag(script) /\ Argc \in Nat /\ script + 1 \in 2..Argc
  BY <1>1, <1>2, <1>4, ArgumentFacts DEF AtScript
<1>6. /\ Argc' = Argc /\ (Started' <=> Started)
      /\ \A i : (IsFlag(i)' <=> IsFlag(i)) /\ OutputAt(i)' = OutputAt(i)
      /\ \A f, i : Carried(f, i)' <=> Carried(f, i)
  BY <1>1, Unmoved
<1>7. IsWhole(script)
  BY <1>1, <1>2, <1>4 DEF FilesInv
<1>8. \A i \in 1..Argc : i < script /\ ~IsFlag(i) => IsWhole(i)
  BY <1>2, <1>3, <1>5 DEF FilesInv
<1>9. UNCHANGED <<argv, texts, files>>
  BY <1>1
<1>10. CASE name \in DOMAIN texts
  <2>1. /\ phase' = "loop" /\ status' = None /\ source' = name /\ input' = texts[name]
        /\ script' = script + 1 /\ line' = <<>> /\ EOF_Reached' = FALSE
    BY <1>1, <1>3, <1>10 DEF OpenShellScript
  <2>2. Types'
    <3>1. input' \in Seq(Seq(STRING)) /\ line' \in Seq(STRING)
      BY <1>2, <1>10, <2>1, ArgumentFacts, NoCommands
    <3>2. script' \in 1..(Argc + 1)
      BY <1>5, <2>1
    <3>3. (phase' = "exit") = (status' # None) /\ phase' \in {"open", "loop", "read", "close", "exit"}
          /\ status' \in {None, "done", "not found", "no output", "fatal", "abort"}
          /\ source' \in DOMAIN texts \union {None} /\ EOF_Reached' \in BOOLEAN
      BY <1>10, <2>1
    <3> QED BY <1>1, <1>2, <1>6, <3>1, <3>2, <3>3 DEF Types
  <2>3. OpenInv' /\ ReadInv' /\ CloseInv'
    BY <2>1 DEF OpenInv, ReadInv, CloseInv
  <2>4. LoopInv'
    <3>1. AtHand'
      <4>1. script' \in 2..Argc' /\ script' - 1 = script
        BY <1>5, <1>6, <2>1
      <4>2. ~IsFlag(script - 1)'
        BY <1>5, <1>6, <4>1 DEF IsFlag
      <4>3. argv'[script'] \in DOMAIN texts' /\ input' = texts'[argv'[script']]
        BY <1>1, <1>10, <2>1
      <4> QED BY <4>1, <4>2, <4>3 DEF AtHand
    <3>2. Carries(script)'
      <4>1. \A f \in DOMAIN Fresh : carried[f] = 0 \/ Carried(f, script + 1)
        BY <1>4 DEF Carries
      <4> QED BY <1>1, <1>6, <2>1, <4>1 DEF Carries
    <3> QED BY <1>1, <1>4, <1>5, <1>6, <2>1, <3>1, <3>2 DEF LoopInv
  <2>5. ~Busy'
    BY <2>1, Outcomes DEF Busy, Stopped
  <2>6. \A i \in 1..Argc : IsClosed(i)' <=> IsClosed(i)
    <3>1. \A i \in 1..Argc : i < script + 1 <=> (i < script \/ i = script)
      BY <1>5
    <3> QED BY <1>1, <1>6, <2>1, <3>1 DEF IsClosed
  <2>7. \A i \in 1..Argc : i < script' /\ ~IsFlag(i) => IsWhole(i)
    <3>1. \A i \in 1..Argc : i < script + 1 => (i < script \/ i = script)
      BY <1>5
    <3> QED BY <1>7, <1>8, <2>1, <3>1
  <2>8. ~(phase = "close" \/ status \in {"done", "not found"})'
    BY <2>1, Outcomes
  <2>9. FilesInv'
    BY <1>2, <1>3, <1>9, <2>5, <2>6, <2>7, <2>8, FilesMove
  <2> QED BY <2>2, <2>3, <2>4, <2>9 DEF SInv
<1>11. CASE name \notin DOMAIN texts
  <2>1. /\ phase' = "exit" /\ status' = "not found"
        /\ UNCHANGED <<source, input, script, line, EOF_Reached>>
    BY <1>1, <1>11 DEF OpenShellScript, Exit
  <2>2. Types'
    <3>1. (phase' = "exit") = (status' # None)
      BY <2>1, Outcomes
    <3> QED BY <1>1, <1>2, <1>6, <2>1, <3>1 DEF Types
  <2>3. OpenInv' /\ LoopInv' /\ ReadInv' /\ CloseInv'
    BY <2>1 DEF OpenInv, LoopInv, ReadInv, CloseInv
  <2>4. ~Busy'
    BY <2>1 DEF Busy, Stopped
  <2>5. \A i \in 1..Argc : IsClosed(i)' <=> IsClosed(i)
    BY <1>1, <1>6, <2>1 DEF IsClosed
  <2>6. \A i \in 1..Argc : i < script' /\ ~IsFlag(i) => IsWhole(i)
    BY <1>8, <2>1
  <2>7. IsWhole(script)'
    BY <1>1, <1>6, <1>7, <2>1 DEF IsWhole
  <2>8. FilesInv'
    BY <1>2, <1>3, <1>9, <2>4, <2>5, <2>6, <2>7, FilesMove
  <2> QED BY <2>2, <2>3, <2>8 DEF SInv
<1> QED BY <1>10, <1>11

LEMMA FinishSInv ==
  ASSUME SInv, Finish
  PROVE  SInv'
<1>1. /\ (phase = "close" /\ script = Argc) \/ (phase = "loop" /\ script > Argc)
      /\ phase' = "exit" /\ status' = "done"
      /\ UNCHANGED <<argv, texts, script, source, input, line, EOF_Reached, output, uses, carried, files>>
  BY DEF Finish, Exit, inputs, globals
<1>2. Types /\ CloseInv /\ FilesInv /\ ArgumentsIn
  BY DEF SInv, Types, ArgumentsIn
<1>3. status = None /\ ~Busy
  BY <1>1, <1>2, Outcomes DEF Types, Busy, Stopped
<1>4. /\ Argc' = Argc /\ (Started' <=> Started) /\ Argc \in Nat
      /\ \A i : (IsFlag(i)' <=> IsFlag(i)) /\ OutputAt(i)' = OutputAt(i)
  BY <1>1, <1>2, Unmoved, ArgumentFacts
<1>5. Types'
  <2>1. (phase' = "exit") = (status' # None)
    BY <1>1, Outcomes
  <2> QED BY <1>1, <1>2, <1>4, <2>1 DEF Types
<1>6. OpenInv' /\ LoopInv' /\ ReadInv' /\ CloseInv'
  BY <1>1 DEF OpenInv, LoopInv, ReadInv, CloseInv
<1>7. ~Busy'
  BY <1>1 DEF Busy, Stopped
<1>8. \A i \in 1..Argc : IsClosed(i)' <=> IsClosed(i)
  <2>1. phase = "loop" => script > Argc
    BY <1>1
  <2>2. script \in 1..(Argc + 1)
    BY <1>2 DEF Types
  <2>3. phase = "loop" => \A i \in 1..Argc : i # script
    BY ONLY <1>4, <2>1, <2>2
  <2> QED BY <1>1, <1>4, <2>3 DEF IsClosed
<1>9. Started => \A i \in 1..Argc : i < script' /\ ~IsFlag(i) => IsWhole(i)
  BY <1>1, <1>2, <1>3 DEF FilesInv
<1>10. AtScript' => IsWhole(script)'
  <2>1. CASE phase = "close"
    <3>1. IsWhole(script)
      BY <1>2, <2>1 DEF FilesInv, CloseInv
    <3> QED BY <1>1, <1>4, <3>1 DEF IsWhole
  <2>2. CASE script > Argc
    <3>1. script \in 1..(Argc + 1) /\ script' = script
      BY <1>1, <1>2 DEF Types
    <3>2. ~(script' \in 1..Argc')
      BY <1>4, <2>2, <3>1
    <3> QED BY <3>2 DEF AtScript
  <2> QED BY <1>1, <2>1, <2>2
<1>11. FilesInv'
  <2>1. UNCHANGED <<argv, texts, files>>
    BY <1>1
  <2> QED BY <1>2, <1>3, <1>7, <1>8, <1>9, <1>10, <2>1, FilesMove
<1> QED BY <1>5, <1>6, <1>11 DEF SInv

LEMMA StepSInv == SInv /\ [Next]_vars => SInv'
<1> SUFFICES ASSUME SInv, [Next]_vars PROVE SInv'
  OBVIOUS
<1>1. CASE UNCHANGED vars
  <2>1. /\ UNCHANGED <<argv, texts, script, phase, status, source, input, line, EOF_Reached>>
        /\ UNCHANGED <<output, uses, carried, files>>
    BY <1>1 DEF vars, inputs, globals
  <2>2. Types /\ OpenInv /\ LoopInv /\ ReadInv /\ CloseInv /\ FilesInv
    BY DEF SInv
  <2>3. /\ Argc' = Argc /\ (Started' <=> Started) /\ FirstText' = FirstText
        /\ \A i : (IsFlag(i)' <=> IsFlag(i)) /\ Text(i)' = Text(i) /\ CommandsOf(i)' = CommandsOf(i)
        /\ \A f, i : Carried(f, i)' <=> Carried(f, i)
        /\ \A c, i : Inherits(c, i)' <=> Inherits(c, i)
    BY <2>1, Unmoved
  <2>4. AtScript' <=> AtScript
    BY <2>1, <2>3 DEF AtScript
  <2>5. Types'
    BY <2>1, <2>2, <2>3 DEF Types
  <2>6. OpenInv'
    BY <2>1, <2>2 DEF OpenInv
  <2>7. LoopInv'
    <3>1. (AtHand' <=> AtHand) /\ (Carries(script)' <=> Carries(script))
      BY <2>1, <2>3 DEF AtHand, Carries
    <3> QED BY <2>1, <2>2, <2>3, <3>1 DEF LoopInv
  <2>8. ReadInv'
    <3>1. WhatIsRead' <=> WhatIsRead
      BY <2>1, <2>3 DEF WhatIsRead
    <3>2. WhatIsPrinted' <=> WhatIsPrinted
      BY <2>1, <2>3 DEF WhatIsPrinted, AsAlone
    <3>3. WhatIsLeft' <=> WhatIsLeft
      BY <2>1, <2>3 DEF WhatIsLeft
    <3> QED BY <2>1, <2>2, <2>4, <3>1, <3>2, <3>3 DEF ReadInv
  <2>9. CloseInv'
    <3>1. Carries(script + 1)' <=> Carries(script + 1)
      BY <2>1, <2>3 DEF Carries
    <3> QED BY <2>1, <2>2, <2>4, <3>1 DEF CloseInv
  <2>10. FilesInv'
    BY <2>1, <2>2, FilesStay
  <2> QED BY <2>5, <2>6, <2>7, <2>8, <2>9, <2>10 DEF SInv
<1>2. CASE Next
  BY <1>2, OpenFirstSInv, SkipOptionSInv, InitializeTranslatorSInv, ReadLineSInv, ReadEOFSInv,
     SyntaxErrorSInv, PrintTranslationSInv, StoppedSInv, CloseTranslatorSInv, OpenNextSInv,
     FinishSInv DEF Next
<1> QED BY <1>1, <1>2

\* The inductive invariant of main and of the outputs: the text at hand is the one that
\* the argument names, what was printed of it is what a fresh translator prints but for
\* what earlier scripts have left, and a whole output holds its last script.
THEOREM SessionInvariant == Spec => []SInv
BY InitSInv, StepSInv, PTL DEF Spec

-------------------------------------------------------------------------------
(***************************************************************************)
(* What the invariant says                                                 *)
(***************************************************************************)
LEMMA SInvTypeOK == SInv => TypeOK
<1> SUFFICES ASSUME SInv PROVE TypeOK
  OBVIOUS
<1>1. Types
  BY DEF SInv
<1>2. \A o \in Outputs : files[o].state \in {"absent", "empty", "header", "whole"}
  <2>1. files \in [Outputs -> FileSet]
    BY <1>1 DEF Types, FileSet, Entries
  <2> QED BY <2>1 DEF FileSet
<1>3. DOMAIN carried = DOMAIN Fresh
  BY <1>1 DEF Types
<1> QED BY <1>1, <1>2, <1>3 DEF TypeOK, Types

LEMMA SInvAlone == SInv => TranslatedAsAlone
<1> SUFFICES ASSUME SInv PROVE TranslatedAsAlone
  OBVIOUS
<1>1. ASSUME NEW o \in Outputs, files[o].state = "whole"
      PROVE  HoldsTranslation(files[o], ClosedFor(o))
  <2>1. PICK i \in 1..Argc : LastFor(o, i) /\ HoldsTranslation(files[o], i)
    BY <1>1 DEF SInv, FilesInv
  <2>2. ClosedFor(o) = i
    <3> DEFINE named == {k \in 1..Argc : IsClosed(k) /\ OutputOf[argv[k]] = o}
    <3>1. i \in named /\ \A j \in named : j <= i
      BY <2>1 DEF LastFor, OutputAt
    <3>2. \A k \in named : (\A j \in named : j <= k) => k = i
      <4>1. \A k \in named : k \in Int
        OBVIOUS
      <4> HIDE DEF named
      <4> QED BY <3>1, <4>1
    <3>3. ClosedFor(o) = CHOOSE k \in named : \A j \in named : j <= k
      BY DEF ClosedFor
    <3> HIDE DEF named
    <3> QED BY <3>1, <3>2, <3>3
  <2> QED BY <2>1, <2>2
<1> QED BY <1>1, SInvTypeOK DEF TranslatedAsAlone

LEMMA SInvFatal == SInv => FatalLosesOneOutput
<1> SUFFICES ASSUME SInv, NEW i \in 1..Argc, ~IsFlag(i)
             PROVE  IF phase = "read" \/ status \in Stopped
                      THEN IF OutputAt(i) = OutputAt(script) THEN files[OutputAt(i)] = Lost
                           ELSE i < script => IsWhole(i)
                      ELSE IsClosed(i) /\ status # "no output" => IsWhole(i)
  BY DEF FatalLosesOneOutput, OutputAt, IsWhole
<1>1. FilesInv /\ Types
  BY DEF SInv
<1>2. CASE Busy
  <2>1. AtScript /\ files[OutputAt(script)] = Lost
    BY <1>1, <1>2 DEF FilesInv
  <2>2. OutputAt(i) # OutputAt(script) /\ i < script => IsWhole(i)
    BY <1>1, <2>1 DEF FilesInv, AtScript
  <2> QED BY <1>2, <2>1, <2>2 DEF Busy
<1>3. CASE ~Busy
  <2> SUFFICES ASSUME IsClosed(i), status # "no output" PROVE IsWhole(i)
    BY <1>3 DEF Busy, Stopped
  <2>1. Started
    BY DEF IsClosed
  <2>2. CASE i < script
    BY <1>1, <1>3, <2>1, <2>2 DEF FilesInv
  <2>3. CASE i = script /\ phase \in {"close", "exit"}
    <3>1. AtScript
      BY <2>1, <2>3 DEF AtScript
    <3>2. phase = "close" \/ status \in {"done", "not found"}
      BY <1>1, <1>3, <2>3 DEF Types, Busy, Stopped
    <3> QED BY <1>1, <2>3, <3>1, <3>2 DEF FilesInv
  <2> QED BY <2>2, <2>3 DEF IsClosed
<1> QED BY <1>2, <1>3

\* For any list of arguments and any texts, a closed output holds what its script becomes
\* in a run of its own, but for what close_translator does not reset.
THEOREM ScriptsAreTranslatedAlone == Spec => []TranslatedAsAlone
BY SessionInvariant, SInvAlone, PTL

\* For any list of arguments and any texts, a script that stops the program leaves its own
\* output with the header or nothing, and every output that was closed before it whole.
THEOREM OneOutputIsLost == Spec => []FatalLosesOneOutput
BY SessionInvariant, SInvFatal, PTL
================================================================================
