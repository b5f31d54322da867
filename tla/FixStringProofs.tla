---------------------------- MODULE FixStringProofs ----------------------------
(***************************************************************************)
(* Between two words the globals of fix_string.c are neutral, for words of *)
(* any length and nesting, any types wanted of them, and any number of     *)
(* them.                                                                   *)
(*                                                                         *)
(* While a word is translated, every text that is read is a part of it, in *)
(* the sense that an operator or the name BASH_REMATCH is found in it only *)
(* if the word has it (Kept).  With this, what may have been left in the   *)
(* globals follows from where on the C stack the translator is.            *)
(***************************************************************************)
EXTENDS FixString, FiniteSetTheorems, SequenceTheorems, WellFoundedInduction, TLAPS

LEMMA LeastNatural ==
  ASSUME NEW T \in SUBSET Nat, T # {}
  PROVE  \E n \in T : \A m \in T : n <= m
<1> DEFINE R == OpToRel(<, Nat)
<1>1. IsWellFoundedOn(R, Nat)
  BY NatLessThanWellFounded
<1>2. \A x, y \in Nat : (<<x, y>> \in R) <=> x < y
  BY DEF OpToRel
<1> HIDE DEF R
<1>3. PICK n \in T : \A m \in T : ~(<<m, n>> \in R)
  BY <1>1, WFMin
<1>4. ASSUME NEW m \in T PROVE n <= m
  <2>1. m \in Nat /\ n \in Nat
    OBVIOUS
  <2>2. ~(m < n)
    BY <1>2, <1>3, <2>1
  <2> QED BY ONLY <2>1, <2>2
<1> QED BY <1>4

LEMMA SequenceOf ==
  ASSUME NEW T, NEW n \in Nat, NEW f \in [1..n -> T]
  PROVE  f \in Seq(T)
OBVIOUS

-------------------------------------------------------------------------------
Now == script[Len(results) + 1]

IsSeq(s) == \E S : s \in Seq(S)

\* A text that is read has what the word has.
Kept(text) ==
  /\ IsSeq(text)
  /\ NamesRematch(text) => NamesRematch(Now.word)
  /\ IF NamedBy(Len(results) + 1)
     THEN OpensOperator(text, TRUE) => OpensOperator(Now.word, TRUE)
     ELSE OpensOperator(text, FALSE) => OpensOperator(Now.word, FALSE)

(***************************************************************************)
(* Frames                                                                  *)
(***************************************************************************)
Readers == {"substitute", "expand", "enclosed", "rest", "string", "arith", "function", "command"}
Position == Nat \ {0}

Fields ==
  [fix_string |-> {"proc", "pc", "want", "alts", "list"},
   substitute |-> {"proc", "pc", "at", "want", "want1", "file", "got", "quote", "offset"},
   expand |-> {"proc", "pc", "at", "offset"},
   enclosed |-> {"proc", "pc", "at", "start", "want"},
   rest |-> {"proc", "pc", "at", "array", "got", "want", "offset"},
   string |-> {"proc", "pc", "at", "first", "ends", "quote", "offset"},
   arith |-> {"proc", "pc", "at", "start", "blank", "offset"},
   function |-> {"proc", "pc", "parm", "offset", "want"},
   command |-> {"proc", "pc", "old"},
   operator |-> {"proc", "pc", "op", "last", "name", "repl", "pattern", "replaced",
                 "buffer", "new", "want"},
   main |-> {"proc", "pc"}]

FrameOK(f) ==
  /\ f.proc \in DOMAIN Fields /\ DOMAIN f = Fields[f.proc]
  /\ f.proc \in {"substitute", "expand", "enclosed", "rest", "string", "arith"} => f.at \in Position
  /\ f.proc \in {"substitute", "enclosed", "rest", "function", "operator", "fix_string"} => f.want \in Types
  /\ f.proc \in {"substitute", "rest"} => f.got \in Types
  /\ f.proc = "substitute" => f.want1 \in Types
  /\ f.proc = "command" => f.old \in Int
  /\ f.proc = "operator" => Kept(f.buffer) /\ Kept(f.repl) /\ Kept(<<f.name>>) /\ f.last \in Position
  /\ f.proc = "fix_string" =>
       /\ IsSeq(f.alts) /\ \A k \in DOMAIN f.alts : Kept(f.alts[k])
       /\ f.pc \in {"start", "next"} => f.alts # <<>>

\* main calls fix_string, and nothing else is done for it; the operators call it for
\* strings.
StackOK ==
  /\ IsSeq(stack)
  /\ \A j \in 1..Len(stack) : FrameOK(Frame(j)) /\ (Frame(j).proc = "main" <=> j = 1)
  /\ Len(stack) > 1 => Frame(2).proc = "fix_string"
  /\ \A j \in 2..Len(stack) : Frame(j).proc = "fix_string" =>
       /\ j = 2 \/ (Frame(j - 1).proc = "operator" /\ Frame(j).want = "STRING")
       /\ j = Len(stack) \/ Frame(j).pc = "fixed"
  /\ Len(results) <= Len(script) /\ (stack # <<>> => Len(results) < Len(script))

BufferKept == stack # <<>> /\ Top.proc \in Readers => Kept(buffer)

NestingInv ==
  /\ nesting \in Int /\ nesting <= Cardinality(Levels(Len(stack)))
  /\ Len(stack) < 2 \/ (Len(stack) = 2 /\ Top.pc = "start") => nesting = 0
  /\ \A j \in 1..Len(stack) :
       Frame(j).proc = "command" => Frame(j).old <= Cardinality(Levels(j - 1))

\* The first lexeme of the word is still to be read.
Beginning ==
  \/ Len(stack) = 2 /\ Top.pc \in {"start", "next"} /\ Top.want = Now.want
       /\ Top.alts # <<>> /\ Top.alts[1] # <<>> /\ Top.alts[1][1] = Now.word[1]
  \/ Len(stack) = 3 /\ Top.proc = "substitute" /\ Top.pc \in {"start", "loop"} /\ Top.at = 1
       /\ buffer # <<>> /\ buffer[1] = Now.word[1]

Begun == IF stack = <<>> THEN Len(results) ELSE Len(results) + 1

GlobInv ==
  /\ glob \in {"INACTIVE", "CONVERTING_GREEDY", "CONVERTING_UNGREEDY", "PROTECTING"}
  /\ Converting => \E j \in 1..Len(stack) : Frame(j).proc = "operator" /\ Frame(j).pc = "pattern"
  /\ \A j \in 1..Len(stack) : Frame(j).proc = "operator" => MayOperate(Begun)
  /\ glob = "PROTECTING" =>
       \E i \in 1..Begun :
         /\ MayOperate(i)
         /\ \A k \in (i + 1)..Begun :
              BeginsWithText(script[k]) => stack # <<>> /\ k = Begun /\ Beginning

OthersOK ==
  /\ regmatch \in BOOLEAN /\ crashed \in BOOLEAN /\ (regmatch => NamedBy(Begun))
  /\ DOMAIN ret = {"end", "got", "text"} /\ ret.end \in Nat /\ ret.got \in Types
  /\ script \in Scripts /\ IsSeq(results)

FInv == StackOK /\ BufferKept /\ NestingInv /\ GlobInv /\ OthersOK

-------------------------------------------------------------------------------
(***************************************************************************)
(* The stack                                                               *)
(***************************************************************************)
\* The frames that take the place of the first one
LEMMA Moves ==
  ASSUME IsSeq(stack), stack # <<>>, NEW top, IsSeq(top), stack' = top \o Tail(stack),
         NEW n, n = Len(stack)
  PROVE  /\ IsSeq(stack') /\ n \in Nat \ {0} /\ Len(top) \in Nat
         /\ Len(stack') = n - 1 + Len(top)
         /\ \A j \in 1..(n - 1) : Frame(j)' = Frame(j)
         /\ \A j \in 1..Len(top) : Frame(n - 1 + j)' = top[Len(top) + 1 - j]
         /\ Top = Frame(n) /\ (stack' = <<>> <=> n = 1 /\ Len(top) = 0)
<1>1. PICK S : stack \in Seq(S)
  BY DEF IsSeq
<1>2. PICK T : top \in Seq(T)
  BY DEF IsSeq
<1> DEFINE U == S \union T
<1>3. stack \in Seq(U) /\ top \in Seq(U)
  BY <1>1, <1>2
<1> HIDE DEF U
<1>4. top \o Tail(stack) \in Seq(U) /\ Tail(stack) \in Seq(U) /\ Len(Tail(stack)) = n - 1
      /\ n \in Nat \ {0} /\ Len(top) \in Nat
  BY <1>3
<1>5. Len(stack') = n - 1 + Len(top)
  BY <1>3, <1>4
<1>6. ASSUME NEW j \in 1..(n - 1) PROVE Frame(j)' = Frame(j)
  <2>1. Len(stack') + 1 - j \in (Len(top) + 1)..Len(stack')
    BY <1>4, <1>5
  <2>2. stack'[Len(stack') + 1 - j] = Tail(stack)[Len(stack') + 1 - j - Len(top)]
    BY <1>3, <1>4, <1>5, <2>1
  <2>3. Len(stack') + 1 - j - Len(top) = n - j /\ n - j \in 1..Len(Tail(stack))
    BY <1>4, <1>5
  <2>4. Tail(stack)[n - j] = stack[n - j + 1]
    BY <1>3, <2>3
  <2> QED BY <2>2, <2>3, <2>4, <1>4 DEF Frame
<1>7. ASSUME NEW j \in 1..Len(top) PROVE Frame(n - 1 + j)' = top[Len(top) + 1 - j]
  <2>1. Len(stack') + 1 - (n - 1 + j) = Len(top) + 1 - j
    BY <1>4, <1>5
  <2>2. stack'[Len(top) + 1 - j] = top[Len(top) + 1 - j]
    BY <1>3, <1>4
  <2> QED BY <2>1, <2>2 DEF Frame
<1>8. Top = Frame(n) /\ (stack' = <<>> <=> Len(stack') = 0)
  BY <1>3, <1>4 DEF Top, Frame
<1> QED BY <1>4, <1>5, <1>6, <1>7, <1>8 DEF IsSeq

LEMMA Tuples ==
  /\ \A s : IsSeq(s) => <<>> \o s = s
  /\ \A a, b : <<a>> \o <<b>> = <<a, b>>
  /\ \A a, b, c : <<a, b>> \o <<c>> = <<a, b, c>>
<1>1. ASSUME NEW s, IsSeq(s) PROVE <<>> \o s = s
  BY <1>1, ConcatEmptySeq DEF IsSeq
<1>2. ASSUME NEW a, NEW b PROVE <<a>> \o <<b>> = <<a, b>>
  <2>1. <<a>> \in Seq({a, b}) /\ <<b>> \in Seq({a, b}) /\ <<a, b>> \in Seq({a, b})
    OBVIOUS
  <2>2. Len(<<a>> \o <<b>>) = Len(<<a, b>>) /\ <<a>> \o <<b>> \in Seq({a, b})
    BY <2>1
  <2>3. \A i \in 1..Len(<<a, b>>) : (<<a>> \o <<b>>)[i] = <<a, b>>[i]
    BY <2>1
  <2> QED BY <2>1, <2>2, <2>3, SeqEqual
<1>3. ASSUME NEW a, NEW b, NEW c PROVE <<a, b>> \o <<c>> = <<a, b, c>>
  <2> DEFINE S == {a, b, c}
  <2>1. <<a, b>> \in Seq(S) /\ <<c>> \in Seq(S) /\ <<a, b, c>> \in Seq(S)
    OBVIOUS
  <2>2. Len(<<a, b>> \o <<c>>) = Len(<<a, b, c>>) /\ <<a, b>> \o <<c>> \in Seq(S)
    BY <2>1
  <2>3. \A i \in 1..Len(<<a, b, c>>) : (<<a, b>> \o <<c>>)[i] = <<a, b, c>>[i]
    BY <2>1
  <2> QED BY <2>1, <2>2, <2>3, SeqEqual
<1> QED BY <1>1, <1>2, <1>3

LEMMA Listed ==
  /\ IsSeq(<<>>) /\ Len(<<>>) = 0
  /\ \A a : IsSeq(<<a>>) /\ Len(<<a>>) = 1 /\ <<a>>[1] = a
  /\ \A a, b : IsSeq(<<a, b>>) /\ Len(<<a, b>>) = 2 /\ <<a, b>>[1] = a /\ <<a, b>>[2] = b
  /\ \A a, b, c : /\ IsSeq(<<a, b, c>>) /\ Len(<<a, b, c>>) = 3
                  /\ <<a, b, c>>[1] = a /\ <<a, b, c>>[2] = b /\ <<a, b, c>>[3] = c
<1>1. IsSeq(<<>>) /\ Len(<<>>) = 0
  <2>1. <<>> \in Seq({})
    OBVIOUS
  <2> QED BY <2>1 DEF IsSeq
<1>2. ASSUME NEW a PROVE IsSeq(<<a>>)
  <2>1. <<a>> \in Seq({a})
    OBVIOUS
  <2> QED BY <2>1 DEF IsSeq
<1>3. ASSUME NEW a, NEW b PROVE IsSeq(<<a, b>>)
  <2>1. <<a, b>> \in Seq({a, b})
    OBVIOUS
  <2> QED BY <2>1 DEF IsSeq
<1>4. ASSUME NEW a, NEW b, NEW c PROVE IsSeq(<<a, b, c>>)
  <2>1. <<a, b, c>> \in Seq({a, b, c})
    OBVIOUS
  <2> QED BY <2>1 DEF IsSeq
<1> QED BY <1>1, <1>2, <1>3, <1>4

LEMMA SequencesAre ==
  ASSUME NEW s, IsSeq(s)
  PROVE  Len(s) \in Nat /\ DOMAIN s = 1..Len(s) /\ (s = <<>> <=> Len(s) = 0)
BY DEF IsSeq

LEMMA SameItem ==
  ASSUME UNCHANGED <<script, results>>
  PROVE  /\ \A text : Kept(text) => Kept(text)'
         /\ \A f : FrameOK(f) => FrameOK(f)'
         /\ \A k : (MayOperate(k) => MayOperate(k)') /\ (NamedBy(k) => NamedBy(k)')
<1>1. \A k : (NamedBy(k)' <=> NamedBy(k)) /\ (MayOperate(k)' <=> MayOperate(k))
  BY DEF NamedBy, MayOperate
<1>2. Now' = Now /\ (NamedBy(Len(results) + 1)' = NamedBy(Len(results) + 1))
  BY DEF NamedBy, Now
<1>3. ASSUME NEW text, Kept(text) PROVE Kept(text)'
  BY <1>2, <1>3 DEF Kept
<1>4. ASSUME NEW f, FrameOK(f) PROVE FrameOK(f)'
  BY <1>3, <1>4 DEF FrameOK
<1> QED BY <1>1, <1>3, <1>4

LEMMA StackStep ==
  ASSUME StackOK, UNCHANGED <<script, results>>, NEW n, n = Len(stack), n > 1,
         NEW top, IsSeq(top), stack' = top \o Tail(stack),
         \A k \in 1..Len(top) :
           /\ FrameOK(top[k]) /\ top[k].proc # "main"
           /\ top[k].proc = "fix_string" =>
                /\ \/ k = Len(top) /\ Top.proc = "fix_string" /\ top[k].want = Top.want
                   \/ k < Len(top) /\ top[k + 1].proc = "operator" /\ top[k].want = "STRING"
                /\ k = 1 \/ top[k].pc = "fixed",
         Top.proc = "fix_string" => Len(top) = 0 \/ top[Len(top)].proc = "fix_string"
  PROVE  StackOK'
<1> DEFINE L == Len(top)
<1>1. /\ IsSeq(stack') /\ n \in Nat \ {0} /\ L \in Nat /\ Len(stack') = n - 1 + L
      /\ \A j \in 1..(n - 1) : Frame(j)' = Frame(j)
      /\ \A j \in 1..L : Frame(n - 1 + j)' = top[L + 1 - j]
      /\ Top = Frame(n) /\ (stack' = <<>> <=> n = 1 /\ L = 0)
  <2>1. stack # <<>> /\ IsSeq(stack)
    BY Listed DEF StackOK
  <2> QED BY <2>1, Moves
<1>2. \A f : FrameOK(f) => FrameOK(f)'
  BY SameItem
<1> HIDE DEF L
<1>3. ASSUME NEW j \in 1..(n - 1 + L)
      PROVE  \/ j \in 1..(n - 1) /\ Frame(j)' = Frame(j)
             \/ /\ j - n + 1 \in 1..L /\ L + n - j \in 1..L
                /\ Frame(j)' = top[L + n - j]
  <2>1. CASE j \in 1..(n - 1)
    BY <2>1, <1>1
  <2>2. CASE j \notin 1..(n - 1)
    <3>0. n \in Nat \ {0} /\ L \in Nat
      BY <1>1
    <3>1. j - n + 1 \in 1..L /\ n - 1 + (j - n + 1) = j /\ L + 1 - (j - n + 1) = L + n - j
          /\ L + n - j \in 1..L
      BY ONLY <3>0, <2>2, j \in 1..(n - 1 + L)
    <3> QED BY <3>1, <1>1
  <2> QED BY <2>1, <2>2
<1>4. ASSUME NEW j \in 1..(n - 1 + L)
      PROVE  FrameOK(Frame(j)') /\ (Frame(j)'.proc = "main" <=> j = 1)
  <2>1. CASE j \in 1..(n - 1) /\ Frame(j)' = Frame(j)
    BY <2>1, <1>1 DEF StackOK
  <2>2. CASE j - n + 1 \in 1..L /\ L + n - j \in 1..L /\ Frame(j)' = top[L + n - j]
    BY <2>2, <1>1 DEF L
  <2> QED BY <2>1, <2>2, <1>3
<1>5. n - 1 + L > 1 => Frame(2)'.proc = "fix_string"
  <2>1. CASE n > 2
    BY <2>1, <1>1 DEF StackOK
  <2>2. CASE n = 2 /\ L > 0
    <3>1. Top.proc = "fix_string"
      BY <2>2, <1>1 DEF StackOK
    <3>2. Frame(2)' = top[L]
      <4>1. 1 \in 1..L /\ n - 1 + 1 = 2 /\ L + 1 - 1 = L
        BY <2>2, <1>1
      <4> QED BY <1>1, <4>1
    <3> QED BY <3>1, <3>2, <2>2 DEF L
  <2> QED BY <2>1, <2>2, <1>1
<1>6. ASSUME NEW j \in 2..(n - 1 + L), Frame(j)'.proc = "fix_string"
      PROVE  /\ j = 2 \/ (Frame(j - 1)'.proc = "operator" /\ Frame(j)'.want = "STRING")
             /\ j = n - 1 + L \/ Frame(j)'.pc = "fixed"
  <2>1. CASE j \in 1..(n - 1) /\ Frame(j)' = Frame(j)
    <3>1. Frame(j - 1)' = Frame(j - 1)
      BY <1>1, <2>1
    <3>2. j \in 2..n /\ j # n
      BY <1>1, <2>1
    <3> QED BY <2>1, <1>6, <3>1, <3>2 DEF StackOK
  <2>2. CASE j - n + 1 \in 1..L /\ L + n - j \in 1..L /\ Frame(j)' = top[L + n - j]
    <3> DEFINE k == L + n - j
    <3>a. n \in Nat \ {0} /\ L \in Nat /\ j \in Int
      BY <1>1
    <3>b. (k = 1 <=> j = n - 1 + L) /\ (k = L <=> j = n) /\ (k < L <=> j > n)
      BY ONLY <3>a
    <3>0. k \in 1..L /\ top[k].proc = "fix_string" /\ (k = 1 <=> j = n - 1 + L)
          /\ Frame(j)' = top[k] /\ (k = L <=> j = n) /\ (k < L <=> j > n)
      BY <3>b, <1>6, <2>2
    <3>1. j = n - 1 + L \/ Frame(j)'.pc = "fixed"
      BY <3>0 DEF L
    <3>2. CASE k = L
      <4>1. j = n /\ Top.proc = "fix_string" /\ top[k].want = Top.want
        BY <3>0, <3>2 DEF L
      <4>2. Frame(n - 1)' = Frame(n - 1) /\ n \in 2..n
        BY <1>1
      <4>3. n = 2 \/ (Frame(n - 1).proc = "operator" /\ Frame(n).want = "STRING")
        BY <4>1, <4>2, <1>1 DEF StackOK
      <4> QED BY <4>1, <4>2, <4>3, <3>0, <3>1, <1>1
    <3>3. CASE k < L
      <4>1. Frame(j - 1)' = top[k + 1]
        <5>1. j - 1 \in 1..(n - 1 + L) /\ j - 1 \notin 1..(n - 1) /\ L + n - (j - 1) = k + 1
          BY ONLY <3>a, <3>b, <3>3, j \in 2..(n - 1 + L)
        <5>2. Frame(j - 1)' = top[L + n - (j - 1)]
          BY <5>1, <1>3
        <5> QED BY <5>1, <5>2
      <4>2. top[k + 1].proc = "operator" /\ top[k].want = "STRING"
        <5>1. k # L
          BY ONLY <3>3, <3>a
        <5> HIDE DEF k
        <5> QED BY <3>0, <5>1 DEF L
      <4> QED BY <4>1, <4>2, <3>0, <3>1
    <3> QED BY <3>0, <3>2, <3>3, <1>1
  <2> QED BY <2>1, <2>2, <1>3
<1>7. Len(stack)' = n - 1 + L /\ IsSeq(stack)' /\ stack # <<>>
  BY <1>1, Listed DEF IsSeq
<1>8. \A j \in 1..(n - 1 + L) : FrameOK(Frame(j))' /\ (Frame(j)'.proc = "main" <=> j = 1)
  <2>1. ASSUME NEW j \in 1..(n - 1 + L) PROVE FrameOK(Frame(j))'
    <3>1. PICK f : f = Frame(j)'
      OBVIOUS
    <3>2. FrameOK(f)
      BY <3>1, <1>4
    <3>3. FrameOK(f)'
      BY <3>2, <1>2
    <3> QED BY <3>1, <3>3 DEF FrameOK
  <2> QED BY <2>1, <1>4
<1> QED BY <1>5, <1>6, <1>7, <1>8 DEF StackOK
-------------------------------------------------------------------------------
(***************************************************************************)
(* The texts that are read                                                 *)
(***************************************************************************)
\* A part of a text, in which some lexemes are replaced by others that begin nothing
PartOf(part, text, d) ==
  /\ IsSeq(part)
  /\ \A i \in 1..Len(part) :
       /\ i + d \in 1..Len(text)
       /\ \/ part[i] = text[i + d]
          \/ /\ part[i] \notin Braced \union {"/", "#", "$M"}
             /\ text[i + d] \notin Operators \/ NamedBy(Len(results) + 1)

LEMMA KeptPart ==
  ASSUME NEW text, Kept(text), NEW part, NEW d \in Int, PartOf(part, text, d)
  PROVE  Kept(part)
<1>0. /\ IsSeq(part)
      /\ \A i \in 1..Len(part) :
           /\ i + d \in 1..Len(text)
           /\ \/ part[i] = text[i + d]
              \/ /\ part[i] \notin Braced \union {"/", "#", "$M"}
                 /\ text[i + d] \notin Operators \/ NamedBy(Len(results) + 1)
  BY DEF PartOf
<1>1. /\ DOMAIN text = 1..Len(text) /\ DOMAIN part = 1..Len(part)
      /\ Len(text) \in Nat /\ Len(part) \in Nat
  BY <1>0, SequencesAre DEF Kept
<1>2. NamesRematch(part) => NamesRematch(text)
  <2>1. ASSUME NEW i \in DOMAIN part, part[i] \in {"$M", "${M"}
        PROVE  \E k \in DOMAIN text : text[k] \in {"$M", "${M"}
    <3>1. i + d \in DOMAIN text /\ part[i] = text[i + d]
      BY <1>0, <1>1, <2>1 DEF Braced, Named
    <3> QED BY <3>1, <2>1
  <2> QED BY <2>1 DEF NamesRematch, Has
<1>3. ASSUME NEW i \in DOMAIN part, NEW j \in DOMAIN part,
             i < j, part[i] \in Named, part[j] \in {"/", "#"}
      PROVE  /\ i + d \in DOMAIN text /\ j + d \in DOMAIN text /\ i + d < j + d
             /\ text[i + d] \in Named /\ text[j + d] \in {"/", "#"}
  <2>1. part[i] \in Braced
    BY <1>3 DEF Braced
  <2>2. part[i] = text[i + d] /\ part[j] = text[j + d]
    BY <1>0, <1>1, <1>3, <2>1
  <2>3. i + d \in 1..Len(text) /\ j + d \in 1..Len(text) /\ i + d < j + d
    BY <1>0, <1>1, <1>3
  <2> QED BY <1>1, <1>3, <2>2, <2>3
<1>4. CASE NamedBy(Len(results) + 1)
  <2>1. OpensOperator(part, TRUE) => OpensOperator(text, TRUE)
    BY <1>3 DEF OpensOperator
  <2> QED BY <1>0, <1>2, <1>4, <2>1 DEF Kept
<1>5. CASE ~NamedBy(Len(results) + 1)
  <2>1. ASSUME OpensOperator(part, FALSE) PROVE OpensOperator(text, FALSE)
    <3>1. PICK i \in DOMAIN part, j \in DOMAIN part :
            /\ i < j /\ part[i] \in Named /\ part[j] \in {"/", "#"}
            /\ \A k \in (i + 1)..(j - 1) : part[k] \notin Operators
      BY <2>1 DEF OpensOperator
    <3>2. i \in Int /\ j \in Int
      BY <1>1
    <3>3. PICK a \in Int, b \in Int : a = i + d /\ b = j + d
      BY <3>2
    <3>4. ASSUME NEW k \in (a + 1)..(b - 1) PROVE text[k] \notin Operators
      <4>1. k \in Int /\ k - d \in (i + 1)..(j - 1) /\ (k - d) + d = k
        BY ONLY <3>2, <3>3, d \in Int, k \in (a + 1)..(b - 1)
      <4>2. k - d \in 1..Len(part)
        BY <1>1, <3>2, <4>1
      <4> QED BY <1>0, <1>5, <4>1, <4>2, <3>1
    <3>5. a \in DOMAIN text /\ b \in DOMAIN text /\ a < b /\ text[a] \in Named /\ text[b] \in {"/", "#"}
      BY <1>3, <3>1, <3>3
    <3> QED BY <3>4, <3>5 DEF OpensOperator
  <2> QED BY <1>0, <1>2, <1>5, <2>1 DEF Kept
<1> QED BY <1>4, <1>5

LEMMA KeptSubSeq ==
  ASSUME NEW text, Kept(text), NEW m \in Nat \ {0}, NEW n \in Int, n <= Len(text)
  PROVE  Kept(SubSeq(text, m, n)) /\ Len(SubSeq(text, m, n)) <= Len(text)
<1>1. IsSeq(text) /\ Len(text) \in Nat
  BY SequencesAre DEF Kept
<1>2. CASE n < m
  <2>1. SubSeq(text, m, n) = <<>>
    BY <1>2, SubSeqEmpty
  <2>2. PartOf(<<>>, text, 0)
    BY Listed DEF PartOf
  <2> QED BY <1>1, <2>1, <2>2, Listed, 0 \in Int, KeptPart
<1>3. CASE m <= n
  <2>1. PICK S : text \in Seq(S)
    BY <1>1 DEF IsSeq
  <2>2. m \in Int /\ \A i \in m..n : text[i] \in S
    BY <2>1, <1>3
  <2>3. /\ SubSeq(text, m, n) \in Seq(S) /\ Len(SubSeq(text, m, n)) = n - m + 1
        /\ \A i \in 1..(n - m + 1) : SubSeq(text, m, n)[i] = text[m + i - 1]
    BY <1>3, <2>2, SubSeqProperties
  <2>4. \A i \in 1..(n - m + 1) : i + (m - 1) = m + i - 1 /\ i + (m - 1) \in 1..Len(text)
    BY <1>1
  <2>5. m - 1 \in Int /\ n - m + 1 <= Len(text)
    BY <1>1, <1>3
  <2>6. PartOf(SubSeq(text, m, n), text, m - 1)
    BY <2>3, <2>4 DEF PartOf, IsSeq
  <2> QED BY <2>3, <2>5, <2>6, KeptPart
<1> QED BY <1>2, <1>3

LEMMA KeptReopened ==
  ASSUME NEW text, Kept(text), NEW p, NEW match, match => NamedBy(Len(results) + 1)
  PROVE  Kept(Reopened(text, p, match))
<1>1. IsSeq(text) /\ Len(text) \in Nat /\ DOMAIN text = 1..Len(text)
  BY SequencesAre DEF Kept
<1>2. CASE match /\ p \in DOMAIN text
  <2> DEFINE part == [text EXCEPT ![p] = "("]
  <2>1. PICK S : text \in Seq(S)
    BY <1>1 DEF IsSeq
  <2>2. text \in Seq(S \union {"("}) /\ p \in 1..Len(text) /\ "(" \in S \union {"("}
    BY <1>1, <1>2, <2>1
  <2>3. /\ part \in Seq(S \union {"("}) /\ Len(part) = Len(text)
        /\ \A i \in 1..Len(text) : part[i] = IF i = p THEN "(" ELSE text[i]
    BY <2>2, ExceptSeq
  <2>4. \A i \in 1..Len(text) : i + 0 = i
    BY <1>1
  <2>5. "(" \notin Braced \union {"/", "#", "$M"}
    BY DEF Braced, Named
  <2> HIDE DEF part
  <2>6. PartOf(part, text, 0)
    BY <2>3, <2>4, <2>5, <1>2 DEF PartOf, IsSeq
  <2>7. Kept(part)
    BY <2>6, 0 \in Int, KeptPart
  <2> QED BY <2>7, <1>2 DEF Reopened, part
<1> QED BY <1>2 DEF Reopened

\* The alternatives of a brace expression
LEMMA KeptExpansions ==
  ASSUME NEW word, Kept(word), word # <<>>
  PROVE  /\ IsSeq(Expansions(word)) /\ Expansions(word) # <<>>
         /\ \A k \in DOMAIN Expansions(word) : Kept(Expansions(word)[k])
         /\ Expansions(word)[1] # <<>>
         /\ word[1] # "{a,b}" => Expansions(word)[1][1] = word[1]
<1>1. IsSeq(word) /\ Len(word) \in Nat \ {0} /\ DOMAIN word = 1..Len(word) /\ 1 \in DOMAIN word
  <2>1. IsSeq(word)
    BY DEF Kept
  <2> QED BY <2>1, SequencesAre
<1> DEFINE Outside(i) == Count(word, Braced, i) = Count(word, {"}"}, i)
           With(c) == [i \in DOMAIN word |-> IF word[i] = "{a,b}" /\ Outside(i) THEN c ELSE word[i]]
           two == \E i \in DOMAIN word : word[i] = "{a,b}" /\ Outside(i)
<1> HIDE DEF Outside
<1>2. ASSUME NEW c \in {"a", "b"}
      PROVE  Kept(With(c)) /\ With(c) # <<>> /\ (word[1] # "{a,b}" => With(c)[1] = word[1])
  <2>a. PICK S : word \in Seq(S)
    BY <1>1 DEF IsSeq
  <2>b. \A i \in DOMAIN word : word[i] \in S
    BY <2>a
  <2>0. With(c) \in [1..Len(word) -> S \union {c}]
    BY <1>1, <2>b
  <2>1. IsSeq(With(c)) /\ Len(With(c)) = Len(word)
    <3> HIDE DEF With
    <3>1. With(c) \in Seq(S \union {c})
      BY <1>1, <2>0, SequenceOf
    <3>2. DOMAIN With(c) = 1..Len(word)
      BY <2>0
    <3> QED BY <1>1, <3>1, <3>2 DEF IsSeq
  <2>2. ASSUME NEW i \in 1..Len(With(c))
        PROVE  /\ i + 0 \in 1..Len(word)
               /\ \/ With(c)[i] = word[i + 0]
                  \/ /\ With(c)[i] \notin Braced \union {"/", "#", "$M"}
                     /\ word[i + 0] \notin Operators \/ NamedBy(Len(results) + 1)
    <3>1. i + 0 = i /\ i \in DOMAIN word
      <4> HIDE DEF With
      <4> QED BY <1>1, <2>1
    <3>2. With(c)[i] = IF word[i] = "{a,b}" /\ Outside(i) THEN c ELSE word[i]
      BY <3>1
    <3>3. c \notin Braced \union {"/", "#", "$M"} /\ "{a,b}" \notin Operators
      BY DEF Braced, Named, Operators
    <3> QED BY <1>1, <3>1, <3>2, <3>3
  <2>3. word[1] # "{a,b}" => With(c)[1] = word[1]
    BY <1>1
  <2> HIDE DEF With
  <2>4. Len(With(c)) # 0 /\ Len(<<>>) = 0
    BY <1>1, <2>1, Listed
  <2>5. PartOf(With(c), word, 0)
    BY <2>1, <2>2 DEF PartOf
  <2>6. Kept(With(c))
    BY <2>5, 0 \in Int, KeptPart
  <2> QED BY <2>3, <2>4, <2>6
<1>3. Expansions(word) = IF two THEN <<With("a"), With("b")>> ELSE <<word>>
  BY DEF Expansions, Outside
<1> HIDE DEF With, two
<1>4. CASE two
  <2>1. Expansions(word) = <<With("a"), With("b")>>
    BY <1>3, <1>4
  <2>2. PICK v, w : v = With("a") /\ w = With("b")
    OBVIOUS
  <2>3. Kept(v) /\ Kept(w) /\ v # <<>> /\ (word[1] # "{a,b}" => v[1] = word[1])
    BY <2>2, <1>2
  <2>4. Expansions(word) = <<v, w>> /\ IsSeq(<<v, w>>) /\ DOMAIN <<v, w>> = 1..2
        /\ <<v, w>>[1] = v /\ <<v, w>>[2] = w /\ <<v, w>> # <<>>
    BY <2>1, <2>2, Listed
  <2> HIDE DEF two, With
  <2>5. ASSUME NEW k \in 1..2 PROVE Kept(<<v, w>>[k])
    <3>1. k = 1 \/ k = 2
      OBVIOUS
    <3> QED BY <3>1, <2>3, <2>4
  <2> QED BY <2>3, <2>4, <2>5
<1>5. CASE ~two
  <2>1. Expansions(word) = <<word>>
    BY <1>3, <1>5
  <2> QED BY <2>1, Listed
<1> QED BY <1>4, <1>5

\* The positions that searches find
LEMMA GreatestNatural ==
  ASSUME NEW n \in Nat, NEW T \in SUBSET (1..n), T # {}
  PROVE  \E i \in T : \A k \in T : k <= i
<1> DEFINE R == {n - i : i \in T}
<1>0. \A i \in T : i \in 1..n /\ n - i \in Nat /\ n - i \in R
  OBVIOUS
<1>1. R \in SUBSET Nat /\ R # {}
  BY <1>0
<1>2. PICK r \in R : \A q \in R : r <= q
  BY <1>1, LeastNatural
<1>3. PICK i \in T : r = n - i
  OBVIOUS
<1> HIDE DEF R
<1>4. ASSUME NEW k \in T PROVE k <= i
  <2>1. n - i <= n - k /\ k \in Int /\ i \in Int
    BY <1>0, <1>2, <1>3
  <2> QED BY ONLY <2>1, n \in Nat
<1> QED BY <1>4

LEMMA Searches ==
  ASSUME NEW text, IsSeq(text), NEW p \in Position
  PROVE  /\ \A S : /\ FirstFrom(text, S, p) \in Position
                   /\ FirstFrom(text, S, p) <= Len(text) =>
                        /\ FirstFrom(text, S, p) >= p /\ text[FirstFrom(text, S, p)] \in S
                        /\ \A k \in p..(FirstFrom(text, S, p) - 1) : text[k] \notin S
         /\ LastBrace(text, p) \in 0..Len(text)
         /\ Delimiter(text) \in 0..Len(text)
<1>1. Len(text) \in Nat /\ DOMAIN text = 1..Len(text) /\ p \in Nat \ {0}
  BY SequencesAre DEF Position
<1>2. ASSUME NEW S
      PROVE  /\ FirstFrom(text, S, p) \in Position
             /\ FirstFrom(text, S, p) <= Len(text) =>
                  /\ FirstFrom(text, S, p) >= p /\ text[FirstFrom(text, S, p)] \in S
                  /\ \A k \in p..(FirstFrom(text, S, p) - 1) : text[k] \notin S
  <2> DEFINE found == {i \in p..Len(text) : text[i] \in S}
             first == CHOOSE i \in found : \A k \in found : i <= k
  <2>1. CASE found = {}
    BY <1>1, <2>1 DEF FirstFrom, Position
  <2>2. CASE found # {}
    <3>1. found \in SUBSET Nat
      BY <1>1
    <3>2. \E i \in found : \A k \in found : i <= k
      BY <3>1, <2>2, LeastNatural
    <3>3. first \in found /\ \A k \in found : first <= k
      BY <3>2
    <3>4. FirstFrom(text, S, p) = first
      BY <2>2 DEF FirstFrom
    <3>5. ASSUME NEW k \in p..(first - 1) PROVE text[k] \notin S
      <4>1. k \in p..Len(text) /\ ~(first <= k)
        BY <1>1, <3>3
      <4> QED BY <4>1, <3>3
    <3> HIDE DEF first
    <3> QED BY <1>1, <3>3, <3>4, <3>5 DEF Position
  <2> QED BY <2>1, <2>2
<1>3. LastBrace(text, p) \in 0..Len(text)
  <2> DEFINE found == {i \in p..Len(text) : text[i] = "}"}
  <2>0. \A i \in p..Len(text) : i \in 1..Len(text)
    BY <1>1
  <2>1. found \in SUBSET (1..Len(text))
    BY <2>0
  <2>2. CASE found # {}
    <3>1. \E i \in found : \A k \in found : k <= i
      BY <1>1, <2>1, <2>2, GreatestNatural
    <3>2. LastBrace(text, p) \in found
      BY <3>1, <2>2 DEF LastBrace
    <3>3. LastBrace(text, p) \in 1..Len(text)
      BY <3>2, <2>1
    <3> QED BY ONLY <1>1, <3>3
  <2>3. CASE found = {}
    <3>1. LastBrace(text, p) = 0
      BY <2>3 DEF LastBrace
    <3> QED BY <1>1, <3>1
  <2> QED BY <2>2, <2>3
<1>4. Delimiter(text) \in 0..Len(text)
  <2> DEFINE Open(i) == Count(text, Braced \union {"$((", "$("}, i) - Count(text, {"}", "))", ")"}, i)
             found == {i \in DOMAIN text :
                         i # 1 /\ text[i] = "/" /\ Open(i) = 0 /\ Count(text, {"\""}, i) % 2 = 0}
  <2> HIDE DEF Open
  <2>0. \A i \in DOMAIN text : i \in 1..Len(text) /\ i \in Nat
    BY <1>1
  <2>1. found \in SUBSET (1..Len(text)) /\ found \in SUBSET Nat
    BY <2>0
  <2>2. Delimiter(text) = IF found = {} THEN 0 ELSE CHOOSE i \in found : \A k \in found : i <= k
    BY DEF Delimiter, Open
  <2> HIDE DEF found
  <2>3. CASE found # {}
    <3>1. \E i \in found : \A k \in found : i <= k
      BY <2>1, <2>3, LeastNatural
    <3>2. Delimiter(text) \in found
      BY <3>1, <2>2, <2>3
    <3>3. Delimiter(text) \in 1..Len(text)
      BY <3>2, <2>1
    <3> QED BY ONLY <1>1, <3>3
  <2>4. CASE found = {}
    BY <1>1, <2>2, <2>4
  <2> QED BY <2>3, <2>4
<1> QED BY <1>2, <1>3, <1>4
-------------------------------------------------------------------------------
(***************************************************************************)
(* The level of arithmetic                                                 *)
(***************************************************************************)
LEMMA LevelsGrow ==
  ASSUME NEW m \in Nat
  PROVE  /\ IsFiniteSet(Levels(m)) /\ Cardinality(Levels(m)) \in Nat
         /\ Cardinality(Levels(m + 1)) =
              Cardinality(Levels(m)) + (IF ReadsArithmetic(Frame(m + 1)) THEN 1 ELSE 0)
         /\ \A k \in 0..m : Cardinality(Levels(k)) <= Cardinality(Levels(m))
<1>1. ASSUME NEW k \in Nat PROVE IsFiniteSet(Levels(k)) /\ Cardinality(Levels(k)) \in Nat
  <2>1. IsFiniteSet(1..k)
    BY FS_Interval
  <2>2. Levels(k) \subseteq 1..k
    BY DEF Levels
  <2> QED BY <2>1, <2>2, FS_Subset, FS_CardinalityType
<1>2. ASSUME ReadsArithmetic(Frame(m + 1))
      PROVE  Cardinality(Levels(m + 1)) = Cardinality(Levels(m)) + 1
  <2>1. Levels(m + 1) = Levels(m) \union {m + 1} /\ m + 1 \notin Levels(m)
    BY <1>2 DEF Levels
  <2> QED BY <1>1, <2>1, FS_AddElement
<1>3. ASSUME ~ReadsArithmetic(Frame(m + 1))
      PROVE  Cardinality(Levels(m + 1)) = Cardinality(Levels(m))
  <2>1. \A j \in 1..(m + 1) : ReadsArithmetic(Frame(j)) => j \in 1..m
    BY <1>3
  <2>2. Levels(m + 1) = Levels(m)
    BY <2>1 DEF Levels
  <2> QED BY <2>2
<1>4. ASSUME NEW k \in 0..m PROVE Cardinality(Levels(k)) <= Cardinality(Levels(m))
  <2>1. Levels(k) \subseteq Levels(m)
    BY DEF Levels
  <2> QED BY <1>1, <2>1, FS_Subset
<1> QED BY <1>1, <1>2, <1>3, <1>4

\* A step leaves the levels below the frame that runs.
LEMMA LevelsStay ==
  ASSUME NEW n \in Nat, \A j \in 1..n : Frame(j)' = Frame(j)
  PROVE  /\ \A m \in 0..n : Cardinality(Levels(m))' = Cardinality(Levels(m))
         /\ \A m \in Nat : /\ Cardinality(Levels(m))' \in Nat
                           /\ m >= n => Cardinality(Levels(n)) <= Cardinality(Levels(m))'
                           /\ (\E j \in (n + 1)..m : ReadsArithmetic(Frame(j))') =>
                                Cardinality(Levels(n)) + 1 <= Cardinality(Levels(m))'
<1>1. ASSUME NEW m \in 0..n PROVE Levels(m)' = Levels(m)
  <2>1. \A j \in 1..m : ReadsArithmetic(Frame(j))' <=> ReadsArithmetic(Frame(j))
    <3>1. ASSUME NEW j \in 1..m PROVE Frame(j)' = Frame(j)
      OBVIOUS
    <3> QED BY <3>1 DEF ReadsArithmetic
  <2> QED BY <2>1 DEF Levels
<1>2. ASSUME NEW m \in Nat PROVE IsFiniteSet(Levels(m)') /\ Cardinality(Levels(m)') \in Nat
  <2>1. IsFiniteSet(1..m)
    BY FS_Interval
  <2>2. Levels(m)' \subseteq 1..m
    BY DEF Levels
  <2> QED BY <2>1, <2>2, FS_Subset, FS_CardinalityType
<1>3. ASSUME NEW m \in Nat, m >= n PROVE Cardinality(Levels(n)) <= Cardinality(Levels(m)')
  <2>1. Levels(n)' \subseteq Levels(m)'
    BY <1>3 DEF Levels
  <2>2. Levels(n) \subseteq Levels(m)'
    BY <1>1, <2>1
  <2> QED BY <1>2, <2>2, FS_Subset
<1>4. ASSUME NEW m \in Nat, NEW j \in (n + 1)..m, ReadsArithmetic(Frame(j))'
      PROVE  Cardinality(Levels(n)) + 1 <= Cardinality(Levels(m)')
  <2>1. Levels(n)' \subseteq Levels(m)' /\ j \in Levels(m)' /\ j \notin Levels(n)'
    BY <1>4 DEF Levels
  <2>2. Levels(n) \union {j} \subseteq Levels(m)' /\ j \notin Levels(n)
    BY <1>1, <2>1
  <2>3. IsFiniteSet(Levels(n)) /\ Cardinality(Levels(n)) \in Nat
    BY LevelsGrow
  <2>4. Cardinality(Levels(n) \union {j}) = Cardinality(Levels(n)) + 1
    BY <2>2, <2>3, FS_AddElement
  <2>5. Cardinality(Levels(n) \union {j}) <= Cardinality(Levels(m)')
    BY <1>2, <2>2, FS_Subset
  <2> QED BY <2>4, <2>5
<1> QED BY <1>1, <1>2, <1>3, <1>4
-------------------------------------------------------------------------------
(***************************************************************************)
(* A step of a word that has begun: the frames top take the place of the   *)
(* first one                                                               *)
(***************************************************************************)
RetOK == DOMAIN ret = {"end", "got", "text"} /\ ret.end \in Nat /\ ret.got \in Types

\* The level is counted with the frames.
LevelMoves(top) ==
  /\ nesting' \in Int
  /\ \/ nesting' = 0
     \/ Top.proc = "command" /\ nesting' = Top.old
     \/ /\ nesting' = nesting
        /\ ReadsArithmetic(Top) => Len(top) > 0 /\ ReadsArithmetic(top[Len(top)])
     \/ nesting' = nesting - 1 /\ ReadsArithmetic(Top) /\ Len(top) = 0
     \/ nesting' = nesting + 1 /\ ~ReadsArithmetic(Top) /\ Len(top) > 1 /\ ReadsArithmetic(top[1])
     \/ nesting' = 1 /\ Len(top) > 0 /\ ReadsArithmetic(top[Len(top)])
  /\ Len(stack) = 2 /\ Len(top) = 0 => nesting' = 0
  /\ Len(stack) = 2 /\ Len(top) = 1 => top[1].pc # "start"

\* What is converted and protected goes with the operators.
GlobMoves(top) ==
  /\ glob' \in {"INACTIVE", "CONVERTING_GREEDY", "CONVERTING_UNGREEDY", "PROTECTING"}
  /\ Converting' =>
       \/ \E k \in 1..Len(top) : top[k].proc = "operator" /\ top[k].pc = "pattern"
       \/ Converting /\ ~(Top.proc = "operator" /\ Top.pc = "pattern")
  /\ glob' = "PROTECTING" =>
       \/ MayOperate(Begun)
       \/ glob = "PROTECTING" /\ (Beginning /\ BeginsWithText(Now) => Beginning')

\* The frames that fit on the others
Fit(top) ==
  /\ Top.proc = "fix_string" => Len(top) = 0 \/ top[Len(top)].proc = "fix_string"
  /\ \A k \in 1..Len(top) :
       /\ FrameOK(top[k]) /\ top[k].proc # "main"
       /\ top[k].proc = "fix_string" =>
            /\ \/ k = Len(top) /\ Top.proc = "fix_string" /\ top[k].want = Top.want
               \/ k < Len(top) /\ top[k + 1].proc = "operator" /\ top[k].want = "STRING"
            /\ k = 1 \/ top[k].pc = "fixed"
       /\ top[k].proc = "command" =>
            k < Len(top) /\ top[k].old = nesting /\ ~ReadsArithmetic(Top)
       /\ top[k].proc = "operator" => MayOperate(Begun)

Steps(top) ==
  /\ UNCHANGED <<script, results>> /\ Len(stack) > 1
  /\ IsSeq(top) /\ stack' = top \o Tail(stack)
  /\ Fit(top) /\ LevelMoves(top) /\ GlobMoves(top)
  /\ Top'.proc \in Readers => Kept(buffer')
  /\ regmatch' \in BOOLEAN /\ (regmatch' => NamedBy(Len(results) + 1))
  /\ crashed' \in BOOLEAN /\ RetOK'

LEMMA ReadersAre ==
  /\ {"main", "fix_string", "operator"} \intersect Readers = {}
  /\ \A f : f.proc \in Readers => (ReadsArithmetic(f) <=> f.proc = "arith")
BY DEF Readers, ReadsArithmetic

LEMMA DeepEnough ==
  ASSUME StackOK, stack # <<>>
  PROVE  /\ Len(stack) \in Nat \ {0} /\ Top = Frame(Len(stack)) /\ FrameOK(Top) /\ IsSeq(stack)
         /\ Top.proc \in Readers \union {"operator"} => Len(stack) > 2
         /\ Top.proc = "fix_string" => Len(stack) > 1
         /\ Len(results) + 1 = Begun
<1>1. IsSeq(stack) /\ Len(stack) \in Nat \ {0}
  <2>1. IsSeq(stack)
    BY DEF StackOK
  <2> QED BY <2>1, SequencesAre
<1>2. Top = Frame(Len(stack))
  BY <1>1 DEF Top, Frame, IsSeq
<1>3. FrameOK(Top) /\ (Top.proc = "main" <=> Len(stack) = 1)
  <2>1. PICK n \in Nat \ {0} : n = Len(stack)
    BY <1>1
  <2>2. n \in 1..n
    OBVIOUS
  <2>3. FrameOK(Frame(n)) /\ (Frame(n).proc = "main" <=> n = 1)
    BY <2>1, <2>2 DEF StackOK
  <2> QED BY <1>2, <2>1, <2>3
<1>4. Len(stack) = 2 => Top.proc = "fix_string"
  BY <1>2 DEF StackOK
<1>5. Top.proc \in Readers \union {"operator"} => Top.proc # "main" /\ Top.proc # "fix_string"
  BY ReadersAre
<1>6. Top.proc = "fix_string" => Top.proc # "main"
  OBVIOUS
<1>7. PICK n \in Nat \ {0} : n = Len(stack)
  BY <1>1
<1>8. /\ Top.proc \in Readers \union {"operator"} => n > 2
      /\ Top.proc = "fix_string" => n > 1
  BY <1>3, <1>4, <1>5, <1>6, <1>7
<1> QED BY <1>1, <1>2, <1>3, <1>7, <1>8 DEF Begun

LEMMA StepsKeep ==
  ASSUME FInv, NEW top, Steps(top)
  PROVE  FInv'
<1> DEFINE L == Len(top)
<1>n. PICK n : n = Len(stack)
  OBVIOUS
<1>0. stack # <<>>
  <2>1. Len(stack) > 1 /\ Len(<<>>) = 0
    BY Listed DEF Steps
  <2> QED BY <2>1
<1>1. /\ n \in Nat \ {0} /\ n > 1 /\ Top = Frame(n) /\ IsSeq(stack) /\ stack # <<>>
      /\ Begun = Len(results) + 1 /\ FrameOK(Top)
  BY <1>n, <1>0, DeepEnough DEF FInv, Steps
<1>2. /\ IsSeq(stack') /\ L \in Nat /\ Len(stack') = n - 1 + L
      /\ \A j \in 1..(n - 1) : Frame(j)' = Frame(j)
      /\ \A j \in 1..L : Frame(n - 1 + j)' = top[L + 1 - j]
      /\ stack' # <<>>
  <2>1. IsSeq(top) /\ stack' = top \o Tail(stack)
    BY DEF Steps
  <2>2. /\ IsSeq(stack') /\ n \in Nat \ {0} /\ L \in Nat /\ Len(stack') = n - 1 + L
        /\ \A j \in 1..(n - 1) : Frame(j)' = Frame(j)
        /\ \A j \in 1..L : Frame(n - 1 + j)' = top[L + 1 - j]
        /\ Top = Frame(n) /\ (stack' = <<>> <=> n = 1 /\ L = 0)
    BY <1>1, <1>n, <2>1, Moves
  <2> QED BY <1>1, <2>2
<1>3. \A k \in 1..L :
        /\ FrameOK(top[k])
        /\ top[k].proc = "command" => k < L /\ top[k].old = nesting /\ ~ReadsArithmetic(Top)
        /\ top[k].proc = "operator" => MayOperate(Begun)
  BY DEF Steps, Fit
<1>4. ASSUME NEW j \in 1..(n - 1 + L)
      PROVE  \/ j \in 1..(n - 1) /\ Frame(j)' = Frame(j)
             \/ /\ j >= n /\ L + n - j \in 1..L
                /\ Frame(j)' = top[L + n - j]
  <2>1. CASE j \in 1..(n - 1)
    BY <2>1, <1>2
  <2>2. CASE j \notin 1..(n - 1)
    <3>0. n \in Nat \ {0} /\ L \in Nat
      BY <1>1, <1>2
    <3>1. j - n + 1 \in 1..L /\ n - 1 + (j - n + 1) = j /\ L + 1 - (j - n + 1) = L + n - j
          /\ L + n - j \in 1..L /\ j >= n
      BY ONLY <3>0, <2>2, j \in 1..(n - 1 + L)
    <3> QED BY <3>1, <1>2
  <2> QED BY <2>1, <2>2
<1>5. StackOK'
  <2>1. \A k \in 1..Len(top) :
           /\ FrameOK(top[k]) /\ top[k].proc # "main"
           /\ top[k].proc = "fix_string" =>
                /\ \/ k = Len(top) /\ Top.proc = "fix_string" /\ top[k].want = Top.want
                   \/ k < Len(top) /\ top[k + 1].proc = "operator" /\ top[k].want = "STRING"
                /\ k = 1 \/ top[k].pc = "fixed"
    BY DEF Steps, Fit
  <2>2. Top.proc = "fix_string" => Len(top) = 0 \/ top[Len(top)].proc = "fix_string"
    BY DEF Steps, Fit
  <2>3. StackOK /\ UNCHANGED <<script, results>> /\ IsSeq(top) /\ stack' = top \o Tail(stack)
    BY DEF FInv, Steps
  <2> QED BY <1>n, <1>1, <2>1, <2>2, <2>3, StackStep
<1>6. Begun' = Begun /\ Len(results)' = Len(results) /\ UNCHANGED <<script, results>>
  BY <1>1, <1>2 DEF Begun, Steps
<1>7. BufferKept'
  <2>. SUFFICES ASSUME Top'.proc \in Readers PROVE Kept(buffer)'
    BY DEF BufferKept
  <2>0. Kept(buffer')
    BY DEF Steps
  <2>1. PICK b : b = buffer'
    OBVIOUS
  <2>2. Kept(b)'
    BY <1>6, <2>0, <2>1, SameItem DEF Steps
  <2>3. Kept(buffer)'
    BY <2>1, <2>2 DEF Kept
  <2> QED BY <2>3
<1>8. GlobInv'
  <2>1. GlobMoves(top)
    BY DEF Steps
  <2>2. glob' \in {"INACTIVE", "CONVERTING_GREEDY", "CONVERTING_UNGREEDY", "PROTECTING"}
    BY <2>1 DEF GlobMoves
  <2>3. ASSUME Converting'
        PROVE  \E j \in 1..Len(stack)' : Frame(j)'.proc = "operator" /\ Frame(j)'.pc = "pattern"
    <3>1. CASE \E k \in 1..L : top[k].proc = "operator" /\ top[k].pc = "pattern"
      <4>1. PICK k \in 1..L : top[k].proc = "operator" /\ top[k].pc = "pattern"
        BY <3>1
      <4>2. /\ L + 1 - k \in 1..L /\ L + 1 - (L + 1 - k) = k
            /\ n - 1 + (L + 1 - k) \in 1..(n - 1 + L)
        BY <1>1, <1>2
      <4>3. Frame(n - 1 + (L + 1 - k))' = top[k]
        BY <1>2, <4>2
      <4> QED BY <1>2, <4>1, <4>2, <4>3
    <3>2. CASE Converting /\ ~(Top.proc = "operator" /\ Top.pc = "pattern")
      <4>1. PICK j \in 1..n : Frame(j).proc = "operator" /\ Frame(j).pc = "pattern"
        BY <1>n, <3>2 DEF FInv, GlobInv
      <4>2. j # n
        BY <1>1, <3>2, <4>1
      <4>3. j \in 1..(n - 1) /\ j \in 1..(n - 1 + L)
        BY <1>1, <1>2, <4>2
      <4> QED BY <1>2, <4>1, <4>3
    <3> QED BY <2>1, <2>3, <3>1, <3>2 DEF GlobMoves
  <2>4. ASSUME NEW j \in 1..Len(stack)', Frame(j)'.proc = "operator"
        PROVE  MayOperate(Begun)'
    <3>1. ASSUME j \in 1..(n - 1) /\ Frame(j)' = Frame(j) PROVE MayOperate(Begun)
      <4>1. j \in 1..n
        BY <1>1, <3>1
      <4> QED BY <1>n, <2>4, <3>1, <4>1 DEF FInv, GlobInv
    <3>3. ASSUME j >= n /\ L + n - j \in 1..L /\ Frame(j)' = top[L + n - j] PROVE MayOperate(Begun)
      BY <1>3, <2>4, <3>3
    <3>2. MayOperate(Begun)
      BY <1>2, <1>4, <3>1, <3>3
    <3> QED BY <1>6, <3>2, SameItem DEF MayOperate, NamedBy
  <2>5. ASSUME glob' = "PROTECTING"
        PROVE  \E i \in 1..Begun' :
                 /\ MayOperate(i)'
                 /\ \A k \in (i + 1)..Begun' :
                      BeginsWithText(script[k])' => stack' # <<>> /\ k = Begun' /\ Beginning'
    <3>1. CASE MayOperate(Begun)
      <4>1. Begun \in Nat \ {0}
        BY <1>1, SequencesAre DEF FInv, OthersOK
      <4>2. Begun \in 1..Begun /\ (Begun + 1)..Begun = {}
        BY <4>1
      <4>3. MayOperate(Begun)'
        BY <1>6, <3>1, SameItem DEF MayOperate, NamedBy
      <4> QED BY <1>6, <4>2, <4>3 DEF MayOperate, NamedBy
    <3>2. CASE glob = "PROTECTING" /\ (Beginning /\ BeginsWithText(Now) => Beginning')
      <4>1. PICK i \in 1..Begun :
              /\ MayOperate(i)
              /\ \A k \in (i + 1)..Begun :
                   BeginsWithText(script[k]) => stack # <<>> /\ k = Begun /\ Beginning
        BY <3>2 DEF FInv, GlobInv
      <4>2. MayOperate(i)'
        BY <1>6, <4>1, SameItem
      <4>3. ASSUME NEW k \in (i + 1)..Begun', BeginsWithText(script[k])'
            PROVE  k = Begun' /\ Beginning'
        <5>1. BeginsWithText(script[k])
          BY <1>6, <4>3 DEF BeginsWithText
        <5>2. k = Begun /\ Beginning
          BY <1>6, <4>1, <5>1
        <5>3. Now = script[k]
          BY <1>1, <5>2 DEF Now
        <5> QED BY <1>6, <3>2, <5>1, <5>2, <5>3
      <4> QED BY <1>2, <1>6, <4>2, <4>3
    <3> QED BY <2>1, <2>5, <3>1, <3>2 DEF GlobMoves
  <2> QED BY <2>2, <2>3, <2>4, <2>5 DEF GlobInv
<1>9. OthersOK'
  <2>1. regmatch' => NamedBy(Begun)'
    <3>1. regmatch' => NamedBy(Begun)
      BY <1>1 DEF Steps
    <3> QED BY <1>6, <3>1 DEF NamedBy
  <2> QED BY <2>1, <1>6 DEF OthersOK, FInv, Steps, RetOK, IsSeq
<1>10. NestingInv'
  <2> DEFINE c(m) == Cardinality(Levels(m))
  <2>a. n - 1 \in Nat /\ Frame(n - 1 + 1) = Top
    BY <1>1
  <2>b. c(n - 1) \in Nat /\ c(n) = c(n - 1) + (IF ReadsArithmetic(Top) THEN 1 ELSE 0)
    <3>1. /\ c(n - 1) \in Nat
          /\ c(n - 1 + 1) = c(n - 1) + (IF ReadsArithmetic(Frame(n - 1 + 1)) THEN 1 ELSE 0)
      BY <2>a, LevelsGrow
    <3> HIDE DEF c
    <3>2. n - 1 + 1 = n
      BY <1>1
    <3> QED BY <1>1, <2>a, <3>1, <3>2
  <2>c. /\ \A m \in 0..(n - 1) : Cardinality(Levels(m))' = Cardinality(Levels(m))
        /\ \A m \in Nat : /\ Cardinality(Levels(m))' \in Nat
                          /\ m >= n - 1 => Cardinality(Levels(n - 1)) <= Cardinality(Levels(m))'
                          /\ (\E j \in (n - 1 + 1)..m : ReadsArithmetic(Frame(j))') =>
                                Cardinality(Levels(n - 1)) + 1 <= Cardinality(Levels(m))'
    BY <1>2, <2>a, LevelsStay
  <2>d. nesting \in Int /\ nesting <= c(n)
    BY <1>n DEF FInv, NestingInv
  <2>e. \A j \in 1..n : Frame(j).proc = "command" => Frame(j).old <= c(j - 1)
    BY <1>n DEF FInv, NestingInv
  <2>f. PICK N \in Nat : N = Len(stack') /\ N = n - 1 + L
    BY <1>1, <1>2
  <2>1. nesting' <= Cardinality(Levels(N))'
    <3>0. Cardinality(Levels(N))' \in Nat /\ c(n - 1) <= Cardinality(Levels(N))'
      <4>1. N >= n - 1
        BY <2>f, <1>1, <1>2
      <4> QED BY <2>c, <4>1
    <3>1. ASSUME L > 0, ReadsArithmetic(top[L]) \/ ReadsArithmetic(top[1])
          PROVE  c(n - 1) + 1 <= Cardinality(Levels(N))'
      <4>1. PICK k \in {1, L} : ReadsArithmetic(top[k])
        BY <3>1
      <4>2. k \in 1..L /\ n + L - k \in n..N /\ n - 1 + 1 = n
        BY <1>1, <1>2, <2>f, <3>1, <4>1
      <4>3. L + 1 - k \in 1..L /\ n - 1 + (L + 1 - k) = n + L - k /\ L + 1 - (L + 1 - k) = k
        BY <1>1, <1>2, <4>2
      <4>4. Frame(n + L - k)' = top[k]
        BY <1>2, <4>3
      <4>5. ReadsArithmetic(Frame(n + L - k))'
        BY <4>1, <4>4 DEF ReadsArithmetic
      <4> QED BY <2>c, <4>2, <4>5
    <3>2. CASE nesting' = 0
      BY <3>0, <3>2
    <3>3. CASE Top.proc = "command" /\ nesting' = Top.old
      <4>1. Top.old <= c(n - 1) /\ Top.old \in Int
        BY <3>3, <2>e, <1>1 DEF FrameOK
      <4> HIDE DEF c
      <4> QED BY <4>1, <3>0, <3>3, <2>b
    <3>4. CASE nesting' = nesting /\ (ReadsArithmetic(Top) => Len(top) > 0 /\ ReadsArithmetic(top[Len(top)]))
      <4> HIDE DEF c
      <4>1. CASE ReadsArithmetic(Top)
        BY <4>1, <3>4, <3>1, <3>0, <2>b, <2>d
      <4>2. CASE ~ReadsArithmetic(Top)
        BY <4>2, <3>4, <3>0, <2>b, <2>d
      <4> QED BY <4>1, <4>2
    <3>5. CASE nesting' = nesting - 1 /\ ReadsArithmetic(Top) /\ Len(top) = 0
      <4> HIDE DEF c
      <4> QED BY <3>5, <3>0, <2>b, <2>d
    <3>6. CASE nesting' = nesting + 1 /\ ~ReadsArithmetic(Top) /\ Len(top) > 1 /\ ReadsArithmetic(top[1])
      <4>1. L > 0
        BY <1>2, <3>6
      <4> HIDE DEF c
      <4> QED BY <4>1, <3>6, <3>0, <3>1, <2>b, <2>d
    <3>7. CASE nesting' = 1 /\ Len(top) > 0 /\ ReadsArithmetic(top[Len(top)])
      <4> HIDE DEF c
      <4> QED BY <3>7, <3>1, <2>b, <3>0
    <3> QED BY <3>2, <3>3, <3>4, <3>5, <3>6, <3>7 DEF Steps, LevelMoves
  <2>2. N < 2 \/ (N = 2 /\ Top'.pc = "start") => nesting' = 0
    <3>1. N < 2 => n = 2 /\ L = 0
      BY <1>1, <1>2, <2>f
    <3>2. Top' = Frame(N)'
      BY <1>1, <1>2, <2>f DEF Top, Frame, IsSeq
    <3>3. CASE N = 2 /\ n = 3 /\ L = 0
      <4>1. Top' = Frame(2)
        BY <1>2, <3>2, <3>3
      <4>2. Frame(2).proc = "fix_string" /\ Frame(2).pc = "fixed"
        BY <1>n, <3>3 DEF FInv, StackOK
      <4> QED BY <3>3, <4>1, <4>2
    <3>4. CASE N = 2 /\ n = 2 /\ L = 1
      <4>1. 1 \in 1..L /\ n - 1 + 1 = N /\ L + 1 - 1 = 1
        BY <3>4
      <4>2. Top' = top[1]
        BY <1>2, <3>2, <4>1
      <4> QED BY <1>n, <3>4, <4>2 DEF Steps, LevelMoves
    <3>5. N = 2 => (n = 3 /\ L = 0) \/ (n = 2 /\ L = 1)
      <4>1. n \in Nat /\ n > 1 /\ L \in Nat /\ N = n - 1 + L
        BY <1>1, <1>2, <2>f
      <4> HIDE DEF L
      <4> QED BY ONLY <4>1
    <3> QED BY <1>n, <3>1, <3>3, <3>4, <3>5 DEF Steps, LevelMoves
  <2>3. ASSUME NEW j \in 1..N, Frame(j)'.proc = "command"
        PROVE  Frame(j)'.old <= Cardinality(Levels(j - 1))'
    <3>1. CASE j \in 1..(n - 1) /\ Frame(j)' = Frame(j)
      <4>1. j - 1 \in 0..(n - 1) /\ j \in 1..n
        BY <1>1, <3>1
      <4> QED BY <2>3, <3>1, <4>1, <2>c, <2>e
    <3>2. CASE j >= n /\ L + n - j \in 1..L /\ Frame(j)' = top[L + n - j]
      <4>1. L + n - j < L /\ Frame(j)'.old = nesting /\ ~ReadsArithmetic(Top)
        BY <2>3, <3>2, <1>3
      <4>2. j - 1 \in Nat /\ j - 1 >= n - 1
        BY <1>1, <3>2, <2>f
      <4>3. c(n - 1) <= Cardinality(Levels(j - 1))' /\ Cardinality(Levels(j - 1))' \in Nat
        BY <2>c, <4>2
      <4> HIDE DEF c
      <4> QED BY <4>1, <4>3, <2>b, <2>d
    <3> QED BY <3>1, <3>2, <1>4, <2>f
  <2>4. nesting' \in Int
    BY DEF Steps, LevelMoves
  <2>5. Len(stack)' = N
    BY <2>f
  <2> QED BY <2>1, <2>2, <2>3, <2>4, <2>5 DEF NestingInv
<1> QED BY <1>5, <1>7, <1>8, <1>9, <1>10 DEF FInv

-------------------------------------------------------------------------------
(***************************************************************************)
(* The routines that read the buffer                                       *)
(***************************************************************************)
\* What a step of such a routine does
Reads(top) ==
  /\ UNCHANGED <<script, results>> /\ stack # <<>> /\ Top.proc \in Readers
  /\ IsSeq(top) /\ stack' = top \o Tail(stack)
  /\ \A k \in 1..Len(top) :
       /\ FrameOK(top[k]) /\ top[k].proc \in Readers
       /\ top[k].proc = "command" =>
            k < Len(top) /\ top[k].old = nesting /\ ~ReadsArithmetic(Top)
  /\ LevelMoves(top)
  /\ Kept(buffer') /\ glob' \in {glob, "INACTIVE"}
  /\ Beginning /\ BeginsWithText(Now) /\ glob' = "PROTECTING" => Beginning'
  /\ regmatch' \in BOOLEAN /\ (regmatch' => NamedBy(Len(results) + 1))
  /\ crashed' \in BOOLEAN /\ RetOK'

LEMMA ReadsKeeps ==
  ASSUME FInv, NEW top, Reads(top)
  PROVE  FInv'
<1>2. Fit(top)
  BY ReadersAre DEF Fit, Reads
<1>3. GlobMoves(top)
  <2>1. Top.proc # "operator" /\ (Converting' => Converting)
    BY ReadersAre DEF Reads, Converting
  <2>2. glob \in {"INACTIVE", "CONVERTING_GREEDY", "CONVERTING_UNGREEDY", "PROTECTING"}
    BY DEF FInv, GlobInv
  <2> QED BY <2>1, <2>2 DEF GlobMoves, Reads
<1>4. Len(stack) > 1
  <2>1. stack # <<>> /\ Top.proc \in Readers /\ StackOK
    BY DEF Reads, FInv
  <2>2. PICK n \in Nat : n = Len(stack) /\ n > 2
    BY <2>1, DeepEnough
  <2> QED BY <2>2
<1>5. Steps(top)
  BY <1>2, <1>3, <1>4 DEF Steps, Reads
<1> QED BY <1>5, StepsKeep

\* Before such a step
LEMMA Reading ==
  ASSUME FInv, stack # <<>>, Top.proc \in Readers
  PROVE  /\ FrameOK(Top) /\ Kept(buffer) /\ IsSeq(buffer) /\ RetOK /\ crashed \in BOOLEAN
         /\ regmatch \in BOOLEAN /\ (regmatch => NamedBy(Len(results) + 1)) /\ nesting \in Int
         /\ IsSeq(Tail(stack)) /\ Len(stack) # 2
         /\ Beginning => /\ Top.proc = "substitute" /\ Top.pc \in {"start", "loop"}
                         /\ Top.at = 1 /\ Len(stack) = 3 /\ buffer # <<>> /\ buffer[1] = Now.word[1]
                         /\ Char(1) = Now.word[1]
<1>1. /\ FrameOK(Top) /\ IsSeq(stack) /\ Len(stack) \in Nat \ {0} /\ Len(stack) > 2
      /\ Begun = Len(results) + 1
  BY DeepEnough DEF FInv
<1>2. Kept(buffer) /\ IsSeq(buffer)
  BY DEF FInv, BufferKept, Kept
<1>6. Len(stack) # 2
  <2>1. PICK n \in Nat \ {0} : n = Len(stack)
    BY <1>1
  <2>2. n > 2 => n # 2
    BY ONLY n \in Nat \ {0}
  <2> QED BY <1>1, <2>1, <2>2
<1>3. Beginning => /\ Top.proc = "substitute" /\ Top.pc \in {"start", "loop"}
                   /\ Top.at = 1 /\ Len(stack) = 3 /\ buffer # <<>> /\ buffer[1] = Now.word[1]
  BY <1>6 DEF Beginning
<1>4. buffer # <<>> => 1 <= Len(buffer)
  BY <1>2, SequencesAre
<1>5. IsSeq(Tail(stack))
  <2>1. PICK S : stack \in Seq(S)
    BY <1>1 DEF IsSeq
  <2>2. Tail(stack) \in Seq(S)
    BY <2>1, <1>1
  <2> QED BY <2>2 DEF IsSeq
<1> QED BY <1>1, <1>2, <1>3, <1>4, <1>5, <1>6 DEF FInv, OthersOK, NestingInv, RetOK, Char

\* A value is what was wanted, or what it was.
LEMMA CombineType ==
  ASSUME NEW text, NEW offset, NEW want \in Types, NEW was \in Types, NEW type \in Types
  PROVE  Combine(text, offset, want, was, type).got \in Types
BY DEF Combine, Types

LEMMA ClosedType ==
  ASSUME FrameOK(Top), Top.proc = "substitute"
  PROVE  Closed.got \in Types
<1>1. Top.want1 \in Types /\ Top.got \in Types /\ "STRING" \in Types
  BY DEF FrameOK, Types
<1>2. Combine(Append(new, "q>"), Top.quote, Top.want1, Top.got, "STRING").got \in Types
  BY <1>1, CombineType
<1> QED BY <1>1, <1>2 DEF Closed

\* The rest of such a step: it changes no other global.
Quietly ==
  /\ UNCHANGED <<script, results, crashed>>
  /\ Kept(buffer') /\ glob' \in {glob, "INACTIVE"}
  /\ Beginning /\ BeginsWithText(Now) /\ glob' = "PROTECTING" => Beginning'
  /\ regmatch' \in BOOLEAN /\ (regmatch' => NamedBy(Len(results) + 1))
  /\ RetOK'

LEMMA Stays ==
  ASSUME FInv, stack # <<>>, Top.proc \in Readers, Quietly, UNCHANGED nesting,
         NEW f, FrameOK(f), f.proc \in Readers \ {"command"},
         Top.proc = "arith" => f.proc = "arith", Goto(f)
  PROVE  \E top : Reads(top)
<1>0. Len(stack) # 2
  BY Reading
<1>1. IsSeq(<<f>>) /\ Len(<<f>>) = 1 /\ <<f>>[1] = f
  BY Listed
<1>2. nesting \in Int /\ crashed \in BOOLEAN
  BY Reading
<1>3. LevelMoves(<<f>>)
  BY <1>0, <1>1, <1>2, ReadersAre DEF LevelMoves
<1>4. Reads(<<f>>)
  BY <1>1, <1>2, <1>3 DEF Reads, Quietly, Goto
<1> QED BY <1>4

LEMMA Calls ==
  ASSUME FInv, stack # <<>>, Top.proc \in Readers, Quietly,
         NEW f, FrameOK(f), f.proc = Top.proc, f.proc # "command",
         NEW g, FrameOK(g), g.proc \in Readers \ {"command"},
         Enter(f, <<g>>),
         nesting' = nesting + (IF g.proc = "arith" THEN 1 ELSE 0), g.proc = "arith" => f.proc # "arith"
  PROVE  \E top : Reads(top)
<1>0. Len(stack) # 2
  BY Reading
<1>1. IsSeq(<<g, f>>) /\ Len(<<g, f>>) = 2 /\ <<g, f>>[1] = g /\ <<g, f>>[2] = f
  BY Listed
<1>2. nesting \in Int /\ crashed \in BOOLEAN
  BY Reading
<1>3. LevelMoves(<<g, f>>)
  BY <1>0, <1>1, <1>2, ReadersAre DEF LevelMoves
<1>4. stack' = <<g, f>> \o Tail(stack)
  BY Tuples DEF Enter
<1>5. \A k \in 1..Len(<<g, f>>) :
        /\ FrameOK(<<g, f>>[k]) /\ <<g, f>>[k].proc \in Readers
        /\ <<g, f>>[k].proc # "command"
  <2>1. ASSUME NEW k \in 1..2 PROVE k = 1 \/ k = 2
    OBVIOUS
  <2> QED BY <1>1, <2>1
<1>6. Reads(<<g, f>>)
  BY <1>1, <1>2, <1>3, <1>4, <1>5 DEF Reads, Quietly
<1> QED BY <1>6

LEMMA CallsTwo ==
  ASSUME FInv, stack # <<>>, Top.proc \in Readers \ {"arith", "command"}, Quietly,
         NEW f, FrameOK(f), f.proc = Top.proc,
         NEW g, FrameOK(g), g.proc \in Readers \ {"arith", "command"},
         NEW h, FrameOK(h), h.proc \in Readers \ {"arith"}, h.proc = "command" => h.old = nesting,
         Enter(f, <<g>> \o <<h>>),
         nesting' \in {0, nesting}
  PROVE  \E top : Reads(top)
<1>0. Len(stack) # 2
  BY Reading
<1>1. /\ IsSeq(<<g, h, f>>) /\ Len(<<g, h, f>>) = 3
      /\ <<g, h, f>>[1] = g /\ <<g, h, f>>[2] = h /\ <<g, h, f>>[3] = f
  BY Listed
<1>2. nesting \in Int /\ crashed \in BOOLEAN
  BY Reading
<1>3. LevelMoves(<<g, h, f>>)
  BY <1>0, <1>1, <1>2, ReadersAre DEF LevelMoves
<1>4. stack' = <<g, h, f>> \o Tail(stack)
  BY Tuples DEF Enter
<1>5. \A k \in 1..Len(<<g, h, f>>) :
        /\ FrameOK(<<g, h, f>>[k]) /\ <<g, h, f>>[k].proc \in Readers
        /\ <<g, h, f>>[k].proc = "command" => k < 3 /\ <<g, h, f>>[k].old = nesting
  <2>1. ASSUME NEW k \in 1..3 PROVE k = 1 \/ k = 2 \/ k = 3
    OBVIOUS
  <2> QED BY <1>1, <2>1
<1>6. ~ReadsArithmetic(Top)
  BY ReadersAre
<1>7. Reads(<<g, h, f>>)
  BY <1>6, <1>1, <1>2, <1>3, <1>4, <1>5 DEF Reads, Quietly
<1> QED BY <1>7

LEMMA Leaves ==
  ASSUME FInv, stack # <<>>, Top.proc \in Readers, Quietly, stack' = Tail(stack),
         \/ nesting' = nesting /\ Top.proc # "arith"
         \/ nesting' = nesting - 1 /\ Top.proc = "arith"
         \/ nesting' = Top.old /\ Top.proc = "command"
  PROVE  \E top : Reads(top)
<1>0. Len(stack) # 2
  BY Reading
<1>1. nesting \in Int /\ crashed \in BOOLEAN /\ IsSeq(Tail(stack)) /\ FrameOK(Top)
  BY Reading
<1>2. IsSeq(<<>>) /\ Len(<<>>) = 0 /\ stack' = <<>> \o Tail(stack)
  BY <1>1, Listed, Tuples
<1>3. LevelMoves(<<>>)
  BY <1>0, <1>1, <1>2, ReadersAre DEF LevelMoves, FrameOK
<1>4. Reads(<<>>)
  BY <1>1, <1>2, <1>3 DEF Reads, Quietly
<1> QED BY <1>4

\* The frames of the routines that are called
LEMMA NewFrames ==
  /\ \A start : \A p \in Position, want \in Types :
       FrameOK([proc |-> "enclosed", pc |-> "start", at |-> p, start |-> start, want |-> want])
  /\ \A array : \A p \in Position, want \in Types, got \in Types :
       FrameOK([proc |-> "rest", pc |-> "loop", at |-> p, array |-> array, got |-> got,
                want |-> want, offset |-> 0])
  /\ \A ends : \A p \in Position :
       FrameOK([proc |-> "string", pc |-> "loop", at |-> p, first |-> p, ends |-> ends,
                quote |-> FALSE, offset |-> 0])
  /\ \A start : \A p \in Position :
       FrameOK([proc |-> "arith", pc |-> "loop", at |-> p, start |-> start, blank |-> TRUE,
                offset |-> 0])
  /\ \A parm, offset : \A want \in Types :
       FrameOK([proc |-> "function", pc |-> "emitted", parm |-> parm, offset |-> offset,
                want |-> want])
  /\ \A old \in Int : FrameOK([proc |-> "command", pc |-> "emitted", old |-> old])
BY DEF FrameOK, Fields

LEMMA NewTop ==
  ASSUME FInv, stack # <<>>, NEW f, Goto(f)
  PROVE  Len(stack') = Len(stack) /\ Top' = f /\ stack' # <<>>
<1>1. IsSeq(stack) /\ Len(stack) \in Nat \ {0}
  BY DeepEnough DEF FInv
<1>2. PICK S : stack \in Seq(S)
  BY <1>1 DEF IsSeq
<1>3. /\ <<f>> \in Seq(S \union {f}) /\ Tail(stack) \in Seq(S \union {f})
      /\ Len(Tail(stack)) = Len(stack) - 1
  BY <1>1, <1>2
<1>4. Len(stack') = 1 + Len(Tail(stack)) /\ stack'[1] = f /\ stack' \in Seq(S \union {f})
  BY <1>3 DEF Goto
<1>5. Len(stack') = Len(stack) /\ Len(stack') # 0
  BY <1>1, <1>3, <1>4
<1> QED BY <1>4, <1>5 DEF Top

LEMMA SubstituteReads ==
  ASSUME FInv, Substitute \/ SubstituteQuote \/ SubstituteSpecial \/ SubstituteEmitted
                 \/ SubstituteLiteral \/ SubstituteEnd
  PROVE  \E top : Reads(top)
<1>1. stack # <<>> /\ Top.proc = "substitute" /\ Top.proc \in Readers \ {"command", "arith"}
  BY DEF Substitute, SubstituteQuote, SubstituteSpecial, SubstituteEmitted, SubstituteLiteral,
         SubstituteEnd, In, Readers
<1>2. /\ FrameOK(Top) /\ Kept(buffer) /\ RetOK /\ crashed \in BOOLEAN
      /\ regmatch \in BOOLEAN /\ (regmatch => NamedBy(Len(results) + 1)) /\ nesting \in Int
      /\ Beginning => /\ Top.pc \in {"start", "loop"}
                      /\ Top.at = 1 /\ Len(stack) = 3 /\ buffer # <<>> /\ buffer[1] = Now.word[1]
                      /\ Char(1) = Now.word[1]
      /\ IsSeq(Tail(stack))
  BY <1>1, Reading
<1> DEFINE Still == Beginning /\ BeginsWithText(Now) /\ glob' = "PROTECTING" => Beginning'
<1>a. ASSUME UNCHANGED <<script, results, buffer, crashed>>,
             UNCHANGED regmatch, glob' \in {glob, "INACTIVE"}, Still, RetOK'
      PROVE  Quietly
  BY <1>a, <1>2 DEF Quietly
<1>b. Beginning /\ BeginsWithText(Now) => Top.at = 1 /\ Char(Top.at) \in {"a", "*"}
  BY <1>2 DEF BeginsWithText
<1>c. {"NONE", "INT", "STRING", "ARRAY"} \subseteq Types /\ Top.at \in Position /\ Top.at + 1 \in Position
      /\ Top.want \in Types /\ Top.want1 \in Types /\ Top.got \in Types
  BY <1>1, <1>2 DEF Types, FrameOK, Position
<1>d. Closed.got \in Types
  BY <1>1, <1>2, ClosedType
<1>3. CASE Substitute
  <2> DEFINE file == glob = "INACTIVE" /\ HasPattern(buffer)
             f == [Top EXCEPT !.pc = "loop", !.file = file,
                          !.want1 = IF file THEN "STRING" ELSE @]
  <2>1. FrameOK(f) /\ f.proc = "substitute" /\ f.pc = "loop" /\ f.at = Top.at
    <3> HIDE DEF file
    <3> QED BY <1>1, <1>2, <1>c DEF FrameOK, Fields
  <2>2. Goto(f) /\ UNCHANGED <<script, results, buffer, crashed, regmatch, glob, ret, nesting>>
    BY <1>3 DEF Substitute, burps, flags
  <2> HIDE DEF f
  <2>3. Len(stack') = Len(stack) /\ Top' = f
    BY <1>1, <2>2, NewTop
  <2>4. Still
    BY <1>2, <2>1, <2>2, <2>3 DEF Beginning, Now
  <2>5. Quietly
    BY <1>a, <1>2, <2>2, <2>4 DEF RetOK
  <2> QED BY <1>1, <2>1, <2>2, <2>5, Stays
<1>4. CASE SubstituteQuote
  <2> DEFINE f == [Top EXCEPT !.at = @ + 1]
  <2>1. FrameOK(f) /\ f.proc = "substitute"
    BY <1>1, <1>2, <1>c DEF FrameOK, Fields
  <2>2. /\ Goto(f) /\ UNCHANGED <<script, results, buffer, crashed, regmatch, glob, ret, nesting>>
        /\ Char(Top.at) = "\""
    BY <1>4 DEF SubstituteQuote, burps, flags
  <2> HIDE DEF f
  <2>3. Quietly
    BY <1>a, <1>b, <1>2, <2>2 DEF RetOK
  <2> QED BY <1>1, <2>1, <2>2, <2>3, Stays
<1>5. CASE SubstituteSpecial
  <2> DEFINE f == [Top EXCEPT !.pc = "emitted", !.got = Closed.got, !.quote = NotQuoted,
                       !.offset = Len(Closed.text)]
             g == [proc |-> "enclosed", pc |-> "start", at |-> Top.at,
                   start |-> Len(Closed.text), want |-> Top.want1]
  <2>1. FrameOK(f) /\ f.proc = "substitute"
    <3>1. PICK c : c = Closed
      OBVIOUS
    <3>2. FrameOK([Top EXCEPT !.pc = "emitted", !.got = c.got, !.quote = NotQuoted,
                       !.offset = Len(c.text)])
      BY <1>1, <1>2, <1>c, <1>d, <3>1 DEF FrameOK, Fields
    <3> QED BY <1>1, <1>2, <3>1, <3>2 DEF FrameOK, Fields
  <2>2. FrameOK(g) /\ g.proc = "enclosed"
    BY <1>c, NewFrames
  <2>3. /\ Enter(f, <<g>>) /\ UNCHANGED <<script, results, buffer, crashed, regmatch, glob, ret, nesting>>
        /\ Char(Top.at) \in Special
    BY <1>5 DEF SubstituteSpecial, flags
  <2> HIDE DEF f, g
  <2>4. {"a", "*"} \intersect Special = {}
    BY DEF Special, Simple, Braced, Named
  <2>5. Quietly
    BY <1>a, <1>b, <1>2, <2>3, <2>4 DEF RetOK
  <2>6. nesting' = nesting + 0 /\ g.proc \in Readers \ {"command", "arith"}
    BY <1>2, <2>2, <2>3 DEF Readers
  <2> QED BY <1>1, <2>1, <2>2, <2>3, <2>5, <2>6, Calls
<1>6. CASE SubstituteEmitted
  <2> DEFINE frame == [Top EXCEPT !.file = @ /\ glob = "INACTIVE"]
             joined == Combine(new, Top.offset, Top.want1, Top.got, ret.got)
             f == IF ret.end # 0 THEN [frame EXCEPT !.pc = "loop", !.at = ret.end, !.got = joined.got]
                  ELSE [frame EXCEPT !.pc = "literal"]
  <2>1. FrameOK(f) /\ f.proc = "substitute"
    <3>1. joined.got \in Types
      BY <1>c, <1>2, CombineType DEF RetOK
    <3> HIDE DEF joined
    <3>2. ret.end # 0 => ret.end \in Position
      BY <1>2 DEF RetOK, Position
    <3> QED BY <1>1, <1>2, <3>1, <3>2 DEF FrameOK, Fields
  <2>2. /\ Goto(f) /\ UNCHANGED <<script, results, buffer, crashed, regmatch, glob, ret, nesting>>
        /\ Top.pc = "emitted"
    BY <1>6 DEF SubstituteEmitted, flags, In
  <2> HIDE DEF f
  <2>3. Quietly
    BY <1>a, <1>2, <2>2 DEF RetOK
  <2> QED BY <1>1, <2>1, <2>2, <2>3, Stays
<1>7. CASE SubstituteLiteral
  <2> DEFINE open == Top.quote = NotQuoted
             raw == IF Converting THEN <<"r">> ELSE <<>>
             f == [Top EXCEPT !.pc = "loop", !.at = @ + 1,
                              !.quote = IF open THEN Len(new) + Len(raw) ELSE @]
  <2>1. FrameOK(f) /\ f.proc = "substitute"
    <3> HIDE DEF open, raw
    <3> QED BY <1>1, <1>2, <1>c DEF FrameOK, Fields
  <2>2. /\ Goto(f) /\ UNCHANGED <<script, results, buffer, crashed, regmatch, ret, nesting>>
        /\ glob' = IF glob = "PROTECTING" THEN "INACTIVE" ELSE glob
    BY <1>7 DEF SubstituteLiteral
  <2> HIDE DEF f
  <2>3. Quietly
    BY <1>a, <1>2, <2>2 DEF RetOK
  <2> QED BY <1>1, <2>1, <2>2, <2>3, Stays
<1>8. CASE SubstituteEnd
  <2> DEFINE got == IF Top.file THEN "ARRAY" ELSE Closed.got
             cast == Top.want \in {"INT", "STRING"} /\ got # Top.want
  <2>1. /\ stack' = Tail(stack) /\ UNCHANGED <<script, results, buffer, crashed, regmatch, glob, nesting>>
        /\ ret' = [end |-> 0, got |-> IF cast THEN Top.want ELSE got, text |-> <<>>]
        /\ Char(Top.at) = "end"
    BY <1>8 DEF SubstituteEnd, flags, Leave, LeaveWith
  <2>2. RetOK'
    <3>1. got \in Types
      BY <1>c, <1>d
    <3> HIDE DEF got
    <3> QED BY <1>c, <2>1, <3>1 DEF RetOK
  <2> HIDE DEF got, cast
  <2>3. Quietly
    BY <1>a, <1>b, <1>2, <2>1, <2>2
  <2> QED BY <1>1, <2>1, <2>3, Leaves
<1> QED BY <1>3, <1>4, <1>5, <1>6, <1>7, <1>8

\* Only the beginning of the word is read by substitute.
LEMMA QuietOnes ==
  ASSUME FInv, stack # <<>>, Top.proc \in Readers \ {"substitute"},
         UNCHANGED <<script, results, crashed>>, Kept(buffer'), glob' \in {glob, "INACTIVE"},
         regmatch' \in BOOLEAN, regmatch' => NamedBy(Len(results) + 1), RetOK'
  PROVE  Quietly
<1>1. ~Beginning
  BY Reading
<1> QED BY <1>1 DEF Quietly

LEMMA ExpandReads ==
  ASSUME FInv, Expand \/ ExpandEmitted
  PROVE  \E top : Reads(top)
<1>1. stack # <<>> /\ Top.proc = "expand" /\ Top.proc \in Readers \ {"command", "arith", "substitute"}
  BY DEF Expand, ExpandEmitted, In, Readers
<1>2. /\ FrameOK(Top) /\ Kept(buffer) /\ RetOK /\ crashed \in BOOLEAN
      /\ regmatch \in BOOLEAN /\ (regmatch => NamedBy(Len(results) + 1)) /\ nesting \in Int
      /\ IsSeq(Tail(stack))
  BY <1>1, Reading
<1>3. {"NONE", "EXPRESSION"} \subseteq Types /\ Top.at \in Position /\ Top.at + 1 \in Position
  BY <1>1, <1>2 DEF Types, FrameOK, Position
<1>4. /\ UNCHANGED <<script, results, buffer, crashed, regmatch, glob, nesting>>
      /\ RetOK'
  <2>1. UNCHANGED <<script, results, buffer, crashed, regmatch, glob, nesting>>
    BY DEF Expand, ExpandEmitted, flags
  <2>2. UNCHANGED ret \/ ret' = [end |-> 0, got |-> "NONE", text |-> <<>>]
    BY DEF Expand, ExpandEmitted, Leave, LeaveWith
  <2> QED BY <2>1, <2>2, <1>2, <1>3 DEF RetOK
<1>5. Quietly
  BY <1>1, <1>2, <1>4, QuietOnes
<1> DEFINE f == [Top EXCEPT !.pc = "emitted", !.offset = Len(new)]
           g == [proc |-> "enclosed", pc |-> "start", at |-> Top.at, start |-> Len(new),
                 want |-> "EXPRESSION"]
           h == [Top EXCEPT !.at = @ + 1]
           k == [Top EXCEPT !.pc = "loop", !.at = IF ret.end # 0 THEN ret.end ELSE @ + 1]
<1>6. FrameOK(f) /\ f.proc = "expand" /\ FrameOK(h) /\ h.proc = "expand"
  BY <1>1, <1>2, <1>3 DEF FrameOK, Fields
<1>7. FrameOK(k) /\ k.proc = "expand"
  <2>1. (IF ret.end # 0 THEN ret.end ELSE Top.at + 1) \in Position
    BY <1>2, <1>3 DEF RetOK, Position
  <2> QED BY <1>1, <1>2, <2>1 DEF FrameOK, Fields
<1>8. FrameOK(g) /\ g.proc \in Readers \ {"command", "arith"}
  BY <1>3, NewFrames DEF Readers
<1>9. \/ stack' = Tail(stack) \/ Enter(f, <<g>>) \/ Goto(h) \/ Goto(k)
  BY DEF Expand, ExpandEmitted, Leave, LeaveWith, EmitEnclosed
<1> HIDE DEF f, g, h, k
<1>10. nesting' = nesting + 0
  BY <1>2, <1>4
<1>11. CASE stack' = Tail(stack)
  BY <1>1, <1>4, <1>5, <1>11, Leaves
<1>12. CASE Enter(f, <<g>>)
  BY <1>1, <1>5, <1>6, <1>8, <1>10, <1>12, Calls
<1>13. CASE Goto(h)
  BY <1>1, <1>4, <1>5, <1>6, <1>13, Stays
<1>14. CASE Goto(k)
  BY <1>1, <1>4, <1>5, <1>7, <1>14, Stays
<1> QED BY <1>9, <1>11, <1>12, <1>13, <1>14

\* BASH_REMATCH is met in the buffer only if the word names it.
LEMMA NamedHere ==
  ASSUME FInv, Kept(buffer), NEW p \in Position, Char(p) \in {"$M", "${M"}
  PROVE  NamedBy(Len(results) + 1)
<1>1. IsSeq(buffer) /\ DOMAIN buffer = 1..Len(buffer) /\ Len(buffer) \in Nat
  BY SequencesAre DEF Kept
<1>2. p \in DOMAIN buffer /\ buffer[p] \in {"$M", "${M"}
  <2>1. p \in Nat \ {0}
    BY DEF Position
  <2>2. CASE p <= Len(buffer)
    <3>1. PICK n \in Nat : n = Len(buffer)
      BY <1>1
    <3>2. p <= n
      BY <2>2, <3>1
    <3>4. p \in 1..n
      BY ONLY <2>1, <3>2, n \in Nat
    <3>3. Char(p) = buffer[p]
      BY <2>2 DEF Char
    <3> QED BY <1>1, <3>1, <3>3, <3>4
  <2>3. CASE ~(p <= Len(buffer))
    BY <2>3 DEF Char
  <2> QED BY <2>2, <2>3
<1>3. NamesRematch(Now.word)
  BY <1>2 DEF Kept, NamesRematch, Has
<1>4. Len(results) \in Nat
  BY SequencesAre DEF FInv, OthersOK
<1>5. Len(results) + 1 \in 1..(Len(results) + 1)
  <2>1. PICK n \in Nat : n = Len(results)
    BY <1>4
  <2>2. n + 1 \in 1..(n + 1)
    BY ONLY n \in Nat
  <2> QED BY <2>1, <2>2
<1> QED BY <1>3, <1>5 DEF NamedBy, Now

LEMMA RestReads ==
  ASSUME FInv, Rests \/ RestEmitted
  PROVE  \E top : Reads(top)
<1>1. stack # <<>> /\ Top.proc = "rest" /\ Top.proc \in Readers \ {"command", "arith", "substitute"}
  BY DEF Rests, RestEmitted, In, Readers
<1>2. /\ FrameOK(Top) /\ Kept(buffer) /\ RetOK /\ crashed \in BOOLEAN
      /\ regmatch \in BOOLEAN /\ (regmatch => NamedBy(Len(results) + 1)) /\ nesting \in Int
      /\ IsSeq(Tail(stack))
  BY <1>1, Reading
<1>3. Top.got \in Types /\ Top.want \in Types /\ Top.at \in Position /\ Top.at + 1 \in Position
      /\ Top.at + 1 \in Nat
  BY <1>1, <1>2 DEF FrameOK, Position
<1>4. /\ UNCHANGED <<script, results, buffer, crashed, glob, nesting>>
      /\ regmatch' \in {regmatch, FALSE} /\ RetOK'
  <2>1. UNCHANGED <<script, results, buffer, crashed, glob, nesting>> /\ regmatch' \in {regmatch, FALSE}
    BY DEF Rests, RestEmitted, flags
  <2>2. UNCHANGED ret \/ \E e \in {0, Top.at + 1} : ret' = [end |-> e, got |-> Top.got, text |-> <<>>]
    BY DEF Rests, RestEmitted, Leave, LeaveWith
  <2>3. RetOK'
    BY <2>2, <1>2, <1>3 DEF RetOK
  <2> QED BY <2>1, <2>3
<1>5. Quietly
  <2>1. regmatch' \in BOOLEAN
    BY <1>2, <1>4
  <2>2. regmatch' => NamedBy(Len(results) + 1)
    BY <1>2, <1>4
  <2>3. Kept(buffer')
    BY <1>2, <1>4
  <2> QED BY <1>1, <1>4, <2>1, <2>2, <2>3, QuietOnes
<1> DEFINE f == [Top EXCEPT !.pc = "emitted", !.offset = Len(new)]
           g == [proc |-> "enclosed", pc |-> "start", at |-> Top.at, start |-> Len(new),
                 want |-> Top.want]
           h == [Top EXCEPT !.at = @ + 1]
           i == [Top EXCEPT !.at = @ + 1, !.array = FALSE]
           k == [Top EXCEPT !.pc = "loop", !.at = IF ret.end # 0 THEN ret.end ELSE @ + 1]
<1>6. /\ FrameOK(f) /\ f.proc = "rest" /\ FrameOK(h) /\ h.proc = "rest"
      /\ FrameOK(i) /\ i.proc = "rest"
  BY <1>1, <1>2, <1>3 DEF FrameOK, Fields
<1>7. FrameOK(k) /\ k.proc = "rest"
  <2>1. (IF ret.end # 0 THEN ret.end ELSE Top.at + 1) \in Position
    BY <1>2, <1>3 DEF RetOK, Position
  <2> QED BY <1>1, <1>2, <2>1 DEF FrameOK, Fields
<1>8. FrameOK(g) /\ g.proc \in Readers \ {"command", "arith"}
  BY <1>3, NewFrames DEF Readers
<1>9. stack' = Tail(stack) \/ Enter(f, <<g>>) \/ Goto(h) \/ Goto(i) \/ Goto(k)
  BY DEF Rests, RestEmitted, Leave, LeaveWith, EmitEnclosed
<1> HIDE DEF f, g, h, i, k
<1>10. nesting' = nesting + 0
  BY <1>2, <1>4
<1>11. CASE stack' = Tail(stack)
  BY <1>1, <1>4, <1>5, <1>11, Leaves
<1>12. CASE Enter(f, <<g>>)
  BY <1>1, <1>5, <1>6, <1>8, <1>10, <1>12, Calls
<1>13. CASE Goto(h)
  BY <1>1, <1>4, <1>5, <1>6, <1>13, Stays
<1>14. CASE Goto(i)
  BY <1>1, <1>4, <1>5, <1>6, <1>14, Stays
<1>15. CASE Goto(k)
  BY <1>1, <1>4, <1>5, <1>7, <1>15, Stays
<1> QED BY <1>9, <1>11, <1>12, <1>13, <1>14, <1>15

LEMMA StringReads ==
  ASSUME FInv, StringLoop \/ StringEmitted \/ StringLiteral \/ StringEnd
  PROVE  \E top : Reads(top)
<1>1. stack # <<>> /\ Top.proc = "string" /\ Top.proc \in Readers \ {"command", "arith", "substitute"}
  BY DEF StringLoop, StringEmitted, StringLiteral, StringEnd, In, Readers
<1>2. /\ FrameOK(Top) /\ Kept(buffer) /\ RetOK /\ crashed \in BOOLEAN
      /\ regmatch \in BOOLEAN /\ (regmatch => NamedBy(Len(results) + 1)) /\ nesting \in Int
      /\ IsSeq(Tail(stack))
  BY <1>1, Reading
<1>3. {"NONE", "STRING"} \subseteq Types /\ Top.at \in Position /\ Top.at + 1 \in Position /\ Top.at \in Nat
  BY <1>1, <1>2 DEF Types, FrameOK, Position
<1>4. /\ UNCHANGED <<script, results, buffer, crashed, regmatch, glob, nesting>>
      /\ RetOK'
  <2>1. UNCHANGED <<script, results, buffer, crashed, regmatch, glob, nesting>>
    BY DEF StringLoop, StringEmitted, StringLiteral, StringEnd, flags
  <2>2. UNCHANGED ret \/ \E e \in {0, Top.at} : ret' = [end |-> e, got |-> "NONE", text |-> <<>>]
    BY DEF StringLoop, StringEmitted, StringLiteral, StringEnd, Leave, LeaveWith
  <2> QED BY <2>1, <2>2, <1>2, <1>3 DEF RetOK
<1>5. Quietly
  BY <1>1, <1>2, <1>4, QuietOnes
<1> DEFINE text == new \o (IF Top.quote THEN <<"q">> ELSE <<>>)
                     \o (IF Top.at # Top.first THEN <<"+">> ELSE <<>>)
           f == [Top EXCEPT !.pc = "emitted", !.offset = Len(new)]
           g == [proc |-> "enclosed", pc |-> "start", at |-> Top.at, start |-> Len(text),
                 want |-> "STRING"]
           h == [Top EXCEPT !.pc = "loop", !.at = ret.end, !.quote = FALSE]
           i == [Top EXCEPT !.pc = "literal"]
           k == [Top EXCEPT !.pc = "loop", !.at = @ + 1, !.quote = TRUE]
<1>6. /\ FrameOK(f) /\ f.proc = "string" /\ FrameOK(i) /\ i.proc = "string"
      /\ FrameOK(k) /\ k.proc = "string"
  BY <1>1, <1>2, <1>3 DEF FrameOK, Fields
<1>7. ret.end # 0 => FrameOK(h) /\ h.proc = "string"
  <2>1. ret.end # 0 => ret.end \in Position
    BY <1>2 DEF RetOK, Position
  <2> QED BY <1>1, <1>2, <2>1 DEF FrameOK, Fields
<1> HIDE DEF text
<1>8. FrameOK(g) /\ g.proc \in Readers \ {"command", "arith"}
  BY <1>3, NewFrames DEF Readers
<1>9. stack' = Tail(stack) \/ Enter(f, <<g>>) \/ (Goto(h) /\ ret.end # 0) \/ Goto(i) \/ Goto(k)
  <2>1. StringLoop => Enter(f, <<g>>)
    BY DEF StringLoop, text
  <2>2. StringEmitted => (Goto(h) /\ ret.end # 0) \/ Goto(i)
    BY DEF StringEmitted
  <2>3. StringLiteral => Goto(k)
    BY DEF StringLiteral
  <2>4. StringEnd => stack' = Tail(stack)
    BY DEF StringEnd, Leave, LeaveWith
  <2> QED BY <2>1, <2>2, <2>3, <2>4
<1> HIDE DEF f, g, h, i, k
<1>10. nesting' = nesting + 0
  BY <1>2, <1>4
<1>11. CASE stack' = Tail(stack)
  BY <1>1, <1>4, <1>5, <1>11, Leaves
<1>12. CASE Enter(f, <<g>>)
  BY <1>1, <1>5, <1>6, <1>8, <1>10, <1>12, Calls
<1>13. CASE Goto(h) /\ ret.end # 0
  BY <1>1, <1>4, <1>5, <1>7, <1>13, Stays
<1>14. CASE Goto(i)
  BY <1>1, <1>4, <1>5, <1>6, <1>14, Stays
<1>15. CASE Goto(k)
  BY <1>1, <1>4, <1>5, <1>6, <1>15, Stays
<1> QED BY <1>9, <1>11, <1>12, <1>13, <1>14, <1>15

LEMMA DollarReads ==
  ASSUME FInv, DollarExpressionLoop \/ DollarEmitted
  PROVE  \E top : Reads(top)
<1>1. stack # <<>> /\ Top.proc = "arith" /\ Top.proc \in Readers \ {"command", "substitute"}
  BY DEF DollarExpressionLoop, DollarEmitted, In, Readers
<1>2. /\ FrameOK(Top) /\ Kept(buffer) /\ RetOK /\ crashed \in BOOLEAN
      /\ regmatch \in BOOLEAN /\ (regmatch => NamedBy(Len(results) + 1)) /\ nesting \in Int
      /\ IsSeq(Tail(stack))
  BY <1>1, Reading
<1>3. "INT" \in Types /\ Top.at \in Position /\ Top.at + 1 \in Position /\ Top.at \in Nat
      /\ Top.at + 1 \in Nat
  BY <1>1, <1>2 DEF Types, FrameOK, Position
<1>4. /\ UNCHANGED <<script, results, buffer, crashed, regmatch, glob>>
      /\ RetOK'
  <2>1. UNCHANGED <<script, results, buffer, crashed, regmatch, glob>>
    BY DEF DollarExpressionLoop, DollarEmitted, flags
  <2>2. UNCHANGED ret \/ \E e \in {Top.at, Top.at + 1} : ret' = [end |-> e, got |-> "INT", text |-> <<>>]
    BY DEF DollarExpressionLoop, DollarEmitted, DollarEnd, Leave, LeaveWith
  <2> QED BY <2>1, <2>2, <1>2, <1>3 DEF RetOK
<1>5. Quietly
  BY <1>1, <1>2, <1>4, QuietOnes
<1> DEFINE f == [Top EXCEPT !.pc = "emitted", !.offset = Len(new), !.blank = FALSE]
           g == [proc |-> "enclosed", pc |-> "start", at |-> Top.at, start |-> Len(new),
                 want |-> "INT"]
           h == [Top EXCEPT !.at = @ + 1, !.blank = FALSE]
           k == [Top EXCEPT !.pc = "loop", !.at = IF ret.end # 0 THEN ret.end ELSE @ + 1]
<1>6. FrameOK(f) /\ f.proc = "arith" /\ FrameOK(h) /\ h.proc = "arith"
  BY <1>1, <1>2, <1>3 DEF FrameOK, Fields
<1>7. FrameOK(k) /\ k.proc = "arith"
  <2>1. (IF ret.end # 0 THEN ret.end ELSE Top.at + 1) \in Position
    BY <1>2, <1>3 DEF RetOK, Position
  <2> QED BY <1>1, <1>2, <2>1 DEF FrameOK, Fields
<1>8. FrameOK(g) /\ g.proc = "enclosed" /\ g.proc \in Readers \ {"command", "arith"}
  BY <1>3, NewFrames DEF Readers
<1>9. \/ stack' = Tail(stack) /\ nesting' = nesting - 1
      \/ nesting' = nesting /\ (Enter(f, <<g>>) \/ Goto(h) \/ Goto(k))
  BY DEF DollarExpressionLoop, DollarEmitted, DollarEnd, Leave, LeaveWith, EmitEnclosed, flags
<1> HIDE DEF f, g, h, k
<1>11. CASE stack' = Tail(stack) /\ nesting' = nesting - 1
  BY <1>1, <1>5, <1>11, Leaves
<1>12. CASE nesting' = nesting /\ Enter(f, <<g>>)
  <2>1. nesting' = nesting + 0
    BY <1>2, <1>12
  <2> QED BY <1>1, <1>5, <1>6, <1>8, <1>12, <2>1, Calls
<1>13. CASE nesting' = nesting /\ Goto(h)
  BY <1>1, <1>5, <1>6, <1>13, Stays
<1>14. CASE nesting' = nesting /\ Goto(k)
  BY <1>1, <1>5, <1>7, <1>14, Stays
<1> QED BY <1>9, <1>11, <1>12, <1>13, <1>14

LEMMA CommandReads ==
  ASSUME FInv, CommandEmitted
  PROVE  \E top : Reads(top)
<1>1. stack # <<>> /\ Top.proc = "command" /\ Top.proc \in Readers \ {"arith", "substitute"}
  BY DEF CommandEmitted, In, Readers
<1>2. /\ Kept(buffer) /\ RetOK
      /\ regmatch \in BOOLEAN /\ (regmatch => NamedBy(Len(results) + 1))
  BY <1>1, Reading
<1>3. "STRING" \in Types /\ ret.end + 1 \in Nat
  BY <1>2 DEF Types, RetOK
<1>4. /\ UNCHANGED <<script, results, buffer, crashed, regmatch, glob>>
      /\ stack' = Tail(stack) /\ nesting' = Top.old /\ RetOK'
  <2>1. /\ UNCHANGED <<script, results, buffer, crashed, regmatch, glob>>
        /\ stack' = Tail(stack) /\ nesting' = Top.old
    BY DEF CommandEmitted, Leave, LeaveWith
  <2>2. \E e \in {0, ret.end + 1} : ret' = [end |-> e, got |-> "STRING", text |-> <<>>]
    BY DEF CommandEmitted, Leave, LeaveWith
  <2> QED BY <2>1, <2>2, <1>3 DEF RetOK
<1>5. Quietly
  BY <1>1, <1>2, <1>4, QuietOnes
<1> QED BY <1>1, <1>4, <1>5, Leaves

LEMMA EnclosedReads ==
  ASSUME FInv, Cast \/ SimpleVariable \/ Unterminated \/ BracedVariable \/ DefaultValue
                 \/ DollarExpression \/ Command
  PROVE  \E top : Reads(top)
<1>1. stack # <<>> /\ Top.proc = "enclosed" /\ Top.proc \in Readers \ {"command", "arith", "substitute"}
  BY DEF Cast, SimpleVariable, Unterminated, BracedVariable, DefaultValue, DollarExpression,
         Command, At, In, Readers
<1>2. /\ FrameOK(Top) /\ Kept(buffer) /\ RetOK /\ IsSeq(Tail(stack)) /\ IsSeq(buffer)
      /\ nesting \in Int
  BY <1>1, Reading
<1>3. regmatch \in BOOLEAN /\ (regmatch => NamedBy(Len(results) + 1))
  BY <1>1, Reading
<1>4. {"NONE", "INT", "STRING", "VAR", "ARRAY"} \subseteq Types /\ Top.want \in Types
      /\ Top.at \in Position /\ Top.at + 1 \in Position /\ Top.at + 1 \in Nat
  BY <1>1, <1>2 DEF Types, FrameOK, Position
<1>5. Regmatch(Char(Top.at)) \in BOOLEAN
      /\ (Regmatch(Char(Top.at)) => NamedBy(Len(results) + 1))
  BY <1>2, <1>3, <1>4, NamedHere DEF Regmatch
<1>6. Operator \in Position /\ Operator + 1 \in Position
  <2>1. Operator \in Position
    BY <1>2, <1>4, Searches DEF Operator
  <2> QED BY <2>1 DEF Position
<1> DEFINE f == [Top EXCEPT !.pc = "cast"]
<1>7. FrameOK(f) /\ f.proc = "enclosed"
  BY <1>1, <1>2 DEF FrameOK, Fields
<1> HIDE DEF f
<1>8. CASE Cast
  <2>1. /\ UNCHANGED <<script, results, buffer, crashed, regmatch, glob, nesting>>
        /\ stack' = Tail(stack)
    BY <1>8 DEF Cast, Leave, LeaveWith, flags
  <2>2. ret' = ret \/ ret' = [end |-> ret.end, got |-> Top.want, text |-> <<>>]
    BY <1>8 DEF Cast, Leave, LeaveWith
  <2>3. RetOK'
    BY <1>2, <1>4, <2>2 DEF RetOK
  <2>4. Quietly
    BY <1>1, <1>2, <1>3, <2>1, <2>3, QuietOnes
  <2> QED BY <1>1, <2>1, <2>4, Leaves
<1>9. CASE SimpleVariable
  <2>1. /\ UNCHANGED <<script, results, buffer, crashed, glob, nesting>> /\ Goto(f)
        /\ regmatch' = Regmatch(Char(Top.at))
        /\ ret' = [end |-> Top.at + 1, got |-> Type(Char(Top.at)), text |-> <<>>]
    BY <1>9 DEF SimpleVariable, f
  <2>2. RetOK'
    BY <1>4, <2>1 DEF RetOK, Type
  <2>3. Quietly
    BY <1>1, <1>2, <1>5, <2>1, <2>2, QuietOnes
  <2> QED BY <1>1, <1>7, <2>1, <2>3, Stays
<1>10. CASE Unterminated
  <2>1. /\ UNCHANGED <<script, results, buffer, crashed, regmatch, glob, nesting>> /\ Goto(f)
        /\ ret' = [Nothing EXCEPT !.got = "STRING"]
    BY <1>10 DEF Unterminated, f, burps, flags
  <2>2. RetOK'
    BY <1>4, <2>1 DEF RetOK, Nothing
  <2>3. Quietly
    BY <1>1, <1>2, <1>3, <2>1, <2>2, QuietOnes
  <2> QED BY <1>1, <1>7, <2>1, <2>3, Stays
<1>11. CASE BracedVariable
  <2> DEFINE match == Regmatch(Char(Top.at))
             array == match \/ Char(Top.at + 1) = "["
             got == IF array THEN "VAR" ELSE Type(Char(Top.at))
             g == [proc |-> "rest", pc |-> "loop", at |-> Top.at + 1, array |-> array,
                   got |-> got, want |-> Top.want, offset |-> 0]
  <2>1. /\ UNCHANGED <<script, results, crashed, ret, glob, nesting>> /\ Enter(f, <<g>>)
        /\ regmatch' = match /\ buffer' = Reopened(buffer, Top.at + 1, match)
    BY <1>11 DEF BracedVariable, f, Rest
  <2>2. FrameOK(g) /\ g.proc \in Readers \ {"command", "arith"}
    <3>1. PICK a : a = array
      OBVIOUS
    <3>5. PICK t \in Types : t = got
      BY <1>4 DEF Type
    <3>2. g = [proc |-> "rest", pc |-> "loop", at |-> Top.at + 1, array |-> a,
               got |-> t, want |-> Top.want, offset |-> 0]
      BY <3>1, <3>5
    <3>3. FrameOK([proc |-> "rest", pc |-> "loop", at |-> Top.at + 1, array |-> a,
               got |-> t, want |-> Top.want, offset |-> 0])
      BY <1>4, NewFrames
    <3>4. g.proc = "rest"
      BY <3>2
    <3> HIDE DEF g
    <3> QED BY <3>2, <3>3, <3>4 DEF Readers
  <2> HIDE DEF g, match
  <2>3. Kept(buffer')
    BY <1>2, <1>5, <2>1, KeptReopened DEF match
  <2>4. Quietly
    BY <1>1, <1>2, <1>5, <2>1, <2>3, QuietOnes DEF match, RetOK
  <2>5. nesting' = nesting + 0
    BY <1>2, <2>1
  <2> QED BY <1>1, <1>7, <2>1, <2>2, <2>4, <2>5, Calls
<1>12. CASE DefaultValue
  <2> DEFINE ends == {"[", "}"}
             g == [proc |-> "string", pc |-> "loop", at |-> Operator + 1, first |-> Operator + 1,
                   ends |-> ends, quote |-> FALSE, offset |-> 0]
             offset == Len(new) + 2
             h == [proc |-> "function", pc |-> "emitted", parm |-> Operator + 1,
                   offset |-> offset, want |-> Top.want]
  <2>1. /\ UNCHANGED <<script, results, buffer, crashed, ret, regmatch, glob, nesting>>
        /\ Enter(f, <<g>> \o <<h>>)
    BY <1>12 DEF DefaultValue, EmitString, f, flags
  <2> HIDE DEF ends, offset
  <2>2. FrameOK(g) /\ g.proc \in Readers \ {"command", "arith"}
    BY <1>6, NewFrames DEF Readers
  <2>3. FrameOK(h) /\ h.proc \in Readers \ {"arith"} /\ h.proc # "command"
    BY <1>4, NewFrames DEF Readers
  <2> HIDE DEF g, h
  <2>4. Quietly
    BY <1>1, <1>2, <1>3, <2>1, QuietOnes DEF RetOK
  <2>5. nesting' \in {0, nesting} /\ (h.proc = "command" => h.old = nesting)
    BY <2>1, <2>3
  <2> QED BY <1>1, <1>7, <2>1, <2>2, <2>3, <2>4, <2>5, CallsTwo
<1>13. CASE DollarExpression
  <2> DEFINE length == Len(new)
             g == [proc |-> "arith", pc |-> "loop", at |-> Top.at + 1, start |-> length,
                   blank |-> TRUE, offset |-> 0]
  <2>1. /\ UNCHANGED <<script, results, buffer, crashed, ret, regmatch, glob>> /\ Enter(f, <<g>>)
        /\ nesting' = nesting + 1
    BY <1>13 DEF DollarExpression, f
  <2> HIDE DEF length
  <2>2. FrameOK(g) /\ g.proc = "arith" /\ g.proc \in Readers \ {"command"}
    BY <1>4, NewFrames DEF Readers
  <2> HIDE DEF g
  <2>3. Quietly
    BY <1>1, <1>2, <1>3, <2>1, QuietOnes DEF RetOK
  <2> QED BY <1>1, <1>7, <2>1, <2>2, <2>3, Calls
<1>14. CASE Command
  <2> DEFINE ends == {")"}
             g == [proc |-> "string", pc |-> "loop", at |-> Top.at + 1, first |-> Top.at + 1,
                   ends |-> ends, quote |-> FALSE, offset |-> 0]
             h == [proc |-> "command", pc |-> "emitted", old |-> nesting]
  <2>1. /\ UNCHANGED <<script, results, buffer, crashed, ret, regmatch, glob>> /\ nesting' = 0
        /\ Enter(f, <<g>> \o <<h>>)
    BY <1>14 DEF Command, EmitString, f
  <2> HIDE DEF ends
  <2>2. FrameOK(g) /\ g.proc \in Readers \ {"command", "arith"}
    BY <1>4, NewFrames DEF Readers
  <2>3. FrameOK(h) /\ h.proc \in Readers \ {"arith"} /\ h.old = nesting
    BY <1>2, NewFrames DEF Readers
  <2> HIDE DEF g, h
  <2>4. Quietly
    BY <1>1, <1>2, <1>3, <2>1, QuietOnes DEF RetOK
  <2> QED BY <1>1, <1>7, <2>1, <2>2, <2>3, <2>4, CallsTwo
<1> QED BY <1>8, <1>9, <1>10, <1>11, <1>12, <1>13, <1>14

LEMMA DefaultReads ==
  ASSUME FInv, DefaultEmitted
  PROVE  \E top : Reads(top)
<1>1. stack # <<>> /\ Top.proc = "function" /\ Top.proc \in Readers \ {"command", "arith", "substitute"}
  BY DEF DefaultEmitted, In, Readers
<1>2. /\ FrameOK(Top) /\ Kept(buffer) /\ RetOK
      /\ regmatch \in BOOLEAN /\ (regmatch => NamedBy(Len(results) + 1))
  BY <1>1, Reading
<1>3. {"STRING", "VAR"} \subseteq Types /\ Top.want \in Types
  BY <1>1, <1>2 DEF Types, FrameOK
<1>4. UNCHANGED <<script, results, crashed, regmatch, glob, nesting>>
  BY DEF DefaultEmitted, flags
<1>5. CASE ret.end = 0
  <2>1. /\ UNCHANGED buffer /\ stack' = Tail(stack)
        /\ ret' = [end |-> 0, got |-> "STRING", text |-> <<>>]
    BY <1>5 DEF DefaultEmitted, Leave, LeaveWith
  <2>2. RetOK'
    BY <1>3, <2>1 DEF RetOK
  <2>3. Quietly
    BY <1>1, <1>2, <1>4, <2>1, <2>2, QuietOnes
  <2> QED BY <1>1, <1>4, <2>1, <2>3, Leaves
<1>6. CASE ret.end # 0
  <2> DEFINE array == regmatch \/ Char(ret.end) = "["
             got == IF array THEN "VAR" ELSE "STRING"
             g == [proc |-> "rest", pc |-> "loop", at |-> ret.end, array |-> array,
                   got |-> got, want |-> Top.want, offset |-> 0]
  <2>1. /\ buffer' = Reopened(buffer, ret.end, regmatch) /\ Goto(g) /\ UNCHANGED ret
    BY <1>6 DEF DefaultEmitted, Rest, Goto
  <2>2. got \in Types /\ ret.end \in Position
    BY <1>2, <1>3, <1>6 DEF RetOK, Position
  <2> HIDE DEF got
  <2>3. FrameOK(g) /\ g.proc \in Readers \ {"command", "arith"}
    <3>1. PICK a : a = array
      OBVIOUS
    <3>2. g = [proc |-> "rest", pc |-> "loop", at |-> ret.end, array |-> a,
               got |-> got, want |-> Top.want, offset |-> 0]
      BY <3>1
    <3>3. FrameOK([proc |-> "rest", pc |-> "loop", at |-> ret.end, array |-> a,
               got |-> got, want |-> Top.want, offset |-> 0])
      BY <1>3, <2>2, NewFrames
    <3>4. g.proc = "rest"
      BY <3>2
    <3> HIDE DEF g
    <3> QED BY <3>2, <3>3, <3>4 DEF Readers
  <2> HIDE DEF g
  <2>4. Kept(buffer')
    BY <1>2, <2>1, KeptReopened
  <2>5. Quietly
    BY <1>1, <1>2, <1>4, <2>1, <2>4, QuietOnes DEF RetOK
  <2> QED BY <1>1, <1>4, <2>1, <2>3, <2>5, Stays
<1> QED BY <1>5, <1>6
-------------------------------------------------------------------------------
(***************************************************************************)
(* fix_string, and the operators that call it                              *)
(***************************************************************************)
\* The frame that runs after the step
LEMMA NextTop ==
  ASSUME FInv, Len(stack) > 1, NEW top, IsSeq(top), stack' = top \o Tail(stack)
  PROVE  /\ Len(top) = 0 => Top' = Frame(Len(stack) - 1)
         /\ Len(top) > 0 => Top' = top[1]
         /\ Len(stack') = Len(stack) - 1 + Len(top)
<1>1. stack # <<>>
  <2>1. Len(<<>>) = 0
    BY Listed
  <2> QED BY <2>1
<1>2. PICK n : n = Len(stack)
  OBVIOUS
<1>3. /\ IsSeq(stack') /\ n \in Nat \ {0} /\ Len(top) \in Nat
      /\ Len(stack') = n - 1 + Len(top)
      /\ \A j \in 1..(n - 1) : Frame(j)' = Frame(j)
      /\ \A j \in 1..Len(top) : Frame(n - 1 + j)' = top[Len(top) + 1 - j]
      /\ Top = Frame(n) /\ (stack' = <<>> <=> n = 1 /\ Len(top) = 0)
  BY <1>1, <1>2, Moves DEF FInv, StackOK
<1>4. PICK m \in Nat : m = Len(top)
  BY <1>3
<1>5. Top' = Frame(n - 1 + m)'
  <2>1. PICK s : s = stack' /\ IsSeq(s) /\ Len(s) = n - 1 + m
    BY <1>3, <1>4
  <2>2. Head(s) = s[1] /\ Len(s) + 1 - (n - 1 + m) = 1
    <3>1. n - 1 + m + 1 - (n - 1 + m) = 1
      BY ONLY <1>3, m \in Nat
    <3> QED BY <2>1, <3>1
  <2> QED BY <2>1, <2>2 DEF Top, Frame
<1>6. m = 0 => Frame(n - 1 + m)' = Frame(n - 1)
  BY <1>2, <1>3
<1>7. m > 0 => Frame(n - 1 + m)' = top[1]
  <2>1. m > 0 => m \in 1..m /\ m + 1 - m = 1
    BY <1>4
  <2> QED BY <1>3, <1>4, <2>1
<1> QED BY <1>2, <1>3, <1>4, <1>5, <1>6, <1>7

\* fix_string is called for a word, or for a part of it.
LEMMA Caller ==
  ASSUME FInv, stack # <<>>, Top.proc = "fix_string"
  PROVE  /\ Len(stack) \in Nat /\ Len(stack) > 1 /\ Frame(Len(stack) - 1).proc \in {"main", "operator"}
         /\ Len(stack) = 2 \/ Top.want = "STRING"
         /\ FrameOK(Top) /\ Begun = Len(results) + 1
         /\ Beginning => Len(stack) = 2 /\ Top.pc \in {"start", "next"}
<1>1. PICK n : n = Len(stack)
  OBVIOUS
<1>2. /\ n \in Nat \ {0} /\ Top = Frame(n) /\ FrameOK(Top) /\ n > 1 /\ Begun = Len(results) + 1
  BY <1>1, DeepEnough DEF FInv
<1>3. n \in 2..n /\ (n = 2 => n - 1 = 1) /\ 1 \in 1..n
  BY <1>2
<1>4. n = 2 \/ (Frame(n - 1).proc = "operator" /\ Frame(n).want = "STRING")
  BY <1>1, <1>2, <1>3 DEF FInv, StackOK
<1>5. n = 2 => Frame(n - 1).proc = "main"
  BY <1>1, <1>3 DEF FInv, StackOK
<1>6. Beginning => n = 2 /\ Top.pc \in {"start", "next"}
  BY <1>1 DEF Beginning
<1> QED BY <1>1, <1>2, <1>4, <1>5, <1>6

LEMMA Globals ==
  ASSUME FInv, stack # <<>>
  PROVE  IsSeq(Tail(stack)) /\ nesting \in Int /\ regmatch \in BOOLEAN /\ crashed \in BOOLEAN /\ RetOK
         /\ (regmatch => NamedBy(Len(results) + 1))
         /\ glob \in {"INACTIVE", "CONVERTING_GREEDY", "CONVERTING_UNGREEDY", "PROTECTING"}
<1>1. PICK S : stack \in Seq(S)
  BY DEF FInv, StackOK, IsSeq
<1>2. Tail(stack) \in Seq(S)
  BY <1>1
<1>3. Begun = Len(results) + 1
  BY DEF Begun
<1> QED BY <1>2, <1>3 DEF FInv, OthersOK, NestingInv, GlobInv, RetOK, IsSeq

LEMMA FrameAgain ==
  ASSUME NEW f, FrameOK(f), f.proc = "fix_string", f.alts # <<>>,
         NEW g, g = [f EXCEPT !.pc = "next"]
  PROVE  FrameOK(g) /\ g.proc = "fix_string" /\ g.pc = "next" /\ g.want = f.want
BY DEF FrameOK, Fields

LEMMA FrameFixed ==
  ASSUME NEW f, FrameOK(f), f.proc = "fix_string", f.alts # <<>>,
         NEW g, g = [f EXCEPT !.pc = "fixed", !.alts = Tail(@)]
  PROVE  FrameOK(g) /\ g.proc = "fix_string" /\ g.pc = "fixed" /\ g.want = f.want
<1>1. IsSeq(f.alts) /\ \A k \in DOMAIN f.alts : Kept(f.alts[k])
  BY DEF FrameOK
<1>2. PICK S : f.alts \in Seq(S)
  BY <1>1 DEF IsSeq
<1>3. PICK rest : rest = Tail(f.alts)
  OBVIOUS
<1>4. /\ rest \in Seq(S) /\ DOMAIN rest = 1..(Len(f.alts) - 1) /\ Len(f.alts) \in Nat
      /\ \A k \in DOMAIN rest : rest[k] = f.alts[k + 1] /\ k + 1 \in DOMAIN f.alts
  BY <1>2, <1>3
<1>5. IsSeq(rest) /\ \A k \in DOMAIN rest : Kept(rest[k])
  BY <1>1, <1>4 DEF IsSeq
<1>6. g = [f EXCEPT !.pc = "fixed", !.alts = rest]
  BY <1>3
<1>7. FrameOK(f) /\ f.proc = "fix_string"
  OBVIOUS
<1> QED BY ONLY <1>5, <1>6, <1>7 DEF FrameOK, Fields

LEMMA FixStringKeeps ==
  ASSUME FInv, FixString
  PROVE  FInv'
<1>1. stack # <<>> /\ Top.proc = "fix_string" /\ Top.pc = "start" /\ Top.proc \notin Readers
  BY ReadersAre DEF FixString, In
<1>2. /\ Len(stack) \in Nat /\ Len(stack) > 1 /\ Frame(Len(stack) - 1).proc \in {"main", "operator"}
      /\ Len(stack) = 2 \/ Top.want = "STRING"
      /\ FrameOK(Top) /\ Begun = Len(results) + 1
      /\ Beginning => Len(stack) = 2 /\ Top.pc \in {"start", "next"}
  BY <1>1, Caller
<1>3. PICK n \in Nat : n = Len(stack)
  BY <1>2
<1> DEFINE word == Top.alts[1]
           list == Top.want # "EXPRESSION" /\ \E i \in DOMAIN word : word[i] = "{a,b}"
<1>4. Kept(word)
  <2>1. IsSeq(Top.alts) /\ Top.alts # <<>> /\ \A k \in DOMAIN Top.alts : Kept(Top.alts[k])
    BY <1>1, <1>2 DEF FrameOK
  <2>2. 1 \in DOMAIN Top.alts
    BY <2>1, SequencesAre
  <2> QED BY <2>1, <2>2
<1>5. UNCHANGED <<script, results, buffer, glob, regmatch, crashed>>
  BY DEF FixString
<1>6. n = 2 => nesting = 0
  BY <1>1, <1>3 DEF FInv, NestingInv
<1>7. IsSeq(Tail(stack)) /\ nesting \in Int /\ regmatch \in BOOLEAN /\ crashed \in BOOLEAN /\ RetOK
      /\ (regmatch => NamedBy(Len(results) + 1))
      /\ glob \in {"INACTIVE", "CONVERTING_GREEDY", "CONVERTING_UNGREEDY", "PROTECTING"}
  BY <1>1, Globals
<1>8. CASE word = <<>>
  <2>1. stack' = Tail(stack) /\ ret' = Nothing /\ UNCHANGED nesting
    BY <1>8 DEF FixString, LeaveWith
  <2>2. IsSeq(<<>>) /\ Len(<<>>) = 0 /\ stack' = <<>> \o Tail(stack)
    BY <1>7, <2>1, Listed, Tuples
  <2>3. Top' = Frame(Len(stack) - 1)
    BY <1>2, <2>2, NextTop
  <2>4. Top'.proc \notin Readers
    BY <1>2, <2>3, ReadersAre
  <2>5. ReadsArithmetic(Top) => nesting' = 0
    BY <1>1, <1>2, <1>3, <1>6, <2>1 DEF ReadsArithmetic
  <2>6. LevelMoves(<<>>)
    BY <1>3, <1>6, <1>7, <2>1, <2>2, <2>5 DEF LevelMoves
  <2>7. ~Beginning
    BY <1>1, <1>2, <1>8 DEF Beginning
  <2>8. GlobMoves(<<>>)
    BY <1>1, <1>5, <1>7, <2>7 DEF GlobMoves, Converting
  <2>9. Fit(<<>>)
    BY <2>2 DEF Fit
  <2>10. RetOK'
    BY <2>1 DEF RetOK, Nothing, Types
  <2>11. Steps(<<>>)
    BY <1>2, <1>5, <1>7, <2>2, <2>4, <2>6, <2>8, <2>9, <2>10 DEF Steps
  <2> QED BY <2>11, StepsKeep
<1>9. CASE word # <<>>
  <2> DEFINE alts == IF list THEN Expansions(word) ELSE <<word>>
             f == [Top EXCEPT !.pc = "next", !.list = list, !.alts = alts]
  <2>1. Goto(f) /\ nesting' = 0 /\ UNCHANGED ret
    BY <1>9 DEF FixString
  <2>2. /\ IsSeq(alts) /\ alts # <<>> /\ alts[1] # <<>>
        /\ \A k \in DOMAIN alts : Kept(alts[k])
        /\ word[1] # "{a,b}" => alts[1][1] = word[1]
    <3>1. CASE list
      BY <1>4, <1>9, <3>1, KeptExpansions
    <3>2. CASE ~list
      <4>1. IsSeq(<<word>>) /\ Len(<<word>>) = 1 /\ <<word>>[1] = word /\ DOMAIN <<word>> = 1..1
        BY Listed
      <4>2. <<word>> # <<>>
        BY <4>1, Listed
      <4>3. PICK w : w = word
        OBVIOUS
      <4>4. alts = <<w>>
        BY <3>2, <4>3
      <4>5. Kept(w) /\ w # <<>>
        BY <1>4, <1>9, <4>3
      <4> HIDE DEF alts, word
      <4> QED BY <4>1, <4>2, <4>3, <4>4, <4>5
    <3> QED BY <3>1, <3>2
  <2> HIDE DEF alts
  <2>3. /\ FrameOK(f) /\ f.proc = "fix_string" /\ f.pc = "next" /\ f.want = Top.want
        /\ f.alts = alts
    <3>0. PICK l, a, t : l = list /\ a = alts /\ t = Top
      OBVIOUS
    <3>1. PICK g : g = [t EXCEPT !.pc = "next", !.list = l, !.alts = a]
      OBVIOUS
    <3>2. /\ IsSeq(a) /\ a # <<>> /\ \A k \in DOMAIN a : Kept(a[k])
          /\ FrameOK(t) /\ t.proc = "fix_string"
      BY <1>1, <1>2, <2>2, <3>0
    <3>3. /\ FrameOK(g) /\ g.proc = "fix_string" /\ g.pc = "next" /\ g.want = t.want
          /\ g.alts = a
      BY ONLY <3>1, <3>2 DEF FrameOK, Fields
    <3>4. g = f
      BY <3>0, <3>1
    <3> HIDE DEF list, f
    <3> QED BY <3>0, <3>3, <3>4
  <2> HIDE DEF f
  <2>4. IsSeq(<<f>>) /\ Len(<<f>>) = 1 /\ <<f>>[1] = f /\ stack' = <<f>> \o Tail(stack)
    BY <2>1, Listed DEF Goto
  <2>5. Top' = f /\ Len(stack') = Len(stack)
    <3>1. Len(<<f>>) > 0
      BY <2>4
    <3> QED BY <1>1, <2>1, NewTop
  <2>6. LevelMoves(<<f>>)
    BY <2>1, <2>3, <2>4 DEF LevelMoves
  <2>7. Beginning /\ BeginsWithText(Now) => Beginning'
    <3>1. SUFFICES ASSUME Beginning, BeginsWithText(Now) PROVE Beginning'
      OBVIOUS
    <3>2. Len(stack) = 2 /\ Top.want = Now.want /\ word[1] = Now.word[1]
      BY <1>1, <3>1 DEF Beginning
    <3>3. word[1] # "{a,b}"
      BY <3>1, <3>2 DEF BeginsWithText
    <3>4. Now' = Now
      BY <1>5 DEF Now
    <3> QED BY <2>2, <2>3, <2>5, <3>2, <3>3, <3>4 DEF Beginning
  <2>8. GlobMoves(<<f>>)
    BY <1>1, <1>5, <1>7, <2>7 DEF GlobMoves, Converting
  <2>9. Fit(<<f>>)
    <3>1. \A k \in 1..Len(<<f>>) : k = 1 /\ <<f>>[k] = f
      BY <2>4
    <3> QED BY <1>1, <2>3, <2>4, <3>1 DEF Fit
  <2>10. RetOK'
    BY <1>7, <2>1 DEF RetOK
  <2>11. Top'.proc \notin Readers
    BY <2>3, <2>5, ReadersAre
  <2>12. Steps(<<f>>)
    BY <1>2, <1>5, <1>7, <2>4, <2>6, <2>8, <2>9, <2>10, <2>11 DEF Steps
  <2> QED BY <2>12, StepsKeep
<1> QED BY <1>8, <1>9

LEMMA FixString1Keeps ==
  ASSUME FInv, FixString1
  PROVE  FInv'
<1>1. stack # <<>> /\ Top.proc = "fix_string" /\ Top.pc = "next" /\ Top.proc \notin Readers
  BY ReadersAre DEF FixString1, In
<1>2. /\ Len(stack) \in Nat /\ Len(stack) > 1
      /\ Len(stack) = 2 \/ Top.want = "STRING"
      /\ FrameOK(Top) /\ Begun = Len(results) + 1
      /\ Beginning => Len(stack) = 2 /\ Top.pc \in {"start", "next"}
  BY <1>1, Caller
<1>3. IsSeq(Tail(stack)) /\ nesting \in Int /\ regmatch \in BOOLEAN /\ crashed \in BOOLEAN /\ RetOK
      /\ (regmatch => NamedBy(Len(results) + 1))
      /\ glob \in {"INACTIVE", "CONVERTING_GREEDY", "CONVERTING_UNGREEDY", "PROTECTING"}
  BY <1>1, Globals
<1> DEFINE want == IF Top.list /\ Top.want = "ARRAY" THEN "VAR" ELSE Top.want
           g == IF want = "EXPRESSION"
                THEN [proc |-> "expand", pc |-> "loop", at |-> 1, offset |-> 0]
                ELSE [proc |-> "substitute", pc |-> "start", at |-> 1, want |-> want,
                      want1 |-> want, file |-> FALSE, got |-> "NONE", quote |-> NotQuoted,
                      offset |-> 0]
           f == [Top EXCEPT !.pc = "fixed", !.alts = Tail(@)]
<1>4. /\ UNCHANGED <<script, results, glob, regmatch, ret, crashed>> /\ Enter(f, <<g>>)
      /\ buffer' = Top.alts[1] /\ nesting' = IF want = "EXPRESSION" THEN 1 ELSE 0
  BY DEF FixString1
<1>5. want \in Types /\ (want = "EXPRESSION" <=> Top.want = "EXPRESSION")
  BY <1>1, <1>2 DEF FrameOK, Types
<1> HIDE DEF want
<1>6. FrameOK(g) /\ g.proc \in {"expand", "substitute"} /\ g.proc \in Readers
      /\ (want # "EXPRESSION" => g.proc = "substitute" /\ g.pc = "start") /\ g.at = 1
  <2>1. 1 \in Position /\ "NONE" \in Types
    BY DEF Position, Types
  <2>2. CASE want = "EXPRESSION"
    BY <2>1, <2>2 DEF FrameOK, Fields, Readers
  <2>3. CASE want # "EXPRESSION"
    BY <1>5, <2>1, <2>3 DEF FrameOK, Fields, Readers
  <2> QED BY <2>2, <2>3
<1>7. /\ FrameOK(f) /\ f.proc = "fix_string" /\ f.pc = "fixed" /\ f.want = Top.want
      /\ Kept(Top.alts[1])
  <2>1. IsSeq(Top.alts) /\ Top.alts # <<>> /\ \A k \in DOMAIN Top.alts : Kept(Top.alts[k])
    BY <1>1, <1>2 DEF FrameOK
  <2>2. 1 \in DOMAIN Top.alts
    BY <2>1, SequencesAre
  <2>3. FrameOK(f) /\ f.proc = "fix_string" /\ f.pc = "fixed" /\ f.want = Top.want
    BY <1>1, <1>2, <2>1, FrameFixed
  <2> HIDE DEF f
  <2> QED BY <2>1, <2>2, <2>3
<1> HIDE DEF f, g
<1>8. IsSeq(<<g, f>>) /\ Len(<<g, f>>) = 2 /\ <<g, f>>[1] = g /\ <<g, f>>[2] = f
      /\ stack' = <<g, f>> \o Tail(stack)
  BY <1>4, Listed, Tuples DEF Enter
<1>9. Top' = g /\ Len(stack') = Len(stack) + 1
  <2>1. Len(<<g, f>>) > 0
    BY <1>8
  <2>2. Top' = g /\ Len(stack') = Len(stack) - 1 + Len(<<g, f>>)
    BY <1>2, <1>8, <2>1, NextTop
  <2> QED BY <1>2, <1>8, <2>2
<1>10. LevelMoves(<<g, f>>)
  <2>1. want = "EXPRESSION" => ReadsArithmetic(f)
    BY <1>5, <1>7 DEF ReadsArithmetic
  <2> QED BY <1>4, <1>8, <2>1 DEF LevelMoves
<1>11. Beginning /\ BeginsWithText(Now) => Beginning'
  <2>1. SUFFICES ASSUME Beginning, BeginsWithText(Now) PROVE Beginning'
    OBVIOUS
  <2>2. /\ Len(stack) = 2 /\ Top.want = Now.want /\ Top.alts[1] # <<>>
        /\ Top.alts[1][1] = Now.word[1]
    BY <1>1, <2>1 DEF Beginning
  <2>3. want # "EXPRESSION" /\ Len(stack') = 3
    BY <1>5, <1>9, <2>1, <2>2 DEF BeginsWithText
  <2>4. Now' = Now
    BY <1>4 DEF Now
  <2> QED BY <1>4, <1>6, <1>9, <2>2, <2>3, <2>4 DEF Beginning
<1>12. GlobMoves(<<g, f>>)
  BY <1>1, <1>3, <1>4, <1>11 DEF GlobMoves, Converting
<1>13. Fit(<<g, f>>)
  <2>1. \A k \in 1..2 : k = 1 \/ k = 2
    OBVIOUS
  <2>2. /\ g.proc \notin {"fix_string", "main", "command", "operator"}
        /\ f.proc \notin {"main", "command", "operator"}
    BY <1>6, <1>7
  <2> QED BY <1>1, <1>6, <1>7, <1>8, <2>1, <2>2 DEF Fit
<1>14. RetOK' /\ Kept(buffer')
  BY <1>3, <1>4, <1>7 DEF RetOK
<1>15. Steps(<<g, f>>)
  BY <1>2, <1>3, <1>4, <1>8, <1>10, <1>12, <1>13, <1>14 DEF Steps
<1> QED BY <1>15, StepsKeep

LEMMA FixedKeeps ==
  ASSUME FInv, Fixed
  PROVE  FInv'
<1>1. stack # <<>> /\ Top.proc = "fix_string" /\ Top.pc = "fixed" /\ Top.proc \notin Readers
  BY ReadersAre DEF Fixed, In
<1>2. /\ Len(stack) \in Nat /\ Len(stack) > 1 /\ Frame(Len(stack) - 1).proc \in {"main", "operator"}
      /\ FrameOK(Top) /\ Begun = Len(results) + 1 /\ ~Beginning
  BY <1>1, Caller
<1>3. IsSeq(Tail(stack)) /\ nesting \in Int /\ regmatch \in BOOLEAN /\ crashed \in BOOLEAN /\ RetOK
      /\ (regmatch => NamedBy(Len(results) + 1))
      /\ glob \in {"INACTIVE", "CONVERTING_GREEDY", "CONVERTING_UNGREEDY", "PROTECTING"}
  BY <1>1, Globals
<1>4. UNCHANGED <<script, results, glob, regmatch, crashed>>
  BY DEF Fixed
<1>5. CASE Top.alts # <<>>
  <2> DEFINE f == [Top EXCEPT !.pc = "next"]
  <2>1. Goto(f) /\ UNCHANGED <<nesting, ret>>
    BY <1>5 DEF Fixed
  <2>2. FrameOK(f) /\ f.proc = "fix_string" /\ f.pc = "next" /\ f.want = Top.want
    BY <1>1, <1>2, <1>5, FrameAgain
  <2> HIDE DEF f
  <2>3. IsSeq(<<f>>) /\ Len(<<f>>) = 1 /\ <<f>>[1] = f /\ stack' = <<f>> \o Tail(stack)
    BY <2>1, Listed DEF Goto
  <2>4. Top' = f
    BY <1>1, <2>1, NewTop
  <2>5. LevelMoves(<<f>>)
    <3>1. ReadsArithmetic(Top) => ReadsArithmetic(f)
      BY <1>1, <2>2 DEF ReadsArithmetic
    <3> QED BY <1>3, <2>1, <2>2, <2>3, <3>1 DEF LevelMoves
  <2>6. GlobMoves(<<f>>)
    BY <1>1, <1>2, <1>3, <1>4 DEF GlobMoves, Converting
  <2>7. Fit(<<f>>)
    <3>1. \A k \in 1..Len(<<f>>) : k = 1 /\ <<f>>[k] = f
      BY <2>3
    <3> QED BY <1>1, <2>2, <2>3, <3>1 DEF Fit
  <2>8. RetOK' /\ Top'.proc \notin Readers
    BY <1>3, <2>1, <2>2, <2>4, ReadersAre DEF RetOK
  <2>9. Steps(<<f>>)
    BY <1>2, <1>3, <1>4, <2>3, <2>5, <2>6, <2>7, <2>8 DEF Steps
  <2> QED BY <2>9, StepsKeep
<1>6. CASE Top.alts = <<>>
  <2>1. /\ stack' = Tail(stack) /\ nesting' = 0
        /\ \E text, got : got \in {"ARRAY", "EXPRESSION", ret.got}
                          /\ ret' = [end |-> 0, text |-> text, got |-> got]
    BY <1>6 DEF Fixed, LeaveWith
  <2>2. IsSeq(<<>>) /\ Len(<<>>) = 0 /\ stack' = <<>> \o Tail(stack)
    BY <1>3, <2>1, Listed, Tuples
  <2>3. Top' = Frame(Len(stack) - 1)
    BY <1>2, <2>2, NextTop
  <2>4. Top'.proc \notin Readers
    BY <1>2, <2>3, ReadersAre
  <2>5. LevelMoves(<<>>)
    BY <2>1, <2>2 DEF LevelMoves
  <2>6. GlobMoves(<<>>)
    BY <1>1, <1>2, <1>3, <1>4 DEF GlobMoves, Converting
  <2>7. Fit(<<>>)
    BY <2>2 DEF Fit
  <2>8. RetOK'
    <3>1. {"ARRAY", "EXPRESSION", ret.got} \subseteq Types
      BY <1>3 DEF RetOK, Types
    <3> QED BY <2>1, <3>1 DEF RetOK
  <2>9. Steps(<<>>)
    BY <1>2, <1>3, <1>4, <2>2, <2>4, <2>5, <2>6, <2>7, <2>8 DEF Steps
  <2> QED BY <2>9, StepsKeep
<1> QED BY <1>5, <1>6

\* Nothing but that the translator is no more
LEMMA OnlyCrashes ==
  ASSUME FInv, crashed' \in BOOLEAN,
         UNCHANGED <<script, results, buffer, glob, nesting, regmatch, stack, ret>>
  PROVE  FInv'
<1>1. /\ \A f : FrameOK(f) => FrameOK(f)'
      /\ \A k : (MayOperate(k) => MayOperate(k)') /\ (NamedBy(k) => NamedBy(k)')
  BY SameItem
<1>2. (\A j : Frame(j)' = Frame(j)) /\ Top' = Top
  BY DEF Frame, Top
<1>3. \A m : Levels(m)' = Levels(m)
  BY <1>2 DEF Levels, ReadsArithmetic
<1>4. StackOK'
  BY <1>1, <1>2 DEF FInv, StackOK
<1>5. BufferKept'
  BY <1>2, SameItem DEF FInv, BufferKept
<1>6. NestingInv'
  BY <1>2, <1>3 DEF FInv, NestingInv
<1>7. (Beginning => Beginning') /\ Begun' = Begun
  BY <1>2 DEF Beginning, Begun, Now
<1>8. GlobInv'
  BY <1>1, <1>2, <1>7 DEF FInv, GlobInv, Converting, BeginsWithText
<1>9. OthersOK'
  BY <1>1, <1>7 DEF FInv, OthersOK
<1> QED BY <1>4, <1>5, <1>6, <1>8, <1>9 DEF FInv

\* fix_string is called for a part of a text.
LEMMA StringFrame ==
  ASSUME NEW word, Kept(word)
  PROVE  \E g : /\ FixStringOf(word, "STRING") = <<g>> /\ FrameOK(g)
                /\ g.proc = "fix_string" /\ g.pc = "start" /\ g.want = "STRING"
<1>1. PICK a : a = <<word>>
  OBVIOUS
<1>2. IsSeq(a) /\ Len(a) = 1 /\ a[1] = word /\ DOMAIN a = 1..1 /\ a # <<>>
  <2>1. IsSeq(a) /\ Len(a) = 1 /\ a[1] = word
    BY <1>1, Listed
  <2> QED BY <2>1, SequencesAre
<1>3. PICK g : g = [proc |-> "fix_string", pc |-> "start", want |-> "STRING", alts |-> a, list |-> FALSE]
  OBVIOUS
<1>4. IsSeq(a) /\ a # <<>> /\ \A k \in DOMAIN a : Kept(a[k])
  BY <1>2
<1>5. FrameOK(g) /\ g.proc = "fix_string" /\ g.pc = "start" /\ g.want = "STRING"
  BY ONLY <1>3, <1>4 DEF FrameOK, Fields, Types
<1>6. FixStringOf(word, "STRING") = <<g>>
  BY <1>1, <1>3 DEF FixStringOf
<1> QED BY <1>5, <1>6

\* An operator that is met in the buffer comes from the word.
LEMMA OperatorHere ==
  ASSUME FInv, Kept(buffer), NEW p \in Position, Char(p) \in Named,
         Char(FirstFrom(buffer, Operators, p + 1)) \in {"/", "#"}
  PROVE  /\ MayOperate(Len(results) + 1) /\ FirstFrom(buffer, Operators, p + 1) \in Position
         /\ p \in DOMAIN buffer /\ buffer[p] = Char(p)
<1>1. IsSeq(buffer) /\ DOMAIN buffer = 1..Len(buffer)
  BY SequencesAre DEF Kept
<1>2. PICK n \in Nat : n = Len(buffer)
  BY <1>1, SequencesAre
<1>3. PICK q \in Position : q = p + 1
  BY DEF Position
<1>4. PICK o : o = FirstFrom(buffer, Operators, q)
  OBVIOUS
<1>5. /\ o \in Position
      /\ o <= n => o >= q /\ buffer[o] \in Operators /\ \A k \in q..(o - 1) : buffer[k] \notin Operators
  BY <1>1, <1>2, <1>4, Searches
<1>6. p <= n /\ o <= n
  BY <1>2, <1>3, <1>4 DEF Char, Named
<1>7. p \in 1..n /\ o \in 1..n /\ p < o /\ q = p + 1 /\ p \in DOMAIN buffer /\ o \in DOMAIN buffer
  <2>1. p \in 1..n /\ o \in 1..n /\ p < o /\ q = p + 1
    BY ONLY <1>3, <1>5, <1>6, n \in Nat, p \in Position DEF Position
  <2> QED BY <2>1, <1>1, <1>2
<1>8. buffer[p] = Char(p) /\ buffer[o] = Char(o)
  BY <1>2, <1>6 DEF Char
<1>9. OpensOperator(buffer, TRUE) /\ OpensOperator(buffer, FALSE)
  <2>1. buffer[p] \in Named /\ buffer[o] \in {"/", "#"}
    BY <1>3, <1>4, <1>8
  <2>2. \A k \in (p + 1)..(o - 1) : buffer[k] \notin Operators
    BY <1>5, <1>6, <1>7
  <2> QED BY <1>7, <2>1, <2>2 DEF OpensOperator
<1>10. MayOperate(Len(results) + 1)
  BY <1>9 DEF Kept, MayOperate, HasOperator, Now
<1> QED BY <1>3, <1>4, <1>5, <1>7, <1>8, <1>10

LEMMA SubstitutionKeeps ==
  ASSUME FInv, Substitution
  PROVE  FInv'
<1>1. stack # <<>> /\ Top.proc = "enclosed" /\ Top.proc \in Readers /\ Char(Top.at) \in Named
      /\ Char(Operator) \in {"/", "#"} /\ UNCHANGED <<script, results, nesting, regmatch, ret>>
  BY DEF Substitution, At, In, Readers
<1>2. /\ FrameOK(Top) /\ Kept(buffer) /\ IsSeq(buffer) /\ RetOK /\ crashed \in BOOLEAN
      /\ regmatch \in BOOLEAN /\ (regmatch => NamedBy(Len(results) + 1)) /\ nesting \in Int
      /\ Len(stack) # 2 /\ ~Beginning
  BY <1>1, Reading
<1>3. Len(stack) \in Nat /\ Len(stack) > 1 /\ Begun = Len(results) + 1
  <2>1. Len(stack) \in Nat /\ Len(stack) > 2 /\ Len(results) + 1 = Begun
    BY <1>1, DeepEnough DEF FInv
  <2>2. PICK n \in Nat : n = Len(stack)
    BY <2>1
  <2>3. n > 1
    BY <2>1, <2>2
  <2> QED BY <2>1, <2>2, <2>3
<1>4. Top.at \in Position /\ Top.want \in Types
  BY <1>1, <1>2 DEF FrameOK
<1>5. MayOperate(Begun) /\ Operator \in Position /\ Top.at \in DOMAIN buffer /\ buffer[Top.at] = Char(Top.at)
  BY <1>1, <1>2, <1>3, <1>4, OperatorHere DEF Operator
<1> DEFINE op == Char(Operator)
           doubled == Char(Operator + 1) = op
           value == Operator + (IF doubled \/ Char(Operator + 1) = "#" THEN 2 ELSE 1)
           last == LastBrace(buffer, value)
           parameters == SubSeq(buffer, value, last - 1)
           delim == IF op = "/" THEN Delimiter(parameters) ELSE 0
           word == IF delim = 0 THEN parameters ELSE SubSeq(parameters, 1, delim - 1)
           repl == IF delim = 0 THEN <<>> ELSE SubSeq(parameters, delim + 1, Len(parameters))
           name == IF Char(Top.at) = "${M" THEN "$M" ELSE "$x"
           f == [Top EXCEPT !.pc = "cast"]
           h == [proc |-> "operator", pc |-> "pattern", op |-> op, last |-> last,
                 name |-> name, repl |-> repl,
                 pattern |-> <<>>, replaced |-> <<>>, buffer |-> buffer, new |-> new,
                 want |-> Top.want]
<1>6. CASE last = 0
  <2>1. crashed' = TRUE /\ UNCHANGED <<stack, buffer, glob>>
    BY <1>6 DEF Substitution
  <2> QED BY <1>1, <2>1, OnlyCrashes
<1>7. CASE last # 0
  <2>1. /\ glob' \in {"CONVERTING_GREEDY", "CONVERTING_UNGREEDY"} /\ UNCHANGED crashed
        /\ Enter(f, FixStringOf(word, "STRING") \o <<h>>)
    BY <1>7 DEF Substitution
  <2>2. Kept(parameters) /\ IsSeq(parameters) /\ last \in Position /\ Kept(SubSeq(buffer, 2, 1))
    <3>1. PICK n \in Nat : n = Len(buffer) /\ DOMAIN buffer = 1..n
      BY <1>2, SequencesAre
    <3>2. PICK o \in Position : o = Operator
      BY <1>5
    <3>3. PICK v \in Position : v = value
      <4>1. o + 1 \in Position /\ o + 2 \in Position
        BY ONLY o \in Position DEF Position
      <4> QED BY <3>2, <4>1
    <3>4. LastBrace(buffer, v) \in 0..n
      BY <1>2, <3>1, Searches
    <3>5. PICK l \in 1..n : l = last
      <4>1. LastBrace(buffer, v) \in 1..n
        BY <1>7, <3>1, <3>3, <3>4
      <4> QED BY <3>3, <4>1
    <3>6. l - 1 \in Int /\ l - 1 <= n /\ l \in Position /\ v \in Nat \ {0}
      BY <3>1, <3>3, <3>5 DEF Position
    <3>7. Kept(SubSeq(buffer, v, l - 1))
      BY <1>2, <3>1, <3>6, KeptSubSeq
    <3>8. 1 <= n
      BY <1>5, <3>1
    <3>9. 2 \in Nat \ {0} /\ 1 \in Int /\ Kept(SubSeq(buffer, 2, 1))
      BY <1>2, <3>1, <3>8, KeptSubSeq
    <3> HIDE DEF value, last
    <3> QED BY <3>3, <3>5, <3>6, <3>7, <3>9 DEF Kept
  <2> HIDE DEF last, value, op, parameters
  <2>3. Kept(word) /\ Kept(repl)
    <3>1. PICK n \in Nat : n = Len(parameters)
      BY <2>2, SequencesAre
    <3>2. PICK d \in 0..n : d = delim
      <4>1. Delimiter(parameters) \in 0..n
        <5>1. 1 \in Position
          BY DEF Position
        <5> QED BY <2>2, <3>1, <5>1, Searches
      <4>2. 0 \in 0..n
        BY <3>1
      <4> QED BY <4>1, <4>2
    <3>3. d - 1 \in Int /\ d - 1 <= n /\ d + 1 \in Nat \ {0} /\ 1 \in Nat \ {0} /\ n \in Int /\ n <= n
      BY <3>1, <3>2
    <3>4. Kept(SubSeq(parameters, 1, d - 1)) /\ Kept(SubSeq(parameters, d + 1, n))
      BY <2>2, <3>1, <3>3, KeptSubSeq
    <3>5. Kept(<<>>)
      <4>1. SubSeq(buffer, 2, 1) = <<>>
        BY SubSeqEmpty
      <4> QED BY <2>2, <4>1
    <3> HIDE DEF delim
    <3> QED BY <2>2, <3>1, <3>2, <3>4, <3>5
  <2> HIDE DEF word, repl, delim
  <2>4. Kept(<<name>>)
    <3>1. PICK m \in {"$M", "$x"} : m = name /\ (m = "$M" => Char(Top.at) = "${M")
      OBVIOUS
    <3>2. PICK t : t = <<m>>
      OBVIOUS
    <3>3. IsSeq(t) /\ Len(t) = 1 /\ t[1] = m /\ DOMAIN t = 1..1
      <4>1. IsSeq(t) /\ Len(t) = 1 /\ t[1] = m
        BY <3>2, Listed
      <4> QED BY <4>1, SequencesAre
    <3>4. NamesRematch(t) => NamesRematch(Now.word)
      <4>1. NamesRematch(t) => m = "$M"
        <5>1. \A i \in DOMAIN t : i = 1
          BY ONLY <3>3
        <5>2. m = "$M" \/ m = "$x"
          BY <3>1
        <5> QED BY <3>3, <5>1, <5>2 DEF NamesRematch, Has
      <4>2. Char(Top.at) = "${M" => NamesRematch(buffer)
        BY <1>5 DEF NamesRematch, Has
      <4> QED BY <1>2, <3>1, <4>1, <4>2 DEF Kept
    <3>5. ~OpensOperator(t, TRUE) /\ ~OpensOperator(t, FALSE)
      <4>1. \A i, j \in DOMAIN t : ~(i < j)
        BY ONLY <3>3
      <4> QED BY <4>1 DEF OpensOperator
    <3>6. Kept(t)
      BY <3>3, <3>4, <3>5 DEF Kept
    <3> QED BY <3>1, <3>2, <3>6
  <2> HIDE DEF name
  <2>5. FrameOK(h) /\ h.proc = "operator" /\ h.pc = "pattern"
    <3>1. PICK b, w, e, r, m, l, o : /\ b = buffer /\ w = Top.want /\ e = new /\ r = repl /\ m = name
                                     /\ l = last /\ o = op
      OBVIOUS
    <3>2. PICK k : k = [proc |-> "operator", pc |-> "pattern", op |-> o, last |-> l,
                        name |-> m, repl |-> r, pattern |-> <<>>, replaced |-> <<>>,
                        buffer |-> b, new |-> e, want |-> w]
      OBVIOUS
    <3>3. Kept(b) /\ Kept(r) /\ Kept(<<m>>) /\ l \in Position /\ w \in Types
      BY <1>2, <1>4, <2>2, <2>3, <2>4, <3>1
    <3>4. FrameOK(k) /\ k.proc = "operator" /\ k.pc = "pattern"
      BY ONLY <3>2, <3>3 DEF FrameOK, Fields
    <3>5. k = h
      BY <3>1, <3>2
    <3> HIDE DEF h
    <3> QED BY <3>4, <3>5
  <2>6. FrameOK(f) /\ f.proc = "enclosed"
    BY <1>1, <1>2 DEF FrameOK, Fields
  <2> HIDE DEF f, h
  <2>7. PICK g : /\ FixStringOf(word, "STRING") = <<g>> /\ FrameOK(g)
                 /\ g.proc = "fix_string" /\ g.pc = "start" /\ g.want = "STRING"
    BY <2>3, StringFrame
  <2>8. /\ IsSeq(<<g, h, f>>) /\ Len(<<g, h, f>>) = 3
        /\ <<g, h, f>>[1] = g /\ <<g, h, f>>[2] = h /\ <<g, h, f>>[3] = f
        /\ stack' = <<g, h, f>> \o Tail(stack)
    <3>1. stack' = ((FixStringOf(word, "STRING") \o <<h>>) \o <<f>>) \o Tail(stack)
      BY <2>1 DEF Enter
    <3>2. stack' = ((<<g>> \o <<h>>) \o <<f>>) \o Tail(stack)
      BY <2>7, <3>1
    <3>3. (<<g>> \o <<h>>) \o <<f>> = <<g, h, f>>
      <4>1. <<g>> \o <<h>> = <<g, h>> /\ <<g, h>> \o <<f>> = <<g, h, f>>
        BY Tuples
      <4> QED BY <4>1
    <3> QED BY <3>2, <3>3, Listed
  <2>9. Top'.proc \notin Readers
    <3>1. Len(<<g, h, f>>) > 0
      BY <2>8
    <3>2. Top' = g
      BY <1>3, <2>8, <3>1, NextTop
    <3> QED BY <2>7, <3>2, ReadersAre
  <2>10. LevelMoves(<<g, h, f>>)
    <3>1. ~ReadsArithmetic(Top)
      BY <1>1, ReadersAre
    <3> QED BY <1>1, <1>2, <2>8, <3>1 DEF LevelMoves
  <2>11. GlobMoves(<<g, h, f>>)
    <3>1. 2 \in 1..Len(<<g, h, f>>)
      BY <2>8
    <3> QED BY <1>2, <2>1, <2>5, <2>8, <3>1 DEF GlobMoves
  <2>12. Fit(<<g, h, f>>)
    <3>1. \A k \in 1..3 : k = 1 \/ k = 2 \/ k = 3
      OBVIOUS
    <3> QED BY <1>1, <1>5, <2>5, <2>6, <2>7, <2>8, <3>1 DEF Fit
  <2>13. RetOK'
    BY <1>1, <1>2 DEF RetOK
  <2>14. Steps(<<g, h, f>>)
    BY <1>1, <1>2, <1>3, <2>1, <2>8, <2>9, <2>10, <2>11, <2>12, <2>13 DEF Steps
  <2> QED BY <2>14, StepsKeep
<1> QED BY <1>6, <1>7

\* The frame of an operator
LEMMA OperatorTop ==
  ASSUME FInv, stack # <<>>, Top.proc = "operator"
  PROVE  /\ FrameOK(Top) /\ MayOperate(Begun) /\ Begun = Len(results) + 1 /\ ~Beginning
         /\ Kept(Top.buffer) /\ Kept(Top.repl) /\ Kept(<<Top.name>>)
         /\ Top.last \in Position /\ Top.want \in Types
         /\ Len(stack) \in Nat /\ Len(stack) > 1 /\ Len(stack) # 2 /\ ~ReadsArithmetic(Top)
<1>1. PICK n \in Nat : n = Len(stack)
  BY DeepEnough DEF FInv
<1>2. FrameOK(Top) /\ Top = Frame(n) /\ n > 2 /\ Begun = Len(results) + 1
  BY <1>1, DeepEnough DEF FInv
<1>3. n \in 1..n /\ n > 1 /\ n # 2
  BY ONLY <1>2, n \in Nat
<1>4. MayOperate(Begun)
  BY <1>1, <1>2, <1>3 DEF FInv, GlobInv
<1>5. ~Beginning
  BY <1>1, <1>3 DEF Beginning
<1> QED BY <1>1, <1>2, <1>3, <1>4, <1>5 DEF FrameOK, ReadsArithmetic

LEMMA OperatorCalls ==
  ASSUME FInv, stack # <<>>, Top.proc = "operator",
         UNCHANGED <<script, results, nesting, regmatch, ret, crashed>>,
         glob' = "INACTIVE" \/ (glob' = glob /\ Top.pc # "pattern"),
         NEW word, Kept(word), NEW f, FrameOK(f), f.proc = "operator",
         Enter(f, FixStringOf(word, "STRING"))
  PROVE  FInv'
<1>1. /\ MayOperate(Begun) /\ Begun = Len(results) + 1
      /\ Len(stack) \in Nat /\ Len(stack) > 1 /\ Len(stack) # 2 /\ ~ReadsArithmetic(Top)
  BY OperatorTop
<1>2. IsSeq(Tail(stack)) /\ nesting \in Int /\ regmatch \in BOOLEAN /\ crashed \in BOOLEAN /\ RetOK
      /\ (regmatch => NamedBy(Len(results) + 1))
      /\ glob \in {"INACTIVE", "CONVERTING_GREEDY", "CONVERTING_UNGREEDY", "PROTECTING"}
  BY Globals
<1>3. PICK g : /\ FixStringOf(word, "STRING") = <<g>> /\ FrameOK(g)
               /\ g.proc = "fix_string" /\ g.pc = "start" /\ g.want = "STRING"
  BY StringFrame
<1>4. /\ IsSeq(<<g, f>>) /\ Len(<<g, f>>) = 2 /\ <<g, f>>[1] = g /\ <<g, f>>[2] = f
      /\ stack' = <<g, f>> \o Tail(stack)
  <2>1. stack' = (<<g>> \o <<f>>) \o Tail(stack)
    BY <1>3 DEF Enter
  <2>2. <<g>> \o <<f>> = <<g, f>>
    BY Tuples
  <2> QED BY <2>1, <2>2, Listed
<1>5. Top'.proc \notin Readers
  <2>1. Len(<<g, f>>) > 0
    BY <1>4
  <2>2. Top' = g
    BY <1>1, <1>4, <2>1, NextTop
  <2> QED BY <1>3, <2>2, ReadersAre
<1>6. LevelMoves(<<g, f>>)
  BY <1>1, <1>2, <1>4 DEF LevelMoves
<1>7. GlobMoves(<<g, f>>)
  BY <1>1, <1>2 DEF GlobMoves, Converting
<1>8. Fit(<<g, f>>)
  <2>1. \A k \in 1..2 : k = 1 \/ k = 2
    OBVIOUS
  <2> QED BY <1>1, <1>3, <1>4, <2>1 DEF Fit
<1>9. RetOK'
  BY <1>2 DEF RetOK
<1>10. Steps(<<g, f>>)
  BY <1>1, <1>2, <1>4, <1>5, <1>6, <1>7, <1>8, <1>9 DEF Steps
<1> QED BY <1>10, StepsKeep

LEMMA OperatorGoes ==
  ASSUME FInv, stack # <<>>, Top.proc = "operator",
         UNCHANGED <<script, results, nesting, regmatch, crashed>>, RetOK',
         glob' = "PROTECTING" \/ (glob' = glob /\ Top.pc # "pattern"),
         NEW f, FrameOK(f), f.proc \in {"operator", "rest"}, f.proc = "rest" => Kept(buffer'),
         Goto(f)
  PROVE  FInv'
<1>1. /\ MayOperate(Begun) /\ Begun = Len(results) + 1
      /\ Len(stack) \in Nat /\ Len(stack) > 1 /\ Len(stack) # 2 /\ ~ReadsArithmetic(Top)
  BY OperatorTop
<1>2. IsSeq(Tail(stack)) /\ nesting \in Int /\ regmatch \in BOOLEAN /\ crashed \in BOOLEAN
      /\ (regmatch => NamedBy(Len(results) + 1))
      /\ glob \in {"INACTIVE", "CONVERTING_GREEDY", "CONVERTING_UNGREEDY", "PROTECTING"}
  BY Globals
<1>3. IsSeq(<<f>>) /\ Len(<<f>>) = 1 /\ <<f>>[1] = f /\ stack' = <<f>> \o Tail(stack)
  BY Listed DEF Goto
<1>4. Top' = f
  BY NewTop
<1>5. LevelMoves(<<f>>)
  BY <1>1, <1>2, <1>3 DEF LevelMoves
<1>6. GlobMoves(<<f>>)
  BY <1>1, <1>2 DEF GlobMoves, Converting
<1>7. Fit(<<f>>)
  <2>1. \A k \in 1..Len(<<f>>) : k = 1 /\ <<f>>[k] = f
    BY <1>3
  <2> QED BY <1>1, <1>3, <2>1 DEF Fit
<1>8. Top'.proc \in Readers => Kept(buffer')
  BY <1>4, ReadersAre
<1>9. Steps(<<f>>)
  BY <1>1, <1>2, <1>3, <1>5, <1>6, <1>7, <1>8 DEF Steps
<1> QED BY <1>9, StepsKeep

LEMMA OperatorKeeps ==
  ASSUME FInv, PatternFixed \/ NameFixed \/ ReplacementFixed
  PROVE  FInv'
<1>1. stack # <<>> /\ Top.proc = "operator"
  BY DEF PatternFixed, NameFixed, ReplacementFixed, In
<1>2. /\ FrameOK(Top) /\ Begun = Len(results) + 1
      /\ Kept(Top.buffer) /\ Kept(Top.repl) /\ Kept(<<Top.name>>)
      /\ Top.last \in Position /\ Top.want \in Types
  BY <1>1, OperatorTop
<1>3. RetOK /\ crashed \in BOOLEAN /\ (regmatch => NamedBy(Len(results) + 1))
  BY <1>1, Globals
<1>4. ASSUME NEW t, FrameOK(t), t.proc = "operator", NEW text
      PROVE  /\ FrameOK([t EXCEPT !.pc = "name", !.pattern = text])
             /\ [t EXCEPT !.pc = "name", !.pattern = text].proc = "operator"
             /\ FrameOK([t EXCEPT !.pc = "replacement", !.replaced = text])
             /\ [t EXCEPT !.pc = "replacement", !.replaced = text].proc = "operator"
  BY ONLY <1>4 DEF FrameOK, Fields
<1>5. CASE PatternFixed
  <2> DEFINE f == [Top EXCEPT !.pc = "name", !.pattern = ret.text]
  <2>1. /\ UNCHANGED <<script, results, nesting, regmatch, ret, crashed>> /\ glob' = "INACTIVE"
        /\ Enter(f, FixStringOf(<<Top.name>>, "STRING"))
    BY <1>5 DEF PatternFixed
  <2>2. FrameOK(f) /\ f.proc = "operator"
    BY <1>1, <1>2, <1>4
  <2> HIDE DEF f
  <2> QED BY <1>1, <1>2, <2>1, <2>2, OperatorCalls
<1>6. CASE NameFixed
  <2> DEFINE f == [Top EXCEPT !.pc = "replacement", !.replaced = ret.text]
  <2>1. UNCHANGED <<script, results, buffer, glob, nesting, regmatch>> /\ Top.pc = "name"
    <3>1. Top.pc = "name" /\ UNCHANGED <<script, results, burps, flags>>
      BY <1>6 DEF NameFixed, In
    <3> QED BY <3>1 DEF burps, flags
  <2>2. FrameOK(f) /\ f.proc = "operator"
    BY <1>1, <1>2, <1>4
  <2>3. CASE Top.op = "#"
    <3>1. Goto(f) /\ UNCHANGED crashed /\ ret' = [ret EXCEPT !.text = <<"<q", "q>">>]
      BY <1>6, <2>3 DEF NameFixed
    <3>2. RetOK'
      BY <1>3, <3>1 DEF RetOK
    <3> HIDE DEF f
    <3> QED BY <1>1, <2>1, <2>2, <3>1, <3>2, OperatorGoes
  <2>4. CASE Top.op # "#" /\ Top.repl = <<>>
    <3>1. crashed' = TRUE /\ UNCHANGED <<stack, ret>>
      BY <1>6, <2>4 DEF NameFixed
    <3> QED BY <2>1, <3>1, OnlyCrashes
  <2>5. CASE Top.op # "#" /\ Top.repl # <<>>
    <3>1. Enter(f, FixStringOf(Top.repl, "STRING")) /\ UNCHANGED <<ret, crashed>>
      BY <1>6, <2>5 DEF NameFixed
    <3> HIDE DEF f
    <3> QED BY <1>1, <1>2, <2>1, <2>2, <3>1, OperatorCalls
  <2> QED BY <2>3, <2>4, <2>5
<1>7. CASE ReplacementFixed
  <2>1. /\ UNCHANGED <<script, results, nesting, regmatch, ret, crashed>> /\ glob' = "PROTECTING"
        /\ buffer' = Reopened(Top.buffer, Top.last, regmatch)
        /\ stack' = Rest(Top.last, regmatch, "STRING") \o Tail(stack)
    BY <1>7 DEF ReplacementFixed
  <2>2. PICK f : Rest(Top.last, regmatch, "STRING") = <<f>> /\ FrameOK(f) /\ f.proc = "rest"
    <3> DEFINE array == regmatch \/ Char(Top.last) = "["
               got == IF array THEN "VAR" ELSE "STRING"
               f == [proc |-> "rest", pc |-> "loop", at |-> Top.last, array |-> array,
                     got |-> got, want |-> Top.want, offset |-> 0]
    <3>1. got \in Types
      BY DEF Types
    <3>2. Rest(Top.last, regmatch, "STRING") = <<f>>
      BY DEF Rest
    <3> HIDE DEF array, got
    <3>3. FrameOK(f) /\ f.proc = "rest"
      BY <1>2, <3>1, NewFrames
    <3> QED BY <3>2, <3>3
  <2>3. Kept(buffer')
    BY <1>2, <1>3, <2>1, KeptReopened
  <2>4. Goto(f)
    BY <2>1, <2>2 DEF Goto
  <2>5. RetOK'
    BY <1>3, <2>1 DEF RetOK
  <2> QED BY <1>1, <2>1, <2>2, <2>3, <2>4, <2>5, OperatorGoes
<1> QED BY <1>5, <1>6, <1>7

-------------------------------------------------------------------------------
(***************************************************************************)
(* From word to word                                                       *)
(***************************************************************************)
LEMMA WordsAre ==
  ASSUME FInv
  PROVE  /\ Len(results) \in Nat /\ Len(script) \in Nat
         /\ DOMAIN results = 1..Len(results) /\ DOMAIN script = 1..Len(script)
         /\ \A k \in 1..Len(script) : script[k].word \in Seq(STRING) /\ script[k].want \in Types
<1>1. script \in Seq([word : Seq(STRING), want : Types])
  BY ScriptsAssumption DEF FInv, OthersOK
<1>2. Len(results) \in Nat /\ DOMAIN results = 1..Len(results)
  BY SequencesAre DEF FInv, OthersOK
<1>3. ASSUME NEW k \in 1..Len(script)
      PROVE  script[k].word \in Seq(STRING) /\ script[k].want \in Types
  <2>1. PICK T : T = [word : Seq(STRING), want : Types]
    OBVIOUS
  <2>2. script \in Seq(T)
    BY <1>1, <2>1
  <2>3. script[k] \in T
    BY <2>2
  <2> QED BY <2>1, <2>3
<1> QED BY <1>1, <1>2, <1>3

LEMMA NextWordKeeps ==
  ASSUME FInv, NextWord
  PROVE  FInv'
<1>0. PICK g, m :
        /\ g = [proc |-> "fix_string", pc |-> "start", want |-> Now.want, alts |-> <<Now.word>>,
                list |-> FALSE]
        /\ m = [proc |-> "main", pc |-> "fixed"]
  OBVIOUS
<1>1. /\ stack = <<>> /\ Len(results) < Len(script) /\ Len(stack) = 0
      /\ UNCHANGED <<script, results, buffer, glob, nesting, regmatch, ret, crashed>>
      /\ stack' = <<g, m>>
  <2>1. /\ stack = <<>> /\ Len(results) < Len(script)
        /\ UNCHANGED <<script, results, burps, flags, ret, crashed>>
        /\ stack' = <<g>> \o <<m>>
    BY <1>0 DEF NextWord, Now, FixStringOf
  <2>2. <<g>> \o <<m>> = <<g, m>>
    BY Tuples
  <2> QED BY <2>1, <2>2, Listed DEF burps, flags
<1>2. PICK d \in Nat : d = Len(results) /\ d + 1 \in 1..Len(script) /\ d + 1 <= Len(script) /\ d < Len(script)
  <2>1. PICK d \in Nat, e \in Nat : d = Len(results) /\ e = Len(script)
    BY WordsAre
  <2>2. d < e
    BY <1>1, <2>1
  <2>3. d + 1 \in 1..e /\ d + 1 <= e
    BY ONLY <2>2, d \in Nat, e \in Nat
  <2> QED BY <2>1, <2>2, <2>3
<1>3. Now.word \in Seq(STRING) /\ Now.want \in Types
  BY <1>2, WordsAre DEF Now
<1>4. Kept(Now.word)
  BY <1>3 DEF Kept, IsSeq
<1>5. PICK a : a = <<Now.word>> /\ IsSeq(a) /\ a # <<>> /\ a[1] = Now.word /\ \A k \in DOMAIN a : Kept(a[k])
  <2>1. PICK a : a = <<Now.word>>
    OBVIOUS
  <2>2. IsSeq(a) /\ Len(a) = 1 /\ a[1] = Now.word
    BY <2>1, Listed
  <2>3. DOMAIN a = 1..1 /\ a # <<>>
    BY <2>2, SequencesAre
  <2>4. \A k \in DOMAIN a : k = 1
    BY ONLY <2>3
  <2> QED BY <1>4, <2>1, <2>2, <2>3, <2>4
<1>6. /\ FrameOK(g) /\ FrameOK(m) /\ g.proc = "fix_string" /\ m.proc = "main" /\ g.pc = "start"
      /\ g.want = Now.want /\ g.alts = a
  <2>1. PICK w \in Types : w = Now.want
    BY <1>3
  <2>2. PICK h : h = [proc |-> "fix_string", pc |-> "start", want |-> w, alts |-> a, list |-> FALSE]
    OBVIOUS
  <2>3. IsSeq(a) /\ a # <<>> /\ \A k \in DOMAIN a : Kept(a[k])
    BY <1>5
  <2>4. FrameOK(h) /\ h.proc = "fix_string" /\ h.pc = "start" /\ h.want = w /\ h.alts = a
    BY ONLY <2>2, <2>3, w \in Types DEF FrameOK, Fields
  <2>5. h = g
    BY <1>0, <1>5, <2>1, <2>2
  <2>6. FrameOK(m) /\ m.proc = "main"
    BY ONLY <1>0 DEF FrameOK, Fields
  <2> QED BY <2>1, <2>4, <2>5, <2>6
<1>7. /\ IsSeq(stack') /\ Len(stack') = 2 /\ stack' # <<>> /\ Top' = g
      /\ Frame(1)' = m /\ Frame(2)' = g
  <2>0. PICK s : s = <<g, m>>
    OBVIOUS
  <2>1. s = <<g, m>> /\ IsSeq(s) /\ Len(s) = 2 /\ s[1] = g /\ s[2] = m
    BY <2>0, Listed
  <2>2. s # <<>> /\ Head(s) = g
    BY <2>1, SequencesAre
  <2>3. 2 + 1 - 1 = 2 /\ 2 + 1 - 2 = 1
    OBVIOUS
  <2> QED BY <1>1, <2>1, <2>2, <2>3 DEF Top, Frame
<1>8. \A j \in 1..2 : j = 1 \/ j = 2
  OBVIOUS
<1>9. /\ \A f : FrameOK(f) => FrameOK(f)'
      /\ \A k : (MayOperate(k) => MayOperate(k)') /\ (NamedBy(k) => NamedBy(k)')
  BY <1>1, SameItem
<1>10. Begun = d /\ Begun' = d + 1 /\ d \in Int /\ Len(results)' = d
  BY <1>1, <1>2, <1>7 DEF Begun
<1>11. StackOK'
  <2>1. FrameOK(g)' /\ FrameOK(m)'
    BY <1>6, <1>9
  <2>2. \A j \in 1..Len(stack') : FrameOK(Frame(j))' /\ (Frame(j)'.proc = "main" <=> j = 1)
    BY <1>6, <1>7, <1>8, <2>1
  <2>3. \A j \in 2..Len(stack') : j = 2
    BY <1>7
  <2> QED BY <1>1, <1>2, <1>6, <1>7, <2>2, <2>3 DEF StackOK
<1>12. BufferKept'
  BY <1>6, <1>7, ReadersAre DEF BufferKept
<1>13. NestingInv'
  <2>1. nesting' = 0
    BY <1>1 DEF FInv, NestingInv
  <2>2. Cardinality(Levels(2))' \in Nat
    <3>1. \A j \in 1..0 : Frame(j)' = Frame(j)
      OBVIOUS
    <3> QED BY <3>1, 0 \in Nat, 2 \in Nat, LevelsStay
  <2>3. \A j \in 1..Len(stack') : Frame(j)'.proc # "command"
    BY <1>6, <1>7, <1>8
  <2>4. (nesting \in Int /\ nesting <= Cardinality(Levels(Len(stack))))'
    BY <1>7, <2>1, <2>2
  <2> QED BY <2>1, <2>3, <2>4 DEF NestingInv
<1>14. GlobInv'
  <2>1. ~Converting /\ glob \in {"INACTIVE", "CONVERTING_GREEDY", "CONVERTING_UNGREEDY", "PROTECTING"}
    <3>1. ~\E j \in 1..Len(stack) : TRUE
      BY <1>1
    <3> QED BY <3>1 DEF FInv, GlobInv
  <2>2. ~Converting'
    BY <1>1, <2>1 DEF Converting
  <2>3. \A j \in 1..Len(stack') : Frame(j)'.proc # "operator"
    BY <1>6, <1>7, <1>8
  <2>4. ASSUME glob' = "PROTECTING"
        PROVE  (\E i \in 1..Begun :
                 /\ MayOperate(i)
                 /\ \A k \in (i + 1)..Begun :
                      BeginsWithText(script[k]) => stack # <<>> /\ k = Begun /\ Beginning)'
    <3>1. PICK i \in 1..d : /\ MayOperate(i)
                            /\ \A k \in (i + 1)..d : ~BeginsWithText(script[k])
      BY <1>1, <1>10, <2>4 DEF FInv, GlobInv
    <3>2. i \in 1..(d + 1) /\ MayOperate(i)'
      BY <1>2, <1>9, <3>1
    <3>3. ASSUME NEW k \in (i + 1)..(d + 1), BeginsWithText(script[k])'
          PROVE  stack' # <<>> /\ k = Begun' /\ Beginning'
      <4>1. k \in (i + 1)..d \/ k = d + 1
        BY <1>2
      <4>2. BeginsWithText(script[k])
        BY <1>1, <3>3 DEF BeginsWithText
      <4>3. k = d + 1
        BY <3>1, <4>1, <4>2
      <4>4. script[k] = Now /\ Now' = Now
        BY <1>1, <1>2, <4>3 DEF Now
      <4>5. Now.word # <<>>
        BY <4>2, <4>4 DEF BeginsWithText
      <4>6. Beginning'
        BY <1>5, <1>6, <1>7, <4>4, <4>5 DEF Beginning
      <4> QED BY <1>7, <1>10, <4>3, <4>6
    <3> QED BY <1>10, <3>2, <3>3
  <2> QED BY <1>1, <2>1, <2>2, <2>3, <2>4 DEF GlobInv
<1>15. OthersOK'
  <2>1. regmatch => NamedBy(d)
    BY <1>10 DEF FInv, OthersOK
  <2>2. NamedBy(d) => NamedBy(d + 1)
    BY <1>2 DEF NamedBy
  <2>3. (regmatch => NamedBy(Begun))'
    BY <1>1, <1>9, <1>10, <2>1, <2>2
  <2> QED BY <1>1, <2>3 DEF FInv, OthersOK
<1> QED BY <1>11, <1>12, <1>13, <1>14, <1>15 DEF FInv

LEMMA WordFixedKeeps ==
  ASSUME FInv, WordFixed
  PROVE  FInv'
<1>1. /\ stack # <<>> /\ Top.proc = "main"
      /\ UNCHANGED <<script, glob, nesting, regmatch, crashed>>
      /\ stack' = <<>> /\ Len(stack') = 0 /\ ret' = Nothing
      /\ results' = Append(results, [text |-> ret.text, got |-> ret.got])
  <2>1. /\ stack # <<>> /\ Top.proc = "main" /\ UNCHANGED <<script, burps, flags, crashed>>
        /\ stack' = <<>> /\ ret' = Nothing
        /\ results' = Append(results, [text |-> ret.text, got |-> ret.got])
    BY DEF WordFixed, In
  <2> QED BY <2>1, Listed DEF burps, flags
<1>2. PICK n \in Nat : n = Len(stack)
  BY <1>1, DeepEnough DEF FInv
<1>3. n = 1 /\ Top = Frame(n)
  <2>1. n \in Nat \ {0} /\ Top = Frame(n)
    BY <1>1, <1>2, DeepEnough DEF FInv
  <2>2. n \in 1..n
    BY <2>1
  <2> QED BY <1>1, <1>2, <2>1, <2>2 DEF FInv, StackOK
<1>4. PICK d \in Nat : d = Len(results) /\ d + 1 <= Len(script)
  <2>1. Len(results) < Len(script)
    BY <1>1 DEF FInv, StackOK
  <2>2. PICK d \in Nat, e \in Nat : d = Len(results) /\ e = Len(script)
    BY WordsAre
  <2>3. d + 1 <= e
    BY ONLY <2>1, <2>2, d \in Nat, e \in Nat
  <2> QED BY <2>2, <2>3
<1>5. IsSeq(results') /\ Len(results') = d + 1
  <2>1. PICK S : results \in Seq(S)
    BY DEF FInv, OthersOK, IsSeq
  <2>2. PICK r : r = [text |-> ret.text, got |-> ret.got]
    OBVIOUS
  <2>3. results \in Seq(S \union {r}) /\ r \in S \union {r}
    BY <2>1
  <2>4. Append(results, r) \in Seq(S \union {r}) /\ Len(Append(results, r)) = Len(results) + 1
    BY <2>3
  <2> QED BY <1>1, <1>4, <2>2, <2>4 DEF IsSeq
<1>6. Begun = d + 1 /\ Begun' = d + 1
  BY <1>1, <1>4, <1>5 DEF Begun
<1>7. ~Beginning
  <2>1. Len(stack) # 2 /\ Len(stack) # 3
    BY <1>2, <1>3
  <2> QED BY <2>1 DEF Beginning
<1>8. \A j \in 1..Len(stack') : FALSE
  BY <1>1
<1>9. StackOK'
  <2>1. \A j \in 2..Len(stack') : FALSE
    BY <1>1
  <2>2. IsSeq(stack')
    BY <1>1, Listed
  <2>3. ~(Len(stack') > 1)
    BY <1>1
  <2> QED BY <1>1, <1>4, <1>5, <1>8, <2>1, <2>2, <2>3 DEF StackOK
<1>10. BufferKept'
  BY <1>1 DEF BufferKept
<1>11. NestingInv'
  <2>1. nesting' = 0
    BY <1>1, <1>2, <1>3 DEF FInv, NestingInv
  <2>2. Cardinality(Levels(0))' \in Nat
    <3>1. \A j \in 1..0 : Frame(j)' = Frame(j)
      OBVIOUS
    <3> QED BY <3>1, 0 \in Nat, LevelsStay
  <2>3. (nesting \in Int /\ nesting <= Cardinality(Levels(Len(stack))))'
    BY <1>1, <2>1, <2>2
  <2> QED BY <1>8, <2>1, <2>3 DEF NestingInv
<1>12. GlobInv'
  <2>1. ~Converting /\ glob \in {"INACTIVE", "CONVERTING_GREEDY", "CONVERTING_UNGREEDY", "PROTECTING"}
    <3>1. \A j \in 1..Len(stack) : Frame(j).proc = "main"
      BY <1>1, <1>2, <1>3
    <3> QED BY <3>1 DEF FInv, GlobInv
  <2>2. ~Converting'
    BY <1>1, <2>1 DEF Converting
  <2>3. ASSUME glob' = "PROTECTING"
        PROVE  (\E i \in 1..Begun :
                 /\ MayOperate(i)
                 /\ \A k \in (i + 1)..Begun :
                      BeginsWithText(script[k]) => stack # <<>> /\ k = Begun /\ Beginning)'
    <3>1. PICK i \in 1..(d + 1) : /\ MayOperate(i)
                                  /\ \A k \in (i + 1)..(d + 1) : ~BeginsWithText(script[k])
      BY <1>1, <1>6, <1>7, <2>3 DEF FInv, GlobInv
    <3>2. MayOperate(i)'
      BY <1>1, <3>1 DEF MayOperate, NamedBy
    <3>3. \A k \in (i + 1)..(d + 1) : ~BeginsWithText(script[k])'
      BY <1>1, <3>1 DEF BeginsWithText
    <3> QED BY <1>6, <3>1, <3>2, <3>3
  <2> QED BY <1>1, <1>8, <2>1, <2>2, <2>3 DEF GlobInv
<1>13. OthersOK'
  <2>1. regmatch' => NamedBy(d + 1)'
    BY <1>1, <1>6 DEF FInv, OthersOK, NamedBy
  <2>2. (DOMAIN ret = {"end", "got", "text"} /\ ret.end \in Nat /\ ret.got \in Types)'
    BY <1>1 DEF Nothing, Types
  <2> QED BY <1>1, <1>5, <1>6, <2>1, <2>2 DEF FInv, OthersOK
<1> QED BY <1>9, <1>10, <1>11, <1>12, <1>13 DEF FInv

LEMMA BeginsWell ==
  ASSUME Init
  PROVE  FInv
<1>1. /\ script \in Scripts /\ results = <<>> /\ glob = "INACTIVE" /\ nesting = 0 /\ regmatch = FALSE
      /\ stack = <<>> /\ ret = Nothing /\ crashed = FALSE
  BY DEF Init
<1>2. IsSeq(stack) /\ Len(stack) = 0 /\ IsSeq(results) /\ Len(results) = 0
  BY <1>1, Listed
<1>3. script \in Seq([word : Seq(STRING), want : Types])
  BY <1>1, ScriptsAssumption
<1>4. (\A j \in 1..Len(stack) : FALSE) /\ (\A j \in 2..Len(stack) : FALSE) /\ Len(script) >= 0
  BY <1>2, <1>3
<1>5. StackOK /\ BufferKept
  BY <1>1, <1>2, <1>4 DEF StackOK, BufferKept
<1>6. NestingInv
  <2>1. Cardinality(Levels(0)) \in Nat
    BY LevelsGrow, 0 \in Nat
  <2> QED BY <1>1, <1>2, <1>4, <2>1 DEF NestingInv
<1>7. GlobInv
  BY <1>1, <1>4 DEF GlobInv, Converting
<1>8. OthersOK
  BY <1>1, <1>2 DEF OthersOK, Nothing, Types
<1> QED BY <1>5, <1>6, <1>7, <1>8 DEF FInv

\* The globals of fix_string, wherever the translation of the words has come to: what is
\* converted, protected or counted belongs to a frame on the C stack or to a word before,
\* and every text that is read has no operator and no name that its word has not.
THEOREM FixStringInvariant == Spec => []FInv
<1>1. Init => FInv
  BY BeginsWell
<1>2. FInv /\ [Next]_vars => FInv'
  <2> SUFFICES ASSUME FInv, [Next]_vars PROVE FInv'
    OBVIOUS
  <2>1. CASE NextWord
    BY <2>1, NextWordKeeps
  <2>2. CASE WordFixed
    BY <2>2, WordFixedKeeps
  <2>3. CASE FixString
    BY <2>3, FixStringKeeps
  <2>4. CASE FixString1
    BY <2>4, FixString1Keeps
  <2>5. CASE Fixed
    BY <2>5, FixedKeeps
  <2>6. CASE Substitute \/ SubstituteQuote \/ SubstituteSpecial \/ SubstituteEmitted
             \/ SubstituteLiteral \/ SubstituteEnd
    BY <2>6, SubstituteReads, ReadsKeeps
  <2>7. CASE Expand \/ ExpandEmitted
    BY <2>7, ExpandReads, ReadsKeeps
  <2>8. CASE Rests \/ RestEmitted
    BY <2>8, RestReads, ReadsKeeps
  <2>9. CASE StringLoop \/ StringEmitted \/ StringLiteral \/ StringEnd
    BY <2>9, StringReads, ReadsKeeps
  <2>10. CASE DollarExpressionLoop \/ DollarEmitted
    BY <2>10, DollarReads, ReadsKeeps
  <2>11. CASE CommandEmitted
    BY <2>11, CommandReads, ReadsKeeps
  <2>12. CASE Cast \/ SimpleVariable \/ Unterminated \/ BracedVariable \/ DefaultValue
              \/ DollarExpression \/ Command
    BY <2>12, EnclosedReads, ReadsKeeps
  <2>13. CASE DefaultEmitted
    BY <2>13, DefaultReads, ReadsKeeps
  <2>14. CASE Substitution
    BY <2>14, SubstitutionKeeps
  <2>15. CASE PatternFixed \/ NameFixed \/ ReplacementFixed
    BY <2>15, OperatorKeeps
  <2>16. CASE UNCHANGED vars
    <3>1. UNCHANGED <<script, results, buffer, glob, nesting, regmatch, stack, ret, crashed>>
      BY <2>16 DEF vars, burps, flags
    <3>2. crashed' \in BOOLEAN
      BY <3>1 DEF FInv, OthersOK
    <3> QED BY <3>1, <3>2, OnlyCrashes
  <2> QED BY <2>1, <2>2, <2>3, <2>4, <2>5, <2>6, <2>7, <2>8, <2>9, <2>10, <2>11, <2>12, <2>13, <2>14,
             <2>15, <2>16 DEF Next, Ended, Translate
<1> QED BY <1>1, <1>2, PTL DEF Spec

\* Between two words no $((...)) is open and nothing is being converted; patterns are
\* protected only after a word with an operator, and only up to the next that begins
\* with text; a [ of BASH_REMATCH is pending only after a word that named it.
THEOREM WordsLeaveNothing == Spec => []NeutralBetweenWords
<1>1. FInv => NeutralBetweenWords
  <2> SUFFICES ASSUME FInv PROVE NeutralBetweenWords
    OBVIOUS
  <2>1. TypeOK
    BY DEF FInv, GlobInv, NestingInv, OthersOK, StackOK, TypeOK
  <2>2. ASSUME AtRest
        PROVE  /\ nesting = 0
               /\ glob = "INACTIVE" \/ (glob = "PROTECTING"
                      /\ \E i \in DOMAIN results :
                           /\ MayOperate(i)
                           /\ \A k \in (i + 1)..Len(results) : ~BeginsWithText(script[k]))
               /\ regmatch => NamedBy(Len(results))
    <3>1. stack = <<>> /\ Len(stack) = 0 /\ Begun = Len(results)
      BY <2>2, Listed DEF AtRest, Begun
    <3>2. nesting = 0
      BY <3>1 DEF FInv, NestingInv
    <3>3. ~Converting
      <4>1. \A j \in 1..Len(stack) : FALSE
        BY <3>1
      <4> QED BY <4>1 DEF FInv, GlobInv
    <3>4. glob \in {"INACTIVE", "PROTECTING"}
      BY <3>3 DEF FInv, GlobInv, Converting
    <3>5. DOMAIN results = 1..Len(results)
      BY WordsAre
    <3>6. glob = "PROTECTING" => \E i \in 1..Len(results) :
            /\ MayOperate(i)
            /\ \A k \in (i + 1)..Len(results) : ~BeginsWithText(script[k])
      BY <3>1 DEF FInv, GlobInv
    <3> QED BY <3>1, <3>2, <3>4, <3>5, <3>6 DEF FInv, OthersOK
  <2> QED BY <2>1, <2>2 DEF NeutralBetweenWords
<1> QED BY <1>1, FixStringInvariant, PTL
================================================================================
