------------------------------ MODULE BurpProofs ------------------------------
(***************************************************************************)
(* Memory safety of the string buffers of burp.c, for every alphabet, every *)
(* set of buffers and every FirstAlloc and Slack that satisfy              *)
(* FirstBlockIsLargeEnough; and that the buffers implement TextBuffer.     *)
(***************************************************************************)
EXTENDS Burp, SequenceTheorems, TLAPS

\* What Capacity leaves out and doubling needs: a block, once there, is larger
\* than twice the reserve, so that 2 * m_max - Slack exceeds m_max.
Roomy(r) ==
  \/ r.alloc = 0 /\ r.lth = 0 /\ r.max = 0
  \/ /\ r.lth < r.max /\ r.max + Slack = r.alloc
     /\ r.max > Slack /\ r.max >= 2

Sized(r) == Len(r.mem) = r.alloc

Ended(r) == \E k \in (r.lth + 1)..r.alloc : r.mem[k] = NUL

Good(r) == r \in BurpT /\ Sized(r) /\ Roomy(r)

-------------------------------------------------------------------------------
(* increase_burp gains room for at least one character and its NUL, keeps  *)
(* the text and everything else that was in the old block.                 *)
LEMMA IncreasedIsGood ==
  ASSUME NEW r, Good(r)
  PROVE  LET g == Increased(r)
         IN  /\ Good(g)
             /\ g.lth = r.lth /\ g.alloc > r.alloc /\ g.lth + 2 <= g.max
             /\ g.indent = r.indent /\ g.flat = r.flat
             /\ \A i \in 1..r.alloc : g.mem[i] = r.mem[i]
<1>1. CASE r.alloc = 0
  <2> DEFINE m == [i \in 1..FirstAlloc |-> Junk]
  <2>1. m \in Seq(Cell) /\ Len(m) = FirstAlloc
    BY SizesAreNat DEF Cell
  <2>2. Increased(r) = [alloc |-> FirstAlloc, mem |-> m, lth |-> 0,
                        max |-> FirstAlloc - Slack, indent |-> r.indent, flat |-> r.flat]
    BY <1>1 DEF Increased, Fresh, Good, BurpT
  <2>3. FirstAlloc - Slack \in Nat /\ FirstAlloc - Slack > Slack /\ FirstAlloc - Slack >= 2
    BY SizesAreNat, FirstBlockIsLargeEnough
  <2> QED
    BY <1>1, <2>1, <2>2, <2>3, SizesAreNat DEF Good, BurpT, Sized, Roomy
<1>2. CASE r.alloc # 0
  <2> DEFINE n == 2 * r.max
             m == Realloc(r.mem, n)
  <2>1. r.max \in Nat /\ r.lth \in Nat /\ r.alloc \in Nat /\ n \in Nat
    BY DEF Good, BurpT
  <2>2. r.lth < r.max /\ r.max + Slack = r.alloc /\ r.max > Slack /\ r.max >= 2
    BY <1>2 DEF Good, Roomy
  <2>3. \A i \in 1..r.alloc : r.mem[i] \in Cell
    BY DEF Good, BurpT, Sized
  <2>4. DOMAIN r.mem = 1..r.alloc
    BY DEF Good, BurpT, Sized
  <2>5. /\ m \in Seq(Cell) /\ Len(m) = n
        /\ \A i \in 1..r.alloc : i \in 1..n => m[i] = r.mem[i]
    BY <2>1, <2>3, <2>4 DEF Realloc, Cell
  <2>6. Increased(r) = [alloc |-> n, mem |-> m, lth |-> r.lth,
                        max |-> n - Slack, indent |-> r.indent, flat |-> r.flat]
    BY <1>2 DEF Increased, Good, BurpT
  <2>7. /\ n - Slack \in Nat /\ n > r.alloc
        /\ r.lth + 2 <= n - Slack /\ n - Slack > Slack /\ n - Slack >= 2
    BY <2>1, <2>2, SizesAreNat
  <2>8. \A i \in 1..r.alloc : i \in 1..n
    BY <2>1, <2>7
  <2> HIDE DEF n, m
  <2> QED
    BY <2>1, <2>2, <2>5, <2>6, <2>7, <2>8, SizesAreNat DEF Good, BurpT, Sized, Roomy
<1> QED BY <1>1, <1>2

(* burpc1 appends inside the block and terminates the text. *)
LEMMA Burpc1IsGood ==
  ASSUME NEW r, Good(r), NEW c \in Char
  PROVE  LET p == Burpc1(r, c)
         IN  /\ Good(p) /\ Ended(p) /\ p.lth = r.lth + 1
             /\ p.indent = r.indent /\ p.flat = r.flat
<1> DEFINE g == WithRoom(r)
<1>1. Good(g) /\ g.lth = r.lth /\ g.lth + 2 <= g.max /\ g.indent = r.indent /\ g.flat = r.flat
  BY IncreasedIsGood DEF WithRoom, Good, BurpT
<1> HIDE DEF g
<1> DEFINE m == [g.mem EXCEPT ![g.lth + 1] = c, ![g.lth + 2] = NUL]
<1>2. /\ g.lth \in Nat /\ g.max \in Nat /\ g.alloc \in Nat
      /\ g.mem \in Seq(Cell) /\ Len(g.mem) = g.alloc
  BY <1>1 DEF Good, BurpT, Sized
<1>3. g.max + Slack = g.alloc /\ g.max > Slack /\ g.max >= 2
  BY <1>1, <1>2 DEF Good, Roomy
<1>4. g.lth + 1 \in 1..g.alloc /\ g.lth + 2 \in 1..g.alloc
  BY <1>1, <1>2, <1>3, SizesAreNat
<1>5. m \in Seq(Cell) /\ Len(m) = g.alloc /\ m[g.lth + 2] = NUL
  BY <1>2, <1>4 DEF Cell
<1>6. Burpc1(r, c) = [g EXCEPT !.mem = m, !.lth = g.lth + 1]
  BY DEF Burpc1, g
<1> DEFINE p == Burpc1(r, c)
<1> HIDE DEF m
<1>7. /\ p \in BurpT /\ p.mem = m /\ p.lth = g.lth + 1
      /\ p.alloc = g.alloc /\ p.max = g.max /\ p.indent = g.indent /\ p.flat = g.flat
  <2>1. g \in BurpT /\ g.lth + 1 \in Nat
    BY <1>1, <1>2 DEF Good
  <2> QED BY <2>1, <1>5, <1>6 DEF BurpT
<1>8. g.lth + 2 \in (g.lth + 1 + 1)..g.alloc
  BY <1>2, <1>4
<1> HIDE DEF p
<1>9. Good(p) /\ Ended(p)
  BY <1>1, <1>2, <1>3, <1>5, <1>7, <1>8 DEF Good, Sized, Roomy, Ended
<1> QED
  BY <1>1, <1>7, <1>9 DEF p

(* burp_insert, once the text fits, moves and copies inside the block. *)
LEMMA InsertedIsGood ==
  ASSUME NEW r, Good(r), NEW off \in Nat, off <= r.lth,
         NEW s \in Seq(Char), Fits(r, s)
  PROVE  Good(Inserted(r, off, s)) /\ Ended(Inserted(r, off, s))
<1> DEFINE n == r.lth + Len(s)
           m == [i \in 1..r.alloc |->
                   IF i <= off THEN r.mem[i]
                   ELSE IF i <= off + Len(s) THEN s[i - off]
                   ELSE IF i <= n THEN r.mem[i - Len(s)]
                   ELSE IF i = n + 1 THEN NUL ELSE r.mem[i]]
<1>1. r.lth \in Nat /\ r.alloc \in Nat /\ r.max \in Nat /\ Len(s) \in Nat /\ n \in Nat
  BY DEF Good, BurpT
<1>2. n < r.max
  BY DEF Fits
<1>3. r.max + Slack = r.alloc /\ r.max > Slack /\ r.max >= 2
  BY <1>1, <1>2 DEF Good, Roomy
<1>4. \A i \in 1..r.alloc : r.mem[i] \in Cell
  BY DEF Good, BurpT, Sized
<1>5. \A i \in 1..r.alloc : m[i] \in Cell
  <2> SUFFICES ASSUME NEW i \in 1..r.alloc PROVE m[i] \in Cell
    OBVIOUS
  <2>1. CASE i <= off
    BY <2>1, <1>4
  <2>2. CASE ~(i <= off) /\ i <= off + Len(s)
    <3>1. i - off \in 1..Len(s)
      BY <2>2, <1>1
    <3>2. s[i - off] \in Cell
      BY <3>1 DEF Cell
    <3> QED BY <2>2, <3>2
  <2>3. CASE ~(i <= off + Len(s)) /\ i <= n
    <3>1. i - Len(s) \in 1..r.alloc /\ ~(i <= off)
      BY <2>3, <1>1
    <3>2. m[i] = r.mem[i - Len(s)]
      BY <2>3, <3>1
    <3> QED BY <3>1, <3>2, <1>4
  <2>4. CASE i > n
    <3>1. ~(i <= off) /\ ~(i <= off + Len(s)) /\ ~(i <= n)
      BY <2>4, <1>1
    <3>2. m[i] = IF i = n + 1 THEN NUL ELSE r.mem[i]
      BY <3>1
    <3> QED BY <3>2, <1>4 DEF Cell
  <2> QED BY <2>1, <2>2, <2>3, <2>4, <1>1
<1>6. m \in Seq(Cell) /\ Len(m) = r.alloc
  <2>1. m \in [1..r.alloc -> Cell]
    BY <1>5
  <2> HIDE DEF m
  <2> QED BY <2>1, <1>1
<1>7. n + 1 \in 1..r.alloc
  BY <1>1, <1>2, <1>3, SizesAreNat
<1>8. m[n + 1] = NUL
  <2>1. ~(n + 1 <= off) /\ ~(n + 1 <= off + Len(s)) /\ ~(n + 1 <= n)
    BY <1>1
  <2> QED BY <2>1, <1>7
<1>9. Inserted(r, off, s) = [r EXCEPT !.mem = m, !.lth = n]
  BY DEF Inserted
<1> HIDE DEF m, n
<1> DEFINE p == Inserted(r, off, s)
<1>10. p \in BurpT /\ p.mem = m /\ p.lth = n /\ p.alloc = r.alloc /\ p.max = r.max
  <2>1. r \in BurpT /\ n \in Nat
    BY <1>1 DEF Good
  <2> QED BY <2>1, <1>6, <1>9 DEF BurpT
<1>11. n + 1 \in (n + 1)..r.alloc
  BY <1>1, <1>7
<1> HIDE DEF p
<1>12. Good(p) /\ Ended(p)
  BY <1>1, <1>2, <1>3, <1>6, <1>8, <1>10, <1>11 DEF Good, Sized, Roomy, Ended
<1> QED
  BY <1>12 DEF p
-------------------------------------------------------------------------------
(* A buffer is terminated unless burp_insert is just growing it.            *)
TerminatedUnlessInserting(b) ==
  burp[b].alloc > 0 /\ ~(call.op = "insert" /\ call.b = b) => Ended(burp[b])

IInv ==
  /\ TypeOK
  /\ \A b \in Burps : Roomy(burp[b]) /\ TerminatedUnlessInserting(b)

(* What a routine that replaces one buffer has to establish.               *)
LEMMA OneBuffer ==
  ASSUME IInv, NEW b \in Burps, NEW r,
         burp' = [burp EXCEPT ![b] = r],
         Good(r),
         call' \in CallT, call'.op = "insert" => call'.b = b /\ call'.off <= r.lth,
         r.alloc > 0 /\ call'.op # "insert" => Ended(r),
         call.op = "insert" => call.b = b
  PROVE  IInv'
<1>1. burp' \in [Burps -> BurpT] /\ burp'[b] = r
  BY DEF IInv, TypeOK, Good
<1>2. \A a \in Burps \ {b} : burp'[a] = burp[a]
  BY DEF IInv, TypeOK
<1>3. \A a \in Burps : Len(burp'[a].mem) = burp'[a].alloc /\ Roomy(burp'[a])
  BY <1>1, <1>2 DEF IInv, TypeOK, Good, Sized
<1>4. ASSUME NEW a \in Burps PROVE TerminatedUnlessInserting(a)'
  <2>1. CASE a = b
    BY <1>1, <2>1 DEF TerminatedUnlessInserting
  <2>2. CASE a # b
    BY <1>2, <2>2 DEF TerminatedUnlessInserting, IInv
  <2> QED BY <2>1, <2>2
<1> QED
  BY <1>1, <1>3, <1>4 DEF IInv, TypeOK

LEMMA InitIInv == Init => IInv
<1> SUFFICES ASSUME Init PROVE IInv
  OBVIOUS
<1> DEFINE e == [i \in 1..0 |-> NUL]
<1>1. e \in Seq(Cell) /\ Len(e) = 0
  OBVIOUS
<1> HIDE DEF e
<1>2. Closed = [alloc |-> 0, mem |-> e, lth |-> 0, max |-> 0, indent |-> 0, flat |-> FALSE]
  BY DEF Closed, e
<1>3. Closed \in BurpT
  BY <1>1, <1>2 DEF BurpT
<1>4. /\ Len(Closed.mem) = Closed.alloc /\ Roomy(Closed)
      /\ Closed.alloc = 0
  BY <1>1, <1>2 DEF Roomy
<1>5. burp \in [Burps -> BurpT] /\ \A b \in Burps : burp[b] = Closed
  BY <1>3 DEF Init
<1>6. call \in CallT /\ call.op = "none"
  BY DEF Init, Idle, CallT
<1> QED
  BY <1>4, <1>5, <1>6 DEF IInv, TypeOK, TerminatedUnlessInserting

(* The routines.                                                           *)
LEMMA RoutineIInv == IInv /\ Routine => IInv'
<1> SUFFICES ASSUME IInv, Routine PROVE IInv'
  OBVIOUS
<1>1. \A b \in Burps : Good(burp[b])
  BY DEF IInv, TypeOK, Good, Sized
<1>2. CASE Indentation
  <2>1. call.op = "burpn" /\ call.b \in Burps /\ burp' = burp
    BY <1>2 DEF Indentation, BurpnAt, IInv, TypeOK, CallT
  <2>2. IndentUnit * burp[call.b].indent \in Nat
    BY <2>1, <1>1, SizesAreNat DEF Good, BurpT
  <2>3. call' \in CallT /\ call'.op = "burpn"
    BY <1>2, <2>1, <2>2 DEF Indentation, IInv, TypeOK, CallT
  <2> QED
    BY <2>1, <2>3 DEF IInv, TypeOK, TerminatedUnlessInserting
<1>3. CASE PadSpace
  <2> DEFINE b == call.b
             p == Burpc1(burp[b], SP)
  <2>1. call.op = "burpn" /\ b \in Burps /\ call.pad \in Nat /\ call.pad > 0
    BY <1>3 DEF PadSpace, BurpnAt, IInv, TypeOK, CallT
  <2>2. burp' = [burp EXCEPT ![b] = p]
    BY <1>3 DEF PadSpace
  <2>3. Good(p) /\ Ended(p)
    BY <2>1, <1>1, Burpc1IsGood, CharsDiffer
  <2>4. call' \in CallT /\ call'.op = "burpn"
    <3>1. call \in CallT /\ call.padded \in Nat
      BY <2>1 DEF IInv, TypeOK, CallT
    <3>2. call.pad - 1 \in Nat /\ call.padded + 1 \in Nat
      BY <2>1, <3>1
    <3>3. call' = [call EXCEPT !.pad = call.pad - 1, !.padded = call.padded + 1]
      BY <1>3 DEF PadSpace
    <3> QED BY <2>1, <3>1, <3>2, <3>3 DEF CallT
  <2> HIDE DEF p
  <2> QED
    BY <2>1, <2>2, <2>3, <2>4, OneBuffer
<1>4. CASE PutChar
  <2> DEFINE b == call.b
             p == Burpc1(burp[b], Head(call.todo))
  <2>1. call.op = "burpn" /\ b \in Burps /\ call.todo \in Seq(Char) /\ call.todo # <<>>
    BY <1>4 DEF PutChar, BurpnAt, IInv, TypeOK, CallT
  <2>2. burp' = [burp EXCEPT ![b] = p]
    BY <1>4 DEF PutChar
  <2>3. Head(call.todo) \in Char /\ Tail(call.todo) \in Seq(Char)
    BY <2>1
  <2>4. Good(p) /\ Ended(p)
    BY <2>1, <2>3, <1>1, Burpc1IsGood
  <2>5. call' \in CallT /\ call'.op # "insert"
    <3>1. CASE Tail(call.todo) = <<>>
      BY <1>4, <3>1 DEF PutChar, CallT, Idle
    <3>2. CASE Tail(call.todo) # <<>>
      <4> DEFINE rest == Tail(call.todo)
      <4>1. call' = [call EXCEPT !.pc = "indentation", !.todo = rest, !.padded = 0]
        BY <1>4, <3>2 DEF PutChar
      <4>2. rest \in Seq(Char)
        BY <2>3
      <4> HIDE DEF rest
      <4> QED BY <2>1, <4>1, <4>2 DEF IInv, TypeOK, CallT
    <3> QED BY <3>1, <3>2
  <2> HIDE DEF p
  <2> QED
    BY <2>1, <2>2, <2>4, <2>5, OneBuffer
<1>5. CASE InsertGrow
  <2> DEFINE b == call.b
             p == Increased(burp[b])
  <2>1. call.op = "insert" /\ b \in Burps /\ call.off <= burp[b].lth
    BY <1>5 DEF InsertGrow, IInv, TypeOK, CallT
  <2>2. burp' = [burp EXCEPT ![b] = p] /\ call' = call
    BY <1>5 DEF InsertGrow
  <2>3. Good(p) /\ p.lth = burp[b].lth
    BY <2>1, <1>1, IncreasedIsGood
  <2>4. call \in CallT
    BY DEF IInv, TypeOK
  <2> HIDE DEF p
  <2> QED
    BY <2>1, <2>2, <2>3, <2>4, OneBuffer
<1>6. CASE InsertMove
  <2> DEFINE b == call.b
             p == Inserted(burp[b], call.off, call.todo)
  <2>1. /\ call.op = "insert" /\ b \in Burps /\ call.off <= burp[b].lth
        /\ call.off \in Nat /\ call.todo \in Seq(Char)
    BY <1>6 DEF InsertMove, IInv, TypeOK, CallT
  <2>2. burp' = [burp EXCEPT ![b] = p] /\ Fits(burp[b], call.todo)
    BY <1>6 DEF InsertMove
  <2>3. Good(p) /\ Ended(p)
    BY <2>1, <2>2, <1>1, InsertedIsGood
  <2>4. call' \in CallT /\ call'.op = "none"
    BY <1>6 DEF InsertMove, Idle, CallT
  <2> HIDE DEF p
  <2> QED
    BY <2>1, <2>2, <2>3, <2>4, OneBuffer
<1>7. CASE NothingToPut
  <2>1. call.op = "burpn" /\ call'.op = "none" /\ call' \in CallT /\ burp' = burp
    BY <1>7 DEF NothingToPut, BurpnAt, Idle, CallT
  <2> QED
    BY <2>1 DEF IInv, TypeOK, TerminatedUnlessInserting
<1> QED
  BY <1>2, <1>3, <1>4, <1>5, <1>6, <1>7 DEF Routine
(* A caller that assigns the fields of a buffer no routine is working on.  *)
LEMMA AssignIInv ==
  ASSUME IInv, NEW b \in Burps, NEW r, call.op = "none", Assign(b, r),
         Good(r), r.alloc > 0 => Ended(r)
  PROVE  IInv'
<1>1. burp' = [burp EXCEPT ![b] = r] /\ call' = call /\ call \in CallT
  BY DEF Assign, IInv, TypeOK
<1> QED BY <1>1, OneBuffer

(* Taking back an emission keeps a NUL at or after the end.                *)
LEMMA ShorterIsGood ==
  ASSUME NEW r, Good(r), r.alloc > 0 => Ended(r), NEW n \in 0..r.lth
  PROVE  LET p == [r EXCEPT !.lth = n] IN Good(p) /\ (p.alloc > 0 => Ended(p))
<1> DEFINE p == [r EXCEPT !.lth = n]
<1>1. r \in BurpT /\ r.lth \in Nat /\ n \in Nat /\ n <= r.lth /\ r.max \in Nat
  BY DEF Good, BurpT
<1>2. /\ p \in BurpT /\ p.mem = r.mem /\ p.alloc = r.alloc /\ p.max = r.max
      /\ p.lth = n
  BY <1>1 DEF BurpT
<1>3. Roomy(p) /\ Sized(p)
  BY <1>1, <1>2 DEF Good, Roomy, Sized
<1>4. ASSUME r.alloc > 0 PROVE Ended(p)
  <2>1. PICK k \in (r.lth + 1)..r.alloc : r.mem[k] = NUL
    BY <1>4 DEF Ended
  <2>2. k \in (n + 1)..r.alloc
    BY <1>1, <2>1
  <2> QED BY <1>2, <2>1, <2>2 DEF Ended
<1> QED BY <1>2, <1>3, <1>4 DEF Good

LEMMA CallerIInv == ASSUME IInv, NEW b \in Burps, Caller(b) PROVE IInv'
<1>1. \A c \in Burps : Good(burp[c])
  BY DEF IInv, TypeOK, Good, Sized
<1>2. ASSUME call.op = "none" PROVE \A c \in Burps : burp[c].alloc > 0 => Ended(burp[c])
  BY <1>2 DEF IInv, TerminatedUnlessInserting
<1>3. ASSUME NEW s \in Texts, Burpn(b, s) PROVE IInv'
  <2>1. burp' = burp /\ call.op = "none"
    BY <1>3 DEF Burpn, Free
  <2>2. s \in Seq(Char)
    BY TextsAreStrings
  <2>3. call' \in CallT /\ call'.op = "burpn"
    BY <1>3, <2>2 DEF Burpn, CallT
  <2> QED BY <2>1, <2>3 DEF IInv, TypeOK, TerminatedUnlessInserting
<1>4. ASSUME NEW off \in 0..burp[b].lth, NEW s \in Texts, BurpInsert(b, off, s) PROVE IInv'
  <2>1. burp' = burp /\ call.op = "none"
    BY <1>4 DEF BurpInsert, Free
  <2>2. s \in Seq(Char) /\ off \in Nat /\ off <= burp[b].lth
    BY <1>1, TextsAreStrings DEF Good, BurpT
  <2>3. call' \in CallT /\ call'.op = "insert" /\ call'.b = b /\ call'.off = off
    BY <1>4, <2>2 DEF BurpInsert, CallT
  <2> QED BY <2>1, <2>2, <2>3 DEF IInv, TypeOK, TerminatedUnlessInserting
<1>5. ASSUME NEW n \in 0..burp[b].lth, Undo(b, n) PROVE IInv'
  BY <1>1, <1>2, <1>5, ShorterIsGood, AssignIInv DEF Undo, Free
<1>6. CASE BurpRtrim(b)
  <2>1. PICK n \in 0..burp[b].lth : Assign(b, [burp[b] EXCEPT !.lth = n])
    BY <1>6 DEF BurpRtrim
  <2> QED BY <1>1, <1>2, <1>6, <2>1, ShorterIsGood, AssignIInv DEF BurpRtrim, Free
<1>7. CASE BurpReset(b)
  <2> DEFINE r == burp[b]
             m == [i \in 1..r.alloc |-> IF i <= r.max THEN NUL ELSE r.mem[i]]
             p == [r EXCEPT !.mem = m, !.lth = 0, !.indent = 0, !.flat = FALSE]
  <2>1. Assign(b, p) /\ call.op = "none"
    BY <1>7 DEF BurpReset, Free
  <2>2. r \in BurpT /\ r.alloc \in Nat /\ r.max \in Nat /\ Len(r.mem) = r.alloc /\ Roomy(r)
    BY <1>1 DEF Good, BurpT, Sized
  <2>3. m \in Seq(Cell) /\ Len(m) = r.alloc
    <3>1. \A i \in 1..r.alloc : r.mem[i] \in Cell
      BY <2>2 DEF BurpT
    <3>2. m \in [1..r.alloc -> Cell]
      BY <3>1 DEF Cell
    <3> HIDE DEF m
    <3> QED BY <2>2, <3>2
  <2>4. r.alloc > 0 => 1 \in 1..r.alloc /\ m[1] = NUL
    BY <2>2, SizesAreNat DEF Roomy
  <2> HIDE DEF m, r
  <2>5. p \in BurpT /\ p.mem = m /\ p.lth = 0 /\ p.alloc = r.alloc /\ p.max = r.max
    BY <2>2, <2>3 DEF BurpT
  <2> HIDE DEF p
  <2>6. Good(p) /\ (p.alloc > 0 => Ended(p))
    BY <2>2, <2>3, <2>4, <2>5, SizesAreNat DEF Good, Sized, Roomy, Ended
  <2> QED BY <2>1, <2>6, AssignIInv
<1>8. CASE BurpClose(b)
  <2> DEFINE e == [i \in 1..0 |-> NUL]
  <2>1. e \in Seq(Cell) /\ Len(e) = 0
    OBVIOUS
  <2> HIDE DEF e
  <2>2. Closed = [alloc |-> 0, mem |-> e, lth |-> 0, max |-> 0, indent |-> 0, flat |-> FALSE]
    BY DEF Closed, e
  <2>3. Good(Closed) /\ Closed.alloc = 0
    BY <2>1, <2>2 DEF Good, BurpT, Sized, Roomy
  <2> QED BY <1>8, <2>3, AssignIInv DEF BurpClose, Free
<1>9. CASE Indent(b) \/ Outdent(b) \/ \E on \in BOOLEAN : DisableIndent(b, on)
  <2> DEFINE Same(p) == /\ p \in BurpT /\ p.mem = burp[b].mem /\ p.lth = burp[b].lth
                        /\ p.alloc = burp[b].alloc /\ p.max = burp[b].max
  <2>1. burp[b] \in BurpT
    BY <1>1 DEF Good
  <2>2. CASE Indent(b)
    <3> DEFINE p == [burp[b] EXCEPT !.indent = @ + 1]
    <3>1. Same(p)
      BY <2>1 DEF BurpT
    <3> HIDE DEF p
    <3>2. Good(p) /\ (p.alloc > 0 => Ended(p))
      BY <1>1, <1>2, <2>2, <3>1 DEF Good, Sized, Roomy, Ended, Indent, Free
    <3> QED BY <2>2, <3>2, AssignIInv DEF p, Indent, Free
  <2>3. CASE Outdent(b)
    <3> DEFINE p == [burp[b] EXCEPT !.indent = @ - 1]
    <3>1. Same(p)
      BY <2>1, <2>3 DEF BurpT, Outdent
    <3> HIDE DEF p
    <3>2. Good(p) /\ (p.alloc > 0 => Ended(p))
      BY <1>1, <1>2, <2>3, <3>1 DEF Good, Sized, Roomy, Ended, Outdent, Free
    <3> QED BY <2>3, <3>2, AssignIInv DEF p, Outdent, Free
  <2>4. ASSUME NEW on \in BOOLEAN, DisableIndent(b, on) PROVE IInv'
    <3> DEFINE p == [burp[b] EXCEPT !.flat = on]
    <3>1. Same(p)
      BY <2>1 DEF BurpT
    <3> HIDE DEF p
    <3>2. Good(p) /\ (p.alloc > 0 => Ended(p))
      BY <1>1, <1>2, <2>4, <3>1 DEF Good, Sized, Roomy, Ended, DisableIndent, Free
    <3> QED BY <2>4, <3>2, AssignIInv DEF p, DisableIndent, Free
  <2> QED BY <1>9, <2>2, <2>3, <2>4
<1>10. ASSUME NEW a \in Burps, SwapBurps(a, b) PROVE IInv'
  <2>1. call.op = "none" /\ call' = call /\ burp' = [burp EXCEPT ![a] = burp[b], ![b] = burp[a]]
    BY <1>10 DEF SwapBurps, Free
  <2>2. burp' \in [Burps -> BurpT]
    BY <2>1 DEF IInv, TypeOK
  <2>3. \A c \in Burps : \E d \in Burps : burp'[c] = burp[d]
    BY <2>1 DEF IInv, TypeOK
  <2> QED BY <1>2, <2>1, <2>2, <2>3 DEF IInv, TypeOK, TerminatedUnlessInserting
<1> QED
  BY <1>3, <1>4, <1>5, <1>6, <1>7, <1>8, <1>9, <1>10 DEF Caller

LEMMA StutterIInv == IInv /\ UNCHANGED vars => IInv'
BY DEF IInv, TypeOK, TerminatedUnlessInserting, vars

-------------------------------------------------------------------------------
(* The inductive invariant: types, room for growth, and termination.       *)
THEOREM BurpInvariant == Spec => []IInv
<1>1. IInv /\ [Next]_vars => IInv'
  BY RoutineIInv, CallerIInv, StutterIInv DEF Next
<1> QED
  BY <1>1, InitIInv, PTL DEF Spec

(* Type correctness of every buffer and of the routine in progress.        *)
THEOREM BurpTypes == Spec => []TypeOK
<1>1. IInv => TypeOK
  BY DEF IInv
<1> QED BY <1>1, BurpInvariant, PTL

(* No write of burpc1 or burp_insert leaves its block, for any alphabet,   *)
(* any first size and any reserve with FirstAlloc >= 2 * Slack + 1.        *)
THEOREM BurpCapacity == Spec => []Capacity
<1>1. IInv => Capacity
  BY DEF IInv, Capacity, Roomy
<1> QED BY <1>1, BurpInvariant, PTL

(* Reading m_P as a C string stays inside the block, whatever was undone.  *)
THEOREM BurpStringEnds == Spec => []StringEndsInBlock
<1>1. IInv => StringEndsInBlock
  BY DEF IInv, StringEndsInBlock, TerminatedUnlessInserting, Ended
<1> QED BY <1>1, BurpInvariant, PTL

(* Nothing is written or read outside the block, for any sizes and texts.  *)
THEOREM BurpMemorySafe == Spec => []MemorySafe
<1> QED BY BurpTypes, BurpCapacity, BurpStringEnds, PTL DEF MemorySafe

-------------------------------------------------------------------------------
(***************************************************************************)
(* The buffers implement TextBuffer: how the blocks grow, and where the    *)
(* characters were moved, cannot be seen in the texts.                     *)
(***************************************************************************)
Prefix(r, n) == [i \in 1..n |-> r.mem[i]]

\* The two rules of indentation(): a line that begins is padded, once.
Owed(r, n) == IF n > 0 /\ r.mem[n] = NL /\ ~r.flat THEN IndentUnit * r.indent ELSE 0

\* What indentation() has written is what the character still to come is preceded by.
PadInv ==
  call.op = "burpn" =>
    LET r == burp[call.b]
    IN  /\ call.padded <= r.lth
        /\ call.pc = "indentation" => call.padded = 0
        /\ \A i \in (r.lth - call.padded + 1)..r.lth : r.mem[i] = SP
        /\ call.pc = "write" => call.padded + call.pad = Owed(r, r.lth - call.padded)

RInv ==
  /\ IInv /\ PadInv
  /\ call.op = "insert" => call.todo \in Texts

(* The prefixes of a block are texts.                                       *)
LEMMA PrefixIsText ==
  ASSUME NEW r, Good(r), NEW n \in 0..r.lth
  PROVE  /\ Prefix(r, n) \in Seq(Cell) /\ Len(Prefix(r, n)) = n
         /\ \A i \in 1..n : Prefix(r, n)[i] = r.mem[i]
<1>1. /\ r.lth \in Nat /\ r.alloc \in Nat /\ r.max \in Nat /\ n \in Nat
      /\ r.mem \in Seq(Cell) /\ Len(r.mem) = r.alloc
  BY DEF Good, BurpT, Sized
<1>2. n <= r.alloc
  BY <1>1, SizesAreNat DEF Good, Roomy
<1>3. \A i \in 1..n : r.mem[i] \in Cell
  BY <1>1, <1>2
<1> QED BY <1>1, <1>3 DEF Prefix

(* burpc1 leaves what was there and puts the character behind it.           *)
LEMMA Burpc1Appends ==
  ASSUME NEW r, Good(r), NEW c \in Char
  PROVE  LET p == Burpc1(r, c)
         IN  p.mem[r.lth + 1] = c /\ \A i \in 1..r.lth : p.mem[i] = r.mem[i]
<1> DEFINE g == WithRoom(r)
<1>1. r \in BurpT /\ r.lth \in Nat /\ r.alloc \in Nat /\ r.max \in Nat
  BY DEF Good, BurpT
<1>2. r.lth <= r.alloc
  BY <1>1, SizesAreNat DEF Good, Roomy
<1>3. Good(g) /\ g.lth = r.lth /\ g.lth + 2 <= g.max /\ \A i \in 1..r.alloc : g.mem[i] = r.mem[i]
  BY <1>1, IncreasedIsGood DEF WithRoom
<1> HIDE DEF g
<1>4. /\ g \in BurpT /\ g.lth \in Nat /\ g.max \in Nat /\ g.alloc \in Nat
      /\ g.mem \in Seq(Cell) /\ Len(g.mem) = g.alloc
  BY <1>3 DEF Good, BurpT, Sized
<1>5. g.lth + 1 \in 1..g.alloc /\ g.lth + 2 \in 1..g.alloc
  BY <1>3, <1>4, SizesAreNat DEF Good, Roomy
<1> DEFINE m == [g.mem EXCEPT ![g.lth + 1] = c, ![g.lth + 2] = NUL]
<1>6. DOMAIN g.mem = 1..g.alloc
  BY <1>4
<1>7. m[r.lth + 1] = c /\ \A i \in 1..r.lth : m[i] = r.mem[i]
  <2>1. m[r.lth + 1] = c
    BY <1>1, <1>3, <1>4, <1>5, <1>6
  <2>2. ASSUME NEW i \in 1..r.lth PROVE m[i] = r.mem[i]
    <3>1. i \in 1..g.alloc /\ i # g.lth + 1 /\ i # g.lth + 2 /\ i \in 1..r.alloc
      BY <1>1, <1>2, <1>3, <1>4, <1>5
    <3> QED BY <3>1, <1>3, <1>4, <1>6
  <2> QED BY <2>1, <2>2
<1> HIDE DEF m
<1>8. Burpc1(r, c) = [g EXCEPT !.mem = m, !.lth = g.lth + 1]
  BY DEF Burpc1, g, m
<1>9. Burpc1(r, c).mem = m
  BY <1>4, <1>8 DEF BurpT
<1> QED BY <1>7, <1>9

LEMMA KeepsPrefix ==
  ASSUME NEW r, NEW p, NEW n \in Nat, \A i \in 1..n : p.mem[i] = r.mem[i]
  PROVE  Prefix(p, n) = Prefix(r, n)
BY DEF Prefix

LEMMA PrefixGrows ==
  ASSUME NEW r, Good(r), NEW c \in Char
  PROVE  Prefix(Burpc1(r, c), r.lth + 1) = Prefix(r, r.lth) \o <<c>>
<1> DEFINE p == Burpc1(r, c)
           t == Prefix(r, r.lth)
           u == Prefix(p, r.lth + 1)
<1>1. r.lth \in Nat /\ Good(p) /\ p.lth = r.lth + 1
  BY Burpc1IsGood DEF Good, BurpT
<1>2. p.mem[r.lth + 1] = c /\ \A i \in 1..r.lth : p.mem[i] = r.mem[i]
  BY Burpc1Appends
<1> HIDE DEF p
<1>3. t \in Seq(Cell) /\ Len(t) = r.lth /\ \A i \in 1..r.lth : t[i] = r.mem[i]
  BY <1>1, PrefixIsText
<1>4. u \in Seq(Cell) /\ Len(u) = r.lth + 1 /\ \A i \in 1..(r.lth + 1) : u[i] = p.mem[i]
  <2>1. r.lth + 1 \in 0..p.lth
    BY <1>1
  <2> QED BY <2>1, <1>1, PrefixIsText
<1> HIDE DEF t, u
<1>5. c \in Cell /\ <<c>> \in Seq(Cell) /\ t \o <<c>> \in Seq(Cell) /\ Len(t \o <<c>>) = r.lth + 1
  BY <1>3 DEF Cell
<1>6. ASSUME NEW i \in 1..Len(u) PROVE u[i] = (t \o <<c>>)[i]
  <2>1. CASE i = r.lth + 1
    BY <2>1, <1>1, <1>2, <1>3, <1>4, <1>5
  <2>2. CASE i # r.lth + 1
    <3>1. i \in 1..r.lth
      BY <2>2, <1>1, <1>4
    <3> QED BY <3>1, <1>2, <1>3, <1>4, <1>5
  <2> QED BY <2>1, <2>2
<1>7. u = t \o <<c>>
  BY ONLY <1>3, <1>4, <1>5, <1>6, SeqEqual, <1>1
<1> QED BY <1>7 DEF p, t, u

LEMMA PrefixPadded ==
  ASSUME NEW r, Good(r), NEW k \in Nat, k <= r.lth,
         \A i \in (r.lth - k + 1)..r.lth : r.mem[i] = SP
  PROVE  Prefix(r, r.lth) = Prefix(r, r.lth - k) \o Abstract!Spaces(k)
<1> DEFINE n == r.lth - k
           t == Prefix(r, n)
           u == Prefix(r, r.lth)
           w == Abstract!Spaces(k)
<1>1. r.lth \in Nat /\ n \in 0..r.lth /\ n \in Nat /\ n + k = r.lth
  BY DEF Good, BurpT
<1>2. w \in Seq(Cell) /\ Len(w) = k /\ \A i \in 1..k : w[i] = SP
  BY CharsDiffer DEF Abstract!Spaces, Cell
<1>3. t \in Seq(Cell) /\ Len(t) = n /\ \A i \in 1..n : t[i] = r.mem[i]
  BY <1>1, PrefixIsText
<1>4. u \in Seq(Cell) /\ Len(u) = r.lth /\ \A i \in 1..r.lth : u[i] = r.mem[i]
  BY <1>1, PrefixIsText
<1> HIDE DEF t, u, w
<1> HIDE DEF n
<1>5. t \o w \in Seq(Cell) /\ Len(t \o w) = n + k
  BY ONLY <1>1, <1>2, <1>3
<1>6. ASSUME NEW i \in 1..Len(u) PROVE u[i] = (t \o w)[i]
  <2>1. CASE i <= n
    <3>1. i \in 1..n
      BY <2>1, <1>1, <1>4
    <3>2. (t \o w)[i] = t[i]
      BY <3>1, <1>1, <1>2, <1>3, <1>4
    <3> QED BY <3>1, <3>2, <1>3, <1>4
  <2>2. CASE ~(i <= n)
    <3>1. i - n \in 1..k /\ i \in (n + 1)..r.lth /\ i \in (r.lth - k + 1)..r.lth
      BY <2>2, <1>1, <1>4
    <3>2. (t \o w)[i] = w[i - n]
      BY <3>1, <1>1, <1>2, <1>3, <1>4
    <3> QED BY <3>1, <3>2, <1>2, <1>4
  <2> QED BY <2>1, <2>2
<1>7. u = t \o w
  BY ONLY <1>1, <1>3, <1>4, <1>5, <1>6, SeqEqual
<1> QED BY <1>7 DEF t, u, w, n

LEMMA PrefixInserted ==
  ASSUME NEW r, Good(r), NEW off \in Nat, off <= r.lth, NEW s \in Seq(Char), Fits(r, s)
  PROVE  LET t == Prefix(r, r.lth)
         IN  Prefix(Inserted(r, off, s), r.lth + Len(s))
               = SubSeq(t, 1, off) \o s \o SubSeq(t, off + 1, Len(t))
<1> DEFINE t == Prefix(r, r.lth)
           a == SubSeq(t, 1, off)
           z == SubSeq(t, off + 1, Len(t))
           p == Inserted(r, off, s)
           u == Prefix(p, r.lth + Len(s))
<1>1. /\ r \in BurpT /\ r.lth \in Nat /\ r.alloc \in Nat /\ r.max \in Nat /\ Len(s) \in Nat
      /\ r.lth + Len(s) < r.max /\ r.max + Slack = r.alloc
  BY DEF Good, BurpT, Roomy, Fits
<1>2. t \in Seq(Cell) /\ Len(t) = r.lth /\ \A i \in 1..r.lth : t[i] = r.mem[i]
  BY <1>1, PrefixIsText
<1> HIDE DEF t
<1>3. a \in Seq(Cell) /\ Len(a) = off /\ \A i \in 1..off : a[i] = t[i]
  BY <1>1, <1>2
<1>4. /\ z \in Seq(Cell) /\ Len(z) = r.lth - off
      /\ \A i \in 1..(r.lth - off) : z[i] = t[off + i]
  BY <1>1, <1>2
<1>5. s \in Seq(Cell)
  BY DEF Cell
<1> HIDE DEF a, z
<1>6. /\ a \o s \in Seq(Cell) /\ Len(a \o s) = off + Len(s)
      /\ a \o s \o z \in Seq(Cell) /\ Len(a \o s \o z) = r.lth + Len(s)
  <2>1. a \o s \in Seq(Cell) /\ Len(a \o s) = off + Len(s)
    BY ONLY <1>3, <1>5
  <2>2. a \o s \o z \in Seq(Cell) /\ Len(a \o s \o z) = (off + Len(s)) + (r.lth - off)
    <3>1. \A x, y \in Seq(Cell) : x \o y \in Seq(Cell) /\ Len(x \o y) = Len(x) + Len(y)
      OBVIOUS
    <3> QED BY <3>1, <2>1, <1>4
  <2> QED BY <2>1, <2>2, <1>1
<1> DEFINE m == [i \in 1..r.alloc |->
                   IF i <= off THEN r.mem[i]
                   ELSE IF i <= off + Len(s) THEN s[i - off]
                   ELSE IF i <= r.lth + Len(s) THEN r.mem[i - Len(s)]
                   ELSE IF i = r.lth + Len(s) + 1 THEN NUL ELSE r.mem[i]]
<1>7. p.mem = m
  BY <1>1 DEF Inserted, BurpT
<1>8. Good(p) /\ p.lth = r.lth + Len(s)
  BY <1>1, InsertedIsGood DEF Inserted, BurpT
<1>9. /\ u \in Seq(Cell) /\ Len(u) = r.lth + Len(s)
      /\ \A i \in 1..(r.lth + Len(s)) : u[i] = p.mem[i]
  <2>1. r.lth + Len(s) \in 0..p.lth
    BY <1>1, <1>8
  <2> QED BY <2>1, <1>8, PrefixIsText
<1> HIDE DEF p, u
<1>10. ASSUME NEW i \in 1..Len(u) PROVE u[i] = (a \o s \o z)[i]
  <2>1. i \in 1..r.alloc /\ i \in Nat /\ i <= r.lth + Len(s)
    BY ONLY i \in 1..Len(u), <1>1, <1>9, SizesAreNat
  <2>2. u[i] = m[i]
    BY <2>1, <1>7, <1>9
  <2>3. CASE i <= off
    <3>1. i \in 1..off /\ m[i] = r.mem[i]
      BY <2>1, <2>3
    <3> HIDE DEF m
    <3>2. (a \o s)[i] = a[i] /\ (a \o s \o z)[i] = (a \o s)[i]
      BY <3>1, <1>1, <1>3, <1>4, <1>5, <1>6
    <3>3. i \in 1..r.lth
      BY <3>1, <1>1
    <3> QED BY <2>2, <3>1, <3>2, <3>3, <1>2, <1>3
  <2>4. CASE ~(i <= off) /\ i <= off + Len(s)
    <3>1. i - off \in 1..Len(s) /\ m[i] = s[i - off]
      BY <2>1, <2>4, <1>1
    <3> HIDE DEF m
    <3>2. i \in 1..Len(a \o s)
      BY <2>1, <2>4, <1>6, <1>1
    <3>3. (a \o s)[i] = s[i - off]
      BY ONLY off \in Nat, <2>1, <2>4, <3>1, <3>2, <1>3, <1>5
    <3>4. (a \o s \o z)[i] = (a \o s)[i]
      BY ONLY <3>2, <1>4, <1>6
    <3> QED BY <2>2, <3>1, <3>3, <3>4
  <2>5. CASE ~(i <= off + Len(s))
    <3>1. ~(i <= off) /\ m[i] = r.mem[i - Len(s)]
      BY <2>1, <2>5, <1>1
    <3> HIDE DEF m
    <3>2. i - (off + Len(s)) \in 1..(r.lth - off) /\ i - Len(s) \in 1..r.lth
      BY <2>1, <2>5, <1>1
    <3>3. (a \o s \o z)[i] = z[i - (off + Len(s))]
      <4>1. \A x, y \in Seq(Cell) : \A j \in 1..Len(y) : (x \o y)[Len(x) + j] = y[j]
        OBVIOUS
      <4>2. Len(a \o s) + (i - (off + Len(s))) = i
        BY <2>1, <1>1, <1>6
      <4>3. i - (off + Len(s)) \in 1..Len(z) /\ z \in Seq(Cell) /\ a \o s \in Seq(Cell)
        BY <3>2, <1>4, <1>6
      <4>4. (a \o s \o z)[Len(a \o s) + (i - (off + Len(s)))] = z[i - (off + Len(s))]
        BY ONLY <4>1, <4>3
      <4> QED BY <4>2, <4>4
    <3>4. z[i - (off + Len(s))] = t[off + (i - (off + Len(s)))]
      BY <3>2, <1>4
    <3>5. off + (i - (off + Len(s))) = i - Len(s)
      BY <2>1, <1>1
    <3> QED BY <2>2, <3>1, <3>2, <3>3, <3>4, <3>5, <1>2
  <2> QED BY <2>3, <2>4, <2>5
<1>11. u = a \o s \o z
  BY ONLY <1>1, <1>6, <1>9, <1>10, SeqEqual
<1> QED BY <1>11 DEF a, z, t, u, p

LEMMA PrefixShorter ==
  ASSUME NEW r, Good(r), NEW n \in 0..r.lth
  PROVE  Prefix(r, n) = SubSeq(Prefix(r, r.lth), 1, n)
<1> DEFINE t == Prefix(r, r.lth)
           u == Prefix(r, n)
<1>1. r.lth \in Nat /\ n \in Nat /\ n <= r.lth
  BY DEF Good, BurpT
<1>2. t \in Seq(Cell) /\ Len(t) = r.lth /\ \A i \in 1..r.lth : t[i] = r.mem[i]
  BY <1>1, PrefixIsText
<1>3. u \in Seq(Cell) /\ Len(u) = n /\ \A i \in 1..n : u[i] = r.mem[i]
  BY <1>1, PrefixIsText
<1> HIDE DEF t, u
<1> DEFINE v == SubSeq(t, 1, n)
<1>4. v \in Seq(Cell) /\ Len(v) = n /\ \A i \in 1..n : v[i] = t[i]
  BY <1>1, <1>2
<1> HIDE DEF v
<1>5. \A i \in 1..Len(u) : u[i] = v[i]
  BY <1>1, <1>2, <1>3, <1>4
<1>6. u = v
  BY ONLY <1>1, <1>3, <1>4, <1>5, SeqEqual
<1> QED BY <1>6 DEF t, u, v

LEMMA PrefixAtLineStart ==
  ASSUME NEW r, Good(r), NEW n \in 0..r.lth
  PROVE  Abstract!AtLineStart(Prefix(r, n)) <=> (n > 0 /\ r.mem[n] = NL)
<1>1. /\ Prefix(r, n) \in Seq(Cell) /\ Len(Prefix(r, n)) = n /\ n \in Nat
      /\ \A i \in 1..n : Prefix(r, n)[i] = r.mem[i]
  BY PrefixIsText DEF Good, BurpT
<1> QED BY <1>1 DEF Abstract!AtLineStart

-------------------------------------------------------------------------------
(* What a step on one buffer is to the texts.                               *)
TheTexts == [b \in Burps |-> AbstractText(b)]
TheLevels == [b \in Burps |-> burp[b].indent]
TheSwitches == [b \in Burps |-> burp[b].flat]

LEMMA TextIsPrefix ==
  ASSUME NEW b \in Burps
  PROVE  AbstractText(b) = Prefix(burp[b], burp[b].lth - PadInProgress(b))
BY DEF AbstractText, Prefix

LEMMA EmptyPrefix ==
  ASSUME NEW r, NEW n, n = 0 - 0
  PROVE  Prefix(r, n) = <<>>
BY DEF Prefix

LEMMA NotPadding ==
  ASSUME RInv, NEW b \in Burps, call.op # "burpn" \/ call.b # b
  PROVE  AbstractText(b) = Prefix(burp[b], burp[b].lth)
<1>1. PadInProgress(b) = 0 /\ burp[b].lth \in Nat
  BY DEF PadInProgress, RInv, IInv, TypeOK, BurpT
<1> QED BY <1>1, TextIsPrefix

LEMMA Padding ==
  ASSUME RInv, NEW b \in Burps, call.op = "burpn", call.b = b
  PROVE  /\ PadInProgress(b) = call.padded
         /\ burp[b].lth - call.padded \in 0..burp[b].lth
         /\ AbstractText(b) = Prefix(burp[b], burp[b].lth - call.padded)
<1>1. PadInProgress(b) = call.padded
  BY DEF PadInProgress
<1>2. call.padded \in Nat /\ burp[b].lth \in Nat /\ call.padded <= burp[b].lth
  BY DEF RInv, PadInv, IInv, TypeOK, BurpT, CallT
<1> QED BY <1>1, <1>2, TextIsPrefix

LEMMA OneText ==
  ASSUME RInv, NEW b \in Burps, NEW r, burp' = [burp EXCEPT ![b] = r], NEW txt,
         AbstractText(b)' = txt,
         \A a \in Burps \ {b} : PadInProgress(a)' = PadInProgress(a)
  PROVE  /\ TheTexts' = [TheTexts EXCEPT ![b] = txt]
         /\ TheLevels' = [TheLevels EXCEPT ![b] = r.indent]
         /\ TheSwitches' = [TheSwitches EXCEPT ![b] = r.flat]
<1>1. burp'[b] = r /\ \A a \in Burps \ {b} : burp'[a] = burp[a]
  BY DEF RInv, IInv, TypeOK
<1>2. \A a \in Burps \ {b} : AbstractText(a)' = AbstractText(a)
  BY <1>1 DEF AbstractText
<1>3. TheTexts' = [a \in Burps |-> AbstractText(a)']
  BY DEF TheTexts
<1>4. [a \in Burps |-> AbstractText(a)'] = [TheTexts EXCEPT ![b] = txt]
  BY <1>2 DEF TheTexts
<1>5. /\ [a \in Burps |-> burp'[a].indent] = [TheLevels EXCEPT ![b] = r.indent]
      /\ [a \in Burps |-> burp'[a].flat] = [TheSwitches EXCEPT ![b] = r.flat]
  <2>1. ASSUME NEW a \in Burps
        PROVE  /\ burp'[a].indent = IF a = b THEN r.indent ELSE burp[a].indent
               /\ burp'[a].flat = IF a = b THEN r.flat ELSE burp[a].flat
    BY <1>1
  <2> QED BY <2>1 DEF TheLevels, TheSwitches
<1> QED BY <1>3, <1>4, <1>5 DEF TheLevels, TheSwitches

\* Only the text, which had other spaces or another character added to it.
LEMMA TextOnly ==
  ASSUME RInv, NEW b \in Burps, NEW r, burp' = [burp EXCEPT ![b] = r],
         r.indent = burp[b].indent, r.flat = burp[b].flat, NEW txt, AbstractText(b)' = txt,
         \A a \in Burps \ {b} : PadInProgress(a)' = PadInProgress(a)
  PROVE  /\ TheTexts' = [TheTexts EXCEPT ![b] = txt]
         /\ UNCHANGED <<TheLevels, TheSwitches>>
<1>1. /\ [TheLevels EXCEPT ![b] = r.indent] = TheLevels
      /\ [TheSwitches EXCEPT ![b] = r.flat] = TheSwitches
  BY DEF TheTexts, TheLevels, TheSwitches
<1> QED BY <1>1, OneText

LEMMA Unseen ==
  ASSUME RInv, NEW b \in Burps, NEW r, burp' = [burp EXCEPT ![b] = r],
         r.indent = burp[b].indent, r.flat = burp[b].flat,
         AbstractText(b)' = AbstractText(b),
         \A a \in Burps \ {b} : PadInProgress(a)' = PadInProgress(a)
  PROVE  UNCHANGED Abstract!vars
<1>1. [TheTexts EXCEPT ![b] = AbstractText(b)] = TheTexts
  BY DEF TheTexts, TheLevels, TheSwitches
<1> QED BY <1>1, TextOnly DEF Abstract!vars, TheTexts, TheLevels, TheSwitches

\* What is written at the beginning of a line is preceded by what is owed.
LEMMA PaddingIsOwed ==
  ASSUME RInv, NEW b \in Burps, NEW n \in 0..burp[b].lth, AbstractText(b) = Prefix(burp[b], n)
  PROVE  Abstract!Padding(b) = Abstract!Spaces(Owed(burp[b], n))
<1>1. Good(burp[b])
  BY DEF RInv, IInv, TypeOK, Good, Sized
<1>2. Abstract!AtLineStart(AbstractText(b)) <=> (n > 0 /\ burp[b].mem[n] = NL)
  BY <1>1, PrefixAtLineStart
<1>3. Abstract!Spaces(0) = <<>>
  BY DEF Abstract!Spaces
<1> QED BY <1>2, <1>3 DEF Abstract!Padding, Owed, TheTexts, TheLevels, TheSwitches

-------------------------------------------------------------------------------
LEMMA InitRInv == Init => RInv
BY InitIInv DEF Init, Idle, RInv, PadInv

LEMMA InitRefines == ASSUME Init PROVE Abstract!Init
<1>1. \A b \in Burps : burp[b] = Closed /\ PadInProgress(b) = 0
  BY DEF Init, Idle, PadInProgress
<1>2. Closed.lth = 0 /\ Closed.indent = 0 /\ Closed.flat = FALSE
  BY DEF Closed
<1>3. \A b \in Burps : AbstractText(b) = <<>>
  BY <1>1, <1>2, TextIsPrefix, EmptyPrefix
<1> QED BY <1>1, <1>2, <1>3 DEF Abstract!Init

LEMMA IndentationRefines ==
  ASSUME RInv, Indentation
  PROVE  PadInv' /\ UNCHANGED Abstract!vars
<1> DEFINE r == burp[call.b]
<1>1. call.op = "burpn" /\ call.pc = "indentation" /\ call.b \in Burps /\ burp' = burp
  BY DEF Indentation, BurpnAt, RInv, IInv, TypeOK, CallT
<1>2. r.lth \in Nat /\ call.padded = 0 /\ IndentUnit * r.indent \in Nat
  BY <1>1, SizesAreNat DEF RInv, PadInv, IInv, TypeOK, BurpT
<1>3. call \in [op : {"burpn"}, b : Burps, todo : Seq(Char),
                pc : {"indentation", "write"}, pad : Nat, padded : Nat]
  BY <1>1 DEF RInv, IInv, TypeOK, CallT
<1>4. /\ call'.op = "burpn" /\ call'.b = call.b /\ call'.padded = 0 /\ call'.pc = "write"
      /\ call'.pad = Owed(r, r.lth)
  BY <1>1, <1>3 DEF Indentation, AtLineStart, Owed
<1>5. PadInv'
  <2>1. call'.padded + call'.pad = Owed(r, r.lth - call'.padded)
    BY <1>2, <1>4 DEF Owed
  <2> QED BY <1>1, <1>2, <1>4, <2>1 DEF PadInv, Owed
<1>6. \A b \in Burps : PadInProgress(b)' = PadInProgress(b)
  BY <1>1, <1>2, <1>4 DEF PadInProgress
<1>7. \A b \in Burps : AbstractText(b)' = AbstractText(b)
  BY <1>1, <1>6 DEF AbstractText
<1>8. UNCHANGED TheTexts
  BY <1>7 DEF TheTexts, TheLevels, TheSwitches
<1> QED BY <1>1, <1>5, <1>8 DEF Abstract!vars, TheTexts, TheLevels, TheSwitches

LEMMA PadSpaceRefines ==
  ASSUME RInv, NEW b \in Burps, b = call.b, PadSpace
  PROVE  PadInv' /\ UNCHANGED Abstract!vars
<1> DEFINE r == burp[b]
           p == Burpc1(r, SP)
           n == r.lth - call.padded
<1>1. /\ call.op = "burpn" /\ call.pc = "write" /\ b \in Burps /\ call.pad > 0
      /\ burp' = [burp EXCEPT ![b] = p]
  BY DEF PadSpace, BurpnAt, RInv, IInv, TypeOK, CallT
<1>2. /\ Good(r) /\ r.lth \in Nat /\ call.padded \in Nat /\ call.pad \in Nat
      /\ n \in 0..r.lth /\ n \in Nat
  BY <1>1 DEF RInv, PadInv, IInv, TypeOK, BurpT, CallT, Good, Sized
<1>3. call \in [op : {"burpn"}, b : Burps, todo : Seq(Char),
                pc : {"indentation", "write"}, pad : Nat, padded : Nat]
  BY <1>1 DEF RInv, IInv, TypeOK, CallT
<1>4. /\ call'.op = "burpn" /\ call'.b = b /\ call'.padded = call.padded + 1 /\ call'.pc = "write"
      /\ call'.pad = call.pad - 1
  BY <1>1, <1>3 DEF PadSpace
<1>5. /\ Good(p) /\ p.lth = r.lth + 1 /\ p.indent = r.indent /\ p.flat = r.flat
      /\ p.mem[r.lth + 1] = SP /\ \A i \in 1..r.lth : p.mem[i] = r.mem[i]
  BY <1>2, Burpc1IsGood, Burpc1Appends, CharsDiffer
<1>6. burp'[b] = p
  BY <1>1 DEF RInv, IInv, TypeOK
<1> HIDE DEF p
<1>7. p.lth - call'.padded = n
  BY <1>2, <1>4, <1>5
<1>8. \A i \in 1..n : p.mem[i] = r.mem[i]
  BY <1>2, <1>5
<1>9. PadInv'
  <2>1. call'.padded <= p.lth
    BY <1>2, <1>4, <1>5, <1>7
  <2>2. ASSUME NEW i \in (p.lth - call'.padded + 1)..p.lth PROVE p.mem[i] = SP
    <3>1. i \in (n + 1)..(r.lth + 1)
      BY <1>5, <1>7
    <3>2. \A j \in (r.lth - call.padded + 1)..r.lth : r.mem[j] = SP
      BY <1>1 DEF RInv, PadInv
    <3>3. CASE i = r.lth + 1
      BY <3>3, <1>5
    <3>4. CASE i # r.lth + 1
      <4>1. i \in 1..r.lth /\ i \in (r.lth - call.padded + 1)..r.lth
        BY <3>1, <3>4, <1>2
      <4> QED BY <4>1, <3>2, <1>5
    <3> QED BY <3>3, <3>4
  <2>3. Owed(p, n) = Owed(r, n)
    BY <1>2, <1>5, <1>8 DEF Owed
  <2>4. call.padded + call.pad = Owed(r, n)
    BY <1>1 DEF RInv, PadInv
  <2>5. call'.padded + call'.pad = Owed(p, p.lth - call'.padded)
    BY <1>2, <1>4, <1>7, <2>3, <2>4
  <2> HIDE DEF r, n
  <2> QED BY <1>4, <1>6, <2>1, <2>2, <2>5 DEF PadInv
<1>10. PadInProgress(b) = call.padded /\ PadInProgress(b)' = call'.padded
  BY <1>1, <1>4 DEF PadInProgress
<1>11. AbstractText(b)' = AbstractText(b)
  <2>1. AbstractText(b)' = Prefix(p, n)
    <3>1. AbstractText(b)' = Prefix(burp'[b], burp'[b].lth - PadInProgress(b)')
      BY DEF AbstractText, Prefix
    <3> QED BY <3>1, <1>6, <1>7, <1>10
  <2>2. AbstractText(b) = Prefix(r, n)
    BY <1>10 DEF AbstractText, Prefix
  <2> QED BY <2>1, <2>2, <1>2, <1>8, KeepsPrefix
<1>12. \A a \in Burps \ {b} : PadInProgress(a)' = PadInProgress(a)
  BY <1>1, <1>4 DEF PadInProgress
<1> HIDE DEF n
<1> QED BY <1>1, <1>5, <1>9, <1>11, <1>12, Unseen

LEMMA PutCharRefines ==
  ASSUME RInv, NEW b \in Burps, b = call.b, PutChar
  PROVE  PadInv' /\ \E c \in Char : Abstract!Write(b, c)
<1> DEFINE r == burp[b]
           c == Head(call.todo)
           p == Burpc1(r, c)
           n == r.lth - call.padded
<1>1. /\ call.op = "burpn" /\ call.pc = "write" /\ call.pad = 0 /\ call.todo # <<>>
      /\ burp' = [burp EXCEPT ![b] = p]
  BY DEF PutChar, BurpnAt
<1>2. call \in [op : {"burpn"}, b : Burps, todo : Seq(Char),
                pc : {"indentation", "write"}, pad : Nat, padded : Nat]
  BY <1>1 DEF RInv, IInv, TypeOK, CallT
<1>3. /\ Good(r) /\ r.lth \in Nat /\ call.padded \in Nat /\ n \in 0..r.lth /\ n \in Nat
  BY <1>1, <1>2 DEF RInv, PadInv, IInv, TypeOK, BurpT, Good, Sized
<1>4. c \in Char
  BY <1>1, <1>2
<1>5. call' = Idle \/ call' = [call EXCEPT !.pc = "indentation", !.todo = Tail(@), !.padded = 0]
  BY DEF PutChar
<1>6. \/ call'.op = "none"
      \/ call'.op = "burpn" /\ call'.b = b /\ call'.padded = 0 /\ call'.pc = "indentation"
  <2>1. CASE call' = Idle
    BY <2>1 DEF Idle
  <2>2. CASE call' = [call EXCEPT !.pc = "indentation", !.todo = Tail(@), !.padded = 0]
    <3> DEFINE rest == Tail(call.todo)
    <3>1. call' = [call EXCEPT !.pc = "indentation", !.todo = rest, !.padded = 0]
      BY <2>2
    <3> HIDE DEF rest
    <3> QED BY <1>2, <3>1
  <2> QED BY <1>5, <2>1, <2>2
<1> HIDE DEF c, p, n
<1>7. burp'[b] = p /\ p.lth = r.lth + 1 /\ p.indent = r.indent /\ p.flat = r.flat /\ Good(p)
  BY <1>1, <1>3, <1>4, Burpc1IsGood DEF p, RInv, IInv, TypeOK
<1>8. PadInv'
  <2>1. \A i \in (p.lth - 0 + 1)..p.lth : p.mem[i] = SP
    BY <1>3, <1>7
  <2>2. 0 <= p.lth
    BY <1>3, <1>7
  <2> QED BY <1>6, <1>7, <2>1, <2>2 DEF PadInv
<1>9. PadInProgress(b)' = 0 /\ \A a \in Burps \ {b} : PadInProgress(a)' = PadInProgress(a)
  BY <1>1, <1>6 DEF PadInProgress
<1>10. call.padded = Owed(r, n)
  BY <1>1, <1>2 DEF RInv, PadInv, n
<1>11. AbstractText(b) = Prefix(r, n)
  BY <1>1, Padding DEF n
<1>12. Abstract!Padding(b) = Abstract!Spaces(call.padded)
  BY <1>3, <1>10, <1>11, PaddingIsOwed
<1>13. Prefix(r, r.lth) = Prefix(r, n) \o Abstract!Spaces(call.padded)
  <2>1. \A i \in (r.lth - call.padded + 1)..r.lth : r.mem[i] = SP
    BY <1>1 DEF RInv, PadInv
  <2>2. call.padded <= r.lth
    BY <1>1 DEF RInv, PadInv
  <2> QED BY <1>3, <2>1, <2>2, PrefixPadded DEF n
<1> DEFINE txt == AbstractText(b) \o Abstract!Padding(b) \o <<c>>
<1>14. AbstractText(b)' = txt
  <2>1. AbstractText(b)' = Prefix(burp'[b], burp'[b].lth - PadInProgress(b)')
    BY DEF AbstractText, Prefix
  <2>2. burp'[b].lth - PadInProgress(b)' = r.lth + 1
    BY <1>3, <1>7, <1>9
  <2>3. Prefix(p, r.lth + 1) = Prefix(r, r.lth) \o <<c>>
    BY <1>3, <1>4, PrefixGrows DEF p
  <2> QED BY <1>7, <1>11, <1>12, <1>13, <2>1, <2>2, <2>3
<1>15. Abstract!Write(b, c)
  <2> HIDE DEF txt, r
  <2>1. /\ TheTexts' = [TheTexts EXCEPT ![b] = txt]
        /\ UNCHANGED <<TheLevels, TheSwitches>>
    BY <1>1, <1>7, <1>9, <1>14, TextOnly DEF r
  <2>2. [TheTexts EXCEPT ![b] = @ \o Abstract!Padding(b) \o <<c>>]
          = [TheTexts EXCEPT ![b] = txt]
    BY DEF txt, TheTexts, TheLevels, TheSwitches
  <2> QED BY <2>1, <2>2 DEF Abstract!Write, TheTexts, TheLevels, TheSwitches
<1> QED BY <1>4, <1>8, <1>15

LEMMA NothingToPutRefines ==
  ASSUME RInv, NEW b \in Burps, b = call.b, NothingToPut
  PROVE  PadInv' /\ Abstract!Pad(b)
<1> DEFINE r == burp[b]
           n == r.lth - call.padded
<1>1. /\ call.op = "burpn" /\ call.pc = "write" /\ call.pad = 0
      /\ burp' = burp /\ call'.op = "none"
  BY DEF NothingToPut, BurpnAt, Idle
<1>2. call \in [op : {"burpn"}, b : Burps, todo : Seq(Char),
                pc : {"indentation", "write"}, pad : Nat, padded : Nat]
  BY <1>1 DEF RInv, IInv, TypeOK, CallT
<1>3. /\ Good(r) /\ r.lth \in Nat /\ call.padded \in Nat /\ n \in 0..r.lth /\ n \in Nat
  BY <1>1, <1>2 DEF RInv, PadInv, IInv, TypeOK, BurpT, Good, Sized
<1> HIDE DEF n
<1>4. PadInv'
  BY <1>1 DEF PadInv
<1>5. PadInProgress(b)' = 0 /\ \A a \in Burps \ {b} : PadInProgress(a)' = PadInProgress(a)
  BY <1>1 DEF PadInProgress
<1>6. call.padded = Owed(r, n)
  BY <1>1, <1>2 DEF RInv, PadInv, n
<1>7. AbstractText(b) = Prefix(r, n)
  BY <1>1, Padding DEF n
<1>8. Abstract!Padding(b) = Abstract!Spaces(call.padded)
  BY <1>3, <1>6, <1>7, PaddingIsOwed
<1>9. Prefix(r, r.lth) = Prefix(r, n) \o Abstract!Spaces(call.padded)
  <2>1. \A i \in (r.lth - call.padded + 1)..r.lth : r.mem[i] = SP
    BY <1>1 DEF RInv, PadInv
  <2>2. call.padded <= r.lth
    BY <1>1 DEF RInv, PadInv
  <2> QED BY <1>3, <2>1, <2>2, PrefixPadded DEF n
<1> DEFINE txt == AbstractText(b) \o Abstract!Padding(b)
<1>10. AbstractText(b)' = txt
  <2>1. AbstractText(b)' = Prefix(burp'[b], burp'[b].lth - PadInProgress(b)')
    BY DEF AbstractText, Prefix
  <2>2. burp'[b].lth - PadInProgress(b)' = r.lth
    BY <1>1, <1>3, <1>5
  <2> QED BY <1>1, <1>7, <1>8, <1>9, <2>1, <2>2
<1>11. burp' = [burp EXCEPT ![b] = r]
  BY <1>1 DEF RInv, IInv, TypeOK
<1> HIDE DEF txt
<1>12. /\ TheTexts' = [TheTexts EXCEPT ![b] = txt]
       /\ UNCHANGED <<TheLevels, TheSwitches>>
  BY <1>5, <1>10, <1>11, TextOnly
<1>13. [TheTexts EXCEPT ![b] = @ \o Abstract!Padding(b)]
         = [TheTexts EXCEPT ![b] = txt]
  BY DEF txt, TheTexts, TheLevels, TheSwitches
<1> QED BY <1>4, <1>12, <1>13 DEF Abstract!Pad, TheTexts, TheLevels, TheSwitches

LEMMA InsertGrowRefines ==
  ASSUME RInv, NEW b \in Burps, b = call.b, InsertGrow
  PROVE  PadInv' /\ UNCHANGED Abstract!vars
<1> DEFINE r == burp[b]
           p == Increased(r)
<1>1. call.op = "insert" /\ call' = call /\ burp' = [burp EXCEPT ![b] = p]
  BY DEF InsertGrow
<1>2. Good(r) /\ r.lth \in Nat /\ r.lth <= r.alloc
  BY SizesAreNat DEF RInv, IInv, TypeOK, BurpT, Good, Sized, Roomy
<1>3. /\ p.lth = r.lth /\ p.indent = r.indent /\ p.flat = r.flat
      /\ \A i \in 1..r.alloc : p.mem[i] = r.mem[i]
  BY <1>2, IncreasedIsGood
<1> HIDE DEF p
<1>4. burp'[b] = p /\ \A a \in Burps : PadInProgress(a) = 0 /\ PadInProgress(a)' = 0
  BY <1>1 DEF PadInProgress, RInv, IInv, TypeOK
<1>5. AbstractText(b) = Prefix(r, r.lth)
  BY <1>1, NotPadding
<1>6. AbstractText(b)' = AbstractText(b)
  <2>1. AbstractText(b)' = Prefix(burp'[b], burp'[b].lth - PadInProgress(b)')
    BY DEF AbstractText, Prefix
  <2>2. Prefix(p, r.lth) = Prefix(r, r.lth)
    <3>1. r.alloc \in Nat
      BY <1>2 DEF Good, BurpT
    <3>2. \A i \in 1..r.lth : p.mem[i] = r.mem[i]
      BY <1>2, <1>3, <3>1
    <3> QED BY <1>2, <3>2, KeepsPrefix
  <2>3. burp'[b].lth - PadInProgress(b)' = r.lth
    BY <1>2, <1>3, <1>4
  <2> QED BY <1>4, <1>5, <2>1, <2>2, <2>3
<1>7. PadInv'
  BY <1>1 DEF PadInv
<1> QED BY <1>1, <1>3, <1>4, <1>6, <1>7, Unseen

LEMMA InsertMoveRefines ==
  ASSUME RInv, NEW b \in Burps, b = call.b, InsertMove
  PROVE  PadInv' /\ \E off \in 0..Len(AbstractText(b)), s \in Texts : Abstract!Insert(b, off, s)
<1> DEFINE r == burp[b]
           off == call.off
           s == call.todo
           p == Inserted(r, off, s)
           t == AbstractText(b)
<1>1. /\ call.op = "insert" /\ call'.op = "none" /\ Fits(r, s)
      /\ burp' = [burp EXCEPT ![b] = p]
  BY DEF InsertMove, Idle
<1>2. /\ s \in Texts /\ s \in Seq(Char) /\ off \in Nat /\ off <= r.lth
      /\ Good(r) /\ r.lth \in Nat /\ r \in BurpT
  BY <1>1 DEF RInv, IInv, TypeOK, BurpT, CallT, Good, Sized
<1>3. p.lth = r.lth + Len(s) /\ p.indent = r.indent /\ p.flat = r.flat
  BY <1>2 DEF Inserted, BurpT
<1>4. t = Prefix(r, r.lth)
  BY <1>1, NotPadding
<1> DEFINE txt == SubSeq(t, 1, off) \o s \o SubSeq(t, off + 1, Len(t))
<1>5. Prefix(p, r.lth + Len(s)) = txt
  <2> DEFINE u == Prefix(r, r.lth)
  <2>1. Prefix(p, r.lth + Len(s)) = SubSeq(u, 1, off) \o s \o SubSeq(u, off + 1, Len(u))
    BY <1>1, <1>2, PrefixInserted
  <2> HIDE DEF u, p
  <2>2. t = u
    BY <1>4 DEF u
  <2> HIDE DEF t
  <2> QED BY <2>1, <2>2
<1>6. off \in 0..Len(t)
  <2>1. Len(Prefix(r, r.lth)) = r.lth
    BY <1>2, PrefixIsText
  <2> QED BY <2>1, <1>2, <1>4
<1> HIDE DEF p
<1>7. burp'[b] = p /\ PadInProgress(b)' = 0
      /\ \A a \in Burps \ {b} : PadInProgress(a)' = PadInProgress(a)
  BY <1>1 DEF PadInProgress, RInv, IInv, TypeOK
<1>8. t' = txt
  <2>1. AbstractText(b)' = Prefix(burp'[b], burp'[b].lth - PadInProgress(b)')
    BY DEF AbstractText, Prefix
  <2>2. burp'[b].lth - PadInProgress(b)' = r.lth + Len(s)
    BY <1>2, <1>3, <1>7
  <2> QED BY <1>5, <1>7, <2>1, <2>2
<1>9. PadInv'
  BY <1>1 DEF PadInv
<1> HIDE DEF txt
<1>10. /\ TheTexts' = [TheTexts EXCEPT ![b] = txt]
       /\ UNCHANGED <<TheLevels, TheSwitches>>
  BY <1>1, <1>3, <1>7, <1>8, TextOnly
<1>11. [TheTexts EXCEPT ![b] = SubSeq(@, 1, off) \o s \o SubSeq(@, off + 1, Len(@))]
         = [TheTexts EXCEPT ![b] = txt]
  BY DEF txt, TheTexts, TheLevels, TheSwitches
<1>12. Abstract!Insert(b, off, s)
  BY <1>6, <1>10, <1>11 DEF Abstract!Insert, TheTexts, TheLevels, TheSwitches
<1> QED BY <1>2, <1>6, <1>9, <1>12

-------------------------------------------------------------------------------
(* The callers. *)
LEMMA BurpnRefines ==
  ASSUME RInv, NEW b \in Burps, NEW s \in Texts, Burpn(b, s)
  PROVE  PadInv' /\ UNCHANGED Abstract!vars
<1>1. call.op = "none" /\ burp' = burp
  BY DEF Burpn, Free
<1>2. call'.op = "burpn" /\ call'.b = b /\ call'.padded = 0 /\ call'.pc = "indentation"
  BY DEF Burpn
<1>3. burp[b].lth \in Nat
  BY DEF RInv, IInv, TypeOK, BurpT
<1>4. PadInv'
  <2>1. \A i \in (burp[b].lth - 0 + 1)..burp[b].lth : burp[b].mem[i] = SP
    BY <1>3
  <2> QED BY <1>1, <1>2, <1>3, <2>1 DEF PadInv
<1>5. \A a \in Burps : PadInProgress(a) = 0 /\ PadInProgress(a)' = 0
  BY <1>1, <1>2 DEF PadInProgress
<1>6. \A a \in Burps : AbstractText(a)' = AbstractText(a)
  BY <1>1, <1>5 DEF AbstractText
<1>7. UNCHANGED TheTexts
  BY <1>6 DEF TheTexts, TheLevels, TheSwitches
<1> QED BY <1>1, <1>4, <1>7 DEF Abstract!vars, TheTexts, TheLevels, TheSwitches

LEMMA BurpInsertRefines ==
  ASSUME RInv, NEW b \in Burps, NEW off, NEW s \in Texts, BurpInsert(b, off, s)
  PROVE  PadInv' /\ call'.todo \in Texts /\ UNCHANGED Abstract!vars
<1>1. call.op = "none" /\ burp' = burp /\ call'.op = "insert" /\ call'.todo = s
  BY DEF BurpInsert, Free
<1>2. \A a \in Burps : PadInProgress(a) = 0 /\ PadInProgress(a)' = 0
  BY <1>1 DEF PadInProgress
<1>3. \A a \in Burps : AbstractText(a)' = AbstractText(a)
  BY <1>1, <1>2 DEF AbstractText
<1>4. UNCHANGED TheTexts
  BY <1>3 DEF TheTexts, TheLevels, TheSwitches
<1> QED BY <1>1, <1>4 DEF Abstract!vars, PadInv, TheTexts, TheLevels, TheSwitches

\* A caller that assigns the fields of a buffer, while no routine is in progress.
LEMMA Assigned ==
  ASSUME RInv, NEW b \in Burps, NEW r, call.op = "none", Assign(b, r), r.lth \in Nat
  PROVE  /\ PadInv' /\ burp' = [burp EXCEPT ![b] = r]
         /\ AbstractText(b) = Prefix(burp[b], burp[b].lth)
         /\ AbstractText(b)' = Prefix(r, r.lth)
         /\ \A a \in Burps \ {b} : PadInProgress(a)' = PadInProgress(a)
<1>1. burp' = [burp EXCEPT ![b] = r] /\ burp'[b] = r /\ call' = call
  BY DEF Assign, RInv, IInv, TypeOK
<1>2. \A a \in Burps : PadInProgress(a) = 0 /\ PadInProgress(a)' = 0
  BY <1>1 DEF PadInProgress
<1>3. AbstractText(b) = Prefix(burp[b], burp[b].lth)
  BY NotPadding
<1>4. AbstractText(b)' = Prefix(r, r.lth)
  <2>1. AbstractText(b)' = Prefix(burp'[b], burp'[b].lth - PadInProgress(b)')
    BY DEF AbstractText, Prefix
  <2> QED BY <1>1, <1>2, <2>1
<1> QED BY <1>1, <1>2, <1>3, <1>4 DEF PadInv

\* An assignment of m_lth alone.
LEMMA Shortened ==
  ASSUME RInv, NEW b \in Burps, NEW n \in 0..burp[b].lth, call.op = "none",
         Assign(b, [burp[b] EXCEPT !.lth = n])
  PROVE  /\ PadInv'
         /\ TheTexts'
              = [TheTexts EXCEPT ![b] = SubSeq(@, 1, n)]
         /\ UNCHANGED <<TheLevels, TheSwitches>>
<1> DEFINE r == burp[b]
           p == [r EXCEPT !.lth = n]
           txt == SubSeq(AbstractText(b), 1, n)
<1>1. Good(r) /\ r \in BurpT /\ n \in Nat
  BY DEF RInv, IInv, TypeOK, BurpT, Good, Sized, TheTexts, TheLevels, TheSwitches
<1>2. p.lth = n /\ p.mem = r.mem /\ p.indent = r.indent /\ p.flat = r.flat
  BY <1>1 DEF BurpT
<1>3. Prefix(p, n) = Prefix(r, n)
  BY <1>2 DEF Prefix
<1>4. Assign(b, p)
  OBVIOUS
<1> HIDE DEF p
<1>5. /\ PadInv' /\ burp' = [burp EXCEPT ![b] = p]
      /\ AbstractText(b) = Prefix(r, r.lth)
      /\ AbstractText(b)' = Prefix(p, n)
      /\ \A a \in Burps \ {b} : PadInProgress(a)' = PadInProgress(a)
  BY <1>1, <1>2, <1>4, Assigned
<1>6. AbstractText(b)' = txt
  BY <1>1, <1>3, <1>5, PrefixShorter
<1> HIDE DEF txt
<1>7. /\ TheTexts' = [TheTexts EXCEPT ![b] = txt]
      /\ UNCHANGED <<TheLevels, TheSwitches>>
  BY <1>2, <1>5, <1>6, TextOnly
<1>8. [TheTexts EXCEPT ![b] = SubSeq(@, 1, n)]
        = [TheTexts EXCEPT ![b] = txt]
  BY DEF txt, TheTexts, TheLevels, TheSwitches
<1> QED BY <1>5, <1>7, <1>8

LEMMA UndoRefines ==
  ASSUME RInv, NEW b \in Burps, NEW n \in 0..burp[b].lth, Undo(b, n)
  PROVE  PadInv' /\ n \in 0..Len(AbstractText(b)) /\ Abstract!Undo(b, n)
<1>1. call.op = "none" /\ Assign(b, [burp[b] EXCEPT !.lth = n])
  BY DEF Undo, Free
<1>2. n \in 0..Len(AbstractText(b))
  <2>1. Good(burp[b]) /\ burp[b].lth \in 0..burp[b].lth
    BY DEF RInv, IInv, TypeOK, BurpT, Good, Sized
  <2>2. AbstractText(b) = Prefix(burp[b], burp[b].lth)
    BY <1>1, NotPadding
  <2> QED BY <2>1, <2>2, PrefixIsText
<1> QED BY <1>1, <1>2, Shortened DEF Abstract!Undo, TheTexts, TheLevels, TheSwitches

LEMMA RtrimRefines ==
  ASSUME RInv, NEW b \in Burps, BurpRtrim(b)
  PROVE  PadInv' /\ Abstract!Trim(b)
<1>1. PICK n \in 0..burp[b].lth :
        /\ n > 0 => burp[b].mem[n] # SP
        /\ \A i \in (n + 1)..burp[b].lth : burp[b].mem[i] = SP
        /\ Assign(b, [burp[b] EXCEPT !.lth = n])
  BY DEF BurpRtrim
<1>2. call.op = "none"
  BY DEF BurpRtrim, Free
<1> DEFINE t == AbstractText(b)
<1>3. /\ Len(t) = burp[b].lth /\ n \in Nat /\ Len(t) \in Nat
      /\ \A i \in 1..Len(t) : t[i] = burp[b].mem[i]
  <2>1. Good(burp[b]) /\ burp[b].lth \in 0..burp[b].lth /\ burp[b].lth \in Nat
    BY DEF RInv, IInv, TypeOK, BurpT, Good, Sized
  <2>2. t = Prefix(burp[b], burp[b].lth)
    BY <1>2, NotPadding
  <2> QED BY <2>1, <2>2, PrefixIsText
<1> HIDE DEF t
<1>4. n \in 0..Len(t) /\ (\A i \in (n + 1)..Len(t) : t[i] = SP) /\ (n > 0 => t[n] # SP)
  <2>1. ASSUME NEW i \in (n + 1)..Len(t) PROVE t[i] = SP
    <3>1. i \in 1..Len(t)
      BY <1>3
    <3> QED BY <3>1, <1>1, <1>3
  <2>2. n > 0 => n \in 1..Len(t)
    BY <1>3
  <2> QED BY <2>1, <2>2, <1>1, <1>3
<1>5. /\ PadInv'
      /\ TheTexts'
           = [TheTexts EXCEPT ![b] = SubSeq(@, 1, n)]
      /\ UNCHANGED <<TheLevels, TheSwitches>>
  BY <1>1, <1>2, Shortened
<1>6. TheTexts[b] = t
  BY DEF t, TheTexts, TheLevels, TheSwitches
<1> QED BY <1>4, <1>5, <1>6 DEF Abstract!Trim, TheTexts, TheLevels, TheSwitches

LEMMA Cleared ==
  ASSUME RInv, NEW b \in Burps, NEW r, call.op = "none", Assign(b, r),
         r.lth = 0, r.indent = 0, r.flat = FALSE
  PROVE  PadInv' /\ Abstract!Clear(b)
<1>1. /\ PadInv' /\ burp' = [burp EXCEPT ![b] = r]
      /\ AbstractText(b)' = Prefix(r, 0)
      /\ \A a \in Burps \ {b} : PadInProgress(a)' = PadInProgress(a)
  BY Assigned
<1>2. AbstractText(b)' = <<>>
  BY <1>1, EmptyPrefix
<1>3. /\ TheTexts' = [TheTexts EXCEPT ![b] = <<>>]
      /\ TheLevels' = [TheLevels EXCEPT ![b] = r.indent]
      /\ TheSwitches' = [TheSwitches EXCEPT ![b] = r.flat]
  BY <1>1, <1>2, OneText
<1> QED BY <1>1, <1>3 DEF Abstract!Clear, TheTexts, TheLevels, TheSwitches

LEMMA Reset ==
  ASSUME RInv, NEW b \in Burps, BurpReset(b) \/ BurpClose(b)
  PROVE  PadInv' /\ Abstract!Clear(b)
<1>1. CASE BurpReset(b)
  <2> DEFINE m == [i \in 1..burp[b].alloc |-> IF i <= burp[b].max THEN NUL ELSE burp[b].mem[i]]
             r == [burp[b] EXCEPT !.mem = m, !.lth = 0, !.indent = 0, !.flat = FALSE]
  <2>1. call.op = "none" /\ Assign(b, r)
    BY <1>1 DEF BurpReset, Free
  <2>2. burp[b] \in BurpT
    BY DEF RInv, IInv, TypeOK
  <2> HIDE DEF m
  <2>3. r.lth = 0 /\ r.indent = 0 /\ r.flat = FALSE
    BY <2>2 DEF BurpT
  <2> HIDE DEF r
  <2> QED BY <2>1, <2>3, Cleared
<1>2. CASE BurpClose(b)
  <2>1. call.op = "none" /\ Assign(b, Closed)
    BY <1>2 DEF BurpClose, Free
  <2>2. Closed.lth = 0 /\ Closed.indent = 0 /\ Closed.flat = FALSE
    BY DEF Closed
  <2> QED BY <2>1, <2>2, Cleared
<1> QED BY <1>1, <1>2

\* The fields other than the text.
LEMMA TextKept ==
  ASSUME RInv, NEW b \in Burps, NEW r, call.op = "none", Assign(b, r),
         r.lth = burp[b].lth, r.mem = burp[b].mem,
         NEW level, NEW on, r.indent = level, r.flat = on
  PROVE  /\ PadInv' /\ UNCHANGED TheTexts
         /\ TheLevels' = [TheLevels EXCEPT ![b] = level]
         /\ TheSwitches' = [TheSwitches EXCEPT ![b] = on]
<1>1. r.lth \in Nat
  BY DEF RInv, IInv, TypeOK, BurpT, TheTexts, TheLevels, TheSwitches
<1>2. /\ PadInv' /\ burp' = [burp EXCEPT ![b] = r]
      /\ AbstractText(b) = Prefix(burp[b], burp[b].lth)
      /\ AbstractText(b)' = Prefix(r, r.lth)
      /\ \A a \in Burps \ {b} : PadInProgress(a)' = PadInProgress(a)
  BY <1>1, Assigned
<1>3. AbstractText(b)' = AbstractText(b)
  BY <1>2 DEF Prefix
<1>4. [TheTexts EXCEPT ![b] = AbstractText(b)] = TheTexts
  BY DEF TheTexts, TheLevels, TheSwitches
<1> DEFINE txt == AbstractText(b)
<1>5. AbstractText(b)' = txt
  BY <1>3
<1> HIDE DEF txt
<1>6. /\ TheTexts' = [TheTexts EXCEPT ![b] = txt]
      /\ TheLevels' = [TheLevels EXCEPT ![b] = r.indent]
      /\ TheSwitches' = [TheSwitches EXCEPT ![b] = r.flat]
  BY <1>2, <1>5, OneText
<1> QED BY <1>2, <1>4, <1>6 DEF txt

LEMMA IndentRefines ==
  ASSUME RInv, NEW b \in Burps, Indent(b) \/ Outdent(b)
  PROVE  PadInv' /\ Abstract!Shift(b)
<1> DEFINE D == TheLevels
<1>1. burp[b] \in BurpT
  BY DEF RInv, IInv, TypeOK
<1>2. CASE Indent(b)
  <2> DEFINE n == burp[b].indent + 1
             r == [burp[b] EXCEPT !.indent = n]
  <2>1. call.op = "none" /\ Assign(b, r)
    BY <1>2 DEF Indent, Free
  <2> HIDE DEF n
  <2>2. r.indent = n /\ r.flat = burp[b].flat /\ r.lth = burp[b].lth /\ r.mem = burp[b].mem
    BY <1>1 DEF BurpT
  <2> HIDE DEF r
  <2>3. /\ PadInv' /\ UNCHANGED TheTexts
        /\ D' = [D EXCEPT ![b] = n]
        /\ TheSwitches' = [TheSwitches EXCEPT ![b] = burp[b].flat]
    BY <2>1, <2>2, TextKept
  <2>4. [TheSwitches EXCEPT ![b] = burp[b].flat] = TheSwitches
    BY DEF TheTexts, TheLevels, TheSwitches
  <2>5. D[b] + 1 = n
    BY DEF n, TheLevels
  <2> QED BY <2>3, <2>4, <2>5 DEF Abstract!Shift, TheTexts, TheLevels, TheSwitches
<1>3. CASE Outdent(b)
  <2> DEFINE n == burp[b].indent - 1
             r == [burp[b] EXCEPT !.indent = n]
  <2>1. call.op = "none" /\ Assign(b, r) /\ burp[b].indent > 0
    BY <1>3 DEF Outdent, Free
  <2> HIDE DEF n
  <2>2. r.indent = n /\ r.flat = burp[b].flat /\ r.lth = burp[b].lth /\ r.mem = burp[b].mem
    BY <1>1 DEF BurpT
  <2> HIDE DEF r
  <2>3. /\ PadInv' /\ UNCHANGED TheTexts
        /\ D' = [D EXCEPT ![b] = n]
        /\ TheSwitches' = [TheSwitches EXCEPT ![b] = burp[b].flat]
    BY <2>1, <2>2, TextKept
  <2>4. [TheSwitches EXCEPT ![b] = burp[b].flat] = TheSwitches
    BY DEF TheTexts, TheLevels, TheSwitches
  <2>5. D[b] - 1 = n /\ D[b] > 0
    BY <2>1 DEF n, TheLevels
  <2> QED BY <2>3, <2>4, <2>5 DEF Abstract!Shift, TheTexts, TheLevels, TheSwitches
<1> QED BY <1>2, <1>3

LEMMA DisableIndentRefines ==
  ASSUME RInv, NEW b \in Burps, NEW on \in BOOLEAN, DisableIndent(b, on)
  PROVE  PadInv' /\ Abstract!SetFlat(b, on)
<1> DEFINE r == [burp[b] EXCEPT !.flat = on]
<1>1. call.op = "none" /\ Assign(b, r)
  BY DEF DisableIndent, Free
<1>2. burp[b] \in BurpT
  BY DEF RInv, IInv, TypeOK
<1>3. r.indent = burp[b].indent /\ r.flat = on /\ r.lth = burp[b].lth /\ r.mem = burp[b].mem
  BY <1>2 DEF BurpT
<1> HIDE DEF r
<1>4. /\ PadInv' /\ UNCHANGED TheTexts
      /\ TheLevels' = [TheLevels EXCEPT ![b] = burp[b].indent]
      /\ TheSwitches' = [TheSwitches EXCEPT ![b] = on]
  BY <1>1, <1>3, TextKept
<1>5. [TheLevels EXCEPT ![b] = burp[b].indent] = TheLevels
  BY DEF TheTexts, TheLevels, TheSwitches
<1> QED BY <1>4, <1>5 DEF Abstract!SetFlat, TheTexts, TheLevels, TheSwitches

LEMMA SwapRefines ==
  ASSUME RInv, NEW a \in Burps, NEW b \in Burps, SwapBurps(a, b)
  PROVE  PadInv' /\ Abstract!Swap(a, b)
<1>1. call.op = "none" /\ call' = call /\ burp' = [burp EXCEPT ![a] = burp[b], ![b] = burp[a]]
  BY DEF SwapBurps, Free
<1>2. \A c \in Burps : PadInProgress(c) = 0 /\ PadInProgress(c)' = 0
  BY <1>1 DEF PadInProgress
<1> DEFINE T == [c \in Burps |-> AbstractText(c)]
           Other(c) == IF c = b THEN a ELSE IF c = a THEN b ELSE c
<1>3. ASSUME NEW c \in Burps PROVE burp'[c] = burp[Other(c)] /\ Other(c) \in Burps
  BY <1>1 DEF RInv, IInv, TypeOK
<1>4. ASSUME NEW c \in Burps PROVE AbstractText(c)' = AbstractText(Other(c))
  BY <1>2, <1>3 DEF AbstractText
<1>5. T' = [c \in Burps |-> AbstractText(Other(c))]
  BY <1>4
<1>6. T' = [T EXCEPT ![a] = T[b], ![b] = T[a]]
  BY <1>5
<1>7. /\ TheLevels' = [c \in Burps |-> burp[Other(c)].indent]
      /\ TheSwitches' = [c \in Burps |-> burp[Other(c)].flat]
  BY <1>3 DEF TheTexts, TheLevels, TheSwitches
<1>8. TheLevels'
        = [TheLevels EXCEPT ![a] = burp[b].indent, ![b] = burp[a].indent]
  BY <1>7 DEF TheTexts, TheLevels, TheSwitches
<1>9. TheSwitches'
        = [TheSwitches EXCEPT ![a] = burp[b].flat, ![b] = burp[a].flat]
  BY <1>7 DEF TheTexts, TheLevels, TheSwitches
<1> QED BY <1>1, <1>6, <1>8, <1>9 DEF Abstract!Swap, Abstract!Exchange, PadInv,
       TheTexts, TheLevels, TheSwitches

-------------------------------------------------------------------------------
LEMMA AbstractSteps ==
  ASSUME NEW b \in Burps
  PROVE  /\ (\E c \in Char : Abstract!Write(b, c)) => Abstract!Next
         /\ Abstract!Pad(b) => Abstract!Next
         /\ (\E off \in 0..Len(AbstractText(b)), s \in Texts : Abstract!Insert(b, off, s))
              => Abstract!Next
         /\ (\E n \in 0..Len(AbstractText(b)) : Abstract!Undo(b, n)) => Abstract!Next
         /\ Abstract!Trim(b) => Abstract!Next
         /\ Abstract!Clear(b) => Abstract!Next
         /\ Abstract!Shift(b) => Abstract!Next
         /\ (\E on \in BOOLEAN : Abstract!SetFlat(b, on)) => Abstract!Next
         /\ (\E a \in Burps : Abstract!Swap(a, b)) => Abstract!Next
<1>1. [a \in Burps |-> AbstractText(a)][b] = AbstractText(b)
  OBVIOUS
<1> QED BY <1>1 DEF Abstract!Next

\* The abstract buffers do what the caller or the routine does, or nothing.
LEMMA RoutineRefines ==
  ASSUME RInv, Routine
  PROVE  RInv' /\ (Abstract!Next \/ UNCHANGED Abstract!vars)
<1>1. IInv'
  BY RoutineIInv DEF RInv
<1>2. PICK b \in Burps : b = call.b
  BY DEF Routine, Indentation, PadSpace, PutChar, NothingToPut, BurpnAt, InsertGrow, InsertMove,
         RInv, IInv, TypeOK, CallT
<1>3. call'.op = "insert" => call'.todo \in Texts
  <2>1. CASE InsertGrow
    BY <2>1 DEF InsertGrow, RInv
  <2>2. CASE ~InsertGrow
    <3>1. call' = Idle \/ call.op = "burpn"
      BY <2>2 DEF Routine, Indentation, PadSpace, PutChar, NothingToPut, BurpnAt, InsertMove
    <3>2. call.op = "burpn" => call'.op # "insert"
      <4> SUFFICES ASSUME call.op = "burpn" PROVE call'.op # "insert"
        OBVIOUS
      <4>1. CASE Indentation
        BY <4>1, IndentationRefines DEF Indentation, BurpnAt, RInv, IInv, TypeOK, CallT
      <4>2. CASE PadSpace
        <5>1. call.padded \in Nat /\ call.pad \in Nat
          BY DEF RInv, IInv, TypeOK, CallT
        <5> QED BY <4>2 DEF PadSpace, RInv, IInv, TypeOK, CallT
      <4>3. CASE PutChar
        BY <1>2, <4>3 DEF PutChar, RInv, IInv, TypeOK, CallT, Idle
      <4>4. CASE NothingToPut
        BY <4>4 DEF NothingToPut, Idle
      <4> QED BY <4>1, <4>2, <4>3, <4>4, <2>2 DEF Routine, InsertMove
    <3> QED BY <3>1, <3>2 DEF Idle
  <2> QED BY <2>1, <2>2
<1>4. CASE Indentation
  BY <1>1, <1>3, <1>4, IndentationRefines DEF RInv
<1>5. CASE PadSpace
  BY <1>1, <1>2, <1>3, <1>5, PadSpaceRefines DEF RInv
<1>6. CASE PutChar
  <2>1. PadInv' /\ \E c \in Char : Abstract!Write(b, c)
    BY <1>2, <1>6, PutCharRefines
  <2> QED BY <1>1, <1>2, <1>3, <2>1, AbstractSteps DEF RInv
<1>7. CASE NothingToPut
  <2>1. PadInv' /\ Abstract!Pad(b)
    BY <1>2, <1>7, NothingToPutRefines
  <2> QED BY <1>1, <1>2, <1>3, <2>1, AbstractSteps DEF RInv
<1>8. CASE InsertGrow
  BY <1>1, <1>2, <1>3, <1>8, InsertGrowRefines DEF RInv
<1>9. CASE InsertMove
  <2>1. PadInv' /\ \E off \in 0..Len(AbstractText(b)), s \in Texts : Abstract!Insert(b, off, s)
    BY <1>2, <1>9, InsertMoveRefines
  <2> QED BY <1>1, <1>2, <1>3, <2>1, AbstractSteps DEF RInv
<1> QED BY <1>4, <1>5, <1>6, <1>7, <1>8, <1>9 DEF Routine

LEMMA CallerRefines ==
  ASSUME RInv, NEW b \in Burps, Caller(b)
  PROVE  RInv' /\ (Abstract!Next \/ UNCHANGED Abstract!vars)
<1>1. IInv'
  BY CallerIInv DEF RInv
<1>2. ASSUME Free, call' = call, PadInv' PROVE RInv'
  BY <1>1, <1>2 DEF RInv, Free
<1>3. ASSUME NEW s \in Texts, Burpn(b, s) PROVE RInv' /\ UNCHANGED Abstract!vars
  <2>1. call'.op = "burpn"
    BY <1>3 DEF Burpn
  <2>2. PadInv' /\ UNCHANGED Abstract!vars
    BY <1>3, BurpnRefines
  <2> QED BY <1>1, <2>1, <2>2 DEF RInv
<1>4. ASSUME NEW off \in 0..burp[b].lth, NEW s \in Texts, BurpInsert(b, off, s)
      PROVE  RInv' /\ UNCHANGED Abstract!vars
  <2>1. PadInv' /\ call'.todo \in Texts /\ UNCHANGED Abstract!vars
    BY <1>4, BurpInsertRefines
  <2> QED BY <1>1, <2>1 DEF RInv
<1>5. ASSUME NEW n \in 0..burp[b].lth, Undo(b, n) PROVE RInv' /\ Abstract!Next
  <2>1. PadInv' /\ n \in 0..Len(AbstractText(b)) /\ Abstract!Undo(b, n)
    BY <1>5, UndoRefines
  <2>2. RInv'
    BY <1>2, <1>5, <2>1 DEF Undo, Assign
  <2> QED BY <2>1, <2>2, AbstractSteps
<1>6. CASE BurpRtrim(b)
  <2>1. PadInv' /\ Abstract!Trim(b)
    BY <1>6, RtrimRefines
  <2>2. RInv'
    BY <1>2, <1>6, <2>1 DEF BurpRtrim, Assign
  <2> QED BY <2>1, <2>2, AbstractSteps
<1>7. CASE BurpReset(b) \/ BurpClose(b)
  <2>1. PadInv' /\ Abstract!Clear(b)
    BY <1>7, Reset
  <2>2. RInv'
    BY <1>2, <1>7, <2>1 DEF BurpReset, BurpClose, Assign
  <2> QED BY <2>1, <2>2, AbstractSteps
<1>8. CASE Indent(b) \/ Outdent(b)
  <2>1. PadInv' /\ Abstract!Shift(b)
    BY <1>8, IndentRefines
  <2>2. RInv'
    BY <1>2, <1>8, <2>1 DEF Indent, Outdent, Assign
  <2> QED BY <2>1, <2>2, AbstractSteps
<1>9. ASSUME NEW on \in BOOLEAN, DisableIndent(b, on) PROVE RInv' /\ Abstract!Next
  <2>1. PadInv' /\ Abstract!SetFlat(b, on)
    BY <1>9, DisableIndentRefines
  <2>2. RInv'
    BY <1>2, <1>9, <2>1 DEF DisableIndent, Assign
  <2> QED BY <2>1, <2>2, AbstractSteps
<1>10. ASSUME NEW a \in Burps, SwapBurps(a, b) PROVE RInv' /\ Abstract!Next
  <2>1. PadInv' /\ Abstract!Swap(a, b)
    BY <1>10, SwapRefines
  <2>2. RInv'
    BY <1>2, <1>10, <2>1 DEF SwapBurps
  <2> QED BY <2>1, <2>2, AbstractSteps
<1> QED
  BY <1>3, <1>4, <1>5, <1>6, <1>7, <1>8, <1>9, <1>10 DEF Caller

\* burp.c implements the text buffers: under all the growing, moving, copying and
\* taking back, the only texts that are seen are those of TextBuffer.
THEOREM BurpImplementsTextBuffer == Spec => ImplementsTextBuffer
<1>1. Init => RInv /\ Abstract!Init
  BY InitRInv, InitRefines
<1>2. RInv /\ [Next]_vars => RInv' /\ [Abstract!Next]_Abstract!vars
  <2> SUFFICES ASSUME RInv, [Next]_vars PROVE RInv' /\ [Abstract!Next]_Abstract!vars
    OBVIOUS
  <2>1. CASE Routine
    BY <2>1, RoutineRefines
  <2>2. ASSUME NEW b \in Burps, Caller(b) PROVE RInv' /\ [Abstract!Next]_Abstract!vars
    BY <2>2, CallerRefines
  <2>3. CASE UNCHANGED vars
    <3>1. RInv'
      BY <2>3, StutterIInv DEF RInv, PadInv, vars
    <3>2. \A a \in Burps : AbstractText(a)' = AbstractText(a)
      BY <2>3 DEF AbstractText, PadInProgress, vars
    <3>3. UNCHANGED [a \in Burps |-> AbstractText(a)]
      BY <3>2
    <3>4. UNCHANGED Abstract!vars
      BY <2>3, <3>3 DEF vars, Abstract!vars
    <3> QED BY <3>1, <3>4
  <2> QED BY <2>1, <2>2, <2>3 DEF Next
<1> QED BY <1>1, <1>2, PTL DEF Spec, ImplementsTextBuffer, Abstract!Spec
===============================================================================
