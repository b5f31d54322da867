--------------------------------- MODULE Burp ---------------------------------
(***************************************************************************)
(* burp.c: the growable string buffers through which bash2py emits Python. *)
(* A buffer is a malloc'ed block (mem), the number of characters written   *)
(* (m_lth), the capacity (m_max, Slack less than the block) and the        *)
(* indentation state.  One action is one step of a buffer routine, so the  *)
(* growth loop of burp_insert and the padding loop of indentation() are    *)
(* executed one iteration at a time; call is the routine in progress.      *)
(*                                                                         *)
(* Callers also undo what they emitted by assigning an earlier value to    *)
(* m_lth, which leaves the characters (and the old NUL) behind in memory.  *)
(***************************************************************************)
EXTENDS Naturals, Sequences

CONSTANTS
  Burps,        \* the buffers of the program
  Char,         \* the characters that are told apart
  Texts,        \* the strings callers pass
  NL, SP,       \* newline and space, two members of Char
  NUL,          \* the terminator
  Junk,         \* what malloc and realloc leave in fresh memory
  FirstAlloc,   \* size of the first block: 1024
  Slack,        \* what m_max keeps in reserve: 8
  IndentUnit,   \* spaces per indentation level: 4
  MaxLth,       \* bound: no call is made that would leave more characters
  MaxIndent     \* bound on the indentation level

ASSUME CharsDiffer ==
  /\ NL \in Char /\ SP \in Char /\ NL # SP
  /\ NUL \notin Char /\ Junk \notin Char /\ NUL # Junk
ASSUME TextsAreStrings == Texts \subseteq Seq(Char)
ASSUME SizesAreNat ==
  /\ Slack \in Nat /\ FirstAlloc \in Nat
  /\ IndentUnit \in Nat /\ MaxLth \in Nat /\ MaxIndent \in Nat
\* 1024 and 8 satisfy it with a wide margin; doubling must gain at least two.
ASSUME FirstBlockIsLargeEnough ==
  FirstAlloc >= 2 * Slack + 1 /\ FirstAlloc >= Slack + 2

VARIABLES
  burp,         \* [Burps -> burpT]
  call          \* the buffer routine being executed

vars == <<burp, call>>

Cell == Char \union {NUL, Junk}

\* burpT after memset(burpP, 0, sizeof(burpT)); alloc = 0 says m_P is NULL.
Closed ==
  [alloc |-> 0, mem |-> [i \in 1..0 |-> NUL], lth |-> 0, max |-> 0, indent |-> 0, flat |-> FALSE]

Idle == [op |-> "none"]
Free == call.op = "none"

Init ==
  /\ burp = [b \in Burps |-> Closed]
  /\ call = Idle

(***************************************************************************)
(* Memory is indexed from 1: mem[i] is m_P[i - 1].                         *)
(***************************************************************************)
Fresh(size) == [i \in 1..size |-> Junk]

Realloc(mem, size) ==
  [i \in 1..size |-> IF i \in DOMAIN mem THEN mem[i] ELSE Junk]

\* increase_burp
Increased(r) ==
  IF r.alloc = 0
  THEN [r EXCEPT !.alloc = FirstAlloc, !.mem = Fresh(FirstAlloc),
                 !.lth = 0, !.max = FirstAlloc - Slack]
  ELSE [r EXCEPT !.alloc = 2 * r.max, !.mem = Realloc(r.mem, 2 * r.max),
                 !.max = 2 * r.max - Slack]

\* Mutant: room for the character only.
WithRoomForChar(r) == IF r.max < r.lth + 1 THEN Increased(r) ELSE r

\* burpc1: grow once if there is no room for the character and its NUL
WithRoom(r) == IF r.max < r.lth + 2 THEN Increased(r) ELSE r

\* Mutant: the text is not terminated.
Burpc1Unterminated(r, c) ==
  LET g == WithRoom(r)
  IN [g EXCEPT !.mem = [@ EXCEPT ![g.lth + 1] = c], !.lth = @ + 1]

Burpc1(r, c) ==
  LET g == WithRoom(r)
  IN [g EXCEPT !.mem = [@ EXCEPT ![g.lth + 1] = c, ![g.lth + 2] = NUL],
               !.lth = @ + 1]

AtLineStart(r) == r.lth > 0 /\ r.mem[r.lth] = NL

Text(r) == [i \in 1..r.lth |-> r.mem[i]]

(***************************************************************************)
(* burp / burps / burpn / burpc: one character after the other, each       *)
(* preceded by indentation().  todo is what is left to write, pad the      *)
(* spaces that indentation() still owes, padded those it has written.      *)
(* burp and burpn also call indentation() before the loop, which leaves    *)
(* nothing to do to the call burpc makes for the first character, and is   *)
(* all that burp does when its format expands to nothing.                  *)
(***************************************************************************)
Burpn(b, s) ==
  /\ Free
  /\ LET lines == IF s = <<>> THEN 1 ELSE Len(s)
     IN  burp[b].lth + Len(s) + lines * IndentUnit * burp[b].indent <= MaxLth
  /\ call' = [op |-> "burpn", b |-> b, todo |-> s, pc |-> "indentation",
              pad |-> 0, padded |-> 0]
  /\ UNCHANGED burp

BurpnAt(pc) == call.op = "burpn" /\ call.pc = pc

Indentation ==
  /\ BurpnAt("indentation")
  /\ LET r == burp[call.b]
     IN call' = [call EXCEPT !.pc = "write", !.padded = 0,
                   !.pad = IF AtLineStart(r) /\ ~r.flat THEN IndentUnit * r.indent ELSE 0]
  /\ UNCHANGED burp

PadSpace ==
  /\ BurpnAt("write") /\ call.pad > 0
  /\ burp' = [burp EXCEPT ![call.b] = Burpc1(@, SP)]
  /\ call' = [call EXCEPT !.pad = @ - 1, !.padded = @ + 1]

PutChar ==
  /\ BurpnAt("write") /\ call.pad = 0 /\ call.todo # <<>>
  /\ burp' = [burp EXCEPT ![call.b] = Burpc1(@, Head(call.todo))]
  /\ call' = IF Tail(call.todo) = <<>> THEN Idle
             ELSE [call EXCEPT !.pc = "indentation", !.todo = Tail(@), !.padded = 0]

NothingToPut ==
  /\ BurpnAt("write") /\ call.pad = 0 /\ call.todo = <<>>
  /\ call' = Idle
  /\ UNCHANGED burp

(***************************************************************************)
(* burp_insert, and burp_extend, which inserts at the end: the loop that   *)
(* grows the block, then memmove, memcpy and the NUL.                      *)
(***************************************************************************)
BurpInsert(b, off, s) ==
  /\ Free
  /\ off \in 0..burp[b].lth
  /\ burp[b].lth + Len(s) <= MaxLth
  /\ call' = [op |-> "insert", b |-> b, off |-> off, todo |-> s]
  /\ UNCHANGED burp

Fits(r, s) == r.max > r.lth + Len(s)

\* Mutant: only the first block is allocated.
InsertGrowOnce ==
  /\ call.op = "insert"
  /\ ~Fits(burp[call.b], call.todo)
  /\ burp' = [burp EXCEPT ![call.b] = IF @.alloc = 0 THEN Increased(@) ELSE @]
  /\ UNCHANGED call

InsertGrow ==
  /\ call.op = "insert"
  /\ ~Fits(burp[call.b], call.todo)
  /\ burp' = [burp EXCEPT ![call.b] = Increased(@)]
  /\ UNCHANGED call

\* Mutant: memcpy without memmove.
InsertedOver(r, off, s) ==
  [r EXCEPT
     !.mem = [i \in 1..r.alloc |->
                IF off < i /\ i <= off + Len(s) THEN s[i - off]
                ELSE IF i = r.lth + Len(s) + 1 THEN NUL ELSE r.mem[i]],
     !.lth = @ + Len(s)]

Inserted(r, off, s) ==
  [r EXCEPT
     !.mem = [i \in 1..r.alloc |->
                IF i <= off THEN r.mem[i]
                ELSE IF i <= off + Len(s) THEN s[i - off]
                ELSE IF i <= r.lth + Len(s) THEN r.mem[i - Len(s)]
                ELSE IF i = r.lth + Len(s) + 1 THEN NUL ELSE r.mem[i]],
     !.lth = @ + Len(s)]

InsertMove ==
  /\ call.op = "insert"
  /\ Fits(burp[call.b], call.todo)
  /\ burp' = [burp EXCEPT ![call.b] = Inserted(@, call.off, call.todo)]
  /\ call' = Idle

(***************************************************************************)
(* The routines that do not loop, and what callers do to the fields.       *)
(***************************************************************************)
Assign(b, r) == burp' = [burp EXCEPT ![b] = r] /\ UNCHANGED call

\* "X.m_lth = offset": an emission is taken back
Undo(b, n) ==
  /\ Free
  /\ n \in 0..burp[b].lth
  /\ Assign(b, [burp[b] EXCEPT !.lth = n])

BurpRtrim(b) ==
  /\ Free
  /\ \E n \in 0..burp[b].lth :
       /\ n > 0 => burp[b].mem[n] # SP
       /\ \A i \in (n + 1)..burp[b].lth : burp[b].mem[i] = SP
       /\ Assign(b, [burp[b] EXCEPT !.lth = n])

BurpReset(b) ==
  /\ Free
  /\ Assign(b, [burp[b] EXCEPT
                  !.mem = [i \in 1..burp[b].alloc |-> IF i <= burp[b].max THEN NUL ELSE @[i]],
                  !.lth = 0, !.indent = 0, !.flat = FALSE])

BurpClose(b) == Free /\ Assign(b, Closed)

Indent(b) ==
  /\ Free /\ burp[b].indent < MaxIndent
  /\ Assign(b, [burp[b] EXCEPT !.indent = @ + 1])

\* Mutant: no assertion.
OutdentAnyway(b) == Free /\ Assign(b, [burp[b] EXCEPT !.indent = @ - 1])

\* OUTDENT asserts that there is a level to leave.
Outdent(b) ==
  /\ Free /\ burp[b].indent > 0
  /\ Assign(b, [burp[b] EXCEPT !.indent = @ - 1])

DisableIndent(b, on) == Free /\ Assign(b, [burp[b] EXCEPT !.flat = on])

\* Mutant: the indentation level is not exchanged.
SwapTexts(a, b) ==
  /\ Free
  /\ burp' = [burp EXCEPT ![a] = [burp[b] EXCEPT !.indent = burp[a].indent],
                         ![b] = [burp[a] EXCEPT !.indent = burp[b].indent]]
  /\ UNCHANGED call

SwapBurps(a, b) ==
  /\ Free
  /\ burp' = [burp EXCEPT ![a] = burp[b], ![b] = burp[a]]
  /\ UNCHANGED call

Caller(b) ==
  \/ \E s \in Texts : Burpn(b, s)
  \/ \E off \in 0..burp[b].lth, s \in Texts : BurpInsert(b, off, s)
  \/ \E n \in 0..burp[b].lth : Undo(b, n)
  \/ BurpRtrim(b) \/ BurpReset(b) \/ BurpClose(b)
  \/ Indent(b) \/ Outdent(b)
  \/ \E on \in BOOLEAN : DisableIndent(b, on)
  \/ \E a \in Burps : SwapBurps(a, b)

Routine == Indentation \/ PadSpace \/ PutChar \/ NothingToPut \/ InsertGrow \/ InsertMove

Next == Routine \/ \E b \in Burps : Caller(b)

Spec == Init /\ [][Next]_vars

\* A routine that has been called runs: the program is one thread.
FairSpec == Spec /\ WF_vars(Routine)

-------------------------------------------------------------------------------
(***************************************************************************)
(* Invariants                                                              *)
(***************************************************************************)
BurpT ==
  [alloc : Nat, mem : Seq(Cell), lth : Nat, max : Nat, indent : Nat, flat : BOOLEAN]

CallT ==
  [op : {"none"}]
  \union [op : {"burpn"}, b : Burps, todo : Seq(Char),
          pc : {"indentation", "write"}, pad : Nat, padded : Nat]
  \union [op : {"insert"}, b : Burps, off : Nat, todo : Seq(Char)]

\* Every buffer is a burpT whose block has the size that was allocated, and
\* the routine in progress has well-formed arguments (burp_insert's assertion
\* on the offset still holds when it moves the text).
TypeOK ==
  /\ burp \in [Burps -> BurpT]
  /\ \A b \in Burps : Len(burp[b].mem) = burp[b].alloc
  /\ call \in CallT
  /\ call.op = "insert" => call.off <= burp[call.b].lth

\* burpc's own assertion, and more: a buffer with a block always has room for
\* the text and its NUL, and the reserve of the block is never touched; a
\* buffer without one is empty.  Hence every write of burpc1 and burp_insert
\* is inside the block, although burpc1 grows it at most once.
Capacity ==
  \A b \in Burps :
    \/ burp[b].alloc = 0 /\ burp[b].lth = 0 /\ burp[b].max = 0
    \/ burp[b].lth < burp[b].max /\ burp[b].max + Slack = burp[b].alloc

\* However emissions were undone, reading m_P as a C string (close_translator's
\* fputs, print_function_def's burps of the saved body) stops inside the block,
\* at or after the end of the text.
StringEndsInBlock ==
  \A b \in Burps :
    burp[b].alloc > 0 /\ ~(call.op = "insert" /\ call.b = b) =>
      \E k \in (burp[b].lth + 1)..burp[b].alloc : burp[b].mem[k] = NUL

\* Whatever was inserted, undone or exchanged, nothing is written or read outside
\* the block of a buffer.
MemorySafe == TypeOK /\ Capacity /\ StringEndsInBlock

(***************************************************************************)
(* Properties                                                              *)
(***************************************************************************)
\* The text the abstract buffer holds: the spaces indentation() has written
\* for a character still to come are not in it yet.
PadInProgress(b) == IF call.op = "burpn" /\ call.b = b THEN call.padded ELSE 0

AbstractText(b) == [i \in 1..(burp[b].lth - PadInProgress(b)) |-> burp[b].mem[i]]

Abstract == INSTANCE TextBuffer WITH
  text <- [b \in Burps |-> AbstractText(b)],
  depth <- [b \in Burps |-> burp[b].indent],
  flat <- [b \in Burps |-> burp[b].flat]

\* Under all the reallocation, moving and undoing, a buffer behaves as an
\* indented text: burpn, burp_insert, burp_rtrim and swap_burps do exactly
\* what the abstract operations say and nothing else ever changes the text.
ImplementsTextBuffer == Abstract!Spec

\* A routine that was called returns: the growth loop of burp_insert and the
\* padding loop of indentation() end.
CallsReturn == ~Free ~> Free
===============================================================================
