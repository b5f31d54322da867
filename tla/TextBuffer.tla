------------------------------ MODULE TextBuffer ------------------------------
(***************************************************************************)
(* What a "burp" (the growable, auto-indenting string buffer of burp.c)    *)
(* promises its callers, with no memory in sight: a text, an indentation   *)
(* depth and a switch that suppresses the indentation (here documents).    *)
(* Burp.tla implements it.                                                 *)
(***************************************************************************)
EXTENDS Naturals, Sequences

CONSTANTS
  Burps,        \* the buffers of the program (g_output, g_buffer, g_new, ...)
  Char,         \* the characters that are told apart
  Texts,        \* the strings callers insert
  NL, SP,       \* newline and space
  IndentUnit    \* spaces per indentation level

VARIABLES
  text,         \* [Burps -> Seq(Char)]: what has been written and not undone
  depth,        \* [Burps -> Nat]: the indentation level
  flat          \* [Burps -> BOOLEAN]: indentation suppressed

vars == <<text, depth, flat>>

Spaces(n) == [i \in 1..n |-> SP]

AtLineStart(s) == s # <<>> /\ s[Len(s)] = NL

\* A character written at the start of a line is preceded by the indentation;
\* the first line of a buffer is not indented.
Padding(b) ==
  IF AtLineStart(text[b]) /\ ~flat[b] THEN Spaces(IndentUnit * depth[b]) ELSE <<>>

Init ==
  /\ text = [b \in Burps |-> <<>>]
  /\ depth = [b \in Burps |-> 0]
  /\ flat = [b \in Burps |-> FALSE]

Write(b, c) ==
  /\ text' = [text EXCEPT ![b] = @ \o Padding(b) \o <<c>>]
  /\ UNCHANGED <<depth, flat>>

\* An empty string written at the start of a line leaves its indentation there.
Pad(b) ==
  /\ text' = [text EXCEPT ![b] = @ \o Padding(b)]
  /\ UNCHANGED <<depth, flat>>

Insert(b, off, s) ==
  /\ off \in 0..Len(text[b])
  /\ text' = [text EXCEPT ![b] = SubSeq(@, 1, off) \o s \o SubSeq(@, off + 1, Len(@))]
  /\ UNCHANGED <<depth, flat>>

\* Emission is undone by going back to an earlier length.
Undo(b, n) ==
  /\ n \in 0..Len(text[b])
  /\ text' = [text EXCEPT ![b] = SubSeq(@, 1, n)]
  /\ UNCHANGED <<depth, flat>>

\* Trailing spaces, and nothing else, are removed.
Trim(b) ==
  /\ \E n \in 0..Len(text[b]) :
       /\ \A i \in (n + 1)..Len(text[b]) : text[b][i] = SP
       /\ n > 0 => text[b][n] # SP
       /\ text' = [text EXCEPT ![b] = SubSeq(@, 1, n)]
  /\ UNCHANGED <<depth, flat>>

Clear(b) ==
  /\ text' = [text EXCEPT ![b] = <<>>]
  /\ depth' = [depth EXCEPT ![b] = 0]
  /\ flat' = [flat EXCEPT ![b] = FALSE]

Shift(b) ==
  /\ \/ depth' = [depth EXCEPT ![b] = @ + 1]
     \/ depth[b] > 0 /\ depth' = [depth EXCEPT ![b] = @ - 1]
  /\ UNCHANGED <<text, flat>>

SetFlat(b, on) ==
  /\ flat' = [flat EXCEPT ![b] = on]
  /\ UNCHANGED <<text, depth>>

Exchange(f, a, b) == [f EXCEPT ![a] = f[b], ![b] = f[a]]

Swap(a, b) ==
  /\ text' = Exchange(text, a, b)
  /\ depth' = Exchange(depth, a, b)
  /\ flat' = Exchange(flat, a, b)

Next ==
  \E b \in Burps :
    \/ \E c \in Char : Write(b, c)
    \/ Pad(b)
    \/ \E off \in 0..Len(text[b]), s \in Texts : Insert(b, off, s)
    \/ \E n \in 0..Len(text[b]) : Undo(b, n)
    \/ Trim(b)
    \/ Clear(b)
    \/ Shift(b)
    \/ \E on \in BOOLEAN : SetFlat(b, on)
    \/ \E a \in Burps : Swap(a, b)

Spec == Init /\ [][Next]_vars
===============================================================================
