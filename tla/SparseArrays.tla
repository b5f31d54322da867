----------------------------- MODULE SparseArrays ------------------------------
(***************************************************************************)
(* What the indexed arrays of bash promise: each is a set of pairs of an   *)
(* index and a value, with one value at most for an index.                 *)
(***************************************************************************)
EXTENDS Integers, FiniteSets

CONSTANTS
  Arrays,     \* addresses that array_create may return
  Values,     \* the strings
  NULL,       \* what array_reference and array_remove return for no element
  MaxIndex    \* a bound on the indices, as in ArrayList

Indices == 0..MaxIndex

VARIABLES
  live,       \* the arrays there are
  contents,   \* their pairs
  answer      \* what array_reference or array_remove returned last

vars == <<live, contents, answer>>

Init ==
  /\ live = {}
  /\ contents = [a \in Arrays |-> {}]
  /\ answer = NULL

At(a, i) == {p \in contents[a] : p[1] = i}
Change(a, pairs) == contents' = [contents EXCEPT ![a] = pairs]

\* The value at an index, or NULL.
Answer(a, i) ==
  \/ At(a, i) = {} /\ answer' = NULL
  \/ \E p \in At(a, i) : answer' = p[2]

Create(a) == a \notin live /\ live' = live \union {a} /\ UNCHANGED <<contents, answer>>
Dispose(a) == a \in live /\ live' = live \ {a} /\ Change(a, {}) /\ UNCHANGED answer
Flush(a) == a \in live /\ Change(a, {}) /\ UNCHANGED <<live, answer>>

Insert(a, i, v) ==
  /\ a \in live
  /\ Change(a, (contents[a] \ At(a, i)) \union {<<i, v>>})
  /\ UNCHANGED <<live, answer>>

Remove(a, i) ==
  /\ a \in live
  /\ Change(a, contents[a] \ At(a, i)) /\ Answer(a, i)
  /\ UNCHANGED live

Reference(a, i) == a \in live /\ Answer(a, i) /\ UNCHANGED <<live, contents>>

\* The pairs after the first n, and pairs moved by n indices.
Rank(a, p) == Cardinality({q \in contents[a] : q[1] < p[1]})
Moved(pairs, n) == {<<p[1] + n, p[2]>> : p \in pairs}

Shift(a, n) ==
  /\ a \in live
  /\ Change(a, Moved({p \in contents[a] : Rank(a, p) >= n}, -n))
  /\ UNCHANGED <<live, answer>>

\* A new value 0, or none; an empty array takes its new value whatever n is.
RShift(a, n, new) ==
  /\ a \in live
  /\ Change(a, Moved(contents[a], n) \union new)
  /\ UNCHANGED <<live, answer>>

Next ==
  \E a \in Arrays :
    \/ Create(a) \/ Dispose(a) \/ Flush(a)
    \/ \E i \in Indices : Remove(a, i) \/ Reference(a, i)
    \/ \E i \in Indices, v \in Values : Insert(a, i, v)
    \/ \E n \in Indices \ {0} : Shift(a, n) \/ RShift(a, n, {})
    \/ \E n \in Indices \ {0}, v \in Values : RShift(a, n, {<<0, v>>})

Spec == Init /\ [][Next]_vars
================================================================================
