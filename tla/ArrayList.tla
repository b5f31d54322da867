------------------------------- MODULE ArrayList -------------------------------
(***************************************************************************)
(* array.c: an indexed array is a ring of elements in the order of their   *)
(* indices, closed by a head whose index is -1, with its number of         *)
(* elements and its greatest index beside it.                              *)
(*                                                                         *)
(* lastref remembers where the last access was, in lastarray, so that the  *)
(* next need not begin at the head.  It is one pair for all arrays, and    *)
(* elements and arrays are freed and allocated again at the same address:  *)
(* an operation that forgets to move it leaves a search to begin in memory *)
(* of something else.                                                      *)
(*                                                                         *)
(* Searches go element by element; one operation runs at a time.  The      *)
(* strings of an element are values, the head of an array is the array.    *)
(***************************************************************************)
EXTENDS Integers, FiniteSets

CONSTANTS Arrays, Elements, Values, NULL, MaxIndex

ASSUME ArrayListAssumption ==
  /\ MaxIndex \in Nat /\ NULL \notin Values \union Arrays
  /\ Arrays \intersect Elements = {} /\ IsFiniteSet(Elements)

Indices == 0..MaxIndex

VARIABLES
  live,                     \* the arrays there are
  owner,                    \* the array of an element; NULL when it is free
  ind, value, next, prev,   \* of elements, and of heads
  num_elements, max_index,  \* of arrays
  lastarray, lastref,
  call,                     \* the operation whose search goes on
  array, index, string,     \* its arguments
  ae, steps,                \* its loop variables
  answer,                   \* what array_reference or array_remove returned last
  problem                   \* array_insert has returned -1

links == <<next, prev>>
elements == <<owner, ind, value, links>>
arrays == <<live, num_elements, max_index>>
lastrefs == <<lastarray, lastref>>
arguments == <<array, index, string>>
locals == <<call, arguments, ae, steps>>
results == <<answer, problem>>
vars == <<arrays, elements, lastrefs, locals, results>>

Addresses == Elements \union Arrays

Init ==
  /\ live = {}
  /\ owner = [e \in Elements |-> NULL]
  /\ ind = [n \in Addresses |-> -1]
  /\ value = [e \in Elements |-> NULL]
  /\ next = [n \in Addresses |-> n] /\ prev = [n \in Addresses |-> n]
  /\ num_elements = [a \in Arrays |-> 0] /\ max_index = [a \in Arrays |-> -1]
  /\ lastarray = NULL /\ lastref = NULL
  /\ call = "none" /\ array = NULL /\ index = 0 /\ string = NULL
  /\ ae = NULL /\ steps = 0
  /\ answer = NULL /\ problem = FALSE

Owned(a) == {e \in Elements : owner[e] = a}
Nodes(a) == Owned(a) \union {a}
Free == {e \in Elements : owner[e] = NULL}

(***************************************************************************)
(* lastref                                                                 *)
(***************************************************************************)
LastrefStart(a, i) == IF lastarray = a /\ i >= ind[lastref] THEN lastref ELSE next[a]
SetLastref(a, e) == lastarray' = a /\ lastref' = e
UnsetLastref == lastarray' = NULL /\ lastref' = NULL

InvalidateLastrefNot(a) == UNCHANGED lastrefs
InvalidateLastref(a) ==
  IF lastarray = a THEN UnsetLastref ELSE UNCHANGED lastrefs

(***************************************************************************)
(* Whole arrays                                                            *)
(***************************************************************************)
Idle == call = "none"
UnchangedCall == UNCHANGED <<locals, results>>

array_create(a) ==
  /\ Idle /\ a \notin live
  /\ live' = live \union {a}
  /\ num_elements' = [num_elements EXCEPT ![a] = 0] /\ max_index' = [max_index EXCEPT ![a] = -1]
  /\ ind' = [ind EXCEPT ![a] = -1]
  /\ next' = [next EXCEPT ![a] = a] /\ prev' = [prev EXCEPT ![a] = a]
  /\ UnchangedCall /\ UNCHANGED <<owner, value, lastrefs>>

\* array_dispose_element for some elements.  What their memory holds afterwards
\* is arbitrary; here it is what it was in the beginning.
Dispose(freed) ==
  /\ owner' = [e \in Elements |-> IF e \in freed THEN NULL ELSE owner[e]]
  /\ value' = [e \in Elements |-> IF e \in freed THEN NULL ELSE value[e]]
Relinked(link, freed) == [n \in Addresses |-> IF n \in freed THEN n ELSE link[n]]

\* The elements of an array are freed, and it is empty.
Emptied(a) ==
  /\ Dispose(Owned(a))
  /\ ind' = [n \in Addresses |-> IF n \in Owned(a) THEN -1 ELSE ind[n]]
  /\ next' = Relinked(next, Nodes(a)) /\ prev' = Relinked(prev, Nodes(a))
  /\ num_elements' = [num_elements EXCEPT ![a] = 0] /\ max_index' = [max_index EXCEPT ![a] = -1]

array_flush(a) ==
  /\ Idle /\ a \in live
  /\ Emptied(a) /\ InvalidateLastref(a)
  /\ UnchangedCall /\ UNCHANGED live

array_dispose_head(a) == Idle /\ a \in live /\ live' = live \ {a} /\ InvalidateLastref(a) /\ UnchangedCall
  /\ UNCHANGED <<elements, num_elements, max_index>>

array_dispose(a) ==
  /\ Idle /\ a \in live
  /\ Emptied(a) /\ InvalidateLastref(a) /\ live' = live \ {a}
  /\ UnchangedCall

(***************************************************************************)
(* array_insert                                                            *)
(***************************************************************************)
AddBeforeTooSoon(a, n, new, v) ==
  /\ owner' = [owner EXCEPT ![new] = a] /\ value' = [value EXCEPT ![new] = v]
  /\ next' = [next EXCEPT ![new] = n] /\ prev' = [prev EXCEPT ![n] = new, ![new] = prev[n]]
  /\ num_elements' = [num_elements EXCEPT ![a] = @ + 1]
AddBeforeUncounted(a, n, new, v) ==
  /\ owner' = [owner EXCEPT ![new] = a] /\ value' = [value EXCEPT ![new] = v]
  /\ next' = [next EXCEPT ![prev[n]] = new, ![new] = n]
  /\ prev' = [prev EXCEPT ![n] = new, ![new] = prev[n]]
  /\ UNCHANGED num_elements

\* array_create_element and ADD_BEFORE, into array a before node n.
AddBefore(a, n, new, v) ==
  /\ owner' = [owner EXCEPT ![new] = a]
  /\ value' = [value EXCEPT ![new] = v]
  /\ next' = [next EXCEPT ![prev[n]] = new, ![new] = n]
  /\ prev' = [prev EXCEPT ![n] = new, ![new] = prev[n]]
  /\ num_elements' = [num_elements EXCEPT ![a] = @ + 1]

insert_at_end_or_at(a, i, v) ==
  /\ Idle /\ a \in live /\ i >= max_index[a]
  /\ \E new \in Free :
       AddBefore(a, a, new, v) /\ ind' = [ind EXCEPT ![new] = i] /\ SetLastref(a, new)
  /\ max_index' = [max_index EXCEPT ![a] = i]
  /\ UnchangedCall /\ UNCHANGED live

insert_at_end(a, i, v) ==
  /\ Idle /\ a \in live /\ i > max_index[a]
  /\ \E new \in Free :
       /\ AddBefore(a, a, new, v) /\ ind' = [ind EXCEPT ![new] = i]
       /\ SetLastref(a, new)
  /\ max_index' = [max_index EXCEPT ![a] = i]
  /\ UnchangedCall /\ UNCHANGED live

\* A search begins at lastref or at the first element.
Search(name, a, i, v) ==
  /\ call' = name /\ array' = a /\ index' = i /\ string' = v
  /\ ae' = LastrefStart(a, i)
  /\ UNCHANGED <<arrays, elements, lastrefs, steps, results>>

array_insert_searches(a, i, v) == Idle /\ a \in live /\ Free # {} /\ Search("insert", a, i, v)
array_insert(a, i, v) == Idle /\ a \in live /\ i <= max_index[a] /\ Free # {} /\ Search("insert", a, i, v)

\* The locals are gone when an operation returns.
Return ==
  /\ call' = "none" /\ array' = NULL /\ index' = 0 /\ string' = NULL
  /\ ae' = NULL /\ steps' = 0
Searching(name) == call = name /\ ae # array

search_next_round ==
  /\ call \in {"insert", "remove", "reference"}
  /\ ind[ae] # index /\ (call = "insert" => ind[ae] < index)
  /\ ae' = next[ae]
  /\ UNCHANGED <<arrays, elements, lastrefs, call, arguments, steps, results>>

\* insert stops at the first greater index; the others go on to the end.
search_next ==
  /\ call \in {"insert", "remove", "reference"} /\ ae # array
  /\ ind[ae] # index /\ (call = "insert" => ind[ae] < index)
  /\ ae' = next[ae]
  /\ UNCHANGED <<arrays, elements, lastrefs, call, arguments, steps, results>>

insert_replaces ==
  /\ Searching("insert") /\ ind[ae] = index
  /\ value' = [value EXCEPT ![ae] = string]
  /\ SetLastref(array, ae)
  /\ Return /\ UNCHANGED <<arrays, owner, ind, links, results>>

insert_before ==
  /\ Searching("insert") /\ ind[ae] > index
  /\ \E new \in Free :
       /\ AddBefore(array, ae, new, string) /\ ind' = [ind EXCEPT ![new] = index]
       /\ SetLastref(array, new)
  /\ Return /\ UNCHANGED <<live, max_index, results>>

(***************************************************************************)
(* array_remove and array_reference                                        *)
(***************************************************************************)
array_remove(a, i) == Idle /\ a \in live /\ num_elements[a] # 0 /\ Search("remove", a, i, NULL)

remove_found ==
  /\ Searching("remove") /\ ind[ae] = index
  /\ next' = [next EXCEPT ![prev[ae]] = next[ae], ![ae] = ae]
  /\ prev' = [prev EXCEPT ![next[ae]] = prev[ae], ![ae] = ae]
  /\ ind' = [ind EXCEPT ![ae] = -1]
  /\ Dispose({ae})
  /\ num_elements' = [num_elements EXCEPT ![array] = @ - 1]
  /\ max_index' = IF index = max_index[array] THEN [max_index EXCEPT ![array] = ind[prev[ae]]] ELSE max_index
  /\ IF next[ae] # array THEN SetLastref(array, next[ae])
     ELSE IF prev[ae] # array THEN SetLastref(array, prev[ae])
     ELSE InvalidateLastref(array)
  /\ answer' = value[ae]
  /\ Return /\ UNCHANGED <<live, problem>>

answer_none_for_last(a, i) ==
  /\ Idle /\ a \in live /\ (num_elements[a] = 0 \/ i >= max_index[a])
  /\ answer' = NULL
  /\ UNCHANGED <<arrays, elements, lastrefs, locals, problem>>

\* Neither has anything to do for an empty array or beyond the greatest index.
answer_none(a, i) ==
  /\ Idle /\ a \in live /\ (num_elements[a] = 0 \/ i > max_index[a])
  /\ answer' = NULL
  /\ UNCHANGED <<arrays, elements, lastrefs, locals, problem>>

array_reference(a, i) ==
  /\ Idle /\ a \in live /\ num_elements[a] # 0 /\ i <= max_index[a]
  /\ Search("reference", a, i, NULL)

reference_found ==
  /\ Searching("reference") /\ ind[ae] = index
  /\ answer' = value[ae] /\ SetLastref(array, ae)
  /\ Return /\ UNCHANGED <<arrays, elements, problem>>

\* A search ends at the head.
search_fails ==
  /\ call \in {"insert", "remove", "reference"} /\ ae = array
  /\ problem' = (problem \/ call = "insert")
  /\ answer' = IF call = "insert" THEN answer ELSE NULL
  /\ CASE call = "insert" -> InvalidateLastref(array)
       [] call = "reference" -> UnsetLastref
       [] OTHER -> UNCHANGED lastrefs
  /\ Return /\ UNCHANGED <<arrays, elements>>

(***************************************************************************)
(* array_shift and array_rshift                                            *)
(***************************************************************************)
array_shift(a, n) ==
  /\ Idle /\ a \in live /\ num_elements[a] # 0
  /\ InvalidateLastref(a)
  /\ call' = "shift" /\ array' = a /\ index' = n
  /\ ae' = next[a] /\ steps' = 0
  /\ UNCHANGED <<arrays, elements, string, results>>

shift_next ==
  /\ Searching("shift") /\ steps < index
  /\ ae' = next[ae] /\ steps' = steps + 1
  /\ UNCHANGED <<arrays, elements, lastrefs, call, arguments, results>>

shift_all ==
  /\ call = "shift" /\ ae = array
  /\ Emptied(array)
  /\ Return /\ UNCHANGED <<live, lastrefs, results>>

\* The elements before ae are cut off (and freed), the others renumbered.
Dropped == {e \in Owned(array) : ind[e] < ind[ae]}

shift_some ==
  /\ Searching("shift") /\ steps = index
  /\ Dispose(Dropped)
  /\ next' = [Relinked(next, Dropped) EXCEPT ![array] = ae]
  /\ prev' = [Relinked(prev, Dropped) EXCEPT ![ae] = array]
  /\ ind' = [n \in Addresses |-> IF n \in Dropped THEN -1 ELSE IF n \in Owned(array) THEN ind[n] - index ELSE ind[n]]
  /\ num_elements' = [num_elements EXCEPT ![array] = @ - index]
  /\ max_index' = [max_index EXCEPT ![array] = ind'[prev'[array]]]
  /\ Return /\ UNCHANGED <<live, lastrefs, results>>

Renumbered(a, n) == [x \in Addresses |-> IF x \in Owned(a) THEN ind[x] + n ELSE ind[x]]

\* Without a string; an empty array stays as it is.
rshift_null(a, n) ==
  /\ Idle /\ a \in live /\ num_elements[a] # 0 /\ max_index[a] + n <= MaxIndex
  /\ ind' = Renumbered(a, n)
  /\ max_index' = [max_index EXCEPT ![a] = ind'[prev[a]]]
  /\ InvalidateLastref(a)
  /\ UnchangedCall /\ UNCHANGED <<live, num_elements, owner, value, links>>

rshift_empty(a, n, v) ==
  /\ Idle /\ a \in live /\ num_elements[a] = 0
  /\ \E new \in Free :
       AddBefore(a, next[a], new, v) /\ ind' = [ind EXCEPT ![new] = 0]
  /\ max_index' = [max_index EXCEPT ![a] = 0]
  /\ UnchangedCall /\ UNCHANGED <<live, lastrefs>>

array_rshift(a, n, v) ==
  /\ Idle /\ a \in live /\ num_elements[a] # 0 /\ max_index[a] + n <= MaxIndex
  /\ \E new \in Free :
       AddBefore(a, next[a], new, v) /\ ind' = [Renumbered(a, n) EXCEPT ![new] = 0]
  /\ max_index' = [max_index EXCEPT ![a] = ind'[prev'[a]]]
  /\ InvalidateLastref(a)
  /\ UnchangedCall /\ UNCHANGED live

(***************************************************************************)
(* Specification                                                           *)
(***************************************************************************)
Shifts == Indices \ {0}

Begin ==
  \E a \in Arrays :
    \/ array_create(a) \/ array_flush(a) \/ array_dispose(a)
    \/ \E i \in Indices : array_remove(a, i) \/ array_reference(a, i) \/ answer_none(a, i)
    \/ \E i \in Indices, v \in Values : insert_at_end(a, i, v) \/ array_insert(a, i, v)
    \/ \E n \in Shifts : array_shift(a, n) \/ rshift_null(a, n)
    \/ \E n \in Shifts, v \in Values : rshift_empty(a, n, v) \/ array_rshift(a, n, v)

Continue ==
  \/ search_next \/ search_fails \/ insert_replaces \/ insert_before \/ remove_found \/ reference_found
  \/ shift_next \/ shift_all \/ shift_some

Next == Begin \/ Continue

Spec == Init /\ [][Next]_vars

\* An operation that has begun runs on; nobody has to begin one.
FairSpec == Spec /\ WF_vars(Continue)

(***************************************************************************)
(* Invariants.  Each is about a single link, so that no property speaks of *)
(* reachability: in a ring that is ordered, without gaps, and closed under *)
(* next and prev, the elements are those that a walk from the head visits. *)
(***************************************************************************)
\* The state is of the right type.
TypeOK ==
  /\ live \in SUBSET Arrays /\ owner \in [Elements -> live \union {NULL}]
  /\ ind \in [Addresses -> Indices \union {-1}] /\ value \in [Elements -> Values \union {NULL}]
  /\ next \in [Addresses -> Addresses] /\ prev \in [Addresses -> Addresses]
  /\ num_elements \in [Arrays -> Nat] /\ max_index \in [Arrays -> Indices \union {-1}]
  /\ lastarray \in Arrays \union {NULL} /\ lastref \in Elements \union {NULL}
  /\ call \in {"none", "insert", "remove", "reference", "shift"}
  /\ array \in Arrays \union {NULL} /\ index \in Indices /\ string \in Values \union {NULL}
  /\ ae \in Addresses \union {NULL} /\ steps \in Nat
  /\ answer \in Values \union {NULL} /\ problem \in BOOLEAN

\* From every node of an array next and prev lead to nodes of the same array, and
\* undo one another.
Ring ==
  \A a \in live : \A n \in Nodes(a) :
    /\ next[n] \in Nodes(a) /\ prev[n] \in Nodes(a)
    /\ prev[next[n]] = n /\ next[prev[n]] = n

\* next leads to the element of the next greater index; only the last leads back
\* to the head.  Elements have values, and indices of their own.
Ordered ==
  \A a \in live :
    /\ ind[a] = -1
    /\ \A e \in Owned(a) : ind[e] >= 0 /\ value[e] \in Values
    /\ \A n \in Nodes(a) : next[n] # a => ind[n] < ind[next[n]]
    /\ \A n, m \in Nodes(a) : ind[n] < ind[m] => next[n] # a /\ ind[next[n]] <= ind[m]
    /\ \A n, m \in Nodes(a) : ind[n] = ind[m] => n = m

\* num_elements and max_index, which are kept beside the ring, agree with it:
\* the fast paths of array_insert, array_remove and array_reference go by them.
Counted ==
  \A a \in live :
    /\ num_elements[a] = Cardinality(Owned(a))
    /\ max_index[a] = ind[prev[a]]

\* lastref is an element of lastarray, which is an array: a search never begins
\* in memory that was freed, or used again for another array.
LastrefInArray ==
  lastarray # NULL => lastarray \in live /\ lastref \in Owned(lastarray)

\* What a search relies on, wherever it begins.
ListsSound == TypeOK /\ Ring /\ Ordered /\ Counted /\ LastrefInArray

\* array_insert always finds a place: "problem" is never returned.
InsertSucceeds == ~problem

\* The operations that begin come to an end.
CallsReturn == (call # "none") ~> (call = "none")

(***************************************************************************)
(* The ring implements a sparse array.                                     *)
(***************************************************************************)
Contents(a) == {<<ind[e], value[e]>> : e \in Owned(a)}

Abstract == INSTANCE SparseArrays WITH contents <- [a \in Arrays |-> Contents(a)]
ImplementsSparseArrays == Abstract!Spec
================================================================================
