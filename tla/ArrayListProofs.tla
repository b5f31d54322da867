---------------------------- MODULE ArrayListProofs ----------------------------
(***************************************************************************)
(* The ring of array.c stays a ring in the order of the indices, whatever  *)
(* is done to the arrays in whatever order, for any number of arrays,      *)
(* elements and values; lastref never dangles; array_insert always finds a *)
(* place; and the arrays so kept implement the maps of SparseArrays.       *)
(*                                                                         *)
(* The invariants of ArrayList are inductive together with one about the   *)
(* search that is going on: what it looks for, when it is there, is not    *)
(* before ae.                                                              *)
(***************************************************************************)
EXTENDS ArrayList, FiniteSetTheorems, FunctionTheorems, TLAPS

Passed ==
  call # "none" =>
    /\ array \in live /\ ae \in Nodes(array)
    /\ call = "insert" =>
         /\ string \in Values /\ index <= max_index[array]
         /\ \A e \in Owned(array) : ind[e] >= index => ae # array /\ ind[ae] <= ind[e]
    /\ call \in {"remove", "reference"} =>
         \A e \in Owned(array) : ind[e] = index => ae # array /\ ind[ae] <= ind[e]
    /\ call = "shift" =>
         /\ lastarray # array /\ steps <= index /\ index > 0
         /\ IF ae = array THEN steps = num_elements[array]
            ELSE steps = Cardinality(Dropped) /\ steps <= ind[ae]

Shape == Ring /\ Ordered /\ Counted
IInv == TypeOK /\ Shape /\ LastrefInArray /\ Passed /\ InsertSucceeds

-------------------------------------------------------------------------------
(* Facts about one array.                                                  *)
LEMMA NodesAreAddresses ==
  ASSUME TypeOK, NEW a \in live
  PROVE  /\ a \in Arrays /\ a \in Addresses /\ a \notin Elements /\ a # NULL
         /\ Nodes(a) \subseteq Addresses /\ Owned(a) \subseteq Elements
         /\ IsFiniteSet(Owned(a)) /\ Cardinality(Owned(a)) \in Nat
         /\ \A n \in Nodes(a) : ind[n] \in Int /\ next[n] \in Addresses /\ prev[n] \in Addresses
<1>1. Owned(a) \subseteq Elements /\ IsFiniteSet(Elements)
  BY ArrayListAssumption DEF Owned
<1>2. IsFiniteSet(Owned(a)) /\ Cardinality(Owned(a)) \in Nat
  BY <1>1, FS_Subset, FS_CardinalityType
<1> QED
  BY <1>1, <1>2, ArrayListAssumption DEF TypeOK, Nodes, Addresses, Indices

\* Two arrays share no node.
LEMMA NoSharedNode ==
  ASSUME TypeOK, NEW a \in live, NEW b \in live, a # b
  PROVE  Nodes(a) \intersect Nodes(b) = {}
<1>1. a \notin Elements /\ b \notin Elements
  BY NodesAreAddresses
<1> QED
  BY <1>1 DEF Nodes, Owned

\* The last element has the greatest index.
LEMMA LastIsGreatest ==
  ASSUME TypeOK, Ring, Ordered, NEW a \in live, NEW n \in Nodes(a)
  PROVE  ind[n] <= ind[prev[a]]
<1>1. prev[a] \in Nodes(a) /\ next[prev[a]] = a
  BY DEF Ring, Nodes
<1>2. ~(ind[prev[a]] < ind[n])
  BY <1>1 DEF Ordered
<1> QED
  BY <1>1, <1>2, NodesAreAddresses

\* A ring without elements leads from the head to the head, and no other does.
LEMMA EmptyRing ==
  ASSUME TypeOK, Ring, Ordered, Counted, NEW a \in live
  PROVE  /\ num_elements[a] = 0 <=> Owned(a) = {}
         /\ num_elements[a] = 0 <=> next[a] = a
         /\ num_elements[a] = 0 <=> prev[a] = a
<1>1. num_elements[a] = 0 <=> Owned(a) = {}
  BY NodesAreAddresses, FS_EmptySet DEF Counted
<1>2. next[a] \in Nodes(a) /\ prev[a] \in Nodes(a) /\ prev[next[a]] = a /\ next[prev[a]] = a
  BY DEF Ring, Nodes
<1>3. Owned(a) = {} => next[a] = a /\ prev[a] = a
  BY <1>2 DEF Nodes
<1>4. ASSUME NEW e \in Owned(a) PROVE next[a] # a
  <2>1. ind[a] < ind[e] /\ e \in Nodes(a) /\ a \in Nodes(a)
    BY NodesAreAddresses DEF Ordered, Nodes
  <2> QED
    BY <2>1 DEF Ordered
<1>5. prev[a] = a => next[a] = a
  BY <1>2
<1>6. next[a] = a => prev[a] = a
  BY <1>2
<1> QED
  BY <1>1, <1>3, <1>4, <1>5, <1>6

-------------------------------------------------------------------------------
(* A new element joins the ring of a before n.                             *)
LEMMA AddedToRing ==
  ASSUME TypeOK, Ring, NEW a \in live, NEW n \in Nodes(a), NEW new \in Free, NEW v \in Values,
         AddBefore(a, n, new, v), live' = live
  PROVE  /\ Ring'
         /\ Owned(a)' = Owned(a) \union {new} /\ new \notin Owned(a)
         /\ \A b \in live : b # a => Owned(b)' = Owned(b)
         /\ Nodes(a)' = Nodes(a) \union {new}
<1> USE NodesAreAddresses
<1>1. new \in Elements /\ owner[new] = NULL /\ new \in Addresses /\ new \notin Arrays
  BY ArrayListAssumption DEF Free, Addresses
<1>2. \A b \in live : new \notin Nodes(b)
  BY <1>1 DEF Nodes, Owned
<1>3. Owned(a)' = Owned(a) \union {new}
  BY <1>1 DEF AddBefore, Owned, TypeOK
<1>4. \A b \in live : b # a => Owned(b)' = Owned(b)
  BY <1>1 DEF AddBefore, Owned, TypeOK
<1>5. Nodes(a)' = Nodes(a) \union {new} /\ \A b \in live : b # a => Nodes(b)' = Nodes(b)
  BY <1>3, <1>4 DEF Nodes
<1>6. /\ prev[n] \in Nodes(a) /\ next[prev[n]] = n
      /\ n \in Addresses /\ prev[n] \in Addresses /\ new # n /\ new # prev[n]
  BY <1>2 DEF Ring
<1>7. /\ next' = [next EXCEPT ![prev[n]] = new, ![new] = n]
      /\ prev' = [prev EXCEPT ![n] = new, ![new] = prev[n]]
      /\ next \in [Addresses -> Addresses] /\ prev \in [Addresses -> Addresses]
  BY DEF AddBefore, TypeOK
<1>8. /\ next'[new] = n /\ next'[prev[n]] = new /\ \A m \in Addresses \ {new, prev[n]} : next'[m] = next[m]
      /\ prev'[new] = prev[n] /\ prev'[n] = new /\ \A m \in Addresses \ {new, n} : prev'[m] = prev[m]
  BY <1>1, <1>6, <1>7
<1>9. ASSUME NEW b \in live, NEW m \in Nodes(b)'
      PROVE  /\ next'[m] \in Nodes(b)' /\ prev'[m] \in Nodes(b)'
             /\ prev'[next'[m]] = m /\ next'[prev'[m]] = m
  <2>1. CASE b # a
    <3>1. m \in Nodes(b) /\ m \in Addresses /\ m \notin Nodes(a)
      BY <2>1, <1>5, NoSharedNode
    <3>2. next[m] \in Nodes(b) /\ prev[m] \in Nodes(b) /\ prev[next[m]] = m /\ next[prev[m]] = m
      BY <3>1 DEF Ring
    <3>3. next[m] \notin Nodes(a) /\ prev[m] \notin Nodes(a)
      BY <3>2, <2>1, NoSharedNode
    <3> QED
      BY <3>1, <3>2, <3>3, <2>1, <1>2, <1>5, <1>6, <1>8
  <2>2. CASE b = a
    <3>1. CASE m = new
      BY <3>1, <2>2, <1>5, <1>6, <1>8
    <3>2. CASE m # new
      <4>1. m \in Nodes(a) /\ m \in Addresses
        BY <3>2, <2>2, <1>5
      <4>2. next[m] \in Nodes(a) /\ prev[m] \in Nodes(a) /\ prev[next[m]] = m /\ next[prev[m]] = m
        BY <4>1 DEF Ring
      <4> QED
        BY <4>1, <4>2, <3>2, <2>2, <1>2, <1>5, <1>6, <1>8
    <3> QED
      BY <3>1, <3>2
  <2> QED
    BY <2>1, <2>2
<1>10. live' = live
  OBVIOUS
<1>11. Ring'
  BY <1>9, <1>10 DEF Ring
<1> QED
  BY <1>2, <1>3, <1>4, <1>5, <1>11 DEF Nodes

\* The new element is where its index belongs; the others may have been
\* renumbered, but not put into another order.
LEMMA AddedInOrder ==
  ASSUME TypeOK, Shape, NEW a \in live, NEW n \in Nodes(a), NEW new \in Free, NEW v \in Values,
         AddBefore(a, n, new, v), live' = live,
         ind' \in [Addresses -> Int], ind'[a] = -1,
         \A x \in Owned(a) \union {new} : ind'[x] >= 0,
         \A x, y \in Nodes(a) : ind'[x] < ind'[y] <=> ind[x] < ind[y],
         \A x \in Addresses : x \notin Nodes(a) \union {new} => ind'[x] = ind[x],
         ind'[prev[n]] < ind'[new], n # a => ind'[new] < ind'[n],
         max_index' = [max_index EXCEPT ![a] = ind'[prev'[a]]]
  PROVE  Shape'
<1> USE NodesAreAddresses
<1>1. Ring /\ Ordered /\ Counted
  BY DEF Shape
<1>2. /\ Ring'
      /\ Owned(a)' = Owned(a) \union {new} /\ new \notin Owned(a)
      /\ \A b \in live : b # a => Owned(b)' = Owned(b)
      /\ Nodes(a)' = Nodes(a) \union {new}
  BY <1>1, AddedToRing
<1>3. new \in Elements /\ new \in Addresses /\ \A b \in live : new \notin Nodes(b)
  <2>1. new \in Elements /\ new \in Addresses /\ owner[new] = NULL
    BY DEF Free, Addresses
  <2>2. ASSUME NEW b \in live PROVE new \notin Nodes(b)
    <3>1. b \notin Elements /\ b # NULL
      OBVIOUS
    <3> QED BY <2>1, <3>1 DEF Nodes, Owned
  <2> QED BY <2>1, <2>2
<1>4. prev[n] \in Nodes(a) /\ next[prev[n]] = n /\ n \in Addresses /\ prev[n] \in Addresses
  BY <1>1 DEF Ring
<1>5. /\ next'[new] = n /\ next'[prev[n]] = new /\ \A m \in Addresses \ {new, prev[n]} : next'[m] = next[m]
      /\ \A m \in Addresses \ {new, n} : prev'[m] = prev[m]
      /\ value'[new] = v /\ \A e \in Elements \ {new} : value'[e] = value[e]
  BY <1>3, <1>4 DEF AddBefore, TypeOK
<1> DEFINE In(b) == /\ ind'[b] = -1
                    /\ \A e \in Owned(b)' : ind'[e] >= 0 /\ value'[e] \in Values
                    /\ \A p \in Nodes(b)' : next'[p] # b => ind'[p] < ind'[next'[p]]
                    /\ \A p, q \in Nodes(b)' : ind'[p] < ind'[q] => next'[p] # b /\ ind'[next'[p]] <= ind'[q]
                    /\ \A p, q \in Nodes(b)' : ind'[p] = ind'[q] => p = q
<1>6. ASSUME NEW b \in live, b # a PROVE In(b)
  <2>1. Owned(b)' = Owned(b) /\ Nodes(b)' = Nodes(b)
    BY <1>2, <1>6 DEF Nodes
  <2>2. \A p \in Nodes(b) : p \notin Nodes(a) /\ p # new /\ p # prev[n] /\ p # n /\ p \in Addresses
    BY <1>3, <1>4, <1>6, NoSharedNode
  <2>3. \A p \in Nodes(b) : next'[p] = next[p] /\ ind'[p] = ind[p] /\ next[p] \in Nodes(b)
    BY <2>2, <1>1, <1>5 DEF Ring
  <2>4. \A e \in Owned(b) : value'[e] = value[e] /\ e \in Nodes(b)
    BY <2>2, <1>5 DEF Nodes, Owned
  <2> QED
    BY <2>1, <2>3, <2>4, <1>1 DEF Ordered, Nodes
<1>7. In(a)
  <2>1. \A x \in Nodes(a) \union {new} : ind'[x] \in Int
    BY <1>3
  <2>2. \A x \in Nodes(a) : ind[x] \in Int /\ next[x] \in Nodes(a) /\ x # new
    BY <1>1, <1>3 DEF Ring
  <2>3. \A p, q \in Nodes(a) : ind[p] < ind[q] => next[p] # a /\ ind[next[p]] <= ind[q]
    BY <1>1 DEF Ordered
  <2>4. \A p, q \in Nodes(a) : ind'[p] <= ind'[q] <=> ind[p] <= ind[q]
    BY <2>1, <2>2
  <2>5. \A p \in Nodes(a) : ind'[prev[n]] < ind'[p] => n # a /\ ind'[n] <= ind'[p]
    BY <2>3, <2>4, <1>4
  <2>6. \A p \in Nodes(a) : ind'[p] # ind'[new]
    BY <2>5, <2>1, <1>4
  <2>7. ASSUME NEW p \in Nodes(a)', next'[p] # a PROVE ind'[p] < ind'[next'[p]]
    <3>1. CASE p = new
      BY <3>1, <2>7, <1>5
    <3>2. CASE p = prev[n]
      BY <3>2, <1>5
    <3>3. CASE p # new /\ p # prev[n]
      <4>1. p \in Nodes(a) /\ next'[p] = next[p]
        BY <3>3, <1>2, <1>5
      <4> QED
        BY <4>1, <2>7, <2>2, <1>1 DEF Ordered
    <3> QED
      BY <3>1, <3>2, <3>3
  <2>8. ASSUME NEW p \in Nodes(a)', NEW q \in Nodes(a)', ind'[p] < ind'[q]
        PROVE  next'[p] # a /\ ind'[next'[p]] <= ind'[q]
    <3>1. CASE p = new
      <4>1. q \in Nodes(a) /\ ind'[prev[n]] < ind'[q]
        BY <3>1, <2>8, <2>1, <1>2, <1>4
      <4> QED
        BY <4>1, <3>1, <2>5, <1>5
    <3>2. CASE p = prev[n]
      <4>1. p # new /\ next'[p] = new /\ new # a
        BY <3>2, <1>3, <1>4, <1>5
      <4>2. CASE q = new
        BY <4>1, <4>2, <2>1
      <4>3. CASE q # new
        <5>1. q \in Nodes(a) /\ n # a /\ ind'[n] <= ind'[q]
          BY <4>3, <3>2, <2>8, <2>5, <1>2
        <5> QED
          BY <5>1, <4>1, <2>1
      <4> QED
        BY <4>2, <4>3
    <3>3. CASE p # new /\ p # prev[n]
      <4>1. p \in Nodes(a) /\ next'[p] = next[p] /\ p \in Addresses
        BY <3>3, <1>2, <1>5
      <4>2. CASE q # new
        <5>1. q \in Nodes(a) /\ ind[p] < ind[q]
          BY <4>1, <4>2, <2>8, <1>2
        <5> QED
          BY <5>1, <4>1, <2>2, <2>3, <2>4
      <4>3. CASE q = new
        <5>1. ~(ind'[prev[n]] < ind'[p])
          BY <4>1, <4>3, <2>8, <2>5, <2>1
        <5>2. ind[p] # ind[prev[n]]
          BY <4>1, <3>3, <1>4, <1>1 DEF Ordered
        <5>3. ind[p] < ind[prev[n]]
          BY <5>1, <5>2, <4>1, <2>1, <2>2, <2>4, <1>4
        <5>4. next[p] # a /\ ind'[next[p]] <= ind'[prev[n]]
          BY <5>3, <4>1, <2>2, <2>3, <2>4, <1>4
        <5> QED
          BY <5>4, <4>1, <4>3, <2>1, <2>2, <1>4
      <4> QED
        BY <4>2, <4>3
    <3> QED
      BY <3>1, <3>2, <3>3
  <2>9. ASSUME NEW p \in Nodes(a)', NEW q \in Nodes(a)', ind'[p] = ind'[q] PROVE p = q
    <3>1. CASE p = new \/ q = new
      BY <3>1, <2>9, <2>6, <1>2
    <3>2. CASE p # new /\ q # new
      <4>1. p \in Nodes(a) /\ q \in Nodes(a)
        BY <3>2, <1>2
      <4>2. ind[p] = ind[q]
        BY <4>1, <2>9, <2>1, <2>2, <2>4
      <4> QED
        BY <4>1, <4>2, <1>1 DEF Ordered
    <3> QED
      BY <3>1, <3>2
  <2>10. \A e \in Owned(a)' : ind'[e] >= 0 /\ value'[e] \in Values
    BY <1>1, <1>2, <1>5 DEF Ordered, Owned
  <2> QED
    BY <2>7, <2>8, <2>9, <2>10
<1>8. Ordered'
  BY <1>6, <1>7 DEF Ordered
<1>9. ASSUME NEW b \in live
      PROVE  num_elements'[b] = Cardinality(Owned(b)') /\ max_index'[b] = ind'[prev'[b]]
  <2>1. CASE b = a
    <3>1. Cardinality(Owned(a) \union {new}) = Cardinality(Owned(a)) + 1
      BY <1>2, FS_AddElement
    <3>2. num_elements'[a] = num_elements[a] + 1 /\ max_index'[a] = ind'[prev'[a]]
      BY DEF AddBefore, TypeOK
    <3> QED
      BY <3>1, <3>2, <2>1, <1>1, <1>2 DEF Counted
  <2>2. CASE b # a
    <3>1. num_elements'[b] = num_elements[b] /\ max_index'[b] = max_index[b]
      BY <2>2 DEF AddBefore, TypeOK
    <3>2. b \notin Nodes(a) /\ b # new /\ b # n /\ prev[b] \in Nodes(b)
      BY <2>2, <1>1, <1>3, NoSharedNode DEF Nodes, Ring
    <3>3. prev'[b] = prev[b] /\ prev[b] \notin Nodes(a) /\ prev[b] # new
      BY <3>2, <2>2, <1>3, <1>5, NoSharedNode
    <3> QED
      BY <3>1, <3>2, <3>3, <2>2, <1>1, <1>2 DEF Counted
  <2> QED
    BY <2>1, <2>2
<1>10. Counted'
  BY <1>9 DEF Counted
<1> QED
  BY <1>2, <1>8, <1>10 DEF Shape

-------------------------------------------------------------------------------
(* The other operations that change a ring.                                *)

\* Arrays whose nodes, links and indices stay as they are keep their shape.
LEMMA OthersKeepShape ==
  ASSUME TypeOK, Shape, NEW b \in live,
         Owned(b)' = Owned(b), num_elements'[b] = num_elements[b], max_index'[b] = max_index[b],
         \A x \in Nodes(b) : next'[x] = next[x] /\ prev'[x] = prev[x] /\ ind'[x] = ind[x],
         \A x \in Owned(b) : value'[x] = value[x]
  PROVE  /\ \A n \in Nodes(b)' : /\ next'[n] \in Nodes(b)' /\ prev'[n] \in Nodes(b)'
                                 /\ prev'[next'[n]] = n /\ next'[prev'[n]] = n
         /\ ind'[b] = -1
         /\ \A e \in Owned(b)' : ind'[e] >= 0 /\ value'[e] \in Values
         /\ \A n \in Nodes(b)' : next'[n] # b => ind'[n] < ind'[next'[n]]
         /\ \A n, m \in Nodes(b)' : ind'[n] < ind'[m] => next'[n] # b /\ ind'[next'[n]] <= ind'[m]
         /\ \A n, m \in Nodes(b)' : ind'[n] = ind'[m] => n = m
         /\ num_elements'[b] = Cardinality(Owned(b)') /\ max_index'[b] = ind'[prev'[b]]
<1>1. Nodes(b)' = Nodes(b) /\ b \in Nodes(b) /\ Owned(b) \subseteq Nodes(b)
  BY DEF Nodes
<1>2. \A n \in Nodes(b) : /\ next[n] \in Nodes(b) /\ prev[n] \in Nodes(b)
                          /\ prev[next[n]] = n /\ next[prev[n]] = n
  BY DEF Shape, Ring
<1>3. /\ ind[b] = -1
      /\ \A e \in Owned(b) : ind[e] >= 0 /\ value[e] \in Values
      /\ \A n \in Nodes(b) : next[n] # b => ind[n] < ind[next[n]]
      /\ \A n, m \in Nodes(b) : ind[n] < ind[m] => next[n] # b /\ ind[next[n]] <= ind[m]
      /\ \A n, m \in Nodes(b) : ind[n] = ind[m] => n = m
  BY DEF Shape, Ordered
<1>4. num_elements[b] = Cardinality(Owned(b)) /\ max_index[b] = ind[prev[b]]
  BY DEF Shape, Counted
<1>5. /\ \A n \in Nodes(b)' : /\ next'[n] \in Nodes(b)' /\ prev'[n] \in Nodes(b)'
                              /\ prev'[next'[n]] = n /\ next'[prev'[n]] = n
  BY <1>1, <1>2
<1>6. /\ \A n \in Nodes(b)' : next'[n] # b => ind'[n] < ind'[next'[n]]
      /\ \A n, m \in Nodes(b)' : ind'[n] < ind'[m] => next'[n] # b /\ ind'[next'[n]] <= ind'[m]
      /\ \A n, m \in Nodes(b)' : ind'[n] = ind'[m] => n = m
  BY <1>1, <1>2, <1>3
<1> QED
  BY <1>1, <1>2, <1>3, <1>4, <1>5, <1>6

\* A head that is alone is a ring.
LEMMA HeadAlone ==
  ASSUME NEW a, Owned(a)' = {}, next'[a] = a, prev'[a] = a, ind'[a] = -1,
         num_elements'[a] = 0, max_index'[a] = -1
  PROVE  /\ \A n \in Nodes(a)' : /\ next'[n] \in Nodes(a)' /\ prev'[n] \in Nodes(a)'
                                 /\ prev'[next'[n]] = n /\ next'[prev'[n]] = n
         /\ \A e \in Owned(a)' : ind'[e] >= 0 /\ value'[e] \in Values
         /\ \A n \in Nodes(a)' : next'[n] # a => ind'[n] < ind'[next'[n]]
         /\ \A n, m \in Nodes(a)' : ind'[n] < ind'[m] => next'[n] # a /\ ind'[next'[n]] <= ind'[m]
         /\ \A n, m \in Nodes(a)' : ind'[n] = ind'[m] => n = m
         /\ num_elements'[a] = Cardinality(Owned(a)') /\ max_index'[a] = ind'[prev'[a]]
<1>1. Nodes(a)' = {a}
  BY DEF Nodes
<1> QED
  BY <1>1, FS_EmptySet

LEMMA CreatedShape ==
  ASSUME TypeOK, Shape, NEW a \in Arrays, array_create(a)
  PROVE  Shape'
<1>1. a \notin live /\ live' = live \union {a} /\ a # NULL /\ a \notin Elements /\ a \in Addresses
  BY ArrayListAssumption DEF array_create, Addresses
<1>2. \A b \in Arrays : Owned(b)' = Owned(b)
  BY DEF array_create, Owned
<1>3. Owned(a) = {}
  BY <1>1 DEF Owned, TypeOK
<1>4. /\ next'[a] = a /\ prev'[a] = a /\ ind'[a] = -1 /\ num_elements'[a] = 0 /\ max_index'[a] = -1
      /\ \A x \in Addresses \ {a} : next'[x] = next[x] /\ prev'[x] = prev[x] /\ ind'[x] = ind[x]
      /\ \A b \in Arrays \ {a} : num_elements'[b] = num_elements[b] /\ max_index'[b] = max_index[b]
      /\ value' = value
  BY <1>1 DEF array_create, TypeOK
<1>5. \A b \in live : b # a /\ b \in Arrays /\ Nodes(b) \subseteq Addresses \ {a}
  BY <1>1, NodesAreAddresses DEF Nodes
<1>6. Ring'
  BY <1>1, <1>2, <1>3, <1>4, <1>5, OthersKeepShape, HeadAlone DEF Ring
<1>7. Ordered'
  BY <1>1, <1>2, <1>3, <1>4, <1>5, OthersKeepShape, HeadAlone DEF Ordered
<1>8. Counted'
  BY <1>1, <1>2, <1>3, <1>4, <1>5, OthersKeepShape, HeadAlone DEF Counted
<1> QED
  BY <1>6, <1>7, <1>8 DEF Shape

LEMMA EmptiedShape ==
  ASSUME TypeOK, Shape, NEW a \in live, Emptied(a), live' \in SUBSET live
  PROVE  Shape' /\ Owned(a)' = {} /\ \A b \in live \ {a} : Owned(b)' = Owned(b)
<1> USE NodesAreAddresses
<1>1. Owned(a)' = {}
  BY DEF Emptied, Dispose, Owned
<1>2. \A b \in live \ {a} : Owned(b)' = Owned(b)
  BY DEF Emptied, Dispose, Owned
<1>3. /\ next'[a] = a /\ prev'[a] = a /\ ind'[a] = -1 /\ num_elements'[a] = 0 /\ max_index'[a] = -1
      /\ \A x \in Addresses \ Nodes(a) : next'[x] = next[x] /\ prev'[x] = prev[x] /\ ind'[x] = ind[x]
      /\ \A b \in live \ {a} : num_elements'[b] = num_elements[b] /\ max_index'[b] = max_index[b]
      /\ \A e \in Elements \ Owned(a) : value'[e] = value[e]
  <2>1. a \in Nodes(a) /\ a \notin Owned(a) /\ ind[a] = -1
    BY DEF Nodes, Shape, Ordered
  <2> QED
    BY <2>1 DEF Emptied, Dispose, Relinked, Nodes, TypeOK
<1>4. \A b \in live \ {a} : Nodes(b) \subseteq Addresses \ Nodes(a) /\ Owned(b) \subseteq Elements \ Owned(a)
  BY NoSharedNode DEF Nodes
<1>5. Ring'
  BY <1>1, <1>2, <1>3, <1>4, OthersKeepShape, HeadAlone DEF Ring
<1>6. Ordered'
  BY <1>1, <1>2, <1>3, <1>4, OthersKeepShape, HeadAlone DEF Ordered
<1>7. Counted'
  BY <1>1, <1>2, <1>3, <1>4, OthersKeepShape, HeadAlone DEF Counted
<1> QED
  BY <1>1, <1>2, <1>5, <1>6, <1>7 DEF Shape

LEMMA RemovedShape ==
  ASSUME TypeOK, Shape, Passed, remove_found, NEW a, NEW e, a = array, e = ae
  PROVE  /\ Shape' /\ Owned(a)' = Owned(a) \ {e}
         /\ \A b \in live \ {a} : Owned(b)' = Owned(b)
<1> USE NodesAreAddresses
<1>1. a \in live /\ e \in Owned(a) /\ ind[e] = index /\ live' = live
  BY DEF remove_found, Searching, Passed, Nodes
<1>2. a \in live /\ e \in Nodes(a) /\ a \in Nodes(a) /\ e # a /\ e \in Elements /\ e \in Addresses
  BY <1>1 DEF Nodes, Owned, Addresses
<1>3. /\ next[e] \in Nodes(a) /\ prev[e] \in Nodes(a) /\ next[prev[e]] = e /\ prev[next[e]] = e
      /\ prev[a] \in Nodes(a) /\ next[prev[a]] = a /\ prev[next[a]] = a
  BY <1>2 DEF Shape, Ring
<1>4. next[e] # e
  BY <1>2 DEF Shape, Ordered
<1>5. prev[e] # e
  BY <1>3, <1>4
<1>6. Owned(a)' = Owned(a) \ {e} /\ \A b \in live \ {a} : Owned(b)' = Owned(b)
  BY <1>1 DEF remove_found, Dispose, Owned
<1>7. Nodes(a)' = Nodes(a) \ {e} /\ \A b \in live \ {a} : Nodes(b)' = Nodes(b)
  BY <1>2, <1>6 DEF Nodes
<1>8. /\ next'[prev[e]] = next[e] /\ \A x \in Addresses \ {e, prev[e]} : next'[x] = next[x]
      /\ prev'[next[e]] = prev[e] /\ \A x \in Addresses \ {e, next[e]} : prev'[x] = prev[x]
      /\ \A x \in Addresses \ {e} : ind'[x] = ind[x]
      /\ \A x \in Elements \ {e} : value'[x] = value[x]
  BY <1>2, <1>3, <1>4, <1>5 DEF remove_found, Dispose, TypeOK
<1> DEFINE InRing(b) == \A n \in Nodes(b)' : /\ next'[n] \in Nodes(b)' /\ prev'[n] \in Nodes(b)'
                                             /\ prev'[next'[n]] = n /\ next'[prev'[n]] = n
           InOrder(b) == /\ ind'[b] = -1
                         /\ \A x \in Owned(b)' : ind'[x] >= 0 /\ value'[x] \in Values
                         /\ \A p \in Nodes(b)' : next'[p] # b => ind'[p] < ind'[next'[p]]
                         /\ \A p, q \in Nodes(b)' : ind'[p] < ind'[q] => next'[p] # b /\ ind'[next'[p]] <= ind'[q]
                         /\ \A p, q \in Nodes(b)' : ind'[p] = ind'[q] => p = q
           Count(b) == num_elements'[b] = Cardinality(Owned(b)') /\ max_index'[b] = ind'[prev'[b]]
<1>9. ASSUME NEW b \in live \ {a} PROVE InRing(b) /\ InOrder(b) /\ Count(b)
  <2>1. Nodes(b) \intersect Nodes(a) = {} /\ Nodes(b) \subseteq Addresses /\ Owned(b) \subseteq Elements
    BY <1>2, NoSharedNode
  <2>2. \A x \in Nodes(b) : next'[x] = next[x] /\ prev'[x] = prev[x] /\ ind'[x] = ind[x]
    BY <2>1, <1>2, <1>3, <1>8
  <2>3. \A x \in Owned(b) : value'[x] = value[x]
    BY <2>1, <1>2, <1>8 DEF Nodes
  <2>4. num_elements'[b] = num_elements[b] /\ max_index'[b] = max_index[b]
    BY <1>2 DEF remove_found, TypeOK
  <2> QED
    BY <2>2, <2>3, <2>4, <1>6, OthersKeepShape
<1>10. InRing(a)
  <2> TAKE n \in Nodes(a)'
  <2>1. n \in Nodes(a) /\ n # e /\ n \in Addresses
    BY <1>2, <1>7
  <2>2. /\ next[n] \in Nodes(a) /\ prev[n] \in Nodes(a) /\ prev[next[n]] = n /\ next[prev[n]] = n
        /\ next[n] \in Addresses /\ prev[n] \in Addresses
    BY <2>1, <1>2 DEF Shape, Ring
  <2>3. next'[n] \in Nodes(a)' /\ prev'[next'[n]] = n
    <3>1. CASE n = prev[e]
      BY <3>1, <1>3, <1>4, <1>7, <1>8
    <3>2. CASE n # prev[e]
      <4>1. next[n] # e /\ next[n] # next[e]
        BY <3>2, <2>1, <2>2, <1>3
      <4> QED
        BY <4>1, <3>2, <2>1, <2>2, <1>7, <1>8
    <3> QED
      BY <3>1, <3>2
  <2>4. prev'[n] \in Nodes(a)' /\ next'[prev'[n]] = n
    <3>1. CASE n = next[e]
      BY <3>1, <1>3, <1>5, <1>7, <1>8
    <3>2. CASE n # next[e]
      <4>1. prev[n] # e /\ prev[n] # prev[e]
        BY <3>2, <2>1, <2>2, <1>3
      <4> QED
        BY <4>1, <3>2, <2>1, <2>2, <1>7, <1>8
    <3> QED
      BY <3>1, <3>2
  <2> QED
    BY <2>3, <2>4
<1>11. InOrder(a)
  <2>1. /\ ind[a] = -1 /\ \A x \in Owned(a) : ind[x] >= 0 /\ value[x] \in Values
        /\ \A p \in Nodes(a) : next[p] # a => ind[p] < ind[next[p]]
        /\ \A p, q \in Nodes(a) : ind[p] < ind[q] => next[p] # a /\ ind[next[p]] <= ind[q]
        /\ \A p, q \in Nodes(a) : ind[p] = ind[q] => p = q
    BY <1>2 DEF Shape, Ordered
  <2>2. \A p \in Nodes(a)' : p \in Nodes(a) /\ p # e /\ p \in Addresses /\ ind'[p] = ind[p] /\ ind[p] \in Int
    BY <1>2, <1>7, <1>8
  <2>3. \A p \in Nodes(a)' : next'[p] = (IF p = prev[e] THEN next[e] ELSE next[p]) /\ next'[p] \in Nodes(a)'
    BY <2>2, <1>8, <1>10
  <2>4. \A p, q \in Nodes(a)' : ind'[p] = ind'[q] => p = q
    BY <2>1, <2>2
  <2>5. ASSUME NEW p \in Nodes(a)', next'[p] # a PROVE ind'[p] < ind'[next'[p]]
    <3>1. CASE p = prev[e]
      <4>1. ind[prev[e]] < ind[e] /\ ind[e] < ind[next[e]]
        BY <3>1, <2>1, <2>3, <2>5, <1>2, <1>3
      <4> QED
        BY <4>1, <3>1, <2>2, <2>3, <1>2
    <3>2. CASE p # prev[e]
      BY <3>2, <2>1, <2>2, <2>3, <2>5
    <3> QED
      BY <3>1, <3>2
  <2>6. ASSUME NEW p \in Nodes(a)', NEW q \in Nodes(a)', ind'[p] < ind'[q]
        PROVE  next'[p] # a /\ ind'[next'[p]] <= ind'[q]
    <3>1. CASE p = prev[e]
      <4>1. ind[e] <= ind[q] /\ ind[e] # ind[q]
        BY <3>1, <2>1, <2>2, <2>6, <1>2, <1>3
      <4>2. ind[e] < ind[q]
        BY <4>1, <2>2, <1>2
      <4>3. next[e] # a /\ ind[next[e]] <= ind[q]
        BY <4>2, <2>1, <2>2, <1>2
      <4> QED
        BY <4>3, <3>1, <2>2, <2>3
    <3>2. CASE p # prev[e]
      BY <3>2, <2>1, <2>2, <2>3, <2>6
    <3> QED
      BY <3>1, <3>2
  <2>7. ind'[a] = -1 /\ \A x \in Owned(a)' : ind'[x] >= 0 /\ value'[x] \in Values
    BY <2>1, <1>2, <1>6, <1>8 DEF Addresses
  <2> QED
    BY <2>4, <2>5, <2>6, <2>7
<1>12. Count(a)
  <2>1. num_elements'[a] = Cardinality(Owned(a) \ {e})
    <3>1. Cardinality(Owned(a) \ {e}) = Cardinality(Owned(a)) - 1
      BY <1>1, <1>2, FS_RemoveElement
    <3>2. num_elements[a] = Cardinality(Owned(a)) /\ num_elements'[a] = num_elements[a] - 1
      BY <1>2 DEF Shape, Counted, remove_found, TypeOK
    <3> QED
      BY <3>1, <3>2
  <2>2. max_index[a] = ind[prev[a]]
    BY <1>2 DEF Shape, Counted
  <2>3. CASE index = max_index[a]
    <3>1. e = prev[a]
      BY <2>2, <2>3, <1>1, <1>2, <1>3 DEF Shape, Ordered
    <3>2. next[e] = a /\ prev'[a] = prev[e] /\ ind'[prev[e]] = ind[prev[e]]
      BY <3>1, <1>2, <1>3, <1>5, <1>8
    <3>3. max_index'[a] = ind[prev[e]]
      BY <2>3, <1>2 DEF remove_found, TypeOK
    <3> QED
      BY <3>2, <3>3, <2>1, <1>6
  <2>4. CASE index # max_index[a]
    <3>1. e # prev[a] /\ next[e] # a
      BY <2>2, <2>4, <1>1, <1>3
    <3>2. prev'[a] = prev[a] /\ ind'[prev[a]] = ind[prev[a]]
      BY <3>1, <1>2, <1>3, <1>8
    <3>3. max_index'[a] = max_index[a]
      BY <2>4 DEF remove_found
    <3> QED
      BY <3>2, <3>3, <2>1, <2>2, <1>6
  <2> QED
    BY <2>3, <2>4
<1>13. \A b \in live : InRing(b) /\ InOrder(b) /\ Count(b)
  <2> TAKE b \in live
  <2> QED
    BY <1>9, <1>10, <1>11, <1>12
<1>14. Ring' /\ Ordered' /\ Counted'
  BY <1>1, <1>13 DEF Ring, Ordered, Counted
<1> QED
  BY <1>6, <1>14 DEF Shape

LEMMA ShiftedShape ==
  ASSUME TypeOK, Shape, Passed, shift_some, NEW a, NEW e, a = array, e = ae
  PROVE  /\ Shape' /\ Owned(a)' = Owned(a) \ Dropped
         /\ \A b \in live \ {a} : Owned(b)' = Owned(b)
<1> USE NodesAreAddresses
<1>1. a \in live /\ e \in Owned(a) /\ live' = live /\ index <= ind[e] /\ index = Cardinality(Dropped)
  BY DEF shift_some, Searching, Passed, Nodes
<1> DEFINE kept == Owned(a) \ Dropped
<1>2. /\ a \in live /\ e \in Nodes(a) /\ a \in Nodes(a) /\ e # a /\ e \in Elements
      /\ Dropped \subseteq Owned(a) /\ a \notin Owned(a) /\ index \in Nat
  <2>1. Owned(a) \subseteq Elements /\ a \notin Elements
    BY <1>1
  <2>2. Dropped \subseteq Owned(a)
    BY DEF Dropped
  <2>3. index \in Nat
    BY ArrayListAssumption DEF TypeOK, Indices
  <2> QED
    BY <1>1, <2>1, <2>2, <2>3 DEF Nodes
<1>3. /\ ind[a] = -1 /\ \A x \in Owned(a) : ind[x] >= 0 /\ value[x] \in Values
      /\ \A p \in Nodes(a) : next[p] # a => ind[p] < ind[next[p]]
      /\ \A p, q \in Nodes(a) : ind[p] < ind[q] => next[p] # a /\ ind[next[p]] <= ind[q]
      /\ \A p, q \in Nodes(a) : ind[p] = ind[q] => p = q
  BY <1>2 DEF Shape, Ordered
<1>4. \A n \in Nodes(a) : /\ next[n] \in Nodes(a) /\ prev[n] \in Nodes(a)
                          /\ prev[next[n]] = n /\ next[prev[n]] = n
  BY <1>2 DEF Shape, Ring
<1>5. \A x \in Owned(a) : x \in kept <=> ind[e] <= ind[x]
  BY <1>1, <1>2 DEF Dropped, Nodes
<1>6. e \in kept /\ kept \subseteq Nodes(a) /\ kept \subseteq Owned(a)
  BY <1>1, <1>2, <1>5 DEF Nodes
<1>7. \A x \in kept : next[x] = a \/ next[x] \in kept
  <2> TAKE x \in kept
  <2>1. CASE next[x] # a
    <3>1. next[x] \in Owned(a) /\ next[x] \in Nodes(a) /\ x \in Nodes(a)
      BY <2>1, <1>4, <1>6 DEF Nodes
    <3>2. ind[x] < ind[next[x]] /\ ind[e] <= ind[x]
      BY <3>1, <2>1, <1>3, <1>5, <1>6
    <3>3. ind[e] <= ind[next[x]]
      BY <3>1, <3>2, <1>2
    <3> QED
      BY <3>1, <3>3, <1>5
  <2> QED
    BY <2>1
<1>8. \A x \in kept \ {e} : prev[x] \in kept
  <2> TAKE x \in kept \ {e}
  <2>1. prev[x] \in Nodes(a) /\ next[prev[x]] = x /\ ind[e] <= ind[x] /\ ind[e] # ind[x]
    BY <1>2, <1>3, <1>4, <1>5, <1>6
  <2>2. ~(ind[prev[x]] < ind[e])
    BY <2>1, <1>2, <1>3, <1>6
  <2>3. prev[x] # a
    BY <2>2, <1>1, <1>2, <1>3
  <2> QED
    BY <2>1, <2>2, <2>3, <1>2, <1>5 DEF Nodes
<1>9. prev[a] \in kept
  <2>1. prev[a] \in Nodes(a) /\ ind[e] <= ind[prev[a]]
    BY <1>2, LastIsGreatest DEF Shape, Ring
  <2>2. prev[a] # a
    BY <2>1, <1>1, <1>3, <1>2
  <2> QED
    BY <2>1, <2>2, <1>5 DEF Nodes
<1>10. Owned(a)' = kept /\ \A b \in live \ {a} : Owned(b)' = Owned(b)
  BY <1>1, <1>2 DEF shift_some, Dispose, Owned, Dropped
<1>11. Nodes(a)' = kept \union {a}
  BY <1>10 DEF Nodes
<1>12. /\ next'[a] = e /\ \A x \in kept : next'[x] = next[x]
       /\ prev'[e] = a /\ prev'[a] = prev[a] /\ \A x \in kept \ {e} : prev'[x] = prev[x]
       /\ \A x \in kept : ind'[x] = ind[x] - index /\ ind[x] \in Int
       /\ ind'[a] = -1 /\ \A x \in kept : value'[x] = value[x]
  <2>1. a \in Addresses /\ kept \subseteq Addresses /\ kept \subseteq Elements /\ a \notin kept /\ a \notin Dropped
    BY <1>2 DEF Addresses
  <2> HIDE DEF kept
  <2>2. kept \intersect Dropped = {} /\ kept \subseteq Owned(a)
    BY DEF kept
  <2>3. \A x \in kept : ind[x] \in Int
    BY <1>2, <1>6 DEF kept
  <2>4. next'[a] = e /\ \A x \in kept : next'[x] = next[x]
    <3>1. next' = [Relinked(next, Dropped) EXCEPT ![a] = e]
      BY DEF shift_some
    <3>2. \A x \in Addresses : next'[x] = IF x = a THEN e ELSE IF x \in Dropped THEN x ELSE next[x]
      BY <3>1 DEF Relinked
    <3> QED
      BY <3>2, <2>1, <2>2
  <2>5. prev'[e] = a /\ prev'[a] = prev[a] /\ \A x \in kept \ {e} : prev'[x] = prev[x]
    BY <2>1, <2>2, <1>2, <1>6 DEF shift_some, Relinked
  <2>6. \A x \in kept : ind'[x] = ind[x] - index
    BY <2>1, <2>2 DEF shift_some
  <2>7. ind'[a] = -1
    BY <2>1, <1>2, <1>3 DEF shift_some
  <2>8. \A x \in kept : value'[x] = value[x]
    BY <2>1, <2>2 DEF shift_some, Dispose
  <2> QED
    BY <2>3, <2>4, <2>5, <2>6, <2>7, <2>8
<1> DEFINE InRing(b) == \A n \in Nodes(b)' : /\ next'[n] \in Nodes(b)' /\ prev'[n] \in Nodes(b)'
                                             /\ prev'[next'[n]] = n /\ next'[prev'[n]] = n
           InOrder(b) == /\ ind'[b] = -1
                         /\ \A x \in Owned(b)' : ind'[x] >= 0 /\ value'[x] \in Values
                         /\ \A p \in Nodes(b)' : next'[p] # b => ind'[p] < ind'[next'[p]]
                         /\ \A p, q \in Nodes(b)' : ind'[p] < ind'[q] => next'[p] # b /\ ind'[next'[p]] <= ind'[q]
                         /\ \A p, q \in Nodes(b)' : ind'[p] = ind'[q] => p = q
           Count(b) == num_elements'[b] = Cardinality(Owned(b)') /\ max_index'[b] = ind'[prev'[b]]
<1>13. ASSUME NEW b \in live \ {a} PROVE InRing(b) /\ InOrder(b) /\ Count(b)
  <2>1. Nodes(b) \intersect Nodes(a) = {} /\ Nodes(b) \subseteq Addresses /\ Owned(b) \subseteq Elements
    BY <1>2, NoSharedNode
  <2>2. Nodes(b) \intersect Owned(a) = {} /\ Nodes(b) \intersect Dropped = {} /\ a \notin Nodes(b) /\ e \notin Nodes(b)
    BY <2>1, <1>2 DEF Nodes
  <2>3. \A x \in Nodes(b) : next'[x] = next[x] /\ prev'[x] = prev[x] /\ ind'[x] = ind[x]
    BY <2>1, <2>2 DEF shift_some, Relinked, TypeOK
  <2>4. \A x \in Owned(b) : value'[x] = value[x]
    BY <2>1, <2>2 DEF shift_some, Dispose, Nodes
  <2>5. num_elements'[b] = num_elements[b] /\ max_index'[b] = max_index[b]
    BY <1>2 DEF shift_some, TypeOK
  <2> QED
    BY <2>3, <2>4, <2>5, <1>10, OthersKeepShape
<1>14. InRing(a)
  <2> TAKE n \in Nodes(a)'
  <2>1. CASE n = a
    BY <2>1, <1>4, <1>2, <1>6, <1>9, <1>11, <1>12
  <2>2. CASE n # a
    <3>1. n \in kept
      BY <2>2, <1>11
    <3>2. next[n] \in Nodes(a) /\ prev[n] \in Nodes(a) /\ prev[next[n]] = n /\ next[prev[n]] = n
      BY <3>1, <1>4, <1>6
    <3>3. next'[n] \in Nodes(a)' /\ prev'[next'[n]] = n
      <4>1. next[n] # e
        <5>1. next[n] # a => ind[n] < ind[next[n]]
          BY <3>1, <1>3, <1>6
        <5> QED
          BY <5>1, <3>1, <1>2, <1>5, <1>6, <1>12
      <4> QED
        BY <4>1, <3>1, <3>2, <1>7, <1>11, <1>12
    <3>4. prev'[n] \in Nodes(a)' /\ next'[prev'[n]] = n
      BY <3>1, <3>2, <1>8, <1>11, <1>12
    <3> QED
      BY <3>3, <3>4
  <2> QED
    BY <2>1, <2>2
<1>15. InOrder(a)
  <2>1. \A x \in kept : ind'[x] >= 0 /\ ind'[e] <= ind'[x] /\ ind'[x] \in Int
    BY <1>1, <1>2, <1>5, <1>6, <1>12
  <2>2. \A x \in Owned(a)' : ind'[x] >= 0 /\ value'[x] \in Values
    BY <2>1, <1>3, <1>6, <1>10, <1>12
  <2>3. \A p, q \in kept : /\ ind'[p] < ind'[q] <=> ind[p] < ind[q]
                           /\ ind'[p] <= ind'[q] <=> ind[p] <= ind[q]
                           /\ ind'[p] = ind'[q] <=> ind[p] = ind[q]
    BY <1>2, <1>12
  <2>4. ASSUME NEW p \in Nodes(a)', next'[p] # a PROVE ind'[p] < ind'[next'[p]]
    BY <2>1, <2>3, <2>4, <1>3, <1>6, <1>7, <1>11, <1>12
  <2>5. ASSUME NEW p \in Nodes(a)', NEW q \in Nodes(a)', ind'[p] < ind'[q]
        PROVE  next'[p] # a /\ ind'[next'[p]] <= ind'[q]
    <3>1. q \in kept
      BY <2>1, <2>5, <1>11, <1>12
    <3>2. CASE p = a
      BY <3>1, <3>2, <2>1, <1>2, <1>12
    <3>3. CASE p # a
      <4>1. p \in kept /\ ind[p] < ind[q]
        BY <3>1, <3>3, <2>3, <2>5, <1>11
      <4>2. next[p] # a /\ ind[next[p]] <= ind[q] /\ next[p] \in kept
        BY <4>1, <3>1, <1>3, <1>6, <1>7
      <4> QED
        BY <4>1, <4>2, <3>1, <2>3, <1>12
    <3> QED
      BY <3>2, <3>3
  <2>6. ASSUME NEW p \in Nodes(a)', NEW q \in Nodes(a)', ind'[p] = ind'[q] PROVE p = q
    BY <2>1, <2>3, <2>6, <1>3, <1>6, <1>11, <1>12
  <2> QED
    BY <2>2, <2>4, <2>5, <2>6, <1>12
<1>16. Count(a)
  <2>1. Owned(a) \intersect Dropped = Dropped
    BY <1>2
  <2>2. Cardinality(kept) = Cardinality(Owned(a)) - Cardinality(Dropped)
    BY <2>1, <1>2, FS_Difference
  <2>3. num_elements[a] = Cardinality(Owned(a)) /\ num_elements'[a] = num_elements[a] - index
    BY <1>2 DEF Shape, Counted, shift_some, TypeOK
  <2>4. max_index'[a] = ind'[prev'[a]]
    BY <1>2 DEF shift_some, TypeOK
  <2> QED
    BY <2>2, <2>3, <2>4, <1>1, <1>10
<1>17. \A b \in live : InRing(b) /\ InOrder(b) /\ Count(b)
  <2> TAKE b \in live
  <2> QED
    BY <1>13, <1>14, <1>15, <1>16
<1>18. Ring' /\ Ordered' /\ Counted'
  BY <1>1, <1>17 DEF Ring, Ordered, Counted
<1> QED
  BY <1>10, <1>18 DEF Shape

LEMMA RenumberedShape ==
  ASSUME TypeOK, Shape, NEW a \in live, NEW n \in Nat, rshift_null(a, n)
  PROVE  Shape' /\ \A b \in live : Owned(b)' = Owned(b)
<1> USE NodesAreAddresses
<1>1. /\ live' = live /\ next' = next /\ prev' = prev /\ value' = value /\ owner' = owner
      /\ num_elements' = num_elements /\ ind' = Renumbered(a, n)
      /\ max_index' = [max_index EXCEPT ![a] = ind'[prev[a]]]
  BY DEF rshift_null, links
<1>2. \A b \in live : Owned(b)' = Owned(b) /\ Nodes(b)' = Nodes(b)
  BY <1>1 DEF Owned, Nodes
<1>3. \A x \in Addresses : ind'[x] = IF x \in Owned(a) THEN ind[x] + n ELSE ind[x]
  BY <1>1 DEF Renumbered
<1>4. Ring'
  BY <1>1, <1>2 DEF Shape, Ring
<1>5. ASSUME NEW b \in live
      PROVE  /\ ind'[b] = -1
             /\ \A x \in Owned(b)' : ind'[x] >= 0 /\ value'[x] \in Values
             /\ \A p \in Nodes(b)' : next'[p] # b => ind'[p] < ind'[next'[p]]
             /\ \A p, q \in Nodes(b)' : ind'[p] < ind'[q] => next'[p] # b /\ ind'[next'[p]] <= ind'[q]
             /\ \A p, q \in Nodes(b)' : ind'[p] = ind'[q] => p = q
  <2>1. /\ ind[b] = -1 /\ \A x \in Owned(b) : ind[x] >= 0 /\ value[x] \in Values
        /\ \A p \in Nodes(b) : next[p] # b => ind[p] < ind[next[p]]
        /\ \A p, q \in Nodes(b) : ind[p] < ind[q] => next[p] # b /\ ind[next[p]] <= ind[q]
        /\ \A p, q \in Nodes(b) : ind[p] = ind[q] => p = q
    BY DEF Shape, Ordered
  <2>2. \A p \in Nodes(b) : next[p] \in Nodes(b) /\ p \in Addresses /\ ind[p] \in Int
    BY DEF Shape, Ring
  <2>3. CASE b # a
    <3>1. \A p \in Nodes(b) : ind'[p] = ind[p]
      BY <2>2, <2>3, <1>3, NoSharedNode DEF Nodes
    <3> QED
      BY <3>1, <2>1, <2>2, <1>1, <1>2 DEF Nodes
  <2>4. CASE b = a
    <3>1. /\ b \in Nodes(b) /\ b \notin Owned(b) /\ \A p \in Nodes(b) : p = b \/ p \in Owned(b)
          /\ Owned(b) \subseteq Nodes(b)
      BY DEF Nodes
    <3>2. /\ ind'[b] = -1
          /\ \A p \in Owned(b) : ind'[p] = ind[p] + n /\ ind'[p] >= 0 /\ ind'[p] \in Int
      BY <3>1, <2>1, <2>2, <2>4, <1>3
    <3>3. \A p, q \in Nodes(b) : /\ ind'[p] < ind'[q] <=> ind[p] < ind[q]
                                 /\ ind'[p] = ind'[q] <=> ind[p] = ind[q]
                                 /\ ind'[p] \in Int
      BY <3>1, <3>2, <2>1, <2>2
    <3>4. \A p, q \in Nodes(b) : ind'[p] <= ind'[q] <=> ind[p] <= ind[q]
      BY <3>3, <2>2
    <3> QED
      BY <3>1, <3>2, <3>3, <3>4, <2>1, <2>2, <1>1, <1>2
  <2> QED
    BY <2>3, <2>4
<1>6. Ordered'
  BY <1>1, <1>5 DEF Ordered
<1>7. ASSUME NEW b \in live PROVE num_elements'[b] = Cardinality(Owned(b)') /\ max_index'[b] = ind'[prev'[b]]
  <2>1. CASE b = a
    BY <2>1, <1>1, <1>2 DEF Shape, Counted, TypeOK
  <2>2. CASE b # a
    <3>1. prev[b] \in Nodes(b) /\ prev[b] \notin Owned(a)
      BY <2>2, NoSharedNode DEF Shape, Ring, Nodes
    <3> QED
      BY <3>1, <2>2, <1>1, <1>2, <1>3 DEF Shape, Counted, TypeOK
  <2> QED
    BY <2>1, <2>2
<1>8. Counted'
  BY <1>1, <1>7 DEF Counted
<1> QED
  BY <1>2, <1>4, <1>6, <1>8 DEF Shape

-------------------------------------------------------------------------------
(* Every action preserves the invariant.                                   *)

LEMMA InitEstablishes ==
  ASSUME Init
  PROVE  IInv
<1>1. TypeOK
  <2>1. 0 \in Indices /\ -1 \in Indices \union {-1}
    BY ArrayListAssumption DEF Indices
  <2>2. /\ live \in SUBSET Arrays /\ owner \in [Elements -> live \union {NULL}]
        /\ ind \in [Addresses -> Indices \union {-1}] /\ value \in [Elements -> Values \union {NULL}]
        /\ next \in [Addresses -> Addresses] /\ prev \in [Addresses -> Addresses]
        /\ num_elements \in [Arrays -> Nat] /\ max_index \in [Arrays -> Indices \union {-1}]
    BY <2>1 DEF Init
  <2> QED
    BY <2>1, <2>2 DEF Init, TypeOK
<1>2. Shape /\ LastrefInArray /\ Passed /\ InsertSucceeds
  BY DEF Init, Shape, Ring, Ordered, Counted, LastrefInArray, Passed, InsertSucceeds
<1> QED
  BY <1>1, <1>2 DEF IInv

\* Where a search begins, nothing has been passed.
LEMMA SearchBegins ==
  ASSUME IInv, NEW a \in live, NEW i \in Indices, NEW e \in Owned(a), ind[e] >= i
  PROVE  LastrefStart(a, i) # a /\ ind[LastrefStart(a, i)] <= ind[e]
<1> USE NodesAreAddresses
<1>1. TypeOK /\ Ordered /\ Ring /\ LastrefInArray /\ a # NULL
  BY ArrayListAssumption DEF IInv, Shape, TypeOK
<1>2. i \in Int /\ i >= 0 /\ e \in Nodes(a) /\ a \in Nodes(a)
  BY <1>1, ArrayListAssumption DEF Indices, Nodes
<1>3. CASE lastarray = a /\ i >= ind[lastref]
  <2>1. lastref \in Owned(a) /\ lastref \in Nodes(a) /\ lastref # a
    BY <1>1, <1>3 DEF LastrefInArray, Nodes, Owned
  <2> QED
    BY <2>1, <1>1, <1>2, <1>3 DEF LastrefStart
<1>4. CASE ~(lastarray = a /\ i >= ind[lastref])
  <2>1. ind[a] < ind[e]
    BY <1>1, <1>2 DEF Ordered
  <2>2. next[a] # a /\ ind[next[a]] <= ind[e]
    BY <2>1, <1>1, <1>2 DEF Ordered
  <2> QED
    BY <2>2, <1>4 DEF LastrefStart
<1> QED
  BY <1>3, <1>4

\* A search begins at a node.
LEMMA SearchInNodes ==
  ASSUME IInv, NEW a \in live, NEW i \in Indices
  PROVE  LastrefStart(a, i) \in Nodes(a)
<1>1. a # NULL /\ (lastarray = a => lastref \in Nodes(a)) /\ next[a] \in Nodes(a)
  BY ArrayListAssumption DEF IInv, Shape, TypeOK, LastrefInArray, Ring, Nodes
<1> QED
  BY <1>1 DEF LastrefStart

LEMMA UnchangedShape ==
  ASSUME IInv, UNCHANGED <<arrays, elements>>
  PROVE  Shape' /\ \A a : Owned(a)' = Owned(a) /\ Nodes(a)' = Nodes(a)
<1>1. \A a : Owned(a)' = Owned(a) /\ Nodes(a)' = Nodes(a)
  BY DEF arrays, elements, links, Owned, Nodes
<1>2. Ring'
  BY <1>1 DEF arrays, elements, links, IInv, Shape, Ring
<1>3. Ordered'
  BY <1>1 DEF arrays, elements, links, IInv, Shape, Ordered
<1>4. Counted'
  BY <1>1 DEF arrays, elements, links, IInv, Shape, Counted
<1> QED
  BY <1>1, <1>2, <1>3, <1>4 DEF Shape

LEMMA BeginSearchPreserves ==
  ASSUME IInv, NEW a \in Arrays, NEW i \in Indices,
         (\E v \in Values : array_insert(a, i, v)) \/ array_remove(a, i) \/ array_reference(a, i)
  PROVE  IInv'
<1>1. a \in live /\ \E name \in {"insert", "remove", "reference"}, s \in Values \union {NULL} :
                      /\ Search(name, a, i, s) /\ (name = "insert" => s \in Values /\ i <= max_index[a])
  BY DEF array_insert, array_remove, array_reference
<1>2. PICK name \in {"insert", "remove", "reference"}, s \in Values \union {NULL} :
             Search(name, a, i, s) /\ (name = "insert" => s \in Values /\ i <= max_index[a])
  BY <1>1
<1>3. /\ call' = name /\ array' = a /\ index' = i /\ string' = s /\ ae' = LastrefStart(a, i)
      /\ UNCHANGED <<arrays, elements, lastrefs, steps, results>>
  BY <1>2 DEF Search
<1>4. LastrefStart(a, i) \in Nodes(a) /\ LastrefStart(a, i) \in Addresses
  BY <1>1, SearchInNodes, NodesAreAddresses DEF IInv
<1>5. TypeOK'
  BY <1>3, <1>4 DEF IInv, TypeOK, arrays, elements, links, lastrefs, results
<1>6. Shape' /\ \A b : Owned(b)' = Owned(b) /\ Nodes(b)' = Nodes(b)
  BY <1>3, UnchangedShape
<1>7. LastrefInArray' /\ InsertSucceeds'
  BY <1>3, <1>6 DEF IInv, LastrefInArray, InsertSucceeds, lastrefs, arrays, results
<1>8. \A e \in Owned(a) : ind[e] >= i => LastrefStart(a, i) # a /\ ind[LastrefStart(a, i)] <= ind[e]
  BY <1>1, SearchBegins
<1>9. \A e \in Owned(a) : ind[e] = i => LastrefStart(a, i) # a /\ ind[LastrefStart(a, i)] <= ind[e]
  BY <1>1, <1>8, NodesAreAddresses, ArrayListAssumption DEF Indices, IInv, Nodes
<1>10. Passed'
  BY <1>1, <1>2, <1>3, <1>4, <1>6, <1>8, <1>9 DEF Passed, arrays, elements
<1> QED
  BY <1>5, <1>6, <1>7, <1>10 DEF IInv

\* A search goes on, and what it looks for is not before the next node either.
LEMMA SearchNextPreserves ==
  ASSUME IInv, search_next
  PROVE  IInv'
<1> USE NodesAreAddresses
<1>1. /\ array \in live /\ ae \in Owned(array) /\ ae \in Nodes(array) /\ ind[ae] # index
      /\ call \in {"insert", "remove", "reference"} /\ (call = "insert" => ind[ae] < index)
      /\ ae' = next[ae]
      /\ UNCHANGED <<arrays, elements, lastrefs, call, arguments, steps, results>>
  BY DEF search_next, IInv, Passed, Nodes
<1>2. next[ae] \in Nodes(array) /\ next[ae] \in Addresses /\ index \in Int
  BY <1>1, ArrayListAssumption DEF IInv, Shape, Ring, TypeOK, Indices
<1>3. Shape' /\ \A b : Owned(b)' = Owned(b) /\ Nodes(b)' = Nodes(b)
  BY <1>1, UnchangedShape
<1>4. TypeOK'
  BY <1>1, <1>2 DEF IInv, TypeOK, arrays, elements, links, lastrefs, results, arguments
<1>5. LastrefInArray' /\ InsertSucceeds'
  BY <1>1, <1>3 DEF IInv, LastrefInArray, InsertSucceeds, lastrefs, arrays, results
<1>6. \A e \in Owned(array) : ind[ae] < ind[e] => next[ae] # array /\ ind[next[ae]] <= ind[e]
  BY <1>1 DEF IInv, Shape, Ordered, Nodes
<1>7. \A e \in Owned(array) : e \in Nodes(array) /\ ind[e] \in Int
  BY <1>1 DEF IInv, Nodes
<1>8. Passed'
  <2>1. CASE call = "insert"
    <3>1. \A e \in Owned(array) : ind[e] >= index => next[ae] # array /\ ind[next[ae]] <= ind[e]
      BY <2>1, <1>1, <1>2, <1>6, <1>7 DEF IInv
    <3> QED
      BY <3>1, <2>1, <1>1, <1>2, <1>3 DEF IInv, Passed, arguments, arrays, elements
  <2>2. CASE call \in {"remove", "reference"}
    <3>1. \A e \in Owned(array) : ind[e] = index => ind[ae] < ind[e]
      BY <2>2, <1>1, <1>2, <1>7 DEF IInv, Passed
    <3>2. \A e \in Owned(array) : ind[e] = index => next[ae] # array /\ ind[next[ae]] <= ind[e]
      BY <3>1, <1>6
    <3> QED
      BY <3>2, <2>2, <1>1, <1>2, <1>3 DEF IInv, Passed, arguments, arrays, elements
  <2> QED
    BY <2>1, <2>2, <1>1
<1> QED
  BY <1>3, <1>4, <1>5, <1>8 DEF IInv

\* Nothing of index or above is left when an insertion comes to the head: the last
\* element would be, so that search_fails is never for an insertion.
LEMMA SearchFailsPreserves ==
  ASSUME IInv, search_fails
  PROVE  IInv' /\ call # "insert"
<1> USE NodesAreAddresses
<1>1. array \in live /\ ae = array /\ TypeOK
  BY DEF search_fails, IInv, Passed
<1>2. call # "insert"
  <2> SUFFICES ASSUME call = "insert" PROVE FALSE
    OBVIOUS
  <2>1. index <= ind[prev[array]] /\ prev[array] \in Nodes(array) /\ next[prev[array]] = array
    BY <1>1 DEF IInv, Passed, Shape, Counted, Ring, Nodes
  <2>2. index >= 0 /\ index \in Int /\ ind[array] = -1
    BY <1>1, ArrayListAssumption DEF TypeOK, Indices, IInv, Shape, Ordered
  <2>3. prev[array] \in Owned(array) /\ ind[prev[array]] >= index
    BY <2>1, <2>2, <1>1 DEF Nodes
  <2> QED
    BY <2>3, <1>1 DEF IInv, Passed
<1>3. /\ problem' = problem /\ answer' = NULL /\ Return
      /\ UNCHANGED <<arrays, elements>>
      /\ (lastarray' = NULL /\ lastref' = NULL) \/ UNCHANGED lastrefs
  <2>1. problem' = (problem \/ FALSE) /\ problem \in BOOLEAN
    BY <1>1, <1>2 DEF search_fails, TypeOK
  <2> QED
    BY <2>1, <1>2 DEF search_fails, UnsetLastref
<1>4. Shape' /\ \A b : Owned(b)' = Owned(b) /\ Nodes(b)' = Nodes(b)
  BY <1>3, UnchangedShape
<1>5. TypeOK'
  BY <1>1, <1>3, ArrayListAssumption DEF TypeOK, Return, arrays, elements, links, lastrefs, Indices
<1>6. LastrefInArray' /\ InsertSucceeds' /\ Passed'
  BY <1>3, <1>4 DEF IInv, LastrefInArray, InsertSucceeds, Passed, Return, lastrefs, arrays
<1> QED
  BY <1>2, <1>4, <1>5, <1>6 DEF IInv

\* answer_none, insert_replaces and reference_found leave the ring alone.
LEMMA AnswerPreserves ==
  ASSUME IInv, \/ \E a \in Arrays, i \in Indices : answer_none(a, i)
               \/ reference_found
  PROVE  IInv'
<1> USE NodesAreAddresses
<1>1. UNCHANGED <<arrays, elements>> /\ problem' = problem
  BY DEF answer_none, reference_found
<1>2. Shape' /\ \A b : Owned(b)' = Owned(b) /\ Nodes(b)' = Nodes(b)
  BY <1>1, UnchangedShape
<1>3. CASE \E a \in Arrays, i \in Indices : answer_none(a, i)
  <2>1. UNCHANGED <<lastrefs, locals>> /\ answer' = NULL
    BY <1>3 DEF answer_none
  <2>2. TypeOK'
    BY <2>1, <1>1 DEF IInv, TypeOK, arrays, elements, links, lastrefs, locals, arguments
  <2>3. Dropped' = Dropped
    BY <2>1, <1>1, <1>2 DEF Dropped, locals, arguments, elements
  <2>4. LastrefInArray' /\ InsertSucceeds' /\ Passed'
    BY <2>1, <2>3, <1>1, <1>2 DEF IInv, LastrefInArray, InsertSucceeds, Passed, lastrefs, locals, arguments, arrays, elements
  <2> QED
    BY <2>2, <2>4, <1>2 DEF IInv
<1>4. CASE reference_found
  <2>1. array \in live /\ ae \in Owned(array) /\ lastarray' = array /\ lastref' = ae /\ Return /\ answer' = value[ae]
    BY <1>4 DEF reference_found, Searching, SetLastref, IInv, Passed, Nodes
  <2>2. value[ae] \in Values /\ array \in Arrays /\ ae \in Elements
    BY <2>1 DEF IInv, Shape, Ordered
  <2>3. TypeOK'
    BY <2>1, <2>2, <1>1, ArrayListAssumption DEF IInv, TypeOK, Return, arrays, elements, links, Indices
  <2>4. LastrefInArray' /\ InsertSucceeds' /\ Passed'
    BY <2>1, <1>1, <1>2 DEF IInv, LastrefInArray, InsertSucceeds, Passed, Return, arrays
  <2> QED
    BY <2>3, <2>4, <1>2 DEF IInv
<1> QED
  BY <1>3, <1>4

LEMMA InsertReplacesPreserves ==
  ASSUME IInv, insert_replaces
  PROVE  IInv'
<1> USE NodesAreAddresses
<1>1. /\ array \in live /\ ae \in Owned(array) /\ lastarray' = array /\ lastref' = ae /\ Return
      /\ value' = [value EXCEPT ![ae] = string] /\ string \in Values
      /\ UNCHANGED <<arrays, owner, ind, links, results>>
  BY DEF insert_replaces, Searching, SetLastref, IInv, Passed, Nodes
<1>2. array \in Arrays /\ ae \in Elements
  BY <1>1 DEF IInv
<1>3. TypeOK'
  BY <1>1, <1>2, ArrayListAssumption DEF IInv, TypeOK, Return, arrays, links, results, Indices
<1>4. \A a : Owned(a)' = Owned(a) /\ Nodes(a)' = Nodes(a)
  BY <1>1 DEF Owned, Nodes
<1>5. \A a \in live : \A e \in Owned(a) : value[e] \in Values => value'[e] \in Values
  BY <1>1, <1>2 DEF IInv, TypeOK, Owned
<1>6. Ring' /\ Counted'
  BY <1>1, <1>4 DEF links, arrays, IInv, Shape, Ring, Counted
<1>7. Ordered'
  BY <1>1, <1>4, <1>5 DEF links, arrays, IInv, Shape, Ordered
<1>8. LastrefInArray' /\ InsertSucceeds' /\ Passed'
  BY <1>1, <1>4 DEF IInv, LastrefInArray, InsertSucceeds, Passed, Return, arrays, results
<1> QED
  BY <1>3, <1>6, <1>7, <1>8 DEF IInv, Shape

\* array_create, array_flush and array_dispose.
LEMMA CreatePreserves ==
  ASSUME IInv, NEW a \in Arrays, array_create(a)
  PROVE  IInv'
<1>1. /\ call = "none" /\ a \notin live /\ live' = live \union {a} /\ a \in Addresses
      /\ num_elements' = [num_elements EXCEPT ![a] = 0] /\ max_index' = [max_index EXCEPT ![a] = -1]
      /\ ind' = [ind EXCEPT ![a] = -1]
      /\ next' = [next EXCEPT ![a] = a] /\ prev' = [prev EXCEPT ![a] = a]
      /\ UNCHANGED <<locals, results>> /\ UNCHANGED <<owner, value, lastrefs>>
  BY DEF array_create, Idle, UnchangedCall, Addresses
<1>2. TypeOK'
  <2>1. /\ live' \in SUBSET Arrays /\ owner' \in [Elements -> live' \union {NULL}]
        /\ num_elements' \in [Arrays -> Nat] /\ max_index' \in [Arrays -> Indices \union {-1}]
        /\ ind' \in [Addresses -> Indices \union {-1}]
        /\ next' \in [Addresses -> Addresses] /\ prev' \in [Addresses -> Addresses]
    BY <1>1 DEF IInv, TypeOK
  <2> QED
    BY <2>1, <1>1 DEF IInv, TypeOK, locals, arguments, results, lastrefs
<1>3. Shape'
  BY CreatedShape DEF IInv
<1>4. \A b : Owned(b)' = Owned(b)
  BY <1>1 DEF Owned
<1>5. LastrefInArray' /\ InsertSucceeds' /\ Passed'
  BY <1>1, <1>4 DEF IInv, LastrefInArray, InsertSucceeds, Passed, locals, results, lastrefs
<1> QED
  BY <1>2, <1>3, <1>5 DEF IInv

LEMMA EmptiedType ==
  ASSUME TypeOK, NEW a \in live, Emptied(a), live' = live \/ live' = live \ {a}
  PROVE  /\ live' \in SUBSET Arrays /\ owner' \in [Elements -> live' \union {NULL}]
         /\ ind' \in [Addresses -> Indices \union {-1}] /\ value' \in [Elements -> Values \union {NULL}]
         /\ next' \in [Addresses -> Addresses] /\ prev' \in [Addresses -> Addresses]
         /\ num_elements' \in [Arrays -> Nat] /\ max_index' \in [Arrays -> Indices \union {-1}]
<1>1. \A e \in Elements : owner'[e] = (IF e \in Owned(a) THEN NULL ELSE owner[e])
  BY DEF Emptied, Dispose
<1>2. \A e \in Elements : owner'[e] \in live' \union {NULL}
  BY <1>1 DEF Owned, TypeOK
<1>3. owner' \in [Elements -> live' \union {NULL}] /\ value' \in [Elements -> Values \union {NULL}]
  BY <1>2 DEF Emptied, Dispose, TypeOK
<1>4. ind' \in [Addresses -> Indices \union {-1}]
  BY DEF Emptied, TypeOK
<1>5. next' \in [Addresses -> Addresses] /\ prev' \in [Addresses -> Addresses]
  BY DEF Emptied, Relinked, TypeOK
<1> QED
  BY <1>3, <1>4, <1>5 DEF Emptied, TypeOK

LEMMA EmptyPreserves ==
  ASSUME IInv, NEW a \in Arrays, array_flush(a) \/ array_dispose(a)
  PROVE  IInv'
<1>1. /\ call = "none" /\ a \in live /\ Emptied(a) /\ InvalidateLastref(a)
      /\ UNCHANGED <<locals, results>> /\ (live' = live \/ live' = live \ {a})
  BY DEF array_flush, array_dispose, Idle, UnchangedCall
<1>2. Shape' /\ \A b \in live \ {a} : Owned(b)' = Owned(b)
  BY <1>1, EmptiedShape DEF IInv
<1>3. lastarray' # a /\ (lastarray' = NULL \/ (lastarray' = lastarray /\ lastref' = lastref))
  BY <1>1, NodesAreAddresses DEF IInv, InvalidateLastref, UnsetLastref, lastrefs
<1>4. lastarray' \in Arrays \union {NULL} /\ lastref' \in Elements \union {NULL}
  BY <1>1 DEF IInv, TypeOK, InvalidateLastref, UnsetLastref, lastrefs
<1>5. TypeOK'
  BY <1>1, <1>4, EmptiedType DEF IInv, TypeOK, locals, arguments, results
<1>6. LastrefInArray'
  BY <1>1, <1>2, <1>3 DEF IInv, LastrefInArray
<1>7. InsertSucceeds' /\ Passed'
  BY <1>1 DEF IInv, InsertSucceeds, Passed, locals, results
<1> QED
  BY <1>2, <1>5, <1>6, <1>7 DEF IInv

\* A shift by the number of elements or more; lastarray is not the array by then.
LEMMA ShiftAllPreserves ==
  ASSUME IInv, shift_all, NEW a, a = array
  PROVE  IInv'
<1>1. a \in live /\ lastarray # a /\ Emptied(a) /\ Return /\ UNCHANGED <<live, lastrefs, results>>
  BY DEF shift_all, IInv, Passed
<1>2. Shape' /\ \A b \in live \ {a} : Owned(b)' = Owned(b)
  BY <1>1, EmptiedShape DEF IInv
<1>3. TypeOK'
  BY <1>1, EmptiedType, ArrayListAssumption DEF IInv, TypeOK, Return, results, lastrefs, Indices
<1>4. LastrefInArray'
  BY <1>1, <1>2 DEF IInv, LastrefInArray, lastrefs
<1>5. InsertSucceeds' /\ Passed'
  BY <1>1 DEF IInv, InsertSucceeds, Passed, Return, results
<1> QED
  BY <1>2, <1>3, <1>4, <1>5 DEF IInv

\* The operations that add an element.
LEMMA AddedType ==
  ASSUME TypeOK, Ring, NEW a \in live, NEW n \in Nodes(a), NEW new \in Free, NEW v \in Values,
         AddBefore(a, n, new, v), live' = live
  PROVE  /\ owner' \in [Elements -> live' \union {NULL}] /\ value' \in [Elements -> Values \union {NULL}]
         /\ next' \in [Addresses -> Addresses] /\ prev' \in [Addresses -> Addresses]
         /\ num_elements' \in [Arrays -> Nat]
         /\ new \in Elements /\ new \in Addresses /\ new \notin Nodes(a)
         /\ new \in Owned(a)' /\ prev'[n] = new
<1> USE NodesAreAddresses
<1>1. new \in Elements /\ new \in Addresses /\ new \notin Nodes(a)
  BY ArrayListAssumption DEF Free, Addresses, Nodes, Owned, TypeOK
<1>2. prev[n] \in Addresses /\ n \in Addresses /\ n # new
  BY <1>1 DEF Ring
<1>3. owner' \in [Elements -> live' \union {NULL}] /\ value' \in [Elements -> Values \union {NULL}]
  BY DEF AddBefore, TypeOK
<1>4. next' \in [Addresses -> Addresses] /\ prev' \in [Addresses -> Addresses] /\ num_elements' \in [Arrays -> Nat]
  BY <1>1, <1>2 DEF AddBefore, TypeOK
<1>5. new \in Owned(a)'
  BY AddedToRing
<1>6. prev'[n] = new
  BY <1>2 DEF AddBefore, TypeOK
<1> QED
  BY <1>1, <1>3, <1>4, <1>5, <1>6

LEMMA InsertAtEndPreserves ==
  ASSUME IInv, NEW a \in Arrays, NEW i \in Indices, NEW v \in Values, insert_at_end(a, i, v)
  PROVE  IInv'
<1> USE NodesAreAddresses
<1>1. PICK new \in Free : /\ AddBefore(a, a, new, v) /\ ind' = [ind EXCEPT ![new] = i]
                          /\ SetLastref(a, new)
  BY DEF insert_at_end
<1>2. /\ call = "none" /\ a \in live /\ i > max_index[a] /\ a \in Nodes(a)
      /\ max_index' = [max_index EXCEPT ![a] = i] /\ UNCHANGED <<live, locals, results>>
  BY DEF insert_at_end, Idle, UnchangedCall, Nodes
<1>3. /\ TypeOK /\ Shape /\ Ring /\ Ordered /\ Counted
  BY DEF IInv, Shape
<1>4. /\ owner' \in [Elements -> live' \union {NULL}] /\ value' \in [Elements -> Values \union {NULL}]
      /\ next' \in [Addresses -> Addresses] /\ prev' \in [Addresses -> Addresses]
      /\ num_elements' \in [Arrays -> Nat]
      /\ new \in Elements /\ new \in Addresses /\ new \notin Nodes(a)
      /\ new \in Owned(a)' /\ prev'[a] = new
  BY <1>1, <1>2, <1>3, AddedType
<1>5. /\ ind' \in [Addresses -> Indices \union {-1}] /\ ind'[new] = i
      /\ \A x \in Addresses \ {new} : ind'[x] = ind[x]
      /\ max_index' \in [Arrays -> Indices \union {-1}] /\ i \in Int /\ i >= 0
  BY <1>1, <1>2, <1>3, <1>4, ArrayListAssumption DEF TypeOK, Indices
<1>6. Shape'
  <2>1. /\ ind' \in [Addresses -> Int] /\ ind'[a] = -1
        /\ max_index' = [max_index EXCEPT ![a] = ind'[prev'[a]]]
    BY <1>2, <1>3, <1>4, <1>5, ArrayListAssumption DEF Indices, Ordered
  <2>2. \A x \in Nodes(a) : ind'[x] = ind[x]
    BY <1>2, <1>3, <1>4, <1>5
  <2>3. \A x \in Owned(a) \union {new} : ind'[x] >= 0
    BY <2>2, <1>2, <1>3, <1>5 DEF Ordered, Nodes
  <2>4. ind'[prev[a]] < ind'[new]
    BY <2>2, <1>2, <1>3, <1>5 DEF Counted, Ring
  <2> QED
    BY <2>1, <2>2, <2>3, <2>4, <1>1, <1>2, <1>3, <1>5, AddedInOrder
<1>7. TypeOK'
  BY <1>1, <1>2, <1>4, <1>5 DEF IInv, TypeOK, SetLastref, locals, arguments, results
<1>8. LastrefInArray' /\ InsertSucceeds' /\ Passed'
  BY <1>1, <1>2, <1>4 DEF IInv, SetLastref, LastrefInArray, InsertSucceeds, Passed, locals, results
<1> QED
  BY <1>6, <1>7, <1>8 DEF IInv

\* ae is the first element with a greater index: the one before it is less, since
\* an element between would have been met first.
LEMMA InsertBeforePreserves ==
  ASSUME IInv, insert_before, NEW a, NEW e, a = array, e = ae
  PROVE  IInv'
<1> USE NodesAreAddresses
<1>1. PICK new \in Free : /\ AddBefore(a, e, new, string) /\ ind' = [ind EXCEPT ![new] = index]
                          /\ SetLastref(a, new)
  BY DEF insert_before
<1>2. /\ call = "insert" /\ a \in live /\ e \in Nodes(a) /\ e # a /\ e \in Owned(a) /\ ind[e] > index
      /\ string \in Values /\ a \in Nodes(a)
      /\ \A x \in Owned(a) : ind[x] >= index => ind[e] <= ind[x]
      /\ Return /\ UNCHANGED <<live, max_index, results>>
  BY DEF insert_before, Searching, IInv, Passed, Nodes
<1>3. /\ TypeOK /\ Shape /\ Ring /\ Ordered /\ Counted
  BY DEF IInv, Shape
<1>4. /\ owner' \in [Elements -> live' \union {NULL}] /\ value' \in [Elements -> Values \union {NULL}]
      /\ next' \in [Addresses -> Addresses] /\ prev' \in [Addresses -> Addresses]
      /\ num_elements' \in [Arrays -> Nat]
      /\ new \in Elements /\ new \in Addresses /\ new \notin Nodes(a)
      /\ new \in Owned(a)' /\ prev'[e] = new
  BY <1>1, <1>2, <1>3, AddedType
<1>5. /\ ind' \in [Addresses -> Indices \union {-1}] /\ ind'[new] = index
      /\ \A x \in Addresses \ {new} : ind'[x] = ind[x]
      /\ index \in Int /\ index >= 0
  BY <1>1, <1>3, <1>4, ArrayListAssumption DEF TypeOK, Indices
<1>6. Shape'
  <2>1. prev'[a] = prev[a] /\ prev[a] \in Nodes(a) /\ prev[e] \in Nodes(a) /\ next[prev[e]] = e
    BY <1>1, <1>2, <1>3, <1>4 DEF AddBefore, Ring, TypeOK
  <2>2. \A x \in Nodes(a) : ind'[x] = ind[x]
    BY <1>2, <1>3, <1>4, <1>5
  <2>3. /\ ind' \in [Addresses -> Int] /\ ind'[a] = -1
        /\ max_index' = [max_index EXCEPT ![a] = ind'[prev'[a]]]
    <3>1. max_index[a] = ind'[prev'[a]]
      BY <2>1, <2>2, <1>2, <1>3 DEF Counted
    <3> QED
      BY <3>1, <2>2, <1>2, <1>3, <1>5, ArrayListAssumption DEF Indices, Ordered, TypeOK
  <2>4. \A x \in Owned(a) \union {new} : ind'[x] >= 0
    BY <2>2, <1>2, <1>3, <1>5 DEF Ordered, Nodes
  <2>5. ind[prev[e]] < ind[e]
    BY <2>1, <1>2, <1>3 DEF Ordered
  <2>6. ind'[prev[e]] < ind'[new]
    <3>1. CASE prev[e] = a
      BY <3>1, <2>2, <2>3, <1>5
    <3>2. CASE prev[e] # a
      <4>1. prev[e] \in Owned(a) /\ ind[prev[e]] \in Int /\ ind[e] \in Int
        BY <3>2, <2>1, <1>2, <1>3 DEF Nodes
      <4> QED
        BY <4>1, <2>1, <2>2, <2>5, <1>2, <1>5
    <3> QED
      BY <3>1, <3>2
  <2>7. ind'[new] < ind'[e]
    BY <2>2, <1>2, <1>3, <1>5
  <2> QED
    BY <2>2, <2>3, <2>4, <2>6, <2>7, <1>1, <1>2, <1>3, <1>5, AddedInOrder
<1>7. TypeOK'
  BY <1>1, <1>2, <1>4, <1>5, ArrayListAssumption DEF IInv, TypeOK, SetLastref, Return, results, Indices
<1>8. LastrefInArray' /\ InsertSucceeds' /\ Passed'
  BY <1>1, <1>2, <1>4 DEF IInv, SetLastref, LastrefInArray, InsertSucceeds, Passed, Return, results
<1> QED
  BY <1>6, <1>7, <1>8 DEF IInv

LEMMA RShiftPreserves ==
  ASSUME IInv, NEW a \in Arrays, NEW n \in Shifts, NEW v \in Values,
         rshift_empty(a, n, v) \/ array_rshift(a, n, v)
  PROVE  IInv'
<1> USE NodesAreAddresses
<1>1. /\ call = "none" /\ a \in live /\ a \in Nodes(a) /\ UNCHANGED <<live, locals, results>>
      /\ n \in Nat /\ n > 0
  BY ArrayListAssumption DEF rshift_empty, array_rshift, Idle, UnchangedCall, Nodes, Shifts, Indices
<1>2. /\ TypeOK /\ Shape /\ Ring /\ Ordered /\ Counted
  BY DEF IInv, Shape
<1>3. PICK new \in Free :
        /\ AddBefore(a, next[a], new, v)
        /\ \/ num_elements[a] = 0 /\ ind' = [ind EXCEPT ![new] = 0] /\ max_index' = [max_index EXCEPT ![a] = 0]
              /\ UNCHANGED lastrefs
           \/ /\ num_elements[a] # 0 /\ max_index[a] + n <= MaxIndex
              /\ ind' = [Renumbered(a, n) EXCEPT ![new] = 0]
              /\ max_index' = [max_index EXCEPT ![a] = ind'[prev'[a]]]
              /\ InvalidateLastref(a)
  BY DEF rshift_empty, array_rshift
<1>4. next[a] \in Nodes(a) /\ prev[next[a]] = a
  BY <1>1, <1>2 DEF Ring
<1>5. /\ owner' \in [Elements -> live' \union {NULL}] /\ value' \in [Elements -> Values \union {NULL}]
      /\ next' \in [Addresses -> Addresses] /\ prev' \in [Addresses -> Addresses]
      /\ num_elements' \in [Arrays -> Nat]
      /\ new \in Elements /\ new \in Addresses /\ new \notin Nodes(a)
      /\ new \in Owned(a)' /\ prev'[next[a]] = new
  BY <1>1, <1>2, <1>3, <1>4, AddedType
<1>6. ind[a] = -1 /\ a \in Addresses /\ \A x \in Owned(a) : ind[x] \in Int /\ ind[x] >= 0 /\ ind[x] <= max_index[a]
  BY <1>1, <1>2, LastIsGreatest DEF Ordered, Nodes, Counted
<1>7. /\ ind' \in [Addresses -> Indices \union {-1}] /\ ind'[new] = 0 /\ ind'[a] = -1
      /\ \A x \in Addresses : x \notin Nodes(a) \union {new} => ind'[x] = ind[x]
      /\ max_index' = [max_index EXCEPT ![a] = ind'[prev'[a]]]
      /\ (\A x \in Owned(a) : ind'[x] = ind[x]) \/ (\A x \in Owned(a) : ind'[x] = ind[x] + n)
      /\ num_elements[a] = 0 => Owned(a) = {}
  <2>1. CASE num_elements[a] = 0
    <3>1. Owned(a) = {} /\ next[a] = a
      BY <2>1, <1>1, <1>2, EmptyRing
    <3>2. ind' = [ind EXCEPT ![new] = 0] /\ max_index' = [max_index EXCEPT ![a] = 0]
      BY <2>1, <1>3
    <3>3. ind' \in [Addresses -> Indices \union {-1}] /\ ind'[new] = 0
      BY <3>2, <1>2, <1>5, ArrayListAssumption DEF TypeOK, Indices
    <3>4. \A x \in Addresses \ {new} : ind'[x] = ind[x]
      BY <3>2, <1>2, <1>5 DEF TypeOK
    <3> QED
      BY <3>1, <3>2, <3>3, <3>4, <1>1, <1>5, <1>6
  <2>2. CASE num_elements[a] # 0
    <3>1. /\ max_index[a] + n <= MaxIndex /\ ind' = [Renumbered(a, n) EXCEPT ![new] = 0]
          /\ max_index' = [max_index EXCEPT ![a] = ind'[prev'[a]]]
      BY <2>2, <1>3
    <3>2. ind'[new] = 0 /\ \A x \in Addresses \ {new} : ind'[x] = IF x \in Owned(a) THEN ind[x] + n ELSE ind[x]
      BY <3>1, <1>5 DEF Renumbered
    <3>3. \A x \in Owned(a) : ind[x] + n \in Indices
      BY <3>1, <1>1, <1>2, <1>6, ArrayListAssumption DEF Indices, TypeOK
    <3>4. \A x \in Addresses : ind'[x] \in Indices \union {-1}
      BY <3>2, <3>3, <1>2, ArrayListAssumption DEF TypeOK, Indices
    <3>5. ind' \in [Addresses -> Indices \union {-1}]
      BY <3>1, <3>4, <1>5 DEF Renumbered
    <3>6. a \notin Owned(a) /\ a # new /\ Owned(a) \subseteq Addresses /\ new \notin Owned(a)
      BY <1>1, <1>2, <1>5 DEF Nodes
    <3>7. ind'[a] = -1 /\ \A x \in Owned(a) : ind'[x] = ind[x] + n
      BY <3>2, <3>6, <1>6
    <3>8. \A x \in Addresses : x \notin Nodes(a) \union {new} => ind'[x] = ind[x]
      BY <3>2 DEF Nodes
    <3> QED
      BY <2>2, <3>1, <3>2, <3>5, <3>7, <3>8
  <2> QED
    BY <2>1, <2>2
<1>8. Shape'
  <2>1. ind' \in [Addresses -> Int]
    BY <1>7, ArrayListAssumption DEF Indices
  <2>2. \A x \in Owned(a) \union {new} : ind'[x] >= 0 /\ ind'[x] \in Int
    BY <1>1, <1>6, <1>7
  <2>3. \A x, y \in Nodes(a) : ind'[x] < ind'[y] <=> ind[x] < ind[y]
    <3>1. CASE \A x \in Owned(a) : ind'[x] = ind[x]
      BY <3>1, <1>6, <1>7 DEF Nodes
    <3>2. CASE \A x \in Owned(a) : ind'[x] = ind[x] + n
      BY <3>2, <1>1, <1>6, <1>7 DEF Nodes
    <3> QED
      BY <3>1, <3>2, <1>7
  <2>4. ind'[prev[next[a]]] < ind'[new]
    BY <1>4, <1>7
  <2>5. next[a] # a => ind'[new] < ind'[next[a]]
    <3> SUFFICES ASSUME next[a] # a PROVE ind'[new] < ind'[next[a]]
      OBVIOUS
    <3>1. num_elements[a] # 0 /\ next[a] \in Owned(a)
      BY <1>1, <1>2, <1>4, EmptyRing DEF Nodes
    <3>2. ind' = [Renumbered(a, n) EXCEPT ![new] = 0] /\ next[a] # new /\ next[a] \in Addresses
      BY <3>1, <1>1, <1>2, <1>3, <1>4, <1>5
    <3>3. ind'[next[a]] = ind[next[a]] + n
      BY <3>1, <3>2 DEF Renumbered
    <3> QED
      BY <3>1, <3>3, <1>1, <1>6, <1>7
  <2> QED
    BY <2>1, <2>2, <2>3, <2>4, <2>5, <1>1, <1>2, <1>3, <1>4, <1>7, AddedInOrder
<1>9. /\ Owned(a)' = Owned(a) \union {new} /\ \A b \in live : b # a => Owned(b)' = Owned(b)
  BY <1>1, <1>2, <1>3, <1>4, AddedToRing
<1>10. max_index' \in [Arrays -> Indices \union {-1}]
  <2>1. prev'[a] \in Addresses
    BY <1>5, <1>6
  <2> QED
    BY <2>1, <1>2, <1>7 DEF TypeOK
<1>11. (lastarray' = NULL /\ lastref' = NULL) \/ UNCHANGED lastrefs
  BY <1>3 DEF InvalidateLastref, UnsetLastref
<1>12. TypeOK'
  BY <1>1, <1>2, <1>5, <1>7, <1>10, <1>11 DEF TypeOK, locals, arguments, results, lastrefs
<1>13. LastrefInArray' /\ InsertSucceeds' /\ Passed'
  BY <1>1, <1>9, <1>11 DEF IInv, LastrefInArray, InsertSucceeds, Passed, locals, results, lastrefs
<1> QED
  BY <1>8, <1>12, <1>13 DEF IInv

LEMMA RShiftNullPreserves ==
  ASSUME IInv, NEW a \in Arrays, NEW n \in Shifts, rshift_null(a, n)
  PROVE  IInv'
<1> USE NodesAreAddresses
<1>1. /\ call = "none" /\ a \in live /\ n \in Nat /\ max_index[a] + n <= MaxIndex
      /\ ind' = Renumbered(a, n) /\ max_index' = [max_index EXCEPT ![a] = ind'[prev[a]]]
      /\ InvalidateLastref(a) /\ UNCHANGED <<locals, results>>
      /\ UNCHANGED <<live, num_elements, owner, value, links>>
  BY ArrayListAssumption DEF rshift_null, Idle, UnchangedCall, Shifts, Indices
<1>2. TypeOK /\ Shape /\ Ring /\ Ordered /\ Counted
  BY DEF IInv, Shape
<1>3. Shape' /\ \A b \in live : Owned(b)' = Owned(b)
  BY <1>1, <1>2, RenumberedShape
<1>4. \A x \in Owned(a) : ind[x] + n \in Indices
  <2>1. \A x \in Owned(a) : ind[x] \in Int /\ ind[x] >= 0 /\ ind[x] <= max_index[a]
    BY <1>1, <1>2, LastIsGreatest DEF Ordered, Nodes, Counted
  <2> QED
    BY <2>1, <1>1, <1>2, ArrayListAssumption DEF Indices, TypeOK
<1>5. ind' \in [Addresses -> Indices \union {-1}]
  BY <1>1, <1>2, <1>4 DEF Renumbered, TypeOK
<1>6. max_index' \in [Arrays -> Indices \union {-1}]
  BY <1>1, <1>2, <1>5 DEF TypeOK
<1>7. (lastarray' = NULL /\ lastref' = NULL) \/ UNCHANGED lastrefs
  BY <1>1 DEF InvalidateLastref, UnsetLastref
<1>8. TypeOK'
  BY <1>1, <1>2, <1>5, <1>6, <1>7 DEF TypeOK, locals, arguments, results, lastrefs, links
<1>9. LastrefInArray' /\ InsertSucceeds' /\ Passed'
  BY <1>1, <1>3, <1>7 DEF IInv, LastrefInArray, InsertSucceeds, Passed, locals, results, lastrefs
<1> QED
  BY <1>3, <1>8, <1>9 DEF IInv

\* lastref moves to a neighbour of the element that goes, or away.
LEMMA RemovePreserves ==
  ASSUME IInv, remove_found, NEW a, NEW e, a = array, e = ae
  PROVE  IInv'
<1> USE NodesAreAddresses
<1>1. /\ a \in live /\ a \in Nodes(a) /\ e \in Owned(a) /\ e \in Nodes(a) /\ e # a /\ e \in Elements
      /\ TypeOK /\ Shape /\ Ring /\ Ordered /\ Counted
  BY DEF remove_found, Searching, IInv, Passed, Nodes, Shape
<1>2. /\ next' = [next EXCEPT ![prev[e]] = next[e], ![e] = e]
      /\ prev' = [prev EXCEPT ![next[e]] = prev[e], ![e] = e]
      /\ ind' = [ind EXCEPT ![e] = -1] /\ Dispose({e})
      /\ num_elements' = [num_elements EXCEPT ![a] = @ - 1]
      /\ max_index' = IF index = max_index[a] THEN [max_index EXCEPT ![a] = ind[prev[e]]] ELSE max_index
      /\ answer' = value[e] /\ Return /\ UNCHANGED <<live, problem>>
      /\ \/ next[e] # a /\ SetLastref(a, next[e])
         \/ prev[e] # a /\ SetLastref(a, prev[e])
         \/ InvalidateLastref(a)
  BY DEF remove_found
<1>3. /\ Shape' /\ Owned(a)' = Owned(a) \ {e} /\ \A b \in live \ {a} : Owned(b)' = Owned(b)
  BY RemovedShape DEF IInv
<1>4. /\ next[e] \in Nodes(a) /\ prev[e] \in Nodes(a) /\ next[prev[e]] = e
      /\ next[e] \in Addresses /\ prev[e] \in Addresses /\ e \in Addresses
  BY <1>1 DEF Ring
<1>5. next[e] # e /\ prev[e] # e
  <2>1. next[e] # e
    BY <1>1 DEF Ordered
  <2> QED
    BY <2>1, <1>4
<1>6. \/ lastarray' = a /\ lastref' \in Owned(a)'
      \/ lastarray' = NULL /\ lastref' = NULL
      \/ UNCHANGED lastrefs /\ lastarray # a
  <2>1. CASE next[e] # a /\ SetLastref(a, next[e])
    BY <2>1, <1>3, <1>4, <1>5 DEF SetLastref, Nodes
  <2>2. CASE prev[e] # a /\ SetLastref(a, prev[e])
    BY <2>2, <1>3, <1>4, <1>5 DEF SetLastref, Nodes
  <2>3. CASE InvalidateLastref(a)
    BY <2>3 DEF InvalidateLastref, UnsetLastref
  <2> QED
    BY <2>1, <2>2, <2>3, <1>2
<1>7. num_elements[a] # 0
  BY <1>1, EmptyRing
<1>8. /\ owner' \in [Elements -> live' \union {NULL}] /\ value' \in [Elements -> Values \union {NULL}]
      /\ ind' \in [Addresses -> Indices \union {-1}]
      /\ next' \in [Addresses -> Addresses] /\ prev' \in [Addresses -> Addresses]
      /\ num_elements' \in [Arrays -> Nat] /\ max_index' \in [Arrays -> Indices \union {-1}]
  <2>1. owner' \in [Elements -> live' \union {NULL}] /\ value' \in [Elements -> Values \union {NULL}]
    BY <1>1, <1>2 DEF Dispose, TypeOK
  <2>2. next' \in [Addresses -> Addresses] /\ prev' \in [Addresses -> Addresses]
    BY <1>1, <1>2, <1>4 DEF TypeOK
  <2>3. num_elements' \in [Arrays -> Nat]
    BY <1>1, <1>2, <1>7 DEF TypeOK
  <2>4. ind' \in [Addresses -> Indices \union {-1}]
    BY <1>1, <1>2 DEF TypeOK
  <2>5. max_index' \in [Arrays -> Indices \union {-1}]
    BY <1>1, <1>2, <1>4 DEF TypeOK
  <2> QED
    BY <2>1, <2>2, <2>3, <2>4, <2>5
<1>9. TypeOK'
  BY <1>1, <1>2, <1>3, <1>6, <1>8, ArrayListAssumption DEF TypeOK, Return, lastrefs, Indices, Owned
<1>10. LastrefInArray' /\ InsertSucceeds' /\ Passed'
  BY <1>1, <1>2, <1>3, <1>6 DEF IInv, LastrefInArray, InsertSucceeds, Passed, Return, lastrefs
<1> QED
  BY <1>3, <1>9, <1>10 DEF IInv

\* A shift walks: steps are the elements it has passed.
LEMMA BeginShiftPreserves ==
  ASSUME IInv, NEW a \in Arrays, NEW n \in Shifts, array_shift(a, n)
  PROVE  IInv'
<1> USE NodesAreAddresses
<1>1. /\ a \in live /\ a \in Nodes(a) /\ num_elements[a] # 0 /\ InvalidateLastref(a)
      /\ call' = "shift" /\ array' = a /\ index' = n /\ ae' = next[a] /\ steps' = 0
      /\ UNCHANGED <<arrays, elements, string, results>>
      /\ n \in Nat /\ n > 0 /\ n \in Indices
  BY ArrayListAssumption DEF array_shift, Nodes, Shifts, Indices
<1>2. TypeOK /\ Shape /\ Ring /\ Ordered /\ Counted
  BY DEF IInv, Shape
<1>3. next[a] \in Nodes(a) /\ next[a] \in Owned(a) /\ next[a] \in Addresses /\ next[a] # a
  BY <1>1, <1>2, EmptyRing DEF Ring, Nodes
<1>4. \A x \in Owned(a) : ~(ind[x] < ind[next[a]])
  <2> SUFFICES ASSUME NEW x \in Owned(a) PROVE ~(ind[x] < ind[next[a]])
    OBVIOUS
  <2>1. ind[a] < ind[x] /\ x \in Nodes(a)
    BY <1>1, <1>2 DEF Ordered, Nodes
  <2>2. ind[next[a]] <= ind[x]
    BY <2>1, <1>1, <1>2 DEF Ordered
  <2> QED
    BY <2>1, <2>2, <1>1, <1>2, <1>3
<1>5. Shape' /\ \A b : Owned(b)' = Owned(b) /\ Nodes(b)' = Nodes(b)
  BY <1>1, UnchangedShape
<1>6. Dropped' = {}
  BY <1>1, <1>4, <1>5 DEF Dropped, elements
<1>7. \/ lastarray' = NULL /\ lastref' = NULL
      \/ UNCHANGED lastrefs /\ lastarray # a
  BY <1>1 DEF InvalidateLastref, UnsetLastref
<1>8. TypeOK'
  BY <1>1, <1>2, <1>3, <1>7 DEF TypeOK, arrays, elements, links, lastrefs, results
<1>9. LastrefInArray' /\ InsertSucceeds'
  BY <1>1, <1>5, <1>7 DEF IInv, LastrefInArray, InsertSucceeds, lastrefs, arrays, results
<1>10. Passed'
  <2>1. 0 <= ind[next[a]]
    BY <1>2, <1>3, <1>1 DEF Ordered
  <2>2. Cardinality({}) = 0
    BY FS_EmptySet
  <2>3. lastarray' # a
    BY <1>1, <1>2, <1>7 DEF lastrefs
  <2> QED
    BY <2>1, <2>2, <2>3, <1>1, <1>3, <1>5, <1>6 DEF Passed, arrays, elements
<1> QED
  BY <1>5, <1>8, <1>9, <1>10 DEF IInv

LEMMA ShiftNextPreserves ==
  ASSUME IInv, shift_next, NEW a, NEW e, a = array, e = ae
  PROVE  IInv'
<1> USE NodesAreAddresses
<1>1. /\ a \in live /\ a \in Nodes(a) /\ e \in Owned(a) /\ e \in Nodes(a) /\ e # a /\ call = "shift"
      /\ steps < index /\ index > 0 /\ ae' = next[e] /\ steps' = steps + 1 /\ lastarray # a
      /\ steps = Cardinality(Dropped) /\ steps <= ind[e]
      /\ UNCHANGED <<arrays, elements, lastrefs, call, arguments, results>>
  BY DEF shift_next, Searching, IInv, Passed, Nodes
<1>2. TypeOK /\ Shape /\ Ring /\ Ordered /\ Counted /\ steps \in Nat /\ index \in Int
  BY ArrayListAssumption DEF IInv, Shape, TypeOK, Indices
<1>3. next[e] \in Nodes(a) /\ next[e] \in Addresses
  BY <1>1, <1>2 DEF Ring
<1>4. Shape' /\ \A b : Owned(b)' = Owned(b) /\ Nodes(b)' = Nodes(b)
  BY <1>1, UnchangedShape
<1>5. TypeOK'
  BY <1>1, <1>2, <1>3 DEF TypeOK, arrays, elements, links, lastrefs, results, arguments
<1>6. LastrefInArray' /\ InsertSucceeds'
  BY <1>1, <1>4 DEF IInv, LastrefInArray, InsertSucceeds, lastrefs, arrays, results
<1> DEFINE Before == {x \in Owned(a) : ind[x] < ind[e]}
<1>7. Dropped = Before /\ IsFiniteSet(Before) /\ e \notin Before
  <2>1. Before \subseteq Owned(a) /\ IsFiniteSet(Owned(a)) /\ ind[e] \in Int
    BY <1>1, <1>2
  <2>2. IsFiniteSet(Before)
    BY <2>1, FS_Subset
  <2> QED
    BY <2>1, <2>2 DEF Dropped
<1>8. Cardinality(Before \union {e}) = steps + 1
  BY <1>1, <1>7, FS_AddElement
<1>9. \A x \in Owned(a) : x \in Before \/ x = e \/ (next[e] # a /\ ind[next[e]] <= ind[x])
  <2> SUFFICES ASSUME NEW x \in Owned(a), x \notin Before, x # e
               PROVE  next[e] # a /\ ind[next[e]] <= ind[x]
    OBVIOUS
  <2>1. x \in Nodes(a) /\ ind[x] # ind[e]
    BY <1>1, <1>2 DEF Ordered, Nodes
  <2>2. ind[e] < ind[x]
    BY <2>1, <1>1, <1>2
  <2> QED
    BY <2>1, <2>2, <1>1, <1>2 DEF Ordered
<1>10. IF next[e] = a THEN steps + 1 = num_elements[a]
       ELSE steps + 1 = Cardinality({x \in Owned(a) : ind[x] < ind[next[e]]}) /\ steps + 1 <= ind[next[e]]
  <2>1. CASE next[e] = a
    <3>1. Owned(a) = Before \union {e}
      BY <2>1, <1>1, <1>9
    <3> QED
      BY <2>1, <3>1, <1>1, <1>2, <1>8 DEF Counted
  <2>2. CASE next[e] # a
    <3>1. ind[e] < ind[next[e]] /\ \A x \in Nodes(a) : ind[x] \in Int
      BY <2>2, <1>1, <1>2 DEF Ordered
    <3>2. {x \in Owned(a) : ind[x] < ind[next[e]]} = Before \union {e}
      BY <3>1, <1>1, <1>3, <1>9 DEF Nodes
    <3>3. steps + 1 <= ind[next[e]]
      BY <3>1, <1>1, <1>2, <1>3
    <3> QED
      BY <2>2, <3>2, <3>3, <1>8
  <2> QED
    BY <2>1, <2>2
<1>11. Passed'
  <2>1. /\ call' = "shift" /\ array' = a /\ live' = live /\ index' = index /\ lastarray' = lastarray
        /\ num_elements' = num_elements /\ ind' = ind
    BY <1>1 DEF arrays, elements, lastrefs, arguments
  <2>2. Dropped' = {x \in Owned(a) : ind[x] < ind[next[e]]}
    BY <2>1, <1>1, <1>4 DEF Dropped
  <2> QED
    BY <2>1, <2>2, <1>1, <1>2, <1>3, <1>4, <1>10 DEF Passed
<1> QED
  BY <1>4, <1>5, <1>6, <1>11 DEF IInv

LEMMA ShiftSomePreserves ==
  ASSUME IInv, shift_some, NEW a, NEW e, a = array, e = ae
  PROVE  IInv'
<1> USE NodesAreAddresses
<1>1. /\ a \in live /\ a \in Nodes(a) /\ e \in Owned(a) /\ e \in Nodes(a) /\ lastarray # a
      /\ steps = index /\ steps = Cardinality(Dropped) /\ steps <= ind[e] /\ Dropped \subseteq Owned(a)
      /\ TypeOK /\ Shape /\ Ring /\ Ordered /\ Counted /\ index \in Nat
  BY ArrayListAssumption DEF shift_some, Searching, IInv, Passed, Nodes, Shape, Dropped, TypeOK, Indices
<1>2. /\ Dispose(Dropped)
      /\ next' = [Relinked(next, Dropped) EXCEPT ![a] = e]
      /\ prev' = [Relinked(prev, Dropped) EXCEPT ![e] = a]
      /\ ind' = [n \in Addresses |-> IF n \in Dropped THEN -1
                                     ELSE IF n \in Owned(a) THEN ind[n] - index ELSE ind[n]]
      /\ num_elements' = [num_elements EXCEPT ![a] = @ - index]
      /\ max_index' = [max_index EXCEPT ![a] = ind'[prev'[a]]]
      /\ Return /\ UNCHANGED <<live, lastrefs, results>>
  BY DEF shift_some
<1>3. /\ Shape' /\ Owned(a)' = Owned(a) \ Dropped /\ \A b \in live \ {a} : Owned(b)' = Owned(b)
  BY ShiftedShape DEF IInv
<1>4. \A x \in Owned(a) \ Dropped : ind[x] - index \in Indices
  <2> SUFFICES ASSUME NEW x \in Owned(a) \ Dropped PROVE ind[x] - index \in Indices
    OBVIOUS
  <2>1. x \in Nodes(a) /\ ~(ind[x] < ind[e]) /\ x \in Addresses /\ ind[x] \in Int
    BY <1>1 DEF Dropped, Nodes
  <2>2. ind[x] <= MaxIndex
    BY <2>1, <1>1, ArrayListAssumption DEF TypeOK, Indices
  <2>3. ind[x] - index >= 0
    BY <2>1, <1>1
  <2> QED
    BY <2>1, <2>2, <2>3, <1>1, ArrayListAssumption DEF Indices
<1>5. ind' \in [Addresses -> Indices \union {-1}]
  BY <1>1, <1>2, <1>4 DEF TypeOK
<1>6. next' \in [Addresses -> Addresses] /\ prev' \in [Addresses -> Addresses]
  BY <1>1, <1>2 DEF Relinked, TypeOK
<1>7. max_index' \in [Arrays -> Indices \union {-1}]
  BY <1>1, <1>2, <1>5, <1>6 DEF TypeOK
<1>8. num_elements' \in [Arrays -> Nat]
  <2>1. Cardinality(Dropped) <= Cardinality(Owned(a))
    BY <1>1, FS_Subset
  <2>2. num_elements[a] = Cardinality(Owned(a)) /\ num_elements[a] \in Nat
    BY <1>1 DEF Counted
  <2>3. num_elements[a] - index \in Nat
    BY <2>1, <2>2, <1>1
  <2> QED
    BY <2>3, <1>1, <1>2 DEF TypeOK
<1>9. owner' \in [Elements -> live' \union {NULL}] /\ value' \in [Elements -> Values \union {NULL}]
  BY <1>1, <1>2 DEF Dispose, TypeOK
<1>10. TypeOK'
  BY <1>1, <1>2, <1>5, <1>6, <1>7, <1>8, <1>9, ArrayListAssumption DEF TypeOK, Return, results, lastrefs, Indices
<1>11. LastrefInArray' /\ InsertSucceeds' /\ Passed'
  BY <1>1, <1>2, <1>3 DEF IInv, LastrefInArray, InsertSucceeds, Passed, Return, lastrefs, results
<1> QED
  BY <1>3, <1>10, <1>11 DEF IInv

LEMMA StutterPreserves ==
  ASSUME IInv, UNCHANGED vars
  PROVE  IInv'
<1>1. UNCHANGED <<arrays, elements, lastrefs, locals, results>>
  BY DEF vars
<1>2. Shape' /\ \A b : Owned(b)' = Owned(b) /\ Nodes(b)' = Nodes(b)
  BY <1>1, UnchangedShape
<1>3. Dropped' = Dropped
  BY <1>1, <1>2 DEF Dropped, locals, arguments, elements
<1>4. TypeOK'
  BY <1>1 DEF IInv, TypeOK, arrays, elements, links, lastrefs, locals, arguments, results
<1>5. LastrefInArray' /\ InsertSucceeds' /\ Passed'
  BY <1>1, <1>2, <1>3
  DEF IInv, LastrefInArray, InsertSucceeds, Passed, lastrefs, locals, arguments, results, arrays, elements
<1> QED
  BY <1>2, <1>4, <1>5 DEF IInv

LEMMA NextPreserves ==
  ASSUME IInv, [Next]_vars
  PROVE  IInv'
<1>1. CASE UNCHANGED vars
  BY <1>1, StutterPreserves
<1>2. CASE Begin
  <2>1. PICK a \in Arrays :
          \/ array_create(a) \/ array_flush(a) \/ array_dispose(a)
          \/ \E i \in Indices : array_remove(a, i) \/ array_reference(a, i) \/ answer_none(a, i)
          \/ \E i \in Indices, v \in Values : insert_at_end(a, i, v) \/ array_insert(a, i, v)
          \/ \E n \in Shifts : array_shift(a, n) \/ rshift_null(a, n)
          \/ \E n \in Shifts, v \in Values : rshift_empty(a, n, v) \/ array_rshift(a, n, v)
    BY <1>2 DEF Begin
  <2>2. CASE array_create(a)
    BY <2>2, CreatePreserves
  <2>3. CASE array_flush(a) \/ array_dispose(a)
    BY <2>3, EmptyPreserves
  <2>4. CASE \E i \in Indices : array_remove(a, i) \/ array_reference(a, i)
    BY <2>4, BeginSearchPreserves
  <2>5. CASE \E i \in Indices : answer_none(a, i)
    BY <2>5, AnswerPreserves
  <2>6. CASE \E i \in Indices, v \in Values : insert_at_end(a, i, v)
    BY <2>6, InsertAtEndPreserves
  <2>7. CASE \E i \in Indices, v \in Values : array_insert(a, i, v)
    BY <2>7, BeginSearchPreserves
  <2>8. CASE \E n \in Shifts : array_shift(a, n)
    BY <2>8, BeginShiftPreserves
  <2>9. CASE \E n \in Shifts : rshift_null(a, n)
    BY <2>9, RShiftNullPreserves
  <2>10. CASE \E n \in Shifts, v \in Values : rshift_empty(a, n, v) \/ array_rshift(a, n, v)
    BY <2>10, RShiftPreserves
  <2> QED
    BY <2>1, <2>2, <2>3, <2>4, <2>5, <2>6, <2>7, <2>8, <2>9, <2>10
<1>3. CASE Continue
  BY <1>3, SearchNextPreserves, SearchFailsPreserves, InsertReplacesPreserves, InsertBeforePreserves,
     RemovePreserves, AnswerPreserves, ShiftNextPreserves, ShiftAllPreserves, ShiftSomePreserves
  DEF Continue
<1> QED
  BY <1>1, <1>2, <1>3 DEF Next

-------------------------------------------------------------------------------
(* The invariants of ArrayList.                                            *)

\* Init and every step establish the inductive invariant.
THEOREM Inductive == Spec => []IInv
<1>1. Init => IInv
  BY InitEstablishes
<1>2. IInv /\ [Next]_vars => IInv'
  BY NextPreserves
<1> QED
  BY <1>1, <1>2, PTL DEF Spec

\* The variables of array.c keep their types.
THEOREM TypeCorrect == Spec => []TypeOK
<1>1. IInv => TypeOK
  BY DEF IInv
<1> QED
  BY <1>1, Inductive, PTL

\* The links of array.c stay rings: next and prev undo one another.
THEOREM RingsStayClosed == Spec => []Ring
<1>1. IInv => Ring
  BY DEF IInv, Shape
<1> QED
  BY <1>1, Inductive, PTL

\* The rings stay in the order of their indices, each of which occurs once.
THEOREM RingsStayOrdered == Spec => []Ordered
<1>1. IInv => Ordered
  BY DEF IInv, Shape
<1> QED
  BY <1>1, Inductive, PTL

\* num_elements and max_index are right whenever they are read.
THEOREM CountsAreRight == Spec => []Counted
<1>1. IInv => Counted
  BY DEF IInv, Shape
<1> QED
  BY <1>1, Inductive, PTL

\* lastref never dangles.
THEOREM LastrefNeverDangles == Spec => []LastrefInArray
<1>1. IInv => LastrefInArray
  BY DEF IInv
<1> QED
  BY <1>1, Inductive, PTL

\* array_insert never returns -1.
THEOREM InsertNeverFails == Spec => []InsertSucceeds
<1>1. IInv => InsertSucceeds
  BY DEF IInv
<1> QED
  BY <1>1, Inductive, PTL

\* A search can begin at lastref or at the head of any array, at any time.
THEOREM ListsAreSound == Spec => []ListsSound
<1>1. IInv => ListsSound
  BY DEF IInv, Shape, ListsSound
<1> QED
  BY <1>1, Inductive, PTL

-------------------------------------------------------------------------------
(***************************************************************************)
(* The ring implements the sparse arrays of SparseArrays: every step of an *)
(* operation is a step of the abstract arrays, at the moment the ring      *)
(* changes or the answer is known, or changes nothing that can be seen.    *)
(***************************************************************************)

Pair(e) == <<ind[e], value[e]>>

\* Arrays that are not live own nothing.
LEMMA DeadOwnNothing ==
  ASSUME TypeOK, NEW b \in Arrays \ live
  PROVE  Owned(b) = {}
<1>1. b # NULL
  BY ArrayListAssumption
<1> QED
  BY <1>1 DEF Owned, TypeOK

\* Elements that stay as they are have the same contents.
LEMMA KeepsContents ==
  ASSUME NEW b, Owned(b)' = Owned(b), \A x \in Owned(b) : ind'[x] = ind[x] /\ value'[x] = value[x]
  PROVE  Contents(b)' = Contents(b)
BY DEF Contents

LEMMA ChangesOne ==
  ASSUME NEW a \in Arrays, NEW pairs, Contents(a)' = pairs,
         \A b \in Arrays \ {a} : Contents(b)' = Contents(b)
  PROVE  Abstract!Change(a, pairs)
<1>1. [b \in Arrays |-> Contents(b)]' = [b \in Arrays |-> Contents(b)']
  OBVIOUS
<1>2. [b \in Arrays |-> Contents(b)'] = [[b \in Arrays |-> Contents(b)] EXCEPT ![a] = pairs]
  OBVIOUS
<1> QED
  BY <1>1, <1>2 DEF Abstract!Change

LEMMA ChangesNothing ==
  ASSUME \A b \in Arrays : Contents(b)' = Contents(b)
  PROVE  UNCHANGED [b \in Arrays |-> Contents(b)]
OBVIOUS

\* What the abstract array has at an index.
LEMMA AtIndex ==
  ASSUME NEW a \in Arrays, NEW i
  PROVE  Abstract!At(a, i) = {Pair(e) : e \in {x \in Owned(a) : ind[x] = i}}
BY DEF Abstract!At, Contents, Pair

LEMMA AtElement ==
  ASSUME IInv, NEW a \in live, NEW e \in Owned(a)
  PROVE  Abstract!At(a, ind[e]) = {Pair(e)}
<1>1. {x \in Owned(a) : ind[x] = ind[e]} = {e}
  BY DEF IInv, Shape, Ordered, Nodes
<1> QED
  BY <1>1, AtIndex, NodesAreAddresses DEF IInv

\* The operations that change no array.
LEMMA InitRefines ==
  ASSUME Init
  PROVE  Abstract!Init
<1>1. \A a \in Arrays : Owned(a) = {}
  BY ArrayListAssumption DEF Init, Owned
<1> QED
  BY <1>1 DEF Init, Abstract!Init, Contents

LEMMA SilentRefines ==
  ASSUME UNCHANGED <<arrays, elements>>
  PROVE  UNCHANGED <<live, [b \in Arrays |-> Contents(b)]>>
<1>1. \A b \in Arrays : Contents(b)' = Contents(b)
  BY DEF arrays, elements, Contents, Owned
<1> QED
  BY <1>1, ChangesNothing DEF arrays

LEMMA CreateRefines ==
  ASSUME IInv, NEW a \in Arrays, array_create(a)
  PROVE  Abstract!Create(a)
<1>1. a \notin live /\ live' = live \union {a} /\ UNCHANGED <<owner, value>> /\ answer' = answer
      /\ ind' = [ind EXCEPT ![a] = -1] /\ a \notin Elements
  BY ArrayListAssumption DEF array_create, UnchangedCall, results
<1>2. \A b \in Arrays : Contents(b)' = Contents(b)
  BY <1>1 DEF IInv, TypeOK, Contents, Owned, Addresses
<1> QED
  BY <1>1, <1>2, ChangesNothing DEF Abstract!Create

LEMMA EmptiedContents ==
  ASSUME IInv, NEW a \in live, Emptied(a), live' \in SUBSET live
  PROVE  Abstract!Change(a, {})
<1>1. Owned(a)' = {} /\ \A b \in live \ {a} : Owned(b)' = Owned(b)
  BY EmptiedShape DEF IInv
<1>2. ASSUME NEW b \in Arrays \ {a} PROVE Contents(b)' = Contents(b)
  <2>1. Owned(b)' = Owned(b)
    <3>1. CASE b \in live
      BY <3>1, <1>1
    <3>2. CASE b \notin live
      BY <3>2, DeadOwnNothing, ArrayListAssumption DEF IInv, Emptied, Dispose, Owned
    <3> QED
      BY <3>1, <3>2
  <2>2. \A x \in Owned(b) : x \in Elements /\ x \notin Owned(a)
    BY DEF Owned
  <2>3. \A x \in Owned(b) : ind'[x] = ind[x] /\ value'[x] = value[x]
    BY <2>2 DEF Emptied, Dispose, Addresses
  <2> QED
    BY <2>1, <2>3, KeepsContents
<1>3. Contents(a)' = {}
  BY <1>1 DEF Contents
<1> QED
  BY <1>2, <1>3, ChangesOne DEF IInv, TypeOK

LEMMA EmptyRefines ==
  ASSUME IInv, NEW a \in Arrays
  PROVE  /\ array_flush(a) => Abstract!Flush(a)
         /\ array_dispose(a) => Abstract!Dispose(a)
<1>1. ASSUME array_flush(a) PROVE Abstract!Flush(a)
  <2>1. a \in live /\ Emptied(a) /\ live' = live /\ answer' = answer
    BY <1>1 DEF array_flush, UnchangedCall, results
  <2> QED
    BY <2>1, EmptiedContents DEF Abstract!Flush
<1>2. ASSUME array_dispose(a) PROVE Abstract!Dispose(a)
  <2>1. a \in live /\ Emptied(a) /\ live' = live \ {a} /\ answer' = answer
    BY <1>2 DEF array_dispose, UnchangedCall, results
  <2> QED
    BY <2>1, EmptiedContents DEF Abstract!Dispose
<1> QED
  BY <1>1, <1>2

\* An answer is the value at the index, or NULL.
LEMMA NoneRefines ==
  ASSUME IInv, NEW a \in Arrays, NEW i \in Indices, answer_none(a, i)
  PROVE  Abstract!Reference(a, i)
<1> USE NodesAreAddresses
<1>1. a \in live /\ (num_elements[a] = 0 \/ i > max_index[a]) /\ answer' = NULL /\ UNCHANGED <<arrays, elements>>
  BY DEF answer_none
<1>2. TypeOK /\ Ring /\ Ordered /\ Counted
  BY DEF IInv, Shape
<1>3. {x \in Owned(a) : ind[x] = i} = {}
  <2>1. CASE num_elements[a] = 0
    BY <2>1, <1>1, <1>2, EmptyRing
  <2>2. CASE i > max_index[a]
    <3>1. \A x \in Owned(a) : ind[x] <= max_index[a] /\ ind[x] \in Int /\ max_index[a] \in Int
      BY <1>1, <1>2, LastIsGreatest, ArrayListAssumption DEF Counted, Nodes, TypeOK, Indices
    <3> QED
      BY <2>2, <3>1, ArrayListAssumption DEF Indices
  <2> QED
    BY <2>1, <2>2, <1>1
<1>4. Abstract!At(a, i) = {}
  BY <1>3, AtIndex
<1> QED
  BY <1>1, <1>4, SilentRefines DEF Abstract!Reference, Abstract!Answer

LEMMA FoundRefines ==
  ASSUME IInv, reference_found, NEW a, NEW e, a = array, e = ae
  PROVE  Abstract!Reference(a, index) /\ a \in Arrays /\ index \in Indices
<1>1. a \in live /\ e \in Owned(a) /\ ind[e] = index /\ answer' = value[e] /\ UNCHANGED <<arrays, elements>>
  BY DEF reference_found, Searching, IInv, Passed, Nodes
<1>2. Abstract!At(a, index) = {Pair(e)}
  BY <1>1, AtElement
<1>3. a \in Arrays /\ index \in Indices
  BY <1>1 DEF IInv, TypeOK
<1> QED
  BY <1>1, <1>2, <1>3, SilentRefines DEF Abstract!Reference, Abstract!Answer, Pair

LEMMA FailsRefines ==
  ASSUME IInv, search_fails, NEW a, a = array
  PROVE  /\ a \in Arrays /\ index \in Indices
         /\ Abstract!Reference(a, index) \/ Abstract!Remove(a, index)
<1>1. a \in live /\ ae = a /\ call # "insert" /\ answer' = NULL /\ UNCHANGED <<arrays, elements>>
  BY SearchFailsPreserves DEF search_fails, IInv, Passed
<1>2. {x \in Owned(a) : ind[x] = index} = {} /\ a \in Arrays /\ index \in Indices
  BY <1>1 DEF search_fails, IInv, Passed, TypeOK
<1>3. Abstract!At(a, index) = {}
  BY <1>2, AtIndex
<1> QED
  BY <1>1, <1>2, <1>3, SilentRefines DEF Abstract!Reference, Abstract!Answer

-------------------------------------------------------------------------------
(* Insertion and removal.                                                  *)

\* A new element has a new pair.
LEMMA AddedContents ==
  ASSUME IInv, NEW a \in live, NEW n \in Nodes(a), NEW new \in Free, NEW v \in Values,
         AddBefore(a, n, new, v), live' = live, ind' \in [Addresses -> Int],
         \A x \in Addresses : x \notin Nodes(a) \union {new} => ind'[x] = ind[x]
  PROVE  /\ Contents(a)' = {<<ind'[x], value[x]>> : x \in Owned(a)} \union {<<ind'[new], v>>}
         /\ \A b \in Arrays \ {a} : Contents(b)' = Contents(b)
<1> USE NodesAreAddresses
<1>1. /\ TypeOK /\ Ring
      /\ Owned(a)' = Owned(a) \union {new} /\ new \notin Owned(a) /\ new \in Elements
      /\ \A b \in live : b # a => Owned(b)' = Owned(b)
  BY AddedToRing DEF IInv, Shape, Free
<1>2. value'[new] = v /\ \A x \in Elements \ {new} : value'[x] = value[x]
  BY <1>1 DEF AddBefore, TypeOK
<1>3. ASSUME NEW b \in Arrays \ {a} PROVE Contents(b)' = Contents(b)
  <2>1. Owned(b)' = Owned(b)
    <3>1. CASE b \in live
      BY <3>1, <1>1
    <3>2. CASE b \notin live
      BY <3>2, <1>1, DeadOwnNothing DEF AddBefore, Owned, TypeOK
    <3> QED
      BY <3>1, <3>2
  <2>2. \A x \in Owned(b) : x \in Elements /\ x \in Addresses /\ x \notin Nodes(a) /\ x # new
    BY <1>1, ArrayListAssumption DEF Owned, Nodes, Free, Addresses, TypeOK
  <2> QED
    BY <2>1, <2>2, <1>2, KeepsContents
<1>4. Contents(a)' = {<<ind'[x], value'[x]>> : x \in Owned(a) \union {new}}
  BY <1>1 DEF Contents
<1>5. \A x \in Owned(a) : value'[x] = value[x]
  BY <1>1, <1>2 DEF Owned
<1> QED
  BY <1>2, <1>3, <1>4, <1>5

LEMMA InsertedRefines ==
  ASSUME IInv, NEW a \in live, NEW n \in Nodes(a), NEW new \in Free, NEW v \in Values, NEW i \in Indices,
         AddBefore(a, n, new, v), live' = live, ind' = [ind EXCEPT ![new] = i], answer' = answer,
         \A x \in Owned(a) : ind[x] # i
  PROVE  Abstract!Insert(a, i, v)
<1> USE NodesAreAddresses
<1>1. TypeOK /\ new \in Elements /\ new \in Addresses /\ new \notin Owned(a) /\ a \in Arrays
  BY ArrayListAssumption DEF IInv, Free, Addresses, Owned, TypeOK
<1>2. /\ ind' \in [Addresses -> Int] /\ ind'[new] = i
      /\ \A x \in Addresses \ {new} : ind'[x] = ind[x]
  BY <1>1, ArrayListAssumption DEF TypeOK, Indices
<1>3. /\ Contents(a)' = {<<ind'[x], value[x]>> : x \in Owned(a)} \union {<<ind'[new], v>>}
      /\ \A b \in Arrays \ {a} : Contents(b)' = Contents(b)
  BY <1>2, AddedContents
<1>4. {<<ind'[x], value[x]>> : x \in Owned(a)} = Contents(a)
  BY <1>1, <1>2 DEF Contents, Owned, Addresses
<1>5. Abstract!At(a, i) = {}
  BY <1>1, AtIndex
<1>6. Abstract!Change(a, Contents(a) \union {<<i, v>>})
  BY <1>1, <1>2, <1>3, <1>4, ChangesOne
<1> QED
  BY <1>1, <1>5, <1>6 DEF Abstract!Insert

LEMMA InsertAtEndRefines ==
  ASSUME IInv, NEW a \in Arrays, NEW i \in Indices, NEW v \in Values, insert_at_end(a, i, v)
  PROVE  Abstract!Insert(a, i, v)
<1> USE NodesAreAddresses
<1>1. PICK new \in Free : AddBefore(a, a, new, v) /\ ind' = [ind EXCEPT ![new] = i]
  BY DEF insert_at_end
<1>2. a \in live /\ a \in Nodes(a) /\ i > max_index[a] /\ live' = live /\ answer' = answer
  BY DEF insert_at_end, UnchangedCall, results, Nodes
<1>3. \A x \in Owned(a) : ind[x] # i
  <2>1. TypeOK /\ Ring /\ Ordered /\ Counted
    BY DEF IInv, Shape
  <2>2. \A x \in Owned(a) : ind[x] <= max_index[a] /\ ind[x] \in Int /\ max_index[a] \in Int
    BY <1>2, <2>1, LastIsGreatest, ArrayListAssumption DEF Counted, Nodes, TypeOK, Indices
  <2> QED
    BY <2>2, <1>2, ArrayListAssumption DEF Indices
<1> QED
  BY <1>1, <1>2, <1>3, InsertedRefines

LEMMA InsertBeforeRefines ==
  ASSUME IInv, insert_before, NEW a, NEW e, NEW i, NEW v, a = array, e = ae, i = index, v = string
  PROVE  Abstract!Insert(a, i, v) /\ a \in Arrays /\ i \in Indices /\ v \in Values
<1> USE NodesAreAddresses
<1>1. PICK new \in Free : AddBefore(a, e, new, v) /\ ind' = [ind EXCEPT ![new] = i]
  BY DEF insert_before
<1>2. /\ a \in live /\ e \in Nodes(a) /\ ind[e] > i /\ v \in Values /\ live' = live /\ answer' = answer
      /\ \A x \in Owned(a) : ind[x] >= i => ind[e] <= ind[x]
      /\ a \in Arrays /\ i \in Indices
  BY DEF insert_before, Searching, IInv, Passed, Nodes, results, TypeOK
<1>3. i \in Int /\ ind[e] \in Int /\ \A x \in Owned(a) : ind[x] \in Int
  BY <1>2, ArrayListAssumption DEF Indices, IInv, Nodes
<1>4. \A x \in Owned(a) : ind[x] # i
  BY <1>2, <1>3
<1> QED
  BY <1>1, <1>2, <1>4, InsertedRefines

LEMMA InsertReplacesRefines ==
  ASSUME IInv, insert_replaces, NEW a, NEW e, NEW i, NEW v, a = array, e = ae, i = index, v = string
  PROVE  Abstract!Insert(a, i, v) /\ a \in Arrays /\ i \in Indices /\ v \in Values
<1>1. /\ a \in live /\ a \in Arrays /\ e \in Owned(a) /\ e \in Elements /\ ind[e] = i
      /\ i \in Indices /\ v \in Values
      /\ value' = [value EXCEPT ![e] = v] /\ UNCHANGED <<live, owner, ind, answer>>
  BY DEF insert_replaces, Searching, IInv, Passed, Nodes, Owned, TypeOK, arrays, results
<1>2. \A b \in Arrays : Owned(b)' = Owned(b)
  BY <1>1 DEF Owned
<1>3. ASSUME NEW b \in Arrays \ {a} PROVE Contents(b)' = Contents(b)
  <2>1. \A x \in Owned(b) : x # e
    BY <1>1 DEF Owned
  <2> QED
    BY <2>1, <1>1, <1>2, KeepsContents DEF IInv, TypeOK, Owned
<1>4. Abstract!At(a, i) = {Pair(e)}
  BY <1>1, AtElement
<1>5. Contents(a)' = (Contents(a) \ {Pair(e)}) \union {<<i, v>>}
  <2>1. \A x \in Owned(a) \ {e} : value'[x] = value[x] /\ ind'[x] = ind[x] /\ ind[x] # ind[e]
    BY <1>1 DEF IInv, TypeOK, Owned, Shape, Ordered, Nodes
  <2>2. value'[e] = v /\ ind'[e] = i
    BY <1>1 DEF IInv, TypeOK
  <2>3. Contents(a)' = {<<ind'[x], value'[x]>> : x \in Owned(a) \ {e}} \union {<<ind'[e], value'[e]>>}
    BY <1>1, <1>2 DEF Contents
  <2>4. {<<ind'[x], value'[x]>> : x \in Owned(a) \ {e}} = Contents(a) \ {Pair(e)}
    BY <2>1, <1>1 DEF Contents, Pair
  <2> QED
    BY <2>2, <2>3, <2>4
<1>6. Abstract!Change(a, (Contents(a) \ Abstract!At(a, i)) \union {<<i, v>>})
  BY <1>1, <1>3, <1>4, <1>5, ChangesOne
<1> QED
  BY <1>1, <1>6 DEF Abstract!Insert

LEMMA RemoveRefines ==
  ASSUME IInv, remove_found, NEW a, NEW e, NEW i, a = array, e = ae, i = index
  PROVE  Abstract!Remove(a, i) /\ a \in Arrays /\ i \in Indices
<1>1. /\ a \in live /\ a \in Arrays /\ e \in Owned(a) /\ e \in Elements /\ ind[e] = i /\ i \in Indices
      /\ ind' = [ind EXCEPT ![e] = -1] /\ Dispose({e}) /\ answer' = value[e] /\ live' = live
  BY DEF remove_found, Searching, IInv, Passed, Nodes, Owned, TypeOK
<1>2. Owned(a)' = Owned(a) \ {e} /\ \A b \in live \ {a} : Owned(b)' = Owned(b)
  BY RemovedShape DEF IInv
<1>3. \A x \in Elements \ {e} : value'[x] = value[x] /\ ind'[x] = ind[x]
  BY <1>1 DEF Dispose, IInv, TypeOK, Addresses
<1>4. ASSUME NEW b \in Arrays \ {a} PROVE Contents(b)' = Contents(b)
  <2>1. \A x \in Owned(b) : x # e /\ x \in Elements
    BY <1>1 DEF Owned
  <2>2. Owned(b)' = Owned(b)
    <3>1. CASE b \in live
      BY <3>1, <1>2
    <3>2. CASE b \notin live
      BY <3>2, <1>1, DeadOwnNothing, ArrayListAssumption DEF IInv, Dispose, Owned, TypeOK
    <3> QED
      BY <3>1, <3>2
  <2> QED
    BY <2>1, <2>2, <1>3, KeepsContents
<1>5. Abstract!At(a, i) = {Pair(e)}
  BY <1>1, AtElement
<1>6. Contents(a)' = Contents(a) \ {Pair(e)}
  <2>1. \A x \in Owned(a) \ {e} : value'[x] = value[x] /\ ind'[x] = ind[x] /\ ind[x] # ind[e]
    BY <1>1, <1>3 DEF IInv, Owned, Shape, Ordered, Nodes
  <2>2. Contents(a)' = {<<ind'[x], value'[x]>> : x \in Owned(a) \ {e}}
    BY <1>2 DEF Contents
  <2> QED
    BY <2>1, <2>2, <1>1 DEF Contents, Pair
<1>7. Abstract!Change(a, Contents(a) \ Abstract!At(a, i))
  BY <1>1, <1>4, <1>5, <1>6, ChangesOne
<1>8. Abstract!Answer(a, i)
  BY <1>1, <1>5 DEF Abstract!Answer, Pair
<1> QED
  BY <1>1, <1>7, <1>8 DEF Abstract!Remove

-------------------------------------------------------------------------------
(* Shifts.                                                                 *)

LEMMA MovedElements ==
  ASSUME NEW S, NEW n
  PROVE  Abstract!Moved({Pair(x) : x \in S}, n) = {<<ind[x] + n, value[x]>> : x \in S}
<1> DEFINE M == {<<p[1] + n, p[2]>> : p \in {Pair(x) : x \in S}}
           E == {<<ind[x] + n, value[x]>> : x \in S}
<1>1. \A x : Pair(x)[1] = ind[x] /\ Pair(x)[2] = value[x]
  BY DEF Pair
<1>2. ASSUME NEW m \in M PROVE m \in E
  <2>1. PICK p \in {Pair(x) : x \in S} : m = <<p[1] + n, p[2]>>
    OBVIOUS
  <2>2. PICK x \in S : p = Pair(x)
    BY <2>1
  <2> QED
    BY <2>1, <2>2, <1>1
<1>3. ASSUME NEW m \in E PROVE m \in M
  <2>1. PICK x \in S : m = <<ind[x] + n, value[x]>>
    OBVIOUS
  <2>2. m = <<Pair(x)[1] + n, Pair(x)[2]>>
    BY <2>1, <1>1
  <2> QED
    BY <2>2
<1>4. M = E
  BY <1>2, <1>3
<1> QED
  BY <1>4 DEF Abstract!Moved

LEMMA RShiftNullRefines ==
  ASSUME IInv, NEW a \in Arrays, NEW n \in Shifts, rshift_null(a, n)
  PROVE  Abstract!RShift(a, n, {})
<1>1. /\ a \in live /\ ind' = Renumbered(a, n)
      /\ UNCHANGED <<live, owner, value, answer>>
  BY DEF rshift_null, UnchangedCall, results
<1>2. \A b \in Arrays : Owned(b)' = Owned(b) /\ Owned(b) \subseteq Addresses
  BY <1>1 DEF Owned, Addresses
<1>3. ASSUME NEW b \in Arrays \ {a} PROVE Contents(b)' = Contents(b)
  <2>1. \A x \in Owned(b) : x \notin Owned(a)
    BY DEF Owned
  <2> QED
    BY <2>1, <1>1, <1>2, KeepsContents DEF Renumbered
<1>4. Contents(a)' = {<<ind[x] + n, value[x]>> : x \in Owned(a)}
  BY <1>1, <1>2 DEF Contents, Renumbered
<1>5. Contents(a)' = Abstract!Moved(Contents(a), n) \union {}
  BY <1>4, MovedElements DEF Contents, Pair
<1> QED
  BY <1>1, <1>3, <1>5, ChangesOne DEF Abstract!RShift

LEMMA RShiftRefines ==
  ASSUME IInv, NEW a \in Arrays, NEW n \in Shifts, NEW v \in Values,
         rshift_empty(a, n, v) \/ array_rshift(a, n, v)
  PROVE  Abstract!RShift(a, n, {<<0, v>>})
<1> USE NodesAreAddresses
<1>1. a \in live /\ a \in Nodes(a) /\ live' = live /\ answer' = answer /\ n \in Int
  BY ArrayListAssumption DEF rshift_empty, array_rshift, UnchangedCall, results, Nodes, Shifts, Indices
<1>2. PICK new \in Free :
        /\ AddBefore(a, next[a], new, v)
        /\ \/ num_elements[a] = 0 /\ ind' = [ind EXCEPT ![new] = 0]
           \/ ind' = [Renumbered(a, n) EXCEPT ![new] = 0]
  BY DEF rshift_empty, array_rshift
<1>3. TypeOK /\ Ring /\ Ordered /\ Counted /\ next[a] \in Nodes(a)
  BY <1>1 DEF IInv, Shape, Ring
<1>4. new \in Elements /\ new \in Addresses /\ new \notin Owned(a) /\ Owned(a) \subseteq Addresses
  BY <1>1, <1>3, ArrayListAssumption DEF Free, Addresses, Owned, TypeOK
<1>5. /\ ind' \in [Addresses -> Int] /\ ind'[new] = 0
      /\ \A x \in Addresses : x \notin Nodes(a) \union {new} => ind'[x] = ind[x]
      /\ \A x \in Owned(a) : ind'[x] = ind[x] + n
  <2>1. CASE num_elements[a] = 0 /\ ind' = [ind EXCEPT ![new] = 0]
    <3>1. Owned(a) = {}
      BY <2>1, <1>1, <1>3, EmptyRing
    <3> QED
      BY <2>1, <3>1, <1>3, <1>4, ArrayListAssumption DEF TypeOK, Indices
  <2>2. CASE ind' = [Renumbered(a, n) EXCEPT ![new] = 0]
    <3>1. ind' \in [Addresses -> Int] /\ ind'[new] = 0
      BY <2>2, <1>1, <1>3, <1>4, ArrayListAssumption DEF Renumbered, TypeOK, Indices
    <3>2. \A x \in Addresses \ {new} : ind'[x] = IF x \in Owned(a) THEN ind[x] + n ELSE ind[x]
      BY <2>2, <1>4 DEF Renumbered
    <3> QED
      BY <3>1, <3>2, <1>4 DEF Nodes
  <2> QED
    BY <2>1, <2>2, <1>2
<1>6. /\ Contents(a)' = {<<ind'[x], value[x]>> : x \in Owned(a)} \union {<<ind'[new], v>>}
      /\ \A b \in Arrays \ {a} : Contents(b)' = Contents(b)
  BY <1>1, <1>2, <1>3, <1>5, AddedContents
<1>7. {<<ind'[x], value[x]>> : x \in Owned(a)} = Abstract!Moved(Contents(a), n)
  <2>1. {<<ind'[x], value[x]>> : x \in Owned(a)} = {<<ind[x] + n, value[x]>> : x \in Owned(a)}
    BY <1>5
  <2> QED
    BY <2>1, MovedElements DEF Contents, Pair
<1>8. Abstract!Change(a, Abstract!Moved(Contents(a), n) \union {<<0, v>>})
  BY <1>5, <1>6, <1>7, ChangesOne
<1> QED
  BY <1>1, <1>8 DEF Abstract!RShift

\* The rank of a pair is the number of elements before its element.
LEMMA RankOfElement ==
  ASSUME IInv, NEW a \in live, NEW e \in Owned(a)
  PROVE  Abstract!Rank(a, Pair(e)) = Cardinality({x \in Owned(a) : ind[x] < ind[e]})
<1> USE NodesAreAddresses
<1> DEFINE S == {x \in Owned(a) : ind[x] < ind[e]}
           T == {q \in Contents(a) : q[1] < ind[e]}
           f == [x \in S |-> Pair(x)]
<1>1. TypeOK /\ a \in Arrays
  BY DEF IInv, TypeOK
<1>2. S \subseteq Owned(a) /\ IsFiniteSet(Owned(a))
  BY <1>1
<1>3. IsFiniteSet(S)
  BY <1>2, FS_Subset
<1>4. f \in [S -> T]
  BY DEF Contents, Pair
<1>5. ASSUME NEW x \in S, NEW y \in S, f[x] = f[y] PROVE x = y
  BY <1>5 DEF Pair, IInv, Shape, Ordered, Nodes
<1>6. ASSUME NEW t \in T PROVE \E x \in S : f[x] = t
  BY DEF Contents, Pair
<1>7. f \in Bijection(S, T)
  BY <1>4, <1>5, <1>6 DEF Bijection, Injection, Surjection, IsInjective
<1>8. Cardinality(T) = Cardinality(S)
  BY <1>3, <1>7, FS_Bijection DEF ExistsBijection
<1>9. Abstract!Rank(a, Pair(e)) = Cardinality(T)
  <2>1. Pair(e)[1] = ind[e] /\ [b \in Arrays |-> Contents(b)][a] = Contents(a)
    BY <1>1 DEF Pair
  <2>2. {q \in [b \in Arrays |-> Contents(b)][a] : q[1] < Pair(e)[1]} = T
    BY <2>1
  <2>3. Abstract!Rank(a, Pair(e)) = Cardinality({q \in [b \in Arrays |-> Contents(b)][a] : q[1] < Pair(e)[1]})
    BY DEF Abstract!Rank, Abstract!Cardinality, Cardinality
  <2> HIDE DEF T
  <2> QED
    BY <2>2, <2>3
<1> QED
  BY <1>8, <1>9

LEMMA ShiftAllRefines ==
  ASSUME IInv, shift_all, NEW a, NEW n, a = array, n = index
  PROVE  Abstract!Shift(a, n) /\ a \in Arrays /\ n \in Shifts
<1> USE NodesAreAddresses
<1>1. /\ a \in live /\ a \in Arrays /\ n \in Shifts /\ n \in Nat /\ n >= num_elements[a]
      /\ Emptied(a) /\ live' = live /\ answer' = answer
  BY ArrayListAssumption DEF shift_all, IInv, Passed, TypeOK, Shifts, Indices, results
<1>2. ASSUME NEW e \in Owned(a) PROVE ~(Abstract!Rank(a, Pair(e)) >= n)
  <2> DEFINE S == {x \in Owned(a) : ind[x] < ind[e]}
  <2>1. TypeOK /\ ind[e] \in Int /\ IsFiniteSet(Owned(a)) /\ num_elements[a] = Cardinality(Owned(a))
    BY <1>1 DEF IInv, Shape, Counted, Nodes
  <2>2. S \subseteq Owned(a) \ {e} /\ IsFiniteSet(Owned(a) \ {e})
    BY <2>1, FS_RemoveElement
  <2>3. IsFiniteSet(S) /\ Cardinality(S) <= Cardinality(Owned(a) \ {e})
    BY <2>2, FS_Subset
  <2>4. Cardinality(Owned(a) \ {e}) = num_elements[a] - 1
    BY <2>1, FS_RemoveElement
  <2>5. Cardinality(S) \in Nat /\ Cardinality(Owned(a)) \in Nat
    BY <2>1, <2>3, FS_CardinalityType
  <2>6. Abstract!Rank(a, Pair(e)) = Cardinality(S)
    BY <1>1, RankOfElement
  <2> QED
    BY <2>1, <2>3, <2>4, <2>5, <2>6, <1>1
<1>3. {p \in Contents(a) : Abstract!Rank(a, p) >= n} = {}
  BY <1>2 DEF Contents, Pair
<1>4. Abstract!Moved({p \in Contents(a) : Abstract!Rank(a, p) >= n}, -n) = {}
  BY <1>3 DEF Abstract!Moved
<1>5. Abstract!Change(a, {})
  BY <1>1, EmptiedContents
<1> QED
  BY <1>1, <1>4, <1>5 DEF Abstract!Shift

LEMMA ShiftSomeRefines ==
  ASSUME IInv, shift_some, NEW a, NEW e, NEW n, a = array, e = ae, n = index
  PROVE  Abstract!Shift(a, n) /\ a \in Arrays /\ n \in Shifts
<1> USE NodesAreAddresses
<1> DEFINE D == {x \in Owned(a) : ind[x] < ind[e]}
<1>1. /\ a \in live /\ a \in Arrays /\ n \in Shifts /\ n \in Nat
      /\ e \in Owned(a) /\ n = Cardinality(D) /\ Dropped = D
      /\ live' = live /\ answer' = answer /\ Dispose(D)
      /\ ind' = [x \in Addresses |-> IF x \in D THEN -1 ELSE IF x \in Owned(a) THEN ind[x] - n ELSE ind[x]]
  BY ArrayListAssumption
  DEF shift_some, Searching, IInv, Passed, Nodes, Dropped, TypeOK, Shifts, Indices, results
<1>2. TypeOK /\ Owned(a)' = Owned(a) \ D /\ \A b \in live \ {a} : Owned(b)' = Owned(b)
  BY <1>1, ShiftedShape DEF IInv
<1>3. /\ \A x \in Owned(a) : ind[x] \in Int /\ IsFiniteSet(Owned(a)) /\ IsFiniteSet(D) /\ D \subseteq Owned(a)
  <2>1. D \subseteq Owned(a) /\ IsFiniteSet(Owned(a)) /\ \A x \in Owned(a) : ind[x] \in Int
    BY <1>1, <1>2 DEF Nodes
  <2> QED
    BY <2>1, FS_Subset
<1>4. ASSUME NEW b \in Arrays \ {a} PROVE Contents(b)' = Contents(b)
  <2>1. \A x \in Owned(b) : x \notin Owned(a) /\ x \notin D /\ x \in Elements /\ x \in Addresses
    BY DEF Owned, Addresses
  <2>2. Owned(b)' = Owned(b)
    <3>1. CASE b \in live
      BY <3>1, <1>2
    <3>2. CASE b \notin live
      BY <3>2, <1>1, <1>2, DeadOwnNothing, ArrayListAssumption DEF Dispose, Owned, TypeOK
    <3> QED
      BY <3>1, <3>2
  <2>3. \A x \in Owned(b) : ind'[x] = ind[x] /\ value'[x] = value[x]
    BY <2>1, <1>1 DEF Dispose
  <2> QED
    BY <2>2, <2>3, KeepsContents
<1>5. ASSUME NEW x \in Owned(a) PROVE Abstract!Rank(a, Pair(x)) >= n <=> x \notin D
  <2> DEFINE S == {y \in Owned(a) : ind[y] < ind[x]}
  <2>1. Abstract!Rank(a, Pair(x)) = Cardinality(S)
    BY <1>1, RankOfElement
  <2>2. S \subseteq Owned(a)
    OBVIOUS
  <2>3. IsFiniteSet(S) /\ Cardinality(S) \in Nat
    BY <2>2, <1>3, FS_Subset, FS_CardinalityType
  <2>4. CASE x \in D
    <3>1. S \subseteq D \ {x}
      BY <2>4, <1>1, <1>3
    <3>2. IsFiniteSet(D \ {x}) /\ Cardinality(D \ {x}) = n - 1
      <4>1. x \in D /\ IsFiniteSet(D) /\ n = Cardinality(D)
        BY <2>4, <1>1, <1>3
      <4> HIDE DEF D
      <4> QED
        BY <4>1, FS_RemoveElement
    <3>3. Cardinality(S) <= n - 1
      BY <3>1, <3>2, FS_Subset
    <3> QED
      BY <3>3, <2>1, <2>3, <2>4, <1>1
  <2>5. CASE x \notin D
    <3>1. D \subseteq S
      BY <2>5, <1>1, <1>3
    <3>2. n <= Cardinality(S)
      BY <3>1, <2>3, <1>1, FS_Subset
    <3> QED
      BY <3>2, <2>1, <2>3, <2>5, <1>1
  <2> QED
    BY <2>4, <2>5
<1>6. {p \in Contents(a) : Abstract!Rank(a, p) >= n} = {Pair(x) : x \in Owned(a) \ D}
  BY <1>5 DEF Contents, Pair
<1>7. Contents(a)' = {<<ind'[x], value'[x]>> : x \in Owned(a) \ D}
  BY <1>2 DEF Contents
<1>8. \A x \in Owned(a) \ D : ind'[x] = ind[x] - n /\ value'[x] = value[x]
  BY <1>1 DEF Dispose, Owned, Addresses
<1>9. Contents(a)' = {<<ind[x] - n, value[x]>> : x \in Owned(a) \ D}
  BY <1>7, <1>8
<1>10. {<<ind[x] - n, value[x]>> : x \in Owned(a) \ D} = {<<ind[x] + (-n), value[x]>> : x \in Owned(a) \ D}
  BY <1>1, <1>3
<1>11. Contents(a)' = Abstract!Moved({Pair(x) : x \in Owned(a) \ D}, -n)
  BY <1>9, <1>10, MovedElements
<1>12. Abstract!Change(a, Abstract!Moved({p \in Contents(a) : Abstract!Rank(a, p) >= n}, -n))
  BY <1>1, <1>4, <1>6, <1>11, ChangesOne
<1> QED
  BY <1>1, <1>12 DEF Abstract!Shift

-------------------------------------------------------------------------------
(* Refinement.                                                             *)

LEMMA NextRefines ==
  ASSUME IInv, [Next]_vars
  PROVE  [Abstract!Next]_<<live, [b \in Arrays |-> Contents(b)], answer>>
<1> DEFINE Seen == <<live, [b \in Arrays |-> Contents(b)], answer>>
<1> SUFFICES Abstract!Next \/ UNCHANGED Seen
  OBVIOUS
<1>1. CASE UNCHANGED vars
  BY <1>1, SilentRefines DEF vars, results
<1>2. CASE Begin
  <2>1. PICK a \in Arrays :
          \/ array_create(a) \/ array_flush(a) \/ array_dispose(a)
          \/ \E i \in Indices : array_remove(a, i) \/ array_reference(a, i) \/ answer_none(a, i)
          \/ \E i \in Indices, v \in Values : insert_at_end(a, i, v) \/ array_insert(a, i, v)
          \/ \E n \in Shifts : array_shift(a, n) \/ rshift_null(a, n)
          \/ \E n \in Shifts, v \in Values : rshift_empty(a, n, v) \/ array_rshift(a, n, v)
    BY <1>2 DEF Begin
  <2>2. CASE array_create(a)
    BY <2>2, CreateRefines DEF Abstract!Next
  <2>3. CASE array_flush(a) \/ array_dispose(a)
    BY <2>3, EmptyRefines DEF Abstract!Next
  <2>4. CASE \E i \in Indices : array_remove(a, i) \/ array_reference(a, i)
    BY <2>4, SilentRefines DEF array_remove, array_reference, Search, results
  <2>5. CASE \E i \in Indices : answer_none(a, i)
    BY <2>5, NoneRefines DEF Abstract!Next, Abstract!Indices, Indices
  <2>6. CASE \E i \in Indices, v \in Values : insert_at_end(a, i, v)
    BY <2>6, InsertAtEndRefines DEF Abstract!Next, Abstract!Indices, Indices
  <2>7. CASE \E i \in Indices, v \in Values : array_insert(a, i, v)
    BY <2>7, SilentRefines DEF array_insert, Search, results
  <2>8. CASE \E n \in Shifts : array_shift(a, n)
    BY <2>8, SilentRefines DEF array_shift, results
  <2>9. CASE \E n \in Shifts : rshift_null(a, n)
    BY <2>9, RShiftNullRefines DEF Abstract!Next, Abstract!Indices, Indices, Shifts
  <2>10. CASE \E n \in Shifts, v \in Values : rshift_empty(a, n, v) \/ array_rshift(a, n, v)
    BY <2>10, RShiftRefines DEF Abstract!Next, Abstract!Indices, Indices, Shifts
  <2> QED
    BY <2>1, <2>2, <2>3, <2>4, <2>5, <2>6, <2>7, <2>8, <2>9, <2>10
<1>3. CASE Continue
  <2>1. CASE search_next \/ shift_next
    BY <2>1, SilentRefines DEF search_next, shift_next, results
  <2>2. CASE search_fails
    BY <2>2, FailsRefines DEF Abstract!Next, Abstract!Indices, Indices
  <2>3. CASE insert_replaces \/ insert_before
    BY <2>3, InsertReplacesRefines, InsertBeforeRefines DEF Abstract!Next, Abstract!Indices, Indices
  <2>4. CASE remove_found
    BY <2>4, RemoveRefines DEF Abstract!Next, Abstract!Indices, Indices
  <2>5. CASE reference_found
    BY <2>5, FoundRefines DEF Abstract!Next, Abstract!Indices, Indices
  <2>6. CASE shift_all \/ shift_some
    BY <2>6, ShiftAllRefines, ShiftSomeRefines DEF Abstract!Next, Abstract!Indices, Indices, Shifts
  <2> QED
    BY <2>1, <2>2, <2>3, <2>4, <2>5, <2>6, <1>3 DEF Continue
<1> QED
  BY <1>1, <1>2, <1>3 DEF Next

\* The rings of array.c are sparse arrays: whatever is done to them, and however
\* its steps interleave with what lastref remembers, they answer as SparseArrays do.
THEOREM RingImplementsSparseArrays == Spec => ImplementsSparseArrays
<1>1. Init => Abstract!Init
  BY InitRefines
<1>2. IInv /\ [Next]_vars => [Abstract!Next]_<<live, [b \in Arrays |-> Contents(b)], answer>>
  BY NextRefines
<1>3. IInv /\ [Next]_vars => [Abstract!Next]_(Abstract!vars)
  BY <1>2 DEF Abstract!vars
<1> QED
  BY <1>1, <1>3, Inductive, PTL DEF Spec, ImplementsSparseArrays, Abstract!Spec
================================================================================
