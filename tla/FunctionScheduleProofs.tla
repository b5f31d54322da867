------------------------ MODULE FunctionScheduleProofs ------------------------
(***************************************************************************)
(* The queue of inner function definitions, for every set of scripts: no   *)
(* node is used after it was freed or leaked, print_function_def is never  *)
(* re-entered, and the definitions are printed in the order in which they  *)
(* were come upon.                                                         *)
(***************************************************************************)
EXTENDS FunctionSchedule, Integers, TLAPS

NodeT == [func : Def, next : Nat, live : BOOLEAN]

QueueTypes ==
  /\ nodes \in Seq(NodeT)
  /\ head \in Nat /\ tail \in Nat /\ head <= Len(nodes)
  /\ phase \in {"top", "body", "retire", "queue"}
  /\ queued \in BOOLEAN /\ inside \in BOOLEAN

\* Where the service loop stands: its head is not NULL while it prints or
\* retires it, and nothing waits once the script goes on.
LoopPosition ==
  /\ phase = "retire" => head # 0 /\ queued
  /\ phase = "body" /\ queued => head # 0
  /\ phase = "top" => head = 0

\* The flag is up exactly while a body is emitted.
NotReentrant == inside <=> phase = "body"

QInv == QueueTypes /\ NotReentrant /\ QueueSound /\ LoopPosition

-------------------------------------------------------------------------------
(* Changing one node of the list.                                          *)
LEMMA NodeExcept ==
  ASSUME NEW s \in Seq(NodeT), NEW i \in 1..Len(s), NEW r \in NodeT
  PROVE  LET t == [s EXCEPT ![i] = r]
         IN  /\ t \in Seq(NodeT) /\ Len(t) = Len(s) /\ t[i] = r
             /\ \A k \in 1..Len(s) : k # i => t[k] = s[k]
OBVIOUS

LEMMA InitQInv == Init => QInv
<1> SUFFICES ASSUME Init PROVE QInv
  OBVIOUS
<1>1. nodes \in Seq(NodeT) /\ Len(nodes) = 0
  BY DEF Init
<1>2. /\ head = 0 /\ tail = 0 /\ phase = "top"
      /\ queued = FALSE /\ inside = FALSE
  BY DEF Init
<1>3. QueueTypes
  <2>1. queued \in BOOLEAN /\ inside \in BOOLEAN
    BY <1>2, Zenon
  <2>2. head \in Nat /\ tail \in Nat /\ head <= Len(nodes)
    BY <1>1, <1>2
  <2>3. phase \in {"top", "body", "retire", "queue"}
    BY <1>2
  <2> QED BY <1>1, <2>1, <2>2, <2>3 DEF QueueTypes
<1>4. NotReentrant /\ LoopPosition
  BY <1>2 DEF NotReentrant, LoopPosition
<1>5. QueueSound
  BY <1>1, <1>2 DEF QueueSound
<1> QED BY <1>3, <1>4, <1>5 DEF QInv

(* Appending an inner definition keeps the queue linked from head to tail. *)
LEMMA InnerDefinitionQInv == QInv /\ InnerDefinition => QInv'
<1> SUFFICES ASSUME QInv, InnerDefinition PROVE QInv'
  OBVIOUS
<1> DEFINE new == Len(nodes) + 1
<1>1. PICK d \in Def :
        /\ nodes' = IF head = 0 \/ tail = 0 THEN Append(nodes, NewNode(d))
                    ELSE Append([nodes EXCEPT ![tail].next = new], NewNode(d))
        /\ head' = IF head = 0 THEN new ELSE head
        /\ tail' = new
  BY DEF InnerDefinition
<1>2. inside /\ phase = "body" /\ UNCHANGED <<phase, queued, inside>>
  BY DEF InnerDefinition, QInv, NotReentrant
<1>3. /\ nodes \in Seq(NodeT) /\ Len(nodes) \in Nat /\ head \in Nat /\ head <= Len(nodes)
      /\ NewNode(d) = [func |-> d, next |-> 0, live |-> TRUE]
      /\ NewNode(d) \in NodeT
  BY DEF QInv, QueueTypes, NewNode, NodeT
<1>4. CASE head = 0
  <2>1. nodes' = Append(nodes, NewNode(d)) /\ head' = new /\ tail' = new
    BY <1>1, <1>4
  <2>2. /\ nodes' \in Seq(NodeT) /\ Len(nodes') = new /\ nodes'[new] = NewNode(d)
        /\ \A i \in 1..Len(nodes) : nodes'[i] = nodes[i]
    BY <2>1, <1>3
  <2>3. \A i \in 1..Len(nodes) : ~nodes[i].live
    BY <1>3, <1>4 DEF QInv, QueueSound, QueueTypes, NodeT
  <2> QED
    BY <1>2, <1>3, <1>4, <2>1, <2>2, <2>3
    DEF QInv, QueueTypes, NotReentrant, QueueSound, LoopPosition
<1>5. CASE head # 0
  <2>1. tail = Len(nodes) /\ tail # 0 /\ tail \in 1..Len(nodes)
    BY <1>3, <1>5 DEF QInv, QueueSound, QueueTypes
  <2> DEFINE linked == [nodes EXCEPT ![tail].next = new]
  <2>2. nodes' = Append(linked, NewNode(d)) /\ head' = head /\ tail' = new
    BY <1>1, <1>5, <2>1
  <2>3. /\ linked \in Seq(NodeT) /\ Len(linked) = Len(nodes)
        /\ linked[tail].next = new /\ linked[tail].live = nodes[tail].live
        /\ \A i \in 1..Len(nodes) : i # tail => linked[i] = nodes[i]
    <3> DEFINE r == [nodes[tail] EXCEPT !.next = new]
    <3>1. nodes[tail] \in NodeT /\ new \in Nat
      BY <1>3, <2>1
    <3>2. r \in NodeT /\ r.next = new /\ r.live = nodes[tail].live
      BY <3>1 DEF NodeT
    <3>3. linked = [nodes EXCEPT ![tail] = r]
      OBVIOUS
    <3> HIDE DEF r, linked
    <3> QED BY <1>3, <2>1, <3>2, <3>3, NodeExcept
  <2> HIDE DEF linked
  <2>4. /\ nodes' \in Seq(NodeT) /\ Len(nodes') = new /\ nodes'[new] = NewNode(d)
        /\ \A i \in 1..Len(nodes) : nodes'[i] = linked[i]
    BY <2>2, <2>3, <1>3
  <2>5. ASSUME NEW i \in 1..new
        PROVE  /\ nodes'[i].live <=> i >= head
               /\ i >= head => nodes'[i].next = IF i = new THEN 0 ELSE i + 1
    <3>1. CASE i = new
      BY <3>1, <2>4, <1>3
    <3>2. CASE i = tail
      <4>1. nodes[i].live <=> i >= head
        BY <3>2, <2>1, <1>5 DEF QInv, QueueSound
      <4> QED BY <3>2, <4>1, <2>1, <2>3, <2>4, <1>3
    <3>3. CASE i # tail /\ i # new
      <4>1. i \in 1..Len(nodes) /\ i # Len(nodes)
        BY <3>3, <1>3, <2>1
      <4>2. /\ nodes[i].live <=> i >= head
            /\ i >= head => nodes[i].next = i + 1
        BY <4>1, <1>5 DEF QInv, QueueSound
      <4> QED BY <3>3, <4>1, <4>2, <2>3, <2>4
    <3> QED BY <3>1, <3>2, <3>3
  <2> QED
    BY <1>2, <1>3, <1>5, <2>2, <2>4, <2>5
    DEF QInv, QueueTypes, NotReentrant, QueueSound, LoopPosition
<1> QED BY <1>4, <1>5

(* Unlinking and freeing the head makes its successor the head.            *)
LEMMA RetireQInv == QInv /\ Retire => QInv'
<1> SUFFICES ASSUME QInv, Retire PROVE QInv'
  OBVIOUS
<1>1. /\ head # 0 /\ head \in Nat /\ head <= Len(nodes) /\ Len(nodes) \in Nat
      /\ nodes \in Seq(NodeT) /\ head \in 1..Len(nodes)
  BY DEF QInv, QueueTypes, LoopPosition, Retire
<1>2. /\ nodes' = [nodes EXCEPT ![head].live = FALSE]
      /\ head' = nodes[head].next /\ tail' = tail /\ phase' = "queue"
      /\ inside' = inside /\ queued' = queued /\ phase = "retire"
  BY DEF Retire
<1>3. nodes[head].next = IF head = Len(nodes) THEN 0 ELSE head + 1
  BY <1>1 DEF QInv, QueueSound
<1>4. /\ nodes' \in Seq(NodeT) /\ Len(nodes') = Len(nodes)
      /\ ~nodes'[head].live /\ nodes'[head].next = nodes[head].next
      /\ \A i \in 1..Len(nodes) : i # head => nodes'[i] = nodes[i]
  <2> DEFINE r == [nodes[head] EXCEPT !.live = FALSE]
  <2>1. nodes[head] \in NodeT
    BY <1>1
  <2>2. r \in NodeT /\ ~r.live /\ r.next = nodes[head].next
    BY <2>1 DEF NodeT
  <2>3. nodes' = [nodes EXCEPT ![head] = r]
    BY <1>2
  <2> HIDE DEF r
  <2> QED BY <1>1, <2>2, <2>3, NodeExcept
<1>5. /\ tail = Len(nodes)
      /\ \A i \in 1..Len(nodes) :
           /\ nodes[i].live <=> i >= head
           /\ i >= head => nodes[i].next = IF i = Len(nodes) THEN 0 ELSE i + 1
  BY <1>1 DEF QInv, QueueSound
<1>6. CASE head = Len(nodes)
  BY <1>1, <1>2, <1>3, <1>4, <1>5, <1>6
  DEF QInv, QueueTypes, NotReentrant, QueueSound, LoopPosition
<1>7. CASE head # Len(nodes)
  BY <1>1, <1>2, <1>3, <1>4, <1>5, <1>7
  DEF QInv, QueueTypes, NotReentrant, QueueSound, LoopPosition
<1> QED BY <1>6, <1>7

(* The steps that leave the queue alone.                                   *)
LEMMA OtherStepsQInv ==
  QInv /\ (Command \/ Assign \/ Parameter \/ OuterDefinition \/ EndDefinition
             \/ ServiceQueue \/ QueueDone \/ UNCHANGED vars) => QInv'
<1> SUFFICES ASSUME QInv PROVE
      (Command \/ Assign \/ Parameter \/ OuterDefinition \/ EndDefinition
         \/ ServiceQueue \/ QueueDone \/ UNCHANGED vars) => QInv'
  OBVIOUS
<1> USE DEF QInv, QueueTypes, NotReentrant, QueueSound, LoopPosition, queue
<1>1. CASE Command
  BY <1>1 DEF Command
<1>2. CASE Assign
  BY <1>2 DEF Assign
<1>3. CASE Parameter
  BY <1>3 DEF Parameter
<1>4. CASE OuterDefinition
  <2>1. phase = "top" /\ head = 0
    BY <1>4 DEF OuterDefinition, Here, AtTop, AtBody
  <2> QED BY <1>4, <2>1 DEF OuterDefinition, StartDefinition
<1>5. CASE EndDefinition
  BY <1>5 DEF EndDefinition
<1>6. CASE ServiceQueue
  BY <1>6 DEF ServiceQueue, StartDefinition
<1>7. CASE QueueDone
  BY <1>7 DEF QueueDone
<1>8. CASE UNCHANGED vars
  BY <1>8 DEF vars
<1> QED BY <1>1, <1>2, <1>3, <1>4, <1>5, <1>6, <1>7, <1>8

THEOREM QueueInvariant == Spec => []QInv
<1>1. QInv /\ [Next]_vars => QInv'
  BY InnerDefinitionQInv, RetireQInv, OtherStepsQInv DEF Next, Translate, Done
<1> QED BY <1>1, InitQInv, PTL DEF Spec

(* The queue's list is sound: no use after free, no leak, no cycle.        *)
THEOREM QueueIsSound == Spec => []QueueSound
<1>1. QInv => QueueSound
  BY DEF QInv
<1> QED BY <1>1, QueueInvariant, PTL

(* The one save buffer has one user: print_function_def is not re-entered. *)
THEOREM SaveIsNotShared == Spec => SaveHasOneUser
<1> DEFINE Safe == inside /\ inside' => UNCHANGED <<def, queued, save, saveParms>>
<1>1. QInv /\ [Next]_vars => [Safe]_vars
  <2> SUFFICES ASSUME QInv, Next, inside, inside'
               PROVE  UNCHANGED <<def, queued, save, saveParms>>
    BY DEF Safe
  <2>1. phase = "body"
    BY DEF QInv, NotReentrant
  <2>2. ~OuterDefinition /\ ~EndDefinition /\ ~ServiceQueue /\ ~Retire /\ ~QueueDone
    BY <2>1 DEF OuterDefinition, EndDefinition, ServiceQueue, Retire, QueueDone
  <2>3. CASE Command \/ Assign \/ Parameter
    BY <2>3 DEF Command, Assign, Parameter
  <2>4. CASE InnerDefinition
    BY <2>4 DEF InnerDefinition, buffers
  <2>5. CASE Done
    BY <2>5 DEF Done, vars
  <2> QED BY <2>2, <2>3, <2>4, <2>5 DEF Next, Translate
<1>2. Spec => [][Safe]_vars
  BY <1>1, QueueInvariant, PTL DEF Spec
<1> QED BY <1>2 DEF SaveHasOneUser, Safe
-------------------------------------------------------------------------------
(***************************************************************************)
(* The order.  Definitions are registered when they are come upon, so the  *)
(* registry, whose latest entry is its first, lists the printed ones after *)
(* the waiting ones: the i-th node, if it still waits, carries the name at *)
(* distance Len(nodes) - i from the front.                                 *)
(***************************************************************************)
\* The first node whose printing has not begun.
FirstWaiting ==
  IF head = 0 THEN Len(nodes) + 1
  ELSE IF queued /\ phase \in {"body", "retire"} THEN head + 1 ELSE head

OInv ==
  /\ names \in Seq(Name) /\ printed \in Seq(Name)
  /\ Len(printed) + (Len(nodes) + 1 - FirstWaiting) = Len(names)
  /\ \A j \in 1..Len(printed) : printed[j] = names[Len(names) + 1 - j]
  /\ \A i \in FirstWaiting..Len(nodes) : NameOf[nodes[i].func] = names[Len(nodes) + 1 - i]

LEMMA PrependName ==
  ASSUME NEW s \in Seq(Name), NEW n \in Name
  PROVE  LET t == <<n>> \o s
         IN  /\ t \in Seq(Name) /\ Len(t) = Len(s) + 1 /\ t[1] = n
             /\ \A k \in 1..Len(s) : t[k + 1] = s[k]
             /\ Reversed(t) = Append(Reversed(s), n)
<1> DEFINE t == <<n>> \o s
<1>1. /\ t \in Seq(Name) /\ Len(t) = Len(s) + 1 /\ t[1] = n
      /\ \A k \in 1..Len(s) : t[k + 1] = s[k]
  OBVIOUS
<1> HIDE DEF t
<1> DEFINE a == Append(Reversed(s), n)
           b == Reversed(t)
<1>2. /\ Reversed(s) \in Seq(Name) /\ Len(Reversed(s)) = Len(s)
      /\ \A i \in 1..Len(s) : Reversed(s)[i] = s[Len(s) + 1 - i]
  <2>1. Reversed(s) \in [1..Len(s) -> Name]
    BY DEF Reversed
  <2> QED BY <2>1 DEF Reversed
<1>3. /\ a \in Seq(Name) /\ Len(a) = Len(s) + 1 /\ a[Len(s) + 1] = n
      /\ \A i \in 1..Len(s) : a[i] = s[Len(s) + 1 - i]
  BY <1>2
<1>4. /\ b \in Seq(Name) /\ Len(b) = Len(s) + 1
      /\ \A i \in 1..(Len(s) + 1) : b[i] = t[Len(s) + 2 - i]
  <2>1. b \in [1..Len(t) -> Name]
    BY <1>1 DEF Reversed
  <2> QED BY <2>1, <1>1 DEF Reversed
<1> HIDE DEF a, b
<1>5. \A i \in 1..(Len(s) + 1) : a[i] = b[i]
  <2> SUFFICES ASSUME NEW i \in 1..(Len(s) + 1) PROVE a[i] = b[i]
    OBVIOUS
  <2>1. CASE i = Len(s) + 1
    BY <2>1, <1>1, <1>3, <1>4
  <2>2. CASE i # Len(s) + 1
    <3>1. i \in 1..Len(s) /\ Len(s) + 1 - i \in 1..Len(s)
      BY <2>2
    <3>2. t[(Len(s) + 1 - i) + 1] = s[Len(s) + 1 - i]
      BY <3>1, <1>1
    <3>3. b[i] = t[Len(s) + 2 - i] /\ a[i] = s[Len(s) + 1 - i]
      BY <3>1, <1>3, <1>4
    <3> QED BY <3>1, <3>2, <3>3
  <2> QED BY <2>1, <2>2
<1>6. a = b
  BY <1>3, <1>4, <1>5
<1> QED BY <1>1, <1>6 DEF a, b, t
LEMMA InitOInv == Init => OInv /\ Order!Init
<1> SUFFICES ASSUME Init PROVE OInv /\ Order!Init
  OBVIOUS
<1>1. /\ names = <<>> /\ printed = <<>> /\ nodes = <<>> /\ head = 0
  BY DEF Init
<1>2. OInv
  BY <1>1 DEF OInv, FirstWaiting
<1>3. Reversed(names) = <<>>
  BY <1>1 DEF Reversed
<1> QED BY <1>1, <1>2, <1>3 DEF Order!Init

(* Types the steps below need.                                             *)
LEMMA OrderTypes ==
  ASSUME QInv, OInv
  PROVE  /\ head \in Nat /\ Len(nodes) \in Nat /\ head <= Len(nodes)
         /\ FirstWaiting \in 1..(Len(nodes) + 1)
         /\ Len(names) \in Nat /\ Len(printed) \in Nat
         /\ Reversed(names) \in Seq(Name) /\ Len(Reversed(names)) = Len(names)
         /\ \A i \in 1..Len(names) : Reversed(names)[i] = names[Len(names) + 1 - i]
<1>1. head \in Nat /\ Len(nodes) \in Nat /\ head <= Len(nodes)
  BY DEF QInv, QueueTypes
<1>2. FirstWaiting \in 1..(Len(nodes) + 1)
  BY <1>1 DEF FirstWaiting
<1>3. Reversed(names) \in [1..Len(names) -> Name]
  BY DEF OInv, Reversed
<1> QED BY <1>1, <1>2, <1>3 DEF OInv, Reversed

(* A step that registers and prints nothing, and keeps what waits.         *)
LEMMA QuietStep ==
  ASSUME QInv, OInv, names' = names, printed' = printed, FirstWaiting' = FirstWaiting,
         Len(nodes') = Len(nodes),
         \A i \in 1..Len(nodes) : nodes'[i].func = nodes[i].func
  PROVE  OInv' /\ UNCHANGED Order!vars
<1>0. Len(nodes) \in Nat /\ FirstWaiting \in 1..(Len(nodes) + 1)
  BY OrderTypes
<1>1. OInv'
  <2>1. /\ names' \in Seq(Name) /\ printed' \in Seq(Name)
        /\ Len(printed') + (Len(nodes') + 1 - FirstWaiting') = Len(names')
    BY DEF OInv
  <2>2. \A j \in 1..Len(printed') : printed'[j] = names'[Len(names') + 1 - j]
    BY DEF OInv
  <2>3. ASSUME NEW i \in FirstWaiting..Len(nodes)
        PROVE  NameOf[nodes'[i].func] = names[Len(nodes) + 1 - i]
    <3>1. i \in 1..Len(nodes)
      BY <1>0
    <3> QED BY <3>1 DEF OInv
  <2> QED BY <2>1, <2>2, <2>3 DEF OInv
<1>2. Reversed(names)' = Reversed(names)
  BY DEF Reversed
<1> QED BY <1>1, <1>2 DEF Order!vars

LEMMA OuterDefinitionOrder ==
  ASSUME QInv, OInv, OuterDefinition
  PROVE  OInv' /\ Order!Next
<1>1. phase = "top" /\ head = 0
  BY DEF OuterDefinition, Here, AtTop, AtBody, QInv, NotReentrant, LoopPosition
<1>2. PICK d \in Def :
        /\ names' = <<NameOf[d]>> \o names /\ printed' = Append(printed, NameOf[d])
        /\ nodes' = nodes /\ head' = head /\ phase' = "body" /\ queued' = FALSE
  BY DEF OuterDefinition, StartDefinition, Register, queue
<1> DEFINE n == NameOf[d]
<1>3. n \in Name
  BY NamesOfDefs
<1> HIDE DEF n
<1>4. FirstWaiting = Len(nodes) + 1 /\ FirstWaiting' = Len(nodes) + 1
  BY <1>1, <1>2 DEF FirstWaiting
<1>5. names' = <<n>> \o names /\ printed' = Append(printed, n)
  BY <1>2 DEF n
<1>6. /\ names \in Seq(Name) /\ printed \in Seq(Name) /\ Len(printed) = Len(names)
      /\ \A j \in 1..Len(printed) : printed[j] = names[Len(names) + 1 - j]
  BY <1>4, OrderTypes DEF OInv
<1>7. /\ names' \in Seq(Name) /\ Len(names') = Len(names) + 1 /\ names'[1] = n
      /\ \A k \in 1..Len(names) : names'[k + 1] = names[k]
      /\ Reversed(names') = Append(Reversed(names), n)
  BY <1>3, <1>5, <1>6, PrependName
<1>8. /\ printed' \in Seq(Name) /\ Len(printed') = Len(printed) + 1
      /\ printed'[Len(printed) + 1] = n
      /\ \A j \in 1..Len(printed) : printed'[j] = printed[j]
  BY <1>3, <1>5, <1>6
<1>9. ASSUME NEW j \in 1..Len(printed') PROVE printed'[j] = names'[Len(names') + 1 - j]
  <2>1. CASE j = Len(printed) + 1
    BY <2>1, <1>6, <1>7, <1>8
  <2>2. CASE j # Len(printed) + 1
    <3>1. j \in 1..Len(printed) /\ Len(names) + 1 - j \in 1..Len(names)
      BY <2>2, <1>6, <1>8
    <3>2. names'[(Len(names) + 1 - j) + 1] = names[Len(names) + 1 - j]
      BY <3>1, <1>7
    <3> QED BY <3>1, <3>2, <1>6, <1>7, <1>8
  <2> QED BY <2>1, <2>2
<1>10. OInv'
  <2>1. Len(nodes) \in Nat
    BY OrderTypes
  <2>2. Len(printed') + (Len(nodes') + 1 - FirstWaiting') = Len(names')
    BY <2>1, <1>2, <1>4, <1>6, <1>7, <1>8
  <2>3. FirstWaiting'..Len(nodes') = {}
    BY <2>1, <1>2, <1>4
  <2> QED BY <2>2, <2>3, <1>7, <1>8, <1>9 DEF OInv
<1>11. printed = Reversed(names)
  <2>1. /\ Reversed(names) \in Seq(Name) /\ Len(Reversed(names)) = Len(names)
        /\ \A i \in 1..Len(names) : Reversed(names)[i] = names[Len(names) + 1 - i]
    BY OrderTypes
  <2> QED BY <1>6, <2>1
<1>12. Order!ComeUponAndPrint(n)
  BY <1>5, <1>7, <1>11 DEF Order!ComeUponAndPrint
<1> QED BY <1>3, <1>10, <1>12 DEF Order!Next

(* What becomes of the nodes when an inner definition is appended, and     *)
(* when the head is freed.                                                 *)
LEMMA InnerNodes ==
  ASSUME QInv, NEW d \in Def,
         nodes' = IF head = 0 \/ tail = 0 THEN Append(nodes, NewNode(d))
                  ELSE Append([nodes EXCEPT ![tail].next = Len(nodes) + 1], NewNode(d))
  PROVE  /\ Len(nodes') = Len(nodes) + 1 /\ nodes'[Len(nodes) + 1].func = d
         /\ \A i \in 1..Len(nodes) : nodes'[i].func = nodes[i].func
<1> DEFINE new == Len(nodes) + 1
<1>1. nodes \in Seq(NodeT) /\ NewNode(d) \in NodeT /\ NewNode(d).func = d
  BY DEF QInv, QueueTypes, NewNode, NodeT
<1>2. CASE head = 0 \/ tail = 0
  BY <1>1, <1>2
<1>3. CASE ~(head = 0 \/ tail = 0)
  <2>1. tail \in 1..Len(nodes)
    BY <1>3 DEF QInv, QueueSound, QueueTypes
  <2> DEFINE r == [nodes[tail] EXCEPT !.next = new]
             s == [nodes EXCEPT ![tail] = r]
  <2>2. r \in NodeT /\ r.func = nodes[tail].func
    <3>1. nodes[tail] \in NodeT /\ new \in Nat
      BY <1>1, <2>1
    <3> QED BY <3>1 DEF NodeT
  <2> HIDE DEF r
  <2>3. /\ s \in Seq(NodeT) /\ Len(s) = Len(nodes) /\ s[tail] = r
        /\ \A k \in 1..Len(nodes) : k # tail => s[k] = nodes[k]
    BY <1>1, <2>1, <2>2, NodeExcept
  <2>4. nodes' = Append(s, NewNode(d))
    BY <1>3 DEF r
  <2> HIDE DEF s
  <2>5. /\ Len(nodes') = Len(s) + 1 /\ nodes'[Len(s) + 1] = NewNode(d)
        /\ \A k \in 1..Len(s) : nodes'[k] = s[k]
    BY <2>3, <2>4
  <2> QED BY <1>1, <2>1, <2>2, <2>3, <2>5
<1> QED BY <1>2, <1>3

LEMMA RetiredNodes ==
  ASSUME QInv, Retire
  PROVE  Len(nodes') = Len(nodes) /\ \A i \in 1..Len(nodes) : nodes'[i].func = nodes[i].func
<1>1. head \in 1..Len(nodes) /\ nodes \in Seq(NodeT) /\ Len(nodes) \in Nat
  BY DEF Retire, QInv, LoopPosition, QueueTypes
<1> DEFINE r == [nodes[head] EXCEPT !.live = FALSE]
<1>2. r \in NodeT /\ r.func = nodes[head].func
  <2>1. nodes[head] \in NodeT
    BY <1>1
  <2> QED BY <2>1 DEF NodeT
<1>3. nodes' = [nodes EXCEPT ![head] = r]
  BY DEF Retire
<1> HIDE DEF r
<1> QED BY <1>1, <1>2, <1>3, NodeExcept

LEMMA InnerDefinitionOrder ==
  ASSUME QInv, OInv, InnerDefinition
  PROVE  OInv' /\ Order!Next
<1> DEFINE new == Len(nodes) + 1
<1>1. PICK d \in Def :
        /\ names' = <<NameOf[d]>> \o names /\ printed' = printed
        /\ nodes' = IF head = 0 \/ tail = 0 THEN Append(nodes, NewNode(d))
                    ELSE Append([nodes EXCEPT ![tail].next = new], NewNode(d))
        /\ head' = IF head = 0 THEN new ELSE head
        /\ phase' = phase /\ queued' = queued
  BY DEF InnerDefinition, Register
<1>2. phase = "body" /\ (queued => head # 0)
  BY DEF InnerDefinition, QInv, NotReentrant, LoopPosition
<1>4. /\ Len(nodes') = new /\ nodes'[new].func = d
      /\ \A i \in 1..Len(nodes) : nodes'[i].func = nodes[i].func
  BY <1>1, InnerNodes
<1> DEFINE n == NameOf[d]
<1>5. n \in Name
  BY NamesOfDefs
<1> HIDE DEF n
<1>6. names' = <<n>> \o names
  BY <1>1 DEF n
<1>7. /\ names' \in Seq(Name) /\ Len(names') = Len(names) + 1 /\ names'[1] = n
      /\ \A k \in 1..Len(names) : names'[k + 1] = names[k]
      /\ Reversed(names') = Append(Reversed(names), n)
  BY <1>5, <1>6, PrependName DEF OInv
<1>8. FirstWaiting' = FirstWaiting
  BY <1>1, <1>2, <1>4, OrderTypes DEF FirstWaiting
<1>9. ASSUME NEW i \in FirstWaiting..Len(nodes')
      PROVE  NameOf[nodes'[i].func] = names'[Len(nodes') + 1 - i]
  <2>1. CASE i = new
    BY <2>1, <1>4, <1>7, OrderTypes DEF n
  <2>2. CASE i # new
    <3>1. i \in FirstWaiting..Len(nodes) /\ i \in 1..Len(nodes)
      BY <2>2, <1>4, OrderTypes
    <3>2. NameOf[nodes[i].func] = names[Len(nodes) + 1 - i]
      BY <3>1 DEF OInv
    <3>3. Len(nodes) + 1 - i \in 1..Len(names)
      BY <3>1, OrderTypes DEF OInv
    <3>4. names'[(Len(nodes) + 1 - i) + 1] = names[Len(nodes) + 1 - i]
      BY <3>3, <1>7
    <3>5. (Len(nodes) + 1 - i) + 1 = Len(nodes') + 1 - i
      BY <3>1, <1>4, OrderTypes
    <3> QED BY <3>1, <3>2, <3>4, <3>5, <1>4
  <2> QED BY <2>1, <2>2
<1>10. ASSUME NEW j \in 1..Len(printed) PROVE printed[j] = names'[Len(names') + 1 - j]
  <2>1. printed[j] = names[Len(names) + 1 - j]
    BY DEF OInv
  <2>2. Len(names) + 1 - j \in 1..Len(names) /\ j \in Nat
    BY OrderTypes DEF OInv
  <2>3. names'[(Len(names) + 1 - j) + 1] = names[Len(names) + 1 - j]
    BY <2>2, <1>7
  <2>4. (Len(names) + 1 - j) + 1 = Len(names') + 1 - j
    BY <2>2, <1>7, OrderTypes
  <2> QED BY <2>1, <2>3, <2>4
<1>11. Len(printed) + (Len(nodes') + 1 - FirstWaiting) = Len(names')
  <2>1. /\ Len(nodes) \in Nat /\ FirstWaiting \in 1..(Len(nodes) + 1)
        /\ Len(names) \in Nat /\ Len(printed) \in Nat
    BY OrderTypes
  <2>2. Len(printed) + (Len(nodes) + 1 - FirstWaiting) = Len(names)
    BY DEF OInv
  <2>3. Len(nodes') = Len(nodes) + 1
    BY <1>4
  <2>4. Len(names') = Len(names) + 1
    BY <1>7
  <2> HIDE DEF new
  <2> QED BY <2>1, <2>2, <2>3, <2>4
<1>12. OInv'
  BY <1>1, <1>7, <1>8, <1>9, <1>10, <1>11 DEF OInv
<1>13. Order!ComeUpon(n)
  BY <1>1, <1>7 DEF Order!ComeUpon
<1> QED BY <1>5, <1>12, <1>13 DEF Order!Next

LEMMA ServiceQueueOrder ==
  ASSUME QInv, OInv, ServiceQueue
  PROVE  OInv' /\ Order!Next
<1>1. /\ phase = "queue" /\ head # 0 /\ names' = names /\ nodes' = nodes /\ head' = head
      /\ printed' = Append(printed, NameOf[nodes[head].func])
      /\ phase' = "body" /\ queued' = TRUE
  BY DEF ServiceQueue, StartDefinition, queue
<1> DEFINE n == NameOf[nodes[head].func]
<1>2. FirstWaiting = head /\ FirstWaiting' = head + 1 /\ head \in 1..Len(nodes)
  BY <1>1, OrderTypes DEF FirstWaiting
<1>3. n = names[Len(nodes) + 1 - head] /\ n \in Name
  <2>1. n = names[Len(nodes) + 1 - head]
    BY <1>2 DEF OInv
  <2>2. Len(nodes) + 1 - head \in 1..Len(names)
    BY <1>2, OrderTypes DEF OInv
  <2> QED BY <2>1, <2>2 DEF OInv
<1>4. Len(names) + 1 - (Len(printed) + 1) = Len(nodes) + 1 - head
  <2>1. Len(printed) + (Len(nodes) + 1 - head) = Len(names)
    BY <1>2 DEF OInv
  <2>2. Len(nodes) \in Nat /\ Len(names) \in Nat /\ Len(printed) \in Nat /\ head \in Nat
    BY OrderTypes
  <2> QED BY <2>1, <2>2
<1>5. Len(printed) < Len(names)
  <2>1. Len(nodes) + 1 - head > 0 /\ Len(nodes) \in Nat /\ head \in Nat
    BY <1>2, OrderTypes
  <2>2. Len(names) \in Nat /\ Len(printed) \in Nat
    BY OrderTypes
  <2> QED BY <1>4, <2>1, <2>2
<1> HIDE DEF n
<1>6. printed' = Append(printed, n)
  BY <1>1 DEF n
<1>7. /\ printed' \in Seq(Name) /\ Len(printed') = Len(printed) + 1
      /\ printed'[Len(printed) + 1] = n
      /\ \A j \in 1..Len(printed) : printed'[j] = printed[j]
  BY <1>3, <1>6 DEF OInv
<1>8. ASSUME NEW j \in 1..Len(printed') PROVE printed'[j] = names[Len(names) + 1 - j]
  <2>1. CASE j = Len(printed) + 1
    BY <2>1, <1>3, <1>4, <1>7
  <2>2. CASE j # Len(printed) + 1
    <3>1. j \in 1..Len(printed)
      BY <2>2, <1>7, OrderTypes
    <3> QED BY <3>1, <1>7 DEF OInv
  <2> QED BY <2>1, <2>2
<1>9. OInv'
  <2>1. names' \in Seq(Name) /\ printed' \in Seq(Name)
    BY <1>1, <1>7 DEF OInv
  <2>2. Len(printed') + (Len(nodes') + 1 - FirstWaiting') = Len(names')
    <3>1. Len(printed) + (Len(nodes) + 1 - head) = Len(names)
      BY <1>2 DEF OInv
    <3>2. Len(nodes) \in Nat /\ Len(printed) \in Nat /\ head \in Nat
      BY OrderTypes
    <3>3. /\ Len(nodes') = Len(nodes) /\ Len(names') = Len(names)
          /\ Len(printed') = Len(printed) + 1 /\ FirstWaiting' = head + 1
      BY <1>1, <1>2, <1>7
    <3> QED BY <3>1, <3>2, <3>3
  <2>3. \A j \in 1..Len(printed') : printed'[j] = names'[Len(names') + 1 - j]
    BY <1>1, <1>8
  <2>4. ASSUME NEW i \in FirstWaiting'..Len(nodes')
        PROVE  NameOf[nodes'[i].func] = names'[Len(nodes') + 1 - i]
    <3>1. i \in FirstWaiting..Len(nodes)
      BY <1>1, <1>2, <2>4, OrderTypes
    <3> QED BY <1>1, <3>1 DEF OInv
  <2> QED BY <2>1, <2>2, <2>3, <2>4 DEF OInv
<1>10. Len(printed) + 1 \in 1..Len(names)
  BY <1>5, OrderTypes
<1>11. Reversed(names)[Len(printed) + 1] = n
  BY <1>3, <1>4, <1>10, OrderTypes
<1>12. Reversed(names)' = Reversed(names)
  BY <1>1 DEF Reversed
<1>13. Order!PrintNext
  BY <1>5, <1>6, <1>11, <1>12, OrderTypes DEF Order!PrintNext
<1> QED BY <1>9, <1>13 DEF Order!Next

LEMMA QuietStepsOrder ==
  ASSUME QInv, OInv,
         Command \/ Assign \/ Parameter \/ EndDefinition \/ Retire \/ QueueDone \/ UNCHANGED vars
  PROVE  OInv' /\ UNCHANGED Order!vars
<1>1. CASE Command
  <2>1. names' = names /\ printed' = printed /\ nodes' = nodes /\ FirstWaiting' = FirstWaiting
    BY <1>1 DEF Command, queue, FirstWaiting
  <2> QED BY <2>1, QuietStep
<1>2. CASE Assign
  <2>1. names' = names /\ printed' = printed /\ nodes' = nodes /\ FirstWaiting' = FirstWaiting
    BY <1>2 DEF Assign, queue, FirstWaiting
  <2> QED BY <2>1, QuietStep
<1>3. CASE Parameter
  <2>1. names' = names /\ printed' = printed /\ nodes' = nodes /\ FirstWaiting' = FirstWaiting
    BY <1>3 DEF Parameter, queue, FirstWaiting
  <2> QED BY <2>1, QuietStep
<1>4. CASE EndDefinition
  <2>1. names' = names /\ printed' = printed /\ nodes' = nodes /\ FirstWaiting' = FirstWaiting
    BY <1>4 DEF EndDefinition, queue, FirstWaiting
  <2> QED BY <2>1, QuietStep
<1>5. CASE Retire
  <2>1. /\ head # 0 /\ head \in 1..Len(nodes) /\ nodes \in Seq(NodeT) /\ Len(nodes) \in Nat
    BY <1>5 DEF Retire, QInv, LoopPosition, QueueTypes
  <2>2. /\ nodes' = [nodes EXCEPT ![head].live = FALSE] /\ head' = nodes[head].next
        /\ phase = "retire" /\ phase' = "queue" /\ queued' = queued
        /\ names' = names /\ printed' = printed
    BY <1>5 DEF Retire
  <2>3. Len(nodes') = Len(nodes) /\ \A i \in 1..Len(nodes) : nodes'[i].func = nodes[i].func
    BY <1>5, RetiredNodes
  <2>4. nodes[head].next = IF head = Len(nodes) THEN 0 ELSE head + 1
    BY <2>1 DEF QInv, QueueSound
  <2>5. FirstWaiting' = FirstWaiting
    BY <1>5, <2>1, <2>2, <2>3, <2>4 DEF FirstWaiting, QInv, LoopPosition
  <2> QED BY <2>2, <2>3, <2>5, QuietStep
<1>6. CASE QueueDone
  <2>1. names' = names /\ printed' = printed /\ nodes' = nodes /\ FirstWaiting' = FirstWaiting
    BY <1>6 DEF QueueDone, queue, FirstWaiting
  <2> QED BY <2>1, QuietStep
<1>7. CASE UNCHANGED vars
  <2>1. names' = names /\ printed' = printed /\ nodes' = nodes /\ FirstWaiting' = FirstWaiting
    BY <1>7 DEF vars, FirstWaiting
  <2> QED BY <2>1, QuietStep
<1> QED BY <1>1, <1>2, <1>3, <1>4, <1>5, <1>6, <1>7

(* The schedule implements the abstract order (its safety part).           *)
THEOREM SchedulePrintsInOrder == Spec => Order!Init /\ [][Order!Next]_Order!vars
<1>1. QInv /\ OInv /\ [Next]_vars => OInv' /\ [Order!Next]_Order!vars
  BY OuterDefinitionOrder, InnerDefinitionOrder, ServiceQueueOrder, QuietStepsOrder
  DEF Next, Translate, Done
<1>2. Spec => []OInv
  BY <1>1, InitOInv, QueueInvariant, PTL DEF Spec
<1> QED BY <1>1, <1>2, InitOInv, QueueInvariant, PTL DEF Spec
-------------------------------------------------------------------------------
(***************************************************************************)
(* The names.  A token for a definition is written when the name has been  *)
(* registered, and a name is never taken out of the registry; a command is *)
(* compared with the registry when its token is written.  The globals of a *)
(* body wait in the registry of variables until the body is complete.      *)
(***************************************************************************)
InTypes ==
  /\ prog \in Programs
  /\ at \in 0..Len(prog.script)
  /\ phase # "top" => def \in Def
  /\ phase = "body" => pos \in 0..Len(Body)
  /\ tail <= Len(nodes)
  /\ names \in Seq(Name) /\ printed \in Seq(Name)
  /\ parms \in 0..9 /\ saveParms \in 0..9

OutTypes ==
  /\ globals \in Seq(Var)
  /\ output \in Seq(TokenT) /\ save \in Seq(TokenT)

Registered(n, registry) == \E k \in DOMAIN registry : registry[k] = n

DefsRegistered(text, registry) ==
  \A i \in DOMAIN text :
    text[i].tok = "def" => text[i].is \in Def /\ Registered(NameOf[text[i].is], registry)

Clashes(a, b) == a.tok = "def" /\ b.tok = "subprocess" /\ b.is = NameOf[a.is]
CallsKept(text) == \A i, j \in DOMAIN text : i < j => ~Clashes(text[i], text[j])
KeptAfter(a, b) == \A i \in DOMAIN a, j \in DOMAIN b : ~Clashes(a[i], b[j])

\* No body has been printed into this text yet, or it has been taken out.
NoDefs(text) == \A i \in DOMAIN text : text[i].tok # "def"

CallsInv ==
  /\ \A i \in DOMAIN nodes : Registered(NameOf[nodes[i].func], names)
  /\ DefsRegistered(output, names) /\ CallsKept(output)
  /\ inside => /\ DefsRegistered(save, names) /\ CallsKept(save)
               /\ KeptAfter(save, output) /\ NoDefs(output)

\* The i-th item of the first n of a body is the last assignment among them.
LastOf(body, i, n) ==
  Assigns(body[i]) /\ \A j \in (i + 1)..n : ~Assigns(body[j])

\* The definition whose token is the h-th declares what its body assigns last.
Declares(text, h, bodies) ==
  LET body == bodies[text[h].is]
  IN  \A i \in DOMAIN body : LastOf(body, i, Len(body)) =>
        \E k \in (h + 1)..Len(text) :
          /\ text[k] = Token("global", body[i].var)
          /\ \A m \in (h + 1)..k : text[m].tok # "def"

AllDeclare(text, n, bodies) == \A h \in 1..n : text[h].tok = "def" => Declares(text, h, bodies)

GlobalsInv ==
  /\ ~inside => AllDeclare(output, Len(output), prog.body)
  /\ inside =>
       /\ save # <<>> /\ save[Len(save)] = Token("def", def)
       /\ AllDeclare(save, Len(save) - 1, prog.body)
       /\ \A i \in 1..pos : LastOf(Body, i, pos) =>
            \E k \in DOMAIN globals : globals[k] = Body[i].var

NamesInv == InTypes /\ OutTypes /\ CallsInv /\ GlobalsInv

(***************************************************************************)
(* Texts                                                                   *)
(***************************************************************************)
LEMMA TextsJoined ==
  ASSUME NEW a \in Seq(TokenT), NEW b \in Seq(TokenT)
  PROVE  /\ a \o b \in Seq(TokenT) /\ Len(a \o b) = Len(a) + Len(b)
         /\ Len(a) \in Nat /\ Len(b) \in Nat
         /\ DOMAIN a = 1..Len(a) /\ DOMAIN b = 1..Len(b)
         /\ DOMAIN (a \o b) = 1..(Len(a) + Len(b))
         /\ \A i \in 1..Len(a) : (a \o b)[i] = a[i]
         /\ \A i \in 1..Len(b) : (a \o b)[Len(a) + i] = b[i]
         /\ \A i \in 1..(Len(a) + Len(b)) :
              \/ i \in 1..Len(a)
              \/ i - Len(a) \in 1..Len(b) /\ (a \o b)[i] = b[i - Len(a)]
OBVIOUS

LEMMA RegisteredJoined ==
  ASSUME NEW a \in Seq(TokenT), NEW b \in Seq(TokenT), NEW r,
         DefsRegistered(a, r), DefsRegistered(b, r)
  PROVE  DefsRegistered(a \o b, r)
<1> DEFINE t == a \o b
<1>1. ASSUME NEW i \in DOMAIN t, t[i].tok = "def"
      PROVE  t[i].is \in Def /\ Registered(NameOf[t[i].is], r)
  <2>1. CASE i \in 1..Len(a)
    <3>1. i \in DOMAIN a /\ t[i] = a[i]
      BY <2>1, TextsJoined
    <3> HIDE DEF t
    <3> QED BY <1>1, <3>1 DEF DefsRegistered
  <2>2. CASE i - Len(a) \in 1..Len(b) /\ t[i] = b[i - Len(a)]
    <3>1. i - Len(a) \in DOMAIN b /\ t[i] = b[i - Len(a)]
      BY <2>2, TextsJoined
    <3> HIDE DEF t
    <3> QED BY <1>1, <3>1 DEF DefsRegistered
  <2> QED BY <2>1, <2>2, TextsJoined
<1> QED BY <1>1 DEF DefsRegistered

LEMMA CallsJoined ==
  ASSUME NEW a \in Seq(TokenT), NEW b \in Seq(TokenT), CallsKept(a), CallsKept(b), KeptAfter(a, b)
  PROVE  CallsKept(a \o b)
<1> DEFINE t == a \o b
<1> SUFFICES ASSUME NEW i \in DOMAIN t, NEW j \in DOMAIN t, i < j PROVE ~Clashes(t[i], t[j])
  BY DEF CallsKept
<1>1. i \in Int /\ j \in Int /\ Len(a) \in Nat
  BY TextsJoined
<1>2. CASE i \in 1..Len(a) /\ j \in 1..Len(a)
  <2>1. t[i] = a[i] /\ t[j] = a[j] /\ i \in DOMAIN a /\ j \in DOMAIN a
    BY <1>2, TextsJoined
  <2> QED BY <2>1 DEF CallsKept
<1>3. CASE i \in 1..Len(a) /\ ~(j \in 1..Len(a))
  <2>1. t[i] = a[i] /\ i \in DOMAIN a /\ j - Len(a) \in DOMAIN b /\ t[j] = b[j - Len(a)]
    BY <1>3, TextsJoined
  <2> HIDE DEF t
  <2> QED BY <2>1 DEF KeptAfter
<1>4. CASE ~(i \in 1..Len(a))
  <2>1. i - Len(a) \in DOMAIN b /\ t[i] = b[i - Len(a)]
    BY <1>4, TextsJoined
  <2>2. ~(j \in 1..Len(a))
    BY <1>1, <1>4, TextsJoined
  <2>3. j - Len(a) \in DOMAIN b /\ t[j] = b[j - Len(a)] /\ i - Len(a) < j - Len(a)
    BY <1>1, <2>2, TextsJoined
  <2> HIDE DEF t
  <2> QED BY <2>1, <2>3 DEF CallsKept
<1> QED BY <1>2, <1>3, <1>4

LEMMA KeptAfterJoined ==
  ASSUME NEW a \in Seq(TokenT), NEW b \in Seq(TokenT), NEW c \in Seq(TokenT),
         KeptAfter(a, b), KeptAfter(a, c)
  PROVE  KeptAfter(a, b \o c)
<1> DEFINE t == b \o c
<1> SUFFICES ASSUME NEW i \in DOMAIN a, NEW j \in DOMAIN t PROVE ~Clashes(a[i], t[j])
  BY DEF KeptAfter
<1>1. CASE j \in 1..Len(b)
  <2>1. t[j] = b[j] /\ j \in DOMAIN b
    BY <1>1, TextsJoined
  <2> HIDE DEF t
  <2> QED BY <2>1 DEF KeptAfter
<1>2. CASE j - Len(b) \in 1..Len(c) /\ t[j] = c[j - Len(b)]
  <2>1. t[j] = c[j - Len(b)] /\ j - Len(b) \in DOMAIN c
    BY <1>2, TextsJoined
  <2> HIDE DEF t
  <2> QED BY <2>1 DEF KeptAfter
<1> QED BY <1>1, <1>2, TextsJoined

\* What follows it does not change what a definition declares.
LEMMA DeclareLonger ==
  ASSUME NEW a \in Seq(TokenT), NEW b \in Seq(TokenT), NEW n \in 0..Len(a), NEW p, AllDeclare(a, n, p)
  PROVE  AllDeclare(a \o b, n, p)
<1> DEFINE t == a \o b
<1>1. /\ Len(a) \in Nat /\ Len(t) \in Nat /\ Len(a) <= Len(t)
      /\ \A i \in 1..Len(a) : t[i] = a[i]
  BY TextsJoined
<1> HIDE DEF t
<1> SUFFICES ASSUME NEW h \in 1..n, t[h].tok = "def" PROVE Declares(t, h, p)
  BY DEF AllDeclare, t
<1>2. h \in 1..Len(a) /\ t[h] = a[h]
  BY <1>1
<1>3. Declares(a, h, p)
  BY <1>2 DEF AllDeclare
<1> DEFINE body == p[t[h].is]
<1>4. ASSUME NEW i \in DOMAIN body, LastOf(body, i, Len(body))
      PROVE  \E k \in (h + 1)..Len(t) : /\ t[k] = Token("global", body[i].var)
                                        /\ \A m \in (h + 1)..k : t[m].tok # "def"
  <2>1. PICK k \in (h + 1)..Len(a) : /\ a[k] = Token("global", body[i].var)
                                     /\ \A m \in (h + 1)..k : a[m].tok # "def"
    BY <1>2, <1>3, <1>4 DEF Declares
  <2>2. k \in (h + 1)..Len(t) /\ \A m \in (h + 1)..k : m \in 1..Len(a)
    BY <1>1, <1>2
  <2>3. t[k] = Token("global", body[i].var)
    BY <1>1, <1>2, <2>1, <2>2
  <2>4. \A m \in (h + 1)..k : t[m].tok # "def"
    BY <1>1, <2>1, <2>2
  <2> QED BY <2>2, <2>3, <2>4
<1> HIDE DEF body
<1> QED BY <1>4 DEF Declares, body

LEMMA DeclareNothing ==
  ASSUME NEW a \in Seq(TokenT), NEW b \in Seq(TokenT), NEW p,
         AllDeclare(a, Len(a), p), NoDefs(b)
  PROVE  AllDeclare(a \o b, Len(a \o b), p)
<1> DEFINE t == a \o b
<1>1. AllDeclare(t, Len(a), p)
  <2>1. Len(a) \in 0..Len(a)
    BY TextsJoined
  <2> QED BY <2>1, DeclareLonger
<1>2. ASSUME NEW h \in 1..Len(t), ~(h \in 1..Len(a)) PROVE t[h].tok # "def"
  <2>1. h - Len(a) \in DOMAIN b /\ t[h] = b[h - Len(a)]
    BY <1>2, TextsJoined
  <2> HIDE DEF t
  <2> QED BY <2>1 DEF NoDefs
<1> HIDE DEF t
<1> QED BY <1>1, <1>2 DEF AllDeclare, t

LEMMA NoDefsJoined ==
  ASSUME NEW a \in Seq(TokenT), NEW b \in Seq(TokenT), NoDefs(a), NoDefs(b)
  PROVE  NoDefs(a \o b)
<1> DEFINE t == a \o b
<1> SUFFICES ASSUME NEW i \in DOMAIN t PROVE t[i].tok # "def"
  BY DEF NoDefs
<1>1. CASE i \in 1..Len(a)
  <2>1. t[i] = a[i] /\ i \in DOMAIN a
    BY <1>1, TextsJoined
  <2> HIDE DEF t
  <2> QED BY <2>1 DEF NoDefs
<1>2. CASE i - Len(a) \in 1..Len(b) /\ t[i] = b[i - Len(a)]
  <2>1. t[i] = b[i - Len(a)] /\ i - Len(a) \in DOMAIN b
    BY <1>2, TextsJoined
  <2> HIDE DEF t
  <2> QED BY <2>1 DEF NoDefs
<1> QED BY <1>1, <1>2, TextsJoined

LEMMA ThreeJoined ==
  ASSUME NEW a \in Seq(TokenT), NEW b \in Seq(TokenT), NEW c \in Seq(TokenT)
  PROVE  (a \o b) \o c = a \o (b \o c)
OBVIOUS

LEMMA RegistryGrows ==
  ASSUME NEW r \in Seq(Name), NEW m \in Name
  PROVE  /\ <<m>> \o r \in Seq(Name) /\ Registered(m, <<m>> \o r)
         /\ \A n : Registered(n, r) => Registered(n, <<m>> \o r)
<1> DEFINE t == <<m>> \o r
<1>1. /\ t \in Seq(Name) /\ t[1] = m /\ 1 \in DOMAIN t
      /\ \A k \in DOMAIN r : k + 1 \in DOMAIN t /\ t[k + 1] = r[k]
  OBVIOUS
<1> HIDE DEF t
<1> QED BY <1>1 DEF Registered, t

LEMMA RegisteredStill ==
  ASSUME NEW text, NEW r, NEW s, DefsRegistered(text, r), \A n : Registered(n, r) => Registered(n, s)
  PROVE  DefsRegistered(text, s)
BY DEF DefsRegistered

(***************************************************************************)
(* What is written and where the translation stands                        *)
(***************************************************************************)
LEMMA BodyItems ==
  ASSUME InTypes
  PROVE  /\ prog.script \in Seq(Item) /\ Len(prog.script) \in Nat
         /\ \A d \in Def : prog.body[d] \in Seq(Item) /\ Len(prog.body[d]) \in Nat
BY ProgramsAreItems DEF InTypes

\* One token that defines nothing is written.
LEMMA TokenWritten ==
  ASSUME QInv, NamesInv, NEW t \in TokenT, t.tok # "def",
         t.tok = "subprocess" => ~Registered(t.is, names),
         output' = Append(output, t), UNCHANGED <<prog, inside, names, nodes, save>>
  PROVE  /\ CallsInv' /\ output' \in Seq(TokenT)
         /\ ~inside => AllDeclare(output', Len(output'), prog.body)
<1> DEFINE one == <<t>>
<1>1. output \in Seq(TokenT) /\ save \in Seq(TokenT)
  BY DEF NamesInv, OutTypes
<1>2. one \in Seq(TokenT) /\ DOMAIN one = {1} /\ one[1] = t
  OBVIOUS
<1>3. output' = output \o one
  BY <1>1
<1> HIDE DEF one
<1>4. NoDefs(one) /\ DefsRegistered(one, names) /\ CallsKept(one)
  BY <1>2 DEF NoDefs, DefsRegistered, CallsKept
<1>5. ASSUME NEW text, DefsRegistered(text, names) PROVE KeptAfter(text, one)
  BY <1>2, <1>5 DEF KeptAfter, Clashes, DefsRegistered
<1>6. DefsRegistered(output, names) /\ CallsKept(output)
  BY DEF NamesInv, CallsInv
<1>7. output \o one \in Seq(TokenT)
  BY <1>1, <1>2, TextsJoined
<1>8. DefsRegistered(output \o one, names) /\ CallsKept(output \o one)
  BY <1>1, <1>2, <1>4, <1>5, <1>6, RegisteredJoined, CallsJoined
<1>9. ASSUME inside
      PROVE  /\ DefsRegistered(save, names) /\ CallsKept(save)
             /\ KeptAfter(save, output \o one) /\ NoDefs(output \o one)
  <2>1. DefsRegistered(save, names) /\ CallsKept(save) /\ KeptAfter(save, output) /\ NoDefs(output)
    BY <1>9 DEF NamesInv, CallsInv
  <2> QED BY <1>1, <1>2, <1>4, <1>5, <2>1, KeptAfterJoined, NoDefsJoined
<1>10. CallsInv'
  <2>1. \A i \in DOMAIN nodes : Registered(NameOf[nodes[i].func], names)
    BY DEF NamesInv, CallsInv
  <2> QED BY <1>3, <1>8, <1>9, <2>1 DEF CallsInv
<1>11. ~inside => AllDeclare(output \o one, Len(output \o one), prog.body)
  BY <1>1, <1>2, <1>4, DeclareNothing DEF NamesInv, GlobalsInv
<1> QED BY <1>3, <1>7, <1>10, <1>11

\* Of one item more of a body
LEMMA BodyGoesOn ==
  ASSUME NamesInv, phase = "body", inside, pos < Len(Body), pos' = pos + 1, UNCHANGED <<prog, def>>,
         Assigns(Body[pos + 1]) => \E k \in DOMAIN globals' : globals'[k] = Body[pos + 1].var,
         ~Assigns(Body[pos + 1]) => globals' = globals
  PROVE  \A i \in 1..pos' : LastOf(Body, i, pos') =>
           \E k \in DOMAIN globals' : globals'[k] = Body[i].var
<1>1. pos \in Nat
  BY DEF NamesInv, InTypes
<1> SUFFICES ASSUME NEW i \in 1..(pos + 1), LastOf(Body, i, pos + 1)
             PROVE  \E k \in DOMAIN globals' : globals'[k] = Body[i].var
  OBVIOUS
<1>2. CASE i = pos + 1
  BY <1>2 DEF LastOf
<1>3. CASE i # pos + 1
  <2>1. i \in 1..pos /\ pos + 1 \in (i + 1)..(pos + 1) /\ \A j \in (i + 1)..pos : j \in (i + 1)..(pos + 1)
    BY <1>1, <1>3
  <2>2. ~Assigns(Body[pos + 1]) /\ LastOf(Body, i, pos)
    BY <2>1 DEF LastOf
  <2> QED BY <2>1, <2>2 DEF NamesInv, GlobalsInv
<1> QED BY <1>2, <1>3

LEMMA PlaceKept ==
  ASSUME QInv, NamesInv, NEW item, Here(item), Step, UNCHANGED <<prog, phase, def, saveParms>>,
         tail' <= Len(nodes'), names' \in Seq(Name), printed' \in Seq(Name), parms' \in 0..9
  PROVE  InTypes'
<1>1. Len(prog.script) \in Nat /\ (phase = "body" => Len(Body) \in Nat)
  BY BodyItems DEF NamesInv, InTypes, Body
<1>2. CASE phase = "top"
  <2>1. at' = at + 1 /\ at < Len(prog.script) /\ at \in Nat
    BY <1>1, <1>2 DEF NamesInv, InTypes, Here, AtTop, AtBody, Step
  <2> QED BY <1>1, <1>2, <2>1 DEF NamesInv, InTypes
<1>3. CASE phase = "body"
  <2>1. /\ at' = at /\ pos' = pos + 1 /\ pos < Len(Body) /\ pos \in Nat
        /\ Body' = Body
    BY <1>1, <1>3 DEF NamesInv, InTypes, Here, AtTop, AtBody, Step, Body
  <2> QED BY <1>1, <1>3, <2>1 DEF NamesInv, InTypes
<1>4. phase \in {"top", "body"}
  BY DEF Here, AtTop, AtBody
<1> QED BY <1>2, <1>3, <1>4

\* An item that is not a definition
LEMMA PlainItem ==
  ASSUME QInv, NamesInv, NEW item, Here(item), Step, NEW t \in TokenT, t.tok # "def",
         t.tok = "subprocess" => ~Registered(t.is, names),
         output' = Append(output, t),
         UNCHANGED <<prog, phase, def, inside, nodes, tail, names, saveParms, save, printed>>,
         parms' \in 0..9, globals' \in Seq(Var),
         Assigns(item) => \E k \in DOMAIN globals' : globals'[k] = item.var,
         ~Assigns(item) => globals' = globals
  PROVE  NamesInv'
<1>1. InTypes'
  <2>1. tail' <= Len(nodes') /\ names' \in Seq(Name) /\ printed' \in Seq(Name)
    BY DEF NamesInv, InTypes
  <2> QED BY <2>1, PlaceKept
<1>2. CallsInv' /\ output' \in Seq(TokenT) /\ (~inside => AllDeclare(output', Len(output'), prog.body))
  BY TokenWritten
<1>3. OutTypes'
  BY <1>2 DEF NamesInv, OutTypes
<1>4. inside <=> phase = "body"
  BY DEF QInv, NotReentrant
<1>5. ASSUME inside
      PROVE  \A i \in 1..pos' : LastOf(Body', i, pos') =>
               \E k \in DOMAIN globals' : globals'[k] = Body'[i].var
  <2>1. item = Body[pos + 1] /\ pos < Len(Body) /\ pos' = pos + 1
    BY <1>4, <1>5 DEF Here, AtTop, AtBody, Step
  <2>2. Body' = Body
    BY DEF Body
  <2> QED BY <1>4, <1>5, <2>1, <2>2, BodyGoesOn
<1>6. GlobalsInv'
  BY <1>2, <1>5 DEF NamesInv, GlobalsInv
<1> QED BY <1>1, <1>2, <1>3, <1>6 DEF NamesInv

LEMMA CommandNames == QInv /\ NamesInv /\ Command => NamesInv'
<1> SUFFICES ASSUME QInv, NamesInv, Command PROVE NamesInv'
  OBVIOUS
<1>1. PICK n \in Name :
        /\ Here([kind |-> "command", name |-> n])
        /\ output' = Append(output, Token(IF IsInternalFunction(n) THEN "call" ELSE "subprocess", n))
  BY DEF Command
<1>2. /\ Step /\ globals' = globals /\ parms' = parms
      /\ UNCHANGED <<prog, phase, def, inside, nodes, tail, names, saveParms, save, printed>>
  BY DEF Command, queue
<1> DEFINE item == [kind |-> "command", name |-> n]
           t == Token(IF IsInternalFunction(n) THEN "call" ELSE "subprocess", n)
<1>3. t \in TokenT /\ t.tok # "def" /\ (t.tok = "subprocess" => ~Registered(t.is, names))
  BY DEF Token, TokenT, IsInternalFunction, Registered
<1>4. ~Assigns(item)
  BY DEF Assigns
<1>5. parms' \in 0..9 /\ globals' \in Seq(Var)
  BY <1>2 DEF NamesInv, InTypes, OutTypes
<1>6. Here(item) /\ output' = Append(output, t)
  BY <1>1
<1> HIDE DEF item, t
<1> QED BY <1>2, <1>3, <1>4, <1>5, <1>6, PlainItem

LEMMA AssignNames == QInv /\ NamesInv /\ Assign => NamesInv'
<1> SUFFICES ASSUME QInv, NamesInv, Assign PROVE NamesInv'
  OBVIOUS
<1>1. PICK v \in Var, local \in BOOLEAN :
        /\ Here([kind |-> "assign", var |-> v, local |-> local])
        /\ globals' = SeenGlobal(v)
        /\ output' = Append(output, Token("assign", v))
  BY DEF Assign
<1>2. /\ Step /\ parms' = parms
      /\ UNCHANGED <<prog, phase, def, inside, nodes, tail, names, saveParms, save, printed>>
  BY DEF Assign, queue
<1> DEFINE item == [kind |-> "assign", var |-> v, local |-> local]
           t == Token("assign", v)
<1>3. t \in TokenT /\ t.tok # "def" /\ t.tok # "subprocess"
  BY DEF Token, TokenT
<1>4. Assigns(item) /\ item.var = v
  BY DEF Assigns
<1>5. parms' \in 0..9 /\ globals \in Seq(Var)
  BY <1>2 DEF NamesInv, InTypes, OutTypes
<1>6. globals' \in Seq(Var) /\ \E k \in DOMAIN globals' : globals'[k] = v
  <2>1. CASE \E i \in DOMAIN globals : globals[i] = v
    BY <1>1, <1>5, <2>1 DEF SeenGlobal
  <2>2. CASE ~\E i \in DOMAIN globals : globals[i] = v
    <3>1. globals' = <<v>>
      BY <1>1, <2>2 DEF SeenGlobal
    <3> QED BY <3>1
  <2> QED BY <2>1, <2>2
<1>7. Here(item) /\ output' = Append(output, t)
  BY <1>1
<1> HIDE DEF item, t
<1> QED BY <1>2, <1>3, <1>4, <1>5, <1>6, <1>7, PlainItem

LEMMA ParameterNames == QInv /\ NamesInv /\ Parameter => NamesInv'
<1> SUFFICES ASSUME QInv, NamesInv, Parameter PROVE NamesInv'
  OBVIOUS
<1>1. PICK n \in 1..9 :
        /\ Here([kind |-> "parm", n |-> n])
        /\ parms' = IF inside /\ parms < n THEN n ELSE parms
        /\ output' = Append(output, Token(IF inside THEN "parm" ELSE "argv", n))
  BY DEF Parameter
<1>2. /\ Step /\ globals' = globals
      /\ UNCHANGED <<prog, phase, def, inside, nodes, tail, names, saveParms, save, printed>>
  BY DEF Parameter, queue
<1> DEFINE item == [kind |-> "parm", n |-> n]
           t == Token(IF inside THEN "parm" ELSE "argv", n)
<1>3. t \in TokenT /\ t.tok # "def" /\ t.tok # "subprocess"
  BY DEF Token, TokenT
<1>4. ~Assigns(item)
  BY DEF Assigns
<1>5. parms' \in 0..9 /\ globals' \in Seq(Var)
  BY <1>1, <1>2 DEF NamesInv, InTypes, OutTypes
<1>6. Here(item) /\ output' = Append(output, t)
  BY <1>1
<1> HIDE DEF item, t
<1> QED BY <1>2, <1>3, <1>4, <1>5, <1>6, PlainItem

\* A definition is put in the queue: nothing is written.
LEMMA InnerDefinitionNames == QInv /\ NamesInv /\ InnerDefinition => NamesInv'
<1> SUFFICES ASSUME QInv, NamesInv, InnerDefinition PROVE NamesInv'
  OBVIOUS
<1>1. PICK d \in Def :
        /\ Here([kind |-> "def", d |-> d])
        /\ names' = <<NameOf[d]>> \o names
        /\ nodes' = IF head = 0 \/ tail = 0 THEN Append(nodes, NewNode(d))
                    ELSE Append([nodes EXCEPT ![tail].next = Len(nodes) + 1], NewNode(d))
        /\ tail' = Len(nodes) + 1
  BY DEF InnerDefinition, Register
<1>2. /\ inside /\ Step
      /\ UNCHANGED <<prog, phase, def, inside, globals, parms, saveParms, output, save, printed>>
  BY DEF InnerDefinition, buffers
<1>3. /\ Len(nodes') = Len(nodes) + 1 /\ nodes'[Len(nodes) + 1].func = d
      /\ \A i \in 1..Len(nodes) : nodes'[i].func = nodes[i].func
  BY <1>1, InnerNodes
<1>4. nodes \in Seq(NodeT) /\ Len(nodes) \in Nat /\ nodes' \in Seq(NodeT)
  <2>1. QInv'
    BY InnerDefinitionQInv
  <2> QED BY <2>1 DEF QInv, QueueTypes
<1>5. /\ names' \in Seq(Name) /\ Registered(NameOf[d], names')
      /\ \A n : Registered(n, names) => Registered(n, names')
  <2>1. NameOf[d] \in Name /\ names \in Seq(Name)
    BY NamesOfDefs DEF NamesInv, InTypes
  <2> QED BY <1>1, <2>1, RegistryGrows
<1> DEFINE item == [kind |-> "def", d |-> d]
<1>6. ~Assigns(item) /\ Here(item)
  BY <1>1 DEF Assigns
<1> HIDE DEF item
<1>7. InTypes'
  <2>1. tail' <= Len(nodes') /\ printed' \in Seq(Name) /\ parms' \in 0..9
    BY <1>1, <1>2, <1>3, <1>4 DEF NamesInv, InTypes
  <2> QED BY <1>2, <1>5, <1>6, <2>1, PlaceKept
<1>8. OutTypes'
  BY <1>2 DEF NamesInv, OutTypes
<1>9. CallsInv'
  <2>1. ASSUME NEW i \in DOMAIN nodes' PROVE Registered(NameOf[nodes'[i].func], names')
    <3>1. i = Len(nodes) + 1 \/ i \in DOMAIN nodes
      BY <1>3, <1>4
    <3>2. CASE i = Len(nodes) + 1
      BY <1>3, <1>5, <3>2
    <3>3. CASE i \in DOMAIN nodes
      <4>1. nodes'[i].func = nodes[i].func
        BY <1>3, <1>4, <3>3
      <4> QED BY <1>5, <3>3, <4>1 DEF NamesInv, CallsInv
    <3> QED BY <3>1, <3>2, <3>3
  <2>2. DefsRegistered(output, names') /\ DefsRegistered(save, names')
    BY <1>2, <1>5, RegisteredStill DEF NamesInv, CallsInv
  <2> QED BY <1>2, <2>1, <2>2 DEF NamesInv, CallsInv
<1>10. GlobalsInv'
  <2>1. phase = "body"
    BY <1>2 DEF QInv, NotReentrant
  <2>2. item = Body[pos + 1] /\ pos < Len(Body) /\ pos' = pos + 1
    BY <1>2, <1>6, <2>1 DEF Here, AtTop, AtBody, Step
  <2>3. Body' = Body
    BY <1>2 DEF Body
  <2>4. \A i \in 1..pos' : LastOf(Body, i, pos') =>
          \E k \in DOMAIN globals' : globals'[k] = Body[i].var
    BY <1>2, <1>6, <2>1, <2>2, BodyGoesOn
  <2> QED BY <1>2, <2>3, <2>4 DEF NamesInv, GlobalsInv
<1> QED BY <1>7, <1>8, <1>9, <1>10 DEF NamesInv

\* The printing of a definition begins: its name has been registered.
LEMMA StartNames ==
  ASSUME QInv, NamesInv, ~inside, NEW d \in Def, StartDefinition(d), names' \in Seq(Name),
         Registered(NameOf[d], names'), \A n : Registered(n, names) => Registered(n, names'),
         at' \in 0..Len(prog.script), UNCHANGED <<prog, nodes, tail, globals>>
  PROVE  NamesInv'
<1> DEFINE t == Token("def", d)
           one == <<t>>
<1>1. /\ save' = Append(output, t) /\ output' = <<>> /\ inside' = TRUE
      /\ saveParms' = parms /\ parms' = 0
      /\ def' = d /\ pos' = 0 /\ phase' = "body"
      /\ printed' = Append(printed, NameOf[d])
  BY DEF StartDefinition
<1>2. t \in TokenT /\ t.tok = "def" /\ t.is = d
  BY DEF Token, TokenT
<1>3. output \in Seq(TokenT)
  BY DEF NamesInv, OutTypes
<1>4. one \in Seq(TokenT) /\ DOMAIN one = {1} /\ one[1] = t /\ Len(one) = 1
  BY <1>2
<1>5. save' = output \o one
  BY <1>1, <1>3
<1> HIDE DEF t, one
<1>6. /\ save' \in Seq(TokenT) /\ Len(save') = Len(output) + 1 /\ Len(output) \in Nat
      /\ save'[Len(output) + 1] = t
  <2> DEFINE s == output \o one
  <2>1. s \in Seq(TokenT) /\ Len(s) = Len(output) + Len(one) /\ Len(output) \in Nat
    BY <1>3, <1>4, TextsJoined
  <2>2. \A i \in 1..Len(one) : s[Len(output) + i] = one[i]
    BY <1>3, <1>4, TextsJoined
  <2> HIDE DEF s
  <2>3. s[Len(output) + 1] = t
    BY <1>4, <2>2
  <2> QED BY <1>4, <1>5, <2>1, <2>3 DEF s
<1>7. InTypes'
  <2>1. Body' \in Seq(Item)
    BY <1>1, ProgramsAreItems DEF Body, NamesInv, InTypes
  <2>2. pos' \in 0..Len(Body')
    BY <1>1, <2>1
  <2>3. printed' \in Seq(Name)
    BY <1>1, NamesOfDefs DEF NamesInv, InTypes
  <2> QED BY <1>1, <2>2, <2>3 DEF NamesInv, InTypes
<1>8. OutTypes'
  BY <1>1, <1>6 DEF NamesInv, OutTypes
<1>9. CallsInv'
  <2>1. DefsRegistered(output, names') /\ CallsKept(output)
    BY RegisteredStill DEF NamesInv, CallsInv
  <2>2. DefsRegistered(one, names') /\ CallsKept(one) /\ KeptAfter(output, one)
    BY <1>2, <1>4 DEF DefsRegistered, CallsKept, KeptAfter, Clashes
  <2>3. DefsRegistered(save', names') /\ CallsKept(save')
    BY <1>3, <1>4, <1>5, <2>1, <2>2, RegisteredJoined, CallsJoined
  <2>4. DefsRegistered(<<>>, names') /\ CallsKept(<<>>) /\ NoDefs(<<>>)
    BY DEF DefsRegistered, CallsKept, NoDefs
  <2>5. KeptAfter(save', <<>>)
    BY DEF KeptAfter
  <2>6. \A i \in DOMAIN nodes : Registered(NameOf[nodes[i].func], names')
    BY DEF NamesInv, CallsInv
  <2> QED BY <1>1, <2>3, <2>4, <2>5, <2>6 DEF CallsInv
<1>10. GlobalsInv'
  <2>1. AllDeclare(output, Len(output), prog.body)
    BY DEF NamesInv, GlobalsInv
  <2>2. Len(output) \in 0..Len(output)
    BY <1>6
  <2>3. AllDeclare(save', Len(output), prog.body)
    BY <1>3, <1>4, <1>5, <2>1, <2>2, DeclareLonger
  <2>4. Len(save') - 1 = Len(output) /\ save' # <<>>
    BY <1>6
  <2>5. save'[Len(save')] = Token("def", def')
    BY <1>1, <1>6 DEF t
  <2>6. 1..pos' = {}
    BY <1>1
  <2> QED BY <1>1, <2>3, <2>4, <2>5, <2>6 DEF GlobalsInv
<1> QED BY <1>7, <1>8, <1>9, <1>10 DEF NamesInv

LEMMA OuterDefinitionNames == QInv /\ NamesInv /\ OuterDefinition => NamesInv'
<1> SUFFICES ASSUME QInv, NamesInv, OuterDefinition PROVE NamesInv'
  OBVIOUS
<1>1. PICK d \in Def :
        /\ Here([kind |-> "def", d |-> d]) /\ names' = <<NameOf[d]>> \o names
        /\ StartDefinition(d)
  BY DEF OuterDefinition, Register
<1>2. ~inside /\ at' = at + 1 /\ UNCHANGED <<prog, nodes, tail, globals>>
  BY DEF OuterDefinition, queue
<1>3. /\ names' \in Seq(Name) /\ Registered(NameOf[d], names')
      /\ \A n : Registered(n, names) => Registered(n, names')
  <2>1. NameOf[d] \in Name /\ names \in Seq(Name)
    BY NamesOfDefs DEF NamesInv, InTypes
  <2> QED BY <1>1, <2>1, RegistryGrows
<1>4. at' \in 0..Len(prog.script)
  <2>1. phase # "body"
    BY <1>2 DEF QInv, NotReentrant
  <2>2. at < Len(prog.script)
    BY <1>1, <2>1 DEF Here, AtTop, AtBody
  <2>3. at \in 0..Len(prog.script) /\ Len(prog.script) \in Nat
    BY BodyItems DEF NamesInv, InTypes
  <2> QED BY <1>2, <2>2, <2>3
<1> QED BY <1>1, <1>2, <1>3, <1>4, StartNames

LEMMA ServiceQueueNames == QInv /\ NamesInv /\ ServiceQueue => NamesInv'
<1> SUFFICES ASSUME QInv, NamesInv, ServiceQueue PROVE NamesInv'
  OBVIOUS
<1> DEFINE d == nodes[head].func
<1>1. /\ head # 0 /\ StartDefinition(d) /\ phase = "queue"
      /\ UNCHANGED <<prog, at, nodes, tail, names, globals>>
  BY DEF ServiceQueue, queue
<1>2. ~inside
  BY <1>1 DEF QInv, NotReentrant
<1>3. head \in DOMAIN nodes /\ d \in Def
  <2>1. nodes \in Seq(NodeT) /\ head \in DOMAIN nodes
    BY <1>1 DEF QInv, QueueTypes
  <2>2. nodes[head] \in NodeT
    BY <2>1
  <2> QED BY <2>1, <2>2 DEF NodeT
<1>4. Registered(NameOf[d], names) /\ at \in 0..Len(prog.script) /\ names \in Seq(Name)
  BY <1>3 DEF NamesInv, CallsInv, InTypes
<1> HIDE DEF d
<1> QED BY <1>1, <1>2, <1>3, <1>4, StartNames

\* What print_function_def adds to the header, and the body, define nothing.
LEMMA EndNames == QInv /\ NamesInv /\ EndDefinition => NamesInv'
<1> SUFFICES ASSUME QInv, NamesInv, EndDefinition PROVE NamesInv'
  OBVIOUS
<1> DEFINE p == Token("parms", parms)
           head1 == <<p>>
           middle == head1 \o GlobalTokens
           rest == middle \o output
<1>1. /\ phase = "body" /\ inside /\ pos = Len(Body)
      /\ output' = save \o head1 \o GlobalTokens \o output
      /\ save' = output /\ globals' = <<>> /\ parms' = saveParms /\ ~inside' /\ phase' # "body"
      /\ UNCHANGED <<prog, at, def, pos, nodes, tail, names, saveParms, printed>>
  BY DEF EndDefinition, QInv, NotReentrant, queue
<1>2. /\ globals \in Seq(Var) /\ output \in Seq(TokenT) /\ save \in Seq(TokenT)
      /\ parms \in 0..9
  BY DEF NamesInv, OutTypes, InTypes
<1>3. head1 \in Seq(TokenT) /\ DOMAIN head1 = {1} /\ head1[1].tok = "parms" /\ Len(head1) = 1
  BY <1>2 DEF Token, TokenT
<1>4. /\ GlobalTokens \in Seq(TokenT) /\ DOMAIN GlobalTokens = DOMAIN globals
      /\ \A k \in DOMAIN globals : GlobalTokens[k] = Token("global", globals[k])
  <2>1. \A v \in Var : Token("global", v) \in TokenT
    BY DEF Token, TokenT
  <2>2. GlobalTokens \in [1..Len(globals) -> TokenT]
    BY <1>2, <2>1 DEF GlobalTokens
  <2> QED BY <1>2, <2>2 DEF GlobalTokens
<1> HIDE DEF head1
<1>5. middle \in Seq(TokenT) /\ rest \in Seq(TokenT)
  BY <1>2, <1>3, <1>4, TextsJoined
<1>6. output' = save \o rest
  <2>1. (save \o head1) \o GlobalTokens = save \o middle
    BY <1>2, <1>3, <1>4, ThreeJoined
  <2>2. (save \o middle) \o output = save \o rest
    BY <1>2, <1>5, ThreeJoined
  <2> QED BY <1>1, <2>1, <2>2
<1>7. NoDefs(middle) /\ DefsRegistered(middle, names) /\ CallsKept(middle)
  <2>1. \A k \in DOMAIN GlobalTokens : GlobalTokens[k].tok = "global"
    BY <1>4 DEF Token
  <2>2. NoDefs(head1) /\ NoDefs(GlobalTokens)
    BY <1>3, <2>1 DEF NoDefs
  <2>3. NoDefs(middle)
    BY <1>3, <1>4, <2>2, NoDefsJoined
  <2> HIDE DEF middle
  <2> QED BY <2>3 DEF NoDefs, DefsRegistered, CallsKept, Clashes
<1>8. ASSUME NEW text PROVE KeptAfter(text, middle)
  <2>1. \A k \in DOMAIN GlobalTokens : GlobalTokens[k].tok = "global"
    BY <1>4 DEF Token
  <2>2. KeptAfter(text, head1) /\ KeptAfter(text, GlobalTokens)
    BY <1>3, <2>1 DEF KeptAfter, Clashes
  <2>3. ASSUME NEW j \in DOMAIN middle PROVE middle[j].tok # "subprocess"
    <3>1. CASE j \in 1..Len(head1)
      <4>1. \A i \in 1..Len(head1) : (head1 \o GlobalTokens)[i] = head1[i]
        BY <1>3, <1>4, TextsJoined, Zenon
      <4> HIDE DEF middle
      <4>2. j = 1 /\ middle[j] = head1[j]
        BY <1>3, <3>1, <4>1 DEF middle
      <4> QED BY <1>3, <4>2
    <3>2. CASE j - Len(head1) \in 1..Len(GlobalTokens) /\ middle[j] = GlobalTokens[j - Len(head1)]
      <4>1. j - Len(head1) \in DOMAIN GlobalTokens /\ middle[j] = GlobalTokens[j - Len(head1)]
        BY <1>3, <1>4, <3>2, TextsJoined
      <4> HIDE DEF middle
      <4> QED BY <2>1, <4>1
    <3>3. /\ DOMAIN (head1 \o GlobalTokens) = 1..(Len(head1) + Len(GlobalTokens))
          /\ \A i \in 1..(Len(head1) + Len(GlobalTokens)) :
               \/ i \in 1..Len(head1)
               \/ /\ i - Len(head1) \in 1..Len(GlobalTokens)
                  /\ (head1 \o GlobalTokens)[i] = GlobalTokens[i - Len(head1)]
      BY <1>3, <1>4, TextsJoined
    <3> QED BY <3>1, <3>2, <3>3, Zenon
  <2> HIDE DEF middle
  <2> QED BY <2>3 DEF KeptAfter, Clashes
<1>9. /\ DefsRegistered(save, names) /\ CallsKept(save) /\ KeptAfter(save, output) /\ NoDefs(output)
      /\ DefsRegistered(output, names) /\ CallsKept(output)
  BY <1>1 DEF NamesInv, CallsInv
<1> HIDE DEF middle
<1>10. NoDefs(rest) /\ DefsRegistered(rest, names) /\ CallsKept(rest) /\ KeptAfter(save, rest)
  <2>1. KeptAfter(middle, output)
    BY <1>7 DEF KeptAfter, NoDefs, Clashes
  <2> QED BY <1>2, <1>5, <1>7, <1>8, <1>9, <2>1,
            NoDefsJoined, RegisteredJoined, CallsJoined, KeptAfterJoined
<1>11. OutTypes'
  <2>1. output' \in Seq(TokenT)
    BY <1>2, <1>5, <1>6, TextsJoined
  <2>2. globals' \in Seq(Var)
    BY <1>1
  <2> QED BY <1>1, <1>2, <2>1, <2>2 DEF OutTypes
<1>12. InTypes'
  <2>1. Body' = Body
    BY <1>1 DEF Body
  <2> QED BY <1>1, <2>1 DEF NamesInv, InTypes
<1> HIDE DEF rest
<1>13. CallsInv'
  <2>1. DefsRegistered(output', names) /\ CallsKept(output')
    BY <1>2, <1>5, <1>6, <1>9, <1>10, RegisteredJoined, CallsJoined
  <2>2. \A i \in DOMAIN nodes : Registered(NameOf[nodes[i].func], names)
    BY DEF NamesInv, CallsInv
  <2> QED BY <1>1, <2>1, <2>2 DEF CallsInv
<1>14. AllDeclare(output', Len(output'), prog.body)
  <2> DEFINE n == Len(save)
  <2>1. /\ n \in Nat \ {0} /\ save[n] = Token("def", def) /\ AllDeclare(save, n - 1, prog.body)
    BY <1>1, <1>2 DEF NamesInv, GlobalsInv
  <2>2. AllDeclare(output', n - 1, prog.body)
    <3>1. n - 1 \in 0..n
      BY <2>1
    <3> QED BY <1>2, <1>5, <1>6, <2>1, <3>1, DeclareLonger
  <2>3. ASSUME NEW h \in 1..Len(output'), ~(h \in 1..n) PROVE output'[h].tok # "def"
    <3>1. h - n \in DOMAIN rest /\ output'[h] = rest[h - n]
      BY <1>2, <1>5, <1>6, <2>3, TextsJoined
    <3> QED BY <1>10, <3>1 DEF NoDefs
  <2>4. /\ output'[n] = Token("def", def) /\ Len(output') = n + Len(rest) /\ Len(rest) \in Nat
        /\ \A k \in 1..Len(rest) : output'[n + k] = rest[k]
    BY <1>2, <1>5, <1>6, <2>1, TextsJoined
  <2>5. ASSUME NEW i \in DOMAIN Body, LastOf(Body, i, Len(Body))
        PROVE  \E k \in (n + 1)..Len(output') :
                 /\ output'[k] = Token("global", Body[i].var)
                 /\ \A m \in (n + 1)..k : output'[m].tok # "def"
    <3>1. i \in 1..pos
      BY <1>1, BodyItems DEF NamesInv, InTypes, Body
    <3>2. PICK g \in DOMAIN globals : globals[g] = Body[i].var
      BY <1>1, <2>5, <3>1 DEF NamesInv, GlobalsInv
    <3>3. g \in 1..Len(GlobalTokens) /\ GlobalTokens[g] = Token("global", Body[i].var)
      BY <1>2, <1>4, <3>2
    <3>4. 1 + g \in 1..Len(middle) /\ middle[1 + g] = Token("global", Body[i].var)
      <4>1. /\ Len(middle) = Len(head1) + Len(GlobalTokens) /\ Len(GlobalTokens) \in Nat
            /\ \A k \in 1..Len(GlobalTokens) : middle[Len(head1) + k] = GlobalTokens[k]
        BY <1>3, <1>4, TextsJoined DEF middle
      <4> QED BY <1>3, <3>3, <4>1
    <3>5. 1 + g \in 1..Len(rest) /\ rest[1 + g] = Token("global", Body[i].var)
      BY <1>2, <1>5, <3>4, TextsJoined DEF rest
    <3>6. output'[n + (1 + g)] = Token("global", Body[i].var) /\ n + (1 + g) \in (n + 1)..Len(output')
      BY <2>1, <2>4, <3>5
    <3>7. \A m \in (n + 1)..(n + (1 + g)) : m \in 1..Len(output') /\ ~(m \in 1..n)
      BY <2>1, <2>4, <3>5
    <3> QED BY <2>3, <3>6, <3>7
  <2>6. Declares(output', n, prog.body)
    <3>1. output'[n].is = def
      BY <2>4 DEF Token
    <3> QED BY <2>5, <3>1 DEF Declares, Body
  <2> HIDE DEF n
  <2> QED BY <2>1, <2>2, <2>3, <2>6 DEF AllDeclare
<1>15. GlobalsInv'
  BY <1>1, <1>14 DEF GlobalsInv
<1> QED BY <1>11, <1>12, <1>13, <1>15 DEF NamesInv

LEMMA OtherNames == QInv /\ NamesInv /\ (Retire \/ QueueDone \/ UNCHANGED vars) => NamesInv'
<1> SUFFICES ASSUME QInv, NamesInv, Retire \/ QueueDone \/ UNCHANGED vars PROVE NamesInv'
  OBVIOUS
<1>1. /\ UNCHANGED <<prog, at, def, pos, inside, tail, names, globals, parms, saveParms,
                     output, save, printed>>
      /\ (phase # "body" /\ phase' # "body") \/ phase' = phase
      /\ phase # "top" \/ phase' = phase
  BY DEF Retire, QueueDone, vars, buffers, queue
<1>2. Len(nodes') = Len(nodes) /\ \A i \in 1..Len(nodes) : nodes'[i].func = nodes[i].func
  <2>1. Retire \/ nodes' = nodes
    BY DEF QueueDone, vars, queue
  <2> QED BY <2>1, RetiredNodes
<1>3. nodes \in Seq(NodeT) /\ nodes' \in Seq(NodeT)
  <2>1. QInv'
    BY RetireQInv, OtherStepsQInv
  <2> QED BY <2>1 DEF QInv, QueueTypes
<1>4. Body' = Body
  BY <1>1 DEF Body
<1>5. InTypes'
  BY <1>1, <1>2, <1>4 DEF NamesInv, InTypes
<1>6. OutTypes'
  BY <1>1 DEF NamesInv, OutTypes
<1>7. CallsInv'
  <2>1. ASSUME NEW i \in DOMAIN nodes' PROVE Registered(NameOf[nodes'[i].func], names)
    <3>1. i \in DOMAIN nodes /\ nodes'[i].func = nodes[i].func
      BY <1>2, <1>3
    <3> QED BY <3>1 DEF NamesInv, CallsInv
  <2> QED BY <1>1, <2>1 DEF NamesInv, CallsInv
<1>8. GlobalsInv'
  BY <1>1, <1>4 DEF NamesInv, GlobalsInv
<1> QED BY <1>5, <1>6, <1>7, <1>8 DEF NamesInv

LEMMA InitNames == Init => NamesInv
<1> SUFFICES ASSUME Init PROVE NamesInv
  OBVIOUS
<1>1. /\ prog \in Programs /\ at = 0 /\ phase = "top" /\ ~inside /\ nodes = <<>> /\ tail = 0
      /\ names = <<>> /\ globals = <<>> /\ parms = 0 /\ saveParms = 0 /\ output = <<>> /\ save = <<>>
      /\ printed = <<>>
  BY DEF Init
<1>2. InTypes
  <2>1. Len(prog.script) \in Nat
    BY <1>1, ProgramsAreItems
  <2> QED BY <1>1, <2>1 DEF InTypes
<1>3. OutTypes
  BY <1>1 DEF OutTypes
<1>4. CallsInv /\ GlobalsInv
  BY <1>1 DEF CallsInv, GlobalsInv, DefsRegistered, CallsKept, AllDeclare
<1> QED BY <1>2, <1>3, <1>4 DEF NamesInv

THEOREM NamesInvariant == Spec => [](QInv /\ NamesInv)
<1>1. QInv /\ NamesInv /\ [Next]_vars => NamesInv'
  BY CommandNames, AssignNames, ParameterNames, OuterDefinitionNames, InnerDefinitionNames,
     EndNames, ServiceQueueNames, OtherNames DEF Next, Translate, Done
<1> QED BY <1>1, InitNames, QueueInvariant, PTL DEF Spec

(* In what is printed every name is what it is in bash: no function that   *)
(* was defined above is run as an external command, and each definition    *)
(* declares global at least what its body assigns last.                    *)
THEOREM NamesAreResolved == Spec => []NamesResolved
<1>1. QInv /\ NamesInv => NamesResolved
  <2> SUFFICES ASSUME QInv, NamesInv PROVE NamesResolved
    OBVIOUS
  <2>1. TypeOK
    <3>1. head \in 0..Len(nodes) /\ tail \in 0..Len(nodes)
      BY DEF QInv, QueueTypes, NamesInv, InTypes
    <3> QED BY <3>1 DEF QInv, QueueTypes, NamesInv, InTypes, OutTypes, TypeOK, NodeT
  <2>2. CallsFunctions
    BY DEF NamesInv, CallsInv, CallsKept, Clashes, CallsFunctions
  <2>3. LastGlobalDeclared
    <3> SUFFICES ASSUME phase = "top", NEW d \in Def, Tokens(d) # {}, NEW i \in DOMAIN prog.body[d],
                        Assigns(prog.body[d][i]),
                        \A j \in DOMAIN prog.body[d] : j > i => ~Assigns(prog.body[d][j])
                 PROVE  \E k \in Tokens(d) : output[k] = Token("global", prog.body[d][i].var)
      BY DEF LastGlobalDeclared
    <3>1. AllDeclare(output, Len(output), prog.body)
      BY DEF QInv, NotReentrant, NamesInv, GlobalsInv
    <3>2. output \in Seq(TokenT) /\ DOMAIN output = 1..Len(output)
      BY DEF NamesInv, OutTypes
    <3>3. PICK h \in 1..Len(output) : output[h] = Token("def", d)
      BY <3>2 DEF Tokens
    <3>4. output[h].tok = "def" /\ output[h].is = d
      BY <3>3 DEF Token
    <3>5. Declares(output, h, prog.body)
      BY <3>1, <3>4 DEF AllDeclare
    <3>6. LastOf(prog.body[d], i, Len(prog.body[d]))
      <4>1. prog.body[d] \in Seq(Item)
        BY BodyItems DEF NamesInv
      <4> QED BY <4>1 DEF LastOf
    <3>7. PICK k \in (h + 1)..Len(output) :
            /\ output[k] = Token("global", prog.body[d][i].var)
            /\ \A m \in (h + 1)..k : output[m].tok # "def"
      BY <3>4, <3>5, <3>6 DEF Declares
    <3>8. k \in Tokens(d)
      <4>1. k \in DOMAIN output /\ h \in 1..k
        BY <3>2, <3>7
      <4> QED BY <3>3, <3>7, <4>1 DEF Tokens
    <3> QED BY <3>7, <3>8
  <2> QED BY <2>1, <2>2, <2>3 DEF NamesResolved
<1> QED BY <1>1, NamesInvariant, PTL
===============================================================================
