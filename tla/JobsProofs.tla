------------------------------- MODULE JobsProofs -------------------------------
(***************************************************************************)
(* The table of jobs is what its indices say, and what the shell believes  *)
(* of its children is true: for every number of processes, forks, slots    *)
(* and saved statuses, and whatever the handler of SIGCHLD and the trapped *)
(* signals come between.                                                   *)
(***************************************************************************)
EXTENDS Jobs, FiniteSetTheorems, SequenceTheorems, WellFoundedInduction, TLAPS

-------------------------------------------------------------------------------
(***************************************************************************)
(* Induction over numbers: a closed set of naturals is Nat, because what   *)
(* it lacks would have a least member.                                     *)
(***************************************************************************)
LEMMA LeastNatural ==
  ASSUME NEW T \in SUBSET Nat, T # {}
  PROVE  \E n \in T : \A m \in T : n <= m
<1> DEFINE R == OpToRel(<, Nat)
<1>1. IsWellFoundedOn(R, Nat)
  BY NatLessThanWellFounded
<1>2. \A x, y \in Nat : (<<x, y>> \in R) <=> x < y
  BY DEF OpToRel
<1> HIDE DEF R
<1>3. PICK n \in T : \A m \in T : ~(<<m, n>> \in R)
  BY <1>1, WFMin
<1>4. ASSUME NEW m \in T PROVE n <= m
  <2>1. m \in Nat /\ n \in Nat
    OBVIOUS
  <2>2. ~(m < n)
    BY <1>2, <1>3, <2>1
  <2> QED BY ONLY <2>1, <2>2
<1> QED BY <1>4

LEMMA NaturalsClosed ==
  ASSUME NEW S \in SUBSET Nat, 0 \in S, \A n \in S : n + 1 \in S
  PROVE  S = Nat
<1> DEFINE T == Nat \ S
<1>1. SUFFICES ASSUME T # {} PROVE FALSE
  OBVIOUS
<1>2. PICK n \in T : \A m \in T : n <= m
  BY <1>1, LeastNatural
<1>3. n - 1 \in Nat /\ n - 1 \in S
  BY <1>2
<1> QED BY <1>3

LEMMA SequenceOf ==
  ASSUME NEW T, NEW n \in Nat, NEW f \in [1..n -> T]
  PROVE  f \in Seq(T)
OBVIOUS

-------------------------------------------------------------------------------
(***************************************************************************)
(* Folds                                                                   *)
(***************************************************************************)
LEMMA MinOf ==
  ASSUME NEW S \in SUBSET Nat, S # {}
  PROVE  Min(S) \in S /\ \A k \in S : Min(S) <= k
BY LeastNatural DEF Min

LEMMA MaxOf ==
  ASSUME NEW n \in Nat, NEW S \in SUBSET (0..n), S # {}
  PROVE  Max(S) \in S /\ \A k \in S : k <= Max(S)
<1> DEFINE T == {m \in Nat : n - m \in S}
<1>1. T \in SUBSET Nat /\ \A k \in S : k \in 0..n /\ n - k \in T
  <2>1. \A k \in S : k \in 0..n /\ n - k \in Nat /\ n - (n - k) = k
    OBVIOUS
  <2> QED BY <2>1
<1>2. T # {}
  BY <1>1
<1>3. PICK m \in T : \A k \in T : m <= k
  <2> HIDE DEF T
  <2> QED BY <1>1, <1>2, LeastNatural
<1>4. m \in Nat /\ n - m \in S
  BY <1>3
<1> HIDE DEF T
<1>5. ASSUME NEW k \in S PROVE k <= n - m
  <2>1. m <= n - k /\ k \in 0..n
    BY <1>1, <1>3
  <2> QED BY <2>1, <1>4
<1>6. \A k \in S : (n - m) >= k
  BY <1>1, <1>4, <1>5
<1>7. \A k \in S : k \in Nat
  BY <1>1
<1>8. Max(S) \in S /\ \A k \in S : Max(S) >= k
  BY <1>4, <1>6 DEF Max
<1> QED BY <1>7, <1>8

\* What is defined by taking one element after the other out of a finite set
Folded(f, base, step, pick, S) ==
  /\ f[{}] = base
  /\ \A s \in (SUBSET S) \ {{}} : f[s] = step[pick[s], f[s \ {pick[s]}]]

LEMMA FoldExists ==
  ASSUME NEW S, IsFiniteSet(S), NEW T, NEW base \in T, NEW step \in [S \X T -> T],
         NEW pick \in [(SUBSET S) \ {{}} -> S], \A s \in (SUBSET S) \ {{}} : pick[s] \in s
  PROVE  \E f \in [SUBSET S -> T] : Folded(f, base, step, pick, S)
<1> DEFINE Upto(f, n) == /\ f[{}] = base
                         /\ \A s \in (SUBSET S) \ {{}} :
                              Cardinality(s) <= n => f[s] = step[pick[s], f[s \ {pick[s]}]]
           N == {n \in Nat : \E f \in [SUBSET S -> T] : Upto(f, n)}
<1>1. 0 \in N
  <2> DEFINE f == [s \in SUBSET S |-> base]
  <2>1. f \in [SUBSET S -> T] /\ f[{}] = base
    OBVIOUS
  <2>2. \A s \in (SUBSET S) \ {{}} : ~(Cardinality(s) <= 0)
    <3>1. \A s \in (SUBSET S) \ {{}} : IsFiniteSet(s) /\ Cardinality(s) \in Nat /\ Cardinality(s) # 0
      BY FS_Subset, FS_CardinalityType, FS_EmptySet
    <3> QED BY <3>1
  <2>3. Upto(f, 0)
    BY <2>1, <2>2
  <2> HIDE DEF Upto, f
  <2> QED BY <2>1, <2>3
<1>2. ASSUME NEW n \in N PROVE n + 1 \in N
  <2>1. PICK f \in [SUBSET S -> T] : Upto(f, n)
    OBVIOUS
  <2> DEFINE g == [s \in SUBSET S |-> IF s = {} THEN base
                                      ELSE step[pick[s], f[s \ {pick[s]}]]]
  <2>2. \A s \in (SUBSET S) \ {{}} : pick[s] \in S /\ s \ {pick[s]} \in SUBSET S
    OBVIOUS
  <2>3. g \in [SUBSET S -> T]
    <3>1. \A s \in (SUBSET S) \ {{}} : step[pick[s], f[s \ {pick[s]}]] \in T
      BY <2>2
    <3> QED BY <3>1
  <2>4. n \in Nat
    OBVIOUS
  <2>8. /\ f[{}] = base
        /\ \A s \in (SUBSET S) \ {{}} :
             Cardinality(s) <= n => f[s] = step[pick[s], f[s \ {pick[s]}]]
    BY <2>1
  <2> HIDE DEF N, Upto
  <2>5. ASSUME NEW s \in (SUBSET S) \ {{}}, Cardinality(s) <= n + 1
        PROVE  g[s] = step[pick[s], g[s \ {pick[s]}]]
    <3> DEFINE r == s \ {pick[s]}
    <3>1. IsFiniteSet(s) /\ pick[s] \in s /\ r \in SUBSET S
      BY FS_Subset
    <3>2. Cardinality(r) = Cardinality(s) - 1
      <4> DEFINE x == pick[s]
      <4>1. IsFiniteSet(s) /\ x \in s
        BY <3>1
      <4> HIDE DEF x
      <4>2. Cardinality(s \ {x}) = Cardinality(s) - 1
        BY ONLY <4>1, FS_RemoveElement
      <4> QED BY <4>2 DEF x
    <3>6. Cardinality(s) \in Nat /\ Cardinality(s) <= n + 1
      BY <3>1, <2>5, FS_CardinalityType
    <3>3. Cardinality(r) <= n
      <4> HIDE DEF r
      <4> QED BY ONLY <3>2, <3>6, <2>4
    <3>4. g[s] = step[pick[s], f[r]]
      OBVIOUS
    <3>5. g[r] = f[r]
      <4>1. CASE r = {}
        BY <4>1, <3>1, <2>8
      <4>2. CASE r # {}
        <5>1. r \in (SUBSET S) \ {{}}
          BY <4>2, <3>1
        <5>2. g[r] = step[pick[r], f[r \ {pick[r]}]]
          BY <5>1
        <5>3. f[r] = step[pick[r], f[r \ {pick[r]}]]
          BY <5>1, <3>3, <2>8
        <5> QED BY <5>2, <5>3
      <4> QED BY <4>1, <4>2
    <3> QED BY <3>4, <3>5
  <2>6. g[{}] = base
    OBVIOUS
  <2> HIDE DEF g
  <2>7. Upto(g, n + 1)
    BY <2>5, <2>6 DEF Upto
  <2> QED BY <2>3, <2>4, <2>7 DEF N
<1>3. N = Nat
  <2>1. N \in SUBSET Nat
    OBVIOUS
  <2> HIDE DEF N
  <2> QED BY <1>1, <1>2, <2>1, NaturalsClosed
<1>4. Cardinality(S) \in Nat /\ \A s \in SUBSET S : Cardinality(s) <= Cardinality(S)
  BY FS_CardinalityType, FS_Subset
<1>5. PICK f \in [SUBSET S -> T] : Upto(f, Cardinality(S))
  <2>1. Cardinality(S) \in N
    BY <1>3, <1>4
  <2> QED BY <2>1
<1>6. Folded(f, base, step, pick, S)
  BY <1>4, <1>5 DEF Folded
<1> QED BY <1>6

\* What is folded the same way is the same.
FoldedAlike(f, g, S) ==
  /\ f[{}] = g[{}]
  /\ \A s \in (SUBSET S) \ {{}} : \E x \in s : f[s \ {x}] = g[s \ {x}] => f[s] = g[s]

LEMMA FoldUnique ==
  ASSUME NEW S, IsFiniteSet(S), NEW f, NEW g, FoldedAlike(f, g, S)
  PROVE  \A s \in SUBSET S : f[s] = g[s]
<1> DEFINE N == {n \in Nat : \A s \in SUBSET S : Cardinality(s) <= n => f[s] = g[s]}
<1>1. \A s \in SUBSET S : IsFiniteSet(s) /\ Cardinality(s) \in Nat /\ (Cardinality(s) = 0 <=> s = {})
  BY FS_Subset, FS_CardinalityType, FS_EmptySet
<1>2. 0 \in N
  <2>1. \A s \in SUBSET S : Cardinality(s) <= 0 => s = {}
    BY <1>1
  <2> QED BY <2>1 DEF FoldedAlike
<1>3. ASSUME NEW n \in N PROVE n + 1 \in N
  <2>1. n \in Nat /\ \A s \in SUBSET S : Cardinality(s) <= n => f[s] = g[s]
    OBVIOUS
  <2> HIDE DEF N
  <2>2. ASSUME NEW s \in SUBSET S, Cardinality(s) <= n + 1 PROVE f[s] = g[s]
    <3>1. CASE s = {}
      BY <3>1 DEF FoldedAlike
    <3>2. CASE s # {}
      <4>1. PICK x \in s : f[s \ {x}] = g[s \ {x}] => f[s] = g[s]
        BY <3>2 DEF FoldedAlike
      <4>2. IsFiniteSet(s) /\ Cardinality(s) \in Nat
        BY <1>1
      <4>3. Cardinality(s \ {x}) = Cardinality(s) - 1
        BY <4>2, FS_RemoveElement
      <4>4. Cardinality(s \ {x}) <= n
        BY <4>2, <4>3, <2>1, <2>2
      <4>5. s \ {x} \in SUBSET S
        OBVIOUS
      <4>6. f[s \ {x}] = g[s \ {x}]
        BY <2>1, <4>4, <4>5
      <4> QED BY <4>1, <4>6
    <3> QED BY <3>1, <3>2
  <2> QED BY <2>1, <2>2 DEF N
<1>4. N = Nat
  <2>1. N \in SUBSET Nat
    OBVIOUS
  <2> HIDE DEF N
  <2> QED BY <1>2, <1>3, <2>1, NaturalsClosed
<1>5. ASSUME NEW s \in SUBSET S PROVE f[s] = g[s]
  <2>1. Cardinality(s) \in N
    BY <1>1, <1>4
  <2>2. Cardinality(s) \in Nat
    BY <1>1
  <2> QED BY <2>1, <2>2
<1> QED BY <1>5

\* Induction over the subsets of a finite set
LEMMA SubsetsClosed ==
  ASSUME NEW S, IsFiniteSet(S), NEW Q \in SUBSET SUBSET S, {} \in Q,
         \A s \in (SUBSET S) \ {{}} : \E x \in s : s \ {x} \in Q => s \in Q
  PROVE  S \in Q
<1> DEFINE f == [s \in SUBSET S |-> IF s \in Q THEN 0 ELSE 1]
           g == [s \in SUBSET S |-> 0]
<1>1. FoldedAlike(f, g, S)
  <2>1. f[{}] = g[{}]
    OBVIOUS
  <2>2. ASSUME NEW s \in (SUBSET S) \ {{}}
        PROVE  \E x \in s : f[s \ {x}] = g[s \ {x}] => f[s] = g[s]
    <3>1. PICK x \in s : s \ {x} \in Q => s \in Q
      OBVIOUS
    <3>2. s \in SUBSET S /\ s \ {x} \in SUBSET S
      OBVIOUS
    <3> QED BY <3>1, <3>2
  <2> QED BY <2>1, <2>2 DEF FoldedAlike
<1> HIDE DEF f, g
<1>2. f[S] = g[S]
  BY <1>1, FoldUnique
<1> QED BY <1>2 DEF f, g

-------------------------------------------------------------------------------
(***************************************************************************)
(* The invariant of the table                                              *)
(***************************************************************************)
JobT == [pipe : Seq(Processes), state : {"JNONE", "JRUNNING", "JDEAD"},
         foreground : BOOLEAN, notified : BOOLEAN]
Made(job) == job \in JobT /\ job.pipe # <<>> /\ job.state # "JNONE"
Saved == [pid : Pids \union {0}, status : 0..MaxForks]

Tables == [jobs : Seq(JobT), slots : Nat, firstj : Nat, lastj : Nat, njobs : Nat,
           the_pipeline : Seq(Processes), bgpids : Seq(Saved)]

Occupied(t) == {i \in Slots(t) : IsJob(t, i)}

\* A slot that is not free holds a job with a process, and js says where those slots
\* are: when there are none, at 0, where the next job will be put.
IndicesHold(t) ==
  /\ Len(t.jobs) = t.slots
  /\ \A i \in Occupied(t) : Made(Job(t, i)) /\ t.firstj <= i /\ i <= t.lastj
  /\ t.njobs = Cardinality(Occupied(t))
  /\ IF Occupied(t) = {} THEN t.firstj = 0 /\ t.lastj = 0
                         ELSE {t.firstj, t.lastj} \subseteq Occupied(t)

Sound(t) == t \in Tables /\ IndicesHold(t) /\ Len(t.bgpids) <= ChildMax

\* The tables with n processes in the pipeline that is being built
SoundTables(n) == {t \in Tables : Sound(t) /\ Len(t.the_pipeline) = n}

LEMMA NoJobType == NoJob \in JobT /\ \A job : Made(job) => job # NoJob
BY DEF NoJob, JobT, Made

LEMMA SlotOf ==
  ASSUME NEW t, Sound(t), NEW i \in Slots(t)
  PROVE  /\ i \in Nat /\ i + 1 \in 1..Len(t.jobs) /\ Job(t, i) = t.jobs[i + 1] /\ Job(t, i) \in JobT
         /\ i \in Occupied(t) <=> Job(t, i) # NoJob
BY DEF Sound, Tables, IndicesHold, Slots, Job, Occupied, IsJob

LEMMA NoSlot ==
  ASSUME NEW t, Sound(t)
  PROVE  NO_JOB \notin Occupied(t)
<1>1. \A i \in Occupied(t) : i \in Nat
  BY SlotOf DEF Occupied
<1>2. NO_JOB \notin Nat
  BY DEF NO_JOB
<1> QED BY <1>1, <1>2

LEMMA OccupiedFinite ==
  ASSUME NEW t, t \in Tables
  PROVE  /\ Slots(t) \subseteq Nat /\ IsFiniteSet(Slots(t))
         /\ IsFiniteSet(Occupied(t)) /\ Cardinality(Occupied(t)) \in Nat
         /\ (Cardinality(Occupied(t)) = 0 <=> Occupied(t) = {})
<1>1. t.slots \in Nat
  BY DEF Tables
<1>2. Slots(t) \subseteq Nat /\ IsFiniteSet(Slots(t))
  <2>1. t.slots - 1 \in Int /\ 0..(t.slots - 1) \subseteq Nat
    BY <1>1
  <2>2. IsFiniteSet(0..(t.slots - 1))
    BY ONLY <2>1, FS_Interval
  <2> QED BY <2>1, <2>2 DEF Slots
<1>3. Occupied(t) \subseteq Slots(t)
  BY DEF Occupied
<1> QED BY <1>2, <1>3, FS_Subset, FS_CardinalityType, FS_EmptySet

\* Jobs are changed, and none is made or removed.
LEMMA JobsChanged ==
  ASSUME NEW t, Sound(t), NEW jobs \in Seq(JobT), Len(jobs) = Len(t.jobs),
         \A n \in 1..Len(jobs) : \/ jobs[n] = NoJob /\ t.jobs[n] = NoJob
                                 \/ Made(jobs[n]) /\ t.jobs[n] # NoJob
  PROVE  LET u == [t EXCEPT !.jobs = jobs]
         IN  /\ Sound(u) /\ u.the_pipeline = t.the_pipeline /\ u.bgpids = t.bgpids
             /\ Occupied(u) = Occupied(t) /\ \A i \in Slots(t) : Job(u, i) = jobs[i + 1]
<1> DEFINE u == [t EXCEPT !.jobs = jobs]
<1>1. /\ u \in Tables /\ u.jobs = jobs /\ u.slots = t.slots /\ u.firstj = t.firstj
      /\ u.lastj = t.lastj /\ u.njobs = t.njobs /\ u.bgpids = t.bgpids
      /\ u.the_pipeline = t.the_pipeline
  BY DEF Sound, Tables
<1> HIDE DEF u
<1>2. \A i \in Slots(u) : /\ i \in Slots(t) /\ i + 1 \in 1..Len(jobs)
                          /\ Job(u, i) = jobs[i + 1] /\ Job(t, i) = t.jobs[i + 1]
  BY <1>1, SlotOf DEF Slots, Job
<1>3. Occupied(u) = Occupied(t)
  <2>1. \A i \in Slots(u) : IsJob(u, i) <=> IsJob(t, i)
    BY <1>2, NoJobType DEF IsJob
  <2>2. Slots(u) = Slots(t)
    BY <1>1 DEF Slots
  <2> QED BY <2>1, <2>2 DEF Occupied
<1>4. \A i \in Occupied(u) : Made(Job(u, i))
  <2>1. \A i \in Occupied(u) : i \in Slots(u) /\ Job(u, i) # NoJob
    BY DEF Occupied, IsJob
  <2> QED BY <2>1, <1>2
<1>5. \A i \in Slots(t) : Job(u, i) = jobs[i + 1]
  BY <1>1, <1>2 DEF Slots
<1>6. Sound(u)
  BY <1>1, <1>3, <1>4 DEF Sound, IndicesHold
<1> QED BY <1>1, <1>3, <1>5, <1>6 DEF u

LEMMA JobChanged ==
  ASSUME NEW t, Sound(t), NEW i \in Occupied(t), NEW job, Made(job)
  PROVE  LET u == Put(t, i, job)
         IN  /\ Sound(u) /\ u.the_pipeline = t.the_pipeline /\ u.bgpids = t.bgpids
             /\ Occupied(u) = Occupied(t)
             /\ Job(u, i) = job /\ \A k \in Occupied(t) \ {i} : Job(u, k) = Job(t, k)
<1> DEFINE jobs == [t.jobs EXCEPT ![i + 1] = job]
<1>1. i \in Slots(t) /\ i + 1 \in 1..Len(t.jobs) /\ t.jobs[i + 1] # NoJob
  BY SlotOf DEF Occupied, IsJob
<1>2. t.jobs \in Seq(JobT) /\ job \in JobT
  BY DEF Sound, Tables, Made
<1>3. jobs \in Seq(JobT) /\ Len(jobs) = Len(t.jobs)
  BY <1>1, <1>2
<1>4. ASSUME NEW n \in 1..Len(jobs)
      PROVE  \/ jobs[n] = NoJob /\ t.jobs[n] = NoJob
             \/ Made(jobs[n]) /\ t.jobs[n] # NoJob
  <2>1. CASE n = i + 1
    BY <2>1, <1>1, <1>2
  <2>2. CASE n # i + 1
    <3>1. jobs[n] = t.jobs[n] /\ n - 1 \in Slots(t) /\ (n - 1) + 1 = n
      BY <2>2, <1>2, <1>3 DEF Slots, Sound, IndicesHold, Tables
    <3>2. n - 1 \in Occupied(t) \/ t.jobs[n] = NoJob
      BY <3>1, SlotOf
    <3>3. n - 1 \in Occupied(t) => Made(t.jobs[n]) /\ t.jobs[n] # NoJob
      BY <3>1, NoJobType DEF Sound, IndicesHold, Job
    <3> QED BY <3>1, <3>2, <3>3
  <2> QED BY <2>1, <2>2
<1>5. jobs[i + 1] = job
  BY <1>1, <1>2
<1>6. \A k \in Occupied(t) \ {i} : jobs[k + 1] = Job(t, k)
  <2> TAKE k \in Occupied(t) \ {i}
  <2>1. k \in Slots(t) /\ k \in Nat /\ k + 1 # i + 1
    BY <1>1, SlotOf DEF Occupied
  <2>2. k + 1 \in 1..Len(t.jobs) /\ Job(t, k) = t.jobs[k + 1]
    BY <2>1, SlotOf
  <2> QED BY <1>2, <2>1, <2>2
<1> HIDE DEF jobs
<1> DEFINE u == [t EXCEPT !.jobs = jobs]
<1>7. /\ Sound(u) /\ u.the_pipeline = t.the_pipeline /\ u.bgpids = t.bgpids
      /\ Occupied(u) = Occupied(t) /\ \A k \in Slots(t) : Job(u, k) = jobs[k + 1]
  BY <1>3, <1>4, JobsChanged
<1>8. Put(t, i, job) = u
  BY DEF Put, jobs
<1> HIDE DEF u
<1>9. Job(u, i) = job /\ \A k \in Occupied(t) \ {i} : Job(u, k) = Job(t, k)
  BY <1>1, <1>5, <1>6, <1>7 DEF Occupied
<1> QED BY <1>7, <1>8, <1>9

LEMMA PipelineChanged ==
  ASSUME NEW t, Sound(t), NEW p \in Seq(Processes)
  PROVE  LET u == [t EXCEPT !.the_pipeline = p]
         IN  /\ Sound(u) /\ u.the_pipeline = p /\ u.bgpids = t.bgpids
             /\ Occupied(u) = Occupied(t) /\ \A i : Job(u, i) = Job(t, i)
<1> DEFINE u == [t EXCEPT !.the_pipeline = p]
<1>1. /\ u \in Tables /\ u.jobs = t.jobs /\ u.slots = t.slots /\ u.firstj = t.firstj
      /\ u.lastj = t.lastj /\ u.njobs = t.njobs /\ u.bgpids = t.bgpids /\ u.the_pipeline = p
  BY DEF Sound, Tables
<1> HIDE DEF u
<1>2. Occupied(u) = Occupied(t) /\ \A i : Job(u, i) = Job(t, i)
  BY <1>1 DEF Occupied, Slots, IsJob, Job
<1> QED BY <1>1, <1>2 DEF Sound, IndicesHold, u

LEMMA StatusesChanged ==
  ASSUME NEW t, Sound(t), NEW b \in Seq(Saved), Len(b) <= ChildMax
  PROVE  LET u == [t EXCEPT !.bgpids = b]
         IN  /\ Sound(u) /\ u.the_pipeline = t.the_pipeline /\ u.bgpids = b
             /\ Occupied(u) = Occupied(t) /\ \A i : Job(u, i) = Job(t, i)
<1> DEFINE u == [t EXCEPT !.bgpids = b]
<1>1. /\ u \in Tables /\ u.jobs = t.jobs /\ u.slots = t.slots /\ u.firstj = t.firstj
      /\ u.lastj = t.lastj /\ u.njobs = t.njobs /\ u.bgpids = b
      /\ u.the_pipeline = t.the_pipeline
  BY DEF Sound, Tables
<1> HIDE DEF u
<1>2. Occupied(u) = Occupied(t) /\ \A i : Job(u, i) = Job(t, i)
  BY <1>1 DEF Occupied, Slots, IsJob, Job
<1> QED BY <1>1, <1>2 DEF Sound, IndicesHold, u

\* Every job, as its processes and its state, is in G, and the processes of every two
\* jobs are in P.
Within(t, G, P) ==
  /\ \A i \in Occupied(t) : <<Job(t, i).pipe, Job(t, i).state>> \in G
  /\ \A i, j \in Occupied(t) : i # j => <<Job(t, i).pipe, Job(t, j).pipe>> \in P

\* What is true of the jobs of t, and of every two of them, is true of those of u.
Carries(t, u) == \A G, P : Within(t, G, P) => Within(u, G, P)

LEMMA CarriesItself == ASSUME NEW t PROVE Carries(t, t)
BY DEF Carries

LEMMA CarriesOn ==
  ASSUME NEW t, NEW u, NEW v, Carries(t, u), Carries(u, v)
  PROVE  Carries(t, v)
BY DEF Carries

\* Jobs are taken away, and the others keep their processes and their states.
LEMMA CarriesRest ==
  ASSUME NEW t, NEW u, Occupied(u) \subseteq Occupied(t),
         \A i \in Occupied(u) : /\ Job(u, i).pipe = Job(t, i).pipe
                               /\ Job(u, i).state = Job(t, i).state
  PROVE  Carries(t, u)
BY DEF Carries, Within

\* The numbers of processes, where they are: of a pipeline, of the jobs, of the pipeline
\* that is built, and of the saved statuses.
Has(pipe, pid) == \E k \in DOMAIN pipe : pipe[k].pid = pid
Holds(t, pid) == \E i \in Occupied(t) : Has(Job(t, i).pipe, pid)
Building(t, pid) == Has(t.the_pipeline, pid)

\* No two processes have one number.
PipeApart(pipe) ==
  \A k, m \in DOMAIN pipe : pipe[k].pid = pipe[m].pid /\ pipe[k].pid # 0 => k = m

PipesApart(pipe, other) ==
  \A k \in DOMAIN pipe, m \in DOMAIN other : pipe[k].pid = other[m].pid => pipe[k].pid = 0

\* A number is in one job at most, and then not in the pipeline that is built.
JobsApart(t) ==
  \A i, j \in Occupied(t) : i # j => PipesApart(Job(t, i).pipe, Job(t, j).pipe)

LEMMA CarriesApart ==
  ASSUME NEW t, NEW u, Carries(t, u), JobsApart(t)
  PROVE  JobsApart(u)
<1> DEFINE G == {<<Job(t, i).pipe, Job(t, i).state>> : i \in Occupied(t)}
           pipes == {Job(t, i).pipe : i \in Occupied(t)}
           P == {x \in pipes \X pipes : PipesApart(x[1], x[2])}
<1>1. Within(t, G, P)
  BY DEF Within, JobsApart
<1>2. Within(u, G, P)
  BY <1>1 DEF Carries
<1> QED BY <1>2 DEF Within, JobsApart

\* The number of a saved status has no other, and is of no process of the table.
SavedApart(t) ==
  /\ \A n, m \in DOMAIN t.bgpids :
       t.bgpids[n].pid = t.bgpids[m].pid /\ t.bgpids[n].pid # 0 => n = m
  /\ \A n \in DOMAIN t.bgpids :
       t.bgpids[n].pid # 0 => ~ Holds(t, t.bgpids[n].pid) /\ ~ Building(t, t.bgpids[n].pid)

NumbersApart(t) ==
  /\ JobsApart(t) /\ SavedApart(t)
  /\ \A i \in Occupied(t) : PipesApart(Job(t, i).pipe, t.the_pipeline)

\* A job but for the mark that its end was reported; its status, as it is saved; and
\* that the status is saved, unless others have displaced it.
Same(job, other) ==
  other.pipe = job.pipe /\ other.state = job.state /\ other.foreground = job.foreground
StatusOf(t, i) == [pid |-> LastProc(t, i).pid, status |-> LastProc(t, i).status]
StatusIn(b, s) == Len(b) = ChildMax \/ \E n \in DOMAIN b : b[n] = s

\* From t to u no job appears, and one that goes was dead and leaves its status; a saved
\* status stays, and is added to by those of dead jobs alone.
Saves(t, u) ==
  /\ \A j \in Occupied(u) : \E i \in Occupied(t) : Same(Job(t, i), Job(u, j))
  /\ \A i \in Occupied(t) : \/ \E j \in Occupied(u) : Same(Job(t, i), Job(u, j))
                            \/ Dead(t, i) /\ StatusIn(u.bgpids, StatusOf(t, i))
  /\ \A n \in DOMAIN t.bgpids : StatusIn(u.bgpids, t.bgpids[n])
  /\ \A n \in DOMAIN u.bgpids : \/ \E m \in DOMAIN t.bgpids : u.bgpids[n] = t.bgpids[m]
                                \/ \E i \in Occupied(t) : Dead(t, i) /\ u.bgpids[n] = StatusOf(t, i)
  /\ Len(t.bgpids) = ChildMax => Len(u.bgpids) = ChildMax
  /\ NumbersApart(t) => NumbersApart(u)

LEMMA SameJob ==
  ASSUME NEW t, NEW u, NEW i, NEW j, Same(Job(t, i), Job(u, j))
  PROVE  (Dead(u, j) <=> Dead(t, i)) /\ StatusOf(u, j) = StatusOf(t, i)
BY DEF Same, Dead, StatusOf, LastProc

LEMMA SavesOn ==
  ASSUME NEW t, NEW u, NEW v, Saves(t, u), Saves(u, v)
  PROVE  Saves(t, v)
<1>1. \A k \in Occupied(v) : \E i \in Occupied(t) : Same(Job(t, i), Job(v, k))
  BY DEF Saves, Same
<1>2. ASSUME NEW s, StatusIn(u.bgpids, s) PROVE StatusIn(v.bgpids, s)
  BY <1>2 DEF Saves, StatusIn
<1>3. ASSUME NEW i \in Occupied(t)
      PROVE  \/ \E k \in Occupied(v) : Same(Job(t, i), Job(v, k))
             \/ Dead(t, i) /\ StatusIn(v.bgpids, StatusOf(t, i))
  <2>1. CASE Dead(t, i) /\ StatusIn(u.bgpids, StatusOf(t, i))
    BY <2>1, <1>2
  <2>2. ASSUME NEW j \in Occupied(u), Same(Job(t, i), Job(u, j))
        PROVE  \/ \E k \in Occupied(v) : Same(Job(t, i), Job(v, k))
               \/ Dead(t, i) /\ StatusIn(v.bgpids, StatusOf(t, i))
    <3>1. (Dead(u, j) <=> Dead(t, i)) /\ StatusOf(u, j) = StatusOf(t, i)
      BY <2>2, SameJob
    <3>2. \/ \E k \in Occupied(v) : Same(Job(u, j), Job(v, k))
          \/ Dead(u, j) /\ StatusIn(v.bgpids, StatusOf(u, j))
      BY DEF Saves
    <3> QED BY <2>2, <3>1, <3>2 DEF Same
  <2> QED BY <2>1, <2>2 DEF Saves
<1>4. \A n \in DOMAIN t.bgpids : StatusIn(v.bgpids, t.bgpids[n])
  BY <1>2 DEF Saves
<1>5. ASSUME NEW n \in DOMAIN v.bgpids
      PROVE  \/ \E m \in DOMAIN t.bgpids : v.bgpids[n] = t.bgpids[m]
             \/ \E i \in Occupied(t) : Dead(t, i) /\ v.bgpids[n] = StatusOf(t, i)
  <2>1. \/ \E m \in DOMAIN u.bgpids : v.bgpids[n] = u.bgpids[m]
        \/ \E j \in Occupied(u) : Dead(u, j) /\ v.bgpids[n] = StatusOf(u, j)
    BY DEF Saves
  <2>2. ASSUME NEW j \in Occupied(u), Dead(u, j)
        PROVE  \E i \in Occupied(t) : Dead(t, i) /\ StatusOf(u, j) = StatusOf(t, i)
    BY <2>2, SameJob DEF Saves
  <2> QED BY <2>1, <2>2 DEF Saves
<1> QED BY <1>1, <1>3, <1>4, <1>5 DEF Saves

\* The jobs are where they were, and the statuses as they were.
LEMMA SavesRest ==
  ASSUME NEW t, NEW u, u.bgpids = t.bgpids, u.the_pipeline = t.the_pipeline,
         Occupied(u) = Occupied(t), \A i \in Occupied(t) : Same(Job(t, i), Job(u, i))
  PROVE  Saves(t, u)
<1>1. NumbersApart(t) => NumbersApart(u)
  BY DEF NumbersApart, JobsApart, SavedApart, Holds, Building, Same
<1>2. \A n \in DOMAIN t.bgpids : StatusIn(u.bgpids, t.bgpids[n])
  BY DEF StatusIn
<1> QED BY <1>1, <1>2 DEF Saves

LEMMA SavesItself == ASSUME NEW t PROVE Saves(t, t)
BY SavesRest DEF Same

-------------------------------------------------------------------------------
(***************************************************************************)
(* Searches and the saved statuses                                         *)
(***************************************************************************)
LEMMA FindJob ==
  ASSUME NEW t, Sound(t), NEW pid, NEW alive
  PROVE  \/ /\ find_job(t, pid, alive) = NO_JOB
            /\ \A i \in Slots(t) : \A k \in DOMAIN Job(t, i).pipe :
                 ~ Matches(Job(t, i).pipe[k], pid, alive)
         \/ /\ find_job(t, pid, alive) \in Occupied(t)
            /\ \E k \in DOMAIN Job(t, find_job(t, pid, alive)).pipe :
                 Matches(Job(t, find_job(t, pid, alive)).pipe[k], pid, alive)
<1> DEFINE found == {i \in Slots(t) : \E k \in DOMAIN Job(t, i).pipe :
                                        Matches(Job(t, i).pipe[k], pid, alive)}
<1>1. find_job(t, pid, alive) = FirstOf(found)
  BY DEF find_job
<1>2. found \subseteq Nat
  BY OccupiedFinite DEF Sound
<1>3. \A i \in found : i \in Slots(t) /\ DOMAIN Job(t, i).pipe # {}
  OBVIOUS
<1>4. \A i \in found : i \in Occupied(t)
  <2>1. DOMAIN NoJob.pipe = {}
    BY DEF NoJob
  <2> QED BY <1>3, <2>1 DEF Occupied, IsJob
<1>5. CASE found = {}
  BY <1>1, <1>5 DEF FirstOf
<1>6. CASE found # {}
  <2>1. FirstOf(found) \in found
    BY <1>2, <1>6, MinOf DEF FirstOf
  <2> QED BY <1>1, <1>4, <2>1
<1> QED BY <1>5, <1>6

\* What SelectInSeq selects, for the sets of places that jobs.c searches for
FirstPlace(I) == IF I # {} THEN Min(I) ELSE 0

LEMMA PlaceOf ==
  ASSUME NEW n \in Nat, NEW I \in SUBSET (1..n)
  PROVE  FirstPlace(I) \in 0..n /\ (I # {} => FirstPlace(I) \in I)
<1>1. I \subseteq Nat /\ I \subseteq 0..n
  OBVIOUS
<1>2. I # {} => Min(I) \in I
  BY <1>1, MinOf
<1>3. CASE I = {}
  BY <1>3 DEF FirstPlace
<1>4. CASE I # {}
  <2>1. FirstPlace(I) = Min(I)
    BY <1>4 DEF FirstPlace
  <2> QED BY <1>1, <1>2, <1>4, <2>1
<1> QED BY <1>3, <1>4

Numbered(pipe, pid) == {i \in 1..Len(pipe) : pipe[i].pid = pid}

LEMMA ProcessOf ==
  ASSUME NEW T, NEW pipe \in Seq(T), NEW pid
  PROVE  /\ FirstPlace(Numbered(pipe, pid)) \in 0..Len(pipe)
         /\ (\E n \in DOMAIN pipe : pipe[n].pid = pid)
              => /\ FirstPlace(Numbered(pipe, pid)) \in DOMAIN pipe
                 /\ pipe[FirstPlace(Numbered(pipe, pid))].pid = pid
<1>1. Len(pipe) \in Nat /\ DOMAIN pipe = 1..Len(pipe) /\ Numbered(pipe, pid) \in SUBSET (1..Len(pipe))
  BY DEF Numbered
<1>2. (\E n \in DOMAIN pipe : pipe[n].pid = pid) => Numbered(pipe, pid) # {}
  BY <1>1 DEF Numbered
<1>3. FirstPlace(Numbered(pipe, pid)) \in Numbered(pipe, pid) \/ Numbered(pipe, pid) = {}
  BY <1>1, PlaceOf
<1> QED BY <1>1, <1>2, <1>3, PlaceOf DEF Numbered

LEMMA LastProcType ==
  ASSUME NEW t, Sound(t), NEW i \in Occupied(t)
  PROVE  LastProc(t, i) \in Processes
<1>1. Made(Job(t, i))
  BY DEF Sound, IndicesHold
<1>2. Job(t, i).pipe \in Seq(Processes) /\ Job(t, i).pipe # <<>>
  BY <1>1 DEF Made, JobT
<1>3. Len(Job(t, i).pipe) \in DOMAIN Job(t, i).pipe
  BY <1>2
<1> QED BY <1>2, <1>3 DEF LastProc, Last

LEMMA AddedStatus ==
  ASSUME NEW b \in Seq(Saved), Len(b) <= ChildMax, NEW p \in Processes
  PROVE  bgp_add(b, p.pid, p.status) \in Seq(Saved) /\ Len(bgp_add(b, p.pid, p.status)) <= ChildMax
<1>1. [pid |-> p.pid, status |-> p.status] \in Saved /\ ChildMax \in Nat
  BY JobTableAssumption DEF Processes, Saved
<1> DEFINE added == Append(b, [pid |-> p.pid, status |-> p.status])
<1>2. added \in Seq(Saved) /\ Len(added) = Len(b) + 1 /\ Len(b) \in Nat
  BY <1>1
<1>3. Tail(added) \in Seq(Saved) /\ Len(Tail(added)) = Len(b)
  BY <1>2
<1> QED BY <1>1, <1>2, <1>3 DEF bgp_add

\* What is saved stays unless it is displaced, and nothing else is displaced.
LEMMA StatusAdded ==
  ASSUME NEW b \in Seq(Saved), Len(b) <= ChildMax, NEW pid, NEW status,
         [pid |-> pid, status |-> status] \in Saved
  PROVE  LET s == [pid |-> pid, status |-> status]
             c == bgp_add(b, pid, status)
         IN  /\ StatusIn(c, s) /\ \A m \in DOMAIN b : StatusIn(c, b[m])
             /\ Len(b) = ChildMax => Len(c) = ChildMax
             /\ \A n \in DOMAIN c : c[n] = s \/ \E m \in DOMAIN b : c[n] = b[m]
             /\ (\A n, m \in DOMAIN b : b[n].pid = b[m].pid /\ b[n].pid # 0 => n = m)
                /\ (pid # 0 => ~ Has(b, pid))
                  => \A n, m \in DOMAIN c : c[n].pid = c[m].pid /\ c[n].pid # 0 => n = m
<1> DEFINE s == [pid |-> pid, status |-> status]
           a == Append(b, s)
           c == bgp_add(b, pid, status)
           len == Len(b)
<1>1. ChildMax \in Nat /\ len \in Nat /\ DOMAIN b = 1..len /\ s.pid = pid
  BY JobTableAssumption
<1>2. /\ a \in Seq(Saved) /\ Len(a) = len + 1 /\ DOMAIN a = 1..(len + 1)
      /\ \A n \in 1..(len + 1) : a[n] = IF n = len + 1 THEN s ELSE b[n]
  OBVIOUS
<1>3. c = IF Len(a) > ChildMax THEN Tail(a) ELSE a
  BY DEF bgp_add
<1>4. Tail(a) \in Seq(Saved) /\ Len(Tail(a)) = len /\ DOMAIN Tail(a) = 1..len
      /\ \A n \in 1..len : Tail(a)[n] = a[n + 1]
  BY <1>1, <1>2
<1> HIDE DEF a, c, s, len
<1>5. \A n \in DOMAIN a : a[n] = s \/ \E m \in DOMAIN b : a[n] = b[m]
  <2> TAKE n \in DOMAIN a
  <2>1. n = len + 1 \/ n \in 1..len
    BY <1>1, <1>2
  <2> QED BY <2>1, <1>1, <1>2
<1>6. ASSUME \A n, m \in DOMAIN b : b[n].pid = b[m].pid /\ b[n].pid # 0 => n = m,
             pid # 0 => ~ Has(b, pid), NEW n \in DOMAIN a, NEW m \in DOMAIN a,
             a[n].pid = a[m].pid, a[n].pid # 0
      PROVE  n = m
  <2>1. \A k \in DOMAIN a : \/ k = len + 1 /\ a[k] = s
                            \/ k \in DOMAIN b /\ a[k] = b[k]
    BY <1>1, <1>2
  <2> QED BY <2>1, <1>1, <1>6 DEF Has
<1>7. CASE len < ChildMax
  <2>1. c = a
    BY <1>1, <1>2, <1>3, <1>7
  <2>2. a[len + 1] = s /\ len + 1 \in DOMAIN a
    BY <1>1, <1>2
  <2>3. \A m \in DOMAIN b : m \in DOMAIN a /\ a[m] = b[m]
    BY <1>1, <1>2
  <2>4. StatusIn(c, s) /\ \A m \in DOMAIN b : StatusIn(c, b[m])
    BY <2>1, <2>2, <2>3 DEF StatusIn
  <2>5. len # ChildMax
    BY <1>1, <1>7
  <2> QED BY <2>1, <2>4, <2>5, <1>5, <1>6 DEF s, c, len
<1>8. CASE len = ChildMax
  <2>1. c = Tail(a) /\ Len(c) = ChildMax
    BY <1>1, <1>2, <1>3, <1>4, <1>8
  <2>2. \A n \in DOMAIN c : n + 1 \in DOMAIN a /\ c[n] = a[n + 1] /\ n \in Nat
    BY <2>1, <1>1, <1>2, <1>4
  <2>3. \A n, m \in DOMAIN c : n + 1 = m + 1 => n = m
    BY <2>2
  <2>4. StatusIn(c, s) /\ \A m \in DOMAIN b : StatusIn(c, b[m])
    BY <2>1 DEF StatusIn
  <2>5. \A n \in DOMAIN c : c[n] = s \/ \E m \in DOMAIN b : c[n] = b[m]
    BY <2>2, <1>5
  <2>6. ASSUME \A n, m \in DOMAIN b : b[n].pid = b[m].pid /\ b[n].pid # 0 => n = m,
               pid # 0 => ~ Has(b, pid), NEW n \in DOMAIN c, NEW m \in DOMAIN c,
               c[n].pid = c[m].pid, c[n].pid # 0
        PROVE  n = m
    BY <2>2, <2>3, <2>6, <1>6
  <2> QED BY <2>1, <2>4, <2>5, <2>6 DEF s, c
<1>9. len <= ChildMax
  BY DEF len
<1> QED BY <1>1, <1>7, <1>8, <1>9

\* The status of a number is taken out, if it is there, and the others stay.
StatusOut(b, c, pid) ==
  /\ \A n \in DOMAIN c : \E m \in DOMAIN b : c[n] = b[m]
  /\ \A m \in DOMAIN b : b[m].pid # pid => \E n \in DOMAIN c : c[n] = b[m]
  /\ PipeApart(b) => PipeApart(c) /\ (pid # 0 => ~ Has(c, pid))

LEMMA DeletedStatus ==
  ASSUME NEW t, Sound(t), NEW pid
  PROVE  LET u == bgp_delete(t, pid)
         IN  /\ Sound(u) /\ u.the_pipeline = t.the_pipeline
             /\ Occupied(u) = Occupied(t) /\ \A i : Job(u, i) = Job(t, i)
             /\ StatusOut(t.bgpids, u.bgpids, pid)
<1> DEFINE found == FirstPlace(Numbered(t.bgpids, pid))
<1>1. t.bgpids \in Seq(Saved) /\ Len(t.bgpids) <= ChildMax
  BY DEF Sound, Tables
<1>2. /\ found \in 0..Len(t.bgpids)
      /\ Has(t.bgpids, pid) => found \in DOMAIN t.bgpids /\ t.bgpids[found].pid = pid
  BY <1>1, ProcessOf DEF Has
<1>6. found # 0 => t.bgpids[found].pid = pid
  <2> DEFINE I == Numbered(t.bgpids, pid)
  <2>1. I \in SUBSET (1..Len(t.bgpids)) /\ Len(t.bgpids) \in Nat
    BY <1>1 DEF Numbered
  <2>2. FirstPlace(I) # 0 => FirstPlace(I) \in I
    BY <2>1, PlaceOf DEF FirstPlace
  <2> QED BY <2>2 DEF Numbered
<1> HIDE DEF found
<1>3. bgp_delete(t, pid) = IF found = 0 THEN t ELSE [t EXCEPT !.bgpids = RemoveAt(@, found)]
  BY DEF bgp_delete, SelectInSeq, found, FirstPlace, Numbered
<1>5. CASE found = 0
  <2>1. DOMAIN t.bgpids = 1..Len(t.bgpids)
    BY <1>1
  <2>2. ~ Has(t.bgpids, pid)
    BY <1>2, <1>5, <2>1
  <2> QED BY <1>3, <1>5, <2>2 DEF StatusOut
<1>4. CASE found # 0
  <2> DEFINE b == RemoveAt(t.bgpids, found)
  <2>1. found \in 1..Len(t.bgpids) /\ Len(t.bgpids) \in Nat
    BY <1>1, <1>2, <1>4
  <2> DEFINE before == SubSeq(t.bgpids, 1, found - 1)
             after == SubSeq(t.bgpids, found + 1, Len(t.bgpids))
  <2>2. /\ before \in Seq(Saved) /\ Len(before) = found - 1
        /\ after \in Seq(Saved) /\ Len(after) = Len(t.bgpids) - found
    BY <1>1, <2>1
  <2>3. b = before \o after
    BY DEF RemoveAt
  <2>8. /\ \A n \in 1..(found - 1) : before[n] = t.bgpids[n]
        /\ \A n \in 1..(Len(t.bgpids) - found) : after[n] = t.bgpids[found + n]
    BY <1>1, <2>1
  <2> HIDE DEF before, after, b
  <2>7. b \in Seq(Saved) /\ Len(b) = Len(t.bgpids) - 1
    BY <2>1, <2>2, <2>3
  <2>4. Len(b) <= ChildMax
    BY <2>1, <2>7, <1>1, JobTableAssumption
  <2>5. LET u == [t EXCEPT !.bgpids = b]
        IN  /\ Sound(u) /\ u.the_pipeline = t.the_pipeline
            /\ Occupied(u) = Occupied(t) /\ \A i : Job(u, i) = Job(t, i)
    BY <2>7, <2>4, StatusesChanged
  <2>6. bgp_delete(t, pid) = [t EXCEPT !.bgpids = b]
    BY <1>3, <1>4 DEF b
  <2> DEFINE c == t.bgpids
             len == Len(c)
             At0(n) == IF n < found THEN n ELSE n + 1
  <2>9. /\ DOMAIN c = 1..len /\ len \in Nat /\ DOMAIN b = 1..(len - 1) /\ found \in 1..len
        /\ c[found].pid = pid
    BY <1>1, <1>4, <1>6, <2>1, <2>7
  <2>10. \A n \in 1..(len - 1) : b[n] = c[At0(n)]
    <3> TAKE n \in 1..(len - 1)
    <3>1. CASE n < found
      BY <2>1, <2>2, <2>3, <2>8, <3>1
    <3>2. CASE ~ (n < found)
      <4>1. n - (found - 1) \in 1..(len - found) /\ found + (n - (found - 1)) = n + 1
        BY <2>1, <3>2
      <4>2. b[n] = after[n - (found - 1)]
        BY <2>1, <2>2, <2>3, <3>2
      <4> QED BY <2>8, <4>1, <4>2, <3>2
    <3> QED BY <3>1, <3>2
  <2> HIDE DEF c, len
  <2>11. \A n \in DOMAIN b : At0(n) \in DOMAIN c /\ At0(n) # found /\ b[n] = c[At0(n)]
    BY <2>9, <2>10
  <2>12. \A m \in DOMAIN c : m # found => \E n \in DOMAIN b : At0(n) = m
    <3> SUFFICES ASSUME NEW m \in DOMAIN c, m # found PROVE \E n \in DOMAIN b : At0(n) = m
      OBVIOUS
    <3>1. CASE m < found
      BY <2>9, <3>1
    <3>2. CASE m > found
      <4>1. m - 1 \in DOMAIN b /\ At0(m - 1) = m
        BY <2>9, <3>2
      <4> QED BY <4>1
    <3> QED BY <2>9, <3>1, <3>2
  <2>13. \A n, m \in DOMAIN b : At0(n) = At0(m) => n = m
    BY <2>9
  <2> HIDE DEF At0
  <2>14. StatusOut(c, b, pid)
    <3>1. \A n \in DOMAIN b : \E m \in DOMAIN c : b[n] = c[m]
      BY <2>11
    <3>2. \A m \in DOMAIN c : c[m].pid # pid => \E n \in DOMAIN b : b[n] = c[m]
      BY <2>9, <2>11, <2>12
    <3>3. ASSUME PipeApart(c) PROVE PipeApart(b) /\ (pid # 0 => ~ Has(b, pid))
      BY <2>9, <2>11, <2>13, <3>3 DEF PipeApart, Has
    <3> QED BY <3>1, <3>2, <3>3 DEF StatusOut
  <2>15. StatusOut(t.bgpids, [t EXCEPT !.bgpids = b].bgpids, pid)
    BY <2>14 DEF c, Sound, Tables
  <2> QED BY <2>5, <2>6, <2>15
<1> QED BY <1>4, <1>5

-------------------------------------------------------------------------------
(***************************************************************************)
(* Removing jobs                                                           *)
(***************************************************************************)
\* The remainder that a search around the end of the array takes
LEMMA Around ==
  ASSUME NEW n \in Nat, NEW x \in Nat, x < 2 * n
  PROVE  x % n = IF x < n THEN x ELSE x - n
<1>1. CASE x < n
  BY <1>1
<1>2. CASE ~(x < n)
  <2>1. x - n \in Nat /\ x - n < n /\ n > 0
    BY <1>2
  <2>2. PICK y \in Nat : y = x - n
    BY <2>1
  <2>3. (y + n) % n = y
    BY <2>1, <2>2
  <2>4. y + n = x
    BY <2>2
  <2> QED BY <1>2, <2>2, <2>3, <2>4
<1> QED BY <1>1, <1>2

\* All jobs are above the place: the next one is the first.
LEMMA SearchedUpwards ==
  ASSUME NEW t, t \in Tables, NEW i \in Slots(t), Occupied(t) # {},
         \A k \in Occupied(t) : i < k
  PROVE  /\ Upwards(t, i) # {}
         /\ LET j == (i + Min(Upwards(t, i))) % t.slots
            IN  j \in Occupied(t) /\ \A k \in Occupied(t) : j <= k
<1> DEFINE up == Upwards(t, i)
<1>1. t.slots \in Nat /\ i \in Nat /\ i < t.slots
  BY DEF Tables, Slots
<1>2. up \subseteq Nat
  BY <1>1 DEF Upwards
<1>3. \A k \in Occupied(t) : k \in Nat /\ k < t.slots
  BY <1>1 DEF Occupied, Slots
<1>4. ASSUME NEW k \in Occupied(t) PROVE k - i \in up
  <2>1. k - i \in 1..(t.slots - 1) /\ i + (k - i) = k /\ k \in Nat /\ k < t.slots
    BY <1>1, <1>3
  <2>2. (i + (k - i)) % t.slots = k
    BY <1>1, <2>1
  <2>3. IsJob(t, k)
    BY DEF Occupied
  <2> QED BY <2>1, <2>2, <2>3 DEF Upwards
<1>5. ASSUME NEW k \in up PROVE i + k \in Occupied(t) /\ (i + k) % t.slots = i + k
  <2>1. k \in 1..(t.slots - 1) /\ IsJob(t, (i + k) % t.slots)
    BY DEF Upwards
  <2>2. i + k \in Nat /\ i + k < 2 * t.slots
    BY <1>1, <2>1
  <2>3. (i + k) % t.slots = IF i + k < t.slots THEN i + k ELSE (i + k) - t.slots
    BY <1>1, <2>2, Around
  <2>4. (i + k) % t.slots \in Slots(t)
    BY <1>1, <2>1, <2>2, <2>3 DEF Slots
  <2>5. (i + k) % t.slots \in Occupied(t)
    BY <2>1, <2>4 DEF Occupied
  <2>6. i < (i + k) % t.slots
    BY <2>5
  <2>7. i + k < t.slots
    BY <1>1, <2>1, <2>3, <2>6
  <2> QED BY <2>3, <2>5, <2>7
<1>6. up # {}
  BY <1>4
<1> HIDE DEF up
<1>7. Min(up) \in up /\ \A k \in up : Min(up) <= k
  BY <1>2, <1>6, MinOf
<1>8. i + Min(up) \in Occupied(t) /\ (i + Min(up)) % t.slots = i + Min(up)
  BY <1>5, <1>7
<1>9. ASSUME NEW k \in Occupied(t) PROVE i + Min(up) <= k
  <2>1. Min(up) <= k - i /\ Min(up) \in Nat /\ k \in Nat
    BY <1>2, <1>3, <1>4, <1>7
  <2> QED BY <1>1, <2>1
<1> QED BY <1>6, <1>8, <1>9 DEF up

\* All jobs are below the place: the one before is the last.
LEMMA SearchedDownwards ==
  ASSUME NEW t, t \in Tables, NEW i \in Slots(t), Occupied(t) # {},
         \A k \in Occupied(t) : k < i
  PROVE  /\ Downwards(t, i) # {}
         /\ LET j == (i + t.slots - Min(Downwards(t, i))) % t.slots
            IN  j \in Occupied(t) /\ \A k \in Occupied(t) : k <= j
<1> DEFINE down == Downwards(t, i)
<1>1. t.slots \in Nat /\ i \in Nat /\ i < t.slots
  BY DEF Tables, Slots
<1>2. down \subseteq Nat
  BY <1>1 DEF Downwards
<1>3. \A k \in Occupied(t) : k \in Nat /\ k < t.slots
  BY <1>1 DEF Occupied, Slots
<1>4. ASSUME NEW k \in Occupied(t) PROVE i - k \in down
  <2>1. i - k \in 1..(t.slots - 1) /\ i + t.slots - (i - k) = k + t.slots /\ k \in Nat /\ k < t.slots
    BY <1>1, <1>3
  <2>2. (i + t.slots - (i - k)) % t.slots = k
    <3>1. (k + t.slots) % t.slots = k
      BY <1>1, <2>1
    <3> QED BY <2>1, <3>1
  <2>3. IsJob(t, k)
    BY DEF Occupied
  <2> QED BY <2>1, <2>2, <2>3 DEF Downwards
<1>5. ASSUME NEW k \in down PROVE i - k \in Occupied(t) /\ (i + t.slots - k) % t.slots = i - k
  <2>1. k \in 1..(t.slots - 1) /\ IsJob(t, (i + t.slots - k) % t.slots)
    BY DEF Downwards
  <2> DEFINE x == i + t.slots - k
  <2>2. x \in Nat /\ x < 2 * t.slots
    BY <1>1, <2>1
  <2>3. x % t.slots = IF x < t.slots THEN x ELSE x - t.slots
    BY <1>1, <2>2, Around
  <2>4. x % t.slots \in Slots(t)
    BY <1>1, <2>1, <2>2, <2>3 DEF Slots
  <2>5. x % t.slots \in Occupied(t)
    BY <2>1, <2>4 DEF Occupied
  <2>6. x % t.slots < i
    BY <2>5
  <2>7. ~(x < t.slots)
    BY <1>1, <2>1, <2>3, <2>6
  <2>8. x - t.slots = i - k
    BY <1>1, <2>1
  <2> QED BY <2>3, <2>5, <2>7, <2>8
<1>6. down # {}
  BY <1>4
<1> HIDE DEF down
<1>7. Min(down) \in down /\ \A k \in down : Min(down) <= k
  BY <1>2, <1>6, MinOf
<1>8. i - Min(down) \in Occupied(t) /\ (i + t.slots - Min(down)) % t.slots = i - Min(down)
  BY <1>5, <1>7
<1>9. ASSUME NEW k \in Occupied(t) PROVE k <= i - Min(down)
  <2>1. Min(down) <= i - k /\ Min(down) \in Nat /\ k \in Nat
    BY <1>2, <1>3, <1>4, <1>7
  <2> QED BY <1>1, <2>1
<1> QED BY <1>6, <1>8, <1>9 DEF down

\* One end of the jobs, or neither, has lost its job.
LEMMA IndicesReset ==
  ASSUME NEW t, t \in Tables, Occupied(t) # {},
         t.firstj \in Slots(t), t.lastj \in Slots(t),
         \A k \in Occupied(t) : t.firstj <= k /\ k <= t.lastj
  PROVE  /\ \E first, last \in Occupied(t) :
              /\ \A k \in Occupied(t) : first <= k /\ k <= last
              /\ reset_job_indices(t) = [t EXCEPT !.firstj = first, !.lastj = last]
<1> DEFINE f == IF IsJob(t, t.firstj) THEN t.firstj
                ELSE (t.firstj + Min(Upwards(t, t.firstj))) % t.slots
           u == IF IsJob(t, t.firstj) THEN t
                ELSE IF Upwards(t, t.firstj) = {} THEN [t EXCEPT !.firstj = 0, !.lastj = 0, !.njobs = 0]
                ELSE [t EXCEPT !.firstj = (@ + Min(Upwards(t, @))) % t.slots]
           l == IF IsJob(t, t.lastj) THEN t.lastj
                ELSE (t.lastj + t.slots - Min(Downwards(t, t.lastj))) % t.slots
<1>1. \A k \in Occupied(t) : k \in Nat
  BY OccupiedFinite DEF Occupied
<1>2. /\ f \in Occupied(t) /\ \A k \in Occupied(t) : f <= k
      /\ u = [t EXCEPT !.firstj = f]
  <2>1. CASE IsJob(t, t.firstj)
    <3>1. t = [t EXCEPT !.firstj = t.firstj]
      BY DEF Tables
    <3> QED BY <2>1, <3>1 DEF Occupied
  <2>2. CASE ~ IsJob(t, t.firstj)
    <3>1. \A k \in Occupied(t) : t.firstj < k
      <4>1. \A k \in Occupied(t) : k # t.firstj
        BY <2>2 DEF Occupied
      <4>2. t.firstj \in Nat
        BY DEF Tables
      <4> QED BY <1>1, <4>1, <4>2
    <3>2. /\ Upwards(t, t.firstj) # {}
          /\ f \in Occupied(t) /\ \A k \in Occupied(t) : f <= k
      BY <2>2, <3>1, SearchedUpwards
    <3> QED BY <2>2, <3>2
  <2> QED BY <2>1, <2>2
<1>3. /\ u.jobs = t.jobs /\ u.slots = t.slots /\ u.lastj = t.lastj
  BY <1>2 DEF Tables
<1> HIDE DEF f, u
<1>6. reset_job_indices(t) =
           IF IsJob(t, u.lastj) THEN u
           ELSE IF Downwards(t, u.lastj) = {} THEN [t EXCEPT !.firstj = 0, !.lastj = 0, !.njobs = 0]
           ELSE [u EXCEPT !.lastj = (@ + t.slots - Min(Downwards(t, @))) % t.slots]
  BY DEF reset_job_indices, u
<1>7. /\ l \in Occupied(t) /\ \A k \in Occupied(t) : k <= l
      /\ reset_job_indices(t) = [u EXCEPT !.lastj = l]
  <2>1. CASE IsJob(t, t.lastj)
    <3>1. u = [u EXCEPT !.lastj = t.lastj]
      BY <1>2, <1>3 DEF Tables
    <3> QED BY <2>1, <3>1, <1>3, <1>6 DEF Occupied
  <2>2. CASE ~ IsJob(t, t.lastj)
    <3>1. \A k \in Occupied(t) : k < t.lastj
      <4>1. \A k \in Occupied(t) : k # t.lastj
        BY <2>2 DEF Occupied
      <4>2. t.lastj \in Nat
        BY DEF Tables
      <4> QED BY <1>1, <4>1, <4>2
    <3>2. /\ Downwards(t, t.lastj) # {}
          /\ l \in Occupied(t) /\ \A k \in Occupied(t) : k <= l
      BY <2>2, <3>1, SearchedDownwards
    <3> QED BY <2>2, <3>2, <1>3, <1>6
  <2> QED BY <2>1, <2>2
<1>8. [u EXCEPT !.lastj = l] = [t EXCEPT !.firstj = f, !.lastj = l]
  BY <1>2
<1> QED BY <1>2, <1>7, <1>8

LEMMA SlotCleared ==
  ASSUME NEW t, Sound(t), NEW i \in Occupied(t)
  PROVE  LET u == Put(t, i, NoJob)
         IN  /\ u = [t EXCEPT !.jobs = u.jobs]
             /\ u.jobs \in Seq(JobT) /\ Len(u.jobs) = Len(t.jobs)
             /\ \A k \in Slots(t) : Job(u, k) = IF k = i THEN NoJob ELSE Job(t, k)
<1> DEFINE jobs == [t.jobs EXCEPT ![i + 1] = NoJob]
           u == Put(t, i, NoJob)
<1>1. i \in Slots(t) /\ i \in Nat /\ i + 1 \in 1..Len(t.jobs)
  BY SlotOf DEF Occupied
<1>2. t.jobs \in Seq(JobT) /\ NoJob \in JobT
  BY NoJobType DEF Sound, Tables
<1>3. jobs \in Seq(JobT) /\ Len(jobs) = Len(t.jobs)
      /\ \A n \in 1..Len(t.jobs) : jobs[n] = IF n = i + 1 THEN NoJob ELSE t.jobs[n]
  BY <1>1, <1>2
<1>4. u = [t EXCEPT !.jobs = jobs]
  BY DEF Put
<1> HIDE DEF jobs
<1>5. u.jobs = jobs
  BY <1>4 DEF Sound, Tables
<1> HIDE DEF u
<1>6. ASSUME NEW k \in Slots(t) PROVE Job(u, k) = IF k = i THEN NoJob ELSE Job(t, k)
  <2>1. k \in Nat /\ k + 1 \in 1..Len(t.jobs) /\ Job(t, k) = t.jobs[k + 1]
    BY SlotOf
  <2>2. Job(u, k) = jobs[k + 1] /\ (k + 1 = i + 1 <=> k = i)
    BY <1>1, <1>5, <2>1 DEF Job
  <2> QED BY <1>3, <2>1, <2>2
<1> QED BY <1>3, <1>4, <1>5, <1>6 DEF u

\* delete_job keeps the table sound, whichever job goes.
LEMMA JobDeleted ==
  ASSUME NEW t, Sound(t), NEW i \in Occupied(t), NEW save \in BOOLEAN
  PROVE  /\ Sound(delete_job(t, i, save))
         /\ delete_job(t, i, save).the_pipeline = t.the_pipeline
         /\ delete_job(t, i, save).slots = t.slots
         /\ delete_job(t, i, save).bgpids =
              IF save THEN bgp_add(t.bgpids, LastProc(t, i).pid, LastProc(t, i).status) ELSE t.bgpids
         /\ Occupied(delete_job(t, i, save)) = Occupied(t) \ {i}
         /\ \A k \in Occupied(t) \ {i} : Job(delete_job(t, i, save), k) = Job(t, k)
<1> DEFINE b == IF save THEN bgp_add(t.bgpids, LastProc(t, i).pid, LastProc(t, i).status)
                        ELSE t.bgpids
           cleared == Put(t, i, NoJob)
           gone == [cleared EXCEPT !.bgpids = b, !.njobs = @ - 1]
<1>1. b \in Seq(Saved) /\ Len(b) <= ChildMax
  <2>1. t.bgpids \in Seq(Saved) /\ Len(t.bgpids) <= ChildMax
    BY DEF Sound, Tables
  <2> QED BY <2>1, LastProcType, AddedStatus
<1>2. /\ cleared = [t EXCEPT !.jobs = cleared.jobs]
      /\ cleared.jobs \in Seq(JobT) /\ Len(cleared.jobs) = Len(t.jobs)
      /\ \A k \in Slots(t) : Job(cleared, k) = IF k = i THEN NoJob ELSE Job(t, k)
  BY SlotCleared
<1>3. delete_job(t, i, save) = IF gone.njobs = 0 THEN [gone EXCEPT !.firstj = 0, !.lastj = 0]
                                                 ELSE reset_job_indices(gone)
  BY DEF delete_job
<1>4. /\ DOMAIN t = {"jobs", "slots", "firstj", "lastj", "njobs", "the_pipeline", "bgpids"}
      /\ t.slots \in Nat /\ t.firstj \in Nat /\ t.lastj \in Nat /\ t.njobs \in Nat
      /\ t.the_pipeline \in Seq(Processes)
  BY DEF Sound, Tables
<1>5. i \in Slots(t) /\ Occupied(t) # {}
  BY DEF Occupied
<1>6. /\ Cardinality(Occupied(t) \ {i}) = t.njobs - 1 /\ t.njobs - 1 \in Nat
      /\ (t.njobs - 1 = 0 <=> Occupied(t) \ {i} = {})
  <2>1. t \in Tables /\ t.njobs = Cardinality(Occupied(t))
    BY DEF Sound, IndicesHold
  <2>2. IsFiniteSet(Occupied(t))
    BY <2>1, OccupiedFinite
  <2>3. Cardinality(Occupied(t) \ {i}) = Cardinality(Occupied(t)) - 1
    BY <2>2, FS_RemoveElement
  <2>4. IsFiniteSet(Occupied(t) \ {i})
    BY <2>2, FS_Subset
  <2> QED BY <2>1, <2>3, <2>4, FS_CardinalityType, FS_EmptySet
<1> HIDE DEF b, cleared
<1>7. /\ gone.jobs = cleared.jobs /\ gone.slots = t.slots /\ gone.firstj = t.firstj
      /\ gone.lastj = t.lastj /\ gone.njobs = t.njobs - 1 /\ gone.bgpids = b
      /\ gone.the_pipeline = t.the_pipeline
      /\ gone \in Tables
  BY <1>1, <1>2, <1>4, <1>6 DEF Sound, Tables
<1> HIDE DEF gone
<1>8. \A k \in Slots(t) : Job(gone, k) = IF k = i THEN NoJob ELSE Job(t, k)
  BY <1>2, <1>7 DEF Job
<1>9. /\ Slots(gone) = Slots(t) /\ Occupied(gone) = Occupied(t) \ {i}
      /\ \A k \in Occupied(t) \ {i} : Job(gone, k) = Job(t, k)
  BY <1>7, <1>8 DEF Slots, Occupied, IsJob
<1>10. \A k \in Occupied(gone) : Made(Job(gone, k)) /\ t.firstj <= k /\ k <= t.lastj
  <2>1. \A k \in Occupied(gone) : k \in Occupied(t) /\ k \in Slots(t) /\ k # i
    BY <1>9 DEF Occupied
  <2> QED BY <2>1, <1>8 DEF Sound, IndicesHold
\* The table it becomes has gone's jobs, and indices that hold for them.
<1>11. ASSUME NEW first \in Nat, NEW last \in Nat,
              IF Occupied(gone) = {} THEN first = 0 /\ last = 0 ELSE {first, last} \subseteq Occupied(gone),
              \A k \in Occupied(gone) : first <= k /\ k <= last
       PROVE  LET u == [gone EXCEPT !.firstj = first, !.lastj = last]
              IN  /\ Sound(u) /\ u.the_pipeline = t.the_pipeline /\ u.slots = t.slots /\ u.bgpids = b
                  /\ Occupied(u) = Occupied(gone) /\ \A k : Job(u, k) = Job(gone, k)
  <2> DEFINE u == [gone EXCEPT !.firstj = first, !.lastj = last]
  <2>1. /\ u \in Tables /\ u.jobs = gone.jobs /\ u.slots = gone.slots /\ u.firstj = first
        /\ u.lastj = last /\ u.njobs = gone.njobs /\ u.bgpids = gone.bgpids
        /\ u.the_pipeline = gone.the_pipeline
    BY <1>7 DEF Tables
  <2> HIDE DEF u
  <2>2. Occupied(u) = Occupied(gone) /\ \A k : Job(u, k) = Job(gone, k)
    BY <2>1 DEF Occupied, Slots, IsJob, Job
  <2>3. Len(u.jobs) = u.slots /\ u.njobs = Cardinality(Occupied(u))
    BY <2>1, <2>2, <1>2, <1>6, <1>7, <1>9 DEF Sound, IndicesHold
  <2>4. \A k \in Occupied(u) : Made(Job(u, k)) /\ u.firstj <= k /\ k <= u.lastj
    BY <2>1, <2>2, <1>10, <1>11
  <2>5. IF Occupied(u) = {} THEN u.firstj = 0 /\ u.lastj = 0
                            ELSE {u.firstj, u.lastj} \subseteq Occupied(u)
    BY <2>1, <2>2, <1>11
  <2>6. IndicesHold(u)
    BY <2>3, <2>4, <2>5 DEF IndicesHold
  <2> QED BY <2>1, <2>2, <2>6, <1>1, <1>7 DEF Sound, u
<1>12. CASE gone.njobs = 0
  <2>1. Occupied(gone) = {}
    BY <1>6, <1>7, <1>9, <1>12
  <2>2. delete_job(t, i, save) = [gone EXCEPT !.firstj = 0, !.lastj = 0]
    BY <1>3, <1>12 DEF gone
  <2>3. LET u == [gone EXCEPT !.firstj = 0, !.lastj = 0]
        IN  /\ Sound(u) /\ u.the_pipeline = t.the_pipeline /\ u.slots = t.slots /\ u.bgpids = b
            /\ Occupied(u) = Occupied(gone) /\ \A k : Job(u, k) = Job(gone, k)
    <3>1. /\ 0 \in Nat /\ \A k \in Occupied(gone) : 0 <= k /\ k <= 0
          /\ IF Occupied(gone) = {} THEN 0 = 0 /\ 0 = 0 ELSE {0, 0} \subseteq Occupied(gone)
      BY <2>1
    <3> HIDE DEF gone
    <3> QED BY ONLY <3>1, <1>11
  <2> QED BY <2>2, <2>3, <1>9 DEF b
<1>13. CASE gone.njobs # 0
  <2>1. Occupied(gone) # {}
    BY <1>6, <1>7, <1>9, <1>13
  <2>2. gone.firstj \in Slots(gone) /\ gone.lastj \in Slots(gone)
    <3>1. {t.firstj, t.lastj} \subseteq Occupied(t)
      BY <1>5 DEF Sound, IndicesHold
    <3> QED BY <3>1, <1>7, <1>9 DEF Occupied
  <2>3. \A k \in Occupied(gone) : gone.firstj <= k /\ k <= gone.lastj
    BY <1>7, <1>10
  <2>4. PICK first, last \in Occupied(gone) :
          /\ \A k \in Occupied(gone) : first <= k /\ k <= last
          /\ reset_job_indices(gone) = [gone EXCEPT !.firstj = first, !.lastj = last]
    BY <1>7, <2>1, <2>2, <2>3, IndicesReset
  <2>5. first \in Nat /\ last \in Nat
    BY <1>7, <2>4, OccupiedFinite DEF Occupied
  <2>6. LET u == [gone EXCEPT !.firstj = first, !.lastj = last]
        IN  /\ Sound(u) /\ u.the_pipeline = t.the_pipeline /\ u.slots = t.slots /\ u.bgpids = b
            /\ Occupied(u) = Occupied(gone) /\ \A k : Job(u, k) = Job(gone, k)
    BY <2>1, <2>4, <2>5, <1>11
  <2>7. delete_job(t, i, save) = reset_job_indices(gone)
    BY <1>3, <1>13 DEF gone
  <2> QED BY <2>4, <2>6, <2>7, <1>9 DEF b
<1> QED BY <1>12, <1>13, <1>7

LEMMA DeletedCarries ==
  ASSUME NEW t, Sound(t), NEW i \in Occupied(t), NEW save \in BOOLEAN
  PROVE  Carries(t, delete_job(t, i, save))
<1> DEFINE u == delete_job(t, i, save)
<1>1. Occupied(u) = Occupied(t) \ {i} /\ \A k \in Occupied(t) \ {i} : Job(u, k) = Job(t, k)
  BY JobDeleted
<1> HIDE DEF u
<1>2. Carries(t, u)
  BY <1>1, CarriesRest
<1> QED BY <1>2 DEF u

\* The status of a dead job is saved when the job goes.
LEMMA DeletedSaves ==
  ASSUME NEW t, Sound(t), NEW i \in Occupied(t), Dead(t, i)
  PROVE  Saves(t, delete_job(t, i, TRUE))
<1> DEFINE u == delete_job(t, i, TRUE)
           s == StatusOf(t, i)
<1>1. /\ u.the_pipeline = t.the_pipeline
      /\ u.bgpids = bgp_add(t.bgpids, LastProc(t, i).pid, LastProc(t, i).status)
      /\ Occupied(u) = Occupied(t) \ {i} /\ \A k \in Occupied(t) \ {i} : Job(u, k) = Job(t, k)
  <2>1. /\ u.the_pipeline = t.the_pipeline
        /\ u.bgpids = IF TRUE THEN bgp_add(t.bgpids, LastProc(t, i).pid, LastProc(t, i).status)
                              ELSE t.bgpids
        /\ Occupied(u) = Occupied(t) \ {i}
        /\ \A k \in Occupied(t) \ {i} : Job(u, k) = Job(t, k)
    BY JobDeleted
  <2> QED BY <2>1
<1>2. LastProc(t, i) \in Processes /\ Job(t, i).pipe \in Seq(Processes) /\ Job(t, i).pipe # <<>>
  BY LastProcType DEF Sound, IndicesHold, Made, JobT
<1>3. s \in Saved /\ s = [pid |-> LastProc(t, i).pid, status |-> LastProc(t, i).status]
      /\ s.pid = LastProc(t, i).pid
  BY <1>2 DEF Processes, Saved, StatusOf
<1>4. t.bgpids \in Seq(Saved) /\ Len(t.bgpids) <= ChildMax
  BY DEF Sound, Tables
<1>5. Has(Job(t, i).pipe, s.pid)
  <2>1. LastProc(t, i) = Job(t, i).pipe[Len(Job(t, i).pipe)] /\ Len(Job(t, i).pipe) \in DOMAIN Job(t, i).pipe
    BY <1>2 DEF LastProc, Last
  <2> QED BY <2>1, <1>3 DEF Has
<1> HIDE DEF u, s
<1>6. /\ StatusIn(u.bgpids, s) /\ \A m \in DOMAIN t.bgpids : StatusIn(u.bgpids, t.bgpids[m])
      /\ Len(t.bgpids) = ChildMax => Len(u.bgpids) = ChildMax
      /\ \A n \in DOMAIN u.bgpids : u.bgpids[n] = s \/ \E m \in DOMAIN t.bgpids : u.bgpids[n] = t.bgpids[m]
      /\ (\A n, m \in DOMAIN t.bgpids : t.bgpids[n].pid = t.bgpids[m].pid /\ t.bgpids[n].pid # 0 => n = m)
         /\ (s.pid # 0 => ~ Has(t.bgpids, s.pid))
           => \A n, m \in DOMAIN u.bgpids :
                u.bgpids[n].pid = u.bgpids[m].pid /\ u.bgpids[n].pid # 0 => n = m
  <2> DEFINE b == t.bgpids
             pid == LastProc(t, i).pid
             status == LastProc(t, i).status
             r == [pid |-> pid, status |-> status]
             c == bgp_add(b, pid, status)
  <2>1. b \in Seq(Saved) /\ Len(b) <= ChildMax /\ r \in Saved
    BY <1>3, <1>4
  <2>2. u.bgpids = c /\ s = r /\ s.pid = pid
    BY <1>1, <1>3
  <2> HIDE DEF b, pid, status
  <2>3. /\ StatusIn(c, r) /\ \A m \in DOMAIN b : StatusIn(c, b[m])
        /\ Len(b) = ChildMax => Len(c) = ChildMax
        /\ \A n \in DOMAIN c : c[n] = r \/ \E m \in DOMAIN b : c[n] = b[m]
        /\ (\A n, m \in DOMAIN b : b[n].pid = b[m].pid /\ b[n].pid # 0 => n = m)
           /\ (pid # 0 => ~ Has(b, pid))
             => \A n, m \in DOMAIN c : c[n].pid = c[m].pid /\ c[n].pid # 0 => n = m
    BY ONLY <2>1, StatusAdded
  <2> HIDE DEF r, c
  <2> QED BY <2>2, <2>3 DEF b
<1>7. ASSUME NumbersApart(t) PROVE NumbersApart(u)
  <2>1. JobsApart(u) /\ \A k \in Occupied(u) : PipesApart(Job(u, k).pipe, u.the_pipeline)
    BY <1>1, <1>7 DEF NumbersApart, JobsApart
  <2>2. s.pid # 0 => ~ Has(t.bgpids, s.pid)
    BY <1>5, <1>7 DEF NumbersApart, SavedApart, Has, Holds
  <2>3. s.pid # 0 => ~ Holds(u, s.pid) /\ ~ Building(u, s.pid)
    <3>1. ASSUME s.pid # 0, Building(u, s.pid) PROVE FALSE
      BY <3>1, <1>1, <1>5, <1>7 DEF Building, Has, NumbersApart, PipesApart
    <3>2. ASSUME s.pid # 0, NEW k \in Occupied(u), Has(Job(u, k).pipe, s.pid) PROVE FALSE
      <4>1. k \in Occupied(t) /\ k # i /\ Has(Job(t, k).pipe, s.pid)
        BY <1>1, <3>2
      <4> QED BY <4>1, <1>5, <1>7, <3>2 DEF Has, NumbersApart, JobsApart, PipesApart
    <3> QED BY <3>1, <3>2 DEF Holds
  <2>4. \A pid : (Holds(u, pid) => Holds(t, pid)) /\ (Building(u, pid) <=> Building(t, pid))
    BY <1>1 DEF Holds, Building
  <2>5. \A n \in DOMAIN u.bgpids :
          u.bgpids[n].pid # 0 => ~ Holds(u, u.bgpids[n].pid) /\ ~ Building(u, u.bgpids[n].pid)
    BY <1>6, <1>7, <2>3, <2>4 DEF NumbersApart, SavedApart
  <2>6. SavedApart(u)
    BY <1>6, <1>7, <2>2, <2>5 DEF NumbersApart, SavedApart
  <2> QED BY <2>1, <2>6 DEF NumbersApart
<1>8. \A k \in Occupied(u) : k \in Occupied(t) /\ Same(Job(t, k), Job(u, k))
  BY <1>1 DEF Same
<1>9. \A k \in Occupied(t) : \/ k \in Occupied(u) /\ Same(Job(t, k), Job(u, k))
                             \/ Dead(t, k) /\ StatusIn(u.bgpids, StatusOf(t, k))
  <2> TAKE k \in Occupied(t)
  <2>1. CASE k = i
    BY <2>1, <1>6 DEF s
  <2>2. CASE k # i
    BY <2>2, <1>1 DEF Same
  <2> QED BY <2>1, <2>2
<1>10. \A n \in DOMAIN u.bgpids : \/ \E m \in DOMAIN t.bgpids : u.bgpids[n] = t.bgpids[m]
                                  \/ \E k \in Occupied(t) : Dead(t, k) /\ u.bgpids[n] = StatusOf(t, k)
  BY <1>6 DEF s
<1> QED BY <1>6, <1>7, <1>8, <1>9, <1>10 DEF Saves, u

\* cleanup_dead_jobs, one slot after the other
CleanedAt(u, i) == IF Dead(u, i) /\ Job(u, i).notified THEN delete_job(u, i, TRUE) ELSE u
Cleans(f, t) ==
  f = [s \in SUBSET DOMAIN InOrder(t) |->
         IF s = {} THEN t ELSE CleanedAt(f[s \ {Max(s)}], InOrder(t)[Max(s)])]

LEMMA DeadIsJob ==
  ASSUME NEW t, NEW i \in Slots(t), Dead(t, i)
  PROVE  i \in Occupied(t)
BY DEF Dead, Occupied, IsJob, NoJob

LEMMA CleanedSound ==
  ASSUME NEW t, Sound(t)
  PROVE  /\ Sound(Cleaned(t)) /\ Cleaned(t).the_pipeline = t.the_pipeline
         /\ Cleaned(t).slots = t.slots
         /\ Carries(t, Cleaned(t)) /\ Saves(t, Cleaned(t))
<1> DEFINE D == DOMAIN InOrder(t)
           T == {u \in Tables : /\ Sound(u) /\ u.the_pipeline = t.the_pipeline
                                /\ u.slots = t.slots /\ Carries(t, u) /\ Saves(t, u)}
           step == [x \in D \X T |-> CleanedAt(x[2], x[1] - 1)]
           pick == [s \in (SUBSET D) \ {{}} |-> Max(s)]
<1>1. t.slots \in Nat /\ t \in Tables
  BY DEF Sound, Tables
<1>2. D = 1..t.slots /\ IsFiniteSet(D) /\ \A i \in D : InOrder(t)[i] = i - 1
  <2>1. t.slots \in Int /\ D = 1..t.slots /\ \A i \in D : InOrder(t)[i] = i - 1
    BY <1>1 DEF InOrder
  <2>2. IsFiniteSet(1..t.slots)
    BY ONLY <2>1, FS_Interval
  <2> QED BY <2>1, <2>2
<1>3. \A s \in (SUBSET D) \ {{}} : Max(s) \in s
  <2>1. \A s \in (SUBSET D) \ {{}} : s \in SUBSET (0..t.slots) /\ s # {}
    BY <1>1, <1>2
  <2> QED BY <1>1, <2>1, MaxOf
<1>4. ASSUME NEW u \in T, NEW i \in D PROVE CleanedAt(u, i - 1) \in T
  <2>1. i - 1 \in Slots(u) /\ Sound(u)
    BY <1>1, <1>2 DEF Slots
  <2>2. CASE Dead(u, i - 1) /\ Job(u, i - 1).notified
    <3>1. CleanedAt(u, i - 1) = delete_job(u, i - 1, TRUE)
      BY <2>2 DEF CleanedAt
    <3>2. /\ Sound(delete_job(u, i - 1, TRUE))
          /\ delete_job(u, i - 1, TRUE).the_pipeline = u.the_pipeline
          /\ delete_job(u, i - 1, TRUE).slots = u.slots
      BY <2>1, <2>2, DeadIsJob, JobDeleted
    <3>3. Carries(u, delete_job(u, i - 1, TRUE))
      BY <2>1, <2>2, DeadIsJob, DeletedCarries
    <3>4. Carries(t, delete_job(u, i - 1, TRUE))
      BY <3>3, CarriesOn
    <3>5. Saves(t, delete_job(u, i - 1, TRUE))
      BY <2>1, <2>2, DeadIsJob, DeletedSaves, SavesOn
    <3> QED BY <3>1, <3>2, <3>4, <3>5 DEF Sound
  <2>3. CASE ~(Dead(u, i - 1) /\ Job(u, i - 1).notified)
    BY <2>3 DEF CleanedAt
  <2> QED BY <2>2, <2>3
<1>5. t \in T
  BY <1>1, CarriesItself, SavesItself
<1>6. step \in [D \X T -> T] /\ \A i \in D, u \in T : step[i, u] = CleanedAt(u, i - 1)
  <2>1. \A x \in D \X T : x[1] \in D /\ x[2] \in T
    OBVIOUS
  <2> HIDE DEF T, D
  <2> QED BY <1>4, <2>1
<1>7. pick \in [(SUBSET D) \ {{}} -> D] /\ \A s \in (SUBSET D) \ {{}} : pick[s] \in s /\ pick[s] = Max(s)
  BY <1>3
<1> HIDE DEF T, step, pick, D
<1>8. PICK f \in [SUBSET D -> T] : Folded(f, t, step, pick, D)
  BY <1>2, <1>5, <1>6, <1>7, FoldExists
<1>9. Cleans(f, t)
  <2>1. ASSUME NEW s \in SUBSET D, s # {}
        PROVE  f[s] = CleanedAt(f[s \ {Max(s)}], InOrder(t)[Max(s)])
    <3>1. f[s] = step[Max(s), f[s \ {Max(s)}]]
      BY <1>7, <1>8, <2>1 DEF Folded
    <3>2. Max(s) \in D /\ f[s \ {Max(s)}] \in T
      BY <1>3, <1>8, <2>1
    <3> QED BY <3>1, <3>2, <1>2, <1>6
  <2>2. f[{}] = t
    BY <1>8 DEF Folded
  <2>3. f = [s \in SUBSET D |-> f[s]]
    BY <1>8
  <2> QED BY <2>1, <2>2, <2>3 DEF Cleans, D
<1> DEFINE g == CHOOSE f1 : Cleans(f1, t)
<1>10. Cleaned(t) = g[D]
  BY DEF Cleaned, FoldLeft, MapThenFoldSet, Cleans, CleanedAt, D
<1>11. Cleans(g, t)
  BY <1>9
<1> HIDE DEF g
<1>12. f[{}] = g[{}]
  BY <1>9, <1>11 DEF Cleans
<1>13. ASSUME NEW s \in (SUBSET D) \ {{}}
       PROVE  \E x \in s : f[s \ {x}] = g[s \ {x}] => f[s] = g[s]
  <2>1. Max(s) \in s
    BY <1>3
  <2>2. /\ f[s] = CleanedAt(f[s \ {Max(s)}], InOrder(t)[Max(s)])
        /\ g[s] = CleanedAt(g[s \ {Max(s)}], InOrder(t)[Max(s)])
    <3>1. s \in SUBSET DOMAIN InOrder(t) /\ s # {}
      BY DEF D
    <3> QED BY <3>1, <1>9, <1>11 DEF Cleans
  <2> QED BY <2>1, <2>2
<1>14. f[D] = g[D]
  <2>1. \A s \in (SUBSET D) \ {{}} : \E x \in s : f[s \ {x}] = g[s \ {x}] => f[s] = g[s]
    BY <1>13
  <2>3. FoldedAlike(f, g, D)
    BY <1>12, <2>1 DEF FoldedAlike
  <2>2. \A s \in SUBSET D : f[s] = g[s]
    <3>1. IsFiniteSet(D)
      BY <1>2
    <3> QED BY ONLY <2>3, <3>1, FoldUnique
  <2> QED BY <2>2
<1>15. f[D] \in T
  BY <1>8
<1> QED BY <1>10, <1>14, <1>15 DEF T

-------------------------------------------------------------------------------
(***************************************************************************)
(* What waitchld records                                                   *)
(***************************************************************************)
LEMMA EndedType ==
  ASSUME NEW pipe \in Seq(Processes), NEW k \in 0..Len(pipe), NEW status \in 0..MaxForks
  PROVE  Ended(pipe, k, status) \in Seq(Processes) /\ Len(Ended(pipe, k, status)) = Len(pipe)
<1> DEFINE e == Ended(pipe, k, status)
<1>1. CASE k = 0
  <2>1. k \notin DOMAIN pipe
    BY <1>1
  <2>2. e = pipe
    BY <2>1 DEF Ended
  <2> QED BY <2>2
<1>2. CASE k # 0
  <2> DEFINE p == [[pipe[k] EXCEPT !.status = status] EXCEPT !.running = FALSE]
  <2>1. k \in DOMAIN pipe /\ Len(pipe) \in Nat /\ pipe[k] \in Processes
    BY <1>2
  <2>2. p \in Processes
    BY <2>1 DEF Processes
  <2>3. e = [pipe EXCEPT ![k] = p]
    BY <2>1 DEF Ended
  <2> HIDE DEF p, e
  <2>4. e \in Seq(Processes) /\ Len(e) = Len(pipe)
    BY <2>1, <2>2, <2>3
  <2> QED BY <2>4 DEF e
<1> QED BY <1>1, <1>2

LEMMA JobEndedMade ==
  ASSUME NEW job, Made(job), NEW k \in 0..Len(job.pipe), NEW status \in 0..MaxForks
  PROVE  Made(JobEnded(job, k, status))
<1> DEFINE pipe == Ended(job.pipe, k, status)
           state == IF \E n \in DOMAIN pipe : pipe[n].running THEN job.state ELSE "JDEAD"
           j == [job EXCEPT !.pipe = pipe, !.notified = FALSE, !.state = state]
<1>1. job \in JobT /\ job.pipe \in Seq(Processes) /\ job.pipe # <<>> /\ job.state # "JNONE"
  BY DEF Made, JobT
<1>2. pipe \in Seq(Processes) /\ Len(pipe) = Len(job.pipe)
  BY <1>1, EndedType
<1>3. JobEnded(job, k, status) = j
  BY DEF JobEnded
<1> HIDE DEF pipe
<1>4. pipe # <<>>
  BY <1>1, <1>2
<1>5. state \in {"JRUNNING", "JDEAD"}
  BY <1>1 DEF JobT
<1> HIDE DEF state
<1>6. Made(j)
  BY <1>1, <1>2, <1>4, <1>5 DEF Made, JobT
<1> QED BY <1>3, <1>6

\* What is recorded is recorded of a process that lives, in the pipeline that is being
\* built or in a job, if there is one.
Living(pipe, pid) == {n \in DOMAIN pipe : Matches(pipe[n], pid, TRUE)}

RecordedInPipeline(t, u, pid, status) ==
  \E k \in Living(t.the_pipeline, pid) :
    /\ u.the_pipeline = Ended(t.the_pipeline, k, status) /\ u.bgpids = t.bgpids
    /\ Occupied(u) = Occupied(t) /\ \A i : Job(u, i) = Job(t, i)

RecordedNowhere(t, u, pid) ==
  /\ Living(t.the_pipeline, pid) = {}
  /\ \A i \in Occupied(t) : Living(Job(t, i).pipe, pid) = {}
  /\ u = t

RecordedInJob(t, u, pid, status) ==
  /\ Living(t.the_pipeline, pid) = {}
  /\ \E i \in Occupied(t) : \E k \in DOMAIN Job(t, i).pipe :
       /\ Job(t, i).pipe[k].pid = pid /\ Living(Job(t, i).pipe, pid) # {}
       /\ u.the_pipeline = t.the_pipeline /\ u.bgpids = t.bgpids /\ Occupied(u) = Occupied(t)
       /\ Job(u, i) = JobEnded(Job(t, i), k, status)
       /\ \A j \in Occupied(t) \ {i} : Job(u, j) = Job(t, j)

LEMMA RecordedSound ==
  ASSUME NEW t, Sound(t), NEW pid, NEW status \in 0..MaxForks
  PROVE  LET u == Recorded(t, pid, status)
         IN  /\ Sound(u) /\ Len(u.the_pipeline) = Len(t.the_pipeline)
             /\ \/ RecordedInPipeline(t, u, pid, status)
                \/ RecordedNowhere(t, u, pid)
                \/ RecordedInJob(t, u, pid, status)
<1> DEFINE building == FirstPlace({n \in 1..Len(t.the_pipeline) : Matches(t.the_pipeline[n], pid, TRUE)})
           i == find_job(t, pid, TRUE)
           k == FirstPlace(Numbered(Job(t, i).pipe, pid))
<1>1. t.the_pipeline \in Seq(Processes) /\ t \in Tables /\ Len(t.the_pipeline) \in Nat
  BY DEF Sound, Tables
<1>2. /\ building \in 0..Len(t.the_pipeline)
      /\ building # 0 => building \in Living(t.the_pipeline, pid)
      /\ building = 0 => Living(t.the_pipeline, pid) = {}
  <2> DEFINE I == {n \in 1..Len(t.the_pipeline) : Matches(t.the_pipeline[n], pid, TRUE)}
  <2>1. Living(t.the_pipeline, pid) = I /\ I \in SUBSET (1..Len(t.the_pipeline))
    <3>1. DOMAIN t.the_pipeline = 1..Len(t.the_pipeline)
      BY <1>1
    <3> QED BY <3>1 DEF Living
  <2> HIDE DEF I
  <2>2. FirstPlace(I) \in 0..Len(t.the_pipeline) /\ (I # {} => FirstPlace(I) \in I)
    BY <1>1, <2>1, PlaceOf
  <2>3. I = {} => FirstPlace(I) = 0
    BY DEF FirstPlace
  <2>4. 0 \notin I
    BY <2>1
  <2>5. building = FirstPlace(I)
    BY DEF I
  <2> HIDE DEF building
  <2> QED BY <2>1, <2>2, <2>3, <2>4, <2>5
<1>3. Recorded(t, pid, status) =
        IF building # 0 THEN [t EXCEPT !.the_pipeline = Ended(@, building, status)]
        ELSE IF i = NO_JOB THEN t
        ELSE Put(t, i, JobEnded(Job(t, i), k, status))
  BY DEF Recorded, SelectInSeq, FirstPlace, Numbered
<1> HIDE DEF building
<1>4. CASE building # 0
  <2> DEFINE p == Ended(t.the_pipeline, building, status)
  <2>1. p \in Seq(Processes) /\ Len(p) = Len(t.the_pipeline)
    BY <1>1, <1>2, EndedType
  <2>2. Recorded(t, pid, status) = [t EXCEPT !.the_pipeline = p]
    BY <1>3, <1>4
  <2> HIDE DEF p
  <2> DEFINE u == [t EXCEPT !.the_pipeline = p]
  <2>3. /\ Sound(u) /\ u.the_pipeline = p /\ u.bgpids = t.bgpids
        /\ Occupied(u) = Occupied(t) /\ \A n : Job(u, n) = Job(t, n)
    BY <2>1, PipelineChanged
  <2> HIDE DEF u
  <2>4. RecordedInPipeline(t, u, pid, status)
    BY <1>2, <1>4, <2>3 DEF RecordedInPipeline, p
  <2> QED BY <2>1, <2>2, <2>3, <2>4 DEF u
<1>5. CASE building = 0 /\ i = NO_JOB
  <2>1. Recorded(t, pid, status) = t
    BY <1>3, <1>5
  <2>2. \A n \in Slots(t) : \A m \in DOMAIN Job(t, n).pipe : ~ Matches(Job(t, n).pipe[m], pid, TRUE)
    <3>1. i = NO_JOB
      BY <1>5
    <3>2. NO_JOB \notin Occupied(t)
      BY NoSlot
    <3> QED BY <3>1, <3>2, FindJob
  <2>3. RecordedNowhere(t, t, pid)
    BY <1>2, <1>5, <2>2 DEF RecordedNowhere, Living, Occupied
  <2> QED BY <2>1, <2>3
<1>6. CASE building = 0 /\ i # NO_JOB
  <2>1. i \in Occupied(t) /\ \E n \in DOMAIN Job(t, i).pipe : Matches(Job(t, i).pipe[n], pid, TRUE)
    BY <1>6, FindJob
  <2>2. Made(Job(t, i))
    BY <2>1 DEF Sound, IndicesHold
  <2>3. Job(t, i).pipe \in Seq(Processes)
    BY <2>2 DEF Made, JobT
  <2>10. \E n \in DOMAIN Job(t, i).pipe : Job(t, i).pipe[n].pid = pid
    BY <2>1 DEF Matches
  <2>4. /\ k \in 0..Len(Job(t, i).pipe)
        /\ k \in DOMAIN Job(t, i).pipe /\ Job(t, i).pipe[k].pid = pid
    <3> DEFINE pipe == Job(t, i).pipe
    <3>1. pipe \in Seq(Processes) /\ \E n \in DOMAIN pipe : pipe[n].pid = pid
      BY <2>3, <2>10
    <3> HIDE DEF pipe
    <3>2. /\ FirstPlace(Numbered(pipe, pid)) \in 0..Len(pipe)
          /\ FirstPlace(Numbered(pipe, pid)) \in DOMAIN pipe
          /\ pipe[FirstPlace(Numbered(pipe, pid))].pid = pid
      BY <3>1, ProcessOf
    <3> QED BY <3>2 DEF pipe
  <2> HIDE DEF i, k
  <2>5. Made(JobEnded(Job(t, i), k, status))
    BY <2>2, <2>4, JobEndedMade
  <2> DEFINE u == Put(t, i, JobEnded(Job(t, i), k, status))
  <2>6. /\ Sound(u) /\ u.the_pipeline = t.the_pipeline /\ Occupied(u) = Occupied(t)
        /\ Job(u, i) = JobEnded(Job(t, i), k, status) /\ u.bgpids = t.bgpids
        /\ \A j \in Occupied(t) \ {i} : Job(u, j) = Job(t, j)
    BY <2>1, <2>5, JobChanged
  <2>7. Recorded(t, pid, status) = u
    BY <1>3, <1>6
  <2> HIDE DEF u
  <2>8. Living(Job(t, i).pipe, pid) # {}
    BY <2>1 DEF Living
  <2>9. RecordedInJob(t, u, pid, status)
    BY <1>2, <1>6, <2>1, <2>4, <2>6, <2>8 DEF RecordedInJob
  <2> QED BY <2>6, <2>7, <2>9
<1> QED BY <1>4, <1>5, <1>6

\* What a waitchld that collects several processes records
Chosen(s) == CHOOSE x \in s : TRUE
Records(f, t, pids) ==
  f = [s \in SUBSET pids |->
         IF s = {} THEN t ELSE Recorded(f[s \ {Chosen(s)}], Chosen(s), children[Chosen(s)].fork)]

LEMMA AllRecordedSound ==
  ASSUME NEW t, Sound(t), NEW pids \in SUBSET Pids, \A p \in pids : children[p].fork \in 0..MaxForks
  PROVE  LET u == AllRecorded(t, pids)
         IN  /\ Sound(u) /\ Len(u.the_pipeline) = Len(t.the_pipeline)
             /\ \E f : Records(f, t, pids) /\ u = f[pids]
<1> DEFINE T == {u \in Tables : Sound(u) /\ Len(u.the_pipeline) = Len(t.the_pipeline)}
           step == [x \in pids \X T |-> Recorded(x[2], x[1], children[x[1]].fork)]
           pick == [s \in (SUBSET pids) \ {{}} |-> Chosen(s)]
<1>1. IsFiniteSet(pids)
  BY JobsAssumption, FS_Subset
<1>2. \A s \in (SUBSET pids) \ {{}} : Chosen(s) \in s
  BY DEF Chosen
<1>3. ASSUME NEW u \in T, NEW p \in pids PROVE Recorded(u, p, children[p].fork) \in T
  <2>1. Sound(u) /\ Len(u.the_pipeline) = Len(t.the_pipeline) /\ children[p].fork \in 0..MaxForks
    OBVIOUS
  <2> DEFINE v == Recorded(u, p, children[p].fork)
  <2>2. Sound(v) /\ Len(v.the_pipeline) = Len(u.the_pipeline)
    BY <2>1, RecordedSound
  <2> HIDE DEF v
  <2>3. v \in T
    BY <2>1, <2>2 DEF Sound
  <2> QED BY <2>3 DEF v
<1>4. t \in T
  BY DEF Sound
<1>5. step \in [pids \X T -> T]
      /\ \A p \in pids, u \in T : step[p, u] = Recorded(u, p, children[p].fork)
  <2>1. \A x \in pids \X T : x[1] \in pids /\ x[2] \in T
    OBVIOUS
  <2> HIDE DEF T
  <2> QED BY <1>3, <2>1
<1>6. pick \in [(SUBSET pids) \ {{}} -> pids]
      /\ \A s \in (SUBSET pids) \ {{}} : pick[s] \in s /\ pick[s] = Chosen(s)
  BY <1>2
<1> HIDE DEF T, step, pick
<1>7. PICK f \in [SUBSET pids -> T] : Folded(f, t, step, pick, pids)
  BY <1>1, <1>4, <1>5, <1>6, FoldExists
<1>8. Records(f, t, pids)
  <2>1. ASSUME NEW s \in SUBSET pids, s # {}
        PROVE  f[s] = Recorded(f[s \ {Chosen(s)}], Chosen(s), children[Chosen(s)].fork)
    <3>1. f[s] = step[Chosen(s), f[s \ {Chosen(s)}]]
      BY <1>6, <1>7, <2>1 DEF Folded
    <3>2. Chosen(s) \in pids /\ f[s \ {Chosen(s)}] \in T
      BY <1>2, <1>7, <2>1
    <3> QED BY <3>1, <3>2, <1>5
  <2>2. f[{}] = t
    BY <1>7 DEF Folded
  <2>3. f = [s \in SUBSET pids |-> f[s]]
    BY <1>7
  <2> QED BY <2>1, <2>2, <2>3 DEF Records
<1> DEFINE g == CHOOSE f1 : Records(f1, t, pids)
<1>9. AllRecorded(t, pids) = g[pids]
  BY DEF AllRecorded, FoldSet, MapThenFoldSet, Records, Chosen
<1>10. Records(g, t, pids)
  BY <1>8
<1> HIDE DEF g
<1>11. f[{}] = g[{}]
  BY <1>8, <1>10 DEF Records
<1>12. ASSUME NEW s \in (SUBSET pids) \ {{}}
       PROVE  \E x \in s : f[s \ {x}] = g[s \ {x}] => f[s] = g[s]
  <2>1. Chosen(s) \in s
    BY <1>2
  <2>2. /\ f[s] = Recorded(f[s \ {Chosen(s)}], Chosen(s), children[Chosen(s)].fork)
        /\ g[s] = Recorded(g[s \ {Chosen(s)}], Chosen(s), children[Chosen(s)].fork)
    BY <1>8, <1>10 DEF Records
  <2> QED BY <2>1, <2>2
<1>13. f[pids] = g[pids]
  <2>1. \A s \in (SUBSET pids) \ {{}} : \E x \in s : f[s \ {x}] = g[s \ {x}] => f[s] = g[s]
    BY <1>12
  <2>2. FoldedAlike(f, g, pids)
    BY <1>11, <2>1 DEF FoldedAlike
  <2>3. \A s \in SUBSET pids : f[s] = g[s]
    BY ONLY <1>1, <2>2, FoldUnique
  <2> QED BY <2>3
<1>14. f[pids] \in T
  BY <1>7
<1> QED BY <1>9, <1>10, <1>13, <1>14 DEF T

-------------------------------------------------------------------------------
(***************************************************************************)
(* Marks, and the numbers of earlier processes                             *)
(***************************************************************************)
LEMMA MarkedSound ==
  ASSUME NEW t, Sound(t), NEW slots \in SUBSET Occupied(t)
  PROVE  /\ Sound(Marked(t, slots)) /\ Marked(t, slots).the_pipeline = t.the_pipeline
         /\ Carries(t, Marked(t, slots)) /\ Saves(t, Marked(t, slots))
<1> DEFINE jobs == [n \in DOMAIN t.jobs |-> IF n - 1 \in slots
                                            THEN [t.jobs[n] EXCEPT !.notified = TRUE]
                                            ELSE t.jobs[n]]
<1>1. t.jobs \in Seq(JobT) /\ t \in Tables /\ DOMAIN t.jobs = 1..Len(t.jobs) /\ Len(t.jobs) \in Nat
  BY DEF Sound, Tables
<1>2. ASSUME NEW n \in 1..Len(t.jobs)
      PROVE  /\ jobs[n] \in JobT
             /\ \/ jobs[n] = NoJob /\ t.jobs[n] = NoJob
                \/ Made(jobs[n]) /\ t.jobs[n] # NoJob
             /\ jobs[n].pipe = t.jobs[n].pipe /\ jobs[n].state = t.jobs[n].state
             /\ jobs[n].foreground = t.jobs[n].foreground
  <2>1. n - 1 \in Slots(t) /\ (n - 1) + 1 = n
    BY <1>1 DEF Sound, IndicesHold, Slots, Tables
  <2>2. n - 1 \in Occupied(t) <=> t.jobs[n] # NoJob
    BY <2>1, SlotOf
  <2>3. n - 1 \in Occupied(t) => Made(t.jobs[n])
    BY <2>1 DEF Sound, IndicesHold, Job
  <2>4. CASE n - 1 \in slots
    <3> DEFINE j == [t.jobs[n] EXCEPT !.notified = TRUE]
    <3>1. jobs[n] = j
      BY <1>1, <2>4
    <3>2. Made(t.jobs[n]) /\ t.jobs[n] # NoJob
      BY <2>2, <2>3, <2>4
    <3>3. /\ Made(j) /\ j.pipe = t.jobs[n].pipe /\ j.state = t.jobs[n].state
          /\ j.foreground = t.jobs[n].foreground
      BY <3>2 DEF Made, JobT
    <3> HIDE DEF j, jobs
    <3> QED BY <3>1, <3>2, <3>3 DEF Made
  <2>5. CASE n - 1 \notin slots
    <3>1. jobs[n] = t.jobs[n] /\ t.jobs[n] \in JobT
      BY <1>1, <2>5
    <3> HIDE DEF jobs
    <3> QED BY <2>2, <2>3, <3>1
  <2> QED BY <2>4, <2>5
<1>3. DOMAIN jobs = 1..Len(t.jobs)
  BY <1>1
<1>4. Marked(t, slots) = [t EXCEPT !.jobs = jobs]
  BY DEF Marked
<1>5. jobs = [n \in 1..Len(t.jobs) |-> jobs[n]]
  BY <1>1
<1> HIDE DEF jobs
<1>6. jobs \in [1..Len(t.jobs) -> JobT]
  BY <1>2, <1>5
<1>7. jobs \in Seq(JobT) /\ Len(jobs) = Len(t.jobs)
  BY <1>1, <1>3, <1>6, SequenceOf
<1> DEFINE u == [t EXCEPT !.jobs = jobs]
<1>8. /\ Sound(u) /\ u.the_pipeline = t.the_pipeline /\ u.bgpids = t.bgpids
      /\ Occupied(u) = Occupied(t) /\ \A i \in Slots(t) : Job(u, i) = jobs[i + 1]
  BY <1>2, <1>7, JobsChanged
<1> HIDE DEF u
<1>9. \A i \in Occupied(u) : /\ Job(u, i).pipe = Job(t, i).pipe
                            /\ Job(u, i).state = Job(t, i).state
                            /\ Job(u, i).foreground = Job(t, i).foreground
  <2> TAKE i \in Occupied(u)
  <2>1. i \in Slots(t)
    BY <1>8 DEF Occupied
  <2>2. i + 1 \in 1..Len(t.jobs) /\ Job(t, i) = t.jobs[i + 1] /\ Job(u, i) = jobs[i + 1]
    BY <2>1, <1>8, SlotOf
  <2> QED BY <1>2, <2>2
<1>10. Carries(t, u)
  BY <1>8, <1>9, CarriesRest
<1>11. Saves(t, u)
  BY <1>8, <1>9, SavesRest DEF Same
<1> QED BY <1>4, <1>8, <1>10, <1>11 DEF u

LEMMA NotifiedSound ==
  ASSUME NEW t, Sound(t)
  PROVE  /\ Sound(Notified(t)) /\ Notified(t).the_pipeline = t.the_pipeline
         /\ Carries(t, Notified(t)) /\ Saves(t, Notified(t))
         /\ \A i \in Slots(t) : i \in Slots(Notified(t)) /\ (Dead(t, i) => Dead(Notified(t), i))
<1> DEFINE slots == {i \in Slots(t) : Dead(t, i) /\ (Job(t, i).foreground
                                                     \/ LastProc(t, i).status \in Signalled)}
<1>1. slots \in SUBSET Occupied(t)
  BY DeadIsJob
<1>2. Notified(t) = Marked(t, slots)
  BY DEF Notified
<1> HIDE DEF slots
<1>3. /\ Sound(Marked(t, slots)) /\ Marked(t, slots).the_pipeline = t.the_pipeline
      /\ Carries(t, Marked(t, slots)) /\ Saves(t, Marked(t, slots))
  BY <1>1, MarkedSound
<1>4. ASSUME NEW i \in Slots(t)
      PROVE  i \in Slots(Marked(t, slots)) /\ (Dead(t, i) => Dead(Marked(t, slots), i))
  <2> DEFINE u == Marked(t, slots)
             n == i + 1
             job == IF i \in slots THEN [t.jobs[n] EXCEPT !.notified = TRUE] ELSE t.jobs[n]
  <2>1. t \in Tables /\ i \in Nat /\ n \in DOMAIN t.jobs /\ n - 1 = i
    BY SlotOf DEF Sound, Tables
  <2>2. u.slots = t.slots /\ u.jobs[n] = job
    BY <2>1 DEF Marked, Tables
  <2>3. Slots(u) = Slots(t) /\ Job(u, i) = job /\ Job(t, i) = t.jobs[n]
    BY <2>2 DEF Slots, Job
  <2>4. t.jobs[n] \in JobT
    BY <2>1 DEF Tables
  <2>5. job.state = t.jobs[n].state
    BY <2>4 DEF JobT
  <2> HIDE DEF u, job
  <2>6. i \in Slots(u) /\ (Dead(t, i) => Dead(u, i))
    BY <2>3, <2>5 DEF Dead
  <2> QED BY <2>6 DEF u
<1> QED BY <1>2, <1>3, <1>4

LEMMA MarkDeadSound ==
  ASSUME NEW t, Sound(t), NEW force, NEW last
  PROVE  LET u == mark_dead_jobs_as_notified(t, force, last)
         IN  Sound(u) /\ u.the_pipeline = t.the_pipeline /\ Carries(t, u) /\ Saves(t, u)
<1> DEFINE candidates == Removable(t, last)
<1>1. candidates \in SUBSET Occupied(t)
  BY DeadIsJob DEF Removable
<1>2. \E slots \in SUBSET candidates : mark_dead_jobs_as_notified(t, force, last) = Marked(t, slots)
  <2>1. mark_dead_jobs_as_notified(t, TRUE, last) = Marked(t, candidates)
    BY DEF mark_dead_jobs_as_notified
  <2> HIDE DEF candidates
  <2> QED BY DEF mark_dead_jobs_as_notified, candidates
<1> HIDE DEF candidates
<1>3. PICK slots \in SUBSET candidates : mark_dead_jobs_as_notified(t, force, last) = Marked(t, slots)
  BY <1>2
<1>4. slots \in SUBSET Occupied(t)
  BY <1>1, <1>3
<1> QED BY <1>3, <1>4, MarkedSound

LEMMA AllDeadSound ==
  ASSUME NEW t, Sound(t)
  PROVE  LET u == mark_all_jobs_as_dead(t)
         IN  /\ Sound(u) /\ u.the_pipeline = t.the_pipeline /\ u.bgpids = t.bgpids
             /\ Occupied(u) = Occupied(t)
             /\ \A i \in Occupied(t) : /\ Job(u, i).pipe = Job(t, i).pipe
                                       /\ Job(u, i).state = "JDEAD"
                                       /\ Job(u, i).foreground = Job(t, i).foreground
<1> DEFINE jobs == [n \in DOMAIN t.jobs |-> IF t.jobs[n] = NoJob THEN NoJob
                                            ELSE [t.jobs[n] EXCEPT !.state = "JDEAD"]]
<1>1. t.jobs \in Seq(JobT) /\ t \in Tables /\ DOMAIN t.jobs = 1..Len(t.jobs) /\ Len(t.jobs) \in Nat
  BY DEF Sound, Tables
<1>2. ASSUME NEW n \in 1..Len(t.jobs)
      PROVE  /\ jobs[n] \in JobT
             /\ \/ jobs[n] = NoJob /\ t.jobs[n] = NoJob
                \/ /\ Made(jobs[n]) /\ t.jobs[n] # NoJob
                   /\ jobs[n].pipe = t.jobs[n].pipe /\ jobs[n].state = "JDEAD"
                   /\ jobs[n].foreground = t.jobs[n].foreground
  <2>1. CASE t.jobs[n] = NoJob
    BY <1>1, <2>1, NoJobType
  <2>2. CASE t.jobs[n] # NoJob
    <3> DEFINE j == [t.jobs[n] EXCEPT !.state = "JDEAD"]
    <3>1. jobs[n] = j
      BY <1>1, <2>2
    <3>2. n - 1 \in Slots(t) /\ (n - 1) + 1 = n
      BY <1>1 DEF Sound, IndicesHold, Slots, Tables
    <3>3. n - 1 \in Occupied(t)
      BY <2>2, <3>2, SlotOf
    <3>4. Made(t.jobs[n])
      BY <3>2, <3>3 DEF Sound, IndicesHold, Job
    <3>5. /\ Made(j) /\ j.pipe = t.jobs[n].pipe /\ j.state = "JDEAD"
          /\ j.foreground = t.jobs[n].foreground
      BY <3>4 DEF Made, JobT
    <3> HIDE DEF j, jobs
    <3> QED BY <2>2, <3>1, <3>5 DEF Made
  <2> QED BY <2>1, <2>2
<1>3. DOMAIN jobs = 1..Len(t.jobs)
  BY <1>1
<1>4. mark_all_jobs_as_dead(t) = [t EXCEPT !.jobs = jobs]
  BY DEF mark_all_jobs_as_dead
<1>5. jobs = [n \in 1..Len(t.jobs) |-> jobs[n]]
  BY <1>1
<1> HIDE DEF jobs
<1>6. jobs \in [1..Len(t.jobs) -> JobT]
  BY <1>2, <1>5
<1>7. jobs \in Seq(JobT) /\ Len(jobs) = Len(t.jobs)
  BY <1>1, <1>3, <1>6, SequenceOf
<1> DEFINE u == [t EXCEPT !.jobs = jobs]
<1>8. /\ Sound(u) /\ u.the_pipeline = t.the_pipeline /\ u.bgpids = t.bgpids
      /\ Occupied(u) = Occupied(t) /\ \A i \in Slots(t) : Job(u, i) = jobs[i + 1]
  BY <1>2, <1>7, JobsChanged
<1> HIDE DEF u
<1>9. \A i \in Occupied(t) : /\ Job(u, i).pipe = Job(t, i).pipe /\ Job(u, i).state = "JDEAD"
                             /\ Job(u, i).foreground = Job(t, i).foreground
  <2> TAKE i \in Occupied(t)
  <2>1. i \in Slots(t) /\ Job(t, i) # NoJob
    BY DEF Occupied, IsJob
  <2>2. i + 1 \in 1..Len(t.jobs) /\ Job(t, i) = t.jobs[i + 1] /\ Job(u, i) = jobs[i + 1]
    BY <2>1, <1>8, SlotOf
  <2> QED BY <1>2, <2>1, <2>2
<1> QED BY <1>4, <1>8, <1>9 DEF u

\* No process of the number is left in the table, if there was only one.
OldHasNoJob(t, u, pid) == u = t /\ \A i \in Occupied(t) : ~ Has(Job(t, i).pipe, pid)

OldJobGone(t, u, pid) ==
  \E i \in Occupied(t) :
    /\ Has(Job(t, i).pipe, pid) /\ Dead(t, i)
    /\ Occupied(u) = Occupied(t) \ {i} /\ \A j \in Occupied(t) \ {i} : Job(u, j) = Job(t, j)

OldJobRenamed(t, u, pid) ==
  \E i \in Occupied(t) : \E k \in DOMAIN Job(t, i).pipe :
    /\ Job(t, i).pipe[k].pid = pid
    /\ Occupied(u) = Occupied(t) /\ \A j \in Occupied(t) \ {i} : Job(u, j) = Job(t, j)
    /\ Job(u, i).pipe = [Job(t, i).pipe EXCEPT ![k] = [@ EXCEPT !.pid = 0]]
    /\ Job(u, i).state = Job(t, i).state /\ Job(u, i).foreground = Job(t, i).foreground

LEMMA OldJobDeleted ==
  ASSUME NEW t, Sound(t), NEW pid \in Pids
  PROVE  LET u == delete_old_job(t, pid)
         IN  /\ Sound(u) /\ u.the_pipeline = t.the_pipeline /\ u.bgpids = t.bgpids
             /\ OldHasNoJob(t, u, pid) \/ OldJobGone(t, u, pid) \/ OldJobRenamed(t, u, pid)
<1> DEFINE i == find_job(t, pid, FALSE)
           k == FirstPlace(Numbered(Job(t, i).pipe, pid))
<1>1. delete_old_job(t, pid) =
        IF i = NO_JOB THEN t
        ELSE IF Dead(t, i) THEN delete_job(t, i, FALSE)
        ELSE [t EXCEPT !.jobs[i + 1].pipe[k].pid = 0]
  BY DEF delete_old_job, SelectInSeq, FirstPlace, Numbered
<1>2. i # NO_JOB => /\ i \in Occupied(t)
                    /\ \E n \in DOMAIN Job(t, i).pipe : Job(t, i).pipe[n].pid = pid
  <2> HIDE DEF k
  <2>1. \/ i = NO_JOB
        \/ i \in Occupied(t) /\ \E n \in DOMAIN Job(t, i).pipe : Matches(Job(t, i).pipe[n], pid, FALSE)
    BY FindJob
  <2> HIDE DEF i
  <2> QED BY <2>1 DEF Matches
<1>3. CASE i = NO_JOB
  <2>2. i \notin Occupied(t)
    BY <1>3, NoSlot
  <2>3. \A n \in Slots(t) : \A m \in DOMAIN Job(t, n).pipe : ~ Matches(Job(t, n).pipe[m], pid, FALSE)
    BY <2>2, FindJob
  <2>4. OldHasNoJob(t, t, pid)
    BY <2>3 DEF OldHasNoJob, Has, Matches, Occupied
  <2> QED BY <1>1, <1>3, <2>4
<1>4. CASE i # NO_JOB /\ Dead(t, i)
  <2>1. i \in Occupied(t) /\ FALSE \in BOOLEAN
    BY <1>2, <1>4
  <2>2. delete_old_job(t, pid) = delete_job(t, i, FALSE)
    BY <1>1, <1>4
  <2> DEFINE u == delete_job(t, i, FALSE)
  <2>3. Dead(t, i) /\ \E n \in DOMAIN Job(t, i).pipe : Job(t, i).pipe[n].pid = pid
    BY <1>2, <1>4
  <2> HIDE DEF i
  <2>4. /\ Sound(u) /\ u.the_pipeline = t.the_pipeline /\ u.bgpids = t.bgpids
        /\ Occupied(u) = Occupied(t) \ {i} /\ \A j \in Occupied(t) \ {i} : Job(u, j) = Job(t, j)
    BY <2>1, JobDeleted
  <2> HIDE DEF u
  <2>5. OldJobGone(t, u, pid)
    BY <2>1, <2>3, <2>4 DEF OldJobGone, Has
  <2> QED BY <2>2, <2>4, <2>5 DEF u
<1>5. CASE i # NO_JOB /\ ~ Dead(t, i)
  <2> DEFINE pipe == Job(t, i).pipe
             p == [pipe[k] EXCEPT !.pid = 0]
             renamed == [pipe EXCEPT ![k] = p]
             job == [Job(t, i) EXCEPT !.pipe = renamed]
  <2>1. i \in Occupied(t) /\ \E n \in DOMAIN Job(t, i).pipe : Job(t, i).pipe[n].pid = pid
    BY <1>2, <1>5
  <2> HIDE DEF i
  <2>2. Made(Job(t, i)) /\ i + 1 \in DOMAIN t.jobs /\ t.jobs[i + 1] = Job(t, i)
    <3>1. i \in Slots(t) /\ Made(Job(t, i))
      BY <2>1 DEF Occupied, Sound, IndicesHold
    <3>2. i + 1 \in 1..Len(t.jobs) /\ t.jobs \in Seq(JobT)
      BY <3>1, SlotOf DEF Sound, Tables
    <3> QED BY <3>1, <3>2 DEF Job
  <2>3. pipe \in Seq(Processes) /\ pipe # <<>> /\ Job(t, i) \in JobT /\ Job(t, i).state # "JNONE"
    BY <2>2 DEF Made, JobT
  <2>4. k \in DOMAIN pipe /\ pipe[k].pid = pid
    BY <2>1, <2>3, ProcessOf
  <2> HIDE DEF k
  <2>5. p \in Processes
    <3>1. pipe[k] \in Processes
      BY <2>3, <2>4
    <3> HIDE DEF pipe
    <3> QED BY <3>1 DEF Processes
  <2> HIDE DEF p
  <2>6. renamed \in Seq(Processes) /\ renamed # <<>>
    <3>1. DOMAIN renamed = DOMAIN pipe /\ renamed \in Seq(Processes)
      BY <2>3, <2>4, <2>5
    <3>2. k \in DOMAIN renamed
      BY <2>4, <3>1
    <3> QED BY <3>1, <3>2
  <2> HIDE DEF renamed, pipe
  <2>7. /\ Made(job) /\ job.pipe = renamed /\ job.state = Job(t, i).state
        /\ job.foreground = Job(t, i).foreground
    BY <2>3, <2>6 DEF Made, JobT
  <2>8. [t EXCEPT !.jobs[i + 1].pipe[k].pid = 0] = Put(t, i, job)
    BY <2>2, <2>3 DEF Put, p, renamed, pipe
  <2> HIDE DEF job
  <2> DEFINE u == Put(t, i, job)
  <2>9. delete_old_job(t, pid) = u
    BY <1>1, <1>5, <2>8 DEF i, k
  <2>10. /\ Sound(u) /\ u.the_pipeline = t.the_pipeline /\ u.bgpids = t.bgpids
         /\ Occupied(u) = Occupied(t)
         /\ Job(u, i) = job /\ \A j \in Occupied(t) \ {i} : Job(u, j) = Job(t, j)
    BY <2>1, <2>7, JobChanged
  <2> HIDE DEF u
  <2>11. k \in DOMAIN Job(t, i).pipe /\ Job(t, i).pipe[k].pid = pid
    BY <2>4 DEF pipe
  <2>12. renamed = [Job(t, i).pipe EXCEPT ![k] = [@ EXCEPT !.pid = 0]]
    BY DEF renamed, p, pipe
  <2>13. OldJobRenamed(t, u, pid)
    BY <2>1, <2>7, <2>10, <2>11, <2>12 DEF OldJobRenamed
  <2> QED BY <2>9, <2>10, <2>13
<1> QED BY <1>3, <1>4, <1>5

LEMMA ProcessAdded ==
  ASSUME NEW t, Sound(t), NEW pid \in Pids, NEW fork \in 1..MaxForks
  PROVE  LET u == AddedProcess(t, pid, fork)
         IN  Sound(u) /\ Len(u.the_pipeline) = Len(t.the_pipeline) + 1
<1> DEFINE process == [pid |-> pid, fork |-> fork, status |-> 0, running |-> TRUE]
           p == Append(t.the_pipeline, process)
           added == [t EXCEPT !.the_pipeline = p]
<1>1. process \in Processes
  BY JobsAssumption DEF Processes
<1>2. t.the_pipeline \in Seq(Processes) /\ t \in Tables
  BY DEF Sound, Tables
<1>3. p \in Seq(Processes) /\ Len(p) = Len(t.the_pipeline) + 1
  BY <1>1, <1>2
<1>4. AddedProcess(t, pid, fork) = bgp_delete(delete_old_job(added, pid), pid)
  BY DEF AddedProcess
<1> HIDE DEF p
<1>5. Sound(added) /\ added.the_pipeline = p
  BY <1>2, <1>3, PipelineChanged DEF Tables
<1> HIDE DEF added
<1>6. Sound(delete_old_job(added, pid)) /\ delete_old_job(added, pid).the_pipeline = p
  BY <1>5, OldJobDeleted
<1>7. /\ Sound(bgp_delete(delete_old_job(added, pid), pid))
      /\ bgp_delete(delete_old_job(added, pid), pid).the_pipeline = p
  BY <1>6, DeletedStatus
<1> QED BY <1>3, <1>4, <1>7

-------------------------------------------------------------------------------
(***************************************************************************)
(* Compaction, growth and a new job                                        *)
(***************************************************************************)
LEMMA CellsType ==
  ASSUME NEW n \in Nat
  PROVE  Cells(n) \in Seq(JobT) /\ Len(Cells(n)) = n /\ \A k \in 1..n : Cells(n)[k] = NoJob
<1>1. Cells(n) \in [1..n -> JobT]
  BY NoJobType DEF Cells
<1> QED BY <1>1, SequenceOf DEF Cells

LEMMA WithCells ==
  ASSUME NEW jobs \in Seq(JobT), NEW n \in Nat
  PROVE  LET longer == jobs \o Cells(n)
         IN  /\ longer \in Seq(JobT) /\ Len(longer) = Len(jobs) + n
             /\ \A m \in 1..(Len(jobs) + n) :
                  longer[m] = IF m <= Len(jobs) THEN jobs[m] ELSE NoJob
<1> DEFINE cells == Cells(n)
           longer == jobs \o cells
<1>1. cells \in Seq(JobT) /\ Len(cells) = n /\ \A k \in 1..n : cells[k] = NoJob
  BY CellsType
<1> HIDE DEF cells
<1>2. /\ longer \in Seq(JobT) /\ Len(longer) = Len(jobs) + Len(cells)
      /\ \A m \in 1..(Len(jobs) + Len(cells)) :
           longer[m] = IF m <= Len(jobs) THEN jobs[m] ELSE cells[m - Len(jobs)]
  BY <1>1, ConcatProperties
<1>3. Len(jobs) \in Nat
  OBVIOUS
<1> HIDE DEF longer
<1>4. ASSUME NEW m \in 1..(Len(jobs) + n)
      PROVE  longer[m] = IF m <= Len(jobs) THEN jobs[m] ELSE NoJob
  <2>1. m <= Len(jobs) \/ m - Len(jobs) \in 1..n
    BY <1>3
  <2> QED BY <1>1, <1>2, <2>1
<1> QED BY <1>1, <1>2, <1>4 DEF longer, cells

\* The jobs that realloc_jobs_list copies, one after the other
Kept(list, job) == IF job = NoJob THEN list ELSE Append(list, job)
Keeps(f, jobs) ==
  f = [s \in SUBSET DOMAIN jobs |->
         IF s = {} THEN <<>> ELSE Kept(f[s \ {Max(s)}], jobs[Max(s)])]

\* Within, for a list that may have free places
AllWithin(list, G, P) ==
  /\ \A n \in DOMAIN list : list[n] # NoJob => <<list[n].pipe, list[n].state>> \in G
  /\ \A n, m \in DOMAIN list : list[n] # NoJob /\ list[m] # NoJob /\ n # m
                                => <<list[n].pipe, list[m].pipe>> \in P

\* They are jobs, as many as there are, and no job is copied twice.
LEMMA KeptJobs ==
  ASSUME NEW jobs \in Seq(JobT), \A n \in DOMAIN jobs : jobs[n] = NoJob \/ Made(jobs[n])
  PROVE  LET kept == FoldLeft(LAMBDA list, job : IF job = NoJob THEN list ELSE Append(list, job),
                              <<>>, jobs)
         IN  /\ kept \in Seq(JobT)
             /\ \A n \in DOMAIN kept : Made(kept[n]) /\ \E m \in DOMAIN jobs : kept[n] = jobs[m]
             /\ Len(kept) = Cardinality({n \in DOMAIN jobs : jobs[n] # NoJob})
             /\ \A G, P : AllWithin(jobs, G, P) => AllWithin(kept, G, P)
             /\ \A n \in DOMAIN jobs : jobs[n] # NoJob => \E k \in DOMAIN kept : kept[k] = jobs[n]
<1> DEFINE D == DOMAIN jobs
           T == {list \in Seq(JobT) :
                   \A n \in DOMAIN list : Made(list[n]) /\ \E m \in D : list[n] = jobs[m]}
           step == [x \in D \X T |-> Kept(x[2], jobs[x[1]])]
           pick == [s \in (SUBSET D) \ {{}} |-> Max(s)]
           Count(s) == Cardinality({n \in s : jobs[n] # NoJob})
<1>1. Len(jobs) \in Nat /\ D = 1..Len(jobs)
  OBVIOUS
<1>2. IsFiniteSet(D)
  BY <1>1, FS_Interval
<1>3. ASSUME NEW s \in (SUBSET D) \ {{}} PROVE Max(s) \in s
  <2>1. s \in SUBSET (0..Len(jobs)) /\ s # {}
    BY <1>1
  <2> QED BY <1>1, <2>1, MaxOf
<1>4. ASSUME NEW list \in T, NEW n \in D PROVE Kept(list, jobs[n]) \in T
  <2>1. list \in Seq(JobT) /\ \A k \in DOMAIN list : Made(list[k]) /\ \E m \in D : list[k] = jobs[m]
    OBVIOUS
  <2>2. CASE jobs[n] = NoJob
    BY <2>1, <2>2 DEF Kept
  <2>3. CASE jobs[n] # NoJob
    <3> DEFINE longer == Append(list, jobs[n])
    <3>1. Made(jobs[n]) /\ jobs[n] \in JobT
      BY <2>3
    <3>2. longer \in Seq(JobT) /\ DOMAIN longer = 1..(Len(list) + 1) /\ Len(list) \in Nat
          /\ DOMAIN list = 1..Len(list)
      BY <2>1, <3>1
    <3>3. \A k \in 1..(Len(list) + 1) : longer[k] = IF k = Len(list) + 1 THEN jobs[n] ELSE list[k]
      BY <2>1, <3>1
    <3> HIDE DEF longer
    <3>4. \A k \in DOMAIN longer : Made(longer[k]) /\ \E m \in D : longer[k] = jobs[m]
      BY <2>1, <3>1, <3>2, <3>3
    <3>5. Kept(list, jobs[n]) = longer
      BY <2>3 DEF Kept, longer
    <3> QED BY <3>2, <3>4, <3>5
  <2> QED BY <2>2, <2>3
<1>5. <<>> \in T
  OBVIOUS
<1>6. step \in [D \X T -> T] /\ \A n \in D, list \in T : step[n, list] = Kept(list, jobs[n])
  <2>1. \A x \in D \X T : x[1] \in D /\ x[2] \in T
    OBVIOUS
  <2> HIDE DEF T, D
  <2> QED BY <1>4, <2>1
<1>7. pick \in [(SUBSET D) \ {{}} -> D]
      /\ \A s \in (SUBSET D) \ {{}} : pick[s] \in s /\ pick[s] = Max(s)
  <2> HIDE DEF D
  <2> QED BY <1>3
<1>8. \A s \in SUBSET D : {n \in s : jobs[n] # NoJob} \in SUBSET D
  OBVIOUS
<1> HIDE DEF step, pick
<1>9. PICK f \in [SUBSET D -> T] : Folded(f, <<>>, step, pick, D)
  <2> HIDE DEF D, T
  <2> QED BY <1>2, <1>5, <1>6, <1>7, FoldExists
<1> HIDE DEF T
<1>10. ASSUME NEW s \in SUBSET D, s # {} PROVE f[s] = Kept(f[s \ {Max(s)}], jobs[Max(s)])
  <2> HIDE DEF D
  <2>1. f[s] = step[Max(s), f[s \ {Max(s)}]]
    BY <1>7, <1>9, <1>10 DEF Folded
  <2>2. Max(s) \in D /\ f[s \ {Max(s)}] \in T
    BY <1>3, <1>9, <1>10
  <2> QED BY <2>1, <2>2, <1>6
<1>11. f[{}] = <<>>
  BY <1>9 DEF Folded
<1>12. Keeps(f, jobs)
  <2>1. f = [s \in SUBSET D |-> f[s]]
    BY <1>9
  <2> QED BY <2>1, <1>10, <1>11 DEF Keeps
<1> DEFINE g == CHOOSE f1 : Keeps(f1, jobs)
<1>13. FoldLeft(LAMBDA list, job : IF job = NoJob THEN list ELSE Append(list, job), <<>>, jobs) = g[D]
  BY DEF FoldLeft, MapThenFoldSet, Keeps, Kept
<1>14. Keeps(g, jobs)
  BY <1>12
<1> HIDE DEF g
<1>15. f[D] = g[D]
  <2>1. f[{}] = g[{}]
    BY <1>12, <1>14 DEF Keeps
  <2>2. ASSUME NEW s \in (SUBSET D) \ {{}}
        PROVE  \E x \in s : f[s \ {x}] = g[s \ {x}] => f[s] = g[s]
    <3>1. Max(s) \in s
      BY <1>3
    <3>2. /\ f[s] = Kept(f[s \ {Max(s)}], jobs[Max(s)])
          /\ g[s] = Kept(g[s \ {Max(s)}], jobs[Max(s)])
      BY <1>12, <1>14 DEF Keeps
    <3> QED BY <3>1, <3>2
  <2>3. FoldedAlike(f, g, D)
    BY <2>1, <2>2 DEF FoldedAlike
  <2> HIDE DEF D
  <2>4. \A s \in SUBSET D : f[s] = g[s]
    BY ONLY <1>2, <2>3, FoldUnique
  <2> QED BY <2>4
\* And as many as there are jobs in the slots that were gone through
<1>16. \A s \in SUBSET D : Len(f[s]) = Count(s)
  <2> DEFINE h == [s \in SUBSET D |-> Len(f[s])]
             c == [s \in SUBSET D |-> Count(s)]
  <2>1. h[{}] = c[{}]
    <3>1. {n \in {} : jobs[n] # NoJob} = {}
      OBVIOUS
    <3> QED BY <3>1, <1>11, FS_EmptySet
  <2>2. ASSUME NEW s \in (SUBSET D) \ {{}}
        PROVE  \E x \in s : h[s \ {x}] = c[s \ {x}] => h[s] = c[s]
    <3> DEFINE m == Max(s)
               all == {n \in s : jobs[n] # NoJob}
               rest == {n \in s \ {m} : jobs[n] # NoJob}
    <3>1. m \in s /\ m \in D /\ s \ {m} \in SUBSET D
      BY <1>3
    <3>2. f[s] = Kept(f[s \ {m}], jobs[m]) /\ f[s \ {m}] \in Seq(JobT)
      BY <1>9, <1>10, <3>1 DEF T
    <3> HIDE DEF m
    <3>3. IsFiniteSet(all) /\ IsFiniteSet(rest) /\ Cardinality(rest) \in Nat
      BY <1>2, FS_Subset, FS_CardinalityType
    <3>4. CASE jobs[m] = NoJob
      <4>1. all = rest
        BY <3>4
      <4>2. f[s] = f[s \ {m}]
        BY <3>2, <3>4 DEF Kept
      <4> QED BY <3>1, <4>1, <4>2
    <3>5. CASE jobs[m] # NoJob
      <4>1. all = rest \union {m} /\ m \notin rest
        BY <3>1, <3>5
      <4>2. Cardinality(all) = Cardinality(rest) + 1
        BY <3>3, <4>1, FS_AddElement
      <4>3. f[s] = Append(f[s \ {m}], jobs[m])
        BY <3>2, <3>5 DEF Kept
      <4>4. Len(f[s]) = Len(f[s \ {m}]) + 1
        BY <3>2, <4>3
      <4>5. h[s] = Len(f[s]) /\ h[s \ {m}] = Len(f[s \ {m}])
            /\ c[s] = Cardinality(all) /\ c[s \ {m}] = Cardinality(rest)
        BY <3>1
      <4> HIDE DEF h, c, all, rest
      <4> QED BY <3>1, <4>2, <4>4, <4>5
    <3> QED BY <3>4, <3>5
  <2>3. FoldedAlike(h, c, D)
    BY <2>1, <2>2 DEF FoldedAlike
  <2>4. \A s \in SUBSET D : h[s] = c[s]
    <3> HIDE DEF D, h, c
    <3> QED BY ONLY <1>2, <2>3, FoldUnique
  <2> QED BY <2>4
<1>17. f[D] \in T /\ Len(f[D]) = Count(D)
  BY <1>9, <1>16
\* What is copied is in G, and in P with what is still to be copied.
<1>18. ASSUME NEW G, NEW P, AllWithin(jobs, G, P) PROVE AllWithin(f[D], G, P)
  <2> DEFINE Apart(list, n) == \A k \in DOMAIN list : /\ <<list[k].pipe, jobs[n].pipe>> \in P
                                                      /\ <<jobs[n].pipe, list[k].pipe>> \in P
             Good(list, s) == /\ AllWithin(list, G, P)
                              /\ \A n \in D \ s : jobs[n] # NoJob => Apart(list, n)
             Q == {s \in SUBSET D : Good(f[s], s)}
  <2>1. ASSUME NEW s \in (SUBSET D) \ {{}}, Good(f[s \ {Max(s)}], s \ {Max(s)})
        PROVE  Good(f[s], s)
    <3> DEFINE m == Max(s)
               list == f[s \ {m}]
    <3>1. m \in s /\ m \in D /\ s \ {m} \in SUBSET D /\ m \notin s \ {m}
      BY <1>3
    <3>2. f[s] = Kept(list, jobs[m]) /\ list \in Seq(JobT) /\ \A k \in DOMAIN list : Made(list[k])
      BY <1>9, <1>10, <3>1 DEF T
    <3>3. AllWithin(list, G, P) /\ \A n \in D \ (s \ {m}) : jobs[n] # NoJob => Apart(list, n)
      BY <2>1
    <3> HIDE DEF m, list
    <3>4. CASE jobs[m] = NoJob
      BY <3>1, <3>2, <3>3, <3>4 DEF Kept
    <3>5. CASE jobs[m] # NoJob
      <4> DEFINE longer == Append(list, jobs[m])
      <4>1. f[s] = longer
        BY <3>2, <3>5 DEF Kept
      <4>2. DOMAIN longer = 1..(Len(list) + 1) /\ DOMAIN list = 1..Len(list) /\ Len(list) \in Nat
            /\ \A k \in 1..(Len(list) + 1) : longer[k] = IF k = Len(list) + 1 THEN jobs[m] ELSE list[k]
        BY <3>2
      <4> HIDE DEF longer
      <4>3. ASSUME NEW k \in DOMAIN longer
            PROVE  \/ k \in DOMAIN list /\ longer[k] = list[k]
                   \/ k = Len(list) + 1 /\ longer[k] = jobs[m]
        <5> DEFINE n == Len(list)
        <5>1. k \in 1..(n + 1) /\ n \in Nat
          BY <4>2
        <5> HIDE DEF n
        <5>2. k = n + 1 \/ (k \in 1..n /\ k # n + 1)
          BY <5>1
        <5> QED BY <4>2, <5>1, <5>2 DEF n
      <4>4. \A k \in DOMAIN list : list[k] # NoJob /\ <<list[k].pipe, list[k].state>> \in G
        BY <3>2, <3>3, NoJobType DEF AllWithin
      <4>5. Apart(list, m) /\ <<jobs[m].pipe, jobs[m].state>> \in G
        BY <3>1, <3>3, <3>5, <1>18 DEF AllWithin
      <4>6. \A k \in DOMAIN longer : <<longer[k].pipe, longer[k].state>> \in G
        BY <4>3, <4>4, <4>5
      <4>7. ASSUME NEW k \in DOMAIN longer, NEW l \in DOMAIN longer, k # l
            PROVE  <<longer[k].pipe, longer[l].pipe>> \in P
        <5>1. CASE k \in DOMAIN list /\ l \in DOMAIN list
          <6>1. longer[k] = list[k] /\ longer[l] = list[l]
            BY <4>2, <5>1
          <6> QED BY <3>3, <4>4, <4>7, <5>1, <6>1 DEF AllWithin
        <5>2. CASE k \in DOMAIN list /\ l = Len(list) + 1
          <6>1. longer[k] = list[k] /\ longer[l] = jobs[m]
            BY <4>2, <5>2
          <6> QED BY <4>5, <5>2, <6>1
        <5>3. CASE k = Len(list) + 1 /\ l \in DOMAIN list
          <6>1. longer[k] = jobs[m] /\ longer[l] = list[l]
            BY <4>2, <5>3
          <6> QED BY <4>5, <5>3, <6>1
        <5> QED BY <4>3, <4>7, <5>1, <5>2, <5>3
      <4>8. AllWithin(longer, G, P)
        BY <4>6, <4>7 DEF AllWithin
      <4>9. ASSUME NEW n \in D \ s, jobs[n] # NoJob PROVE Apart(longer, n)
        <5>1. n \in D \ (s \ {m}) /\ n # m /\ Apart(list, n)
          BY <3>1, <3>3, <4>9
        <5>2. <<jobs[m].pipe, jobs[n].pipe>> \in P /\ <<jobs[n].pipe, jobs[m].pipe>> \in P
          BY <3>1, <3>5, <4>9, <5>1, <1>18 DEF AllWithin
        <5> QED BY <4>3, <5>1, <5>2
      <4> HIDE DEF Apart
      <4> QED BY <4>1, <4>8, <4>9
    <3> QED BY <3>4, <3>5
  <2>2. Q \in SUBSET SUBSET D /\ {} \in Q
    <3>1. f[{}] = <<>>
      BY <1>11
    <3> QED BY <3>1 DEF AllWithin
  <2>3. \A s \in (SUBSET D) \ {{}} : \E x \in s : s \ {x} \in Q => s \in Q
    <3> TAKE s \in (SUBSET D) \ {{}}
    <3>1. Max(s) \in s /\ s \ {Max(s)} \in SUBSET D
      BY <1>3
    <3> HIDE DEF Good, D
    <3> QED BY <2>1, <3>1
  <2>4. D \in Q
    <3> HIDE DEF Q, D
    <3> QED BY ONLY <1>2, <2>2, <2>3, SubsetsClosed
  <2> QED BY <2>4
<1>19. /\ f[D] \in Seq(JobT)
       /\ \A n \in DOMAIN f[D] : Made(f[D][n]) /\ \E m \in DOMAIN jobs : f[D][n] = jobs[m]
  BY <1>17 DEF T
<1>20. \A G, P : AllWithin(jobs, G, P) => AllWithin(f[D], G, P)
  BY <1>18
<1>21. Count(D) = Cardinality({n \in DOMAIN jobs : jobs[n] # NoJob})
  OBVIOUS
\* Nothing is left out.
<1>22. \A n \in D : jobs[n] # NoJob => \E k \in DOMAIN f[D] : f[D][k] = jobs[n]
  <2> DEFINE Copied(s) == \A n \in s : jobs[n] # NoJob => \E k \in DOMAIN f[s] : f[s][k] = jobs[n]
             Q == {s \in SUBSET D : Copied(s)}
  <2>1. ASSUME NEW s \in (SUBSET D) \ {{}}, Copied(s \ {Max(s)})
        PROVE  Copied(s)
    <3> DEFINE m == Max(s)
               list == f[s \ {m}]
    <3>1. m \in s /\ m \in D /\ s \ {m} \in SUBSET D
      BY <1>3
    <3>2. f[s] = Kept(list, jobs[m]) /\ list \in Seq(JobT)
      BY <1>9, <1>10, <3>1 DEF T
    <3>3. \A n \in s \ {m} : jobs[n] # NoJob => \E k \in DOMAIN list : list[k] = jobs[n]
      BY <2>1
    <3> HIDE DEF m, list
    <3>4. CASE jobs[m] = NoJob
      BY <3>1, <3>2, <3>3, <3>4 DEF Kept
    <3>5. CASE jobs[m] # NoJob
      <4> DEFINE longer == Append(list, jobs[m])
      <4>1. f[s] = longer
        BY <3>2, <3>5 DEF Kept
      <4>2. /\ \A k \in DOMAIN list : k \in DOMAIN longer /\ longer[k] = list[k]
            /\ \E k \in DOMAIN longer : longer[k] = jobs[m]
        <5>1. DOMAIN list = 1..Len(list) /\ Len(list) \in Nat /\ DOMAIN longer = 1..(Len(list) + 1)
              /\ \A k \in 1..(Len(list) + 1) :
                   longer[k] = IF k = Len(list) + 1 THEN jobs[m] ELSE list[k]
          BY <3>2
        <5> DEFINE len == Len(list)
        <5> HIDE DEF longer, len
        <5>2. len + 1 \in DOMAIN longer /\ longer[len + 1] = jobs[m]
          BY <5>1 DEF len
        <5>3. \A k \in DOMAIN list : k \in DOMAIN longer /\ longer[k] = list[k]
          BY <5>1 DEF len
        <5> QED BY <5>2, <5>3
      <4> HIDE DEF longer
      <4> QED BY <3>1, <3>3, <4>1, <4>2
    <3> QED BY <3>4, <3>5
  <2>2. Q \in SUBSET SUBSET D /\ {} \in Q
    OBVIOUS
  <2>3. \A s \in (SUBSET D) \ {{}} : \E x \in s : s \ {x} \in Q => s \in Q
    <3> TAKE s \in (SUBSET D) \ {{}}
    <3>1. Max(s) \in s /\ s \ {Max(s)} \in SUBSET D
      BY <1>3
    <3> HIDE DEF Copied, D
    <3> QED BY <2>1, <3>1
  <2>4. D \in Q
    <3> HIDE DEF Q, D
    <3> QED BY ONLY <1>2, <2>2, <2>3, SubsetsClosed
  <2> QED BY <2>4
<1>23. \A n \in DOMAIN jobs : jobs[n] # NoJob => \E k \in DOMAIN f[D] : f[D][k] = jobs[n]
  BY <1>22
<1>24. Len(f[D]) = Cardinality({n \in DOMAIN jobs : jobs[n] # NoJob})
  BY <1>17, <1>21
<1> DEFINE list == f[D]
<1>25. FoldLeft(LAMBDA list2, job : IF job = NoJob THEN list2 ELSE Append(list2, job), <<>>, jobs)
       = list
  BY <1>13, <1>15
<1> HIDE DEF D, list
<1>26. /\ list \in Seq(JobT)
       /\ \A n \in DOMAIN list : Made(list[n]) /\ \E m \in DOMAIN jobs : list[n] = jobs[m]
       /\ Len(list) = Cardinality({n \in DOMAIN jobs : jobs[n] # NoJob})
       /\ \A G, P : AllWithin(jobs, G, P) => AllWithin(list, G, P)
       /\ \A n \in DOMAIN jobs : jobs[n] # NoJob => \E k \in DOMAIN list : list[k] = jobs[n]
  BY <1>19, <1>20, <1>23, <1>24 DEF list
<1> QED BY <1>25, <1>26

\* The slots are numbered from 0, the sequence from 1.
LEMMA JobsCounted ==
  ASSUME NEW t, Sound(t)
  PROVE  Cardinality({n \in DOMAIN t.jobs : t.jobs[n] # NoJob}) = t.njobs
<1> DEFINE places == {n \in DOMAIN t.jobs : t.jobs[n] # NoJob}
           f == [i \in Occupied(t) |-> i + 1]
<1>1. t.slots \in Nat /\ t.njobs = Cardinality(Occupied(t)) /\ DOMAIN t.jobs = 1..t.slots
      /\ IsFiniteSet(Occupied(t))
  <2>1. t.jobs \in Seq(JobT) /\ Len(t.jobs) = t.slots
    BY DEF Sound, Tables, IndicesHold
  <2> QED BY <2>1, OccupiedFinite DEF Sound, Tables, IndicesHold
<1>2. \A i \in Occupied(t) : i \in Nat /\ i + 1 \in places
  BY <1>1, SlotOf DEF Occupied
<1>3. \A n \in places : n - 1 \in Occupied(t) /\ (n - 1) + 1 = n
  <2> TAKE n \in places
  <2>1. n \in 1..t.slots
    BY <1>1
  <2>2. n - 1 \in Slots(t) /\ (n - 1) + 1 = n
    BY <1>1, <2>1 DEF Slots
  <2>3. t.jobs[n] # NoJob
    OBVIOUS
  <2> HIDE DEF places
  <2> QED BY <2>2, <2>3 DEF Occupied, IsJob, Job
<1> HIDE DEF places
<1>4. f \in Bijection(Occupied(t), places)
  <2>1. f \in [Occupied(t) -> places]
    BY <1>2
  <2>2. \A i, k \in Occupied(t) : f[i] = f[k] => i = k
    BY <1>2
  <2>3. \A n \in places : \E i \in Occupied(t) : f[i] = n
    <3> TAKE n \in places
    <3>1. n - 1 \in Occupied(t) /\ f[n - 1] = n
      BY <1>3
    <3> QED BY <3>1
  <2> HIDE DEF f
  <2> QED BY <2>1, <2>2, <2>3 DEF Bijection, Injection, Surjection, IsInjective
<1> HIDE DEF f
<1>5. ExistsBijection(Occupied(t), places)
  BY <1>4 DEF ExistsBijection
<1>6. Cardinality(places) = Cardinality(Occupied(t))
  BY ONLY <1>1, <1>5, FS_Bijection
<1> QED BY <1>1, <1>6 DEF places

\* What is allocated has room for the jobs, and is not empty.
Allocated(njobs) ==
  ((njobs + JobSlots - 1) \div JobSlots) * JobSlots
  + IF njobs % JobSlots = 0 \/ njobs % JobSlots > JobSlots \div 2 THEN JobSlots ELSE 0

LEMMA RoomAllocated ==
  ASSUME NEW njobs \in Nat
  PROVE  Allocated(njobs) \in Nat /\ Allocated(njobs) >= njobs /\ Allocated(njobs) > 0
<1> DEFINE m == njobs + JobSlots - 1
           q == m \div JobSlots
<1>1. JobSlots \in Nat /\ JobSlots > 0
  BY JobTableAssumption
<1>2. m \in Nat /\ m - JobSlots = njobs - 1
  BY <1>1
<1> HIDE DEF m
<1>3. q \in Nat /\ q * JobSlots \in Nat /\ q * JobSlots > m - JobSlots
  BY <1>1, <1>2
<1> HIDE DEF q
<1>4. q * JobSlots >= njobs /\ q * JobSlots \in Nat
  BY <1>2, <1>3
<1>5. CASE njobs = 0
  <2>1. njobs % JobSlots = 0
    BY <1>1, <1>5
  <2>2. Allocated(njobs) = q * JobSlots + JobSlots
    BY <2>1 DEF Allocated, q, m
  <2> QED BY <1>1, <1>4, <1>5, <2>2
<1>6. CASE njobs > 0
  <2>1. Allocated(njobs) \in {q * JobSlots, q * JobSlots + JobSlots}
    BY <1>1 DEF Allocated, q, m
  <2> QED BY <1>1, <1>4, <1>6, <2>1
<1> QED BY <1>5, <1>6

LEMMA ListedWithin ==
  ASSUME NEW t, Sound(t), NEW G, NEW P, Within(t, G, P)
  PROVE  AllWithin(t.jobs, G, P)
<1>1. ASSUME NEW n \in DOMAIN t.jobs, t.jobs[n] # NoJob
      PROVE  n - 1 \in Occupied(t) /\ Job(t, n - 1) = t.jobs[n] /\ n \in Nat
  <2>1. n \in 1..t.slots /\ t.slots \in Nat
    BY DEF Sound, Tables, IndicesHold
  <2>2. n - 1 \in Slots(t) /\ (n - 1) + 1 = n
    BY <2>1 DEF Slots
  <2> QED BY <1>1, <2>1, <2>2 DEF Occupied, IsJob, Job
<1>2. ASSUME NEW n \in DOMAIN t.jobs, NEW m \in DOMAIN t.jobs,
             t.jobs[n] # NoJob, t.jobs[m] # NoJob, n # m
      PROVE  <<t.jobs[n].pipe, t.jobs[m].pipe>> \in P
  <2>1. n - 1 # m - 1
    BY <1>1, <1>2
  <2> QED BY <1>1, <1>2, <2>1 DEF Within
<1>3. \A n \in DOMAIN t.jobs : t.jobs[n] # NoJob => <<t.jobs[n].pipe, t.jobs[n].state>> \in G
  BY <1>1 DEF Within
<1> QED BY <1>2, <1>3 DEF AllWithin

LEMMA Reallocated ==
  ASSUME NEW t, Sound(t)
  PROVE  LET u == realloc_jobs_list(t)
         IN  Sound(u) /\ u.the_pipeline = t.the_pipeline /\ u.slots > 0 /\ Carries(t, u)
             /\ Saves(t, u)
<1> DEFINE kept == FoldLeft(LAMBDA list, job : IF job = NoJob THEN list ELSE Append(list, job),
                            <<>>, t.jobs)
           n == Len(kept)
           size == Allocated(t.njobs)
           jobs == kept \o Cells(size - n)
           lastj == IF kept = <<>> THEN 0 ELSE n - 1
           u == [t EXCEPT !.jobs = jobs, !.slots = size, !.firstj = 0, !.lastj = lastj,
                          !.njobs = n]
<1>1. t \in Tables /\ t.jobs \in Seq(JobT) /\ t.njobs \in Nat /\ Len(t.bgpids) <= ChildMax
  BY DEF Sound, Tables
<1>2. \A m \in DOMAIN t.jobs : t.jobs[m] = NoJob \/ Made(t.jobs[m])
  <2> TAKE m \in DOMAIN t.jobs
  <2>1. Len(t.jobs) = t.slots /\ m \in 1..Len(t.jobs) /\ Len(t.jobs) \in Nat
    BY <1>1 DEF Sound, IndicesHold
  <2>2. m - 1 \in Slots(t) /\ (m - 1) + 1 = m
    BY <2>1 DEF Slots
  <2>3. Job(t, m - 1) = t.jobs[m]
    BY <2>2 DEF Job
  <2> QED BY <2>2, <2>3 DEF Sound, IndicesHold, Occupied, IsJob
<1>3. kept \in Seq(JobT) /\ (\A m \in DOMAIN kept : Made(kept[m])) /\ n = t.njobs
  BY <1>1, <1>2, KeptJobs, JobsCounted
<1>21. /\ \A G, P : AllWithin(t.jobs, G, P) => AllWithin(kept, G, P)
       /\ \A k \in DOMAIN kept : Made(kept[k]) /\ \E m \in DOMAIN t.jobs : kept[k] = t.jobs[m]
       /\ \A m \in DOMAIN t.jobs : t.jobs[m] # NoJob => \E k \in DOMAIN kept : kept[k] = t.jobs[m]
  BY <1>1, <1>2, KeptJobs
<1>4. realloc_jobs_list(t) = u
  BY <1>1 DEF realloc_jobs_list, Allocated
<1> HIDE DEF kept
<1>5. size \in Nat /\ size > 0 /\ size >= n /\ n \in Nat /\ size - n \in Nat
  <2>1. n \in Nat
    BY <1>3
  <2>2. size \in Nat /\ size > 0 /\ size >= n
    BY <1>1, <1>3, RoomAllocated
  <2> HIDE DEF size, n
  <2> QED BY <2>1, <2>2
<1> HIDE DEF size
<1>6. /\ jobs \in Seq(JobT) /\ Len(jobs) = size
      /\ \A m \in 1..size : jobs[m] = IF m <= n THEN kept[m] ELSE NoJob
  <2>1. Len(kept) + (size - n) = size
    BY <1>5
  <2> QED BY <1>3, <1>5, <2>1, WithCells
<1> HIDE DEF jobs
<1>7. lastj \in Nat /\ (n = 0 => lastj = 0) /\ (n > 0 => lastj = n - 1)
  BY <1>3, <1>5
<1> HIDE DEF lastj
<1>8. /\ u \in Tables /\ u.jobs = jobs /\ u.slots = size /\ u.firstj = 0 /\ u.lastj = lastj
      /\ u.njobs = n /\ u.bgpids = t.bgpids /\ u.the_pipeline = t.the_pipeline
  <2> HIDE DEF n
  <2> QED BY <1>1, <1>5, <1>6, <1>7 DEF Tables
<1> HIDE DEF u
<1>9. ASSUME NEW i \in 0..(size - 1)
      PROVE  Job(u, i) = IF i < n THEN kept[i + 1] ELSE NoJob
  <2>1. i + 1 \in 1..size /\ (i + 1 <= n <=> i < n)
    BY <1>5
  <2> QED BY <1>6, <1>8, <2>1 DEF Job
<1>10. Slots(u) = 0..(size - 1)
  BY <1>8 DEF Slots
<1>11. \A i \in 0..(n - 1) : i \in 0..(size - 1) /\ i + 1 \in DOMAIN kept /\ Made(kept[i + 1])
  <2> TAKE i \in 0..(n - 1)
  <2>1. i \in 0..(size - 1) /\ i + 1 \in 1..n
    BY <1>5
  <2> QED BY <1>3, <2>1
<1>12. \A i \in 0..(n - 1) : i \in Occupied(u) /\ Job(u, i) = kept[i + 1]
  <2> TAKE i \in 0..(n - 1)
  <2>1. i < n
    BY <1>5
  <2>2. Job(u, i) = kept[i + 1] /\ kept[i + 1] # NoJob
    BY <2>1, <1>9, <1>11, NoJobType
  <2> QED BY <2>2, <1>10, <1>11 DEF Occupied, IsJob
<1>13. \A i \in Occupied(u) : i \in 0..(n - 1)
  <2> TAKE i \in Occupied(u)
  <2>1. i \in 0..(size - 1) /\ Job(u, i) # NoJob
    BY <1>10 DEF Occupied, IsJob
  <2>2. i < n
    BY <1>9, <2>1
  <2> QED BY <1>5, <2>1, <2>2
<1>14. Occupied(u) = 0..(n - 1)
  BY <1>12, <1>13
<1>15. Cardinality(Occupied(u)) = n
  <2> HIDE DEF n
  <2>1. 0 \in Int /\ n - 1 \in Int
    BY <1>5
  <2>2. Cardinality(0..(n - 1)) = IF 0 > n - 1 THEN 0 ELSE (n - 1) - 0 + 1
    BY <2>1, FS_Interval
  <2>3. Cardinality(0..(n - 1)) = n
    BY <1>5, <2>2
  <2> QED BY <1>14, <2>3
<1>16. \A i \in Occupied(u) : Made(Job(u, i)) /\ u.firstj <= i /\ i <= u.lastj
  <2> TAKE i \in Occupied(u)
  <2>1. i \in 0..(n - 1)
    BY <1>13
  <2>2. n > 0 /\ 0 <= i /\ i <= n - 1
    BY <1>5, <2>1
  <2>3. Made(Job(u, i))
    BY <2>1, <1>11, <1>12
  <2> QED BY <1>7, <1>8, <2>2, <2>3
<1>17. IF Occupied(u) = {} THEN u.firstj = 0 /\ u.lastj = 0
                           ELSE {u.firstj, u.lastj} \subseteq Occupied(u)
  <2>1. CASE n = 0
    <3>1. Occupied(u) = {}
      BY <1>5, <1>14, <2>1
    <3> QED BY <3>1, <1>7, <1>8, <2>1
  <2>2. CASE n > 0
    <3>1. 0 \in 0..(n - 1) /\ n - 1 \in 0..(n - 1)
      BY <1>5, <2>2
    <3> QED BY <3>1, <1>7, <1>8, <1>14, <2>2
  <2> QED BY <1>5, <2>1, <2>2
<1>18. Sound(u)
  BY <1>1, <1>6, <1>8, <1>15, <1>16, <1>17 DEF Sound, IndicesHold
<1>19. ASSUME NEW G, NEW P, Within(t, G, P) PROVE Within(u, G, P)
  <2>1. AllWithin(kept, G, P)
    <3>1. AllWithin(t.jobs, G, P)
      BY <1>19, ListedWithin
    <3> QED BY <3>1, <1>21
  <2>2. \A i \in Occupied(u) : /\ i + 1 \in DOMAIN kept /\ kept[i + 1] # NoJob
                               /\ Job(u, i) = kept[i + 1] /\ i \in Nat
    <3> TAKE i \in Occupied(u)
    <3>1. i \in 0..(n - 1)
      BY <1>14
    <3>2. i \in Nat
      BY <1>5, <3>1
    <3> HIDE DEF n
    <3> QED BY <3>1, <3>2, <1>11, <1>12, NoJobType
  <2>3. ASSUME NEW i \in Occupied(u), NEW j \in Occupied(u), i # j
        PROVE  <<Job(u, i).pipe, Job(u, j).pipe>> \in P
    <3>1. i + 1 # j + 1
      BY <2>2, <2>3
    <3> QED BY <3>1, <2>1, <2>2 DEF AllWithin
  <2>4. \A i \in Occupied(u) : <<Job(u, i).pipe, Job(u, i).state>> \in G
    BY <2>1, <2>2 DEF AllWithin
  <2> QED BY <2>3, <2>4 DEF Within
<1>20. Carries(t, u)
  BY <1>19 DEF Carries
\* The jobs are those there were.
<1>22. ASSUME NEW j \in Occupied(u)
       PROVE  \E i \in Occupied(t) : Job(u, j) = Job(t, i)
  <2>1. j \in 0..(n - 1)
    BY <1>14
  <2>2. j + 1 \in DOMAIN kept /\ Job(u, j) = kept[j + 1]
    BY <2>1, <1>11, <1>12
  <2>3. PICK m \in DOMAIN t.jobs : kept[j + 1] = t.jobs[m] /\ Made(t.jobs[m])
    BY <2>2, <1>21
  <2>4. m \in 1..t.slots /\ t.slots \in Nat
    BY <1>1 DEF Sound, Tables, IndicesHold
  <2>5. m - 1 \in Slots(t) /\ (m - 1) + 1 = m
    BY <2>4 DEF Slots
  <2>6. m - 1 \in Occupied(t) /\ Job(t, m - 1) = t.jobs[m]
    BY <2>3, <2>5, NoJobType DEF Occupied, IsJob, Job
  <2> QED BY <2>2, <2>3, <2>6
<1>23. ASSUME NEW i \in Occupied(t)
       PROVE  \E j \in Occupied(u) : Job(u, j) = Job(t, i)
  <2>1. i + 1 \in DOMAIN t.jobs /\ t.jobs[i + 1] = Job(t, i) /\ Job(t, i) # NoJob
    <3>1. i \in Slots(t) /\ Job(t, i) # NoJob
      BY DEF Occupied, IsJob
    <3> QED BY <3>1, <1>1, SlotOf
  <2>2. PICK k \in DOMAIN kept : kept[k] = Job(t, i)
    BY <2>1, <1>21
  <2>3. k - 1 \in 0..(n - 1) /\ (k - 1) + 1 = k
    <3>1. k \in 1..n
      BY <1>3
    <3> QED BY <3>1, <1>5
  <2>4. k - 1 \in Occupied(u) /\ Job(u, k - 1) = kept[k]
    BY <2>3, <1>12
  <2> QED BY <2>2, <2>4
<1>24. NumbersApart(t) => NumbersApart(u)
  <2> HIDE DEF u
  <2>1. JobsApart(t) => JobsApart(u)
    BY <1>20, CarriesApart
  <2>2. \A pid : Holds(u, pid) => Holds(t, pid)
    BY <1>22 DEF Holds
  <2>3. SavedApart(t) => SavedApart(u)
    BY <1>8, <2>2 DEF SavedApart, Building
  <2> QED BY <1>8, <1>22, <2>1, <2>3 DEF NumbersApart
<1>25. Saves(t, u)
  BY <1>8, <1>22, <1>23, <1>24 DEF Saves, Same, StatusIn
<1> QED BY <1>4, <1>5, <1>8, <1>18, <1>20, <1>25

LEMMA Compacted ==
  ASSUME NEW t, Sound(t), NEW last
  PROVE  LET u == compact_jobs_list(t, last)
         IN  Sound(u) /\ u.the_pipeline = t.the_pipeline /\ u.slots > 0 /\ Carries(t, u)
             /\ Saves(t, u)
<1> DEFINE m == mark_dead_jobs_as_notified(t, FALSE, last)
<1>1. Sound(m) /\ m.the_pipeline = t.the_pipeline /\ Carries(t, m) /\ Saves(t, m)
  BY MarkDeadSound
<1> HIDE DEF m
<1>2. /\ Sound(Cleaned(m)) /\ Cleaned(m).the_pipeline = t.the_pipeline
      /\ Carries(m, Cleaned(m)) /\ Saves(m, Cleaned(m))
  BY <1>1, CleanedSound
<1>3. Carries(t, Cleaned(m)) /\ Saves(t, Cleaned(m))
  BY <1>1, <1>2, CarriesOn, SavesOn
<1> DEFINE u == realloc_jobs_list(Cleaned(m))
<1>4. /\ Sound(u) /\ u.the_pipeline = t.the_pipeline /\ u.slots > 0
      /\ Carries(Cleaned(m), u) /\ Saves(Cleaned(m), u)
  BY <1>2, Reallocated
<1>5. Carries(t, u) /\ Saves(t, u)
  BY <1>3, <1>4, CarriesOn, SavesOn
<1>6. compact_jobs_list(t, last) = u
  BY DEF compact_jobs_list, m
<1> QED BY <1>4, <1>5, <1>6

\* Cells at the end are free.
LEMMA Grown ==
  ASSUME NEW t, Sound(t), NEW n \in Nat \ {0}
  PROVE  LET u == [t EXCEPT !.jobs = @ \o Cells(n), !.slots = @ + n]
         IN  Sound(u) /\ u.the_pipeline = t.the_pipeline /\ u.slots = t.slots + n
             /\ u.lastj = t.lastj /\ u.bgpids = t.bgpids /\ Occupied(u) = Occupied(t)
             /\ \A i \in Occupied(t) : Job(u, i) = Job(t, i)
<1> DEFINE jobs == t.jobs \o Cells(n)
           slots == t.slots + n
           u == [t EXCEPT !.jobs = jobs, !.slots = slots]
<1>1. t \in Tables /\ t.jobs \in Seq(JobT) /\ t.slots \in Nat /\ Len(t.jobs) = t.slots
  BY DEF Sound, Tables, IndicesHold
<1>2. /\ jobs \in Seq(JobT) /\ Len(jobs) = t.slots + n
      /\ \A m \in 1..(t.slots + n) : jobs[m] = IF m <= t.slots THEN t.jobs[m] ELSE NoJob
  BY <1>1, WithCells
<1> HIDE DEF jobs
<1>3. /\ u \in Tables /\ u.jobs = jobs /\ u.slots = t.slots + n /\ u.firstj = t.firstj
      /\ u.lastj = t.lastj /\ u.njobs = t.njobs /\ u.bgpids = t.bgpids
      /\ u.the_pipeline = t.the_pipeline
  <2>1. slots \in Nat /\ slots = t.slots + n
    BY <1>1
  <2> HIDE DEF slots
  <2>2. jobs \in Seq(JobT)
    BY <1>2
  <2> QED BY <1>1, <2>1, <2>2 DEF Tables
<1>4. u = [t EXCEPT !.jobs = @ \o Cells(n), !.slots = @ + n]
  BY <1>1 DEF Tables, jobs
<1> HIDE DEF u
<1>5. \A i \in Slots(t) : i \in Slots(u) /\ Job(u, i) = Job(t, i)
  <2> TAKE i \in Slots(t)
  <2>1. i \in Slots(u) /\ i + 1 \in 1..(t.slots + n) /\ i + 1 <= t.slots
    BY <1>1, <1>3 DEF Slots
  <2> QED BY <1>2, <1>3, <2>1 DEF Job
<1>6. \A i \in Slots(u) : i \in Slots(t) \/ Job(u, i) = NoJob
  <2> TAKE i \in Slots(u)
  <2>1. i + 1 \in 1..(t.slots + n) /\ (i \in Slots(t) \/ ~(i + 1 <= t.slots))
    BY <1>1, <1>3 DEF Slots
  <2> QED BY <1>2, <1>3, <2>1 DEF Job
<1>7. Occupied(u) = Occupied(t)
  BY <1>5, <1>6 DEF Occupied, IsJob
<1>8. \A i \in Occupied(t) : Job(u, i) = Job(t, i)
  BY <1>5 DEF Occupied
<1>9. Sound(u)
  BY <1>2, <1>3, <1>7, <1>8 DEF Sound, IndicesHold
<1> QED BY <1>3, <1>4, <1>7, <1>8, <1>9

\* A slot found free is one, after the last job; or the first, when that is free or
\* the only job is there.
LEMMA SlotFound ==
  ASSUME NEW t, Sound(t), FreeSlot(t) # t.slots
  PROVE  /\ FreeSlot(t) \in Slots(t) /\ FreeSlot(t) \notin Occupied(t)
         /\ \A i \in Occupied(t) : i < FreeSlot(t)
         /\ Occupied(t) = {} => FreeSlot(t) = 0
<1> DEFINE from == IF t.lastj = 0 THEN 0 ELSE t.lastj + 1
           free == {i \in Slots(t) : i >= from /\ ~ IsJob(t, i)}
<1>1. FreeSlot(t) = IF free = {} THEN t.slots ELSE Min(free)
  BY DEF FreeSlot
<1>2. free # {} /\ FreeSlot(t) = Min(free)
  BY <1>1
<1>3. t.lastj \in Nat /\ Slots(t) \subseteq Nat
  BY OccupiedFinite DEF Sound, Tables
<1>4. FreeSlot(t) \in free
  BY <1>2, <1>3, MinOf
<1>5. \A i \in Occupied(t) : i \in Nat /\ i <= t.lastj
  BY <1>3 DEF Sound, IndicesHold, Occupied
<1>6. FreeSlot(t) \in Slots(t) /\ FreeSlot(t) >= from /\ FreeSlot(t) \notin Occupied(t)
  BY <1>4 DEF Occupied
<1>7. ASSUME NEW i \in Occupied(t) PROVE i < FreeSlot(t)
  <2>1. FreeSlot(t) \in Nat /\ i # FreeSlot(t)
    BY <1>3, <1>6
  <2>2. CASE t.lastj = 0
    BY <1>5, <2>1, <2>2
  <2>3. CASE t.lastj # 0
    <3>1. from = t.lastj + 1
      BY <2>3
    <3> QED BY <1>3, <1>5, <1>6, <2>1, <3>1
  <2> QED BY <2>2, <2>3
<1>8. ASSUME Occupied(t) = {} PROVE FreeSlot(t) = 0
  <2>1. t.lastj = 0
    BY <1>8 DEF Sound, IndicesHold
  <2>2. FreeSlot(t) \in 0..(t.slots - 1) /\ t.slots \in Nat
    BY <1>6 DEF Slots, Sound, Tables
  <2>3. 0 \in Slots(t)
    BY <2>2 DEF Slots
  <2>4. 0 \in free
    BY <2>1, <2>3, <1>8 DEF Occupied
  <2>5. FreeSlot(t) <= 0
    BY <2>4, <1>2, <1>3, MinOf
  <2> QED BY <2>2, <2>5
<1> QED BY <1>6, <1>7, <1>8

LEMMA RoomMade ==
  ASSUME NEW t, Sound(t), t.slots > 0, NEW last
  PROVE  LET u == Roomy(t, last)
         IN  /\ Sound(u) /\ u.the_pipeline = t.the_pipeline /\ FreeSlot(u) # u.slots
             /\ Carries(t, u) /\ Saves(t, u)
<1> DEFINE full == FreeSlot(t) = t.slots
           room == IF full /\ t.slots >= MaxJobsInArray THEN compact_jobs_list(t, last) ELSE t
           u == IF FreeSlot(room) = room.slots
                THEN [room EXCEPT !.jobs = @ \o Cells(JobSlots), !.slots = @ + JobSlots] ELSE room
<1>1. Roomy(t, last) = u
  BY DEF Roomy
<1>2. /\ Sound(room) /\ room.the_pipeline = t.the_pipeline /\ room.slots > 0
      /\ Carries(t, room) /\ Saves(t, room)
  BY Compacted, CarriesItself, SavesItself
<1> HIDE DEF room
<1>3. CASE FreeSlot(room) # room.slots
  BY <1>1, <1>2, <1>3
<1>4. CASE FreeSlot(room) = room.slots
  <2>1. JobSlots \in Nat \ {0}
    BY JobTableAssumption
  <2>2. u = [room EXCEPT !.jobs = @ \o Cells(JobSlots), !.slots = @ + JobSlots]
    BY <1>4
  <2> HIDE DEF u
  <2>3. Sound(u) /\ u.the_pipeline = room.the_pipeline /\ u.slots = room.slots + JobSlots
        /\ u.lastj = room.lastj /\ u.bgpids = room.bgpids /\ Occupied(u) = Occupied(room)
        /\ \A i \in Occupied(room) : Job(u, i) = Job(room, i)
    BY <1>2, <2>1, <2>2, Grown
  <2>4. room.slots \in Nat /\ room.lastj \in Nat /\ room.lastj < room.slots
    <3>1. room.slots \in Nat /\ room.lastj \in Nat
      BY <1>2 DEF Sound, Tables
    <3>2. room.lastj = 0 \/ room.lastj \in Occupied(room)
      BY <1>2 DEF Sound, IndicesHold
    <3> QED BY <1>2, <3>1, <3>2 DEF Occupied, Slots
  <2> DEFINE from == IF u.lastj = 0 THEN 0 ELSE u.lastj + 1
             free == {i \in Slots(u) : i >= from /\ ~ IsJob(u, i)}
  <2>5. room.slots \in Slots(u)
    BY <2>1, <2>3, <2>4 DEF Slots
  <2>6. room.slots \notin Slots(room)
    BY <2>4 DEF Slots
  <2>7. room.slots \notin Occupied(u)
    BY <2>3, <2>6 DEF Occupied
  <2>8. room.slots >= from
    BY <2>3, <2>4
  <2>9. room.slots \in free
    BY <2>5, <2>7, <2>8 DEF Occupied
  <2>10. FreeSlot(u) = Min(free)
    BY <2>9 DEF FreeSlot
  <2>11. Slots(u) \subseteq Nat
    BY <2>3, OccupiedFinite DEF Sound
  <2>12. Min(free) <= room.slots /\ Min(free) \in Nat
    BY <2>9, <2>11, MinOf
  <2>13. FreeSlot(u) # u.slots
    BY <2>1, <2>3, <2>4, <2>10, <2>12
  <2>14. Carries(room, u) /\ Saves(room, u)
    <3>1. \A i \in Occupied(room) : Same(Job(room, i), Job(u, i))
      BY <2>3 DEF Same
    <3> QED BY <2>3, <3>1, CarriesRest, SavesRest
  <2>15. Carries(t, u) /\ Saves(t, u)
    BY <1>2, <2>14, CarriesOn, SavesOn
  <2> QED BY <1>1, <1>2, <2>3, <2>13, <2>15
<1> QED BY <1>3, <1>4

\* A job is put into a free slot after the others.
JobPut(t, u, job) ==
  \E i : /\ i \notin Occupied(t) /\ Occupied(u) = Occupied(t) \union {i}
         /\ Job(u, i) = job /\ \A k \in Occupied(t) : Job(u, k) = Job(t, k)

LEMMA JobAdded ==
  ASSUME NEW t, Sound(t), FreeSlot(t) # t.slots, NEW job, Made(job)
  PROVE  LET u == [Put(t, FreeSlot(t), job) EXCEPT
                     !.the_pipeline = <<>>, !.lastj = FreeSlot(t), !.njobs = @ + 1]
         IN  Sound(u) /\ u.the_pipeline = <<>> /\ u.bgpids = t.bgpids /\ JobPut(t, u, job)
<1> DEFINE i == FreeSlot(t)
           jobs == [t.jobs EXCEPT ![i + 1] = job]
           n == t.njobs + 1
           u == [t EXCEPT !.jobs = jobs, !.the_pipeline = <<>>, !.lastj = i, !.njobs = n]
<1>1. t \in Tables /\ t.jobs \in Seq(JobT) /\ t.slots \in Nat /\ Len(t.jobs) = t.slots
  BY DEF Sound, Tables, IndicesHold
<1>2. /\ i \in Slots(t) /\ i \notin Occupied(t) /\ (\A k \in Occupied(t) : k < i)
      /\ (Occupied(t) = {} => i = 0)
  BY SlotFound
<1>3. [Put(t, FreeSlot(t), job) EXCEPT
         !.the_pipeline = <<>>, !.lastj = FreeSlot(t), !.njobs = @ + 1] = u
  BY <1>1 DEF Put, Tables
<1> HIDE DEF i
<1>4. i \in Nat /\ i + 1 \in 1..t.slots
  BY <1>1, <1>2 DEF Slots
<1>5. /\ jobs \in Seq(JobT) /\ Len(jobs) = t.slots
      /\ \A m \in 1..t.slots : jobs[m] = IF m = i + 1 THEN job ELSE t.jobs[m]
  BY <1>1, <1>4 DEF Made
<1> HIDE DEF jobs
<1>6. n \in Nat /\ n = Cardinality(Occupied(t)) + 1
  BY DEF Sound, Tables, IndicesHold
<1> HIDE DEF n
<1>7. /\ u \in Tables /\ u.jobs = jobs /\ u.slots = t.slots /\ u.firstj = t.firstj /\ u.lastj = i
      /\ u.njobs = n /\ u.bgpids = t.bgpids /\ u.the_pipeline = <<>>
  <2> DEFINE none == <<>>
  <2>1. none \in Seq(Processes)
    OBVIOUS
  <2> HIDE DEF none
  <2>2. /\ [t EXCEPT !.jobs = jobs, !.the_pipeline = none, !.lastj = i, !.njobs = n] \in Tables
        /\ u = [t EXCEPT !.jobs = jobs, !.the_pipeline = none, !.lastj = i, !.njobs = n]
    BY <2>1, <1>1, <1>4, <1>5, <1>6 DEF Tables, none
  <2>3. u \in Tables
    BY <2>2
  <2> QED BY <2>3, <1>1 DEF Tables
<1> HIDE DEF u
<1>8. \A k \in Slots(t) : Job(u, k) = IF k = i THEN job ELSE Job(t, k)
  <2> TAKE k \in Slots(t)
  <2>1. k + 1 \in 1..t.slots /\ (k + 1 = i + 1 <=> k = i)
    BY <1>1, <1>4 DEF Slots
  <2> QED BY <1>5, <1>7, <2>1 DEF Job
<1>9. Slots(u) = Slots(t)
  BY <1>7 DEF Slots
<1>10. Occupied(u) = Occupied(t) \union {i}
  BY <1>2, <1>8, <1>9, NoJobType DEF Occupied, IsJob
<1>11. Cardinality(Occupied(u)) = n
  <2>1. IsFiniteSet(Occupied(t))
    BY <1>1, OccupiedFinite
  <2> QED BY ONLY <2>1, <1>2, <1>6, <1>10, FS_AddElement
<1>12. \A k \in Occupied(t) : k \in Nat
  BY <1>1, OccupiedFinite DEF Occupied
<1>13. u.firstj \in Occupied(u) /\ (\A k \in Occupied(u) : u.firstj <= k)
  <2>1. CASE Occupied(t) = {}
    <3>1. t.firstj = 0 /\ i = 0
      BY <2>1, <1>2 DEF Sound, IndicesHold
    <3> QED BY <3>1, <2>1, <1>7, <1>10
  <2>2. CASE Occupied(t) # {}
    <3>1. t.firstj \in Occupied(t) /\ \A k \in Occupied(t) : t.firstj <= k
      BY <2>2 DEF Sound, IndicesHold
    <3>2. t.firstj \in Nat /\ t.firstj < i
      BY <3>1, <1>2, <1>12
    <3> QED BY <3>1, <3>2, <1>4, <1>7, <1>10
  <2> QED BY <2>1, <2>2
<1>14. u.lastj \in Occupied(u) /\ \A k \in Occupied(u) : k <= u.lastj
  BY <1>2, <1>4, <1>7, <1>10, <1>12
<1>15. \A k \in Occupied(u) : Made(Job(u, k))
  <2> TAKE k \in Occupied(u)
  <2>1. CASE k = i
    BY <2>1, <1>2, <1>8
  <2>2. CASE k # i
    <3>1. k \in Occupied(t) /\ k \in Slots(t)
      BY <2>2, <1>10 DEF Occupied
    <3> QED BY <2>2, <3>1, <1>8 DEF Sound, IndicesHold
  <2> QED BY <2>1, <2>2
<1>16. Len(u.jobs) = u.slots
  BY <1>5, <1>7
<1>17. Len(u.bgpids) <= ChildMax
  BY <1>7 DEF Sound
<1>18. Sound(u)
  BY <1>7, <1>11, <1>13, <1>14, <1>15, <1>16, <1>17 DEF Sound, IndicesHold
<1>19. Job(u, i) = job /\ \A k \in Occupied(t) : Job(u, k) = Job(t, k)
  BY <1>2, <1>8 DEF Occupied
<1>20. JobPut(t, u, job)
  BY <1>2, <1>10, <1>19 DEF JobPut
<1> QED BY <1>3, <1>7, <1>18, <1>20

\* What is left of the jobs when there is room, and the new one, with the pipeline
Stopped(t, u, async) ==
  \E v, job : /\ Carries(t, v) /\ Saves(t, v) /\ v.the_pipeline = t.the_pipeline
              /\ JobPut(v, u, job) /\ u.bgpids = v.bgpids /\ Sound(v)
              /\ job.pipe = t.the_pipeline /\ job.foreground = ~ async
              /\ job.state = IF \E k \in DOMAIN t.the_pipeline : t.the_pipeline[k].running
                             THEN "JRUNNING" ELSE "JDEAD"

LEMMA PipelineStopped ==
  ASSUME NEW t, Sound(t), t.the_pipeline # <<>>, NEW async \in BOOLEAN, NEW last
  PROVE  LET u == stop_pipeline(t, async, last)
         IN  Sound(u) /\ u.the_pipeline = <<>> /\ Stopped(t, u, async)
<1> DEFINE clean == Cleaned(t)
           made == IF clean.slots = 0
                   THEN [clean EXCEPT !.jobs = Cells(JobSlots), !.slots = JobSlots] ELSE clean
           room == Roomy(made, last)
           running == \E k \in DOMAIN t.the_pipeline : t.the_pipeline[k].running
           newjob == [pipe |-> t.the_pipeline, state |-> IF running THEN "JRUNNING" ELSE "JDEAD",
                      foreground |-> ~ async, notified |-> FALSE]
<1>1. stop_pipeline(t, async, last) =
        [Put(room, FreeSlot(room), newjob) EXCEPT
           !.the_pipeline = <<>>, !.lastj = FreeSlot(room), !.njobs = @ + 1]
  BY DEF stop_pipeline
<1>2. Made(newjob)
  <2>1. t.the_pipeline \in Seq(Processes)
    BY DEF Sound, Tables
  <2> HIDE DEF running
  <2> QED BY <2>1 DEF Made, JobT
<1>3. /\ Sound(clean) /\ Carries(t, clean) /\ Saves(t, clean)
      /\ clean.the_pipeline = t.the_pipeline
  BY CleanedSound
<1>6. /\ newjob.pipe = t.the_pipeline /\ newjob.foreground = ~ async
      /\ newjob.state = IF running THEN "JRUNNING" ELSE "JDEAD"
  OBVIOUS
<1> HIDE DEF newjob, clean
<1>4. /\ Sound(made) /\ made.slots > 0 /\ Carries(clean, made) /\ Saves(clean, made)
      /\ made.the_pipeline = clean.the_pipeline
  <2>1. CASE clean.slots = 0
    <3>1. JobSlots \in Nat \ {0}
      BY JobTableAssumption
    <3>2. clean \in Tables /\ clean.jobs \in Seq(JobT) /\ Len(clean.jobs) = 0
      BY <1>3, <2>1 DEF Sound, Tables, IndicesHold
    <3>3. clean.jobs \o Cells(JobSlots) = Cells(JobSlots) /\ clean.slots + JobSlots = JobSlots
      <4> DEFINE cells == Cells(JobSlots)
      <4>1. cells \in Seq(JobT)
        BY <3>1, CellsType
      <4>2. clean.jobs = <<>>
        BY <3>2
      <4> HIDE DEF cells
      <4>3. clean.jobs \o cells = cells
        BY <4>1, <4>2
      <4> QED BY <3>1, <4>3, <2>1 DEF cells
    <3> DEFINE grown == [clean EXCEPT !.jobs = @ \o Cells(JobSlots), !.slots = @ + JobSlots]
    <3>4. /\ Sound(grown) /\ grown.slots = clean.slots + JobSlots
          /\ Occupied(grown) = Occupied(clean) /\ grown.bgpids = clean.bgpids
          /\ \A i \in Occupied(clean) : Job(grown, i) = Job(clean, i)
          /\ grown.the_pipeline = clean.the_pipeline
      BY <1>3, <3>1, Grown
    <3>5. grown = [clean EXCEPT !.jobs = Cells(JobSlots), !.slots = JobSlots]
      BY <3>2, <3>3 DEF Tables
    <3>6. made = grown
      BY <2>1, <3>5
    <3> HIDE DEF made, grown
    <3>7. Carries(clean, made) /\ Saves(clean, made)
      <4>1. \A i \in Occupied(clean) : Same(Job(clean, i), Job(made, i))
        BY <3>4, <3>6 DEF Same
      <4> QED BY <3>4, <3>6, <4>1, CarriesRest, SavesRest
    <3> QED BY <3>1, <3>4, <3>6, <3>7, <2>1
  <2>2. CASE clean.slots # 0
    <3>1. clean.slots \in Nat /\ made = clean
      BY <2>2, <1>3 DEF Sound, Tables
    <3> QED BY <3>1, <2>2, <1>3, CarriesItself, SavesItself
  <2> QED BY <2>1, <2>2
<1> HIDE DEF made
<1>5. /\ Sound(room) /\ FreeSlot(room) # room.slots /\ Carries(made, room)
      /\ Saves(made, room) /\ room.the_pipeline = made.the_pipeline
  BY <1>4, RoomMade
<1> HIDE DEF room
<1>7. Carries(t, room)
  BY <1>3, <1>4, <1>5, CarriesOn
<1>11. Saves(t, room) /\ room.the_pipeline = t.the_pipeline
  BY <1>3, <1>4, <1>5, SavesOn
<1> DEFINE u == [Put(room, FreeSlot(room), newjob) EXCEPT
                   !.the_pipeline = <<>>, !.lastj = FreeSlot(room), !.njobs = @ + 1]
<1>8. Sound(u) /\ u.the_pipeline = <<>> /\ u.bgpids = room.bgpids /\ JobPut(room, u, newjob)
  BY <1>2, <1>5, JobAdded
<1> HIDE DEF u
<1>9. Stopped(t, u, async)
  BY <1>5, <1>6, <1>7, <1>8, <1>11 DEF Stopped
<1>10. stop_pipeline(t, async, last) = u
  BY <1>1 DEF u
<1> QED BY <1>8, <1>9, <1>10

LEMMA WaitedMarked ==
  ASSUME NEW t, Sound(t), NEW pid
  PROVE  /\ Sound(MarkWaited(t, pid)) /\ MarkWaited(t, pid).the_pipeline = t.the_pipeline
         /\ Carries(t, MarkWaited(t, pid)) /\ Saves(t, MarkWaited(t, pid))
<1> DEFINE i == find_job(t, pid, FALSE)
<1>1. MarkWaited(t, pid) = IF i # NO_JOB /\ Dead(t, i) THEN Marked(t, {i}) ELSE t
  BY DEF MarkWaited
<1>2. i = NO_JOB \/ i \in Occupied(t)
  BY FindJob
<1> HIDE DEF i
<1>3. CASE i # NO_JOB /\ Dead(t, i)
  <2>1. {i} \in SUBSET Occupied(t)
    BY <1>2, <1>3
  <2> QED BY <1>1, <1>3, <2>1, MarkedSound
<1>4. CASE ~(i # NO_JOB /\ Dead(t, i))
  BY <1>1, <1>4, CarriesItself, SavesItself
<1> QED BY <1>3, <1>4

LEMMA NoChildRecorded ==
  ASSUME NEW t, Sound(t), NEW pid
  PROVE  LET u == NotAChild(t, pid)
             i == find_job(t, pid, FALSE)
         IN  /\ Sound(u) /\ u.the_pipeline = t.the_pipeline /\ u.bgpids = t.bgpids
             /\ i \in Occupied(t) =>
                  /\ Occupied(u) = Occupied(t) /\ \A j \in Occupied(t) \ {i} : Job(u, j) = Job(t, j)
                  /\ Job(u, i).pipe = Ended(Job(t, i).pipe, 1, 0) /\ Job(u, i).state = "JDEAD"
                  /\ Job(u, i).foreground = Job(t, i).foreground
<1> DEFINE i == find_job(t, pid, FALSE)
           job == [Job(t, i) EXCEPT !.pipe = Ended(@, 1, 0), !.state = "JDEAD"]
<1>1. NotAChild(t, pid) = Put(t, i, job)
  BY DEF NotAChild
<1>2. i = NO_JOB \/ i \in Occupied(t)
  BY FindJob
<1> HIDE DEF i
<1>3. CASE i = NO_JOB
  <2>1. t \in Tables /\ t.jobs \in Seq(JobT)
    BY DEF Sound, Tables
  <2>2. i + 1 = 0 /\ 0 \notin DOMAIN t.jobs
    BY <1>3, <2>1 DEF NO_JOB
  <2> HIDE DEF job
  <2>3. [t.jobs EXCEPT ![i + 1] = job] = t.jobs
    BY <2>1, <2>2
  <2>4. Put(t, i, job) = t
    BY <2>1, <2>3 DEF Put, Tables
  <2>5. i \notin Occupied(t)
    BY <1>3, NoSlot
  <2> QED BY <1>1, <2>4, <2>5 DEF i
<1>4. CASE i \in Occupied(t)
  <2> DEFINE old == Job(t, i)
             pipe == Ended(old.pipe, 1, 0)
  <2>1. Made(old)
    BY <1>4 DEF Sound, IndicesHold
  <2>2. old.pipe \in Seq(Processes) /\ old.pipe # <<>> /\ 1 \in 0..Len(old.pipe)
    BY <2>1 DEF Made, JobT
  <2>3. 0 \in 0..MaxForks
    BY JobsAssumption
  <2>4. pipe \in Seq(Processes) /\ Len(pipe) = Len(old.pipe)
    BY <2>2, <2>3, EndedType
  <2>5. job = [old EXCEPT !.pipe = pipe, !.state = "JDEAD"]
    BY <2>1 DEF Made, JobT
  <2> HIDE DEF pipe, old, job
  <2>6. pipe # <<>>
    BY <2>2, <2>4
  <2>7. Made(job) /\ job.pipe = pipe /\ job.state = "JDEAD" /\ job.foreground = old.foreground
    BY <2>1, <2>4, <2>5, <2>6 DEF Made, JobT
  <2> DEFINE u == Put(t, i, job)
  <2>8. /\ Sound(u) /\ u.the_pipeline = t.the_pipeline /\ Occupied(u) = Occupied(t)
        /\ Job(u, i) = job /\ \A j \in Occupied(t) \ {i} : Job(u, j) = Job(t, j)
        /\ u.bgpids = t.bgpids
    BY <1>4, <2>7, JobChanged
  <2> HIDE DEF u
  <2>9. /\ Job(u, i).pipe = Ended(Job(t, i).pipe, 1, 0) /\ Job(u, i).state = "JDEAD"
        /\ Job(u, i).foreground = Job(t, i).foreground
    BY <2>7, <2>8 DEF pipe, old
  <2>10. NotAChild(t, pid) = u
    BY <1>1 DEF u
  <2> HIDE DEF i
  <2> QED BY <2>8, <2>9, <2>10 DEF i
<1> QED BY <1>2, <1>3, <1>4

LEMMA StatusesForgotten ==
  ASSUME NEW t, Sound(t)
  PROVE  /\ Sound(Forgotten(t)) /\ Forgotten(t).the_pipeline = t.the_pipeline
         /\ Carries(t, Forgotten(t)) /\ Forgotten(t).bgpids \in {<<>>, t.bgpids}
         /\ Occupied(Forgotten(t)) = Occupied(t) /\ \A i : Job(Forgotten(t), i) = Job(t, i)
<1>1. <<>> \in Seq(Saved) /\ Len(<<>>) <= ChildMax
  BY JobTableAssumption
<1> DEFINE u == [t EXCEPT !.bgpids = <<>>]
<1>2. /\ Sound(u) /\ u.the_pipeline = t.the_pipeline /\ u.bgpids = <<>>
      /\ Occupied(u) = Occupied(t) /\ \A i : Job(u, i) = Job(t, i)
  BY <1>1, StatusesChanged
<1> HIDE DEF u
<1>3. Carries(t, u)
  BY <1>2, CarriesRest
<1>4. Forgotten(t) \in {t, u}
  BY DEF Forgotten, u
<1> QED BY <1>2, <1>3, <1>4, CarriesItself

\* Jobs that are counted as running are jobs.
LEMMA RunningIsJob ==
  ASSUME NEW t, NEW i \in Slots(t), Running(t, i)
  PROVE  i \in Occupied(t)
BY DEF Running, Occupied, IsJob, NoJob

LEMMA StatusFound ==
  ASSUME NEW t, Sound(t), NEW pid
  PROVE  bgp_search(t, pid) \in {-1} \union 0..MaxForks
<1> DEFINE found == FirstPlace(Numbered(t.bgpids, pid))
<1>1. t.bgpids \in Seq(Saved)
  BY DEF Sound, Tables
<1>2. found \in 0..Len(t.bgpids)
  BY <1>1, ProcessOf
<1>3. bgp_search(t, pid) = IF found = 0 THEN -1 ELSE t.bgpids[found].status
  BY DEF bgp_search, SelectInSeq, found, FirstPlace, Numbered
<1> HIDE DEF found
<1>4. CASE found # 0
  <2>1. t.bgpids[found] \in Saved
    BY <1>1, <1>2, <1>4
  <2> QED BY <1>3, <1>4, <2>1 DEF Saved
<1>5. CASE found = 0
  BY <1>3, <1>5
<1> QED BY <1>4, <1>5

-------------------------------------------------------------------------------
(***************************************************************************)
(* The invariant of the shell                                              *)
(***************************************************************************)
Children == [state : {"none", "running", "zombie"}, fork : 0..MaxForks,
             kind : {"foreground", "background", "$!"}]

Places == {"idle", "simple", "pipeline", "called", "wait_for", "waitchld", "returned",
           "next job", "cleanup", "any job", "notify"}

Names == {"none", "foreground", "background", "wait_for_single_pid",
          "wait_for_background_pids", "wait_for_any_job"}

Locals == [pc : Places, caller : Names,
           pid : Pids \union {0, ANY_PID}, reaped : BOOLEAN, os : Nat,
           result : {-1, NotFound} \union 0..MaxForks]

\* What is a child has been forked, and what has been forked was counted.
KernelHolds ==
  /\ children \in [Pids -> Children]
  /\ \A p \in Pids : children[p].state # "none" => children[p].fork # 0
  /\ pending \in BOOLEAN
  /\ forks \in 0..MaxForks /\ signals \in Nat /\ lost \subseteq 1..MaxForks

\* Whoever will stop a pipeline has put a process into it.
TableHolds ==
  /\ Sound(table)
  /\ Is("simple") \/ Is("pipeline") => table.the_pipeline # <<>>

\* A longjmp out of waitchld leaves queue_sigchld at 1 for the next that raises it.
ShellHolds ==
  /\ main \in Locals
  /\ last_asynchronous_pid \in Pids \union {0}
  /\ sigchld \in Nat
  /\ queue_sigchld \in IF Is("notify") \/ Is("cleanup") THEN 1..2 ELSE 0..1

JobsInv == KernelHolds /\ TableHolds /\ ShellHolds

-------------------------------------------------------------------------------
(***************************************************************************)
(* The parts of the steps                                                  *)
(***************************************************************************)
LEMMA IdleType == Idle \in Locals /\ Idle.pc = "idle"
<1>1. 0 \in {-1, NotFound} \union 0..MaxForks
  BY JobsAssumption
<1> QED BY <1>1 DEF Idle, Locals, Places, Names

LEMMA Located ==
  ASSUME NEW pc \in Places, NEW caller \in Names, NEW pid \in Pids \union {0, ANY_PID}
  PROVE  At(pc, caller, pid) \in Locals /\ At(pc, caller, pid).pc = pc
BY IdleType DEF At, Locals

LEMMA Counted ==
  ASSUME NEW pids \in SUBSET Pids
  PROVE  IsFiniteSet(pids) /\ Cardinality(pids) \in Nat
BY JobsAssumption, FS_Subset, FS_CardinalityType

LEMMA LessType ==
  ASSUME NEW counted \in Nat, NEW calls \in Nat
  PROVE  Less(counted, calls) \in Nat
BY DEF Less

LEMMA KernelKept ==
  ASSUME KernelHolds, UNCHANGED <<children, pending, forks, signals, lost>>
  PROVE  KernelHolds'
BY DEF KernelHolds

LEMMA ForkOf ==
  ASSUME KernelHolds
  PROVE  /\ \A p \in Pids : children[p].fork \in 0..MaxForks
         /\ \A state \in {"running", "zombie"} :
              /\ In(state) \in SUBSET Pids
              /\ \A p \in In(state) : children[p].fork \in 1..MaxForks
<1>1. \A p \in Pids : children[p] \in Children
  BY DEF KernelHolds
<1>2. \A p \in Pids : children[p].fork \in 0..MaxForks
  BY <1>1 DEF Children
<1>3. \A p \in Pids : children[p].state # "none" => children[p].fork \in 1..MaxForks
  BY <1>2, JobsAssumption DEF KernelHolds
<1> QED BY <1>2, <1>3 DEF In

LEMMA CollectedHolds ==
  ASSUME KernelHolds, NEW pids
  PROVE  /\ Collected(pids) \in [Pids -> Children]
         /\ \A p \in Pids : Collected(pids)[p].state # "none" => Collected(pids)[p].fork # 0
<1>1. ASSUME NEW p \in Pids
      PROVE  /\ Collected(pids)[p] \in Children
             /\ Collected(pids)[p].state # "none" => Collected(pids)[p].fork # 0
  <2>1. children[p] \in Children /\ (children[p].state # "none" => children[p].fork # 0)
    BY DEF KernelHolds
  <2>2. Collected(pids)[p] = IF p \in pids THEN [children[p] EXCEPT !.state = "none"] ELSE children[p]
    BY DEF Collected
  <2>3. CASE p \in pids
    BY <2>1, <2>2, <2>3 DEF Children
  <2>4. CASE p \notin pids
    BY <2>1, <2>2, <2>4
  <2> QED BY <2>3, <2>4
<1>2. Collected(pids) = [p \in Pids |-> Collected(pids)[p]]
  BY DEF Collected
<1> QED BY <1>1, <1>2

LEMMA KernelCollects ==
  ASSUME KernelHolds, NEW pids, children' = Collected(pids),
         pending' \in BOOLEAN, UNCHANGED forks, signals' \in Nat, lost' \subseteq 1..MaxForks
  PROVE  KernelHolds'
BY CollectedHolds DEF KernelHolds

LEMMA AllReaped ==
  ASSUME KernelHolds, Sound(table), NEW counted \in Nat, ReapAll(counted)
  PROVE  /\ children' = Collected(In("zombie")) /\ lost' \subseteq 1..MaxForks
         /\ Sound(table') /\ Len(table'.the_pipeline) = Len(table.the_pipeline)
         /\ sigchld' \in Nat
<1>1. In("zombie") \in SUBSET Pids /\ \A p \in In("zombie") : children[p].fork \in 0..MaxForks
  BY ForkOf
<1>2. Sound(table') /\ Len(table'.the_pipeline) = Len(table.the_pipeline)
  BY <1>1, AllRecordedSound DEF ReapAll
<1>3. Cardinality(In("zombie")) + 1 \in Nat
  BY <1>1, Counted
<1>4. sigchld' \in Nat
  BY <1>3, LessType DEF ReapAll
<1> QED BY <1>2, <1>4 DEF ReapAll, KernelHolds

LEMMA SomeReaped ==
  ASSUME KernelHolds, Sound(table), NEW counted \in Nat, ReapSome(counted)
  PROVE  /\ \E pids : children' = Collected(pids)
         /\ lost' \subseteq 1..MaxForks
         /\ Sound(table') /\ sigchld' \in Nat
<1>1. PICK pids \in SUBSET In("zombie"), dropped \in SUBSET In("zombie") :
        /\ children' = Collected(pids \union dropped)
        /\ table' = AllRecorded(table, pids)
        /\ lost' = lost \union {children[p].fork : p \in dropped}
        /\ sigchld' = Less(counted, Cardinality(pids \union dropped))
  BY DEF ReapSome
<1>2. In("zombie") \in SUBSET Pids /\ \A p \in In("zombie") : children[p].fork \in 1..MaxForks
  BY ForkOf
<1>3. pids \in SUBSET Pids /\ (\A p \in pids : children[p].fork \in 0..MaxForks)
  BY <1>2, ForkOf
<1>4. Sound(table')
  BY <1>1, <1>3, AllRecordedSound
<1>5. lost' \subseteq 1..MaxForks
  BY <1>1, <1>2 DEF KernelHolds
<1>6. pids \union dropped \in SUBSET Pids
  BY <1>2
<1>7. sigchld' \in Nat
  BY <1>1, <1>6, Counted, LessType
<1> QED BY <1>1, <1>4, <1>5, <1>7

LEMMA LeftByTrap ==
  ASSUME KernelHolds, Interrupted
  PROVE  main' = Idle /\ signals' \in Nat /\ Idle \in Locals /\ Idle.pc = "idle"
BY IdleType DEF Interrupted, KernelHolds

-------------------------------------------------------------------------------
(***************************************************************************)
(* The steps: ends of processes, the handler, and processes that are made  *)
(***************************************************************************)
LEMMA Starts == Init => JobsInv
<1> SUFFICES ASSUME Init PROVE JobsInv
  OBVIOUS
<1>1. KernelHolds
  <2> DEFINE never == [state |-> "none", fork |-> 0, kind |-> "foreground"]
  <2>1. never \in Children /\ never.state = "none" /\ 0 \in 0..MaxForks
    BY JobsAssumption DEF Children
  <2>2. children = [p \in Pids |-> never]
    BY DEF Init
  <2> HIDE DEF never
  <2> QED BY <2>1, <2>2 DEF Init, KernelHolds
<1>2. table = EmptyTable /\ main = Idle /\ ~ Is("simple") /\ ~ Is("pipeline")
  BY IdleType DEF Init, Is
<1>3. Sound(EmptyTable)
  <2>1. EmptyTable \in Tables
    BY DEF EmptyTable, Tables
  <2>2. Slots(EmptyTable) = {} /\ Len(EmptyTable.jobs) = 0 /\ EmptyTable.slots = 0
        /\ EmptyTable.njobs = 0 /\ EmptyTable.firstj = 0 /\ EmptyTable.lastj = 0
        /\ Len(EmptyTable.bgpids) = 0
    BY DEF EmptyTable, Slots
  <2>3. Occupied(EmptyTable) = {}
    BY <2>2 DEF Occupied
  <2>4. Cardinality(Occupied(EmptyTable)) = 0
    BY <2>3, FS_EmptySet
  <2> QED BY <2>1, <2>2, <2>3, <2>4, JobTableAssumption DEF Sound, IndicesHold
<1>4. ShellHolds
  BY <1>2, IdleType DEF Init, ShellHolds, Is
<1> QED BY <1>1, <1>2, <1>3, <1>4 DEF JobsInv, TableHolds

LEMMA ExitHolds ==
  ASSUME JobsInv, NEW p \in Pids, Exit(p)
  PROVE  JobsInv'
<1>1. KernelHolds'
  <2>1. children[p] \in Children /\ children[p].fork # 0
    BY DEF JobsInv, KernelHolds, Exit
  <2> DEFINE ended == [children[p] EXCEPT !.state = "zombie"]
  <2>2. ended \in Children /\ ended.fork # 0
    BY <2>1 DEF Children
  <2>3. children' = [children EXCEPT ![p] = ended]
    BY DEF Exit
  <2> HIDE DEF ended
  <2>4. \A q \in Pids : children'[q] = IF q = p THEN ended ELSE children[q]
    BY <2>3 DEF JobsInv, KernelHolds
  <2> QED BY <2>2, <2>3, <2>4 DEF JobsInv, KernelHolds, Exit, counts
<1>2. TableHolds' /\ ShellHolds'
  BY DEF Exit, JobsInv, TableHolds, ShellHolds, signalling, Is
<1> QED BY <1>1, <1>2 DEF JobsInv

LEMMA HandlerHolds ==
  ASSUME JobsInv, Sigchld_handler
  PROVE  JobsInv'
<1> USE DEF JobsInv
<1>1. pending' = FALSE /\ UNCHANGED <<last_asynchronous_pid, queue_sigchld, forks>> /\ sigchld + 1 \in Nat
  BY DEF Sigchld_handler, ShellHolds
<1>2. CASE /\ queue_sigchld # 0
           /\ sigchld' = sigchld + 1
           /\ UNCHANGED <<children, table, main, signals, lost>>
  BY <1>1, <1>2 DEF KernelHolds, TableHolds, ShellHolds, Is
<1>3. CASE ReapAll(sigchld + 1) /\ UNCHANGED <<main, signals>>
  <2>1. /\ children' = Collected(In("zombie")) /\ lost' \subseteq 1..MaxForks
        /\ Sound(table') /\ Len(table'.the_pipeline) = Len(table.the_pipeline)
        /\ sigchld' \in Nat
    BY <1>1, <1>3, AllReaped DEF TableHolds
  <2>2. KernelHolds'
    BY <1>1, <1>3, <2>1, KernelCollects DEF KernelHolds
  <2>3. table'.the_pipeline \in Seq(Processes) /\ table.the_pipeline \in Seq(Processes)
    BY <2>1 DEF TableHolds, Sound, Tables
  <2>4. table.the_pipeline # <<>> => table'.the_pipeline # <<>>
    BY <2>1, <2>3
  <2>5. TableHolds'
    BY <1>3, <2>1, <2>4 DEF TableHolds, Is
  <2>6. ShellHolds'
    BY <1>1, <1>3, <2>1 DEF ShellHolds, Is
  <2> QED BY <2>2, <2>5, <2>6
<1>4. CASE queue_sigchld = 0 /\ ReapSome(sigchld + 1) /\ Interrupted
  <2>1. /\ \E pids : children' = Collected(pids)
        /\ lost' \subseteq 1..MaxForks
        /\ Sound(table') /\ sigchld' \in Nat
    BY <1>1, <1>4, SomeReaped DEF TableHolds
  <2>2. main' = Idle /\ signals' \in Nat /\ Idle \in Locals /\ Idle.pc = "idle"
    BY <1>4, LeftByTrap
  <2>3. KernelHolds'
    BY <1>1, <2>1, <2>2, KernelCollects
  <2>4. TableHolds' /\ ShellHolds'
    BY <1>1, <1>4, <2>1, <2>2 DEF TableHolds, ShellHolds, Is
  <2> QED BY <2>3, <2>4
<1> QED BY <1>2, <1>3, <1>4 DEF Sigchld_handler

LEMMA ChildMade ==
  ASSUME JobsInv, NEW p \in Pids, NEW async, NEW kind \in {"foreground", "background", "$!"},
         make_child(p, async, kind)
  PROVE  /\ KernelHolds'
         /\ Sound(table') /\ table'.the_pipeline # <<>>
         /\ last_asynchronous_pid' \in Pids \union {0}
         /\ UNCHANGED signalling
<1> USE DEF JobsInv
<1>1. PICK retried \in BOOLEAN :
        /\ children' = [(IF retried THEN Collected(In("zombie")) ELSE children)
                          EXCEPT ![p] = [state |-> "running", fork |-> forks', kind |-> kind]]
        /\ table' = AddedProcess(IF retried THEN AllRecorded(table, In("zombie")) ELSE table,
                                 p, forks')
  BY DEF make_child
<1>2. forks' \in 1..MaxForks /\ UNCHANGED <<pending, signalling, signals, lost>>
  BY JobsAssumption DEF make_child, KernelHolds
<1>3. KernelHolds'
  <2> DEFINE left == IF retried THEN Collected(In("zombie")) ELSE children
             child == [state |-> "running", fork |-> forks', kind |-> kind]
  <2>1. left \in [Pids -> Children] /\ \A q \in Pids : left[q].state # "none" => left[q].fork # 0
    BY CollectedHolds DEF KernelHolds
  <2>2. child \in Children /\ child.fork # 0
    BY <1>2 DEF Children
  <2>3. children' = [left EXCEPT ![p] = child]
    BY <1>1
  <2> HIDE DEF left, child
  <2>4. children' \in [Pids -> Children]
        /\ \A q \in Pids : children'[q] = IF q = p THEN child ELSE left[q]
    BY <2>1, <2>2, <2>3
  <2> QED BY <1>2, <2>1, <2>2, <2>4 DEF KernelHolds
<1>4. Sound(table') /\ table'.the_pipeline # <<>>
  <2> DEFINE found == IF retried THEN AllRecorded(table, In("zombie")) ELSE table
  <2>1. In("zombie") \in SUBSET Pids /\ \A q \in In("zombie") : children[q].fork \in 0..MaxForks
    BY ForkOf
  <2>2. Sound(found)
    BY <2>1, AllRecordedSound DEF TableHolds
  <2> HIDE DEF found
  <2>3. Sound(table') /\ Len(table'.the_pipeline) = Len(found.the_pipeline) + 1
    BY <1>1, <1>2, <2>2, ProcessAdded DEF found
  <2>4. found.the_pipeline \in Seq(Processes) /\ table'.the_pipeline \in Seq(Processes)
    BY <2>2, <2>3 DEF Sound, Tables
  <2> QED BY <2>3, <2>4
<1>5. last_asynchronous_pid' \in Pids \union {0}
  BY DEF make_child, ShellHolds
<1> QED BY <1>2, <1>3, <1>4, <1>5

LEMMA SimpleCommandHolds ==
  ASSUME JobsInv, NEW p \in Pids, SimpleCommand(p)
  PROVE  JobsInv'
<1>1. PICK caller \in Callers : /\ make_child(p, Async(caller), Kind(caller))
                                /\ main' = At("simple", caller, p)
  BY DEF SimpleCommand
<1>2. Is("idle") /\ Kind(caller) \in {"foreground", "background", "$!"}
  BY DEF SimpleCommand, Kind
<1>3. /\ KernelHolds'
      /\ Sound(table') /\ table'.the_pipeline # <<>>
      /\ last_asynchronous_pid' \in Pids \union {0}
      /\ UNCHANGED signalling
  BY <1>1, <1>2, ChildMade
<1>4. main' \in Locals /\ main'.pc = "simple"
  <2>1. "simple" \in Places /\ caller \in Names /\ p \in Pids \union {0, ANY_PID}
    BY DEF Callers, Places, Names
  <2> QED BY <1>1, <2>1, Located
<1> QED BY <1>2, <1>3, <1>4 DEF JobsInv, TableHolds, ShellHolds, Is, signalling

LEMMA PipelineHolds ==
  ASSUME JobsInv, NEW p \in Pids, Pipeline(p)
  PROVE  JobsInv'
<1>1. PICK caller \in Callers : /\ make_child(p, Async(caller), caller)
                                /\ main' = At("pipeline", caller, 0)
  BY DEF Pipeline
<1>2. Is("idle") /\ caller \in {"foreground", "background", "$!"}
  BY DEF Pipeline, Callers
<1>3. /\ KernelHolds'
      /\ Sound(table') /\ table'.the_pipeline # <<>>
      /\ last_asynchronous_pid' \in Pids \union {0}
      /\ UNCHANGED signalling
  BY <1>1, <1>2, ChildMade
<1>4. main' \in Locals /\ main'.pc = "pipeline"
  <2>1. "pipeline" \in Places /\ caller \in Names /\ 0 \in Pids \union {0, ANY_PID}
    BY DEF Callers, Places, Names
  <2> QED BY <1>1, <2>1, Located
<1> QED BY <1>2, <1>3, <1>4 DEF JobsInv, TableHolds, ShellHolds, Is, signalling

LEMMA PipelineNextHolds ==
  ASSUME JobsInv, NEW p \in Pids, PipelineNext(p)
  PROVE  JobsInv'
<1>1. Is("pipeline") /\ Kind(main.caller) \in {"foreground", "background", "$!"}
  BY DEF PipelineNext, Kind
<1>2. /\ KernelHolds'
      /\ Sound(table') /\ table'.the_pipeline # <<>>
      /\ last_asynchronous_pid' \in Pids \union {0}
      /\ UNCHANGED signalling
  BY <1>1, ChildMade DEF PipelineNext
<1>3. main' \in Locals /\ main'.pc = "pipeline"
  BY <1>1 DEF PipelineNext, JobsInv, ShellHolds, Locals, Is
<1> QED BY <1>1, <1>2, <1>3 DEF JobsInv, TableHolds, ShellHolds, Is, signalling

LEMMA StopSimpleHolds ==
  ASSUME JobsInv, StopSimple
  PROVE  JobsInv'
<1>1. KernelHolds'
  BY KernelKept DEF StopSimple, counts, JobsInv
<1>2. Sound(table')
  BY PipelineStopped DEF StopSimple, JobsInv, TableHolds, Async
<1>3. main \in Locals /\ main' = IF Async(main.caller) THEN Idle ELSE At("called", main.caller, main.pid)
  BY DEF StopSimple, JobsInv, ShellHolds
<1>4. main' \in Locals /\ main'.pc \in {"idle", "called"}
  <2>1. At("called", main.caller, main.pid) \in Locals /\ At("called", main.caller, main.pid).pc = "called"
    <3>1. "called" \in Places /\ main.caller \in Names /\ main.pid \in Pids \union {0, ANY_PID}
      BY <1>3 DEF Locals, Places
    <3> QED BY <3>1, Located
  <2> QED BY <1>3, <2>1, IdleType
<1> QED BY <1>1, <1>2, <1>4 DEF StopSimple, JobsInv, TableHolds, ShellHolds, Is, signalling

LEMMA StopPipelineHolds ==
  ASSUME JobsInv, StopPipeline
  PROVE  JobsInv'
<1>1. KernelHolds'
  BY KernelKept DEF StopPipeline, counts, JobsInv
<1>2. Sound(table')
  BY PipelineStopped DEF StopPipeline, JobsInv, TableHolds, Async
<1>3. main \in Locals /\ main' = IF Async(main.caller) THEN Idle ELSE [main EXCEPT !.pc = "wait_for"]
  BY DEF StopPipeline, JobsInv, ShellHolds
<1>4. main' \in Locals /\ main'.pc \in {"idle", "wait_for"}
  <2>1. [main EXCEPT !.pc = "wait_for"] \in Locals /\ [main EXCEPT !.pc = "wait_for"].pc = "wait_for"
    BY <1>3 DEF Locals, Places
  <2> QED BY <1>3, <2>1, IdleType
<1> QED BY <1>1, <1>2, <1>4 DEF StopPipeline, JobsInv, TableHolds, ShellHolds, Is, signalling

-------------------------------------------------------------------------------
(***************************************************************************)
(* The steps: wait_for and its waitchld                                    *)
(***************************************************************************)

LEMMA EnterHolds ==
  ASSUME JobsInv, Enter
  PROVE  JobsInv'
<1>1. main \in Locals /\ KernelHolds /\ Is("called")
  BY DEF JobsInv, ShellHolds, Enter
<1>2. main' \in Locals /\ main'.pc \in {"idle", "wait_for"} /\ signals' \in Nat
  <2>1. CASE main' = [main EXCEPT !.pc = "wait_for"] /\ UNCHANGED signals
    BY <1>1, <2>1 DEF Locals, Places, KernelHolds
  <2>2. CASE Interrupted
    BY <1>1, <2>2, LeftByTrap
  <2> QED BY <2>1, <2>2 DEF Enter
<1>3. KernelHolds'
  BY <1>1, <1>2 DEF KernelHolds, Enter, steady
<1> QED BY <1>1, <1>2, <1>3 DEF Enter, JobsInv, TableHolds, ShellHolds, Is, signalling, steady

LEMMA WaitForHolds ==
  ASSUME JobsInv, WaitFor
  PROVE  JobsInv'
<1> DEFINE job == find_job(table, main.pid, FALSE)
<1>1. main \in Locals /\ Is("wait_for") /\ Sound(table)
  BY DEF JobsInv, ShellHolds, TableHolds, WaitFor
<1>2. KernelHolds'
  BY KernelKept DEF WaitFor, steady, JobsInv
<1>3. CASE /\ queue_sigchld' = 1
           /\ main' = [main EXCEPT !.pc = "waitchld"]
           /\ UNCHANGED table
  <2>1. main' \in Locals /\ main'.pc = "waitchld"
    BY <1>1, <1>3 DEF Locals, Places
  <2> QED BY <1>1, <1>2, <1>3, <2>1 DEF WaitFor, JobsInv, TableHolds, ShellHolds, Is, steady
<1>4. CASE /\ Return(IF job = NO_JOB THEN NotFound ELSE LastProc(table, job).status)
           /\ table' = IF job = NO_JOB THEN table ELSE Cleaned(Notified(table))
           /\ UNCHANGED queue_sigchld
  <2>1. Sound(table')
    <3>1. Sound(Notified(table))
      BY <1>1, NotifiedSound
    <3>2. Sound(Cleaned(Notified(table)))
      BY <3>1, CleanedSound
    <3> QED BY <1>1, <1>4, <3>2
  <2> DEFINE result == IF job = NO_JOB THEN NotFound ELSE LastProc(table, job).status
  <2>2. result \in {-1, NotFound} \union 0..MaxForks
    <3>1. CASE job = NO_JOB
      BY <3>1
    <3>2. CASE job # NO_JOB
      <4>1. job \in Occupied(table)
        BY <1>1, <3>2, FindJob
      <4> HIDE DEF job
      <4>2. LastProc(table, job) \in Processes
        BY <1>1, <4>1, LastProcType
      <4> QED BY <3>2, <4>2 DEF Processes
    <3> QED BY <3>1, <3>2
  <2> HIDE DEF result
  <2>3. main' = [main EXCEPT !.pc = "returned", !.result = result, !.reaped = FALSE]
    BY <1>4 DEF Return, result
  <2>4. main' \in Locals /\ main'.pc = "returned"
    BY <1>1, <2>2, <2>3 DEF Locals, Places
  <2> QED BY <1>1, <1>2, <1>4, <2>1, <2>4 DEF WaitFor, JobsInv, TableHolds, ShellHolds, Is, steady
<1> QED BY <1>3, <1>4 DEF WaitFor

LEMMA Resumed ==
  ASSUME main \in Locals, Resume
  PROVE  main' \in Locals /\ main'.pc \in {"returned", "wait_for"} /\ queue_sigchld' = 0
BY DEF Resume, Locals, Places

LEMMA ReapOneHolds ==
  ASSUME JobsInv, NEW z \in Pids, ReapOne(z)
  PROVE  JobsInv'
<1>1. main \in Locals /\ Is("waitchld") /\ Sound(table) /\ KernelHolds /\ sigchld \in Nat
  BY DEF JobsInv, ShellHolds, TableHolds, ReapOne
<1>2. KernelHolds'
  <2>1. children' = Collected({z}) /\ UNCHANGED <<pending, signals, lost, forks>>
    BY DEF ReapOne, steady
  <2>2. pending' \in BOOLEAN /\ signals' \in Nat /\ lost' \subseteq 1..MaxForks
    BY <1>1, <2>1 DEF KernelHolds
  <2> QED BY <1>1, <2>1, <2>2, KernelCollects
<1>3. Sound(table')
  <2>1. children[z].fork \in 0..MaxForks
    BY <1>1, ForkOf
  <2> QED BY <1>1, <2>1, RecordedSound DEF ReapOne
<1>4. sigchld' \in Nat
  BY <1>1, LessType DEF ReapOne
<1>5. main' \in Locals /\ main'.pc \in {"waitchld", "returned", "wait_for"}
      /\ queue_sigchld' \in {0, queue_sigchld}
  <2>1. CASE main' = [main EXCEPT !.reaped = TRUE] /\ UNCHANGED queue_sigchld
    BY <1>1, <2>1 DEF Locals, Is
  <2>2. CASE Resume
    BY <1>1, <2>2, Resumed
  <2> QED BY <2>1, <2>2 DEF ReapOne
<1> QED BY <1>1, <1>2, <1>3, <1>4, <1>5 DEF ReapOne, JobsInv, TableHolds, ShellHolds, Is, steady

LEMMA ReapNoneHolds ==
  ASSUME JobsInv, ReapNone
  PROVE  JobsInv'
<1>1. main \in Locals /\ Is("waitchld") /\ Sound(table) /\ sigchld \in Nat
  BY DEF JobsInv, ShellHolds, TableHolds, ReapNone
<1>2. KernelHolds'
  BY KernelKept DEF ReapNone, steady, JobsInv
<1>3. sigchld' \in Nat
  BY <1>1 DEF ReapNone
<1>4. main' \in Locals /\ main'.pc \in {"returned", "wait_for"} /\ queue_sigchld' = 0
  BY <1>1, Resumed DEF ReapNone
<1> QED BY <1>1, <1>2, <1>3, <1>4 DEF ReapNone, JobsInv, TableHolds, ShellHolds, Is, steady

LEMMA NoChildrenHolds ==
  ASSUME JobsInv, NoChildren
  PROVE  JobsInv'
<1>1. main \in Locals /\ Is("waitchld") /\ Sound(table) /\ sigchld \in Nat
  BY DEF JobsInv, ShellHolds, TableHolds, NoChildren
<1>2. KernelHolds'
  BY KernelKept DEF NoChildren, steady, JobsInv
<1>3. sigchld' \in Nat
  BY <1>1, LessType DEF NoChildren
<1>4. Sound(NotAChild(table, main.pid))
  BY <1>1, NoChildRecorded
<1>5. /\ main' \in Locals /\ main'.pc \in {"returned", "wait_for"} /\ queue_sigchld' = 0
      /\ Sound(table')
  <2>1. CASE Resume /\ table' \in {table, NotAChild(table, main.pid)}
    BY <1>1, <1>4, <2>1, Resumed
  <2>2. CASE queue_sigchld' = 0 /\ Return(-1) /\ UNCHANGED table
    BY <1>1, <2>2 DEF Return, Locals, Places
  <2> QED BY <2>1, <2>2 DEF NoChildren
<1> QED BY <1>1, <1>2, <1>3, <1>5 DEF NoChildren, JobsInv, TableHolds, ShellHolds, Is, steady

LEMMA InterruptHolds ==
  ASSUME JobsInv, InterruptWaitchld
  PROVE  JobsInv'
<1>1. Is("waitchld") /\ Sound(table) /\ KernelHolds /\ sigchld \in Nat
      /\ UNCHANGED <<pending, table, queue_sigchld, last_asynchronous_pid, forks>>
  BY DEF JobsInv, ShellHolds, TableHolds, InterruptWaitchld, steady
<1>2. main' = Idle /\ signals' \in Nat /\ Idle \in Locals /\ Idle.pc = "idle"
  BY <1>1, LeftByTrap DEF InterruptWaitchld
<1>3. KernelHolds' /\ sigchld' \in Nat
  <2>1. CASE UNCHANGED <<children, sigchld, lost>>
    BY <1>1, <1>2, <2>1 DEF KernelHolds
  <2>2. CASE \E z \in In("zombie") :
               /\ children' = Collected({z})
               /\ lost' = lost \union {children[z].fork}
               /\ sigchld' = Less(sigchld, 1)
    <3>1. PICK z \in In("zombie") :
            /\ children' = Collected({z})
            /\ lost' = lost \union {children[z].fork}
            /\ sigchld' = Less(sigchld, 1)
      BY <2>2
    <3>2. children[z].fork \in 1..MaxForks
      BY <1>1, ForkOf
    <3>3. lost' \subseteq 1..MaxForks /\ pending' \in BOOLEAN
      BY <1>1, <3>1, <3>2 DEF KernelHolds
    <3>4. sigchld' \in Nat
      BY <1>1, <3>1, LessType
    <3>5. KernelHolds'
      BY <1>1, <1>2, <3>1, <3>3, KernelCollects
    <3> QED BY <3>4, <3>5
  <2> QED BY <2>1, <2>2 DEF InterruptWaitchld
<1> QED BY <1>1, <1>2, <1>3 DEF JobsInv, TableHolds, ShellHolds, Is

-------------------------------------------------------------------------------
(***************************************************************************)
(* The steps: the wait builtin, and between commands                       *)
(***************************************************************************)
\* Steps of the shell alone, after which the table is sound
LEMMA AloneHolds ==
  ASSUME JobsInv, UNCHANGED ignorant, Sound(table'), main' \in Locals, sigchld' = sigchld,
         main'.pc \notin {"simple", "pipeline"},
         queue_sigchld' \in IF main'.pc \in {"notify", "cleanup"} THEN 1..2 ELSE 0..1
  PROVE  JobsInv'
<1>1. KernelHolds'
  BY KernelKept DEF ignorant, steady, JobsInv
<1>2. TableHolds' /\ ShellHolds'
  BY DEF ignorant, steady, JobsInv, TableHolds, ShellHolds, Is
<1> QED BY <1>1, <1>2 DEF JobsInv

LEMMA Now ==
  ASSUME JobsInv
  PROVE  /\ main \in Locals /\ Sound(table) /\ sigchld \in Nat
         /\ main.pc \notin {"notify", "cleanup"} => queue_sigchld \in 0..1
         /\ main.pc \in {"notify", "cleanup"} => queue_sigchld \in 1..2
BY DEF JobsInv, TableHolds, ShellHolds, Is

LEMMA WaitSingleHolds ==
  ASSUME JobsInv, NEW p \in Pids, wait_for_single_pid(p)
  PROVE  JobsInv'
<1>1. Is("idle") /\ UNCHANGED <<table, signalling, ignorant>>
  BY DEF wait_for_single_pid
<1>2. /\ "called" \in Places /\ "returned" \in Places /\ "wait_for_single_pid" \in Names
      /\ p \in Pids \union {0, ANY_PID}
  BY DEF Places, Names
<1>3. CASE main' = At("called", "wait_for_single_pid", p)
  <2>1. main' \in Locals /\ main'.pc = "called"
    BY <1>2, <1>3, Located
  <2> QED BY <1>1, <2>1, Now, AloneHolds DEF signalling, Is
<1>4. CASE main' = [At("returned", "wait_for_single_pid", p) EXCEPT
                      !.result = IF bgp_search(table, p) < 0 THEN NotFound ELSE bgp_search(table, p)]
  <2> DEFINE result == IF bgp_search(table, p) < 0 THEN NotFound ELSE bgp_search(table, p)
             at == At("returned", "wait_for_single_pid", p)
  <2>1. result \in {-1, NotFound} \union 0..MaxForks
    BY Now, StatusFound
  <2>2. at \in Locals /\ at.pc = "returned"
    BY <1>2, Located
  <2> HIDE DEF result, at
  <2>3. main' = [at EXCEPT !.result = result]
    BY <1>4 DEF result, at
  <2>4. main' \in Locals /\ main'.pc = "returned"
    BY <2>1, <2>2, <2>3 DEF Locals
  <2> QED BY <1>1, <2>4, Now, AloneHolds DEF signalling, Is
<1> QED BY <1>3, <1>4 DEF wait_for_single_pid

LEMMA ReturnedHolds ==
  ASSUME JobsInv, Returned
  PROVE  JobsInv'
<1>1. Is("returned") /\ UNCHANGED <<signalling, ignorant>>
  BY DEF Returned
<1>2. main' \in Locals /\ main'.pc = "idle"
  BY IdleType DEF Returned
<1>3. Sound(table')
  BY Now, WaitedMarked DEF Returned
<1> QED BY <1>1, <1>2, <1>3, Now, AloneHolds DEF signalling, Is

LEMMA WaitAllHolds ==
  ASSUME JobsInv, wait_for_background_pids
  PROVE  JobsInv'
<1>1. Is("idle") /\ UNCHANGED <<table, signalling, ignorant>>
  BY DEF wait_for_background_pids
<1>2. "next job" \in Places /\ "wait_for_background_pids" \in Names
      /\ 0 \in Pids \union {0, ANY_PID}
  BY DEF Places, Names
<1>3. main' \in Locals /\ main'.pc = "next job"
  BY <1>2, Located DEF wait_for_background_pids
<1> QED BY <1>1, <1>3, Now, AloneHolds DEF signalling, Is

LEMMA NextJobHolds ==
  ASSUME JobsInv, NextJob
  PROVE  JobsInv'
<1> DEFINE job == Min(Background(table))
<1>1. /\ Is("next job") /\ Background(table) # {} /\ UNCHANGED <<table, signalling, ignorant>>
      /\ main' = [main EXCEPT !.pc = "called", !.pid = LastProc(table, job).pid]
  BY DEF NextJob
<1>2. Slots(table) \subseteq Nat
  BY Now, OccupiedFinite DEF Sound
<1>3. job \in Background(table)
  <2>1. Background(table) \in SUBSET Nat
    BY <1>2 DEF Background
  <2> QED BY <1>1, <2>1, MinOf
<1>4. job \in Occupied(table)
  BY <1>3, RunningIsJob DEF Background
<1> HIDE DEF job
<1>5. LastProc(table, job).pid \in Pids \union {0, ANY_PID}
  BY <1>4, Now, LastProcType DEF Processes
<1>6. main' \in Locals /\ main'.pc = "called"
  BY <1>1, <1>5, Now DEF Locals, Places
<1> QED BY <1>1, <1>6, Now, AloneHolds DEF signalling, Is

LEMMA JobWaitedHolds ==
  ASSUME JobsInv, JobWaited
  PROVE  JobsInv'
<1>1. /\ Is("returned") /\ main.caller = "wait_for_background_pids"
      /\ UNCHANGED <<signalling, ignorant>>
  BY DEF JobWaited
<1>2. "next job" \in Places /\ main.caller \in Names /\ 0 \in Pids \union {0, ANY_PID}
  BY Now DEF Places, Locals
<1>3. main' \in Locals /\ main'.pc = "next job"
  BY <1>2, Located DEF JobWaited
<1>4. Sound(table')
  <2> DEFINE marked == MarkWaited(table, main.pid)
  <2>1. Sound(marked)
    BY Now, WaitedMarked
  <2>2. table' = IF main.result = -1 THEN mark_all_jobs_as_dead(marked) ELSE marked
    BY DEF JobWaited
  <2> HIDE DEF marked
  <2> QED BY <2>1, <2>2, AllDeadSound
<1> QED BY <1>1, <1>3, <1>4, Now, AloneHolds DEF signalling, Is

LEMMA CleanupStarted ==
  ASSUME JobsInv, main.pc \notin {"notify", "cleanup"}, NEW t, Sound(t),
         NEW caller \in Names, StartCleanup(t, caller)
  PROVE  JobsInv'
<1>1. Sound(table') /\ UNCHANGED <<sigchld, ignorant>>
  BY CleanedSound DEF StartCleanup
<1>2. queue_sigchld' \in 1..2
  BY Now DEF StartCleanup
<1>3. "cleanup" \in Places /\ 0 \in Pids \union {0, ANY_PID}
  BY DEF Places
<1>4. At("cleanup", caller, 0) \in Locals /\ At("cleanup", caller, 0).pc = "cleanup"
  BY <1>3, Located
<1>5. main' = [At("cleanup", caller, 0) EXCEPT !.os = sigchld]
  BY DEF StartCleanup
<1>6. main' \in Locals /\ main'.pc = "cleanup"
  BY <1>4, <1>5, Now DEF Locals
<1> QED BY <1>1, <1>2, <1>6, AloneHolds

LEMMA NoMoreJobsHolds ==
  ASSUME JobsInv, NoMoreJobs
  PROVE  JobsInv'
<1>1. main.pc = "next job" /\ main.caller \in Names
  BY Now DEF NoMoreJobs, Is, Locals
<1>2. Sound(mark_dead_jobs_as_notified(table, TRUE, last_asynchronous_pid))
  BY Now, MarkDeadSound
<1> QED BY <1>1, <1>2, CleanupStarted DEF NoMoreJobs

LEMMA EndCleanupHolds ==
  ASSUME JobsInv, EndCleanup
  PROVE  JobsInv'
<1>1. /\ Is("cleanup") /\ KernelHolds /\ Sound(table) /\ sigchld \in Nat
      /\ queue_sigchld' \in 0..1 /\ Idle \in Locals /\ Idle.pc = "idle"
      /\ UNCHANGED <<pending, last_asynchronous_pid, forks>>
  BY Now, IdleType DEF EndCleanup, JobsInv, steady, Is
<1>2. CASE /\ main' = Idle
           /\ table' = Forgotten(table)
           /\ UNCHANGED <<children, sigchld, signals, lost>>
  <2>1. Sound(table')
    BY <1>1, <1>2, StatusesForgotten
  <2>2. KernelHolds'
    BY <1>1, <1>2, KernelKept
  <2> QED BY <1>1, <1>2, <2>1, <2>2 DEF JobsInv, TableHolds, ShellHolds, Is
<1>3. CASE /\ main' = Idle
           /\ children' = Collected(In("zombie"))
           /\ table' = Forgotten(AllRecorded(table, In("zombie")))
           /\ sigchld' = Less(sigchld, Cardinality(In("zombie")) + 1)
           /\ UNCHANGED <<signals, lost>>
  <2>1. In("zombie") \in SUBSET Pids /\ \A p \in In("zombie") : children[p].fork \in 0..MaxForks
    BY <1>1, ForkOf
  <2>2. Sound(AllRecorded(table, In("zombie")))
    BY <1>1, <2>1, AllRecordedSound
  <2>3. Sound(table')
    BY <1>3, <2>2, StatusesForgotten
  <2>4. Cardinality(In("zombie")) + 1 \in Nat
    BY <2>1, Counted
  <2>5. sigchld' \in Nat
    BY <1>1, <1>3, <2>4, LessType
  <2>6. pending' \in BOOLEAN /\ signals' \in Nat /\ lost' \subseteq 1..MaxForks
    BY <1>1, <1>3 DEF KernelHolds
  <2>7. KernelHolds'
    BY <1>1, <1>3, <2>6, KernelCollects
  <2> QED BY <1>1, <1>3, <2>3, <2>5, <2>7 DEF JobsInv, TableHolds, ShellHolds, Is
<1>4. CASE ReapSome(sigchld) /\ Interrupted
  <2>1. /\ \E pids : children' = Collected(pids)
        /\ lost' \subseteq 1..MaxForks
        /\ Sound(table') /\ sigchld' \in Nat
    BY <1>1, <1>4, SomeReaped
  <2>2. main' = Idle /\ signals' \in Nat
    BY <1>1, <1>4, LeftByTrap
  <2>3. pending' \in BOOLEAN
    BY <1>1 DEF KernelHolds
  <2>4. KernelHolds'
    BY <1>1, <2>1, <2>2, <2>3, KernelCollects
  <2> QED BY <1>1, <2>1, <2>2, <2>4 DEF JobsInv, TableHolds, ShellHolds, Is
<1> QED BY <1>2, <1>3, <1>4 DEF EndCleanup

LEMMA UnnotifiedDead ==
  ASSUME NEW t, Sound(t), NEW slots \in SUBSET {i \in Slots(t) : Dead(t, i)}, slots # {}
  PROVE  /\ Min(slots) \in Occupied(t)
         /\ Sound(delete_job(Notified(t), Min(slots), TRUE))
         /\ delete_job(Notified(t), Min(slots), TRUE).the_pipeline = t.the_pipeline
         /\ Carries(t, delete_job(Notified(t), Min(slots), TRUE))
         /\ Saves(t, delete_job(Notified(t), Min(slots), TRUE))
         /\ LastProc(t, Min(slots)).status \in {-1, NotFound} \union 0..MaxForks
<1> DEFINE i == Min(slots)
           u == Notified(t)
<1>1. slots \in SUBSET Nat
  BY OccupiedFinite DEF Sound
<1>2. i \in slots
  BY <1>1, MinOf
<1> HIDE DEF i
<1>3. i \in Slots(t) /\ Dead(t, i)
  BY <1>2
<1>4. /\ Sound(u) /\ i \in Slots(u) /\ Dead(u, i)
      /\ u.the_pipeline = t.the_pipeline /\ Carries(t, u) /\ Saves(t, u)
  BY <1>3, NotifiedSound
<1> HIDE DEF u
<1>5. i \in Occupied(t) /\ i \in Occupied(u)
  BY <1>3, <1>4, DeadIsJob
<1>6. LastProc(t, i) \in Processes
  BY <1>5, LastProcType
<1>7. Sound(delete_job(u, i, TRUE)) /\ delete_job(u, i, TRUE).the_pipeline = t.the_pipeline
  BY <1>4, <1>5, JobDeleted
<1>8. Carries(u, delete_job(u, i, TRUE))
  BY <1>4, <1>5, DeletedCarries
<1>9. Carries(t, delete_job(u, i, TRUE)) /\ Saves(t, delete_job(u, i, TRUE))
  <2>1. Saves(u, delete_job(u, i, TRUE))
    BY <1>4, <1>5, DeletedSaves
  <2> QED BY <1>4, <1>8, <2>1, CarriesOn, SavesOn
<1> QED BY <1>5, <1>6, <1>7, <1>9 DEF i, u, Processes

\* What a job reported by `wait -n' leaves
LEMMA Reported ==
  ASSUME JobsInv, main.pc \notin {"notify", "cleanup"}, UNCHANGED <<signalling, ignorant>>,
         Sound(table'), NEW caller \in Names, NEW result \in {-1, NotFound} \union 0..MaxForks,
         main' = [At("returned", caller, 0) EXCEPT !.result = result]
  PROVE  JobsInv'
<1>1. "returned" \in Places /\ 0 \in Pids \union {0, ANY_PID}
  BY DEF Places
<1>2. At("returned", caller, 0) \in Locals /\ At("returned", caller, 0).pc = "returned"
  BY <1>1, Located
<1>3. main' \in Locals /\ main'.pc = "returned"
  BY <1>2 DEF Locals
<1> QED BY <1>3, Now, AloneHolds DEF signalling

LEMMA WaitAnyHolds ==
  ASSUME JobsInv, wait_for_any_job
  PROVE  JobsInv'
<1>1. main.pc = "idle" /\ UNCHANGED <<signalling, ignorant>>
  BY DEF wait_for_any_job, Is
<1>2. CASE Unnotified(table) # {} /\ ReportJob(Min(Unnotified(table)))
  <2> DEFINE job == Min(Unnotified(table))
  <2>1. Unnotified(table) \in SUBSET {i \in Slots(table) : Dead(table, i)}
    BY DEF Unnotified
  <2>2. /\ Sound(delete_job(Notified(table), job, TRUE))
        /\ LastProc(table, job).status \in {-1, NotFound} \union 0..MaxForks
    BY <1>2, <2>1, Now, UnnotifiedDead
  <2>3. Sound(table') /\ main' = [At("returned", "wait_for_any_job", 0) EXCEPT
                                    !.result = LastProc(table, job).status]
    BY <1>2, <2>2 DEF ReportJob
  <2>4. "wait_for_any_job" \in Names
    BY DEF Names
  <2> HIDE DEF job
  <2> QED BY <1>1, <2>2, <2>3, <2>4, Reported
<1>3. CASE main' = At("any job", "wait_for_any_job", 0) /\ UNCHANGED table
  <2>1. "any job" \in Places /\ "wait_for_any_job" \in Names /\ 0 \in Pids \union {0, ANY_PID}
    BY DEF Places, Names
  <2>2. main' \in Locals /\ main'.pc = "any job"
    BY <1>3, <2>1, Located
  <2> QED BY <1>1, <1>3, <2>2, Now, AloneHolds DEF signalling
<1> QED BY <1>2, <1>3 DEF wait_for_any_job

LEMMA AnyJobHolds ==
  ASSUME JobsInv, AnyJob
  PROVE  JobsInv'
<1>1. main.pc = "any job" /\ main.caller \in Names /\ UNCHANGED <<table, signalling, ignorant>>
  BY Now DEF AnyJob, Is, Locals
<1>2. CASE main' = At("called", main.caller, ANY_PID)
  <2>1. "called" \in Places /\ ANY_PID \in Pids \union {0, ANY_PID}
    BY DEF Places
  <2>2. main' \in Locals /\ main'.pc = "called"
    BY <1>1, <1>2, <2>1, Located
  <2> QED BY <1>1, <2>2, Now, AloneHolds DEF signalling
<1>3. CASE main' = [At("returned", main.caller, 0) EXCEPT !.result = -1]
  BY <1>1, <1>3, Now, Reported
<1> QED BY <1>2, <1>3 DEF AnyJob

LEMMA AnyWaitedHolds ==
  ASSUME JobsInv, AnyWaited
  PROVE  JobsInv'
<1> DEFINE t == IF main.result = -1 THEN mark_all_jobs_as_dead(table) ELSE table
           dead == {i \in Slots(t) : Dead(t, i)}
<1>1. main.pc = "returned" /\ main.caller \in Names /\ UNCHANGED <<signalling, ignorant>>
  BY Now DEF AnyWaited, Is, Locals
<1>2. Sound(t)
  BY Now, AllDeadSound
<1>3. \/ /\ dead # {}
         /\ table' = delete_job(Notified(t), Min(dead), TRUE)
         /\ main' = [At("returned", main.caller, 0) EXCEPT !.result = LastProc(t, Min(dead)).status]
      \/ /\ dead = {}
         /\ table' = t /\ main' = At("any job", main.caller, 0)
  BY DEF AnyWaited
<1> HIDE DEF t
<1>4. CASE /\ dead # {}
           /\ table' = delete_job(Notified(t), Min(dead), TRUE)
           /\ main' = [At("returned", main.caller, 0) EXCEPT !.result = LastProc(t, Min(dead)).status]
  <2>1. dead \in SUBSET {i \in Slots(t) : Dead(t, i)}
    OBVIOUS
  <2> HIDE DEF dead
  <2>2. /\ Sound(delete_job(Notified(t), Min(dead), TRUE))
        /\ LastProc(t, Min(dead)).status \in {-1, NotFound} \union 0..MaxForks
    BY <1>2, <1>4, <2>1, UnnotifiedDead
  <2> QED BY <1>1, <1>4, <2>2, Reported
<1>5. CASE table' = t /\ main' = At("any job", main.caller, 0)
  <2>1. "any job" \in Places /\ 0 \in Pids \union {0, ANY_PID}
    BY DEF Places
  <2>2. main' \in Locals /\ main'.pc = "any job"
    BY <1>1, <1>5, <2>1, Located
  <2> QED BY <1>1, <1>2, <1>5, <2>2, Now, AloneHolds DEF signalling
<1> QED BY <1>3, <1>4, <1>5

LEMMA AnyReturnedHolds ==
  ASSUME JobsInv, AnyReturned
  PROVE  JobsInv'
<1>1. main.pc = "returned" /\ UNCHANGED <<table, signalling, ignorant>>
  BY DEF AnyReturned, Is
<1>2. main' \in Locals /\ main'.pc = "idle"
  BY IdleType DEF AnyReturned
<1> QED BY <1>1, <1>2, Now, AloneHolds DEF signalling

LEMMA NotifyHolds ==
  ASSUME JobsInv, Notify
  PROVE  JobsInv'
<1>1. main.pc = "idle" /\ UNCHANGED <<sigchld, ignorant>> /\ main' = At("notify", "none", 0)
  BY DEF Notify, Is
<1>2. "notify" \in Places /\ "none" \in Names /\ 0 \in Pids \union {0, ANY_PID}
  BY DEF Places, Names
<1>3. main' \in Locals /\ main'.pc = "notify"
  BY <1>1, <1>2, Located
<1>4. Sound(table')
  BY Now, NotifiedSound DEF Notify
<1>5. queue_sigchld' \in 1..2
  BY <1>1, Now DEF Notify
<1> QED BY <1>1, <1>3, <1>4, <1>5, AloneHolds

LEMMA EndNotifyHolds ==
  ASSUME JobsInv, EndNotify
  PROVE  JobsInv'
<1>1. /\ main.pc = "notify" /\ UNCHANGED <<signalling, ignorant>>
      /\ main' = [At("cleanup", "none", 0) EXCEPT !.os = sigchld]
  BY DEF EndNotify, Is
<1>2. "cleanup" \in Places /\ "none" \in Names /\ 0 \in Pids \union {0, ANY_PID}
  BY DEF Places, Names
<1>3. At("cleanup", "none", 0) \in Locals /\ At("cleanup", "none", 0).pc = "cleanup"
  BY <1>2, Located
<1>4. main' \in Locals /\ main'.pc = "cleanup"
  BY <1>1, <1>3, Now DEF Locals
<1>5. Sound(table')
  BY Now, CleanedSound DEF EndNotify
<1> QED BY <1>1, <1>4, <1>5, Now, AloneHolds DEF signalling

LEMMA ReapDeadHolds ==
  ASSUME JobsInv, reap_dead_jobs
  PROVE  JobsInv'
<1>1. main.pc = "idle" /\ "none" \in Names
  BY DEF reap_dead_jobs, Is, Names
<1>2. Sound(mark_dead_jobs_as_notified(table, FALSE, last_asynchronous_pid))
  BY Now, MarkDeadSound
<1> QED BY <1>1, <1>2, CleanupStarted DEF reap_dead_jobs

-------------------------------------------------------------------------------
(***************************************************************************)
(* The theorems                                                            *)
(***************************************************************************)
LEMMA StepHolds ==
  ASSUME JobsInv, [Next]_vars
  PROVE  JobsInv'
<1>1. CASE UNCHANGED vars
  BY <1>1 DEF vars, counts, signalling, JobsInv, KernelHolds, TableHolds, ShellHolds, Is
<1>2. CASE Commands
  BY <1>2, SimpleCommandHolds, PipelineHolds, WaitSingleHolds, WaitAllHolds, WaitAnyHolds,
     NotifyHolds, ReapDeadHolds DEF Commands
<1>3. CASE Steps
  <2>1. CASE StopSimple \/ StopPipeline \/ Enter \/ WaitFor \/ ReapNone \/ NoChildren
    BY <2>1, StopSimpleHolds, StopPipelineHolds, EnterHolds, WaitForHolds, ReapNoneHolds,
       NoChildrenHolds
  <2>2. CASE \E p \in Pids : PipelineNext(p) \/ ReapOne(p)
    BY <2>2, PipelineNextHolds, ReapOneHolds
  <2>3. CASE Returned \/ NextJob \/ JobWaited \/ NoMoreJobs \/ EndCleanup
    BY <2>3, ReturnedHolds, NextJobHolds, JobWaitedHolds, NoMoreJobsHolds, EndCleanupHolds
  <2>4. CASE AnyJob \/ AnyWaited \/ AnyReturned \/ EndNotify
    BY <2>4, AnyJobHolds, AnyWaitedHolds, AnyReturnedHolds, EndNotifyHolds
  <2> QED BY <1>3, <2>1, <2>2, <2>3, <2>4 DEF Steps
<1>4. CASE Sigchld_handler
  BY <1>4, HandlerHolds
<1>5. CASE InterruptWaitchld
  BY <1>5, InterruptHolds
<1>6. CASE \E p \in Pids : Exit(p)
  BY <1>6, ExitHolds
<1> QED BY <1>1, <1>2, <1>3, <1>4, <1>5, <1>6 DEF Next

\* In every state between two steps the kernel, the table and the shell are as JobsInv
\* says: above all, js and the slots agree after every function of jobs.c that takes
\* jobs out of the table, moves them or puts one in.
THEOREM JobsInvariant == Spec => []JobsInv
<1>1. Init => JobsInv
  BY Starts
<1>2. JobsInv /\ [Next]_vars => JobsInv'
  BY StepHolds
<1> QED BY <1>1, <1>2, PTL DEF Spec

LEMMA InvariantSound == JobsInv => TableSound
<1> SUFFICES ASSUME JobsInv PROVE TableSound
  OBVIOUS
<1> DEFINE occupied == {i \in Slots(table) : IsJob(table, i)}
<1>1. Sound(table) /\ KernelHolds /\ ShellHolds /\ main \in Locals
  BY DEF JobsInv, TableHolds, ShellHolds
<1>2. occupied = Occupied(table)
  BY DEF Occupied
<1> HIDE DEF occupied
<1>3. occupied \in SUBSET Nat /\ \A i \in occupied : table.firstj <= i /\ i <= table.lastj
  BY <1>1, <1>2, OccupiedFinite DEF Sound, IndicesHold, Occupied
<1>4. occupied # {} => table.firstj \in occupied /\ table.lastj \in occupied
  BY <1>1, <1>2 DEF Sound, IndicesHold
<1>5. occupied # {} => table.firstj = Min(occupied) /\ table.lastj = Max(occupied)
  <2> SUFFICES ASSUME occupied # {}
               PROVE  table.firstj = Min(occupied) /\ table.lastj = Max(occupied)
    OBVIOUS
  <2>1. Min(occupied) \in occupied /\ \A k \in occupied : Min(occupied) <= k
    BY <1>3, MinOf
  <2>2. table.lastj \in Nat /\ occupied \in SUBSET (0..table.lastj)
    <3>1. \A k \in occupied : k \in Nat /\ k <= table.lastj
      BY <1>3
    <3>2. table.lastj \in Nat
      BY <1>4, <3>1
    <3> QED BY <3>1, <3>2
  <2>3. Max(occupied) \in occupied /\ \A k \in occupied : k <= Max(occupied)
    BY <2>2, MaxOf
  <2>4. table.firstj \in occupied /\ table.lastj \in occupied
    BY <1>4
  <2>5. table.firstj <= Min(occupied) /\ Min(occupied) <= table.firstj
        /\ table.lastj <= Max(occupied) /\ Max(occupied) <= table.lastj
    BY <1>3, <2>1, <2>3, <2>4
  <2>6. /\ table.firstj \in Nat /\ table.lastj \in Nat
        /\ Min(occupied) \in Nat /\ Max(occupied) \in Nat
    BY <1>3, <2>1, <2>3, <2>4
  <2> QED BY ONLY <2>5, <2>6
<1>6. table.njobs = Cardinality(occupied)
  BY <1>1, <1>2 DEF Sound, IndicesHold
<1>7. TypeOK
  <2>1. \A i \in Slots(table) : JobType(Job(table, i))
    <3>1. \A i \in Slots(table) : Job(table, i) \in JobT
      BY <1>1, SlotOf
    <3> QED BY <3>1 DEF JobT, JobType
  <2>2. \A k \in DOMAIN table.bgpids : table.bgpids[k].pid \in Pids \union {0}
    <3>1. table.bgpids \in Seq(Saved)
      BY <1>1 DEF Sound, Tables
    <3>2. \A k \in DOMAIN table.bgpids : table.bgpids[k] \in Saved
      BY <3>1
    <3> QED BY <3>2 DEF Saved
  <2>3. table.slots > 0 => {table.firstj, table.lastj} \subseteq Slots(table)
    <3>1. CASE Occupied(table) = {}
      <4>1. table.firstj = 0 /\ table.lastj = 0 /\ table.slots \in Nat
        BY <1>1, <3>1 DEF Sound, IndicesHold, Tables
      <4> QED BY <4>1 DEF Slots
    <3>2. CASE Occupied(table) # {}
      BY <1>1, <3>2 DEF Sound, IndicesHold, Occupied
    <3> QED BY <3>1, <3>2
  <2>4. Len(table.jobs) = table.slots /\ Len(table.bgpids) <= ChildMax
    BY <1>1 DEF Sound, IndicesHold
  <2>5. sigchld \in Nat /\ queue_sigchld \in 0..2 /\ last_asynchronous_pid \in Pids \union {0}
    BY <1>1 DEF ShellHolds
  <2>6. main.pid \in Pids \union {0, ANY_PID} /\ main.result \in {-1, NotFound} \union 0..MaxForks
    BY <1>1 DEF Locals
  <2> QED BY <1>1, <2>1, <2>2, <2>3, <2>4, <2>5, <2>6 DEF TypeOK, KernelHolds, Children
<1> QED BY <1>5, <1>6, <1>7 DEF TableSound, occupied

\* js says where the jobs are, for every number of slots, processes and saved statuses.
THEOREM TableIsSound == Spec => []TableSound
<1>1. Spec => []JobsInv
  BY JobsInvariant
<1> QED BY <1>1, InvariantSound, PTL

-------------------------------------------------------------------------------
(***************************************************************************)
(* What the shell knows of its children.  ch are the children the kernel   *)
(* has, and l the forks that were lost.                                    *)
(***************************************************************************)
\* A process with a number is the last one of that number, and a child as long as it
\* is marked running.
ProcessKnown(p, ch, l) ==
  /\ p.pid # 0 => p.fork = ch[p.pid].fork
  /\ p.running /\ p.fork \notin l => p.pid # 0 /\ ch[p.pid].state # "none"

\* What is recorded of one that is not is its status, if none of the pipeline was lost.
PipeKnown(pipe, ch, l) ==
  /\ \A k \in DOMAIN pipe : ProcessKnown(pipe[k], ch, l)
  /\ (\A k \in DOMAIN pipe : pipe[k].fork \notin l)
       => \A k \in DOMAIN pipe : ~ pipe[k].running => pipe[k].status = pipe[k].fork

JobKnown(pipe, state, ch, l) ==
  /\ PipeKnown(pipe, ch, l)
  /\ state = "JDEAD" => \A k \in DOMAIN pipe : pipe[k].running => pipe[k].fork \in l
  /\ state = "JRUNNING" => \E k \in DOMAIN pipe : pipe[k].running

JobsKnown(t, ch, l) ==
  \A i \in Occupied(t) :
    /\ JobKnown(Job(t, i).pipe, Job(t, i).state, ch, l)
    /\ PipeApart(Job(t, i).pipe) /\ PipesApart(Job(t, i).pipe, t.the_pipeline)

TableKnown(t, ch, l) ==
  /\ JobsKnown(t, ch, l) /\ JobsApart(t)
  /\ PipeKnown(t.the_pipeline, ch, l) /\ PipeApart(t.the_pipeline)

\* Forks are numbered as they are made, and a child that the kernel has was not lost.
ForksHold ==
  /\ lost \subseteq 1..forks
  /\ \A p \in Pids : children[p].fork <= forks
  /\ \A p, q \in Pids : children[p].fork = children[q].fork /\ p # q => children[p].fork = 0
  /\ \A p \in Pids : children[p].state # "none" => children[p].fork \notin lost

NoChild == \A p \in Pids : children[p].state = "none"

\* What is waited for is in the table, and there is something to wait for.
Waiting == main.pc \in {"called", "wait_for", "waitchld"}

WaitHolds ==
  /\ Is("simple") \/ (Is("pipeline") /\ main.pid # 0) => Building(table, main.pid)
  /\ Waiting /\ main.pid # ANY_PID => Holds(table, main.pid)
  /\ (Waiting /\ main.pid = ANY_PID) \/ Is("any job") => main.caller = "wait_for_any_job"
  /\ Waiting \/ main.pc \in {"pipeline", "next job"} => main.result = 0
  /\ Is("waitchld") /\ main.pid # ANY_PID /\ ~ main.reaped
       => Waits(find_job(table, main.pid, FALSE))
  /\ Is("returned") /\ main.result = -1
       => \/ NoChild
          \/ main.caller = "wait_for_single_pid"
          \/ main.caller = "wait_for_any_job" /\ main.pid = 0

\* What the shell believes of its children, and what the kernel does.
Believed == ForksHold /\ TableKnown(table, children, lost) /\ WaitHolds

KnownInv == JobsInv /\ Believed

-------------------------------------------------------------------------------
(***************************************************************************)
(* What `wait' can report: the children the table knows, and the statuses. *)
(***************************************************************************)
\* A process of that number lives, in a job or in the pipeline that is built.
Attended(t, p) ==
  Living(t.the_pipeline, p) # {} \/ \E i \in Occupied(t) : Living(Job(t, i).pipe, p) # {}

\* The processes were made as the job says, that of $! last, and in the background the
\* status of one that has ended is its own.
PipeReports(pipe, foreground, ch) ==
  \A k \in DOMAIN pipe :
    /\ pipe[k].pid # 0 => /\ ch[pipe[k].pid].kind = "foreground" <=> foreground
                          /\ ch[pipe[k].pid].kind = "$!" => k = Len(pipe)
    /\ ~ foreground => pipe[k].status = IF pipe[k].running THEN 0 ELSE pipe[k].fork

\* A saved status of the number of $! is its own, or that of a process that was lost.
SavedReports(s, ch, l) ==
  s.pid # 0 /\ ch[s.pid].kind = "$!"
    => s.status = ch[s.pid].fork \/ (s.status = 0 /\ ch[s.pid].fork \in l)

TableReports(t, ch, l) ==
  /\ \A p \in Pids : ch[p].state # "none" => Attended(t, p)
  /\ \A i \in Occupied(t) : PipeReports(Job(t, i).pipe, Job(t, i).foreground, ch)
  /\ \A n \in DOMAIN t.bgpids : SavedReports(t.bgpids[n], ch, l)
  /\ SavedApart(t)

-------------------------------------------------------------------------------
(***************************************************************************)
(* Processes that end: what stays known                                    *)
(***************************************************************************)
LEMMA PipeProcess ==
  ASSUME NEW pipe \in Seq(Processes), NEW k \in DOMAIN pipe
  PROVE  /\ pipe[k] \in Processes /\ pipe[k].pid \in Pids \union {0} /\ pipe[k].pid # ANY_PID
         /\ k \in 1..Len(pipe)
<1>1. pipe[k] \in Processes /\ k \in 1..Len(pipe)
  OBVIOUS
<1>2. pipe[k].pid \in Pids \union {0}
  BY <1>1 DEF Processes
<1> QED BY <1>1, <1>2, JobsAssumption DEF ANY_PID

\* The pipelines of a table are pipelines of processes.
LEMMA PipesOf ==
  ASSUME NEW t, Sound(t)
  PROVE  /\ t.the_pipeline \in Seq(Processes)
         /\ \A i \in Occupied(t) : /\ Job(t, i).pipe \in Seq(Processes) /\ Job(t, i).pipe # <<>>
                                   /\ Job(t, i).state \in {"JRUNNING", "JDEAD"}
<1>1. \A i \in Occupied(t) : Made(Job(t, i))
  BY DEF Sound, IndicesHold
<1> QED BY <1>1 DEF Sound, Tables, Made, JobT

\* The children of the kernel, before and after those in S are collected
Gone(ch, left, S) ==
  \A p \in Pids : /\ left[p].fork = ch[p].fork
                  /\ p \notin S /\ ch[p].state # "none" => left[p].state # "none"

\* What is collected and thrown away is lost.
LEMMA PipeLost ==
  ASSUME NEW pipe \in Seq(Processes), NEW ch, NEW left, NEW S \in SUBSET Pids, Gone(ch, left, S),
         NEW l, NEW state, JobKnown(pipe, state, ch, l)
  PROVE  JobKnown(pipe, state, left, l \union {ch[p].fork : p \in S})
<1> DEFINE now == l \union {ch[p].fork : p \in S}
<1>1. ASSUME NEW k \in DOMAIN pipe PROVE ProcessKnown(pipe[k], left, now)
  <2>1. ProcessKnown(pipe[k], ch, l) /\ pipe[k].pid \in Pids \union {0}
    BY PipeProcess DEF JobKnown, PipeKnown
  <2>2. pipe[k].pid # 0 => pipe[k].fork = left[pipe[k].pid].fork
    BY <2>1 DEF ProcessKnown, Gone
  <2>3. ASSUME pipe[k].running, pipe[k].fork \notin now
        PROVE  pipe[k].pid # 0 /\ left[pipe[k].pid].state # "none"
    <3>1. pipe[k].pid # 0 /\ ch[pipe[k].pid].state # "none" /\ pipe[k].fork = ch[pipe[k].pid].fork
      BY <2>1, <2>3 DEF ProcessKnown
    <3>2. pipe[k].pid \in Pids /\ pipe[k].pid \notin S
      BY <2>1, <2>3, <3>1
    <3> QED BY <3>1, <3>2 DEF Gone
  <2> QED BY <2>2, <2>3 DEF ProcessKnown
<1>2. (\A k \in DOMAIN pipe : pipe[k].fork \notin now) => \A k \in DOMAIN pipe : pipe[k].fork \notin l
  OBVIOUS
<1>3. l \subseteq now
  OBVIOUS
<1> HIDE DEF now
<1>4. PipeKnown(pipe, left, now)
  BY <1>1, <1>2 DEF JobKnown, PipeKnown
<1>5. JobKnown(pipe, state, left, now)
  BY <1>3, <1>4 DEF JobKnown
<1> QED BY <1>5 DEF now

LEMMA TableLost ==
  ASSUME NEW t, Sound(t), NEW ch, NEW left, NEW S \in SUBSET Pids, Gone(ch, left, S), NEW l,
         TableKnown(t, ch, l)
  PROVE  TableKnown(t, left, l \union {ch[p].fork : p \in S})
<1> DEFINE now == l \union {ch[p].fork : p \in S}
<1>1. \A i \in Occupied(t) : JobKnown(Job(t, i).pipe, Job(t, i).state, left, now)
  BY PipesOf, PipeLost DEF TableKnown, JobsKnown
<1>2. PipeKnown(t.the_pipeline, left, now)
  <2>1. JobKnown(t.the_pipeline, "JNONE", ch, l)
    BY DEF TableKnown, JobKnown
  <2>2. JobKnown(t.the_pipeline, "JNONE", left, now)
    BY <2>1, PipesOf, PipeLost
  <2> QED BY <2>2 DEF JobKnown
<1> HIDE DEF now
<1>3. TableKnown(t, left, now)
  BY <1>1, <1>2 DEF TableKnown, JobsKnown
<1> QED BY <1>3 DEF now

\* Nothing is lost when children end and are collected with all their traces.
LEMMA TableKept ==
  ASSUME NEW t, Sound(t), NEW ch, NEW left, Gone(ch, left, {}), NEW l, TableKnown(t, ch, l)
  PROVE  TableKnown(t, left, l)
<1> DEFINE none == {}
<1>1. none \in SUBSET Pids /\ l \union {ch[p].fork : p \in none} = l
  OBVIOUS
<1>2. Gone(ch, left, none)
  OBVIOUS
<1> HIDE DEF none
<1>3. TableKnown(t, left, l \union {ch[p].fork : p \in none})
  BY <1>1, <1>2, TableLost
<1> QED BY <1>1, <1>3

\* What holds of the jobs carries over.
LEMMA TableCarried ==
  ASSUME NEW t, NEW u, Sound(t), Sound(u), Carries(t, u), u.the_pipeline = t.the_pipeline,
         NEW ch, NEW l, TableKnown(t, ch, l)
  PROVE  TableKnown(u, ch, l)
<1> DEFINE Good(pipe, state) == /\ JobKnown(pipe, state, ch, l) /\ PipeApart(pipe)
                                /\ PipesApart(pipe, t.the_pipeline)
           G == {j \in Seq(Processes) \X {"JRUNNING", "JDEAD"} : Good(j[1], j[2])}
           P == {j \in Seq(Processes) \X Seq(Processes) : PipesApart(j[1], j[2])}
<1>1. \A pipe, state : <<pipe, state>> \in G => Good(pipe, state)
  OBVIOUS
<1>2. \A pipe, other : <<pipe, other>> \in P => PipesApart(pipe, other)
  OBVIOUS
<1>3. \A pipe \in Seq(Processes), state \in {"JRUNNING", "JDEAD"} : Good(pipe, state) => <<pipe, state>> \in G
  OBVIOUS
<1>4. \A pipe, other \in Seq(Processes) : PipesApart(pipe, other) => <<pipe, other>> \in P
  OBVIOUS
<1>5. \A i \in Occupied(t) : Good(Job(t, i).pipe, Job(t, i).state)
  BY DEF TableKnown, JobsKnown
<1> HIDE DEF G, P, Good
<1>6. Within(t, G, P)
  BY <1>3, <1>4, <1>5, PipesOf DEF Within, TableKnown, JobsApart
<1>7. Within(u, G, P)
  BY <1>6 DEF Carries
<1>8. \A i \in Occupied(u) : Good(Job(u, i).pipe, Job(u, i).state)
  BY <1>1, <1>7 DEF Within
<1>9. JobsApart(u)
  BY <1>2, <1>7 DEF Within, JobsApart
<1>10. JobsKnown(u, ch, l)
  BY <1>8 DEF JobsKnown, Good
<1> QED BY <1>9, <1>10 DEF TableKnown

\* The processes of a pipeline are changed, but not their numbers.
SamePids(pipe, other) ==
  DOMAIN other = DOMAIN pipe /\ \A k \in DOMAIN pipe : other[k].pid = pipe[k].pid

LEMMA SameApart ==
  ASSUME NEW pipe, NEW other, SamePids(pipe, other)
  PROVE  /\ PipeApart(pipe) => PipeApart(other)
         /\ \A third : PipesApart(pipe, third) => PipesApart(other, third)
         /\ \A third : PipesApart(third, pipe) => PipesApart(third, other)
         /\ \A pid : Has(pipe, pid) => Has(other, pid)
BY DEF SamePids, PipeApart, PipesApart, Has

EndedAt(pipe, ended, k, status) ==
  /\ SamePids(pipe, ended) /\ ended \in Seq(Processes)
  /\ ended[k].fork = pipe[k].fork /\ ended[k].status = status /\ ended[k].running = FALSE
  /\ \A n \in DOMAIN pipe \ {k} : ended[n] = pipe[n]

LEMMA EndedProcess ==
  ASSUME NEW pipe \in Seq(Processes), NEW k \in DOMAIN pipe, NEW status \in 0..MaxForks
  PROVE  EndedAt(pipe, Ended(pipe, k, status), k, status)
<1> DEFINE p == [pipe[k] EXCEPT !.status = status, !.running = FALSE]
           ended == [pipe EXCEPT ![k] = p]
<1>1. pipe[k] \in Processes /\ k \in 1..Len(pipe)
  BY PipeProcess
<1>2. /\ p \in Processes /\ p.pid = pipe[k].pid /\ p.fork = pipe[k].fork
      /\ p.status = status /\ p.running = FALSE
  BY <1>1 DEF Processes
<1>3. Ended(pipe, k, status) = ended
  BY <1>1 DEF Ended, Processes
<1> HIDE DEF p
<1>4. /\ ended \in Seq(Processes) /\ DOMAIN ended = DOMAIN pipe
      /\ ended[k] = p /\ \A n \in DOMAIN pipe \ {k} : ended[n] = pipe[n]
  BY <1>1, <1>2
<1> HIDE DEF ended
<1>5. SamePids(pipe, ended)
  BY <1>2, <1>4 DEF SamePids
<1> QED BY <1>2, <1>3, <1>4, <1>5 DEF EndedAt

\* A child that is collected is recorded of a process of its number: what is known stays.
LEMMA EndedKnown ==
  ASSUME NEW pipe \in Seq(Processes), NEW ch, NEW left, NEW l, NEW x \in Pids,
         Gone(ch, left, {x}), ch[x].fork \in 0..MaxForks, NEW k \in DOMAIN pipe, pipe[k].pid = x,
         PipeKnown(pipe, ch, l), PipeApart(pipe)
  PROVE  PipeKnown(Ended(pipe, k, ch[x].fork), left, l)
<1> DEFINE ended == Ended(pipe, k, ch[x].fork)
<1>1. /\ SamePids(pipe, ended) /\ ended[k].fork = pipe[k].fork
      /\ ended[k].status = ch[x].fork /\ ended[k].running = FALSE
      /\ \A n \in DOMAIN pipe \ {k} : ended[n] = pipe[n]
  <2>1. EndedAt(pipe, ended, k, ch[x].fork)
    BY EndedProcess
  <2> HIDE DEF ended
  <2> QED BY <2>1 DEF EndedAt
<1> HIDE DEF ended
<1>2. x # 0 /\ pipe[k].fork = ch[x].fork /\ left[x].fork = ch[x].fork
  BY JobsAssumption DEF PipeKnown, ProcessKnown, Gone
<1>3. ASSUME NEW n \in DOMAIN pipe \ {k} PROVE ProcessKnown(pipe[n], left, l)
  <2>1. pipe[n].pid # x
    BY <1>2 DEF PipeApart
  <2>2. pipe[n].pid \in Pids \union {0} /\ ProcessKnown(pipe[n], ch, l)
    BY PipeProcess DEF PipeKnown
  <2> QED BY <2>1, <2>2 DEF ProcessKnown, Gone
<1>4. ProcessKnown(ended[k], left, l)
  BY <1>1, <1>2 DEF ProcessKnown, SamePids
<1>5. \A n \in DOMAIN ended : ProcessKnown(ended[n], left, l)
  BY <1>1, <1>3, <1>4 DEF SamePids
<1>6. ASSUME \A n \in DOMAIN ended : ended[n].fork \notin l, NEW n \in DOMAIN ended, ~ ended[n].running
      PROVE  ended[n].status = ended[n].fork
  <2>1. \A m \in DOMAIN pipe : ended[m].fork = pipe[m].fork
    BY <1>1
  <2>2. \A m \in DOMAIN pipe : pipe[m].fork \notin l
    BY <2>1, <1>1, <1>6 DEF SamePids
  <2>3. CASE n = k
    BY <2>3, <1>1, <1>2
  <2>4. CASE n # k
    BY <2>2, <2>4, <1>1, <1>6 DEF SamePids, PipeKnown
  <2> QED BY <2>3, <2>4
<1>7. PipeKnown(ended, left, l)
  BY <1>5, <1>6 DEF PipeKnown
<1> QED BY <1>7 DEF ended

\* A pipeline in which no process of that number lives
LEMMA OtherKnown ==
  ASSUME NEW pipe \in Seq(Processes), NEW ch, NEW left, NEW l, NEW x \in Pids,
         Gone(ch, left, {x}), Living(pipe, x) = {}, NEW state, JobKnown(pipe, state, ch, l)
  PROVE  JobKnown(pipe, state, left, l)
<1>1. ASSUME NEW k \in DOMAIN pipe PROVE ProcessKnown(pipe[k], left, l)
  <2>1. ProcessKnown(pipe[k], ch, l) /\ pipe[k].pid \in Pids \union {0}
    BY PipeProcess DEF JobKnown, PipeKnown
  <2>2. pipe[k].pid # 0 => pipe[k].fork = left[pipe[k].pid].fork
    BY <2>1 DEF ProcessKnown, Gone
  <2>3. pipe[k].running => pipe[k].pid # x
    BY DEF Living, Matches
  <2> QED BY <2>1, <2>2, <2>3 DEF ProcessKnown, Gone
<1> QED BY <1>1 DEF JobKnown, PipeKnown

\* A pipeline apart from one that has a process of that number
LEMMA ApartKnown ==
  ASSUME NEW pipe, NEW other, PipesApart(pipe, other) \/ PipesApart(other, pipe),
         NEW x \in Pids, Has(other, x)
  PROVE  Living(pipe, x) = {} /\ ~ Has(pipe, x)
<1>1. x # 0
  BY JobsAssumption
<1>2. ~ Has(pipe, x)
  BY <1>1 DEF PipesApart, Has
<1> QED BY <1>2 DEF Living, Matches, Has

LEMMA JobEndedFields ==
  ASSUME NEW job, Made(job), NEW k, NEW status
  PROVE  /\ JobEnded(job, k, status).pipe = Ended(job.pipe, k, status)
         /\ JobEnded(job, k, status).state =
              IF \E n \in DOMAIN Ended(job.pipe, k, status) : Ended(job.pipe, k, status)[n].running
              THEN job.state ELSE "JDEAD"
         /\ JobEnded(job, k, status).foreground = job.foreground
<1> DEFINE pipe == Ended(job.pipe, k, status)
           state == IF \E n \in DOMAIN pipe : pipe[n].running THEN job.state ELSE "JDEAD"
<1>1. JobEnded(job, k, status) = [job EXCEPT !.pipe = pipe, !.notified = FALSE, !.state = state]
  BY DEF JobEnded
<1> HIDE DEF pipe, state
<1>2. job \in JobT
  BY DEF Made
<1>3. /\ JobEnded(job, k, status).pipe = pipe /\ JobEnded(job, k, status).state = state
      /\ JobEnded(job, k, status).foreground = job.foreground
  BY <1>1, <1>2 DEF JobT
<1> QED BY <1>3 DEF pipe, state

LEMMA JobEndedKnown ==
  ASSUME NEW job, Made(job), NEW ch, NEW left, NEW l, NEW x \in Pids,
         Gone(ch, left, {x}), ch[x].fork \in 0..MaxForks, NEW k \in DOMAIN job.pipe,
         job.pipe[k].pid = x, JobKnown(job.pipe, job.state, ch, l), PipeApart(job.pipe)
  PROVE  LET ended == JobEnded(job, k, ch[x].fork)
         IN  JobKnown(ended.pipe, ended.state, left, l) /\ SamePids(job.pipe, ended.pipe)
<1> DEFINE pipe == job.pipe
           ended == Ended(pipe, k, ch[x].fork)
           last == JobEnded(job, k, ch[x].fork)
           runs == \E n \in DOMAIN ended : ended[n].running
<1>1. last.pipe = ended /\ last.state = IF runs THEN job.state ELSE "JDEAD"
  BY JobEndedFields
<1>2. pipe \in Seq(Processes)
  BY DEF Made, JobT
<1>3. EndedAt(pipe, ended, k, ch[x].fork)
  BY <1>2, EndedProcess
<1>4. PipeKnown(ended, left, l)
  BY <1>2, EndedKnown DEF JobKnown
<1> HIDE DEF ended, pipe, last
<1>5. ASSUME runs, job.state = "JDEAD", NEW n \in DOMAIN ended, ended[n].running
      PROVE  ended[n].fork \in l
  <2>1. n \in DOMAIN pipe \ {k} /\ pipe[n] = ended[n]
    BY <1>3, <1>5 DEF EndedAt, SamePids
  <2> QED BY <2>1, <1>5 DEF JobKnown, pipe
<1>6. JobKnown(ended, last.state, left, l)
  BY <1>1, <1>4, <1>5 DEF JobKnown
<1> QED BY <1>1, <1>3, <1>6 DEF last, pipe, EndedAt

\* Jobs and pipelines keep the numbers of their processes.
SameNumbers(t, u) ==
  /\ Occupied(u) = Occupied(t) /\ SamePids(t.the_pipeline, u.the_pipeline)
  /\ \A i \in Occupied(t) : SamePids(Job(t, i).pipe, Job(u, i).pipe)

LEMMA SameNumbersItself == ASSUME NEW t PROVE SameNumbers(t, t)
BY DEF SameNumbers, SamePids

LEMMA SameNumbersOn ==
  ASSUME NEW t, NEW u, NEW v, SameNumbers(t, u), SameNumbers(u, v)
  PROVE  SameNumbers(t, v)
BY DEF SameNumbers, SamePids

LEMMA SameNumbersHold ==
  ASSUME NEW t, NEW u, SameNumbers(t, u), NEW pid
  PROVE  (Holds(t, pid) => Holds(u, pid)) /\ (Building(t, pid) => Building(u, pid))
BY SameApart DEF SameNumbers, Holds, Building

\* What is apart stays apart.
LEMMA SameNumbersApart ==
  ASSUME NEW t, NEW u, SameNumbers(t, u), NEW ch, NEW l, TableKnown(t, ch, l)
  PROVE  /\ JobsApart(u) /\ PipeApart(u.the_pipeline)
         /\ \A i \in Occupied(u) : PipeApart(Job(u, i).pipe) /\ PipesApart(Job(u, i).pipe, u.the_pipeline)
<1>1. \A i \in Occupied(u) : SamePids(Job(t, i).pipe, Job(u, i).pipe) /\ i \in Occupied(t)
  BY DEF SameNumbers
<1>2. SamePids(t.the_pipeline, u.the_pipeline)
  BY DEF SameNumbers
<1>3. PipeApart(u.the_pipeline)
  BY <1>2, SameApart DEF TableKnown
<1>4. ASSUME NEW i \in Occupied(u)
      PROVE  PipeApart(Job(u, i).pipe) /\ PipesApart(Job(u, i).pipe, u.the_pipeline)
  <2>1. PipeApart(Job(t, i).pipe) /\ PipesApart(Job(t, i).pipe, t.the_pipeline)
    BY <1>1 DEF TableKnown, JobsKnown
  <2>2. PipesApart(Job(u, i).pipe, t.the_pipeline)
    BY <2>1, <1>1, SameApart
  <2> QED BY <2>1, <2>2, <1>1, <1>2, SameApart
<1>5. ASSUME NEW i \in Occupied(u), NEW j \in Occupied(u), i # j
      PROVE  PipesApart(Job(u, i).pipe, Job(u, j).pipe)
  <2>1. PipesApart(Job(t, i).pipe, Job(t, j).pipe)
    BY <1>1, <1>5 DEF TableKnown, JobsApart
  <2>2. PipesApart(Job(u, i).pipe, Job(t, j).pipe)
    BY <2>1, <1>1, SameApart
  <2> QED BY <2>2, <1>1, SameApart
<1> QED BY <1>3, <1>4, <1>5 DEF JobsApart

LEMMA PipelineRecordedKnown ==
  ASSUME NEW t, Sound(t), NEW u, NEW x \in Pids, NEW ch, NEW left, NEW l, Gone(ch, left, {x}),
         ch[x].fork \in 0..MaxForks, TableKnown(t, ch, l), RecordedInPipeline(t, u, x, ch[x].fork)
  PROVE  TableKnown(u, left, l) /\ SameNumbers(t, u)
<1>1. PICK k \in Living(t.the_pipeline, x) :
        /\ u.the_pipeline = Ended(t.the_pipeline, k, ch[x].fork)
        /\ Occupied(u) = Occupied(t) /\ \A i : Job(u, i) = Job(t, i)
  BY DEF RecordedInPipeline
<1>2. k \in DOMAIN t.the_pipeline /\ t.the_pipeline[k].pid = x /\ t.the_pipeline \in Seq(Processes)
  BY PipesOf DEF Living, Matches
<1>3. PipeKnown(u.the_pipeline, left, l)
  BY <1>1, <1>2, EndedKnown DEF TableKnown
<1>4. EndedAt(t.the_pipeline, u.the_pipeline, k, ch[x].fork)
  BY <1>1, <1>2, EndedProcess
<1>5. SameNumbers(t, u)
  BY <1>1, <1>4 DEF EndedAt, SameNumbers, SamePids
<1>6. ASSUME NEW i \in Occupied(u) PROVE JobKnown(Job(u, i).pipe, Job(u, i).state, left, l)
  <2>1. i \in Occupied(t) /\ Job(u, i) = Job(t, i)
    BY <1>1
  <2>2. JobKnown(Job(t, i).pipe, Job(t, i).state, ch, l) /\ PipesApart(Job(t, i).pipe, t.the_pipeline)
    BY <2>1 DEF TableKnown, JobsKnown
  <2>3. Living(Job(t, i).pipe, x) = {}
    BY <1>2, <2>2, ApartKnown DEF Has
  <2> QED BY <2>1, <2>2, <2>3, PipesOf, OtherKnown
<1> QED BY <1>3, <1>5, <1>6, SameNumbersApart DEF TableKnown, JobsKnown

LEMMA NothingRecordedKnown ==
  ASSUME NEW t, Sound(t), NEW u, NEW x \in Pids, NEW ch, NEW left, NEW l, Gone(ch, left, {x}),
         TableKnown(t, ch, l), RecordedNowhere(t, u, x)
  PROVE  TableKnown(u, left, l) /\ SameNumbers(t, u)
<1>1. u = t /\ Living(t.the_pipeline, x) = {} /\ \A i \in Occupied(t) : Living(Job(t, i).pipe, x) = {}
  BY DEF RecordedNowhere
<1>2. \A i \in Occupied(t) : JobKnown(Job(t, i).pipe, Job(t, i).state, left, l)
  BY <1>1, PipesOf, OtherKnown DEF TableKnown, JobsKnown
<1>3. PipeKnown(t.the_pipeline, left, l)
  <2>1. JobKnown(t.the_pipeline, "JNONE", ch, l)
    BY DEF TableKnown, JobKnown
  <2>2. JobKnown(t.the_pipeline, "JNONE", left, l)
    BY <1>1, <2>1, PipesOf, OtherKnown
  <2> QED BY <2>2 DEF JobKnown
<1>4. TableKnown(t, left, l)
  BY <1>2, <1>3 DEF TableKnown, JobsKnown
<1> QED BY <1>1, <1>4, SameNumbersItself

LEMMA JobRecordedKnown ==
  ASSUME NEW t, Sound(t), NEW u, NEW x \in Pids, NEW ch, NEW left, NEW l, Gone(ch, left, {x}),
         ch[x].fork \in 0..MaxForks, TableKnown(t, ch, l), RecordedInJob(t, u, x, ch[x].fork)
  PROVE  TableKnown(u, left, l) /\ SameNumbers(t, u)
<1>1. PICK i \in Occupied(t) : \E k \in DOMAIN Job(t, i).pipe :
        /\ Job(t, i).pipe[k].pid = x
        /\ u.the_pipeline = t.the_pipeline /\ Occupied(u) = Occupied(t)
        /\ Job(u, i) = JobEnded(Job(t, i), k, ch[x].fork)
        /\ \A j \in Occupied(t) \ {i} : Job(u, j) = Job(t, j)
  BY DEF RecordedInJob
<1>2. PICK k \in DOMAIN Job(t, i).pipe :
        /\ Job(t, i).pipe[k].pid = x
        /\ u.the_pipeline = t.the_pipeline /\ Occupied(u) = Occupied(t)
        /\ Job(u, i) = JobEnded(Job(t, i), k, ch[x].fork)
        /\ \A j \in Occupied(t) \ {i} : Job(u, j) = Job(t, j)
  BY <1>1
<1> DEFINE job == Job(t, i)
<1>3. Made(job) /\ JobKnown(job.pipe, job.state, ch, l) /\ PipeApart(job.pipe)
  BY DEF Sound, IndicesHold, TableKnown, JobsKnown
<1>4. JobKnown(Job(u, i).pipe, Job(u, i).state, left, l) /\ SamePids(job.pipe, Job(u, i).pipe)
  <2>1. k \in DOMAIN job.pipe /\ job.pipe[k].pid = x /\ Job(u, i) = JobEnded(job, k, ch[x].fork)
    BY <1>2
  <2> HIDE DEF job
  <2> QED BY <1>3, <2>1, JobEndedKnown
<1>5. Has(job.pipe, x)
  BY <1>2 DEF Has
<1>6. SameNumbers(t, u)
  BY <1>2, <1>4 DEF SameNumbers, SamePids
<1>7. ASSUME NEW j \in Occupied(t) \ {i} PROVE JobKnown(Job(u, j).pipe, Job(u, j).state, left, l)
  <2>1. JobKnown(Job(t, j).pipe, Job(t, j).state, ch, l) /\ PipesApart(Job(t, j).pipe, job.pipe)
    BY DEF TableKnown, JobsKnown, JobsApart
  <2>2. Living(Job(t, j).pipe, x) = {}
    BY <1>5, <2>1, ApartKnown
  <2> QED BY <1>2, <2>1, <2>2, PipesOf, OtherKnown
<1>8. PipeKnown(u.the_pipeline, left, l)
  <2>1. JobKnown(t.the_pipeline, "JNONE", ch, l) /\ PipesApart(job.pipe, t.the_pipeline)
    BY DEF TableKnown, JobsKnown, JobKnown
  <2>2. Living(t.the_pipeline, x) = {}
    BY <1>5, <2>1, ApartKnown
  <2>3. JobKnown(t.the_pipeline, "JNONE", left, l)
    BY <2>1, <2>2, PipesOf, OtherKnown
  <2> QED BY <1>2, <2>3 DEF JobKnown
<1>9. \A j \in Occupied(u) : JobKnown(Job(u, j).pipe, Job(u, j).state, left, l)
  BY <1>2, <1>4, <1>7
<1> QED BY <1>6, <1>8, <1>9, SameNumbersApart DEF TableKnown, JobsKnown

LEMMA RecordedKnown ==
  ASSUME NEW t, Sound(t), NEW x \in Pids, NEW ch, NEW left, NEW l, Gone(ch, left, {x}),
         ch[x].fork \in 0..MaxForks, TableKnown(t, ch, l)
  PROVE  LET u == Recorded(t, x, ch[x].fork)
         IN  Sound(u) /\ TableKnown(u, left, l) /\ SameNumbers(t, u)
<1> DEFINE u == Recorded(t, x, ch[x].fork)
<1>1. /\ Sound(u)
      /\ \/ RecordedInPipeline(t, u, x, ch[x].fork)
         \/ RecordedNowhere(t, u, x)
         \/ RecordedInJob(t, u, x, ch[x].fork)
  BY RecordedSound
<1> HIDE DEF u
<1>2. TableKnown(u, left, l) /\ SameNumbers(t, u)
  BY <1>1, PipelineRecordedKnown, NothingRecordedKnown, JobRecordedKnown
<1> QED BY <1>1, <1>2 DEF u

\* There are fewer children, of the same forks and kinds.
Fewer(ch, left) ==
  \A p \in Pids : /\ left[p].fork = ch[p].fork /\ left[p].kind = ch[p].kind
                  /\ left[p].state # "none" => ch[p].state # "none"

LEMMA FewerReport ==
  ASSUME NEW pipe \in Seq(Processes), NEW ch, NEW left, Fewer(ch, left), NEW foreground,
         PipeReports(pipe, foreground, ch)
  PROVE  PipeReports(pipe, foreground, left)
<1>1. \A k \in DOMAIN pipe : pipe[k].pid # 0 => left[pipe[k].pid].kind = ch[pipe[k].pid].kind
  BY PipeProcess DEF Fewer
<1> QED BY <1>1 DEF PipeReports

LEMMA FewerTable ==
  ASSUME NEW t, Sound(t), NEW ch, NEW left, Fewer(ch, left), NEW l, NEW more, l \subseteq more,
         TableReports(t, ch, l)
  PROVE  TableReports(t, left, more)
<1>1. \A i \in Occupied(t) : PipeReports(Job(t, i).pipe, Job(t, i).foreground, left)
  BY PipesOf, FewerReport DEF TableReports
<1>2. ASSUME NEW n \in DOMAIN t.bgpids PROVE SavedReports(t.bgpids[n], left, more)
  <2>1. t.bgpids[n].pid \in Pids \union {0}
    <3>1. t.bgpids \in Seq(Saved)
      BY DEF Sound, Tables
    <3>2. t.bgpids[n] \in Saved
      BY <3>1
    <3> QED BY <3>2 DEF Saved
  <2>2. SavedReports(t.bgpids[n], ch, l)
    BY DEF TableReports
  <2> QED BY <2>1, <2>2 DEF SavedReports, Fewer
<1> QED BY <1>1, <1>2 DEF TableReports, Fewer

\* At most the end of one process is recorded, of the number x.
PipeEnds(pipe, other, x, status) ==
  other = pipe \/ \E k \in DOMAIN pipe : pipe[k].pid = x /\ other = Ended(pipe, k, status)

TableEnds(t, u, x, status) ==
  /\ u.bgpids = t.bgpids /\ Occupied(u) = Occupied(t)
  /\ PipeEnds(t.the_pipeline, u.the_pipeline, x, status)
  /\ \A i \in Occupied(t) : /\ PipeEnds(Job(t, i).pipe, Job(u, i).pipe, x, status)
                            /\ Job(u, i).foreground = Job(t, i).foreground

LEMMA PipeEndsReports ==
  ASSUME NEW pipe \in Seq(Processes), NEW other, NEW x \in Pids, NEW status \in 0..MaxForks,
         PipeEnds(pipe, other, x, status), NEW ch, NEW l, PipeKnown(pipe, ch, l)
  PROVE  /\ SamePids(pipe, other) /\ other \in Seq(Processes)
         /\ \A p : p # x /\ Living(pipe, p) # {} => Living(other, p) # {}
         /\ \A foreground : PipeReports(pipe, foreground, ch) /\ (foreground \/ status = ch[x].fork)
                              => PipeReports(other, foreground, ch)
<1>1. CASE other = pipe
  BY <1>1 DEF SamePids
<1>2. CASE other # pipe
  <2>1. PICK k \in DOMAIN pipe : pipe[k].pid = x /\ other = Ended(pipe, k, status)
    BY <1>2 DEF PipeEnds
  <2>2. EndedAt(pipe, other, k, status) /\ DOMAIN pipe = 1..Len(pipe) /\ DOMAIN other = 1..Len(other)
        /\ Len(pipe) \in Nat /\ Len(other) \in Nat
    <3>1. EndedAt(pipe, other, k, status)
      BY <2>1, EndedProcess
    <3> QED BY <3>1 DEF EndedAt
  <2>3. Len(other) = Len(pipe)
    BY <2>2 DEF EndedAt, SamePids
  <2>4. pipe[k].fork = ch[x].fork
    BY <2>1, JobsAssumption DEF PipeKnown, ProcessKnown
  <2>5. \A p : p # x /\ Living(pipe, p) # {} => Living(other, p) # {}
    <3> SUFFICES ASSUME NEW p, p # x, NEW n \in Living(pipe, p) PROVE n \in Living(other, p)
      OBVIOUS
    <3> QED BY <2>1, <2>2 DEF Living, Matches, EndedAt, SamePids
  <2>6. ASSUME NEW foreground, PipeReports(pipe, foreground, ch), foreground \/ status = ch[x].fork,
               NEW n \in DOMAIN other
        PROVE  /\ other[n].pid # 0 => /\ ch[other[n].pid].kind = "foreground" <=> foreground
                                      /\ ch[other[n].pid].kind = "$!" => n = Len(other)
               /\ ~ foreground => other[n].status = IF other[n].running THEN 0 ELSE other[n].fork
    <3>1. n \in DOMAIN pipe /\ other[n].pid = pipe[n].pid
      BY <2>2 DEF EndedAt, SamePids
    <3>2. /\ pipe[n].pid # 0 => /\ ch[pipe[n].pid].kind = "foreground" <=> foreground
                                /\ ch[pipe[n].pid].kind = "$!" => n = Len(pipe)
          /\ ~ foreground => pipe[n].status = IF pipe[n].running THEN 0 ELSE pipe[n].fork
      BY <2>6, <3>1 DEF PipeReports
    <3>3. ~ foreground => other[n].status = IF other[n].running THEN 0 ELSE other[n].fork
      BY <2>2, <2>4, <2>6, <3>1, <3>2 DEF EndedAt
    <3> QED BY <2>3, <3>1, <3>2, <3>3
  <2> QED BY <2>2, <2>5, <2>6 DEF PipeReports, EndedAt
<1> QED BY <1>1, <1>2

\* What is saved stays apart from what is in the table.
LEMMA NumbersSaved ==
  ASSUME NEW t, NEW u, SameNumbers(t, u), u.bgpids = t.bgpids, SavedApart(t)
  PROVE  SavedApart(u)
<1>1. ASSUME NEW pid PROVE (Holds(u, pid) => Holds(t, pid)) /\ (Building(u, pid) => Building(t, pid))
  BY DEF SameNumbers, SamePids, Holds, Building, Has
<1> QED BY <1>1 DEF SavedApart

\* Children that are not collected are attended to still.
LEMMA TableEndsReports ==
  ASSUME NEW t, Sound(t), NEW u, NEW x \in Pids, NEW status \in 0..MaxForks,
         TableEnds(t, u, x, status), NEW ch, NEW left, Fewer(ch, left), left[x].state = "none",
         NEW l, TableKnown(t, ch, l), TableReports(t, ch, l), Sound(u),
         \A i \in Occupied(t) : Has(Job(t, i).pipe, x) => Job(t, i).foreground \/ status = ch[x].fork
  PROVE  TableReports(u, left, l)
<1>1. /\ t.the_pipeline \in Seq(Processes) /\ PipeKnown(t.the_pipeline, ch, l)
      /\ \A i \in Occupied(t) : /\ Job(t, i).pipe \in Seq(Processes)
                                /\ PipeKnown(Job(t, i).pipe, ch, l)
  BY PipesOf DEF TableKnown, JobsKnown, JobKnown
<1>2. SameNumbers(t, u)
  BY <1>1, PipeEndsReports DEF TableEnds, SameNumbers
<1>3. SavedApart(u)
  BY <1>2, NumbersSaved DEF TableReports, TableEnds
<1>4. ASSUME NEW p \in Pids, left[p].state # "none" PROVE Attended(u, p)
  <2>1. p # x /\ Attended(t, p)
    BY <1>4 DEF Fewer, TableReports
  <2>2. Living(t.the_pipeline, p) # {} => Living(u.the_pipeline, p) # {}
    BY <1>1, <2>1, PipeEndsReports DEF TableEnds
  <2>3. ASSUME NEW i \in Occupied(t), Living(Job(t, i).pipe, p) # {}
        PROVE  i \in Occupied(u) /\ Living(Job(u, i).pipe, p) # {}
    <3> DEFINE pipe == Job(t, i).pipe
               other == Job(u, i).pipe
    <3>1. /\ pipe \in Seq(Processes) /\ PipeKnown(pipe, ch, l) /\ PipeEnds(pipe, other, x, status)
          /\ Living(pipe, p) # {} /\ i \in Occupied(u)
      BY <1>1, <2>3 DEF TableEnds
    <3> HIDE DEF pipe, other
    <3>2. Living(other, p) # {}
      BY <2>1, <3>1, PipeEndsReports
    <3> QED BY <3>1, <3>2 DEF other
  <2> QED BY <2>1, <2>2, <2>3 DEF Attended
<1>5. ASSUME NEW i \in Occupied(u) PROVE PipeReports(Job(u, i).pipe, Job(u, i).foreground, ch)
  <2> DEFINE pipe == Job(t, i).pipe
             other == Job(u, i).pipe
             foreground == Job(t, i).foreground
  <2>1. i \in Occupied(t) /\ PipeEnds(pipe, other, x, status) /\ Job(u, i).foreground = foreground
    BY DEF TableEnds
  <2>2. pipe \in Seq(Processes) /\ PipeKnown(pipe, ch, l) /\ PipeReports(pipe, foreground, ch)
    BY <1>1, <2>1 DEF TableReports
  <2>3. Has(pipe, x) => foreground \/ status = ch[x].fork
    BY <2>1
  <2> HIDE DEF pipe, other, foreground
  <2>4. CASE Has(pipe, x)
    BY <2>1, <2>2, <2>3, <2>4, PipeEndsReports DEF other
  <2>5. CASE ~ Has(pipe, x)
    <3>1. other = pipe
      BY <2>1, <2>5 DEF PipeEnds, Has
    <3> QED BY <2>1, <2>2, <3>1 DEF other
  <2> QED BY <2>4, <2>5
<1>6. \A i \in Occupied(u) : PipeReports(Job(u, i).pipe, Job(u, i).foreground, left)
  BY <1>5, PipesOf, FewerReport
<1>7. \A n \in DOMAIN u.bgpids : SavedReports(u.bgpids[n], left, l)
  BY FewerTable DEF TableReports, TableEnds
<1> QED BY <1>3, <1>4, <1>6, <1>7 DEF TableReports

\* What is dead stays as it is.
DeadKept(t, u) ==
  /\ u.bgpids = t.bgpids /\ SameNumbers(t, u)
  /\ \A i \in Occupied(t) : Dead(t, i) => Same(Job(t, i), Job(u, i))

LEMMA DeadKeptOn ==
  ASSUME NEW t, NEW u, NEW v, DeadKept(t, u), DeadKept(u, v)
  PROVE  DeadKept(t, v)
<1>1. ASSUME NEW i \in Occupied(t), Dead(t, i) PROVE Same(Job(t, i), Job(v, i))
  <2>1. Same(Job(t, i), Job(u, i)) /\ i \in Occupied(u)
    BY <1>1 DEF DeadKept, SameNumbers
  <2>2. Dead(u, i)
    BY <1>1, <2>1 DEF Same, Dead
  <2>3. Same(Job(u, i), Job(v, i))
    BY <2>1, <2>2 DEF DeadKept
  <2> QED BY <2>1, <2>3 DEF Same
<1> QED BY <1>1, SameNumbersOn DEF DeadKept

\* What is recorded of a child
LEMMA RecordedReports ==
  ASSUME NEW t, Sound(t), NEW x \in Pids, NEW ch, NEW left, Fewer(ch, left),
         left[x].state = "none", ch[x].fork \in 0..MaxForks, NEW l, TableKnown(t, ch, l)
  PROVE  LET u == Recorded(t, x, ch[x].fork)
         IN  /\ TableReports(t, ch, l) => TableReports(u, left, l)
             /\ \A foreground : PipeReports(t.the_pipeline, foreground, ch)
                                  => PipeReports(u.the_pipeline, foreground, left)
             /\ ch[x].fork \notin l => DeadKept(t, u)
<1> DEFINE u == Recorded(t, x, ch[x].fork)
<1>1. /\ Sound(u)
      /\ \/ RecordedInPipeline(t, u, x, ch[x].fork)
         \/ RecordedNowhere(t, u, x)
         \/ RecordedInJob(t, u, x, ch[x].fork)
  BY RecordedSound
<1> HIDE DEF u
<1>2. /\ t.the_pipeline \in Seq(Processes) /\ PipeKnown(t.the_pipeline, ch, l)
      /\ \A i \in Occupied(t) : /\ Job(t, i).pipe \in Seq(Processes) /\ Made(Job(t, i))
                                /\ JobKnown(Job(t, i).pipe, Job(t, i).state, ch, l)
  BY PipesOf DEF TableKnown, JobsKnown, JobKnown, Sound, IndicesHold
<1>3. /\ TableEnds(t, u, x, ch[x].fork)
      /\ ch[x].fork \notin l => \A i \in Occupied(t) : Dead(t, i) => Same(Job(t, i), Job(u, i))
  <2>1. CASE RecordedInPipeline(t, u, x, ch[x].fork)
    BY <2>1 DEF RecordedInPipeline, TableEnds, PipeEnds, Living, Matches, Same
  <2>2. CASE RecordedNowhere(t, u, x)
    BY <2>2 DEF RecordedNowhere, TableEnds, PipeEnds, Same
  <2>3. CASE RecordedInJob(t, u, x, ch[x].fork)
    <3>1. PICK i \in Occupied(t) : \E k \in DOMAIN Job(t, i).pipe :
            /\ Job(t, i).pipe[k].pid = x /\ Living(Job(t, i).pipe, x) # {}
            /\ u.the_pipeline = t.the_pipeline /\ u.bgpids = t.bgpids /\ Occupied(u) = Occupied(t)
            /\ Job(u, i) = JobEnded(Job(t, i), k, ch[x].fork)
            /\ \A j \in Occupied(t) \ {i} : Job(u, j) = Job(t, j)
      BY <2>3 DEF RecordedInJob
    <3>2. PICK k \in DOMAIN Job(t, i).pipe :
            /\ Job(t, i).pipe[k].pid = x /\ Living(Job(t, i).pipe, x) # {}
            /\ u.the_pipeline = t.the_pipeline /\ u.bgpids = t.bgpids /\ Occupied(u) = Occupied(t)
            /\ Job(u, i) = JobEnded(Job(t, i), k, ch[x].fork)
            /\ \A j \in Occupied(t) \ {i} : Job(u, j) = Job(t, j)
      BY <3>1
    <3>3. /\ Job(u, i).pipe = Ended(Job(t, i).pipe, k, ch[x].fork)
          /\ Job(u, i).foreground = Job(t, i).foreground
      BY <1>2, <3>2, JobEndedFields
    <3>4. TableEnds(t, u, x, ch[x].fork)
      BY <3>2, <3>3 DEF TableEnds, PipeEnds
    <3>5. ASSUME ch[x].fork \notin l PROVE ~ Dead(t, i)
      <4>1. PICK n \in DOMAIN Job(t, i).pipe : Matches(Job(t, i).pipe[n], x, TRUE)
        BY <3>2 DEF Living
      <4>2. Job(t, i).pipe[n].running /\ Job(t, i).pipe[n].fork = ch[x].fork
        BY <1>2, <4>1, JobsAssumption DEF JobKnown, PipeKnown, ProcessKnown, Matches
      <4> QED BY <1>2, <3>5, <4>2 DEF JobKnown, Dead
    <3> QED BY <3>2, <3>4, <3>5 DEF Same
  <2> QED BY <1>1, <2>1, <2>2, <2>3
<1>4. TableReports(t, ch, l) => TableReports(u, left, l)
  BY <1>1, <1>3, TableEndsReports
<1>5. PipeEnds(t.the_pipeline, u.the_pipeline, x, ch[x].fork)
  BY <1>3 DEF TableEnds
<1>6. ASSUME NEW foreground, PipeReports(t.the_pipeline, foreground, ch)
      PROVE  PipeReports(u.the_pipeline, foreground, left)
  <2>1. PipeReports(u.the_pipeline, foreground, ch) /\ u.the_pipeline \in Seq(Processes)
    BY <1>2, <1>5, <1>6, PipeEndsReports
  <2> QED BY <2>1, FewerReport
<1>7. SameNumbers(t, u)
  <2>1. SamePids(t.the_pipeline, u.the_pipeline)
    BY <1>2, <1>5, PipeEndsReports
  <2>2. \A i \in Occupied(t) : SamePids(Job(t, i).pipe, Job(u, i).pipe)
    BY <1>2, <1>3, PipeEndsReports DEF TableEnds, JobKnown
  <2> QED BY <1>3, <2>1, <2>2 DEF SameNumbers, TableEnds
<1>8. ch[x].fork \notin l => DeadKept(t, u)
  BY <1>3, <1>7 DEF DeadKept, TableEnds
<1> QED BY <1>4, <1>6, <1>8 DEF u

\* Every process that is collected is recorded, one after the other.
LEMMA AllRecordedKnown ==
  ASSUME KernelHolds, NEW t, Sound(t), NEW pids \in SUBSET Pids, NEW l, TableKnown(t, children, l)
  PROVE  LET u == AllRecorded(t, pids)
         IN  /\ Sound(u) /\ TableKnown(u, Collected(pids), l) /\ SameNumbers(t, u)
             /\ TableReports(t, children, l) => TableReports(u, Collected(pids), l)
             /\ \A foreground : PipeReports(t.the_pipeline, foreground, children)
                                  => PipeReports(u.the_pipeline, foreground, Collected(pids))
             /\ (\A p \in pids : children[p].fork \notin l) => DeadKept(t, u)
<1>1. \A p \in Pids : children[p].fork \in 0..MaxForks
  BY ForkOf
<1>2. PICK f : Records(f, t, pids) /\ AllRecorded(t, pids) = f[pids]
  BY <1>1, AllRecordedSound
<1>3. /\ f[{}] = t
      /\ \A s \in (SUBSET pids) \ {{}} :
           f[s] = Recorded(f[s \ {Chosen(s)}], Chosen(s), children[Chosen(s)].fork)
  BY <1>2 DEF Records
<1> DEFINE AsReported(s) == TableReports(t, children, l) => TableReports(f[s], Collected(s), l)
           AsBuilt(s) == \A foreground : PipeReports(t.the_pipeline, foreground, children)
                                  => PipeReports(f[s].the_pipeline, foreground, Collected(s))
           NoneLost == \A p \in pids : children[p].fork \notin l
           After(s) == /\ Sound(f[s]) /\ TableKnown(f[s], Collected(s), l) /\ SameNumbers(t, f[s])
                       /\ AsReported(s) /\ AsBuilt(s)
                       /\ NoneLost => DeadKept(t, f[s])
           Q == {s \in SUBSET pids : After(s)}
<1>4. \A s : \A p \in Pids : Collected(s)[p] = IF p \in s THEN [children[p] EXCEPT !.state = "none"]
                                              ELSE children[p]
  BY DEF Collected
<1>5. \A p \in Pids : [children[p] EXCEPT !.state = "none"].fork = children[p].fork
  BY DEF KernelHolds, Children
<1>6. {} \in Q
  <2> DEFINE none == {}
  <2>1. Collected(none) = children
    BY <1>4 DEF Collected, KernelHolds
  <2>2. f[none] = t /\ DeadKept(t, t)
    BY <1>3, SameNumbersItself DEF DeadKept, Same
  <2>3. After(none)
    BY <2>1, <2>2, SameNumbersItself
  <2> QED BY <2>3
<1>7. ASSUME NEW s \in (SUBSET pids) \ {{}}
      PROVE  \E x \in s : s \ {x} \in Q => s \in Q
  <2> DEFINE x == Chosen(s)
             r == s \ {x}
  <2>1. x \in s /\ x \in Pids
    BY DEF Chosen
  <2> HIDE DEF x
  <2> SUFFICES ASSUME r \in Q PROVE s \in Q
    BY <2>1
  <2>2. After(r)
    OBVIOUS
  <2>3. Collected(r)[x].fork = children[x].fork /\ children[x].fork \in 0..MaxForks
    BY <1>1, <1>4, <1>5, <2>1
  <2>4. Gone(Collected(r), Collected(s), {x})
    <3> SUFFICES ASSUME NEW p \in Pids
                 PROVE  /\ Collected(s)[p].fork = Collected(r)[p].fork
                        /\ p \notin {x} /\ Collected(r)[p].state # "none"
                             => Collected(s)[p].state # "none"
      BY DEF Gone
    <3>1. Collected(s)[p].fork = children[p].fork /\ Collected(r)[p].fork = children[p].fork
      BY <1>4, <1>5
    <3>2. p \notin {x} => (p \in s <=> p \in r)
      OBVIOUS
    <3>3. p \notin {x} => Collected(s)[p].state = Collected(r)[p].state
      BY <3>2, <1>4
    <3> QED BY <3>1, <3>3
  <2>5. f[s] = Recorded(f[r], x, Collected(r)[x].fork)
    BY <1>3, <2>3 DEF x
  <2> HIDE DEF r
  <2>6. Sound(f[s]) /\ TableKnown(f[s], Collected(s), l) /\ SameNumbers(f[r], f[s])
    BY <2>1, <2>2, <2>3, <2>4, <2>5, RecordedKnown
  <2>8. Fewer(Collected(r), Collected(s)) /\ Collected(s)[x].state = "none"
    <3>1. \A p \in Pids : children[p] \in Children
      BY DEF KernelHolds
    <3>2. \A p \in Pids : /\ [children[p] EXCEPT !.state = "none"].kind = children[p].kind
                          /\ [children[p] EXCEPT !.state = "none"].state = "none"
      BY <3>1 DEF Children
    <3>3. \A p \in Pids : p \in r => p \in s
      BY DEF r
    <3>4. ASSUME NEW p \in Pids
          PROVE  /\ Collected(s)[p].fork = Collected(r)[p].fork
                 /\ Collected(s)[p].kind = Collected(r)[p].kind
                 /\ Collected(s)[p].state # "none" => Collected(r)[p].state # "none"
      <4> HIDE DEF r
      <4>1. CASE p \in s
        <5> DEFINE none == [children[p] EXCEPT !.state = "none"]
        <5>1. /\ none.fork = children[p].fork /\ none.kind = children[p].kind
              /\ none.state = "none"
          BY <1>5, <3>2
        <5>2. Collected(s)[p] = none
          BY <1>4, <4>1
        <5>3. CASE p \in r
          <6>1. Collected(r)[p] = none
            BY <1>4, <5>3
          <6> QED BY <5>2, <6>1
        <5>4. CASE p \notin r
          <6>1. Collected(r)[p] = children[p]
            BY <1>4, <5>4
          <6> HIDE DEF none
          <6> QED BY <5>1, <5>2, <6>1
        <5> QED BY <5>3, <5>4
      <4>2. CASE p \notin s
        <5>1. Collected(s)[p] = children[p]
          BY <1>4, <4>2
        <5>2. Collected(r)[p] = children[p]
          BY <1>4, <3>3, <4>2
        <5> QED BY <5>1, <5>2
      <4> QED BY <4>1, <4>2
    <3>5. Collected(s)[x].state = "none"
      <4>1. Collected(s)[x] = [children[x] EXCEPT !.state = "none"]
        BY <1>4, <2>1
      <4> QED BY <2>1, <3>2, <4>1
    <3> HIDE DEF r
    <3> QED BY <3>4, <3>5 DEF Fewer
  <2>9. /\ TableReports(f[r], Collected(r), l) => TableReports(f[s], Collected(s), l)
        /\ \A foreground : PipeReports(f[r].the_pipeline, foreground, Collected(r))
                             => PipeReports(f[s].the_pipeline, foreground, Collected(s))
        /\ Collected(r)[x].fork \notin l => DeadKept(f[r], f[s])
    BY <2>1, <2>2, <2>3, <2>5, <2>8, RecordedReports
  <2>10. NoneLost => Collected(r)[x].fork \notin l
    BY <2>1, <2>3
  <2>11. AsReported(s) /\ AsBuilt(s)
    BY <2>2, <2>9
  <2> HIDE DEF AsReported, AsBuilt, NoneLost
  <2>12. NoneLost => DeadKept(t, f[s])
    BY <2>2, <2>9, <2>10, DeadKeptOn
  <2>7. After(s)
    BY <2>2, <2>6, <2>11, <2>12, SameNumbersOn
  <2> QED BY <2>7
<1>8. IsFiniteSet(pids)
  BY Counted
<1>9. pids \in Q
  <2>1. Q \in SUBSET SUBSET pids
    OBVIOUS
  <2> HIDE DEF Q
  <2> QED BY <1>6, <1>7, <1>8, <2>1, SubsetsClosed
<1>10. After(pids)
  BY <1>9
<1> QED BY <1>2, <1>10

-------------------------------------------------------------------------------
(***************************************************************************)
(* A process that is made, and a pipeline that is stopped: what is known   *)
(***************************************************************************)
\* A process number that is given out again is taken from an earlier process.
Forgets(pipe, other, pid) ==
  /\ DOMAIN other = DOMAIN pipe /\ ~ Has(other, pid)
  /\ \A k \in DOMAIN pipe : \/ other[k] = pipe[k]
                            \/ /\ pipe[k].pid = pid /\ other[k].pid = 0
                               /\ other[k].fork = pipe[k].fork /\ other[k].status = pipe[k].status
                               /\ other[k].running = pipe[k].running

\* The kernel has made a child of that number.
Forked(ch, now, pid, fork) ==
  /\ now[pid].fork = fork /\ now[pid].state # "none"
  /\ \A q \in Pids \ {pid} : now[q] = ch[q]

LEMMA ForgetsNothing ==
  ASSUME NEW pipe, NEW pid, ~ Has(pipe, pid)
  PROVE  Forgets(pipe, pipe, pid)
BY DEF Forgets

LEMMA ForgottenKnown ==
  ASSUME NEW pipe \in Seq(Processes), NEW other, NEW pid \in Pids, Forgets(pipe, other, pid),
         NEW ch, NEW now, NEW fork, Forked(ch, now, pid, fork), ch[pid].state = "none",
         NEW l, NEW state, JobKnown(pipe, state, ch, l)
  PROVE  JobKnown(other, state, now, l)
<1>1. ASSUME NEW k \in DOMAIN pipe PROVE ProcessKnown(other[k], now, l)
  <2>1. ProcessKnown(pipe[k], ch, l) /\ pipe[k].pid \in Pids \union {0}
    BY PipeProcess DEF JobKnown, PipeKnown
  <2>2. CASE other[k] = pipe[k]
    <3>1. pipe[k].pid # pid
      BY <2>2 DEF Forgets, Has
    <3>2. pipe[k].pid # 0 => now[pipe[k].pid] = ch[pipe[k].pid]
      BY <2>1, <3>1 DEF Forked
    <3> QED BY <2>1, <2>2, <3>2 DEF ProcessKnown
  <2>3. CASE /\ pipe[k].pid = pid /\ other[k].pid = 0
             /\ other[k].fork = pipe[k].fork /\ other[k].running = pipe[k].running
    BY <2>1, <2>3 DEF ProcessKnown
  <2> QED BY <2>2, <2>3 DEF Forgets
<1>2. /\ DOMAIN other = DOMAIN pipe
      /\ \A k \in DOMAIN pipe : /\ other[k].fork = pipe[k].fork /\ other[k].status = pipe[k].status
                                /\ other[k].running = pipe[k].running
  BY DEF Forgets
<1> QED BY <1>1, <1>2 DEF JobKnown, PipeKnown

LEMMA ForgottenApart ==
  ASSUME NEW pipe, NEW other, NEW pid, Forgets(pipe, other, pid)
  PROVE  /\ PipeApart(pipe) => PipeApart(other)
         /\ \A third : PipesApart(pipe, third) => PipesApart(other, third)
         /\ \A third : PipesApart(third, pipe) => PipesApart(third, other)
<1>1. DOMAIN other = DOMAIN pipe /\ \A k \in DOMAIN pipe : other[k].pid = pipe[k].pid \/ other[k].pid = 0
  BY DEF Forgets
<1>2. PipeApart(pipe) => PipeApart(other)
  BY <1>1 DEF PipeApart
<1>3. \A third : PipesApart(pipe, third) => PipesApart(other, third)
  BY <1>1 DEF PipesApart
<1>4. \A third : PipesApart(third, pipe) => PipesApart(third, other)
  <2> SUFFICES ASSUME NEW third, PipesApart(third, pipe), NEW k \in DOMAIN third, NEW m \in DOMAIN other,
                      third[k].pid = other[m].pid
               PROVE  third[k].pid = 0
    BY DEF PipesApart
  <2>1. CASE other[m].pid = 0
    BY <2>1
  <2>2. CASE other[m].pid = pipe[m].pid
    BY <2>2, <1>1 DEF PipesApart
  <2> QED BY <1>1, <2>1, <2>2
<1> QED BY <1>2, <1>3, <1>4

\* What is left of the jobs when a process number is given out again
JobsForget(t, u, pid) ==
  /\ Occupied(u) \subseteq Occupied(t)
  /\ \A i \in Occupied(u) : /\ Forgets(Job(t, i).pipe, Job(u, i).pipe, pid)
                            /\ Job(u, i).state = Job(t, i).state
                            /\ Job(u, i).foreground = Job(t, i).foreground
  /\ \A i \in Occupied(t) \ Occupied(u) : Dead(t, i) /\ Has(Job(t, i).pipe, pid)

LEMMA OldJobForgotten ==
  ASSUME NEW t, Sound(t), NEW pid \in Pids, JobsApart(t), \A i \in Occupied(t) : PipeApart(Job(t, i).pipe)
  PROVE  JobsForget(t, delete_old_job(t, pid), pid)
<1> DEFINE u == delete_old_job(t, pid)
<1>1. OldHasNoJob(t, u, pid) \/ OldJobGone(t, u, pid) \/ OldJobRenamed(t, u, pid)
  BY OldJobDeleted
<1> HIDE DEF u
<1>2. pid # 0
  BY JobsAssumption
<1>3. ASSUME NEW i \in Occupied(t), Has(Job(t, i).pipe, pid), NEW j \in Occupied(t) \ {i}
      PROVE  ~ Has(Job(t, j).pipe, pid)
  <2>1. PipesApart(Job(t, j).pipe, Job(t, i).pipe)
    BY DEF JobsApart
  <2> QED BY <2>1, <1>3, ApartKnown
<1>4. ASSUME OldHasNoJob(t, u, pid) PROVE JobsForget(t, u, pid)
  BY <1>4, ForgetsNothing DEF OldHasNoJob, JobsForget
<1>5. ASSUME OldJobGone(t, u, pid) PROVE JobsForget(t, u, pid)
  <2>1. PICK i \in Occupied(t) :
          /\ Has(Job(t, i).pipe, pid) /\ Dead(t, i)
          /\ Occupied(u) = Occupied(t) \ {i} /\ \A j \in Occupied(t) \ {i} : Job(u, j) = Job(t, j)
    BY <1>5 DEF OldJobGone
  <2>2. \A j \in Occupied(t) \ {i} : Forgets(Job(t, j).pipe, Job(t, j).pipe, pid)
    BY <1>3, <2>1, ForgetsNothing
  <2> QED BY <2>1, <2>2 DEF JobsForget
<1>6. ASSUME OldJobRenamed(t, u, pid) PROVE JobsForget(t, u, pid)
  <2>1. PICK i \in Occupied(t) : \E k \in DOMAIN Job(t, i).pipe :
          /\ Job(t, i).pipe[k].pid = pid
          /\ Occupied(u) = Occupied(t) /\ \A j \in Occupied(t) \ {i} : Job(u, j) = Job(t, j)
          /\ Job(u, i).pipe = [Job(t, i).pipe EXCEPT ![k] = [@ EXCEPT !.pid = 0]]
          /\ Job(u, i).state = Job(t, i).state /\ Job(u, i).foreground = Job(t, i).foreground
    BY <1>6 DEF OldJobRenamed
  <2> DEFINE pipe == Job(t, i).pipe
             other == Job(u, i).pipe
  <2>2. PICK k \in DOMAIN pipe :
          /\ pipe[k].pid = pid
          /\ Occupied(u) = Occupied(t) /\ \A j \in Occupied(t) \ {i} : Job(u, j) = Job(t, j)
          /\ other = [pipe EXCEPT ![k] = [@ EXCEPT !.pid = 0]]
          /\ Job(u, i).state = Job(t, i).state /\ Job(u, i).foreground = Job(t, i).foreground
    BY <2>1
  <2>3. pipe \in Seq(Processes) /\ PipeApart(pipe)
    BY PipesOf
  <2>4. \A j \in Occupied(t) \ {i} : Forgets(Job(t, j).pipe, Job(t, j).pipe, pid)
    <3>1. Has(Job(t, i).pipe, pid)
      BY <2>2 DEF Has
    <3> QED BY <1>3, <3>1, ForgetsNothing
  <2> HIDE DEF pipe, other
  <2>5. Forgets(pipe, other, pid)
    <3> DEFINE p == [pipe[k] EXCEPT !.pid = 0]
    <3>1. pipe[k] \in Processes
      BY <2>3, PipeProcess
    <3>2. /\ p.pid = 0 /\ p.fork = pipe[k].fork /\ p.status = pipe[k].status
          /\ p.running = pipe[k].running
      BY <3>1 DEF Processes
    <3>3. other = [pipe EXCEPT ![k] = p]
      BY <2>2
    <3> HIDE DEF p
    <3>4. DOMAIN other = DOMAIN pipe /\ other[k] = p /\ \A n \in DOMAIN pipe \ {k} : other[n] = pipe[n]
      BY <3>3, <2>3
    <3>5. \A n \in DOMAIN pipe \ {k} : pipe[n].pid # pid
      BY <1>2, <2>2, <2>3 DEF PipeApart
    <3>6. ~ Has(other, pid)
      BY <1>2, <3>2, <3>4, <3>5 DEF Has
    <3> QED BY <2>2, <3>2, <3>4, <3>6 DEF Forgets
  <2>6. \A j \in Occupied(u) : /\ Forgets(Job(t, j).pipe, Job(u, j).pipe, pid)
                               /\ Job(u, j).state = Job(t, j).state
                               /\ Job(u, j).foreground = Job(t, j).foreground
    BY <2>2, <2>4, <2>5 DEF pipe, other
  <2> QED BY <2>2, <2>6 DEF JobsForget
<1> QED BY <1>1, <1>4, <1>5, <1>6 DEF u

LEMMA AddedKnown ==
  ASSUME NEW t, Sound(t), NEW pid \in Pids, NEW fork \in 1..MaxForks, NEW ch, NEW now,
         Forked(ch, now, pid, fork), ch[pid].state = "none", NEW l, fork \notin l,
         ~ Has(t.the_pipeline, pid), TableKnown(t, ch, l)
  PROVE  LET u == AddedProcess(t, pid, fork)
         IN  /\ TableKnown(u, now, l) /\ Building(u, pid)
             /\ JobsForget(t, u, pid) /\ StatusOut(t.bgpids, u.bgpids, pid)
             /\ u.the_pipeline = Append(t.the_pipeline, [pid |-> pid, fork |-> fork,
                                                         status |-> 0, running |-> TRUE])
<1> DEFINE process == [pid |-> pid, fork |-> fork, status |-> 0, running |-> TRUE]
           pipe == t.the_pipeline
           p == Append(pipe, process)
           added == [t EXCEPT !.the_pipeline = p]
           v == delete_old_job(added, pid)
           u == bgp_delete(v, pid)
<1>1. process \in Processes /\ process.pid = pid /\ process.fork = fork /\ process.running = TRUE
  BY JobsAssumption DEF Processes
<1>2. pipe \in Seq(Processes) /\ Len(pipe) \in Nat /\ pid # 0
  BY PipesOf, JobsAssumption
<1>3. AddedProcess(t, pid, fork) = u
  BY DEF AddedProcess, Sound, Tables
<1>17. p = Append(t.the_pipeline, [pid |-> pid, fork |-> fork, status |-> 0, running |-> TRUE])
  OBVIOUS
<1> HIDE DEF process
<1>4. /\ p \in Seq(Processes) /\ DOMAIN p = 1..(Len(pipe) + 1) /\ DOMAIN pipe = 1..Len(pipe)
      /\ p[Len(pipe) + 1] = process /\ \A k \in DOMAIN pipe : k \in DOMAIN p /\ p[k] = pipe[k]
  BY <1>1, <1>2
<1> HIDE DEF p
<1>5. \A k \in DOMAIN p : k = Len(pipe) + 1 \/ k \in DOMAIN pipe
  BY <1>2, <1>4
<1>6. /\ Sound(added) /\ added.the_pipeline = p
      /\ Occupied(added) = Occupied(t) /\ \A i : Job(added, i) = Job(t, i)
      /\ added.bgpids = t.bgpids
  BY <1>4, PipelineChanged
<1> HIDE DEF added
<1>7. JobsApart(added) /\ \A i \in Occupied(added) : PipeApart(Job(added, i).pipe)
  BY <1>6 DEF TableKnown, JobsKnown, JobsApart
<1>8. Sound(v) /\ v.the_pipeline = p /\ v.bgpids = added.bgpids /\ JobsForget(added, v, pid)
  BY <1>6, <1>7, OldJobDeleted, OldJobForgotten
<1> HIDE DEF v
<1>9. /\ Sound(u) /\ u.the_pipeline = p /\ Occupied(u) = Occupied(v) /\ \A i : Job(u, i) = Job(v, i)
      /\ StatusOut(v.bgpids, u.bgpids, pid)
  BY <1>8, DeletedStatus
<1> HIDE DEF u
<1>18. JobsForget(t, u, pid) /\ StatusOut(t.bgpids, u.bgpids, pid)
  BY <1>6, <1>8, <1>9 DEF JobsForget, Dead
<1>10. \A i \in Occupied(u) : /\ i \in Occupied(t) /\ Forgets(Job(t, i).pipe, Job(u, i).pipe, pid)
                              /\ Job(u, i).state = Job(t, i).state
  BY <1>6, <1>8, <1>9 DEF JobsForget
<1>11. PipeKnown(p, now, l)
  <2>1. Forgets(pipe, pipe, pid)
    BY ForgetsNothing
  <2>2. JobKnown(pipe, "JNONE", ch, l)
    BY DEF TableKnown, JobKnown
  <2> HIDE DEF pipe
  <2>3. JobKnown(pipe, "JNONE", now, l)
    BY <1>2, <2>1, <2>2, ForgottenKnown
  <2>4. ProcessKnown(process, now, l)
    BY <1>1, <1>2 DEF ProcessKnown, Forked
  <2>5. \A k \in DOMAIN p : ProcessKnown(p[k], now, l)
    BY <1>4, <1>5, <2>3, <2>4 DEF JobKnown, PipeKnown
  <2>6. ASSUME \A k \in DOMAIN p : p[k].fork \notin l, NEW k \in DOMAIN p, ~ p[k].running
        PROVE  p[k].status = p[k].fork
    <3>1. k \in DOMAIN pipe /\ p[k] = pipe[k]
      BY <1>1, <1>4, <1>5, <2>6
    <3>2. \A n \in DOMAIN pipe : pipe[n].fork \notin l
      BY <1>4, <2>6
    <3> QED BY <3>1, <3>2, <2>3, <2>6 DEF JobKnown, PipeKnown
  <2> QED BY <2>5, <2>6 DEF PipeKnown
<1>12. PipeApart(p)
  <2>1. PipeApart(pipe)
    BY DEF TableKnown
  <2>2. \A k \in DOMAIN pipe : pipe[k].pid # pid
    BY DEF Has
  <2> HIDE DEF pipe
  <2> QED BY <2>1, <2>2, <1>1, <1>4, <1>5 DEF PipeApart
<1>13. ASSUME NEW i \in Occupied(u)
       PROVE  /\ JobKnown(Job(u, i).pipe, Job(u, i).state, now, l)
              /\ PipeApart(Job(u, i).pipe) /\ PipesApart(Job(u, i).pipe, p)
  <2>1. /\ JobKnown(Job(t, i).pipe, Job(t, i).state, ch, l) /\ Job(t, i).pipe \in Seq(Processes)
        /\ PipeApart(Job(t, i).pipe) /\ PipesApart(Job(t, i).pipe, pipe)
    BY <1>10, PipesOf DEF TableKnown, JobsKnown
  <2>2. Forgets(Job(t, i).pipe, Job(u, i).pipe, pid) /\ Job(u, i).state = Job(t, i).state
    BY <1>10
  <2> DEFINE old == Job(t, i).pipe
             new == Job(u, i).pipe
  <2>3. JobKnown(new, Job(t, i).state, now, l)
    <3> DEFINE state == Job(t, i).state
    <3>1. old \in Seq(Processes) /\ JobKnown(old, state, ch, l) /\ Forgets(old, new, pid)
      BY <2>1, <2>2
    <3> HIDE DEF old, new, state
    <3>2. JobKnown(new, state, now, l)
      BY <3>1, ForgottenKnown
    <3> QED BY <3>2 DEF state
  <2>4. PipeApart(new) /\ PipesApart(new, pipe)
    BY <2>1, <2>2, ForgottenApart
  <2>5. \A k \in DOMAIN new : new[k].pid # pid
    BY <2>2 DEF Forgets, Has
  <2> HIDE DEF pipe, old, new
  <2>6. PipesApart(new, p)
    BY <2>4, <2>5, <1>1, <1>4, <1>5 DEF PipesApart
  <2> QED BY <2>2, <2>3, <2>4, <2>6 DEF new
<1>14. ASSUME NEW i \in Occupied(u), NEW j \in Occupied(u), i # j
       PROVE  PipesApart(Job(u, i).pipe, Job(u, j).pipe)
  <2>1. PipesApart(Job(t, i).pipe, Job(t, j).pipe)
    BY <1>10, <1>14 DEF TableKnown, JobsApart
  <2>2. PipesApart(Job(u, i).pipe, Job(t, j).pipe)
    BY <2>1, <1>10, ForgottenApart
  <2> QED BY <2>2, <1>10, ForgottenApart
<1>15. TableKnown(u, now, l)
  BY <1>9, <1>11, <1>12, <1>13, <1>14 DEF TableKnown, JobsKnown, JobsApart
<1>16. Building(u, pid)
  <2>1. Len(pipe) + 1 \in DOMAIN p /\ p[Len(pipe) + 1].pid = pid
    BY <1>1, <1>2, <1>4
  <2> QED BY <2>1, <1>9 DEF Building, Has
<1> QED BY <1>3, <1>9, <1>15, <1>16, <1>17, <1>18

\* The pipeline that was built is a job, running as long as a process of it is.
LEMMA StoppedKnown ==
  ASSUME NEW t, NEW u, Sound(t), Sound(u), u.the_pipeline = <<>>, NEW async, Stopped(t, u, async),
         NEW ch, NEW l, TableKnown(t, ch, l)
  PROVE  /\ TableKnown(u, ch, l)
         /\ \A pid : Building(t, pid) => Holds(u, pid)
<1>1. PICK v, job : /\ Carries(t, v) /\ JobPut(v, u, job) /\ job.pipe = t.the_pipeline
                    /\ job.state = IF \E k \in DOMAIN t.the_pipeline : t.the_pipeline[k].running
                                   THEN "JRUNNING" ELSE "JDEAD"
  BY DEF Stopped
<1>2. PICK i : /\ i \notin Occupied(v) /\ Occupied(u) = Occupied(v) \union {i}
               /\ Job(u, i) = job /\ \A k \in Occupied(v) : Job(u, k) = Job(v, k)
  BY <1>1 DEF JobPut
<1> DEFINE pipe == t.the_pipeline
           Good(p, state) == JobKnown(p, state, ch, l) /\ PipeApart(p) /\ PipesApart(p, pipe)
           G == {j \in Seq(Processes) \X {"JRUNNING", "JDEAD"} : Good(j[1], j[2])}
           P == {j \in Seq(Processes) \X Seq(Processes) : PipesApart(j[1], j[2])}
<1>3. \A p, state : <<p, state>> \in G => Good(p, state)
  OBVIOUS
<1>4. \A p, other : <<p, other>> \in P => PipesApart(p, other)
  OBVIOUS
<1>5. \A p \in Seq(Processes), state \in {"JRUNNING", "JDEAD"} : Good(p, state) => <<p, state>> \in G
  OBVIOUS
<1>6. \A p, other \in Seq(Processes) : PipesApart(p, other) => <<p, other>> \in P
  OBVIOUS
<1>7. \A k \in Occupied(t) : Good(Job(t, k).pipe, Job(t, k).state)
  BY DEF TableKnown, JobsKnown
<1> HIDE DEF G, P, Good
<1>8. Within(t, G, P)
  BY <1>5, <1>6, <1>7, PipesOf DEF Within, TableKnown, JobsApart
<1>9. Within(v, G, P)
  BY <1>1, <1>8 DEF Carries
<1>10. \A k \in Occupied(v) : Good(Job(u, k).pipe, Job(u, k).state)
  BY <1>2, <1>3, <1>9 DEF Within
<1>11. \A k, m \in Occupied(v) : k # m => PipesApart(Job(u, k).pipe, Job(u, m).pipe)
  BY <1>2, <1>4, <1>9 DEF Within
<1>12. PipeKnown(pipe, ch, l) /\ PipeApart(pipe)
  BY DEF TableKnown
<1>13. Job(u, i).pipe = pipe /\ JobKnown(pipe, Job(u, i).state, ch, l)
  BY <1>1, <1>2, <1>12 DEF JobKnown
<1>14. \A p : PipesApart(p, <<>>)
  BY DEF PipesApart
<1>15. JobsKnown(u, ch, l)
  <2>1. \A k \in Occupied(u) : k \in Occupied(v) \/ k = i
    BY <1>2
  <2> HIDE DEF pipe
  <2> QED BY <2>1, <1>10, <1>12, <1>13, <1>14 DEF JobsKnown, Good
<1>16. JobsApart(u)
  <2> SUFFICES ASSUME NEW k \in Occupied(u), NEW m \in Occupied(u), k # m
               PROVE  PipesApart(Job(u, k).pipe, Job(u, m).pipe)
    BY DEF JobsApart
  <2>1. \A n \in Occupied(v) : PipesApart(Job(u, n).pipe, pipe) /\ PipesApart(pipe, Job(u, n).pipe)
    <3> TAKE n \in Occupied(v)
    <3>1. PipesApart(Job(u, n).pipe, pipe)
      BY <1>10 DEF Good
    <3> QED BY <3>1 DEF PipesApart
  <2>2. CASE k \in Occupied(v) /\ m \in Occupied(v)
    BY <2>2, <1>11
  <2>3. CASE k = i \/ m = i
    BY <2>1, <2>3, <1>2, <1>13
  <2> QED BY <2>2, <2>3, <1>2
<1>17. PipeKnown(<<>>, ch, l) /\ PipeApart(<<>>)
  BY DEF PipeKnown, PipeApart
<1>18. TableKnown(u, ch, l)
  BY <1>15, <1>16, <1>17 DEF TableKnown
<1>19. \A pid : Building(t, pid) => Holds(u, pid)
  BY <1>2, <1>13 DEF Building, Holds
<1> QED BY <1>18, <1>19

\* Without children, what is marked running was lost, and a job may be called dead.
LEMMA AllDeadKnown ==
  ASSUME NEW t, Sound(t), NEW ch, \A p \in Pids : ch[p].state = "none", NEW l, TableKnown(t, ch, l)
  PROVE  LET u == mark_all_jobs_as_dead(t)
         IN  Sound(u) /\ TableKnown(u, ch, l)
<1> DEFINE u == mark_all_jobs_as_dead(t)
<1>1. /\ Sound(u) /\ u.the_pipeline = t.the_pipeline /\ Occupied(u) = Occupied(t)
      /\ \A i \in Occupied(t) : Job(u, i).pipe = Job(t, i).pipe /\ Job(u, i).state = "JDEAD"
  BY AllDeadSound
<1> HIDE DEF u
<1>2. ASSUME NEW pipe \in Seq(Processes), PipeKnown(pipe, ch, l)
      PROVE  JobKnown(pipe, "JDEAD", ch, l)
  <2>1. \A k \in DOMAIN pipe : ProcessKnown(pipe[k], ch, l) /\ pipe[k].pid \in Pids \union {0}
    BY <1>2, PipeProcess DEF PipeKnown
  <2>2. \A k \in DOMAIN pipe : pipe[k].running => pipe[k].fork \in l
    BY <2>1 DEF ProcessKnown
  <2> QED BY <1>2, <2>2 DEF JobKnown
<1>3. \A i \in Occupied(u) : /\ JobKnown(Job(u, i).pipe, Job(u, i).state, ch, l)
                             /\ PipeApart(Job(u, i).pipe) /\ PipesApart(Job(u, i).pipe, u.the_pipeline)
  BY <1>1, <1>2, PipesOf DEF TableKnown, JobsKnown, JobKnown
<1>4. TableKnown(u, ch, l)
  BY <1>1, <1>3 DEF TableKnown, JobsKnown, JobsApart
<1> QED BY <1>1, <1>4 DEF u

\* What is found is held.
LEMMA FoundHeld ==
  ASSUME NEW t, Sound(t), NEW pid
  PROVE  /\ Holds(t, pid) <=> find_job(t, pid, FALSE) # NO_JOB
         /\ Holds(t, pid) => find_job(t, pid, FALSE) \in Occupied(t)
<1> DEFINE i == find_job(t, pid, FALSE)
<1>1. \/ /\ i = NO_JOB
         /\ \A n \in Slots(t) : \A k \in DOMAIN Job(t, n).pipe : ~ Matches(Job(t, n).pipe[k], pid, FALSE)
      \/ /\ i \in Occupied(t)
         /\ \E k \in DOMAIN Job(t, i).pipe : Matches(Job(t, i).pipe[k], pid, FALSE)
  BY FindJob
<1> HIDE DEF i
<1>2. \A p : Matches(p, pid, FALSE) <=> p.pid = pid
  BY DEF Matches
<1>3. CASE i = NO_JOB
  <2>1. i \notin Occupied(t)
    BY <1>3, NoSlot
  <2>2. ~ Holds(t, pid)
    BY <1>1, <1>2, <2>1 DEF Holds, Has, Occupied
  <2> QED BY <1>3, <2>2 DEF i
<1>4. CASE i \in Occupied(t)
  <2>1. i # NO_JOB
    BY <1>4, NoSlot
  <2>2. \E k \in DOMAIN Job(t, i).pipe : Matches(Job(t, i).pipe[k], pid, FALSE)
    BY <1>1, <2>1
  <2>3. Holds(t, pid)
    BY <1>2, <1>4, <2>2 DEF Holds, Has
  <2> QED BY <1>4, <2>1, <2>3 DEF i
<1> QED BY <1>1, <1>3, <1>4

\* A job without children is waited for: what is recorded of its first process is no
\* status, but then a process of it was lost.
LEMMA NoChildKnown ==
  ASSUME Sound(table), TableKnown(table, children, lost), NoChild, NEW pid, Holds(table, pid),
         Waits(find_job(table, pid, FALSE))
  PROVE  LET u == NotAChild(table, pid)
         IN  Sound(u) /\ TableKnown(u, children, lost) /\ SameNumbers(table, u)
<1> DEFINE i == find_job(table, pid, FALSE)
           u == NotAChild(table, pid)
           pipe == Job(table, i).pipe
           ended == Ended(pipe, 1, 0)
<1>1. i \in Occupied(table)
  BY FoundHeld
<1>2. /\ Sound(u) /\ u.the_pipeline = table.the_pipeline
      /\ Occupied(u) = Occupied(table) /\ \A j \in Occupied(table) \ {i} : Job(u, j) = Job(table, j)
      /\ Job(u, i).pipe = ended /\ Job(u, i).state = "JDEAD"
  BY <1>1, NoChildRecorded
<1>3. Running(table, i) \/ Head(pipe).running
  BY DEF Waits
<1> HIDE DEF u, i
<1>4. /\ pipe \in Seq(Processes) /\ 1 \in DOMAIN pipe /\ Head(pipe) = pipe[1]
      /\ JobKnown(pipe, Job(table, i).state, children, lost)
  <2>1. pipe \in Seq(Processes) /\ pipe # <<>>
    BY <1>1, PipesOf
  <2>2. JobKnown(pipe, Job(table, i).state, children, lost)
    BY <1>1 DEF TableKnown, JobsKnown
  <2> HIDE DEF pipe
  <2> QED BY <2>1, <2>2
<1>5. \A k \in DOMAIN pipe : pipe[k].running => pipe[k].fork \in lost
  <2> TAKE k \in DOMAIN pipe
  <2>1. ProcessKnown(pipe[k], children, lost) /\ pipe[k].pid \in Pids \union {0}
    BY <1>4, PipeProcess DEF JobKnown, PipeKnown
  <2> QED BY <2>1 DEF ProcessKnown, NoChild
<1>6. \E k \in DOMAIN pipe : pipe[k].running
  BY <1>3, <1>4 DEF Running, JobKnown
<1>7. EndedAt(pipe, ended, 1, 0)
  <2>1. 0 \in 0..MaxForks
    BY JobsAssumption
  <2> HIDE DEF pipe
  <2> QED BY <1>4, <2>1, EndedProcess
<1> HIDE DEF pipe, ended
<1>8. \A k \in DOMAIN pipe : /\ ended[k].fork = pipe[k].fork /\ ended[k].pid = pipe[k].pid
                             /\ ended[k].running => pipe[k].running
  BY <1>7 DEF EndedAt, SamePids
<1>9. DOMAIN ended = DOMAIN pipe
  BY <1>7 DEF EndedAt, SamePids
<1>10. JobKnown(ended, "JDEAD", children, lost)
  <2>1. \A k \in DOMAIN ended : ProcessKnown(ended[k], children, lost)
    BY <1>4, <1>8, <1>9 DEF JobKnown, PipeKnown, ProcessKnown
  <2>2. \E k \in DOMAIN ended : ended[k].fork \in lost
    BY <1>5, <1>6, <1>8, <1>9
  <2>3. \A k \in DOMAIN ended : ended[k].running => ended[k].fork \in lost
    BY <1>5, <1>8, <1>9
  <2> QED BY <2>1, <2>2, <2>3 DEF JobKnown, PipeKnown
<1>11. SameNumbers(table, u)
  <2>1. SamePids(pipe, ended)
    BY <1>7 DEF EndedAt
  <2>2. SamePids(Job(table, i).pipe, Job(u, i).pipe)
    BY <1>2, <2>1 DEF pipe
  <2>3. \A p : SamePids(p, p)
    BY DEF SamePids
  <2> QED BY <1>2, <2>2, <2>3 DEF SameNumbers
<1>12. ASSUME NEW j \in Occupied(u) PROVE JobKnown(Job(u, j).pipe, Job(u, j).state, children, lost)
  <2>1. CASE j = i
    BY <1>2, <1>10, <2>1
  <2>2. CASE j # i
    BY <1>2, <2>2 DEF TableKnown, JobsKnown
  <2> QED BY <2>1, <2>2
<1>13. TableKnown(u, children, lost)
  BY <1>2, <1>11, <1>12, SameNumbersApart DEF TableKnown, JobsKnown
<1> QED BY <1>2, <1>11, <1>13 DEF u

-------------------------------------------------------------------------------
(***************************************************************************)
(* What is reported stays so                                               *)
(***************************************************************************)
\* The children that the kernel has were not lost.
Unlost(ch, l) == \A p \in Pids : ch[p].state # "none" => ch[p].fork \notin l

LEMMA LivingNotDead ==
  ASSUME NEW t, NEW i \in Occupied(t), NEW p \in Pids, NEW ch, NEW l, TableKnown(t, ch, l),
         ch[p].fork \notin l, Living(Job(t, i).pipe, p) # {}
  PROVE  ~ Dead(t, i)
<1>1. PICK k \in DOMAIN Job(t, i).pipe : Matches(Job(t, i).pipe[k], p, TRUE)
  BY DEF Living
<1>2. JobKnown(Job(t, i).pipe, Job(t, i).state, ch, l)
  BY DEF TableKnown, JobsKnown
<1>3. Job(t, i).pipe[k].running /\ Job(t, i).pipe[k].fork = ch[p].fork
  BY <1>1, <1>2, JobsAssumption DEF JobKnown, PipeKnown, ProcessKnown, Matches
<1> QED BY <1>2, <1>3 DEF JobKnown, Dead

\* A dead job leaves the status of $!, if its last process was not lost.
LEMMA DeadReports ==
  ASSUME NEW t, Sound(t), NEW i \in Occupied(t), Dead(t, i), NEW ch, NEW l,
         TableKnown(t, ch, l), TableReports(t, ch, l)
  PROVE  SavedReports(StatusOf(t, i), ch, l)
<1> DEFINE pipe == Job(t, i).pipe
           n == Len(pipe)
           p == pipe[n]
           foreground == Job(t, i).foreground
<1>1. JobKnown(pipe, "JDEAD", ch, l) /\ PipeReports(pipe, foreground, ch)
  BY DEF TableKnown, JobsKnown, TableReports, Dead
<1>2. n \in DOMAIN pipe /\ LastProc(t, i) = p
  BY PipesOf DEF LastProc, Last
<1>3. StatusOf(t, i).pid = p.pid /\ StatusOf(t, i).status = p.status
  BY <1>2 DEF StatusOf
<1> HIDE DEF n, pipe, foreground
<1> SUFFICES ASSUME p.pid # 0, ch[p.pid].kind = "$!"
             PROVE  p.status = ch[p.pid].fork \/ (p.status = 0 /\ ch[p.pid].fork \in l)
  BY <1>3 DEF SavedReports
<1>4. p.status = IF p.running THEN 0 ELSE p.fork
  BY <1>1, <1>2 DEF PipeReports
<1>5. p.fork = ch[p.pid].fork /\ (p.running => p.fork \in l)
  BY <1>1, <1>2 DEF JobKnown, PipeKnown, ProcessKnown
<1> HIDE DEF p
<1> QED BY <1>4, <1>5

\* Jobs that are dead are taken out of the table, and their statuses saved.
LEMMA SavesReports ==
  ASSUME NEW t, Sound(t), NEW u, Saves(t, u), u.the_pipeline = t.the_pipeline,
         NEW ch, NEW l, Unlost(ch, l), TableKnown(t, ch, l), TableReports(t, ch, l)
  PROVE  TableReports(u, ch, l)
<1>1. NumbersApart(t)
  BY DEF NumbersApart, TableKnown, JobsKnown, TableReports
<1>2. SavedApart(u)
  BY <1>1 DEF Saves, NumbersApart
<1>3. ASSUME NEW p \in Pids, ch[p].state # "none" PROVE Attended(u, p)
  <2>1. Attended(t, p) /\ ch[p].fork \notin l
    BY <1>3 DEF TableReports, Unlost
  <2>2. ASSUME NEW i \in Occupied(t), Living(Job(t, i).pipe, p) # {}
        PROVE  \E j \in Occupied(u) : Living(Job(u, j).pipe, p) # {}
    <3>1. ~ Dead(t, i)
      BY <2>1, <2>2, LivingNotDead
    <3>2. PICK j \in Occupied(u) : Same(Job(t, i), Job(u, j))
      BY <3>1 DEF Saves
    <3> QED BY <2>2, <3>2 DEF Same
  <2> QED BY <2>1, <2>2 DEF Attended
<1>4. ASSUME NEW j \in Occupied(u) PROVE PipeReports(Job(u, j).pipe, Job(u, j).foreground, ch)
  <2>1. PICK i \in Occupied(t) : Same(Job(t, i), Job(u, j))
    BY DEF Saves
  <2> QED BY <2>1 DEF Same, TableReports
<1>5. ASSUME NEW n \in DOMAIN u.bgpids PROVE SavedReports(u.bgpids[n], ch, l)
  <2>1. \/ \E m \in DOMAIN t.bgpids : u.bgpids[n] = t.bgpids[m]
        \/ \E i \in Occupied(t) : Dead(t, i) /\ u.bgpids[n] = StatusOf(t, i)
    BY DEF Saves
  <2> QED BY <2>1, DeadReports DEF TableReports
<1> QED BY <1>2, <1>3, <1>4, <1>5 DEF TableReports

\* The pipeline becomes a job.
LEMMA StoppedReports ==
  ASSUME NEW t, Sound(t), NEW u, u.the_pipeline = <<>>, NEW async, Stopped(t, u, async),
         NEW ch, NEW l, Unlost(ch, l), TableKnown(t, ch, l), TableReports(t, ch, l),
         PipeReports(t.the_pipeline, ~ async, ch)
  PROVE  TableReports(u, ch, l)
<1>1. PICK v, job : /\ Saves(t, v) /\ v.the_pipeline = t.the_pipeline
                    /\ JobPut(v, u, job) /\ u.bgpids = v.bgpids
                    /\ job.pipe = t.the_pipeline /\ job.foreground = ~ async
  BY DEF Stopped
<1>2. PICK i : /\ i \notin Occupied(v) /\ Occupied(u) = Occupied(v) \union {i}
               /\ Job(u, i) = job /\ \A k \in Occupied(v) : Job(u, k) = Job(v, k)
  BY <1>1 DEF JobPut
<1>3. TableReports(v, ch, l)
  BY <1>1, SavesReports
<1>4. ASSUME NEW p \in Pids, ch[p].state # "none" PROVE Attended(u, p)
  <2>1. Attended(v, p)
    BY <1>3, <1>4 DEF TableReports
  <2> QED BY <1>1, <1>2, <2>1 DEF Attended
<1>5. \A k \in Occupied(u) : PipeReports(Job(u, k).pipe, Job(u, k).foreground, ch)
  BY <1>1, <1>2, <1>3 DEF TableReports
<1>6. \A pid : /\ Holds(u, pid) => Holds(v, pid) \/ Building(v, pid)
               /\ ~ Building(u, pid)
  BY <1>1, <1>2 DEF Holds, Building, Has
<1>7. SavedApart(u)
  BY <1>1, <1>3, <1>6 DEF TableReports, SavedApart
<1> QED BY <1>1, <1>3, <1>4, <1>5, <1>7 DEF TableReports

\* There is a new process, and no trace of an earlier one of its number.
Appended(pipe, longer, pid, fork) ==
  longer = Append(pipe, [pid |-> pid, fork |-> fork, status |-> 0, running |-> TRUE])

LEMMA AppendedPipe ==
  ASSUME NEW pipe \in Seq(Processes), NEW longer, NEW pid, NEW fork,
         Appended(pipe, longer, pid, fork)
  PROVE  /\ DOMAIN pipe = 1..Len(pipe) /\ Len(pipe) \in Nat /\ Len(longer) = Len(pipe) + 1
         /\ DOMAIN longer = 1..(Len(pipe) + 1)
         /\ longer[Len(pipe) + 1].pid = pid /\ longer[Len(pipe) + 1].fork = fork
         /\ longer[Len(pipe) + 1].status = 0 /\ longer[Len(pipe) + 1].running = TRUE
         /\ \A k \in DOMAIN pipe : longer[k] = pipe[k]
<1> DEFINE process == [pid |-> pid, fork |-> fork, status |-> 0, running |-> TRUE]
<1>1. longer = Append(pipe, process)
  BY DEF Appended
<1>2. /\ process.pid = pid /\ process.fork = fork /\ process.status = 0
      /\ process.running = TRUE
  OBVIOUS
<1> HIDE DEF process
<1>3. /\ DOMAIN pipe = 1..Len(pipe) /\ Len(pipe) \in Nat /\ Len(longer) = Len(pipe) + 1
      /\ DOMAIN longer = 1..(Len(pipe) + 1) /\ longer[Len(pipe) + 1] = process
      /\ \A k \in DOMAIN pipe : longer[k] = pipe[k]
  BY <1>1
<1> QED BY <1>2, <1>3

LEMMA AppendedLast ==
  ASSUME NEW pipe \in Seq(Processes), NEW longer, NEW pid, NEW fork,
         Appended(pipe, longer, pid, fork)
  PROVE  LET n == Len(pipe) + 1
         IN  /\ \A k \in DOMAIN longer : k = n \/ k \in DOMAIN pipe
             /\ \A k \in DOMAIN pipe : k \in DOMAIN longer /\ longer[k] = pipe[k]
             /\ n \in DOMAIN longer /\ longer[n].pid = pid /\ longer[n].running = TRUE
<1>1. /\ DOMAIN pipe = 1..Len(pipe) /\ Len(pipe) \in Nat /\ Len(longer) = Len(pipe) + 1
      /\ DOMAIN longer = 1..(Len(pipe) + 1)
      /\ longer[Len(pipe) + 1].pid = pid /\ longer[Len(pipe) + 1].fork = fork
      /\ longer[Len(pipe) + 1].status = 0 /\ longer[Len(pipe) + 1].running = TRUE
      /\ \A k \in DOMAIN pipe : longer[k] = pipe[k]
  BY AppendedPipe, ZenonT(60)
<1> QED BY <1>1

LEMMA AddedPipeReports ==
  ASSUME NEW pipe \in Seq(Processes), NEW longer, NEW pid \in Pids, NEW fork,
         Appended(pipe, longer, pid, fork), NEW ch, NEW now, Forked(ch, now, pid, fork),
         ~ Has(pipe, pid), NEW foreground, PipeReports(pipe, foreground, ch),
         now[pid].kind = "foreground" <=> foreground,
         \A k \in DOMAIN pipe : pipe[k].pid # 0 => ch[pipe[k].pid].kind # "$!"
  PROVE  PipeReports(longer, foreground, now)
<1>1. \A k \in DOMAIN pipe : pipe[k].pid # 0 => pipe[k].pid \in Pids \ {pid}
  BY PipeProcess DEF Has
<1>2. \A k \in DOMAIN pipe : pipe[k].pid # 0 => now[pipe[k].pid].kind = ch[pipe[k].pid].kind
  BY <1>1 DEF Forked
<1> DEFINE n == Len(pipe) + 1
<1>3. /\ DOMAIN longer = 1..n /\ n = Len(longer) /\ DOMAIN pipe = 1..(n - 1)
      /\ n \in Nat
      /\ longer[n].pid = pid /\ longer[n].status = 0 /\ longer[n].running = TRUE
      /\ \A k \in DOMAIN pipe : longer[k] = pipe[k]
  <2>1. /\ DOMAIN pipe = 1..Len(pipe) /\ Len(pipe) \in Nat /\ Len(longer) = Len(pipe) + 1
        /\ DOMAIN longer = 1..(Len(pipe) + 1)
        /\ longer[Len(pipe) + 1].pid = pid /\ longer[Len(pipe) + 1].fork = fork
        /\ longer[Len(pipe) + 1].status = 0 /\ longer[Len(pipe) + 1].running = TRUE
        /\ \A k \in DOMAIN pipe : longer[k] = pipe[k]
    BY AppendedPipe
  <2> DEFINE len == Len(pipe)
  <2> HIDE DEF len
  <2>2. n = len + 1
    BY DEF len
  <2> HIDE DEF n
  <2> QED BY <2>1, <2>2 DEF len
<1> HIDE DEF n
<1>4. \A k \in DOMAIN longer : k = n \/ k \in DOMAIN pipe
  BY <1>3
<1>5. ASSUME NEW k \in DOMAIN pipe
      PROVE  /\ longer[k].pid # 0 => /\ now[longer[k].pid].kind = "foreground" <=> foreground
                                     /\ now[longer[k].pid].kind # "$!"
             /\ ~ foreground => longer[k].status = IF longer[k].running THEN 0 ELSE longer[k].fork
  BY <1>2, <1>3 DEF PipeReports
<1> QED BY <1>3, <1>4, <1>5 DEF PipeReports

LEMMA ForgottenReports ==
  ASSUME NEW pipe \in Seq(Processes), NEW other \in Seq(Processes), NEW pid \in Pids,
         Forgets(pipe, other, pid), NEW ch, NEW now, NEW fork, Forked(ch, now, pid, fork)
  PROVE  /\ \A foreground : PipeReports(pipe, foreground, ch) => PipeReports(other, foreground, now)
         /\ \A p : p # pid /\ Living(pipe, p) # {} => Living(other, p) # {}
         /\ \A p : p # 0 /\ Has(other, p) => Has(pipe, p)
<1>1. DOMAIN pipe = 1..Len(pipe) /\ DOMAIN other = 1..Len(other) /\ Len(other) = Len(pipe)
  <2>1. Len(pipe) \in Nat /\ Len(other) \in Nat /\ DOMAIN other = DOMAIN pipe
    BY DEF Forgets
  <2> QED BY <2>1
<1>2. \A k \in DOMAIN pipe :
        /\ other[k].pid # 0 => other[k] = pipe[k] /\ pipe[k].pid \in Pids \ {pid}
        /\ other[k].fork = pipe[k].fork /\ other[k].status = pipe[k].status
        /\ other[k].running = pipe[k].running
        /\ pipe[k].pid = pid \/ other[k] = pipe[k]
  BY PipeProcess, JobsAssumption DEF Forgets, Has
<1>3. ASSUME NEW foreground, PipeReports(pipe, foreground, ch) PROVE PipeReports(other, foreground, now)
  <2>1. \A k \in DOMAIN pipe : other[k].pid # 0 => now[other[k].pid].kind = ch[pipe[k].pid].kind
    BY <1>2 DEF Forked
  <2> QED BY <1>1, <1>2, <1>3, <2>1 DEF PipeReports
<1>4. \A p : p # pid /\ Living(pipe, p) # {} => Living(other, p) # {}
  <2> SUFFICES ASSUME NEW p, p # pid, NEW k \in Living(pipe, p) PROVE k \in Living(other, p)
    OBVIOUS
  <2> QED BY <1>1, <1>2 DEF Living, Matches
<1>5. \A p : p # 0 /\ Has(other, p) => Has(pipe, p)
  BY <1>1, <1>2 DEF Has
<1> QED BY <1>3, <1>4, <1>5

LEMMA AddedReports ==
  ASSUME NEW t, Sound(t), NEW u, Sound(u), NEW pid \in Pids, NEW fork, NEW ch, NEW now,
         Forked(ch, now, pid, fork), NEW l, Unlost(ch, l), TableKnown(t, ch, l),
         TableReports(t, ch, l), ~ Has(t.the_pipeline, pid), JobsForget(t, u, pid),
         StatusOut(t.bgpids, u.bgpids, pid), Appended(t.the_pipeline, u.the_pipeline, pid, fork)
  PROVE  TableReports(u, now, l)
<1> DEFINE pipe == t.the_pipeline
           longer == u.the_pipeline
           n == Len(pipe) + 1
<1>1. pid # 0 /\ pipe \in Seq(Processes)
  BY PipesOf, JobsAssumption
<1>2. /\ \A k \in DOMAIN longer : k = n \/ k \in DOMAIN pipe
      /\ \A k \in DOMAIN pipe : k \in DOMAIN longer /\ longer[k] = pipe[k]
      /\ n \in DOMAIN longer /\ longer[n].pid = pid /\ longer[n].running = TRUE
  BY <1>1, AppendedLast
<1>3. ASSUME NEW i \in Occupied(u)
      PROVE  /\ i \in Occupied(t) /\ Forgets(Job(t, i).pipe, Job(u, i).pipe, pid)
             /\ Job(u, i).foreground = Job(t, i).foreground
             /\ Job(t, i).pipe \in Seq(Processes) /\ Job(u, i).pipe \in Seq(Processes)
  BY PipesOf DEF JobsForget
<1> HIDE DEF n
<1>4. ASSUME NEW q \in Pids, now[q].state # "none" PROVE Attended(u, q)
  <2>1. CASE q = pid
    BY <1>2, <2>1 DEF Attended, Living, Matches
  <2>2. CASE q # pid
    <3>1. ch[q].state # "none" /\ ch[q].fork \notin l /\ Attended(t, q)
      BY <1>4, <2>2 DEF Forked, Unlost, TableReports
    <3>2. Living(pipe, q) # {} => Living(longer, q) # {}
      BY <1>2 DEF Living, Matches
    <3>3. ASSUME NEW i \in Occupied(t), Living(Job(t, i).pipe, q) # {}
          PROVE  i \in Occupied(u) /\ Living(Job(u, i).pipe, q) # {}
      <4>1. ~ Dead(t, i)
        BY <3>1, <3>3, LivingNotDead
      <4>2. i \in Occupied(u)
        BY <4>1 DEF JobsForget
      <4> QED BY <1>3, <2>2, <3>3, <4>2, ForgottenReports
    <3> QED BY <3>1, <3>2, <3>3 DEF Attended
  <2> QED BY <2>1, <2>2
<1>5. \A i \in Occupied(u) : PipeReports(Job(u, i).pipe, Job(u, i).foreground, now)
  BY <1>3, ForgottenReports DEF TableReports
<1>6. ASSUME NEW k \in DOMAIN u.bgpids
      PROVE  /\ u.bgpids[k].pid # pid /\ u.bgpids[k].pid \in Pids \union {0}
             /\ \E m \in DOMAIN t.bgpids : u.bgpids[k] = t.bgpids[m]
  <2>1. PipeApart(t.bgpids)
    BY DEF TableReports, SavedApart, PipeApart
  <2>2. ~ Has(u.bgpids, pid)
    BY <1>1, <2>1 DEF StatusOut
  <2>3. u.bgpids \in Seq(Saved)
    BY DEF Sound, Tables
  <2>4. u.bgpids[k] \in Saved
    BY <2>3
  <2> QED BY <2>2, <2>4 DEF StatusOut, Has, Saved
<1>7. ASSUME NEW k \in DOMAIN u.bgpids PROVE SavedReports(u.bgpids[k], now, l)
  <2>1. SavedReports(u.bgpids[k], ch, l)
    BY <1>6 DEF TableReports
  <2> QED BY <1>6, <2>1 DEF SavedReports, Forked
<1>8. SavedApart(u)
  <2>1. PipeApart(u.bgpids)
    BY DEF TableReports, SavedApart, PipeApart, StatusOut
  <2>2. ASSUME NEW k \in DOMAIN u.bgpids, u.bgpids[k].pid # 0
        PROVE  ~ Holds(u, u.bgpids[k].pid) /\ ~ Building(u, u.bgpids[k].pid)
    <3> DEFINE q == u.bgpids[k].pid
    <3>1. q # 0 /\ q # pid /\ ~ Holds(t, q) /\ ~ Has(pipe, q)
      BY <1>6, <2>2 DEF TableReports, SavedApart, Building
    <3> HIDE DEF q
    <3>2. ~ Holds(u, q)
      BY <1>3, <3>1, ForgottenReports DEF Holds
    <3>3. ~ Has(longer, q)
      BY <1>2, <3>1 DEF Has
    <3> QED BY <3>2, <3>3 DEF q, Building
  <2> QED BY <2>1, <2>2 DEF SavedApart, PipeApart
<1> QED BY <1>4, <1>5, <1>7, <1>8 DEF TableReports

\* Without children, jobs may be called dead.
LEMMA AllDeadReports ==
  ASSUME NEW t, Sound(t), NEW ch, \A p \in Pids : ch[p].state = "none", NEW l,
         TableReports(t, ch, l)
  PROVE  TableReports(mark_all_jobs_as_dead(t), ch, l)
<1> DEFINE u == mark_all_jobs_as_dead(t)
<1>1. /\ u.the_pipeline = t.the_pipeline /\ u.bgpids = t.bgpids /\ Occupied(u) = Occupied(t)
      /\ \A i \in Occupied(t) : /\ Job(u, i).pipe = Job(t, i).pipe
                                /\ Job(u, i).foreground = Job(t, i).foreground
  BY AllDeadSound
<1> HIDE DEF u
<1>2. SameNumbers(t, u)
  BY <1>1 DEF SameNumbers, SamePids
<1>3. SavedApart(u)
  BY <1>1, <1>2, NumbersSaved DEF TableReports
<1>4. TableReports(u, ch, l)
  BY <1>1, <1>3 DEF TableReports
<1> QED BY <1>4 DEF u

\* Only a command in the foreground is waited for that way.
LEMMA NoChildReports ==
  ASSUME Sound(table), TableKnown(table, children, lost), NoChild, NEW pid \in Pids,
         Holds(table, pid), Waits(find_job(table, pid, FALSE)),
         children[pid].kind = "foreground", TableReports(table, children, lost)
  PROVE  TableReports(NotAChild(table, pid), children, lost)
<1> DEFINE i == find_job(table, pid, FALSE)
           u == NotAChild(table, pid)
           old == Job(table, i)
<1>1. /\ SameNumbers(table, u) /\ Sound(u)
  BY NoChildKnown
<1>2. i \in Occupied(table)
  BY FoundHeld
<1>3. /\ Occupied(u) = Occupied(table) /\ u.bgpids = table.bgpids
      /\ \A j \in Occupied(table) \ {i} : Job(u, j) = Job(table, j)
      /\ Job(u, i).pipe = Ended(old.pipe, 1, 0) /\ Job(u, i).foreground = old.foreground
  BY <1>2, NoChildRecorded
<1>4. Has(old.pipe, pid)
  <2>1. \E k \in DOMAIN old.pipe : Matches(old.pipe[k], pid, FALSE)
    BY <1>2, NoSlot, FindJob
  <2> HIDE DEF old
  <2> QED BY <2>1 DEF Has, Matches
<1> HIDE DEF u, i
<1>5. old.pipe \in Seq(Processes) /\ PipeReports(old.pipe, old.foreground, children)
  BY <1>2, PipesOf DEF TableReports
<1>6. old.foreground
  <2> HIDE DEF old
  <2> QED BY <1>4, <1>5, JobsAssumption DEF Has, PipeReports
<1>7. PipeReports(Job(u, i).pipe, Job(u, i).foreground, children)
  <2> DEFINE pipe == old.pipe
             other == Job(u, i).pipe
  <2>1. SamePids(pipe, other)
    BY <1>1, <1>2 DEF SameNumbers
  <2>2. other \in Seq(Processes)
    BY <1>1, <1>2, <1>3, PipesOf
  <2> HIDE DEF old, other
  <2>3. Len(other) = Len(pipe)
    <3>1. Len(other) \in Nat /\ Len(pipe) \in Nat /\ DOMAIN other = 1..Len(other)
          /\ DOMAIN pipe = 1..Len(pipe) /\ DOMAIN other = DOMAIN pipe
      BY <1>5, <2>1, <2>2 DEF SamePids
    <3> QED BY <3>1
  <2>4. PipeReports(other, old.foreground, children)
    BY <1>5, <1>6, <2>1, <2>3 DEF PipeReports, SamePids
  <2> QED BY <1>3, <2>4 DEF other
<1>8. \A j \in Occupied(u) : PipeReports(Job(u, j).pipe, Job(u, j).foreground, children)
  BY <1>3, <1>7 DEF TableReports
<1>9. SavedApart(u)
  BY <1>1, <1>3, NumbersSaved DEF TableReports
<1>10. TableReports(u, children, lost)
  BY <1>3, <1>8, <1>9 DEF TableReports, NoChild
<1> QED BY <1>10 DEF u

-------------------------------------------------------------------------------
(***************************************************************************)
(* What is known of a process of $! that has ended stays known             *)
(***************************************************************************)
\* A job in the background that has ended, and has none of the numbers E that are given
\* out again
Over(t, i, E) == Dead(t, i) /\ ~ Job(t, i).foreground /\ \A e \in E : ~ Has(Job(t, i).pipe, e)

As(t, i, u, j) == Job(u, j).pipe = Job(t, i).pipe /\ Dead(u, j)

\* Such a job stays as it is or leaves its status; what was saved is saved, or displaced;
\* and a number is in a job of u when it was in one of t, or in its pipeline.
Stays(t, u, E) ==
  /\ \A i \in Occupied(t) : Over(t, i, E) => \/ \E j \in Occupied(u) : As(t, i, u, j)
                                             \/ StatusIn(u.bgpids, StatusOf(t, i))
  /\ \A n \in DOMAIN t.bgpids : t.bgpids[n].pid \notin E => StatusIn(u.bgpids, t.bgpids[n])
  /\ \A j \in Occupied(u), p \in Pids \ E : Has(Job(u, j).pipe, p)
       => \/ Building(t, p)
          \/ \E i \in Occupied(t) : Has(Job(t, i).pipe, p) /\ (Over(t, i, E) => As(t, i, u, j))

\* The job that is found, where no two have one number
LEMMA FoundIs ==
  ASSUME NEW t, Sound(t), JobsApart(t), NEW p \in Pids, NEW i \in Occupied(t), Has(Job(t, i).pipe, p)
  PROVE  find_job(t, p, FALSE) = i
<1> DEFINE j == find_job(t, p, FALSE)
<1>1. j \in Occupied(t) /\ \E k \in DOMAIN Job(t, j).pipe : Matches(Job(t, j).pipe[k], p, FALSE)
  <2>1. i \in Slots(t) /\ \E k \in DOMAIN Job(t, i).pipe : Matches(Job(t, i).pipe[k], p, FALSE)
    BY DEF Occupied, Has, Matches
  <2> QED BY <2>1, FindJob
<1> HIDE DEF j
<1>2. Has(Job(t, j).pipe, p) /\ p # 0
  BY <1>1, JobsAssumption DEF Has, Matches
<1>3. j = i
  BY <1>1, <1>2 DEF JobsApart, PipesApart, Has
<1> QED BY <1>3 DEF j

\* The status that is found, where no two have one number
LEMMA SearchedIs ==
  ASSUME NEW t, Sound(t), NEW p \in Pids
  PROVE  /\ bgp_search(t, p) # -1 => \E n \in DOMAIN t.bgpids :
              t.bgpids[n].pid = p /\ t.bgpids[n].status = bgp_search(t, p)
         /\ SavedApart(t) => \A n \in DOMAIN t.bgpids :
              t.bgpids[n].pid = p => bgp_search(t, p) = t.bgpids[n].status
<1> DEFINE b == t.bgpids
           found == FirstPlace(Numbered(b, p))
<1>1. b \in Seq(Saved)
  BY DEF Sound, Tables
<1>2. bgp_search(t, p) = IF found = 0 THEN -1 ELSE b[found].status
  BY DEF bgp_search, SelectInSeq, found, FirstPlace, Numbered
<1>3. (\E n \in DOMAIN b : b[n].pid = p) => found \in DOMAIN b /\ b[found].pid = p
  BY <1>1, ProcessOf
<1>4. ~ (\E n \in DOMAIN b : b[n].pid = p) => found = 0
  <2>1. DOMAIN b = 1..Len(b)
    BY <1>1
  <2> QED BY <2>1 DEF FirstPlace, Numbered
<1>5. 0 \notin DOMAIN b
  BY <1>1
<1> HIDE DEF found
<1>6. found # 0 => found \in DOMAIN b /\ b[found].pid = p
  BY <1>3, <1>4
<1>7. SavedApart(t) => \A n \in DOMAIN b : b[n].pid = p => n = found
  <2>1. p # 0
    BY JobsAssumption
  <2> QED BY <1>3, <2>1 DEF SavedApart
<1> QED BY <1>2, <1>3, <1>5, <1>6, <1>7

\* In a job that is found for a number of $!, that is the last.
LEMMA LastIs ==
  ASSUME NEW t, Sound(t), NEW i \in Occupied(t), NEW p \in Pids, Has(Job(t, i).pipe, p),
         NEW ch, NEW l, TableReports(t, ch, l), ch[p].kind = "$!"
  PROVE  LastProc(t, i).pid = p /\ ~ Job(t, i).foreground
<1> DEFINE pipe == Job(t, i).pipe
<1>1. PipeReports(pipe, Job(t, i).foreground, ch)
  BY DEF TableReports
<1>2. PICK k \in DOMAIN pipe : pipe[k].pid = p
  BY DEF Has
<1>3. LastProc(t, i) = pipe[Len(pipe)]
  BY DEF LastProc, Last
<1> HIDE DEF pipe
<1> QED BY <1>1, <1>2, <1>3, JobsAssumption DEF PipeReports

LEMMA KnownStays ==
  ASSUME NEW t, Sound(t), JobsApart(t), NEW ch, NEW l, TableKnown(t, ch, l), TableReports(t, ch, l),
         NEW u, Sound(u), JobsApart(u), SavedApart(u), NEW E \in SUBSET Pids, Stays(t, u, E),
         NEW p \in Pids, ch[p].kind = "$!", Known(t, p) # -1
  PROVE  \/ Known(u, p) = Known(t, p)
         \/ Len(u.bgpids) = ChildMax /\ find_job(u, p, FALSE) = NO_JOB
         \/ \E e \in E : e \in Together(t, p)
<1> DEFINE i == find_job(t, p, FALSE)
<1>1. p # 0 /\ \A e \in E : e # 0
  BY JobsAssumption
<1>2. \A j : j \in Occupied(u) => j # NO_JOB
  BY NoSlot
<1>3. ASSUME NEW status, \E n \in DOMAIN u.bgpids : u.bgpids[n] = [pid |-> p, status |-> status]
      PROVE  Known(u, p) = status
  <2>1. PICK n \in DOMAIN u.bgpids : u.bgpids[n].pid = p /\ u.bgpids[n].status = status
    BY <1>3
  <2>2. ~ Holds(u, p)
    BY <1>1, <2>1 DEF SavedApart
  <2>3. find_job(u, p, FALSE) = NO_JOB
    BY <2>2, FoundHeld
  <2> QED BY <2>1, <2>3, SearchedIs DEF Known
<1>4. CASE i # NO_JOB
  <2>1. i \in Occupied(t) /\ Has(Job(t, i).pipe, p)
    <3>1. i \in Occupied(t) /\ \E k \in DOMAIN Job(t, i).pipe : Matches(Job(t, i).pipe[k], p, FALSE)
      BY <1>4, FindJob
    <3> HIDE DEF i
    <3> QED BY <3>1 DEF Has, Matches
  <2>2. Dead(t, i) /\ Known(t, p) = LastProc(t, i).status
    BY <1>4 DEF Known
  <2>3. LastProc(t, i).pid = p /\ ~ Job(t, i).foreground
    <3> HIDE DEF i
    <3> QED BY <2>1, LastIs
  <2>4. StatusOf(t, i) = [pid |-> p, status |-> Known(t, p)]
    <3> HIDE DEF i
    <3> QED BY <2>2, <2>3 DEF StatusOf
  <2>5. ASSUME NEW e \in E, Has(Job(t, i).pipe, e) PROVE e \in Together(t, p)
    <3> DEFINE pipe == Job(t, i).pipe
    <3>1. Together(t, p) = {pipe[k].pid : k \in DOMAIN pipe} \ {0}
      BY <1>4 DEF Together
    <3>2. Has(pipe, e)
      BY <2>5
    <3> HIDE DEF pipe
    <3> QED BY <1>1, <3>1, <3>2 DEF Has
  <2> HIDE DEF i
  <2>6. CASE \E e \in E : Has(Job(t, i).pipe, e)
    BY <2>5, <2>6
  <2>7. CASE \A e \in E : ~ Has(Job(t, i).pipe, e)
    <3>1. Over(t, i, E) /\ p \notin E
      BY <2>1, <2>2, <2>3, <2>7 DEF Over
    <3>2. ASSUME NEW j \in Occupied(u), As(t, i, u, j) PROVE Known(u, p) = Known(t, p)
      <4>1. find_job(u, p, FALSE) = j
        BY <2>1, <3>2, FoundIs DEF As
      <4>2. LastProc(u, j).status = LastProc(t, i).status
        BY <3>2 DEF As, LastProc
      <4> QED BY <1>2, <2>2, <3>2, <4>1, <4>2 DEF Known, As
    <3>3. CASE Len(u.bgpids) = ChildMax
      <4>1. ASSUME find_job(u, p, FALSE) # NO_JOB PROVE Known(u, p) = Known(t, p)
        <5> DEFINE j == find_job(u, p, FALSE)
        <5>1. j \in Occupied(u) /\ Has(Job(u, j).pipe, p)
          <6>1. j \in Occupied(u) /\ \E k \in DOMAIN Job(u, j).pipe : Matches(Job(u, j).pipe[k], p, FALSE)
            BY <4>1, FindJob
          <6> HIDE DEF j
          <6> QED BY <6>1 DEF Has, Matches
        <5> HIDE DEF j
        <5>2. ~ Building(t, p)
          BY <1>1, <2>1 DEF TableKnown, JobsKnown, PipesApart, Has, Building
        <5>3. PICK k \in Occupied(t) : Has(Job(t, k).pipe, p) /\ (Over(t, k, E) => As(t, k, u, j))
          BY <3>1, <5>1, <5>2 DEF Stays
        <5>4. k = i
          BY <1>1, <2>1, <5>3 DEF JobsApart, PipesApart, Has
        <5> QED BY <3>1, <3>2, <5>1, <5>3, <5>4
      <4> QED BY <3>3, <4>1
    <3>4. CASE \E n \in DOMAIN u.bgpids : u.bgpids[n] = StatusOf(t, i)
      BY <1>3, <2>4, <3>4
    <3>5. \/ \E j \in Occupied(u) : As(t, i, u, j)
          \/ StatusIn(u.bgpids, StatusOf(t, i))
      BY <2>1, <3>1 DEF Stays
    <3> QED BY <3>2, <3>3, <3>4, <3>5 DEF StatusIn
  <2> QED BY <2>6, <2>7
<1>5. CASE i = NO_JOB
  <2>1. Known(t, p) = bgp_search(t, p) /\ Together(t, p) = {p}
    BY <1>5 DEF Known, Together
  <2>2. PICK n \in DOMAIN t.bgpids : t.bgpids[n].pid = p /\ t.bgpids[n].status = Known(t, p)
    BY <2>1, SearchedIs
  <2>3. t.bgpids[n] = [pid |-> p, status |-> Known(t, p)]
    <3>1. t.bgpids \in Seq(Saved)
      BY DEF Sound, Tables
    <3>2. t.bgpids[n] \in Saved
      BY <3>1
    <3> QED BY <2>2, <3>2 DEF Saved
  <2>4. ~ Holds(t, p) /\ ~ Building(t, p)
    BY <1>1, <2>2 DEF TableReports, SavedApart
  <2>5. p \notin E => find_job(u, p, FALSE) = NO_JOB
    <3>1. p \notin E => ~ Holds(u, p)
      BY <2>4 DEF Stays, Holds
    <3> QED BY <3>1, FoundHeld
  <2>6. CASE p \notin E
    <3>1. StatusIn(u.bgpids, t.bgpids[n])
      BY <2>2, <2>6 DEF Stays
    <3>2. CASE Len(u.bgpids) = ChildMax
      BY <2>5, <2>6, <3>2
    <3>3. CASE \E m \in DOMAIN u.bgpids : u.bgpids[m] = t.bgpids[n]
      BY <1>3, <2>3, <3>3
    <3> QED BY <3>1, <3>2, <3>3 DEF StatusIn
  <2>7. CASE p \in E
    BY <2>1, <2>7
  <2> QED BY <2>6, <2>7
<1> QED BY <1>4, <1>5

\* The jobs have the processes they had, and those that were dead are.
Alike(t, u) ==
  /\ u.bgpids = t.bgpids /\ Occupied(u) = Occupied(t)
  /\ \A i \in Occupied(t) : Job(u, i).pipe = Job(t, i).pipe /\ (Dead(t, i) => Dead(u, i))

LEMMA AlikeItself == ASSUME NEW t PROVE Alike(t, t)
BY DEF Alike

\* Jobs are marked, and dead ones saved.
LEMMA SavesStays ==
  ASSUME NEW t, NEW m, NEW n, NEW u, Alike(t, m), Saves(m, n), Alike(n, u)
  PROVE  Stays(t, u, {})
<1>1. ASSUME NEW i \in Occupied(t), Dead(t, i)
      PROVE  (\E j \in Occupied(u) : As(t, i, u, j)) \/ StatusIn(u.bgpids, StatusOf(t, i))
  <2>1. i \in Occupied(m) /\ Dead(m, i) /\ StatusOf(m, i) = StatusOf(t, i)
    BY <1>1 DEF Alike, StatusOf, LastProc
  <2>2. CASE StatusIn(n.bgpids, StatusOf(m, i))
    BY <2>1, <2>2 DEF Alike
  <2>3. ASSUME NEW j \in Occupied(n), Same(Job(m, i), Job(n, j)) PROVE As(t, i, u, j) /\ j \in Occupied(u)
    BY <2>1, <2>3 DEF Same, Alike, As, Dead
  <2> QED BY <2>1, <2>2, <2>3 DEF Saves
<1>2. \A k \in DOMAIN t.bgpids : StatusIn(u.bgpids, t.bgpids[k])
  BY DEF Alike, Saves
<1>3. ASSUME NEW j \in Occupied(u)
      PROVE  \E i \in Occupied(t) : Job(u, j).pipe = Job(t, i).pipe /\ (Dead(t, i) => Dead(u, j))
  <2>1. j \in Occupied(n) /\ Job(u, j).pipe = Job(n, j).pipe /\ (Dead(n, j) => Dead(u, j))
    BY DEF Alike
  <2>2. PICK i \in Occupied(m) : Same(Job(m, i), Job(n, j))
    BY <2>1 DEF Saves
  <2>3. i \in Occupied(t) /\ Job(m, i).pipe = Job(t, i).pipe /\ (Dead(t, i) => Dead(m, i))
    BY DEF Alike
  <2> QED BY <2>1, <2>2, <2>3 DEF Same, Dead
<1> QED BY <1>1, <1>2, <1>3 DEF Stays, Over, As

\* The pipeline becomes a job.
LEMMA StoppedStays ==
  ASSUME NEW t, NEW u, NEW async, Stopped(t, u, async)
  PROVE  Stays(t, u, {})
<1>1. PICK v, job : Saves(t, v) /\ JobPut(v, u, job) /\ u.bgpids = v.bgpids /\ job.pipe = t.the_pipeline
  BY DEF Stopped
<1>2. PICK k : /\ Occupied(u) = Occupied(v) \union {k}
               /\ Job(u, k) = job /\ \A j \in Occupied(v) : Job(u, j) = Job(v, j)
  BY <1>1 DEF JobPut
<1>3. Stays(t, v, {})
  BY <1>1, AlikeItself, SavesStays
<1>4. \A i : \A j \in Occupied(v) : As(t, i, v, j) => As(t, i, u, j)
  BY <1>2 DEF As, Dead
<1>5. ASSUME NEW j \in Occupied(u), NEW p \in Pids \ {}, Has(Job(u, j).pipe, p)
      PROVE  \/ Building(t, p)
             \/ \E i \in Occupied(t) : Has(Job(t, i).pipe, p) /\ (Over(t, i, {}) => As(t, i, u, j))
  <2>1. CASE j = k
    BY <1>1, <1>2, <1>5, <2>1 DEF Building
  <2>2. CASE j \in Occupied(v)
    BY <1>2, <1>3, <1>4, <1>5, <2>2 DEF Stays
  <2> QED BY <1>2, <2>1, <2>2
<1> QED BY <1>1, <1>2, <1>3, <1>4, <1>5 DEF Stays

\* What has no process of $! in the foreground is recorded.
LEMMA DeadKeptStays ==
  ASSUME NEW t, NEW u, DeadKept(t, u)
  PROVE  Stays(t, u, {})
<1>1. ASSUME NEW i \in Occupied(t)
      PROVE  /\ i \in Occupied(u) /\ (Dead(t, i) => As(t, i, u, i))
             /\ \A p : Has(Job(u, i).pipe, p) => Has(Job(t, i).pipe, p)
  BY DEF DeadKept, SameNumbers, SamePids, Has, As, Same, Dead
<1>2. Occupied(u) = Occupied(t) /\ u.bgpids = t.bgpids
  BY DEF DeadKept, SameNumbers
<1> QED BY <1>1, <1>2 DEF Stays, StatusIn, Over

\* Only what has the number that is given out again is forgotten.
LEMMA AddedStays ==
  ASSUME NEW t, Sound(t), NEW found, Sound(found), DeadKept(t, found), NEW u, Sound(u),
         NEW pid \in Pids, JobsForget(found, u, pid), StatusOut(found.bgpids, u.bgpids, pid)
  PROVE  Stays(t, u, {pid})
<1>1. ASSUME NEW i \in Occupied(t), Over(t, i, {pid}) PROVE i \in Occupied(u) /\ As(t, i, u, i)
  <2>1. /\ i \in Occupied(found) /\ Same(Job(t, i), Job(found, i)) /\ Dead(t, i)
        /\ ~ Has(Job(found, i).pipe, pid)
    BY <1>1 DEF Over, DeadKept, SameNumbers, Same
  <2>2. i \in Occupied(u)
    BY <2>1 DEF JobsForget
  <2>3. /\ Job(u, i).pipe \in Seq(Processes) /\ Job(found, i).pipe \in Seq(Processes)
        /\ Forgets(Job(found, i).pipe, Job(u, i).pipe, pid) /\ Job(u, i).state = Job(found, i).state
    BY <2>1, <2>2, PipesOf DEF JobsForget
  <2> DEFINE pipe == Job(found, i).pipe
             other == Job(u, i).pipe
  <2>4. DOMAIN other = DOMAIN pipe /\ \A k \in DOMAIN pipe : other[k] = pipe[k]
    BY <2>1, <2>3 DEF Forgets, Has
  <2>5. other = pipe
    <3> HIDE DEF pipe, other
    <3> QED BY <2>3, <2>4 DEF pipe, other
  <2> QED BY <2>1, <2>2, <2>3, <2>5 DEF As, Same, Dead
<1>2. ASSUME NEW n \in DOMAIN t.bgpids, t.bgpids[n].pid # pid PROVE StatusIn(u.bgpids, t.bgpids[n])
  BY <1>2 DEF DeadKept, StatusOut, StatusIn
<1>3. ASSUME NEW j \in Occupied(u), NEW p \in Pids \ {pid}, Has(Job(u, j).pipe, p)
      PROVE  j \in Occupied(t) /\ Has(Job(t, j).pipe, p)
  <2>1. j \in Occupied(found) /\ Forgets(Job(found, j).pipe, Job(u, j).pipe, pid)
    BY DEF JobsForget
  <2>2. Has(Job(found, j).pipe, p)
    BY <1>3, <2>1, JobsAssumption DEF Forgets, Has
  <2> QED BY <2>1, <2>2 DEF DeadKept, SameNumbers, SamePids, Has
<1> QED BY <1>1, <1>2, <1>3 DEF Stays

\* What is recorded of a job in the foreground is of no number of $!.
LEMMA NoChildStays ==
  ASSUME NEW t, NEW i \in Occupied(t), Job(t, i).foreground, NEW u, SameNumbers(t, u),
         u.bgpids = t.bgpids, \A j \in Occupied(t) \ {i} : Job(u, j) = Job(t, j)
  PROVE  Stays(t, u, {})
<1>1. ASSUME NEW j \in Occupied(t)
      PROVE  /\ j \in Occupied(u) /\ (Over(t, j, {}) => As(t, j, u, j))
             /\ \A p : Has(Job(u, j).pipe, p) => Has(Job(t, j).pipe, p)
  BY DEF SameNumbers, SamePids, Has, As, Over, Dead
<1>2. Occupied(u) = Occupied(t)
  BY DEF SameNumbers
<1> QED BY <1>1, <1>2 DEF Stays, StatusIn

-------------------------------------------------------------------------------
(***************************************************************************)
(* What the parts of the steps leave of the invariant                      *)
(***************************************************************************)
LEMMA ForksKept ==
  ASSUME ForksHold, UNCHANGED <<children, forks, lost>>
  PROVE  ForksHold'
BY DEF ForksHold

\* Children are collected, and some of them are lost.
LEMMA ForksCollected ==
  ASSUME KernelHolds, ForksHold, NEW pids, NEW dropped \in SUBSET (pids \intersect In("zombie")),
         children' = Collected(pids), lost' = lost \union {children[p].fork : p \in dropped},
         UNCHANGED forks
  PROVE  ForksHold'
<1>1. /\ dropped \in SUBSET Pids
      /\ \A p \in dropped : p \in pids /\ children[p].state # "none" /\ children[p].fork \in 1..MaxForks
  BY ForkOf DEF In
<1>2. ASSUME NEW p \in Pids
      PROVE  /\ children'[p].fork = children[p].fork
             /\ children'[p].state # "none" => p \notin pids /\ children[p].state # "none"
  <2>1. children[p] \in Children
    BY DEF KernelHolds
  <2> QED BY <2>1 DEF Collected, Children
<1>3. lost' \subseteq 1..forks'
  <2>1. \A p \in dropped : children[p].fork <= forks
    BY <1>1 DEF ForksHold
  <2>2. forks \in 0..MaxForks
    BY DEF KernelHolds
  <2>3. \A p \in dropped : children[p].fork \in 1..forks
    BY <1>1, <2>1, <2>2
  <2>4. lost \subseteq 1..forks /\ forks' = forks
    BY DEF ForksHold
  <2> QED BY <2>3, <2>4
<1>4. ASSUME NEW p \in Pids, children'[p].state # "none" PROVE children'[p].fork \notin lost'
  <2>1. children[p].fork \notin lost /\ p \notin dropped
    BY <1>1, <1>2, <1>4 DEF ForksHold
  <2>2. ASSUME NEW q \in dropped PROVE children[p].fork # children[q].fork
    <3>1. q \in Pids /\ p # q /\ children[q].fork # 0
      BY <1>1, <2>1
    <3>2. children[p].fork = children[q].fork /\ p # q => children[p].fork = 0
      BY <3>1 DEF ForksHold
    <3> QED BY <3>1, <3>2
  <2> QED BY <1>2, <2>1, <2>2
<1> QED BY <1>2, <1>3, <1>4 DEF ForksHold

LEMMA CollectedGone ==
  ASSUME KernelHolds, NEW S, NEW D
  PROVE  Gone(Collected(S), Collected(S \union D), D)
<1>1. ASSUME NEW p \in Pids
      PROVE  /\ Collected(S \union D)[p].fork = Collected(S)[p].fork
             /\ p \notin D => Collected(S \union D)[p] = Collected(S)[p]
  <2>1. children[p] \in Children
    BY DEF KernelHolds
  <2> QED BY <2>1 DEF Collected, Children
<1> QED BY <1>1 DEF Gone

\* Nothing more is known to be there.
LEMMA NoChildLeft ==
  ASSUME KernelHolds, NoChild, NEW pids, children' = Collected(pids)
  PROVE  NoChild'
<1>1. ASSUME NEW p \in Pids PROVE children'[p].state = "none"
  <2>1. children[p] \in Children /\ children[p].state = "none"
    BY DEF KernelHolds, NoChild
  <2> QED BY <2>1 DEF Collected, Children
<1> QED BY <1>1 DEF NoChild

LEMMA AllReapedKnown ==
  ASSUME KnownInv, UNCHANGED <<forks, lost>>,
         children' = Collected(In("zombie")), table' = AllRecorded(table, In("zombie"))
  PROVE  /\ ForksHold' /\ Sound(table') /\ TableKnown(table', children', lost')
         /\ SameNumbers(table, table')
<1>1. KernelHolds /\ ForksHold /\ Sound(table) /\ TableKnown(table, children, lost)
  BY DEF KnownInv, Believed, JobsInv, TableHolds
<1>2. In("zombie") \in SUBSET Pids
  BY DEF In
<1>3. Sound(table') /\ TableKnown(table', children', lost) /\ SameNumbers(table, table')
  BY <1>1, <1>2, AllRecordedKnown
<1>4. ForksHold'
  <2> DEFINE dropped == {}
  <2>1. dropped \in SUBSET (In("zombie") \intersect In("zombie"))
        /\ lost' = lost \union {children[p].fork : p \in dropped}
    OBVIOUS
  <2> HIDE DEF dropped
  <2> QED BY <1>1, <2>1, ForksCollected
<1> QED BY <1>3, <1>4

LEMMA SomeReapedKnown ==
  ASSUME KnownInv, UNCHANGED forks, NEW counted, ReapSome(counted)
  PROVE  ForksHold' /\ Sound(table') /\ TableKnown(table', children', lost')
<1>1. KernelHolds /\ ForksHold /\ Sound(table) /\ TableKnown(table, children, lost)
  BY DEF KnownInv, Believed, JobsInv, TableHolds
<1>2. PICK pids \in SUBSET In("zombie"), dropped \in SUBSET In("zombie") :
        /\ pids \intersect dropped = {}
        /\ children' = Collected(pids \union dropped)
        /\ table' = AllRecorded(table, pids)
        /\ lost' = lost \union {children[p].fork : p \in dropped}
  BY DEF ReapSome
<1>3. In("zombie") \in SUBSET Pids
  BY DEF In
<1>4. Sound(table') /\ TableKnown(table', Collected(pids), lost)
  BY <1>1, <1>2, <1>3, AllRecordedKnown
<1>5. Gone(Collected(pids), children', dropped)
  BY <1>1, <1>2, CollectedGone
<1>6. TableKnown(table', children', lost \union {Collected(pids)[p].fork : p \in dropped})
  BY <1>2, <1>3, <1>4, <1>5, TableLost
<1>7. \A p \in dropped : Collected(pids)[p].fork = children[p].fork
  BY <1>2, <1>3 DEF Collected
<1>8. lost' = lost \union {Collected(pids)[p].fork : p \in dropped}
  BY <1>2, <1>7
<1>9. ForksHold'
  <2>1. dropped \in SUBSET ((pids \union dropped) \intersect In("zombie"))
    OBVIOUS
  <2> QED BY <1>1, <1>2, <2>1, ForksCollected
<1> QED BY <1>4, <1>6, <1>8, <1>9

\* A process that is made is known, and has the newest fork.
LEMMA ChildKnown ==
  ASSUME KnownInv, NEW p \in Pids, NEW async, NEW kind, make_child(p, async, kind)
  PROVE  ForksHold' /\ TableKnown(table', children', lost') /\ Building(table', p)
<1> DEFINE Found(retried) == IF retried THEN AllRecorded(table, In("zombie")) ELSE table
           Left(retried) == IF retried THEN Collected(In("zombie")) ELSE children
           child == [state |-> "running", fork |-> forks', kind |-> kind]
<1>1. PICK retried \in BOOLEAN :
        /\ Left(retried)[p].state = "none"
        /\ \A k \in DOMAIN table.the_pipeline : table.the_pipeline[k].pid # p
        /\ children' = [Left(retried) EXCEPT ![p] = child]
        /\ table' = AddedProcess(Found(retried), p, forks')
  BY DEF make_child
<1>2. /\ KernelHolds /\ ForksHold /\ Sound(table) /\ TableKnown(table, children, lost)
      /\ forks' = forks + 1 /\ forks < MaxForks /\ lost' = lost
  BY DEF KnownInv, Believed, JobsInv, TableHolds, make_child
<1>3. forks \in Nat /\ forks' \in 1..MaxForks
  BY <1>2, JobsAssumption DEF KernelHolds
<1>4. In("zombie") \in SUBSET Pids
  BY DEF In
<1> DEFINE found == Found(retried)
           left == Left(retried)
<1>5. Sound(found) /\ TableKnown(found, left, lost) /\ SameNumbers(table, found)
  BY <1>2, <1>4, AllRecordedKnown, SameNumbersItself
<1>6. /\ left \in [Pids -> Children]
      /\ \A q \in Pids : /\ left[q].fork = children[q].fork
                         /\ left[q].state # "none" => children[q].state # "none"
  <2>1. CASE retried
    <3>1. left = Collected(In("zombie"))
      BY <2>1
    <3> HIDE DEF left
    <3>2. left \in [Pids -> Children]
      BY <1>2, <3>1, CollectedHolds
    <3>3. ASSUME NEW q \in Pids
          PROVE  left[q].fork = children[q].fork /\ (left[q].state # "none" => children[q].state # "none")
      <4>1. children[q] \in Children
        BY <1>2 DEF KernelHolds
      <4> QED BY <3>1, <4>1 DEF Collected, Children
    <3> QED BY <3>2, <3>3
  <2>2. CASE ~ retried
    BY <1>2, <2>2 DEF KernelHolds
  <2> QED BY <2>1, <2>2
<1>7. left[p].state = "none" /\ children' = [left EXCEPT ![p] = child]
      /\ table' = AddedProcess(found, p, forks')
  BY <1>1
<1> HIDE DEF found, left, Found, Left
<1>8. child.state = "running" /\ child.fork = forks'
  OBVIOUS
<1> HIDE DEF child
<1>9. \A q \in Pids : children'[q] = IF q = p THEN child ELSE left[q]
  BY <1>6, <1>7
<1>10. Forked(left, children', p, forks')
  BY <1>8, <1>9 DEF Forked
<1>11. forks' \notin lost
  BY <1>2, <1>3 DEF ForksHold
<1>12. ~ Has(found.the_pipeline, p)
  <2>1. SamePids(table.the_pipeline, found.the_pipeline)
    BY <1>5 DEF SameNumbers
  <2> QED BY <1>1, <2>1 DEF SamePids, Has
<1>13. TableKnown(table', children', lost) /\ Building(table', p)
  BY <1>3, <1>5, <1>7, <1>10, <1>11, <1>12, AddedKnown
<1>14. ForksHold'
  <2>1. \A q \in Pids : children[q].fork \in Nat /\ children[q].fork <= forks
    BY <1>2, ForkOf DEF ForksHold
  <2>2. lost' \subseteq 1..forks'
    <3>1. lost \subseteq 1..forks
      BY <1>2 DEF ForksHold
    <3>2. 1..forks \subseteq 1..(forks + 1)
      BY <1>3
    <3> QED BY <1>2, <3>1, <3>2
  <2>3. \A q \in Pids : children'[q].fork <= forks'
    <3> TAKE q \in Pids
    <3>1. CASE q = p
      BY <1>3, <1>8, <1>9, <3>1
    <3>2. CASE q # p
      <4>1. children'[q].fork = children[q].fork
        BY <1>6, <1>9, <3>2
      <4> QED BY <1>2, <1>3, <2>1, <4>1
    <3> QED BY <3>1, <3>2
  <2>4. ASSUME NEW q \in Pids, NEW r \in Pids, children'[q].fork = children'[r].fork, q # r
        PROVE  children'[q].fork = 0
    <3>1. \A s \in Pids \ {p} : children'[s].fork = children[s].fork /\ children'[s].fork # forks'
      <4> TAKE s \in Pids \ {p}
      <4>1. children'[s].fork = children[s].fork
        BY <1>6, <1>9
      <4> QED BY <1>2, <1>3, <2>1, <4>1
    <3>2. children'[p].fork = forks'
      BY <1>8, <1>9
    <3>3. q # p /\ r # p
      BY <2>4, <3>1, <3>2
    <3>4. children[q].fork = children[r].fork
      BY <2>4, <3>1, <3>3
    <3> QED BY <2>4, <3>1, <3>3, <3>4, <1>2 DEF ForksHold
  <2>5. ASSUME NEW q \in Pids, children'[q].state # "none" PROVE children'[q].fork \notin lost'
    <3>1. CASE q = p
      BY <3>1, <1>2, <1>8, <1>9, <1>11
    <3>2. CASE q # p
      BY <3>2, <2>5, <1>2, <1>6, <1>9 DEF ForksHold
    <3> QED BY <3>1, <3>2
  <2> QED BY <2>2, <2>3, <2>4, <2>5 DEF ForksHold
<1> QED BY <1>2, <1>13, <1>14

\* Nothing is waited for.
LEMMA NoWait ==
  ASSUME main'.pc \in {"idle", "cleanup", "notify"}
  PROVE  WaitHolds'
BY DEF WaitHolds, Waiting, Is

-------------------------------------------------------------------------------
(***************************************************************************)
(* The steps, and what is believed: ends of processes and the handler      *)
(***************************************************************************)
LEMMA NowKnown ==
  ASSUME KnownInv
  PROVE  /\ KernelHolds /\ Sound(table) /\ main \in Locals
         /\ ForksHold /\ TableKnown(table, children, lost) /\ WaitHolds
BY DEF KnownInv, Believed, JobsInv, TableHolds, ShellHolds

\* Where the shell does not block SIGCHLD, it goes on as if nothing had been collected.
LEMMA StillWaits ==
  ASSUME WaitHolds, main' = main, main.pc # "waitchld", SameNumbers(table, table'), NoChild => NoChild'
  PROVE  WaitHolds'
<1>1. \A pid : /\ Holds(table, pid) => Holds(table', pid)
               /\ Building(table, pid) => Building(table', pid)
  BY SameNumbersHold
<1> QED BY <1>1 DEF WaitHolds, Waiting, Is

LEMMA ExitKnown ==
  ASSUME KnownInv, NEW p \in Pids, Exit(p)
  PROVE  Believed'
<1>1. /\ children \in [Pids -> Children] /\ children[p].state = "running"
      /\ children' = [children EXCEPT ![p].state = "zombie"]
      /\ UNCHANGED <<table, main, forks, lost>>
  BY NowKnown DEF KernelHolds, Exit, counts
<1>2. ASSUME NEW q \in Pids
      PROVE  /\ children'[q].fork = children[q].fork
             /\ children'[q].state # "none" <=> children[q].state # "none"
  <2>1. children[q] \in Children
    BY <1>1
  <2>2. children'[q] = IF q = p THEN [children[p] EXCEPT !.state = "zombie"] ELSE children[q]
    BY <1>1
  <2>3. CASE q = p
    BY <1>1, <2>1, <2>2, <2>3 DEF Children
  <2>4. CASE q # p
    BY <2>2, <2>4
  <2> QED BY <2>3, <2>4
<1>3. Gone(children, children', {})
  BY <1>2 DEF Gone
<1>4. TableKnown(table', children', lost')
  BY <1>1, <1>3, NowKnown, TableKept
<1>5. ForksHold'
  BY <1>1, <1>2, NowKnown DEF ForksHold
<1>6. ~ NoChild
  BY <1>1 DEF NoChild
<1>7. WaitHolds'
  BY <1>1, <1>6, NowKnown DEF WaitHolds, Waiting, Is, Waits
<1> QED BY <1>4, <1>5, <1>7 DEF Believed

LEMMA HandlerKnown ==
  ASSUME KnownInv, Sigchld_handler
  PROVE  Believed'
<1>1. UNCHANGED forks /\ main.pc # "waitchld"
  BY DEF Sigchld_handler, Blocked
<1>2. CASE UNCHANGED <<children, table, main, lost>>
  <2>1. ForksHold' /\ TableKnown(table', children', lost')
    BY <1>1, <1>2, NowKnown, ForksKept
  <2>2. WaitHolds'
    BY <1>1, <1>2, NowKnown DEF WaitHolds, Waiting, Is, NoChild
  <2> QED BY <2>1, <2>2 DEF Believed
<1>3. CASE ReapAll(sigchld + 1) /\ main' = main
  <2>1. /\ UNCHANGED lost /\ children' = Collected(In("zombie"))
        /\ table' = AllRecorded(table, In("zombie"))
    BY <1>3 DEF ReapAll
  <2>2. ForksHold' /\ TableKnown(table', children', lost') /\ SameNumbers(table, table')
    BY <1>1, <2>1, AllReapedKnown
  <2>3. NoChild => NoChild'
    BY <2>1, NowKnown, NoChildLeft
  <2>4. WaitHolds'
    BY <1>1, <1>3, <2>2, <2>3, NowKnown, StillWaits
  <2> QED BY <2>2, <2>4 DEF Believed
<1>4. CASE ReapSome(sigchld + 1) /\ Interrupted
  <2>1. ForksHold' /\ TableKnown(table', children', lost')
    BY <1>1, <1>4, SomeReapedKnown
  <2>2. WaitHolds'
    BY <1>4, NoWait DEF Interrupted, Idle
  <2> QED BY <2>1, <2>2 DEF Believed
<1> QED BY <1>2, <1>3, <1>4 DEF Sigchld_handler

-------------------------------------------------------------------------------
(***************************************************************************)
(* The steps, and what is believed: processes that are made                *)
(***************************************************************************)
LEMMA SimpleCommandKnown ==
  ASSUME KnownInv, NEW p \in Pids, SimpleCommand(p)
  PROVE  Believed'
<1>1. PICK caller \in Callers : /\ make_child(p, Async(caller), Kind(caller))
                                /\ main' = At("simple", caller, p)
  BY DEF SimpleCommand
<1>2. ForksHold' /\ TableKnown(table', children', lost') /\ Building(table', p)
  BY <1>1, ChildKnown
<1>3. main'.pc = "simple" /\ main'.pid = p
  BY <1>1 DEF At, Idle
<1>4. WaitHolds'
  BY <1>2, <1>3 DEF WaitHolds, Waiting, Is
<1> QED BY <1>2, <1>4 DEF Believed

LEMMA PipelineMadeKnown ==
  ASSUME KnownInv, NEW p \in Pids, Pipeline(p)
  PROVE  Believed'
<1>1. PICK caller \in Callers : /\ make_child(p, Async(caller), caller)
                                /\ main' = At("pipeline", caller, 0)
  BY DEF Pipeline
<1>2. ForksHold' /\ TableKnown(table', children', lost')
  BY <1>1, ChildKnown
<1>3. main'.pc = "pipeline" /\ main'.pid = 0 /\ main'.result = 0
  BY <1>1 DEF At, Idle
<1>4. WaitHolds'
  BY <1>3 DEF WaitHolds, Waiting, Is
<1> QED BY <1>2, <1>4 DEF Believed

LEMMA PipelineNextKnown ==
  ASSUME KnownInv, NEW p \in Pids, PipelineNext(p)
  PROVE  Believed'
<1>1. ForksHold' /\ TableKnown(table', children', lost') /\ Building(table', p)
  BY ChildKnown DEF PipelineNext
<1>2. main'.pc = "pipeline" /\ main'.pid = p /\ main'.result = 0
  BY NowKnown DEF PipelineNext, Locals, WaitHolds, Is
<1>3. WaitHolds'
  BY <1>1, <1>2 DEF WaitHolds, Waiting, Is
<1> QED BY <1>1, <1>3 DEF Believed

\* What both kinds of command leave when their pipeline is a job
LEMMA JobMadeKnown ==
  ASSUME KnownInv, Is("simple") \/ Is("pipeline"), Building(table, main.pid),
         UNCHANGED <<children, forks, lost>>,
         table' = stop_pipeline(table, Async(main.caller), last_asynchronous_pid)
  PROVE  /\ ForksHold' /\ TableKnown(table', children', lost')
         /\ Holds(table', main.pid) /\ main.pid # ANY_PID
<1>1. table.the_pipeline # <<>>
  BY DEF KnownInv, JobsInv, TableHolds
<1>2. Async(main.caller) \in BOOLEAN
  BY DEF Async
<1>3. Sound(table') /\ table'.the_pipeline = <<>> /\ Stopped(table, table', Async(main.caller))
  BY <1>1, <1>2, NowKnown, PipelineStopped
<1>4. TableKnown(table', children', lost') /\ Holds(table', main.pid)
  BY <1>3, NowKnown, StoppedKnown
<1>5. main.pid # ANY_PID
  BY NowKnown, PipesOf, PipeProcess DEF Building, Has
<1> QED BY <1>4, <1>5, NowKnown, ForksKept

LEMMA StopSimpleKnown ==
  ASSUME KnownInv, StopSimple
  PROVE  Believed'
<1>1. /\ ForksHold' /\ TableKnown(table', children', lost')
      /\ Holds(table', main.pid) /\ main.pid # ANY_PID
  <2>1. Is("simple") /\ Building(table, main.pid)
    BY NowKnown DEF StopSimple, WaitHolds
  <2> QED BY <2>1, JobMadeKnown DEF StopSimple, counts
<1>2. WaitHolds'
  <2>1. CASE main' = Idle
    BY <2>1, NoWait DEF Idle
  <2>2. CASE main' = At("called", main.caller, main.pid)
    <3>1. main'.pc = "called" /\ main'.pid = main.pid /\ main'.result = 0
      BY <2>2 DEF At, Idle
    <3> QED BY <1>1, <3>1 DEF WaitHolds, Waiting, Is
  <2> QED BY <2>1, <2>2 DEF StopSimple
<1> QED BY <1>1, <1>2 DEF Believed

LEMMA StopPipelineKnown ==
  ASSUME KnownInv, StopPipeline
  PROVE  Believed'
<1>1. Is("pipeline") /\ Building(table, main.pid) /\ main.result = 0
  BY NowKnown DEF StopPipeline, WaitHolds, Is
<1>2. /\ ForksHold' /\ TableKnown(table', children', lost')
      /\ Holds(table', main.pid) /\ main.pid # ANY_PID
  BY <1>1, JobMadeKnown DEF StopPipeline, counts
<1>3. WaitHolds'
  <2>1. CASE main' = Idle
    BY <2>1, NoWait DEF Idle
  <2>2. CASE main' = [main EXCEPT !.pc = "wait_for"]
    <3>1. main'.pc = "wait_for" /\ main'.pid = main.pid /\ main'.result = 0
      BY <1>1, <2>2, NowKnown DEF Locals
    <3> QED BY <1>2, <3>1 DEF WaitHolds, Waiting, Is
  <2> QED BY <2>1, <2>2 DEF StopPipeline
<1> QED BY <1>2, <1>3 DEF Believed

-------------------------------------------------------------------------------
(***************************************************************************)
(* The steps, and what is believed: wait_for and its waitchld              *)
(***************************************************************************)
\* Nothing happens to the children, and jobs are only taken out of the table.
LEMMA TableStays ==
  ASSUME KnownInv, UNCHANGED <<children, forks, lost>>, Sound(table'), Carries(table, table'),
         table'.the_pipeline = table.the_pipeline
  PROVE  ForksHold' /\ TableKnown(table', children', lost')
BY NowKnown, ForksKept, TableCarried

LEMMA NothingChanges ==
  ASSUME KnownInv, UNCHANGED <<children, table, forks, lost>>
  PROVE  ForksHold' /\ TableKnown(table', children', lost')
BY NowKnown, ForksKept

LEMMA EnterKnown ==
  ASSUME KnownInv, Enter
  PROVE  Believed'
<1>1. UNCHANGED <<children, table, forks, lost>>
  BY DEF Enter, steady
<1>2. WaitHolds'
  <2>1. CASE main' = Idle
    BY <2>1, NoWait DEF Idle
  <2>2. CASE main' = [main EXCEPT !.pc = "wait_for"]
    <3>1. /\ main'.pc = "wait_for" /\ main'.pid = main.pid /\ main'.result = main.result
          /\ main'.caller = main.caller /\ main.pc = "called"
      BY <2>2, NowKnown DEF Locals, Enter, Is
    <3> QED BY <1>1, <3>1, NowKnown DEF WaitHolds, Waiting, Is
  <2> QED BY <2>1, <2>2 DEF Enter, Interrupted
<1> QED BY <1>1, <1>2, NothingChanges DEF Believed

LEMMA WaitForKnown ==
  ASSUME KnownInv, WaitFor
  PROVE  Believed'
<1> DEFINE job == find_job(table, main.pid, FALSE)
<1>1. main.pc = "wait_for" /\ UNCHANGED <<children, forks, lost>>
  BY DEF WaitFor, Is, steady
<1>2. CASE /\ main.pid = ANY_PID \/ Waits(job)
           /\ main' = [main EXCEPT !.pc = "waitchld"]
           /\ UNCHANGED table
  <2>1. /\ main'.pc = "waitchld" /\ main'.pid = main.pid /\ main'.result = main.result
        /\ main'.caller = main.caller
    BY <1>2, NowKnown DEF Locals
  <2>2. main.pid # ANY_PID => Waits(find_job(table, main.pid, FALSE))'
    BY <1>2, <2>1 DEF Waits
  <2>3. WaitHolds'
    BY <1>1, <1>2, <2>1, <2>2, NowKnown DEF WaitHolds, Waiting, Is
  <2> QED BY <1>1, <1>2, <2>3, NothingChanges DEF Believed
<1>3. CASE /\ Return(IF job = NO_JOB THEN NotFound ELSE LastProc(table, job).status)
           /\ table' = IF job = NO_JOB THEN table ELSE Cleaned(Notified(table))
  <2>1. Sound(table') /\ Carries(table, table') /\ table'.the_pipeline = table.the_pipeline
    <3>1. /\ Sound(Notified(table)) /\ Carries(table, Notified(table))
          /\ Notified(table).the_pipeline = table.the_pipeline
      BY NowKnown, NotifiedSound
    <3>2. /\ Sound(Cleaned(Notified(table))) /\ Carries(table, Cleaned(Notified(table)))
          /\ Cleaned(Notified(table)).the_pipeline = table.the_pipeline
      BY <3>1, CleanedSound, CarriesOn
    <3> QED BY <1>3, <3>2, NowKnown, CarriesItself
  <2>2. main'.pc = "returned" /\ main'.result # -1
    <3> DEFINE result == IF job = NO_JOB THEN NotFound ELSE LastProc(table, job).status
    <3>1. ASSUME job # NO_JOB PROVE LastProc(table, job).status # -1
      <4>1. job \in Occupied(table)
        BY <3>1, NowKnown, FindJob
      <4> HIDE DEF job
      <4>2. LastProc(table, job) \in Processes
        BY <4>1, NowKnown, LastProcType
      <4>3. LastProc(table, job).status \in 0..MaxForks
        BY <4>2 DEF Processes
      <4> QED BY <4>3
    <3> HIDE DEF job
    <3>2. result # -1
      <4>1. NotFound # -1
        BY DEF NotFound
      <4> QED BY <3>1, <4>1
    <3> HIDE DEF result
    <3>3. main' = [main EXCEPT !.pc = "returned", !.result = result, !.reaped = FALSE]
      BY <1>3 DEF Return, result
    <3> QED BY <3>2, <3>3, NowKnown DEF Locals
  <2>3. WaitHolds'
    BY <2>2 DEF WaitHolds, Waiting, Is
  <2> QED BY <1>1, <2>1, <2>3, TableStays DEF Believed
<1> QED BY <1>2, <1>3 DEF WaitFor

\* wait_for goes on, with its job in the table.
LEMMA ResumedKnown ==
  ASSUME KnownInv, main.pc = "waitchld", Resume, main.pid # ANY_PID => Holds(table', main.pid)
  PROVE  WaitHolds'
<1>1. /\ main'.pid = main.pid /\ main'.result = 0
      /\ main'.pc = IF main.pid = ANY_PID THEN "returned" ELSE "wait_for"
  BY NowKnown DEF Resume, Locals, WaitHolds, Waiting
<1> QED BY <1>1 DEF WaitHolds, Waiting, Is

LEMMA ReapOneKnown ==
  ASSUME KnownInv, NEW z \in Pids, ReapOne(z)
  PROVE  Believed'
<1>1. /\ main.pc = "waitchld" /\ z \in In("zombie") /\ children' = Collected({z})
      /\ table' = Recorded(table, z, children[z].fork) /\ UNCHANGED <<forks, lost>>
  BY DEF ReapOne, Is, In, steady
<1>2. children[z].fork \in 0..MaxForks
  BY NowKnown, ForkOf
<1>3. Gone(children, children', {z})
  <2> SUFFICES ASSUME NEW p \in Pids
               PROVE  /\ children'[p].fork = children[p].fork
                      /\ p \notin {z} /\ children[p].state # "none" => children'[p].state # "none"
    BY DEF Gone
  <2>1. children[p] \in Children
    BY NowKnown DEF KernelHolds
  <2> QED BY <1>1, <2>1 DEF Collected, Children
<1>4. TableKnown(table', children', lost) /\ SameNumbers(table, table')
  BY <1>1, <1>2, <1>3, NowKnown, RecordedKnown
<1>5. ForksHold'
  <2> DEFINE dropped == {}
  <2>1. dropped \in SUBSET ({z} \intersect In("zombie"))
        /\ lost' = lost \union {children[p].fork : p \in dropped}
    BY <1>1
  <2> HIDE DEF dropped
  <2> QED BY <1>1, <2>1, NowKnown, ForksCollected
<1>6. main.pid # ANY_PID => Holds(table', main.pid)
  BY <1>1, <1>4, NowKnown, SameNumbersHold DEF WaitHolds, Waiting
<1>7. WaitHolds'
  <2>1. CASE main' = [main EXCEPT !.reaped = TRUE]
    <3>1. /\ main'.pc = "waitchld" /\ main'.pid = main.pid /\ main'.result = main.result
          /\ main'.caller = main.caller /\ main'.reaped
      BY <1>1, <2>1, NowKnown DEF Locals
    <3> QED BY <1>1, <1>6, <3>1, NowKnown DEF WaitHolds, Waiting, Is
  <2>2. CASE Resume
    BY <1>1, <1>6, <2>2, ResumedKnown
  <2> QED BY <2>1, <2>2 DEF ReapOne
<1> QED BY <1>1, <1>4, <1>5, <1>7 DEF Believed

LEMMA ReapNoneKnown ==
  ASSUME KnownInv, ReapNone
  PROVE  Believed'
<1>1. main.pc = "waitchld" /\ UNCHANGED <<children, table, forks, lost>> /\ Resume
  BY DEF ReapNone, Is, steady
<1>2. main.pid # ANY_PID => Holds(table', main.pid)
  BY <1>1, NowKnown DEF WaitHolds, Waiting
<1> QED BY <1>1, <1>2, NothingChanges, ResumedKnown DEF Believed

LEMMA NoChildrenKnown ==
  ASSUME KnownInv, NoChildren
  PROVE  Believed'
<1>1. /\ main.pc = "waitchld" /\ UNCHANGED <<children, forks, lost>>
      /\ In("zombie") \union In("running") = {}
  BY DEF NoChildren, Is, steady
<1>2. main.pid # ANY_PID => Holds(table, main.pid)
  BY <1>1, NowKnown DEF WaitHolds, Waiting
<1>3. NoChild
  <2> SUFFICES ASSUME NEW p \in Pids PROVE children[p].state = "none"
    BY DEF NoChild
  <2>1. children[p].state \in {"none", "running", "zombie"}
    BY NowKnown DEF KernelHolds, Children
  <2>2. p \notin In("zombie") /\ p \notin In("running")
    BY <1>1
  <2> QED BY <2>1, <2>2 DEF In
<1>4. CASE Resume /\ UNCHANGED table
  BY <1>1, <1>2, <1>4, NothingChanges, ResumedKnown DEF Believed
<1>5. CASE Return(-1) /\ UNCHANGED table
  <2>1. main'.pc = "returned" /\ NoChild'
    BY <1>1, <1>3, <1>5, NowKnown DEF Return, Locals, NoChild
  <2>2. WaitHolds'
    BY <2>1 DEF WaitHolds, Waiting, Is
  <2> QED BY <1>1, <1>5, <2>2, NothingChanges DEF Believed
<1>6. CASE ~ main.reaped /\ ~ InBuiltin /\ Resume /\ table' = NotAChild(table, main.pid)
  <2>1. main.pid # ANY_PID
    BY <1>1, <1>6, NowKnown DEF WaitHolds, Waiting, InBuiltin
  <2>2. Waits(find_job(table, main.pid, FALSE))
    BY <1>1, <1>6, <2>1, NowKnown DEF WaitHolds, Is
  <2>3. TableKnown(table', children, lost) /\ SameNumbers(table, table')
    BY <1>2, <1>3, <1>6, <2>1, <2>2, NowKnown, NoChildKnown
  <2>4. Holds(table', main.pid)
    BY <1>2, <2>1, <2>3, SameNumbersHold
  <2> QED BY <1>1, <1>6, <2>3, <2>4, NowKnown, ForksKept, ResumedKnown DEF Believed
<1> QED BY <1>4, <1>5, <1>6 DEF NoChildren

LEMMA InterruptKnown ==
  ASSUME KnownInv, InterruptWaitchld
  PROVE  Believed'
<1>1. UNCHANGED <<table, forks>>
  BY DEF InterruptWaitchld, steady
<1>2. WaitHolds'
  BY NoWait DEF InterruptWaitchld, Interrupted, Idle
<1>3. CASE UNCHANGED <<children, lost>>
  BY <1>1, <1>2, <1>3, NothingChanges DEF Believed
<1>4. CASE \E z \in In("zombie") :
             children' = Collected({z}) /\ lost' = lost \union {children[z].fork}
  <2>1. PICK z \in In("zombie") :
          children' = Collected({z}) /\ lost' = lost \union {children[z].fork}
    BY <1>4
  <2> DEFINE dropped == {z}
  <2>2. /\ dropped \in SUBSET (dropped \intersect In("zombie")) /\ dropped \in SUBSET Pids
        /\ lost' = lost \union {children[p].fork : p \in dropped} /\ children' = Collected(dropped)
    BY <2>1 DEF In
  <2>3. Gone(children, children', dropped)
    <3> SUFFICES ASSUME NEW p \in Pids
                 PROVE  /\ children'[p].fork = children[p].fork
                        /\ p \notin dropped /\ children[p].state # "none" => children'[p].state # "none"
      BY DEF Gone
    <3>1. children[p] \in Children
      BY NowKnown DEF KernelHolds
    <3> QED BY <2>1, <3>1 DEF Collected, Children
  <2> HIDE DEF dropped
  <2>4. ForksHold'
    BY <1>1, <2>2, NowKnown, ForksCollected
  <2>5. TableKnown(table', children', lost')
    BY <1>1, <2>2, <2>3, NowKnown, TableLost
  <2> QED BY <1>2, <2>4, <2>5 DEF Believed
<1> QED BY <1>3, <1>4 DEF InterruptWaitchld

-------------------------------------------------------------------------------
(***************************************************************************)
(* The steps, and what is believed: the wait builtin, and between commands *)
(***************************************************************************)
\* Back where nothing is waited for, with jobs taken out of the table
LEMMA DoneKnown ==
  ASSUME KnownInv, UNCHANGED ignorant, Sound(table'), Carries(table, table'),
         table'.the_pipeline = table.the_pipeline, main'.pc \in {"idle", "cleanup", "notify"}
  PROVE  Believed'
BY TableStays, NoWait DEF Believed, ignorant, steady

LEMMA WaitSingleKnown ==
  ASSUME KnownInv, NEW p \in Pids, wait_for_single_pid(p)
  PROVE  Believed'
<1>1. UNCHANGED <<children, table, forks, lost>>
  BY DEF wait_for_single_pid, ignorant, steady
<1>2. WaitHolds'
  <2>1. CASE find_job(table, p, FALSE) # NO_JOB
    <3>1. Holds(table', p)
      BY <1>1, <2>1, NowKnown, FoundHeld
    <3>2. p # ANY_PID
      BY JobsAssumption DEF ANY_PID
    <3>3. main'.pc = "called" /\ main'.pid = p /\ main'.result = 0
      BY <2>1 DEF wait_for_single_pid, At, Idle
    <3> QED BY <3>1, <3>2, <3>3 DEF WaitHolds, Waiting, Is
  <2>2. CASE find_job(table, p, FALSE) = NO_JOB
    <3>1. main'.pc = "returned" /\ main'.caller = "wait_for_single_pid"
      BY <2>2 DEF wait_for_single_pid, At, Idle
    <3> QED BY <3>1 DEF WaitHolds, Waiting, Is
  <2> QED BY <2>1, <2>2
<1> QED BY <1>1, <1>2, NothingChanges DEF Believed

LEMMA ReturnedKnown ==
  ASSUME KnownInv, Returned
  PROVE  Believed'
<1>1. Sound(table') /\ Carries(table, table') /\ table'.the_pipeline = table.the_pipeline
  BY NowKnown, WaitedMarked, CarriesItself DEF Returned
<1>2. main'.pc = "idle" /\ UNCHANGED ignorant
  BY DEF Returned, Idle
<1> QED BY <1>1, <1>2, DoneKnown

LEMMA AnyReturnedKnown ==
  ASSUME KnownInv, AnyReturned
  PROVE  Believed'
<1>1. main'.pc = "idle" /\ UNCHANGED <<table, ignorant>>
  BY DEF AnyReturned, Idle
<1> QED BY <1>1, NowKnown, CarriesItself, DoneKnown

LEMMA WaitAllKnown ==
  ASSUME KnownInv, wait_for_background_pids
  PROVE  Believed'
<1>1. UNCHANGED <<children, table, forks, lost>>
  BY DEF wait_for_background_pids, ignorant, steady
<1>2. main'.pc = "next job" /\ main'.result = 0
  BY DEF wait_for_background_pids, At, Idle
<1>3. WaitHolds'
  BY <1>2 DEF WaitHolds, Waiting, Is
<1> QED BY <1>1, <1>3, NothingChanges DEF Believed

LEMMA NextJobKnown ==
  ASSUME KnownInv, NextJob
  PROVE  Believed'
<1> DEFINE job == Min(Background(table))
<1>1. /\ main.pc = "next job" /\ Background(table) # {} /\ UNCHANGED <<children, table, forks, lost>>
      /\ main' = [main EXCEPT !.pc = "called", !.pid = LastProc(table, job).pid]
  BY DEF NextJob, ignorant, steady, Is
<1>2. job \in Background(table)
  <2>1. Slots(table) \subseteq Nat
    BY NowKnown, OccupiedFinite DEF Sound
  <2>2. Background(table) \in SUBSET Nat
    BY <2>1 DEF Background
  <2> QED BY <1>1, <2>2, MinOf
<1>3. job \in Occupied(table)
  BY <1>2, RunningIsJob DEF Background
<1> HIDE DEF job
<1> DEFINE pipe == Job(table, job).pipe
<1>4. pipe \in Seq(Processes) /\ pipe # <<>>
  BY <1>3, NowKnown, PipesOf
<1>5. LastProc(table, job) = pipe[Len(pipe)]
  BY DEF LastProc, Last
<1> HIDE DEF pipe
<1>6. Len(pipe) \in DOMAIN pipe
  BY <1>4
<1>7. LastProc(table, job).pid # ANY_PID
  BY <1>4, <1>5, <1>6, PipeProcess
<1>8. Holds(table', LastProc(table, job).pid)
  BY <1>1, <1>3, <1>5, <1>6 DEF Holds, Has, pipe
<1>9. main'.pc = "called" /\ main'.pid = LastProc(table, job).pid /\ main'.result = 0
  BY <1>1, NowKnown DEF Locals, WaitHolds
<1>10. WaitHolds'
  BY <1>7, <1>8, <1>9 DEF WaitHolds, Waiting, Is
<1> QED BY <1>1, <1>10, NothingChanges DEF Believed

LEMMA JobWaitedKnown ==
  ASSUME KnownInv, JobWaited
  PROVE  Believed'
<1> DEFINE marked == MarkWaited(table, main.pid)
<1>1. /\ main.pc = "returned" /\ main.caller = "wait_for_background_pids"
      /\ UNCHANGED <<children, forks, lost>>
      /\ table' = IF main.result = -1 THEN mark_all_jobs_as_dead(marked) ELSE marked
  BY DEF JobWaited, ignorant, steady, Is
<1>2. Sound(marked) /\ TableKnown(marked, children, lost)
  BY NowKnown, WaitedMarked, TableCarried
<1> HIDE DEF marked
<1>3. main.result = -1 => NoChild
  BY <1>1, NowKnown DEF WaitHolds, Is
<1>4. TableKnown(table', children', lost')
  BY <1>1, <1>2, <1>3, AllDeadKnown DEF NoChild
<1>5. main'.pc = "next job" /\ main'.result = 0
  BY DEF JobWaited, At, Idle
<1>6. WaitHolds'
  BY <1>5 DEF WaitHolds, Waiting, Is
<1> QED BY <1>1, <1>4, <1>6, NowKnown, ForksKept DEF Believed

LEMMA CleanupKnown ==
  ASSUME KnownInv, NEW t, Sound(t), Carries(table, t), t.the_pipeline = table.the_pipeline,
         NEW caller, StartCleanup(t, caller)
  PROVE  Believed'
<1>1. Sound(table') /\ Carries(table, table') /\ table'.the_pipeline = table.the_pipeline
  BY CleanedSound, CarriesOn DEF StartCleanup
<1>2. main'.pc = "cleanup" /\ UNCHANGED ignorant
  BY DEF StartCleanup, At, Idle
<1> QED BY <1>1, <1>2, DoneKnown

LEMMA NoMoreJobsKnown ==
  ASSUME KnownInv, NoMoreJobs
  PROVE  Believed'
BY NowKnown, MarkDeadSound, CleanupKnown DEF NoMoreJobs

LEMMA ReapDeadKnown ==
  ASSUME KnownInv, reap_dead_jobs
  PROVE  Believed'
BY NowKnown, MarkDeadSound, CleanupKnown DEF reap_dead_jobs

LEMMA EndCleanupKnown ==
  ASSUME KnownInv, EndCleanup
  PROVE  Believed'
<1>1. main' = Idle /\ UNCHANGED forks
  BY DEF EndCleanup, Interrupted, steady
<1>2. WaitHolds'
  BY <1>1, NoWait DEF Idle
<1>3. CASE table' = Forgotten(table) /\ UNCHANGED <<children, lost>>
  <2>1. Sound(table') /\ Carries(table, table') /\ table'.the_pipeline = table.the_pipeline
    BY <1>3, NowKnown, StatusesForgotten
  <2> QED BY <1>1, <1>2, <1>3, <2>1, TableStays DEF Believed
<1>4. CASE /\ children' = Collected(In("zombie"))
           /\ table' = Forgotten(AllRecorded(table, In("zombie"))) /\ UNCHANGED lost
  <2> DEFINE t == AllRecorded(table, In("zombie"))
  <2>1. In("zombie") \in SUBSET Pids
    BY DEF In
  <2>2. Sound(t) /\ TableKnown(t, children', lost)
    BY <1>4, <2>1, NowKnown, AllRecordedKnown
  <2>3. table' = Forgotten(t)
    BY <1>4
  <2> HIDE DEF t
  <2>4. TableKnown(table', children', lost')
    BY <1>4, <2>2, <2>3, StatusesForgotten, TableCarried
  <2>5. ForksHold'
    <3> DEFINE dropped == {}
    <3>1. dropped \in SUBSET (In("zombie") \intersect In("zombie"))
          /\ lost' = lost \union {children[p].fork : p \in dropped}
      BY <1>4
    <3> HIDE DEF dropped
    <3> QED BY <1>1, <1>4, <3>1, NowKnown, ForksCollected
  <2> QED BY <1>2, <2>4, <2>5 DEF Believed
<1>5. CASE ReapSome(sigchld)
  BY <1>1, <1>2, <1>5, SomeReapedKnown DEF Believed
<1> QED BY <1>3, <1>4, <1>5 DEF EndCleanup

\* `wait -n' is back with a status, or finds nothing to wait for.
LEMMA AnyReportedKnown ==
  ASSUME NEW result, main' = [At("returned", "wait_for_any_job", 0) EXCEPT !.result = result]
  PROVE  WaitHolds'
<1>1. main'.pc = "returned" /\ main'.caller = "wait_for_any_job" /\ main'.pid = 0
  BY DEF At, Idle
<1> QED BY <1>1 DEF WaitHolds, Waiting, Is

LEMMA AnyJobAgain ==
  ASSUME main' = At("any job", "wait_for_any_job", 0)
  PROVE  WaitHolds'
<1>1. main'.pc = "any job" /\ main'.caller = "wait_for_any_job"
  BY DEF At, Idle
<1> QED BY <1>1 DEF WaitHolds, Waiting, Is

LEMMA WaitAnyKnown ==
  ASSUME KnownInv, wait_for_any_job
  PROVE  Believed'
<1>1. UNCHANGED <<children, forks, lost>>
  BY DEF wait_for_any_job, ignorant, steady
<1>2. CASE Unnotified(table) # {} /\ ReportJob(Min(Unnotified(table)))
  <2> DEFINE job == Min(Unnotified(table))
  <2>1. Unnotified(table) \in SUBSET {i \in Slots(table) : Dead(table, i)}
    BY DEF Unnotified
  <2>2. /\ table' = delete_job(Notified(table), job, TRUE)
        /\ main' = [At("returned", "wait_for_any_job", 0) EXCEPT !.result = LastProc(table, job).status]
    BY <1>2 DEF ReportJob
  <2>3. Sound(table') /\ Carries(table, table') /\ table'.the_pipeline = table.the_pipeline
    BY <1>2, <2>1, <2>2, NowKnown, UnnotifiedDead
  <2> HIDE DEF job
  <2> QED BY <1>1, <2>2, <2>3, TableStays, AnyReportedKnown DEF Believed
<1>3. CASE main' = At("any job", "wait_for_any_job", 0) /\ UNCHANGED table
  BY <1>1, <1>3, NothingChanges, AnyJobAgain DEF Believed
<1> QED BY <1>2, <1>3 DEF wait_for_any_job

LEMMA AnyJobKnown ==
  ASSUME KnownInv, AnyJob
  PROVE  Believed'
<1>1. main.caller = "wait_for_any_job" /\ UNCHANGED <<children, table, forks, lost>>
  BY NowKnown DEF AnyJob, WaitHolds, ignorant, steady
<1>2. CASE main' = At("called", main.caller, ANY_PID)
  <2>1. /\ main'.pc = "called" /\ main'.caller = "wait_for_any_job"
        /\ main'.pid = ANY_PID /\ main'.result = 0
    BY <1>1, <1>2 DEF At, Idle
  <2>2. WaitHolds'
    BY <2>1 DEF WaitHolds, Waiting, Is
  <2> QED BY <1>1, <2>2, NothingChanges DEF Believed
<1>3. CASE main' = [At("returned", main.caller, 0) EXCEPT !.result = -1]
  BY <1>1, <1>3, NothingChanges, AnyReportedKnown DEF Believed
<1> QED BY <1>2, <1>3 DEF AnyJob

LEMMA AnyWaitedKnown ==
  ASSUME KnownInv, AnyWaited
  PROVE  Believed'
<1> DEFINE t == IF main.result = -1 THEN mark_all_jobs_as_dead(table) ELSE table
           dead == {i \in Slots(t) : Dead(t, i)}
<1>1. /\ main.pc = "returned" /\ main.caller = "wait_for_any_job" /\ main.pid = ANY_PID
      /\ UNCHANGED <<children, forks, lost>>
  BY DEF AnyWaited, Is, ignorant, steady
<1>2. main.result = -1 => NoChild
  BY <1>1, NowKnown DEF WaitHolds, Is, ANY_PID
<1>3. Sound(t) /\ TableKnown(t, children, lost)
  BY <1>2, NowKnown, AllDeadKnown DEF NoChild
<1>4. \/ /\ dead # {}
         /\ table' = delete_job(Notified(t), Min(dead), TRUE)
         /\ main' = [At("returned", main.caller, 0) EXCEPT !.result = LastProc(t, Min(dead)).status]
      \/ table' = t /\ main' = At("any job", main.caller, 0)
  BY DEF AnyWaited
<1> HIDE DEF t
<1>5. TableKnown(table', children', lost')
  <2>1. CASE table' = t
    BY <1>1, <1>3, <2>1
  <2>2. CASE dead # {} /\ table' = delete_job(Notified(t), Min(dead), TRUE)
    <3>1. dead \in SUBSET {i \in Slots(t) : Dead(t, i)}
      OBVIOUS
    <3> HIDE DEF dead
    <3>2. Sound(table') /\ Carries(t, table') /\ table'.the_pipeline = t.the_pipeline
      BY <1>3, <2>2, <3>1, UnnotifiedDead
    <3> QED BY <1>1, <1>3, <3>2, TableCarried
  <2> QED BY <1>4, <2>1, <2>2
<1>6. WaitHolds'
  <2> HIDE DEF dead
  <2> QED BY <1>1, <1>4, AnyReportedKnown, AnyJobAgain
<1> QED BY <1>1, <1>5, <1>6, NowKnown, ForksKept DEF Believed

LEMMA NotifyKnown ==
  ASSUME KnownInv, Notify
  PROVE  Believed'
<1>1. main'.pc = "notify" /\ UNCHANGED ignorant
  BY DEF Notify, At, Idle
<1>2. Sound(table') /\ Carries(table, table') /\ table'.the_pipeline = table.the_pipeline
  BY NowKnown, NotifiedSound DEF Notify
<1> QED BY <1>1, <1>2, DoneKnown

LEMMA EndNotifyKnown ==
  ASSUME KnownInv, EndNotify
  PROVE  Believed'
<1>1. main'.pc = "cleanup" /\ UNCHANGED ignorant
  BY DEF EndNotify, At, Idle
<1>2. Sound(table') /\ Carries(table, table') /\ table'.the_pipeline = table.the_pipeline
  BY NowKnown, CleanedSound DEF EndNotify
<1> QED BY <1>1, <1>2, DoneKnown

-------------------------------------------------------------------------------
(***************************************************************************)
(* What is known of the children, as theorems                              *)
(***************************************************************************)
LEMMA KnownStarts == Init => KnownInv
<1> SUFFICES ASSUME Init PROVE KnownInv
  OBVIOUS
<1>1. JobsInv
  BY Starts
<1>2. /\ \A p \in Pids : children[p].fork = 0 /\ children[p].state = "none"
      /\ table = EmptyTable /\ main.pc = "idle" /\ forks = 0 /\ lost = {}
  BY DEF Init, Idle
<1>3. ForksHold
  BY <1>2 DEF ForksHold
<1>4. Occupied(table) = {} /\ table.the_pipeline = <<>>
  <2>1. Slots(EmptyTable) = {} /\ EmptyTable.the_pipeline = <<>>
    BY DEF EmptyTable, Slots
  <2> QED BY <1>2, <2>1 DEF Occupied
<1>5. TableKnown(table, children, lost)
  <2>1. PipeKnown(<<>>, children, lost) /\ PipeApart(<<>>)
    BY DEF PipeKnown, PipeApart
  <2> QED BY <1>4, <2>1 DEF TableKnown, JobsKnown, JobsApart
<1>6. WaitHolds
  BY <1>2 DEF WaitHolds, Waiting, Is
<1> QED BY <1>1, <1>3, <1>5, <1>6 DEF KnownInv, Believed

LEMMA StepKnown ==
  ASSUME KnownInv, [Next]_vars
  PROVE  KnownInv'
<1>1. JobsInv'
  BY StepHolds DEF KnownInv
<1>2. CASE UNCHANGED vars
  <2>1. UNCHANGED <<children, table, main, forks, lost>>
    BY <1>2 DEF vars, counts
  <2>2. WaitHolds'
    BY <2>1, NowKnown DEF WaitHolds, Waiting, Is, Waits, NoChild
  <2> QED BY <1>1, <2>1, <2>2, NothingChanges DEF KnownInv, Believed
<1>3. CASE Commands
  <2>1. Believed'
    BY <1>3, SimpleCommandKnown, PipelineMadeKnown, WaitSingleKnown, WaitAllKnown, WaitAnyKnown,
       NotifyKnown, ReapDeadKnown DEF Commands
  <2> QED BY <1>1, <2>1 DEF KnownInv
<1>4. CASE Steps
  <2>1. CASE StopSimple \/ StopPipeline \/ Enter \/ WaitFor \/ ReapNone \/ NoChildren
    BY <1>1, <2>1, StopSimpleKnown, StopPipelineKnown, EnterKnown, WaitForKnown, ReapNoneKnown,
       NoChildrenKnown DEF KnownInv
  <2>2. CASE \E p \in Pids : PipelineNext(p) \/ ReapOne(p)
    BY <1>1, <2>2, PipelineNextKnown, ReapOneKnown DEF KnownInv
  <2>3. CASE Returned \/ NextJob \/ JobWaited \/ NoMoreJobs \/ EndCleanup
    BY <1>1, <2>3, ReturnedKnown, NextJobKnown, JobWaitedKnown, NoMoreJobsKnown, EndCleanupKnown
       DEF KnownInv
  <2>4. CASE AnyJob \/ AnyWaited \/ AnyReturned \/ EndNotify
    BY <1>1, <2>4, AnyJobKnown, AnyWaitedKnown, AnyReturnedKnown, EndNotifyKnown DEF KnownInv
  <2> QED BY <1>4, <2>1, <2>2, <2>3, <2>4 DEF Steps
<1>5. CASE Sigchld_handler
  BY <1>1, <1>5, HandlerKnown DEF KnownInv
<1>6. CASE InterruptWaitchld
  BY <1>1, <1>6, InterruptKnown DEF KnownInv
<1>7. CASE \E p \in Pids : Exit(p)
  BY <1>1, <1>7, ExitKnown DEF KnownInv
<1> QED BY <1>2, <1>3, <1>4, <1>5, <1>6, <1>7 DEF Next

\* Besides, in every state: a process that is marked running is a child of its number,
\* whatever is recorded of another is its own status, and what wait_for waits for is in
\* the table with something that runs - but for processes that were lost.
THEOREM ChildrenInvariant == Spec => []KnownInv
<1>1. Init => KnownInv
  BY KnownStarts
<1>2. KnownInv /\ [Next]_vars => KnownInv'
  BY StepKnown
<1> QED BY <1>1, <1>2, PTL DEF Spec

LEMMA InvariantAgrees == KnownInv => StatesAgree
<1> SUFFICES ASSUME KnownInv, NEW i \in Slots(table),
                    NEW pipe, pipe = Job(table, i).pipe,
                    NEW sure, sure = {k \in DOMAIN pipe : pipe[k].fork \notin lost}
             PROVE  /\ \A k \in sure : pipe[k].running => ChildOf(pipe[k])
                    /\ sure = DOMAIN pipe
                         => \A k \in sure : ~ pipe[k].running => pipe[k].status = pipe[k].fork
                    /\ Dead(table, i) => \A k \in sure : ~ pipe[k].running
                    /\ Running(table, i) => \E k \in DOMAIN pipe : pipe[k].running
  BY DEF StatesAgree
<1>1. CASE i \in Occupied(table)
  <2>1. JobKnown(pipe, Job(table, i).state, children, lost)
    BY <1>1, NowKnown DEF TableKnown, JobsKnown
  <2>2. \A k \in sure : ProcessKnown(pipe[k], children, lost) /\ pipe[k].fork \notin lost /\ k \in DOMAIN pipe
    BY <2>1 DEF JobKnown, PipeKnown
  <2>3. \A k \in sure : pipe[k].running => ChildOf(pipe[k])
    BY <2>2 DEF ProcessKnown, ChildOf
  <2>4. sure = DOMAIN pipe => \A k \in sure : ~ pipe[k].running => pipe[k].status = pipe[k].fork
    BY <2>1, <2>2 DEF JobKnown, PipeKnown
  <2>5. /\ Dead(table, i) => \A k \in sure : ~ pipe[k].running
        /\ Running(table, i) => \E k \in DOMAIN pipe : pipe[k].running
    BY <2>1, <2>2 DEF JobKnown, Dead, Running
  <2> QED BY <2>3, <2>4, <2>5
<1>2. CASE i \notin Occupied(table)
  <2>1. Job(table, i) = NoJob
    BY <1>2 DEF Occupied, IsJob
  <2>2. DOMAIN pipe = {} /\ ~ Dead(table, i) /\ ~ Running(table, i)
    BY <2>1 DEF NoJob, Dead, Running
  <2> QED BY <2>2
<1> QED BY <1>1, <1>2

LEMMA InvariantWaits == KnownInv => WaitedForExists
<1> SUFFICES ASSUME KnownInv PROVE WaitedForExists
  OBVIOUS
<1>1. Is("wait_for") /\ main.pid # ANY_PID => find_job(table, main.pid, FALSE) # NO_JOB
  BY NowKnown, FoundHeld DEF WaitHolds, Waiting, Is
<1>2. ASSUME Is("waitchld"), main.pid # ANY_PID, ~ main.reaped, lost = {}
      PROVE  In("zombie") \union In("running") # {}
  <2> DEFINE i == find_job(table, main.pid, FALSE)
             pipe == Job(table, i).pipe
  <2>1. i \in Occupied(table)
    BY <1>2, NowKnown, FoundHeld DEF WaitHolds, Waiting, Is
  <2>2. Running(table, i) \/ Head(pipe).running
    BY <1>2, NowKnown DEF WaitHolds, Waits
  <2> HIDE DEF i
  <2>3. pipe \in Seq(Processes) /\ pipe # <<>> /\ JobKnown(pipe, Job(table, i).state, children, lost)
    BY <2>1, NowKnown, PipesOf DEF TableKnown, JobsKnown
  <2>4. Running(table, i) => \E k \in DOMAIN pipe : pipe[k].running
    BY <2>3 DEF Running, JobKnown
  <2> HIDE DEF pipe
  <2>5. Head(pipe) = pipe[1] /\ 1 \in DOMAIN pipe
    BY <2>3
  <2>6. PICK k \in DOMAIN pipe : pipe[k].running
    BY <2>2, <2>4, <2>5
  <2>7. pipe[k].pid \in Pids \union {0} /\ ProcessKnown(pipe[k], children, lost)
    BY <2>3, PipeProcess DEF JobKnown, PipeKnown
  <2>8. pipe[k].pid \in Pids /\ children[pipe[k].pid].state # "none"
    BY <1>2, <2>6, <2>7 DEF ProcessKnown
  <2>9. children[pipe[k].pid].state \in {"none", "running", "zombie"}
    BY <2>8, NowKnown DEF KernelHolds, Children
  <2> QED BY <2>8, <2>9 DEF In
<1> QED BY <1>1, <1>2 DEF WaitedForExists

\* What the shell believes of its children is true whenever it acts on it, for every
\* number of processes, slots and signals.
THEOREM ChildrenAreKnown == Spec => []ChildrenKnown
<1>1. Spec => []KnownInv
  BY ChildrenInvariant
<1>2. KnownInv => ChildrenKnown
  BY InvariantAgrees, InvariantWaits DEF ChildrenKnown
<1> QED BY <1>1, <1>2, PTL

-------------------------------------------------------------------------------
(***************************************************************************)
(* What `wait' reports: the invariant                                      *)
(***************************************************************************)
\* No process of the pipeline is the last of one in the background.
NoLast(pipe, ch) == \A k \in DOMAIN pipe : pipe[k].pid # 0 => ch[pipe[k].pid].kind # "$!"

\* The pipeline that is built is of one kind; what is waited for without the wait builtin
\* is a command in the foreground.
MainReports ==
  /\ main.pc \in {"simple", "pipeline"}
       => /\ main.caller \in Callers
          /\ PipeReports(table.the_pipeline, ~ Async(main.caller), children)
  /\ Is("simple") => main.pid # 0
  /\ Is("pipeline") /\ main.pid = 0 => NoLast(table.the_pipeline, children)
  /\ main.pc \notin {"simple", "pipeline"} => table.the_pipeline = <<>>
  /\ Waiting /\ ~ InBuiltin => main.pid \in Pids /\ children[main.pid].kind = "foreground"
  /\ main.caller = "wait_for_single_pid" => main.pid \in Pids
  /\ Is("next job") => main.caller = "wait_for_background_pids"

ReportsHold == TableReports(table, children, lost) /\ MainReports /\ WaitReports

ReportInv == KnownInv /\ ReportsHold

\* What StatusKept says of a step: only numbers that are given out again are forgotten.
Told == \/ Is("cleanup") /\ InBuiltin
        \/ \E E \in SUBSET Pids : /\ Stays(table, table', E)
                                  /\ \A p \in E : children'[p].fork # children[p].fork

LEMMA NowReports ==
  ASSUME ReportInv
  PROVE  /\ KnownInv /\ TableReports(table, children, lost) /\ MainReports /\ WaitReports
         /\ KernelHolds /\ Sound(table) /\ main \in Locals /\ ForksHold /\ WaitHolds
         /\ TableKnown(table, children, lost) /\ Unlost(children, lost) /\ JobsApart(table)
BY NowKnown DEF ReportInv, ReportsHold, ForksHold, Unlost, TableKnown

LEMMA CollectedFewer ==
  ASSUME KernelHolds, NEW S, NEW D
  PROVE  /\ Fewer(children, Collected(S)) /\ Fewer(Collected(S), Collected(S \union D))
         /\ \A p \in Pids \intersect S : Collected(S)[p].state = "none"
<1>1. ASSUME NEW p \in Pids, NEW R
      PROVE  /\ Collected(R)[p].fork = children[p].fork /\ Collected(R)[p].kind = children[p].kind
             /\ Collected(R)[p].state = IF p \in R THEN "none" ELSE children[p].state
  <2>1. children[p] \in Children
    BY DEF KernelHolds
  <2> QED BY <2>1 DEF Collected, Children
<1> QED BY <1>1 DEF Fewer

LEMMA FewerOn ==
  ASSUME NEW ch, NEW left, NEW rest, Fewer(ch, left), Fewer(left, rest)
  PROVE  Fewer(ch, rest)
BY DEF Fewer

\* A pipeline that is empty stays empty when processes are recorded.
LEMMA EmptyStays ==
  ASSUME NEW t, Sound(t), NEW u, Sound(u), SameNumbers(t, u), t.the_pipeline = <<>>
  PROVE  u.the_pipeline = <<>>
<1> DEFINE pipe == u.the_pipeline
<1>1. pipe \in Seq(Processes) /\ DOMAIN pipe = DOMAIN <<>>
  BY PipesOf DEF SameNumbers, SamePids
<1> HIDE DEF pipe
<1>2. Len(pipe) \in Nat /\ DOMAIN pipe = 1..Len(pipe) /\ 1 \notin DOMAIN pipe
  BY <1>1
<1>3. Len(pipe) = 0
  BY <1>2
<1>4. pipe = <<>>
  BY <1>1, <1>3
<1> QED BY <1>4 DEF pipe

-------------------------------------------------------------------------------
(***************************************************************************)
(* What the parts of the steps leave of what is reported                   *)
(***************************************************************************)
LEMMA AllReapedReports ==
  ASSUME ReportInv, NEW pids \in SUBSET In("zombie"), NEW dropped \in SUBSET In("zombie"),
         NEW left, left = Collected(pids \union dropped), NEW u, u = AllRecorded(table, pids),
         NEW more, lost \subseteq more
  PROVE  /\ TableReports(u, left, more) /\ Sound(u) /\ DeadKept(table, u) /\ Fewer(children, left)
         /\ table.the_pipeline = <<>> => u.the_pipeline = <<>>
         /\ \A foreground : PipeReports(table.the_pipeline, foreground, children)
                              => PipeReports(u.the_pipeline, foreground, left)
<1>1. pids \in SUBSET Pids /\ \A p \in pids : children[p].fork \notin lost
  BY NowReports DEF In, Unlost
<1>2. /\ Sound(u) /\ TableReports(u, Collected(pids), lost) /\ SameNumbers(table, u)
      /\ DeadKept(table, u)
      /\ \A foreground : PipeReports(table.the_pipeline, foreground, children)
                           => PipeReports(u.the_pipeline, foreground, Collected(pids))
  BY <1>1, NowReports, AllRecordedKnown
<1>3. Fewer(children, Collected(pids)) /\ Fewer(Collected(pids), left)
  BY NowReports, CollectedFewer
<1>4. TableReports(u, left, more)
  BY <1>2, <1>3, FewerTable
<1>5. Fewer(children, left)
  BY <1>3, FewerOn
<1>6. \A foreground : PipeReports(table.the_pipeline, foreground, children)
                        => PipeReports(u.the_pipeline, foreground, left)
  BY <1>2, <1>3, FewerReport, PipesOf
<1>7. table.the_pipeline = <<>> => u.the_pipeline = <<>>
  BY <1>2, NowReports, EmptyStays
<1> QED BY <1>2, <1>4, <1>5, <1>6, <1>7

\* ReapAll, and what EndCleanup reaps
LEMMA EveryReapedReports ==
  ASSUME ReportInv, NEW left, left = Collected(In("zombie")),
         NEW u, u = AllRecorded(table, In("zombie"))
  PROVE  /\ TableReports(u, left, lost) /\ Sound(u) /\ DeadKept(table, u) /\ Fewer(children, left)
         /\ table.the_pipeline = <<>> => u.the_pipeline = <<>>
         /\ \A foreground : PipeReports(table.the_pipeline, foreground, children)
                              => PipeReports(u.the_pipeline, foreground, left)
<1> DEFINE pids == In("zombie")
           dropped == {}
<1>1. /\ pids \in SUBSET In("zombie") /\ dropped \in SUBSET In("zombie") /\ lost \subseteq lost
      /\ pids \union dropped = pids /\ left = Collected(pids) /\ u = AllRecorded(table, pids)
  OBVIOUS
<1> HIDE DEF pids, dropped
<1>2. left = Collected(pids \union dropped)
  BY <1>1
<1> QED BY <1>1, <1>2, AllReapedReports

LEMMA SomeReapedReports ==
  ASSUME ReportInv, NEW counted, ReapSome(counted)
  PROVE  /\ TableReports(table', children', lost') /\ Told
         /\ Fewer(children, children') /\ lost \subseteq lost'
         /\ table.the_pipeline = <<>> => table'.the_pipeline = <<>>
<1>1. PICK pids \in SUBSET In("zombie"), dropped \in SUBSET In("zombie") :
        /\ children' = Collected(pids \union dropped)
        /\ table' = AllRecorded(table, pids)
        /\ lost' = lost \union {children[p].fork : p \in dropped}
  BY DEF ReapSome
<1>2. lost \subseteq lost'
  BY <1>1
<1>3. /\ TableReports(table', children', lost') /\ DeadKept(table, table') /\ Fewer(children, children')
      /\ table.the_pipeline = <<>> => table'.the_pipeline = <<>>
  BY <1>1, <1>2, AllReapedReports
<1>4. Told
  BY <1>3, DeadKeptStays DEF Told
<1> QED BY <1>2, <1>3, <1>4

LEMMA OneReapedReports ==
  ASSUME ReportInv, NEW z \in In("zombie"), children' = Collected({z}),
         table' = Recorded(table, z, children[z].fork)
  PROVE  /\ TableReports(table', children', lost) /\ DeadKept(table, table')
         /\ Fewer(children, children') /\ (table.the_pipeline = <<>> => table'.the_pipeline = <<>>)
<1>1. z \in Pids /\ children[z].fork \in 0..MaxForks /\ children[z].fork \notin lost
  BY NowReports, ForkOf DEF In, Unlost
<1>2. Fewer(children, children') /\ children'[z].state = "none"
  BY <1>1, NowReports, CollectedFewer
<1>3. TableReports(table', children', lost) /\ DeadKept(table, table')
  BY <1>1, <1>2, NowReports, RecordedReports
<1>4. Sound(table')
  BY <1>1, NowReports, RecordedSound
<1>5. table.the_pipeline = <<>> => table'.the_pipeline = <<>>
  BY <1>3, <1>4, NowReports, EmptyStays DEF DeadKept
<1> QED BY <1>2, <1>3, <1>5

\* A process is made.
LEMMA MadeReports ==
  ASSUME ReportInv, KnownInv', NEW p \in Pids, NEW async, NEW kind, make_child(p, async, kind)
  PROVE  /\ TableReports(table', children', lost') /\ Told
         /\ \A foreground :
              PipeReports(table.the_pipeline, foreground, children)
                /\ NoLast(table.the_pipeline, children) /\ (kind = "foreground" <=> foreground)
                => PipeReports(table'.the_pipeline, foreground, children')
         /\ NoLast(table.the_pipeline, children) /\ kind # "$!"
              => NoLast(table'.the_pipeline, children')
<1> DEFINE Found(retried) == IF retried THEN AllRecorded(table, In("zombie")) ELSE table
           Left(retried) == IF retried THEN Collected(In("zombie")) ELSE children
           child == [state |-> "running", fork |-> forks', kind |-> kind]
<1>1. PICK retried \in BOOLEAN :
        /\ Left(retried)[p].state = "none"
        /\ \A k \in DOMAIN table.the_pipeline : table.the_pipeline[k].pid # p
        /\ children' = [Left(retried) EXCEPT ![p] = child]
        /\ table' = AddedProcess(Found(retried), p, forks')
  BY DEF make_child
<1>2. /\ KernelHolds /\ ForksHold /\ Sound(table) /\ TableKnown(table, children, lost)
      /\ TableReports(table, children, lost) /\ forks' = forks + 1 /\ lost' = lost
      /\ Sound(table') /\ KernelHolds'
  BY NowReports DEF make_child, KnownInv, JobsInv, TableHolds
<1>3. forks \in Nat /\ forks' \in 1..MaxForks
  BY <1>2, JobsAssumption DEF KernelHolds
<1> DEFINE found == Found(retried)
           left == Left(retried)
<1>4. In("zombie") \in SUBSET Pids
  BY DEF In
<1>5. Sound(found) /\ TableKnown(found, left, lost)
  BY <1>2, <1>4, AllRecordedKnown
<1>6. /\ TableReports(found, left, lost) /\ DeadKept(table, found) /\ Fewer(children, left)
      /\ \A foreground : PipeReports(table.the_pipeline, foreground, children)
                           => PipeReports(found.the_pipeline, foreground, left)
      /\ left \in [Pids -> Children]
  <2>1. CASE retried
    <3>1. left = Collected(In("zombie")) /\ found = AllRecorded(table, In("zombie"))
      BY <2>1
    <3> HIDE DEF left, found
    <3> QED BY <1>2, <3>1, EveryReapedReports, CollectedHolds
  <2>2. CASE ~ retried
    <3>1. left = children /\ found = table
      BY <2>2
    <3> HIDE DEF left, found
    <3>2. DeadKept(table, table) /\ Fewer(children, children)
      BY SameNumbersItself DEF DeadKept, Same, Fewer
    <3> QED BY <1>2, <3>1, <3>2 DEF KernelHolds
  <2> QED BY <2>1, <2>2
<1>7. /\ left[p].state = "none" /\ children' = [left EXCEPT ![p] = child]
      /\ table' = AddedProcess(found, p, forks')
  BY <1>1
<1> HIDE DEF found, left, Found, Left
<1>8. child.state = "running" /\ child.fork = forks' /\ child.kind = kind
  OBVIOUS
<1> HIDE DEF child
<1>9. children'[p] = child /\ Forked(left, children', p, forks')
  BY <1>6, <1>7, <1>8 DEF Forked
<1>10. forks' \notin lost
  BY <1>2, <1>3 DEF ForksHold
<1>11. ~ Has(found.the_pipeline, p)
  <2>1. SamePids(table.the_pipeline, found.the_pipeline)
    BY <1>6 DEF DeadKept, SameNumbers
  <2> QED BY <1>1, <2>1 DEF SamePids, Has
<1>12. /\ JobsForget(found, table', p) /\ StatusOut(found.bgpids, table'.bgpids, p)
       /\ Appended(found.the_pipeline, table'.the_pipeline, p, forks')
  BY <1>3, <1>5, <1>7, <1>9, <1>10, <1>11, AddedKnown DEF Appended
<1>13. Unlost(left, lost)
  BY <1>2, <1>6 DEF Unlost, ForksHold, Fewer
<1>14. TableReports(table', children', lost')
  BY <1>2, <1>5, <1>6, <1>9, <1>11, <1>12, <1>13, AddedReports
<1>15. Told
  <2>1. Stays(table, table', {p})
    BY <1>2, <1>5, <1>6, <1>12, AddedStays
  <2>2. children'[p].fork # children[p].fork
    <3>1. children[p].fork <= forks /\ children[p].fork \in Nat
      BY <1>2, ForkOf DEF ForksHold
    <3> QED BY <1>2, <1>3, <1>8, <1>9, <3>1
  <2> QED BY <2>1, <2>2 DEF Told
<1>16. NoLast(table.the_pipeline, children) => NoLast(found.the_pipeline, left)
  <2>1. SamePids(table.the_pipeline, found.the_pipeline)
    BY <1>6 DEF DeadKept, SameNumbers
  <2>2. \A k \in DOMAIN table.the_pipeline : table.the_pipeline[k].pid \in Pids \union {0}
    BY <1>2, PipesOf, PipeProcess
  <2> QED BY <1>6, <2>1, <2>2 DEF NoLast, SamePids, Fewer
<1> DEFINE pipe == found.the_pipeline
           longer == table'.the_pipeline
<1>17. pipe \in Seq(Processes) /\ Appended(pipe, longer, p, forks')
  BY <1>5, <1>12, PipesOf
<1>18. ASSUME NoLast(table.the_pipeline, children), NEW foreground,
              PipeReports(table.the_pipeline, foreground, children), kind = "foreground" <=> foreground
       PROVE  PipeReports(longer, foreground, children')
  <2>1. PipeReports(pipe, foreground, left) /\ NoLast(pipe, left) /\ ~ Has(pipe, p)
    BY <1>6, <1>11, <1>16, <1>18
  <2>2. children'[p].kind = "foreground" <=> foreground
    BY <1>8, <1>9, <1>18
  <2> HIDE DEF pipe, longer
  <2> QED BY <1>9, <1>17, <2>1, <2>2, AddedPipeReports DEF NoLast
<1>19. ASSUME NoLast(table.the_pipeline, children), kind # "$!"
       PROVE  NoLast(longer, children')
  <2>1. NoLast(pipe, left) /\ ~ Has(pipe, p)
    BY <1>11, <1>16, <1>19
  <2> HIDE DEF pipe, longer
  <2> DEFINE n == Len(pipe) + 1
  <2>2. /\ \A k \in DOMAIN longer : k = n \/ k \in DOMAIN pipe
        /\ \A k \in DOMAIN pipe : k \in DOMAIN longer /\ longer[k] = pipe[k]
        /\ n \in DOMAIN longer /\ longer[n].pid = p /\ longer[n].running = TRUE
    BY <1>17, AppendedLast
  <2>3. \A k \in DOMAIN pipe : pipe[k].pid \in Pids \union {0}
    BY <1>17, PipeProcess
  <2> HIDE DEF n
  <2> QED BY <1>8, <1>9, <1>19, <2>1, <2>2, <2>3 DEF NoLast, Forked, Has
<1> QED BY <1>14, <1>15, <1>18, <1>19

\* Jobs are marked, and dead ones saved.
LEMMA SavedReported ==
  ASSUME ReportInv, UNCHANGED <<children, lost>>, Saves(table, table'),
         table'.the_pipeline = table.the_pipeline
  PROVE  TableReports(table', children', lost') /\ Told
<1>1. TableReports(table', children', lost')
  BY NowReports, SavesReports
<1>2. Stays(table, table', {})
  BY AlikeItself, SavesStays
<1> QED BY <1>1, <1>2 DEF Told

LEMMA NothingReported ==
  ASSUME ReportInv, UNCHANGED <<children, lost, table>>
  PROVE  TableReports(table', children', lost') /\ Told
BY SavesItself, SavedReported

\* The pipeline becomes a job.
LEMMA StoppedReported ==
  ASSUME ReportInv, Is("simple") \/ (Is("pipeline") /\ main.pid # 0), UNCHANGED <<children, lost>>,
         table' = stop_pipeline(table, Async(main.caller), last_asynchronous_pid)
  PROVE  /\ TableReports(table', children', lost') /\ Told
         /\ table'.the_pipeline = <<>> /\ main.caller \in Callers
         /\ ~ Async(main.caller) => main.pid \in Pids /\ children[main.pid].kind = "foreground"
<1> DEFINE async == Async(main.caller)
<1>1. /\ main.pc \in {"simple", "pipeline"} /\ table.the_pipeline # <<>> /\ main.caller \in Callers
      /\ PipeReports(table.the_pipeline, ~ async, children)
      /\ Building(table, main.pid) /\ main.pid # 0
  BY NowReports DEF MainReports, Is, WaitHolds, KnownInv, JobsInv, TableHolds
<1>2. async \in BOOLEAN
  BY DEF Async
<1>3. /\ table' = stop_pipeline(table, async, last_asynchronous_pid)
      /\ ~ async <=> ~ Async(main.caller)
  OBVIOUS
<1> HIDE DEF async
<1>4. table'.the_pipeline = <<>> /\ Stopped(table, table', async)
  BY <1>1, <1>2, <1>3, NowReports, PipelineStopped
<1>5. TableReports(table', children', lost')
  BY <1>1, <1>4, NowReports, StoppedReports
<1>6. Told
  BY <1>4, StoppedStays DEF Told
<1>7. PICK k \in DOMAIN table.the_pipeline : table.the_pipeline[k].pid = main.pid
  BY <1>1 DEF Building, Has
<1>8. main.pid \in Pids
  BY <1>1, <1>7, NowReports, PipesOf, PipeProcess
<1>9. ~ async => children[main.pid].kind = "foreground"
  BY <1>1, <1>7 DEF PipeReports
<1> QED BY <1>1, <1>3, <1>4, <1>5, <1>6, <1>8, <1>9

\* bgp_clear
LEMMA ForgottenReported ==
  ASSUME NEW t, Sound(t), NEW ch, NEW l, TableReports(t, ch, l)
  PROVE  TableReports(Forgotten(t), ch, l) /\ Forgotten(t).the_pipeline = t.the_pipeline
<1> DEFINE u == Forgotten(t)
<1>1. /\ u.the_pipeline = t.the_pipeline /\ u.bgpids \in {<<>>, t.bgpids}
      /\ Occupied(u) = Occupied(t) /\ \A i : Job(u, i) = Job(t, i)
  BY StatusesForgotten
<1> HIDE DEF u
<1>2. u.bgpids = t.bgpids \/ DOMAIN u.bgpids = {}
  BY <1>1
<1>3. SavedApart(u)
  BY <1>1, <1>2 DEF TableReports, SavedApart, Holds, Building
<1>4. TableReports(u, ch, l)
  BY <1>1, <1>2, <1>3 DEF TableReports, Attended
<1> QED BY <1>1, <1>4 DEF u

LEMMA AllDeadAlike ==
  ASSUME NEW t, Sound(t)
  PROVE  Alike(t, mark_all_jobs_as_dead(t))
BY AllDeadSound DEF Alike, Dead

\* The shell is where it was.
LEMMA SameMain ==
  ASSUME ReportInv, main' = main, Fewer(children, children'), lost \subseteq lost',
         table.the_pipeline = <<>> => table'.the_pipeline = <<>>,
         main.pc \in {"simple", "pipeline"}
           => PipeReports(table'.the_pipeline, ~ Async(main.caller), children'),
         main.pc = "pipeline" => UNCHANGED table
  PROVE  MainReports' /\ WaitReports'
<1>1. \A p \in Pids : /\ children'[p].fork = children[p].fork /\ children'[p].kind = children[p].kind
                      /\ children'[p].state # "none" => children[p].state # "none"
  BY DEF Fewer
<1>2. NoLast(table.the_pipeline, children) => NoLast(table.the_pipeline, children')
  <2>1. \A k \in DOMAIN table.the_pipeline : table.the_pipeline[k].pid \in Pids \union {0}
    BY NowReports, PipesOf, PipeProcess
  <2> QED BY <1>1, <2>1 DEF NoLast
<1>3. MainReports'
  BY <1>1, <1>2, NowReports DEF MainReports, Is, Waiting, InBuiltin
<1>4. WaitReturnsStatus'
  <2> SUFFICES ASSUME Is("returned"), main.caller = "wait_for_single_pid",
                      children'[main.pid].kind = "$!"
               PROVE  \/ main.result \in {children'[main.pid].fork, NotFound}
                      \/ main.result = 0 /\ children'[main.pid].fork \in lost'
                      \/ main.result = -1 /\ lost' # {}
    BY DEF WaitReturnsStatus, Is
  <2>1. main.pid \in Pids
    BY NowReports DEF MainReports
  <2> QED BY <1>1, <2>1, NowReports DEF WaitReports, WaitReturnsStatus
<1>5. WaitGathersAll'
  BY <1>1, NowReports DEF WaitReports, WaitGathersAll, Is, InBuiltin
<1> QED BY <1>3, <1>4, <1>5 DEF WaitReports

\* The shell is where nothing was reported to `wait'.
LEMMA Elsewhere ==
  ASSUME table'.the_pipeline = <<>>, main'.pc \notin {"simple", "pipeline"},
         main'.pc = "returned" => main'.caller # "wait_for_single_pid",
         main'.pc = "cleanup" => ~ InBuiltin', main'.caller = "wait_for_single_pid" => main'.pid \in Pids,
         Waiting' /\ ~ InBuiltin' => main'.pid \in Pids /\ children'[main'.pid].kind = "foreground",
         main'.pc = "next job" => main'.caller = "wait_for_background_pids"
  PROVE  MainReports' /\ WaitReports'
BY DEF MainReports, WaitReports, WaitReturnsStatus, WaitGathersAll, Is

LEMMA BackIdle ==
  ASSUME table'.the_pipeline = <<>>, main' = Idle
  PROVE  MainReports' /\ WaitReports'
<1>1. main'.pc = "idle" /\ main'.caller = "none"
  BY DEF Idle
<1> QED BY <1>1, Elsewhere DEF Waiting

-------------------------------------------------------------------------------
(***************************************************************************)
(* The steps, and what is reported                                         *)
(***************************************************************************)
LEMMA ExitReports ==
  ASSUME ReportInv, NEW p \in Pids, Exit(p)
  PROVE  ReportsHold' /\ Told
<1>1. /\ children \in [Pids -> Children] /\ children[p].state = "running"
      /\ children' = [children EXCEPT ![p].state = "zombie"]
      /\ UNCHANGED <<table, main, lost>>
  BY NowReports DEF KernelHolds, Exit, counts
<1>2. Fewer(children, children')
  <2> SUFFICES ASSUME NEW q \in Pids
               PROVE  /\ children'[q].fork = children[q].fork /\ children'[q].kind = children[q].kind
                      /\ children'[q].state # "none" => children[q].state # "none"
    BY DEF Fewer
  <2>1. children[q] \in Children
    BY <1>1
  <2>2. children'[q] = IF q = p THEN [children[p] EXCEPT !.state = "zombie"] ELSE children[q]
    BY <1>1
  <2> QED BY <1>1, <2>1, <2>2 DEF Children
<1>3. TableReports(table', children', lost')
  BY <1>1, <1>2, NowReports, FewerTable
<1>4. main.pc \in {"simple", "pipeline"}
        => PipeReports(table'.the_pipeline, ~ Async(main.caller), children')
  BY <1>1, <1>2, NowReports, FewerReport, PipesOf DEF MainReports
<1>5. MainReports' /\ WaitReports'
  BY <1>1, <1>2, <1>4, SameMain
<1>6. Stays(table, table', {})
  BY <1>1, AlikeItself, SavesItself, SavesStays
<1> QED BY <1>3, <1>5, <1>6 DEF ReportsHold, Told

LEMMA HandlerReports ==
  ASSUME ReportInv, Sigchld_handler
  PROVE  ReportsHold' /\ Told
<1>1. main.pc # "pipeline" /\ (main.pc # "simple" => table.the_pipeline = <<>>)
  BY NowReports DEF Sigchld_handler, Blocked, MainReports
<1>2. CASE UNCHANGED <<children, table, main, lost>>
  <2>1. Fewer(children, children')
    BY <1>2 DEF Fewer
  <2>2. MainReports' /\ WaitReports'
    BY <1>2, <2>1, NowReports, SameMain DEF MainReports
  <2> QED BY <1>2, <2>2, NothingReported DEF ReportsHold
<1>3. CASE ReapAll(sigchld + 1) /\ main' = main
  <2>1. /\ UNCHANGED lost /\ children' = Collected(In("zombie"))
        /\ table' = AllRecorded(table, In("zombie"))
    BY <1>3 DEF ReapAll
  <2>2. /\ TableReports(table', children', lost) /\ DeadKept(table, table')
        /\ Fewer(children, children') /\ (table.the_pipeline = <<>> => table'.the_pipeline = <<>>)
        /\ \A foreground : PipeReports(table.the_pipeline, foreground, children)
                             => PipeReports(table'.the_pipeline, foreground, children')
    BY <2>1, EveryReapedReports
  <2>3. MainReports' /\ WaitReports'
    BY <1>1, <1>3, <2>1, <2>2, NowReports, SameMain DEF MainReports
  <2>4. Told
    BY <2>2, DeadKeptStays DEF Told
  <2> QED BY <2>1, <2>2, <2>3, <2>4 DEF ReportsHold
<1>4. CASE ReapSome(sigchld + 1) /\ Interrupted
  <2>1. InBuiltin /\ main' = Idle
    BY <1>4 DEF Interrupted
  <2>2. table.the_pipeline = <<>>
    BY <1>1, <2>1, NowReports DEF MainReports, InBuiltin, Callers
  <2>3. TableReports(table', children', lost') /\ Told /\ table'.the_pipeline = <<>>
    BY <1>4, <2>2, SomeReapedReports
  <2> QED BY <2>1, <2>3, BackIdle DEF ReportsHold
<1> QED BY <1>2, <1>3, <1>4 DEF Sigchld_handler

\* What a pipeline begins with
LEMMA FirstMade ==
  ASSUME ReportInv, Is("idle")
  PROVE  /\ table.the_pipeline = <<>> /\ NoLast(table.the_pipeline, children)
         /\ \A foreground : PipeReports(table.the_pipeline, foreground, children)
<1>1. table.the_pipeline = <<>>
  BY NowReports DEF MainReports, Is
<1> QED BY <1>1 DEF NoLast, PipeReports

LEMMA SimpleCommandReports ==
  ASSUME ReportInv, KnownInv', NEW p \in Pids, SimpleCommand(p)
  PROVE  ReportsHold' /\ Told
<1>1. PICK caller \in Callers : /\ make_child(p, Async(caller), Kind(caller))
                                /\ main' = At("simple", caller, p)
  BY DEF SimpleCommand
<1>2. Kind(caller) = "foreground" <=> ~ Async(caller)
  BY DEF Kind
<1>3. Is("idle")
  BY DEF SimpleCommand
<1>4. TableReports(table', children', lost') /\ Told
  BY <1>1, MadeReports
<1>5. PipeReports(table'.the_pipeline, ~ Async(caller), children')
  <2>1. ASSUME NEW foreground, Kind(caller) = "foreground" <=> foreground
        PROVE  PipeReports(table'.the_pipeline, foreground, children')
    <3>1. PipeReports(table.the_pipeline, foreground, children) /\ NoLast(table.the_pipeline, children)
      BY <1>3, FirstMade
    <3> QED BY <1>1, <2>1, <3>1, MadeReports
  <2> QED BY <1>2, <2>1
<1>6. main'.pc = "simple" /\ main'.pid = p /\ main'.caller = caller
  BY <1>1 DEF At, Idle
<1>7. MainReports'
  BY <1>5, <1>6, JobsAssumption DEF MainReports, Is, Waiting
<1>8. WaitReports'
  BY <1>6 DEF WaitReports, WaitReturnsStatus, WaitGathersAll, Is
<1> QED BY <1>4, <1>7, <1>8 DEF ReportsHold

LEMMA PipelineMadeReports ==
  ASSUME ReportInv, KnownInv', NEW p \in Pids, Pipeline(p)
  PROVE  ReportsHold' /\ Told
<1>1. PICK caller \in Callers : /\ make_child(p, Async(caller), caller)
                                /\ main' = At("pipeline", caller, 0)
  BY DEF Pipeline
<1>2. (caller = "foreground" <=> ~ Async(caller)) /\ caller # "$!"
  BY DEF Async, Callers
<1>3. Is("idle")
  BY DEF Pipeline
<1>4. TableReports(table', children', lost') /\ Told
  BY <1>1, MadeReports
<1>5. /\ PipeReports(table'.the_pipeline, ~ Async(caller), children')
      /\ NoLast(table'.the_pipeline, children')
  <2>1. /\ NoLast(table.the_pipeline, children)
        /\ PipeReports(table.the_pipeline, ~ Async(caller), children)
    BY <1>3, FirstMade
  <2>2. NoLast(table'.the_pipeline, children')
    BY <1>1, <1>2, <2>1, MadeReports
  <2> QED BY <1>1, <1>2, <2>1, <2>2, MadeReports
<1>6. main'.pc = "pipeline" /\ main'.pid = 0 /\ main'.caller = caller
  BY <1>1 DEF At, Idle
<1>7. caller # "wait_for_single_pid"
  BY DEF Callers
<1>8. MainReports'
  BY <1>5, <1>6, <1>7 DEF MainReports, Is, Waiting
<1>9. WaitReports'
  BY <1>6 DEF WaitReports, WaitReturnsStatus, WaitGathersAll, Is
<1> QED BY <1>4, <1>8, <1>9 DEF ReportsHold

LEMMA PipelineNextReports ==
  ASSUME ReportInv, KnownInv', NEW p \in Pids, PipelineNext(p)
  PROVE  ReportsHold' /\ Told
<1> DEFINE caller == main.caller
<1>1. /\ main.pc = "pipeline" /\ main.pid = 0 /\ make_child(p, Async(caller), Kind(caller))
      /\ main' = [main EXCEPT !.pid = p]
  BY DEF PipelineNext, Is
<1>2. /\ caller \in Callers /\ PipeReports(table.the_pipeline, ~ Async(caller), children)
      /\ NoLast(table.the_pipeline, children)
  BY <1>1, NowReports DEF MainReports, Is
<1>3. Kind(caller) = "foreground" <=> ~ Async(caller)
  BY DEF Kind
<1>4. main'.pc = "pipeline" /\ main'.pid = p /\ main'.caller = caller
  BY <1>1, NowReports DEF Locals
<1> HIDE DEF caller
<1>5. TableReports(table', children', lost') /\ Told
  BY <1>1, MadeReports
<1>6. PipeReports(table'.the_pipeline, ~ Async(caller), children')
  BY <1>1, <1>2, <1>3, MadeReports
<1>7. p # 0
  BY JobsAssumption
<1>8. MainReports'
  BY <1>2, <1>4, <1>6, <1>7 DEF MainReports, Is, Waiting
<1>9. WaitReports'
  BY <1>4 DEF WaitReports, WaitReturnsStatus, WaitGathersAll, Is
<1> QED BY <1>5, <1>8, <1>9 DEF ReportsHold

LEMMA StopSimpleReports ==
  ASSUME ReportInv, StopSimple
  PROVE  ReportsHold' /\ Told
<1>1. /\ TableReports(table', children', lost') /\ Told /\ table'.the_pipeline = <<>>
      /\ ~ Async(main.caller) => main.pid \in Pids /\ children[main.pid].kind = "foreground"
      /\ main.caller \in Callers /\ children' = children
  BY StoppedReported DEF StopSimple, counts
<1>2. CASE main' = Idle
  BY <1>1, <1>2, BackIdle DEF ReportsHold
<1>3. CASE ~ Async(main.caller) /\ main' = At("called", main.caller, main.pid)
  <2>1. main'.pc = "called" /\ main'.caller = main.caller /\ main'.pid = main.pid
    BY <1>3 DEF At, Idle
  <2>2. main'.pid \in Pids /\ children'[main'.pid].kind = "foreground"
    BY <1>1, <1>3, <2>1
  <2> QED BY <1>1, <2>1, <2>2, Elsewhere DEF ReportsHold
<1> QED BY <1>2, <1>3 DEF StopSimple

LEMMA StopPipelineReports ==
  ASSUME ReportInv, StopPipeline
  PROVE  ReportsHold' /\ Told
<1>1. /\ TableReports(table', children', lost') /\ Told /\ table'.the_pipeline = <<>>
      /\ ~ Async(main.caller) => main.pid \in Pids /\ children[main.pid].kind = "foreground"
      /\ main.caller \in Callers /\ children' = children
  BY StoppedReported DEF StopPipeline, counts
<1>2. CASE main' = Idle
  BY <1>1, <1>2, BackIdle DEF ReportsHold
<1>3. CASE ~ Async(main.caller) /\ main' = [main EXCEPT !.pc = "wait_for"]
  <2>1. main'.pc = "wait_for" /\ main'.caller = main.caller /\ main'.pid = main.pid
    BY <1>3, NowReports DEF Locals
  <2>2. main'.pid \in Pids /\ children'[main'.pid].kind = "foreground"
    BY <1>1, <1>3, <2>1
  <2> QED BY <1>1, <2>1, <2>2, Elsewhere DEF ReportsHold
<1> QED BY <1>2, <1>3 DEF StopPipeline

LEMMA EnterReports ==
  ASSUME ReportInv, Enter
  PROVE  ReportsHold' /\ Told
<1>1. /\ UNCHANGED <<children, table, lost>> /\ main.pc = "called" /\ table.the_pipeline = <<>>
      /\ ~ InBuiltin => main.pid \in Pids /\ children[main.pid].kind = "foreground"
      /\ main.caller = "wait_for_single_pid" => main.pid \in Pids
  BY NowReports DEF Enter, steady, Is, MainReports, Waiting
<1>2. CASE main' = Idle
  BY <1>1, <1>2, BackIdle, NothingReported DEF ReportsHold
<1>3. CASE main' = [main EXCEPT !.pc = "wait_for"]
  <2>1. main'.pc = "wait_for" /\ main'.pid = main.pid /\ main'.caller = main.caller
    BY <1>3, NowReports DEF Locals
  <2>2. MainReports' /\ WaitReports'
    BY <1>1, <2>1, Elsewhere DEF InBuiltin
  <2> QED BY <1>1, <2>2, NothingReported DEF ReportsHold
<1> QED BY <1>2, <1>3 DEF Enter, Interrupted

\* What the shell knows of a number of $! when its job has ended
LEMMA DeadJobReports ==
  ASSUME ReportInv, NEW p \in Pids, children[p].kind = "$!", NEW i \in Occupied(table),
         i = find_job(table, p, FALSE), Dead(table, i)
  PROVE  LET status == LastProc(table, i).status
         IN  status = children[p].fork \/ (status = 0 /\ children[p].fork \in lost)
<1>1. Has(Job(table, i).pipe, p)
  <2>1. \E k \in DOMAIN Job(table, i).pipe : Matches(Job(table, i).pipe[k], p, FALSE)
    BY NowReports, NoSlot, FindJob
  <2> QED BY <2>1 DEF Has, Matches
<1>2. LastProc(table, i).pid = p
  BY <1>1, NowReports, LastIs
<1>3. SavedReports(StatusOf(table, i), children, lost)
  BY NowReports, DeadReports
<1>4. p # 0
  BY JobsAssumption
<1> QED BY <1>2, <1>3, <1>4 DEF SavedReports, StatusOf

LEMMA WaitForReports ==
  ASSUME ReportInv, WaitFor
  PROVE  ReportsHold' /\ Told
<1> DEFINE job == find_job(table, main.pid, FALSE)
           status == LastProc(table, job).status
<1>1. /\ main.pc = "wait_for" /\ UNCHANGED <<children, lost>> /\ table.the_pipeline = <<>>
      /\ ~ InBuiltin => main.pid \in Pids /\ children[main.pid].kind = "foreground"
      /\ main.caller = "wait_for_single_pid" => main.pid \in Pids
  BY NowReports DEF WaitFor, steady, Is, MainReports, Waiting
<1>2. CASE main' = [main EXCEPT !.pc = "waitchld"] /\ UNCHANGED table
  <2>1. main'.pc = "waitchld" /\ main'.pid = main.pid /\ main'.caller = main.caller
    BY <1>2, NowReports DEF Locals
  <2>2. MainReports' /\ WaitReports'
    BY <1>1, <1>2, <2>1, Elsewhere DEF InBuiltin
  <2> QED BY <1>1, <1>2, <2>2, NothingReported DEF ReportsHold
<1>3. CASE /\ main.pid # ANY_PID /\ ~ Waits(job)
           /\ Return(IF job = NO_JOB THEN NotFound ELSE status)
           /\ table' = IF job = NO_JOB THEN table ELSE Cleaned(Notified(table))
  <2>1. Saves(table, table') /\ table'.the_pipeline = table.the_pipeline
    <3>1. /\ Sound(Notified(table)) /\ Saves(table, Notified(table))
          /\ Notified(table).the_pipeline = table.the_pipeline
      BY NowReports, NotifiedSound
    <3>2. /\ Saves(table, Cleaned(Notified(table)))
          /\ Cleaned(Notified(table)).the_pipeline = table.the_pipeline
      BY <3>1, CleanedSound, SavesOn
    <3> QED BY <1>3, <3>2, SavesItself
  <2>2. TableReports(table', children', lost') /\ Told
    BY <1>1, <2>1, SavedReported
  <2> DEFINE result == IF job = NO_JOB THEN NotFound ELSE status
  <2>3. /\ main'.pc = "returned" /\ main'.result = result
        /\ main'.pid = main.pid /\ main'.caller = main.caller
    <3>1. main' = [main EXCEPT !.pc = "returned", !.result = result, !.reaped = FALSE]
      BY <1>3 DEF Return
    <3> HIDE DEF result
    <3> QED BY <3>1, NowReports DEF Locals
  <2>4. ASSUME main.caller = "wait_for_single_pid", children[main.pid].kind = "$!"
        PROVE  \/ result \in {children[main.pid].fork, NotFound}
               \/ result = 0 /\ children[main.pid].fork \in lost
    <3>1. CASE job = NO_JOB
      BY <3>1
    <3>2. CASE job # NO_JOB
      <4>1. job \in Occupied(table)
        BY <3>2, NowReports, FindJob
      <4>2. Dead(table, job)
        <5>1. ~ Running(table, job)
          BY <1>3, <3>2 DEF Waits
        <5> HIDE DEF job
        <5>2. Job(table, job).state \in {"JRUNNING", "JDEAD"}
          BY <4>1, NowReports, PipesOf
        <5> QED BY <5>1, <5>2 DEF Running, Dead
      <4>3. main.pid \in Pids
        BY <1>1, <2>4
      <4> HIDE DEF job
      <4>4. status = children[main.pid].fork \/ (status = 0 /\ children[main.pid].fork \in lost)
        BY <2>4, <4>1, <4>2, <4>3, DeadJobReports DEF job
      <4> HIDE DEF status
      <4> QED BY <3>2, <4>4
    <3> QED BY <3>1, <3>2
  <2> HIDE DEF result
  <2>5. WaitReports'
    BY <1>1, <2>3, <2>4 DEF WaitReports, WaitReturnsStatus, WaitGathersAll, Is
  <2>6. MainReports'
    BY <1>1, <2>1, <2>3 DEF MainReports, Is, Waiting
  <2> QED BY <2>2, <2>5, <2>6 DEF ReportsHold
<1> QED BY <1>2, <1>3 DEF WaitFor

\* wait_for goes on.
LEMMA ResumedReports ==
  ASSUME ReportInv, main.pc = "waitchld", Resume, table'.the_pipeline = <<>>,
         \A p \in Pids : children'[p].kind = children[p].kind
  PROVE  MainReports' /\ WaitReports'
<1>1. /\ main'.pid = main.pid /\ main'.caller = main.caller
      /\ main'.pc = IF main.pid = ANY_PID THEN "returned" ELSE "wait_for"
  BY NowReports DEF Resume, Locals
<1>2. /\ ~ InBuiltin => main.pid \in Pids /\ children[main.pid].kind = "foreground"
      /\ main.caller = "wait_for_single_pid" => main.pid \in Pids
      /\ main.pid = ANY_PID => main.caller = "wait_for_any_job"
  BY NowReports DEF MainReports, Waiting, WaitHolds
<1> QED BY <1>1, <1>2, Elsewhere DEF InBuiltin

LEMMA ReapOneReports ==
  ASSUME ReportInv, NEW z \in Pids, ReapOne(z)
  PROVE  ReportsHold' /\ Told
<1>1. /\ main.pc = "waitchld" /\ z \in In("zombie") /\ children' = Collected({z})
      /\ table' = Recorded(table, z, children[z].fork) /\ lost' = lost
      /\ table.the_pipeline = <<>>
  BY NowReports DEF ReapOne, Is, In, MainReports
<1>2. /\ TableReports(table', children', lost) /\ DeadKept(table, table')
      /\ Fewer(children, children') /\ table'.the_pipeline = <<>>
  BY <1>1, OneReapedReports
<1>3. \A p \in Pids : children'[p].kind = children[p].kind
  BY <1>2 DEF Fewer
<1>4. MainReports' /\ WaitReports'
  <2>1. CASE main' = [main EXCEPT !.reaped = TRUE]
    <3>1. main'.pc = "waitchld" /\ main'.pid = main.pid /\ main'.caller = main.caller
      BY <1>1, <2>1, NowReports DEF Locals
    <3>2. /\ ~ InBuiltin => main.pid \in Pids /\ children[main.pid].kind = "foreground"
          /\ main.caller = "wait_for_single_pid" => main.pid \in Pids
      BY <1>1, NowReports DEF MainReports, Waiting
    <3> QED BY <1>2, <1>3, <3>1, <3>2, Elsewhere DEF InBuiltin
  <2>2. CASE Resume
    BY <1>1, <1>2, <1>3, <2>2, ResumedReports
  <2> QED BY <2>1, <2>2 DEF ReapOne
<1>5. Told
  BY <1>2, DeadKeptStays DEF Told
<1> QED BY <1>1, <1>2, <1>4, <1>5 DEF ReportsHold

LEMMA ReapNoneReports ==
  ASSUME ReportInv, ReapNone
  PROVE  ReportsHold' /\ Told
<1>1. main.pc = "waitchld" /\ UNCHANGED <<children, table, lost>> /\ Resume
  BY DEF ReapNone, Is
<1>2. table'.the_pipeline = <<>>
  BY <1>1, NowReports DEF MainReports
<1> QED BY <1>1, <1>2, ResumedReports, NothingReported DEF ReportsHold

LEMMA NoChildrenReports ==
  ASSUME ReportInv, NoChildren
  PROVE  ReportsHold' /\ Told
<1>1. /\ main.pc = "waitchld" /\ UNCHANGED <<children, lost>> /\ table.the_pipeline = <<>>
      /\ In("zombie") \union In("running") = {}
  BY NowReports DEF NoChildren, Is, MainReports
<1>2. CASE Resume /\ UNCHANGED table
  BY <1>1, <1>2, ResumedReports, NothingReported DEF ReportsHold
<1>3. CASE ~ main.reaped /\ InBuiltin /\ Return(-1) /\ UNCHANGED table
  <2>1. main'.pc = "returned" /\ main'.result = -1 /\ main'.caller = main.caller /\ main'.pid = main.pid
    BY <1>3, NowReports DEF Return, Locals
  <2>2. ASSUME main.caller = "wait_for_single_pid" PROVE main.pid \in Pids /\ lost # {}
    <3>1. main.pid \in Pids
      BY <2>2, NowReports DEF MainReports
    <3>2. main.pid # ANY_PID
      BY <3>1, JobsAssumption DEF ANY_PID
    <3> QED BY <1>1, <1>3, <3>1, <3>2, NowReports, InvariantWaits DEF WaitedForExists, Is
  <2>3. WaitReports'
    BY <1>1, <2>1, <2>2 DEF WaitReports, WaitReturnsStatus, WaitGathersAll, Is
  <2>4. MainReports'
    BY <1>1, <1>3, <2>1, <2>2 DEF MainReports, Is, Waiting
  <2> QED BY <1>1, <1>3, <2>3, <2>4, NothingReported DEF ReportsHold
<1>4. CASE ~ main.reaped /\ ~ InBuiltin /\ Resume /\ table' = NotAChild(table, main.pid)
  <2> DEFINE i == find_job(table, main.pid, FALSE)
  <2>1. NoChild
    <3> SUFFICES ASSUME NEW p \in Pids PROVE children[p].state = "none"
      BY DEF NoChild
    <3>1. children[p].state \in {"none", "running", "zombie"}
      BY NowReports DEF KernelHolds, Children
    <3>2. p \notin In("zombie") /\ p \notin In("running")
      BY <1>1
    <3> QED BY <3>1, <3>2 DEF In
  <2>2. main.pid \in Pids /\ children[main.pid].kind = "foreground"
    BY <1>1, <1>4, NowReports DEF MainReports, Waiting
  <2>3. main.pid # ANY_PID
    BY <2>2, JobsAssumption DEF ANY_PID
  <2>4. Holds(table, main.pid) /\ Waits(i)
    BY <1>1, <1>4, <2>3, NowReports DEF WaitHolds, Waiting, Is
  <2>5. TableReports(table', children, lost)
    BY <1>4, <2>1, <2>2, <2>4, NowReports, NoChildReports
  <2>6. SameNumbers(table, table') /\ Sound(table')
    BY <1>4, <2>1, <2>4, NowReports, NoChildKnown
  <2>7. i \in Occupied(table)
    BY <2>4, NowReports, FoundHeld
  <2>8. table'.bgpids = table.bgpids /\ \A j \in Occupied(table) \ {i} : Job(table', j) = Job(table, j)
    BY <1>4, <2>7, NowReports, NoChildRecorded
  <2>9. Job(table, i).foreground
    <3>1. \E k \in DOMAIN Job(table, i).pipe : Matches(Job(table, i).pipe[k], main.pid, FALSE)
      BY <2>7, NowReports, NoSlot, FindJob
    <3> HIDE DEF i
    <3>2. PipeReports(Job(table, i).pipe, Job(table, i).foreground, children)
      BY <2>7, NowReports DEF TableReports
    <3> QED BY <2>2, <3>1, <3>2, JobsAssumption DEF PipeReports, Matches
  <2> HIDE DEF i
  <2>10. Told
    BY <2>6, <2>7, <2>8, <2>9, NoChildStays DEF Told
  <2>11. table'.the_pipeline = <<>>
    BY <1>1, <2>6, NowReports, EmptyStays
  <2> QED BY <1>1, <1>4, <2>5, <2>10, <2>11, ResumedReports DEF ReportsHold
<1> QED BY <1>2, <1>3, <1>4 DEF NoChildren

LEMMA InterruptReports ==
  ASSUME ReportInv, InterruptWaitchld
  PROVE  ReportsHold' /\ Told
<1>1. UNCHANGED table /\ main' = Idle /\ table.the_pipeline = <<>>
  BY NowReports DEF InterruptWaitchld, Interrupted, Is, MainReports
<1>2. MainReports' /\ WaitReports'
  BY <1>1, BackIdle
<1>3. CASE UNCHANGED <<children, lost>>
  BY <1>1, <1>2, <1>3, NothingReported DEF ReportsHold
<1>4. CASE \E z \in In("zombie") :
             children' = Collected({z}) /\ lost' = lost \union {children[z].fork}
  <2>1. Fewer(children, children') /\ lost \subseteq lost'
    BY <1>4, NowReports, CollectedFewer
  <2>2. TableReports(table', children', lost')
    BY <1>1, <2>1, NowReports, FewerTable
  <2>3. Stays(table, table', {})
    BY <1>1, AlikeItself, SavesItself, SavesStays
  <2> QED BY <1>2, <2>2, <2>3 DEF ReportsHold, Told
<1> QED BY <1>3, <1>4 DEF InterruptWaitchld

\* What the steps of the builtin, and those between commands, have in common
LEMMA BetweenReports ==
  ASSUME ReportInv, UNCHANGED ignorant, Saves(table, table'), table'.the_pipeline = table.the_pipeline,
         main.pc \notin {"simple", "pipeline"}
  PROVE  /\ TableReports(table', children', lost') /\ Told /\ table'.the_pipeline = <<>>
         /\ UNCHANGED <<children, lost>>
BY NowReports, SavedReported DEF ignorant, MainReports

LEMMA WaitSingleReports ==
  ASSUME ReportInv, NEW p \in Pids, wait_for_single_pid(p)
  PROVE  ReportsHold' /\ Told
<1>1. /\ UNCHANGED table /\ UNCHANGED ignorant /\ main.pc \notin {"simple", "pipeline"}
  BY DEF wait_for_single_pid, Is
<1>2. /\ TableReports(table', children', lost') /\ Told /\ table'.the_pipeline = <<>>
      /\ UNCHANGED <<children, lost>>
  BY <1>1, SavesItself, BetweenReports
<1>3. CASE find_job(table, p, FALSE) # NO_JOB
  <2>1. main'.pc = "called" /\ main'.caller = "wait_for_single_pid" /\ main'.pid = p
    BY <1>3 DEF wait_for_single_pid, At, Idle
  <2> QED BY <1>2, <2>1, Elsewhere DEF ReportsHold, InBuiltin
<1>4. CASE find_job(table, p, FALSE) = NO_JOB
  <2> DEFINE found == bgp_search(table, p)
             result == IF found < 0 THEN NotFound ELSE found
  <2>1. /\ main'.pc = "returned" /\ main'.caller = "wait_for_single_pid" /\ main'.pid = p
        /\ main'.result = result
    <3>1. main' = [At("returned", "wait_for_single_pid", p) EXCEPT !.result = result]
      BY <1>4 DEF wait_for_single_pid
    <3> HIDE DEF result
    <3> QED BY <3>1 DEF At, Idle
  <2>2. ASSUME children[p].kind = "$!"
        PROVE  \/ result \in {children[p].fork, NotFound}
               \/ result = 0 /\ children[p].fork \in lost
    <3>1. CASE found < 0
      BY <3>1
    <3>2. CASE ~(found < 0)
      <4>1. found # -1 /\ result = found
        BY <3>2
      <4>2. PICK n \in DOMAIN table.bgpids :
              table.bgpids[n].pid = p /\ table.bgpids[n].status = found
        <5> HIDE DEF result
        <5> QED BY <4>1, NowReports, SearchedIs
      <4>3. SavedReports(table.bgpids[n], children, lost) /\ p # 0
        BY NowReports, JobsAssumption DEF TableReports
      <4> HIDE DEF found, result
      <4> QED BY <2>2, <4>1, <4>2, <4>3 DEF SavedReports
    <3> QED BY <3>1, <3>2
  <2> HIDE DEF result
  <2>3. WaitReports'
    BY <1>2, <2>1, <2>2 DEF WaitReports, WaitReturnsStatus, WaitGathersAll, Is
  <2>4. MainReports'
    BY <1>2, <2>1 DEF MainReports, Is, Waiting
  <2> QED BY <1>2, <2>3, <2>4 DEF ReportsHold
<1> QED BY <1>3, <1>4

LEMMA ReturnedReports ==
  ASSUME ReportInv, Returned
  PROVE  ReportsHold' /\ Told
<1>1. Saves(table, table') /\ table'.the_pipeline = table.the_pipeline
  BY NowReports, WaitedMarked, SavesItself DEF Returned
<1>2. UNCHANGED ignorant /\ main.pc \notin {"simple", "pipeline"} /\ main' = Idle
  BY DEF Returned, Is
<1> QED BY <1>1, <1>2, BetweenReports, BackIdle DEF ReportsHold

LEMMA AnyReturnedReports ==
  ASSUME ReportInv, AnyReturned
  PROVE  ReportsHold' /\ Told
<1>1. /\ UNCHANGED table /\ UNCHANGED ignorant /\ main.pc \notin {"simple", "pipeline"}
      /\ main' = Idle
  BY DEF AnyReturned, Is
<1> QED BY <1>1, SavesItself, BetweenReports, BackIdle DEF ReportsHold

LEMMA WaitAllReports ==
  ASSUME ReportInv, wait_for_background_pids
  PROVE  ReportsHold' /\ Told
<1>1. /\ UNCHANGED table /\ UNCHANGED ignorant /\ main.pc \notin {"simple", "pipeline"}
  BY DEF wait_for_background_pids, Is
<1>2. main'.pc = "next job" /\ main'.caller = "wait_for_background_pids"
  BY DEF wait_for_background_pids, At, Idle
<1>3. MainReports' /\ WaitReports'
  BY <1>1, <1>2, SavesItself, BetweenReports, Elsewhere DEF Waiting
<1> QED BY <1>1, <1>3, SavesItself, BetweenReports DEF ReportsHold

LEMMA NextJobReports ==
  ASSUME ReportInv, NextJob
  PROVE  ReportsHold' /\ Told
<1>1. /\ UNCHANGED table /\ UNCHANGED ignorant /\ main.pc = "next job"
      /\ main.caller = "wait_for_background_pids"
  BY NowReports DEF NextJob, Is, MainReports
<1>2. main'.pc = "called" /\ main'.caller = "wait_for_background_pids"
  <2>1. \E pid : main' = [main EXCEPT !.pc = "called", !.pid = pid]
    BY DEF NextJob
  <2> QED BY <1>1, <2>1, NowReports DEF Locals
<1>3. MainReports' /\ WaitReports'
  BY <1>1, <1>2, SavesItself, BetweenReports, Elsewhere DEF InBuiltin
<1> QED BY <1>1, <1>3, SavesItself, BetweenReports DEF ReportsHold

LEMMA JobWaitedReports ==
  ASSUME ReportInv, JobWaited
  PROVE  ReportsHold' /\ Told
<1> DEFINE marked == MarkWaited(table, main.pid)
<1>1. /\ main.pc = "returned" /\ main.caller = "wait_for_background_pids"
      /\ UNCHANGED <<children, lost>> /\ table.the_pipeline = <<>>
      /\ table' = IF main.result = -1 THEN mark_all_jobs_as_dead(marked) ELSE marked
  BY NowReports DEF JobWaited, ignorant, Is, MainReports
<1>2. /\ Sound(marked) /\ Saves(table, marked) /\ marked.the_pipeline = table.the_pipeline
      /\ TableReports(marked, children, lost)
  BY NowReports, WaitedMarked, SavesReports
<1> HIDE DEF marked
<1>3. main.result = -1 => NoChild
  BY <1>1, NowReports DEF WaitHolds, Is
<1>4. TableReports(table', children', lost')
  BY <1>1, <1>2, <1>3, AllDeadReports DEF NoChild
<1>5. Alike(marked, table') /\ table'.the_pipeline = <<>>
  BY <1>1, <1>2, AlikeItself, AllDeadAlike, AllDeadSound
<1>6. Told
  <2>1. Alike(table, table)
    BY AlikeItself
  <2>2. Stays(table, table', {})
    BY <1>2, <1>5, <2>1, SavesStays
  <2> QED BY <2>2 DEF Told
<1>7. main'.pc = "next job" /\ main'.caller = "wait_for_background_pids"
  BY <1>1 DEF JobWaited, At, Idle
<1>8. MainReports' /\ WaitReports'
  BY <1>5, <1>7, Elsewhere DEF Waiting
<1> QED BY <1>4, <1>6, <1>8 DEF ReportsHold

LEMMA CleanupReports ==
  ASSUME ReportInv, NEW t, Sound(t), Saves(table, t), t.the_pipeline = table.the_pipeline,
         main.pc \notin {"simple", "pipeline"}, NEW caller, StartCleanup(t, caller)
  PROVE  /\ TableReports(table', children', lost') /\ Told /\ table'.the_pipeline = <<>>
         /\ UNCHANGED <<children, lost>> /\ main'.pc = "cleanup" /\ main'.caller = caller
<1>1. Saves(table, table') /\ table'.the_pipeline = table.the_pipeline
  BY CleanedSound, SavesOn DEF StartCleanup
<1>2. UNCHANGED ignorant /\ main'.pc = "cleanup" /\ main'.caller = caller
  BY DEF StartCleanup, At, Idle
<1> QED BY <1>1, <1>2, BetweenReports

LEMMA ReapDeadReports ==
  ASSUME ReportInv, reap_dead_jobs
  PROVE  ReportsHold' /\ Told
<1>1. /\ TableReports(table', children', lost') /\ Told /\ table'.the_pipeline = <<>>
      /\ main'.pc = "cleanup" /\ main'.caller = "none"
  BY NowReports, MarkDeadSound, CleanupReports DEF reap_dead_jobs, Is
<1> QED BY <1>1, Elsewhere DEF ReportsHold, InBuiltin, Waiting

\* No job in the background runs: no process of one is a child.
LEMMA NoMoreJobsReports ==
  ASSUME ReportInv, NoMoreJobs
  PROVE  ReportsHold' /\ Told
<1>1. /\ main.pc = "next job" /\ Background(table) = {}
      /\ main.caller = "wait_for_background_pids" /\ table.the_pipeline = <<>>
  BY NowReports DEF NoMoreJobs, Is, MainReports
<1>2. /\ TableReports(table', children', lost') /\ Told /\ table'.the_pipeline = <<>>
      /\ UNCHANGED <<children, lost>> /\ main'.pc = "cleanup"
      /\ main'.caller = "wait_for_background_pids"
  BY <1>1, NowReports, MarkDeadSound, CleanupReports DEF NoMoreJobs
<1>3. ASSUME NEW p \in Pids, children[p].state # "none" PROVE children[p].kind = "foreground"
  <2>1. Attended(table, p) /\ children[p].fork \notin lost
    BY <1>3, NowReports DEF TableReports, Unlost
  <2>2. PICK i \in Occupied(table) : Living(Job(table, i).pipe, p) # {}
    <3>1. Living(<<>>, p) = {}
      BY DEF Living, Matches
    <3> QED BY <1>1, <2>1, <3>1 DEF Attended
  <2>3. ~ Dead(table, i) /\ Job(table, i).state \in {"JRUNNING", "JDEAD"}
    BY <2>1, <2>2, NowReports, LivingNotDead, PipesOf
  <2>4. Job(table, i).foreground
    BY <1>1, <2>3 DEF Background, Running, Dead, Occupied
  <2>5. PICK k \in DOMAIN Job(table, i).pipe : Job(table, i).pipe[k].pid = p
    BY <2>2 DEF Living, Matches
  <2>6. PipeReports(Job(table, i).pipe, Job(table, i).foreground, children) /\ p # 0
    BY NowReports, JobsAssumption DEF TableReports
  <2> QED BY <2>4, <2>5, <2>6 DEF PipeReports
<1>4. WaitReports'
  BY <1>2, <1>3 DEF WaitReports, WaitReturnsStatus, WaitGathersAll, Is
<1>5. MainReports'
  BY <1>2 DEF MainReports, Is, Waiting
<1> QED BY <1>2, <1>4, <1>5 DEF ReportsHold

LEMMA EndCleanupReports ==
  ASSUME ReportInv, EndCleanup
  PROVE  ReportsHold' /\ Told
<1>1. main' = Idle /\ main.pc = "cleanup" /\ table.the_pipeline = <<>>
  BY NowReports DEF EndCleanup, Interrupted, Is, MainReports
<1>2. \A t : InBuiltin \/ Forgotten(t) = t
  BY DEF Forgotten
<1>3. CASE table' = Forgotten(table) /\ UNCHANGED <<children, lost>>
  <2>1. TableReports(table', children', lost') /\ table'.the_pipeline = <<>>
    BY <1>1, <1>3, NowReports, ForgottenReported
  <2>2. Told
    <3>1. CASE InBuiltin
      BY <1>1, <3>1 DEF Told, Is
    <3>2. CASE ~ InBuiltin
      BY <1>2, <1>3, <3>2, NothingReported
    <3> QED BY <3>1, <3>2
  <2> QED BY <1>1, <2>1, <2>2, BackIdle DEF ReportsHold
<1>4. CASE /\ children' = Collected(In("zombie"))
           /\ table' = Forgotten(AllRecorded(table, In("zombie"))) /\ UNCHANGED lost
  <2> DEFINE t == AllRecorded(table, In("zombie"))
  <2>1. /\ TableReports(t, children', lost) /\ Sound(t) /\ DeadKept(table, t)
        /\ t.the_pipeline = <<>>
    BY <1>1, <1>4, EveryReapedReports
  <2>2. table' = Forgotten(t)
    BY <1>4
  <2> HIDE DEF t
  <2>3. TableReports(table', children', lost') /\ table'.the_pipeline = <<>>
    BY <1>4, <2>1, <2>2, ForgottenReported
  <2>4. Told
    <3>1. CASE InBuiltin
      BY <1>1, <3>1 DEF Told, Is
    <3>2. CASE ~ InBuiltin
      BY <1>2, <2>1, <2>2, <3>2, DeadKeptStays DEF Told
    <3> QED BY <3>1, <3>2
  <2> QED BY <1>1, <2>3, <2>4, BackIdle DEF ReportsHold
<1>5. CASE ReapSome(sigchld)
  <2>1. TableReports(table', children', lost') /\ Told /\ table'.the_pipeline = <<>>
    BY <1>1, <1>5, SomeReapedReports
  <2> QED BY <1>1, <2>1, BackIdle DEF ReportsHold
<1> QED BY <1>3, <1>4, <1>5 DEF EndCleanup

\* `wait -n' goes on, with or without a status to return.
LEMMA AnyGoesOn ==
  ASSUME table'.the_pipeline = <<>>,
         \/ \E result : main' = [At("returned", "wait_for_any_job", 0) EXCEPT !.result = result]
         \/ main' = At("any job", "wait_for_any_job", 0)
         \/ main' = At("called", "wait_for_any_job", ANY_PID)
  PROVE  MainReports' /\ WaitReports'
<1>1. main'.pc \in {"returned", "any job", "called"} /\ main'.caller = "wait_for_any_job"
  BY DEF At, Idle
<1> QED BY <1>1, Elsewhere DEF InBuiltin

LEMMA WaitAnyReports ==
  ASSUME ReportInv, wait_for_any_job
  PROVE  ReportsHold' /\ Told
<1>1. UNCHANGED ignorant /\ main.pc \notin {"simple", "pipeline"}
  BY DEF wait_for_any_job, Is
<1>2. CASE Unnotified(table) # {} /\ ReportJob(Min(Unnotified(table)))
  <2>1. Unnotified(table) \in SUBSET {i \in Slots(table) : Dead(table, i)}
    BY DEF Unnotified
  <2>2. /\ table' = delete_job(Notified(table), Min(Unnotified(table)), TRUE)
        /\ \E result : main' = [At("returned", "wait_for_any_job", 0) EXCEPT !.result = result]
    BY <1>2 DEF ReportJob
  <2>3. Saves(table, table') /\ table'.the_pipeline = table.the_pipeline
    BY <1>2, <2>1, <2>2, NowReports, UnnotifiedDead
  <2> QED BY <1>1, <2>2, <2>3, BetweenReports, AnyGoesOn DEF ReportsHold
<1>3. CASE main' = At("any job", "wait_for_any_job", 0) /\ UNCHANGED table
  BY <1>1, <1>3, SavesItself, BetweenReports, AnyGoesOn DEF ReportsHold
<1> QED BY <1>2, <1>3 DEF wait_for_any_job

LEMMA AnyJobReports ==
  ASSUME ReportInv, AnyJob
  PROVE  ReportsHold' /\ Told
<1>1. /\ main.pc \notin {"simple", "pipeline"} /\ main.caller = "wait_for_any_job"
      /\ UNCHANGED table /\ UNCHANGED ignorant
  BY NowReports DEF AnyJob, Is, WaitHolds
<1>2. /\ TableReports(table', children', lost') /\ Told /\ table'.the_pipeline = <<>>
  BY <1>1, SavesItself, BetweenReports
<1>3. MainReports' /\ WaitReports'
  BY <1>1, <1>2, AnyGoesOn DEF AnyJob
<1> QED BY <1>2, <1>3 DEF ReportsHold

LEMMA AnyWaitedReports ==
  ASSUME ReportInv, AnyWaited
  PROVE  ReportsHold' /\ Told
<1> DEFINE t == IF main.result = -1 THEN mark_all_jobs_as_dead(table) ELSE table
           dead == {i \in Slots(t) : Dead(t, i)}
<1>1. /\ main.pc = "returned" /\ main.caller = "wait_for_any_job" /\ main.pid = ANY_PID
      /\ UNCHANGED <<children, lost>> /\ table.the_pipeline = <<>>
  BY NowReports DEF AnyWaited, Is, ignorant, MainReports
<1>2. main.result = -1 => NoChild
  BY <1>1, NowReports DEF WaitHolds, Is, ANY_PID
<1>3. /\ Sound(t) /\ TableKnown(t, children, lost) /\ TableReports(t, children, lost)
      /\ Alike(table, t) /\ t.the_pipeline = <<>>
  BY <1>1, <1>2, NowReports, AllDeadKnown, AllDeadReports, AllDeadAlike, AllDeadSound, AlikeItself
     DEF NoChild
<1>4. \/ /\ dead # {}
         /\ table' = delete_job(Notified(t), Min(dead), TRUE)
         /\ main' = [At("returned", main.caller, 0) EXCEPT !.result = LastProc(t, Min(dead)).status]
      \/ table' = t /\ main' = At("any job", main.caller, 0)
  BY DEF AnyWaited
<1> HIDE DEF t
<1>5. Saves(t, table') /\ table'.the_pipeline = t.the_pipeline
  <2>1. CASE table' = t
    BY <2>1, SavesItself
  <2>2. CASE dead # {} /\ table' = delete_job(Notified(t), Min(dead), TRUE)
    <3>1. dead \in SUBSET {i \in Slots(t) : Dead(t, i)}
      OBVIOUS
    <3> HIDE DEF dead
    <3> QED BY <1>3, <2>2, <3>1, UnnotifiedDead
  <2> QED BY <1>4, <2>1, <2>2
<1>6. TableReports(table', children', lost')
  BY <1>1, <1>3, <1>5, NowReports, SavesReports
<1>7. Told
  <2>1. Alike(table', table')
    BY AlikeItself
  <2>2. Stays(table, table', {})
    BY <1>3, <1>5, <2>1, SavesStays
  <2> QED BY <2>2 DEF Told
<1>8. MainReports' /\ WaitReports'
  <2> HIDE DEF dead
  <2> QED BY <1>1, <1>3, <1>4, <1>5, AnyGoesOn
<1> QED BY <1>6, <1>7, <1>8 DEF ReportsHold

LEMMA NotifyReports ==
  ASSUME ReportInv, Notify
  PROVE  ReportsHold' /\ Told
<1>1. /\ main'.pc = "notify" /\ main'.caller = "none" /\ UNCHANGED ignorant
      /\ main.pc \notin {"simple", "pipeline"}
  BY DEF Notify, At, Idle, Is
<1>2. Saves(table, table') /\ table'.the_pipeline = table.the_pipeline
  BY NowReports, NotifiedSound DEF Notify
<1>3. TableReports(table', children', lost') /\ Told /\ table'.the_pipeline = <<>>
  BY <1>1, <1>2, BetweenReports
<1> QED BY <1>1, <1>3, Elsewhere DEF ReportsHold, Waiting

LEMMA EndNotifyReports ==
  ASSUME ReportInv, EndNotify
  PROVE  ReportsHold' /\ Told
<1>1. /\ main'.pc = "cleanup" /\ main'.caller = "none" /\ UNCHANGED ignorant
      /\ main.pc \notin {"simple", "pipeline"}
  BY DEF EndNotify, At, Idle, Is
<1>2. Saves(table, table') /\ table'.the_pipeline = table.the_pipeline
  BY NowReports, CleanedSound DEF EndNotify
<1>3. TableReports(table', children', lost') /\ Told /\ table'.the_pipeline = <<>>
  BY <1>1, <1>2, BetweenReports
<1> QED BY <1>1, <1>3, Elsewhere DEF ReportsHold, Waiting, InBuiltin

-------------------------------------------------------------------------------
(***************************************************************************)
(* What `wait' reports, and what stays known, as theorems                  *)
(***************************************************************************)
LEMMA ReportsStart == Init => ReportInv
<1> SUFFICES ASSUME Init PROVE ReportInv
  OBVIOUS
<1>1. KnownInv
  BY KnownStarts
<1>2. /\ \A p \in Pids : children[p].state = "none"
      /\ table = EmptyTable /\ main = Idle
  BY DEF Init
<1>3. Occupied(table) = {} /\ table.the_pipeline = <<>> /\ table.bgpids = <<>>
  <2>1. Slots(EmptyTable) = {} /\ EmptyTable.the_pipeline = <<>> /\ EmptyTable.bgpids = <<>>
    BY DEF EmptyTable, Slots
  <2> QED BY <1>2, <2>1 DEF Occupied
<1>4. TableReports(table, children, lost)
  BY <1>2, <1>3 DEF TableReports, SavedReports, SavedApart
<1>5. MainReports /\ WaitReports
  BY <1>2, <1>3 DEF MainReports, WaitReports, WaitReturnsStatus, WaitGathersAll, Is, Waiting, Idle
<1> QED BY <1>1, <1>4, <1>5 DEF ReportInv, ReportsHold

\* A step that is not taken leaves all that is reported.
LEMMA StutterReports ==
  ASSUME ReportInv, UNCHANGED vars
  PROVE  ReportsHold'
<1>1. UNCHANGED <<children, table, main, lost>>
  BY DEF vars, counts
<1>2. /\ (Waiting <=> Waiting') /\ (InBuiltin <=> InBuiltin')
      /\ In("none") = In("none")' /\ \A pc : Is(pc) <=> Is(pc)'
  BY <1>1 DEF Waiting, InBuiltin, Is, In
<1>3. MainReports'
  BY <1>1, <1>2, NowReports DEF MainReports, Is
<1>4. WaitReports'
  BY <1>1, <1>2, NowReports DEF WaitReports, WaitReturnsStatus, WaitGathersAll, Is
<1> QED BY <1>1, <1>3, <1>4, NowReports DEF ReportsHold

LEMMA StepReports ==
  ASSUME ReportInv, [Next]_vars
  PROVE  ReportInv' /\ (Told \/ UNCHANGED vars)
<1>1. KnownInv'
  BY StepKnown DEF ReportInv
<1>2. CASE UNCHANGED vars
  BY <1>1, <1>2, StutterReports DEF ReportInv
<1>3. CASE Commands
  BY <1>1, <1>3, SimpleCommandReports, PipelineMadeReports, WaitSingleReports, WaitAllReports,
     WaitAnyReports, NotifyReports, ReapDeadReports DEF Commands, ReportInv
<1>4. CASE Steps
  <2>1. CASE StopSimple \/ StopPipeline \/ Enter \/ WaitFor \/ ReapNone \/ NoChildren
    BY <1>1, <2>1, StopSimpleReports, StopPipelineReports, EnterReports, WaitForReports,
       ReapNoneReports, NoChildrenReports DEF ReportInv
  <2>2. CASE \E p \in Pids : PipelineNext(p) \/ ReapOne(p)
    BY <1>1, <2>2, PipelineNextReports, ReapOneReports DEF ReportInv
  <2>3. CASE Returned \/ NextJob \/ JobWaited \/ NoMoreJobs \/ EndCleanup
    BY <1>1, <2>3, ReturnedReports, NextJobReports, JobWaitedReports, NoMoreJobsReports,
       EndCleanupReports DEF ReportInv
  <2>4. CASE AnyJob \/ AnyWaited \/ AnyReturned \/ EndNotify
    BY <1>1, <2>4, AnyJobReports, AnyWaitedReports, AnyReturnedReports, EndNotifyReports
       DEF ReportInv
  <2> QED BY <1>4, <2>1, <2>2, <2>3, <2>4 DEF Steps
<1>5. CASE Sigchld_handler
  BY <1>1, <1>5, HandlerReports DEF ReportInv
<1>6. CASE InterruptWaitchld
  BY <1>1, <1>6, InterruptReports DEF ReportInv
<1>7. CASE \E p \in Pids : Exit(p)
  BY <1>1, <1>7, ExitReports DEF ReportInv
<1> QED BY <1>2, <1>3, <1>4, <1>5, <1>6, <1>7 DEF Next

\* Besides what is known of the children, in every state: a process that has ended is in
\* a job or saved with the status it had, a job is all foreground or all background, and
\* what is waited for outside the wait builtin is in the foreground.
THEOREM ReportsInvariant == Spec => []ReportInv
<1>1. Init => ReportInv
  BY ReportsStart
<1>2. ReportInv /\ [Next]_vars => ReportInv'
  BY StepReports
<1> QED BY <1>1, <1>2, PTL DEF Spec

\* `wait' with the number of a process returns that process' own status, and without
\* one only when no background process is left, however many processes there are and
\* whatever the signal handler did in between (jobs.c, wait_for_single_pid and
\* wait_for_background_pids).
THEOREM WaitReportsTruly == Spec => []WaitReports
<1>1. ReportInv => WaitReports
  BY DEF ReportInv, ReportsHold
<1> QED BY <1>1, ReportsInvariant, PTL

\* A step of which Told holds forgets only what it may.
LEMMA ToldKeeps ==
  ASSUME ReportInv, ReportInv', Told,
         NEW p \in Pids, Known(table, p) # -1, children[p].kind = "$!"
  PROVE  \/ Known(table', p) = Known(table, p)
         \/ Len(table'.bgpids) = ChildMax /\ find_job(table', p, FALSE) = NO_JOB
         \/ Is("cleanup") /\ InBuiltin
         \/ Reused(Together(table, p))
<1>1. CASE Is("cleanup") /\ InBuiltin
  BY <1>1
<1>2. CASE \E E \in SUBSET Pids : /\ Stays(table, table', E)
                                  /\ \A e \in E : children'[e].fork # children[e].fork
  <2>1. PICK E \in SUBSET Pids : /\ Stays(table, table', E)
                                 /\ \A e \in E : children'[e].fork # children[e].fork
    BY <1>2
  <2>2. Sound(table') /\ JobsApart(table') /\ SavedApart(table')
    <3>1. JobsInv' /\ TableKnown(table, children, lost)' /\ TableReports(table, children, lost)'
      BY DEF ReportInv, KnownInv, Believed, ReportsHold
    <3> QED BY <3>1 DEF JobsInv, TableHolds, TableKnown, TableReports
  <2>3. \/ Known(table', p) = Known(table, p)
        \/ Len(table'.bgpids) = ChildMax /\ find_job(table', p, FALSE) = NO_JOB
        \/ \E e \in E : e \in Together(table, p)
    BY <2>1, <2>2, NowReports, KnownStays
  <2> QED BY <2>1, <2>3 DEF Reused
<1> QED BY <1>1, <1>2 DEF Told

\* The status of the process of `$!' that has ended stays known, as StatusKept says, in
\* every step of the main program, of the handler and of the children (jobs.c,
\* delete_job, bgp_add, compact_jobs_list).
THEOREM StatusIsKept == Spec => StatusKept
<1> DEFINE AsTold == \A p \in Pids :
              Known(table, p) # -1 /\ children[p].kind = "$!"
                => \/ Known(table', p) = Known(table, p)
                   \/ Len(table'.bgpids) = ChildMax /\ find_job(table', p, FALSE) = NO_JOB
                   \/ Is("cleanup") /\ InBuiltin
                   \/ Reused(Together(table, p))
<1>1. ReportInv /\ ReportInv' /\ [Next]_vars => [AsTold]_vars
  <2> SUFFICES ASSUME ReportInv, ReportInv', [Next]_vars PROVE AsTold \/ UNCHANGED vars
    OBVIOUS
  <2>1. CASE UNCHANGED vars
    BY <2>1
  <2>2. CASE Told
    BY <2>2, ToldKeeps
  <2> QED BY <2>1, <2>2, StepReports
<1>2. StatusKept <=> [][AsTold]_vars
  BY DEF StatusKept
<1> HIDE DEF AsTold
<1> QED BY <1>1, <1>2, ReportsInvariant, PTL DEF Spec

===============================================================================
