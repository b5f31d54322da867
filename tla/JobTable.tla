-------------------------------- MODULE JobTable --------------------------------
(***************************************************************************)
(* The data of jobs.c: the table of jobs with its indices (jobs, js), the  *)
(* pipeline being built (the_pipeline) and the saved statuses of processes *)
(* whose job is gone (bgpids), as the fields of one record t.  Every       *)
(* operator is one function of jobs.c, from the table it finds to the one  *)
(* it leaves; which signals may come between two of them is in Jobs.       *)
(*                                                                         *)
(* The shell runs a script: no job control, not interactive, not posix.    *)
(* A status is the number of the fork it belongs to; 0 is the status of a  *)
(* process that has not been waited for.  Left out: j_current, j_previous, *)
(* the counters nothing reads outside DEBUG, and all printing.             *)
(***************************************************************************)
EXTENDS Integers, Sequences, FiniteSets, FiniteSetsExt, SequencesExt

CONSTANTS
  JobSlots, MaxJobsInArray, ChildMax,
  Signalled       \* the statuses of processes that are killed by a signal

ASSUME JobTableAssumption ==
  /\ JobSlots \in Nat \ {0} /\ MaxJobsInArray \in Nat \ {0} /\ ChildMax \in Nat
  /\ Signalled \subseteq Nat \ {0}

NoJob == [pipe |-> <<>>, state |-> "JNONE", foreground |-> FALSE, notified |-> FALSE]
NO_JOB == -1

EmptyTable == [jobs |-> <<>>, slots |-> 0, firstj |-> 0, lastj |-> 0, njobs |-> 0,
               the_pipeline |-> <<>>, bgpids |-> <<>>]

\* The slots are numbered from 0; t.jobs holds slot i at i + 1.
Slots(t) == 0..(t.slots - 1)
Job(t, i) == t.jobs[i + 1]
IsJob(t, i) == Job(t, i) # NoJob
Dead(t, i) == Job(t, i).state = "JDEAD"
Running(t, i) == Job(t, i).state = "JRUNNING"
LastProc(t, i) == Last(Job(t, i).pipe)
Put(t, i, job) == [t EXCEPT !.jobs[i + 1] = job]
InOrder(t) == [k \in 1..t.slots |-> k - 1]
FirstOf(slots) == IF slots = {} THEN NO_JOB ELSE Min(slots)

-----------------------------------------------------------------------------
(* Searches. *)

Matches(p, pid, alive) == p.pid = pid /\ (alive => p.running)

find_job(t, pid, alive) ==
  FirstOf({i \in Slots(t) : \E k \in DOMAIN Job(t, i).pipe :
                                Matches(Job(t, i).pipe[k], pid, alive)})

bgp_search(t, pid) ==
  LET found == SelectInSeq(t.bgpids, LAMBDA ps : ps.pid = pid)
  IN  IF found = 0 THEN -1 ELSE t.bgpids[found].status

-----------------------------------------------------------------------------
(* The saved statuses: the oldest goes when there are more than ChildMax. *)

\* Mutant: one more than may be kept.
bgp_add_one_more(bgpids, pid, status) ==
  LET added == Append(bgpids, [pid |-> pid, status |-> status])
  IN  IF Len(added) > ChildMax + 1 THEN Tail(added) ELSE added

bgp_add(bgpids, pid, status) ==
  LET added == Append(bgpids, [pid |-> pid, status |-> status])
  IN  IF Len(added) > ChildMax THEN Tail(added) ELSE added

bgp_delete(t, pid) ==
  LET found == SelectInSeq(t.bgpids, LAMBDA ps : ps.pid = pid)
  IN  IF found = 0 THEN t ELSE [t EXCEPT !.bgpids = RemoveAt(@, found)]

-----------------------------------------------------------------------------
(* Removing jobs. *)

\* The occupied slots other than i, in the order a search upwards or downwards
\* from i meets them, around the end of the array.
Upwards(t, i) == {k \in 1..(t.slots - 1) : IsJob(t, (i + k) % t.slots)}
Downwards(t, i) == {k \in 1..(t.slots - 1) : IsJob(t, (i + t.slots - k) % t.slots)}

reset_job_indices(t) ==
  LET none == [t EXCEPT !.firstj = 0, !.lastj = 0, !.njobs = 0]
      first == IF IsJob(t, t.firstj) THEN t
               ELSE IF Upwards(t, t.firstj) = {} THEN none
               ELSE [t EXCEPT !.firstj = (@ + Min(Upwards(t, @))) % t.slots]
  IN  IF IsJob(t, first.lastj) THEN first
      ELSE IF Downwards(t, first.lastj) = {} THEN none
      ELSE [first EXCEPT !.lastj = (@ + t.slots - Min(Downwards(t, @))) % t.slots]

\* Mutant: the indices are reset only when the table is empty.
delete_job_keeps_indices(t, i, save) ==
  LET saved == IF save THEN bgp_add(t.bgpids, LastProc(t, i).pid, LastProc(t, i).status)
                       ELSE t.bgpids
      gone == [Put(t, i, NoJob) EXCEPT !.bgpids = saved, !.njobs = @ - 1]
  IN  IF gone.njobs = 0 THEN [gone EXCEPT !.firstj = 0, !.lastj = 0] ELSE gone

\* Mutant: DEL_NOBGPID the wrong way round.
delete_job_saves_not(t, i, save) ==
  LET saved == IF save THEN t.bgpids
               ELSE bgp_add(t.bgpids, LastProc(t, i).pid, LastProc(t, i).status)
      gone == [Put(t, i, NoJob) EXCEPT !.bgpids = saved, !.njobs = @ - 1]
  IN  IF gone.njobs = 0 THEN [gone EXCEPT !.firstj = 0, !.lastj = 0] ELSE reset_job_indices(gone)

\* DEL_NOBGPID is ~save: the status of the job is not kept.
delete_job(t, i, save) ==
  LET saved == IF save THEN bgp_add(t.bgpids, LastProc(t, i).pid, LastProc(t, i).status)
                       ELSE t.bgpids
      gone == [Put(t, i, NoJob) EXCEPT !.bgpids = saved, !.njobs = @ - 1]
  IN  IF gone.njobs = 0 THEN [gone EXCEPT !.firstj = 0, !.lastj = 0]
                        ELSE reset_job_indices(gone)

\* The deletions of cleanup_dead_jobs.
Cleaned(t) ==
  FoldLeft(LAMBDA u, i : IF Dead(u, i) /\ Job(u, i).notified THEN delete_job(u, i, TRUE)
                         ELSE u,
           t, InOrder(t))

\* A process number has been given out again.
delete_old_job(t, pid) ==
  LET i == find_job(t, pid, FALSE)
      k == SelectInSeq(Job(t, i).pipe, LAMBDA p : p.pid = pid)
  IN  IF i = NO_JOB THEN t
      ELSE IF Dead(t, i) THEN delete_job(t, i, FALSE)
      ELSE [t EXCEPT !.jobs[i + 1].pipe[k].pid = 0]

-----------------------------------------------------------------------------
(* Marks. *)

Marked(t, slots) ==
  [t EXCEPT !.jobs = [n \in DOMAIN @ |-> IF n - 1 \in slots
                                         THEN [@[n] EXCEPT !.notified = TRUE] ELSE @[n]]]

\* notify_of_job_status: the status of a background job is kept back for `wait',
\* unless it was killed by a signal, which is reported.
Notified(t) ==
  Marked(t, {i \in Slots(t) : Dead(t, i) /\ (Job(t, i).foreground
                                             \/ LastProc(t, i).status \in Signalled)})

\* The dead jobs but that of $!.
Removable(t, last_asynchronous_pid) ==
  {i \in Slots(t) : Dead(t, i) /\ LastProc(t, i).pid # last_asynchronous_pid}

mark_dead_jobs_as_notified(t, force, last_asynchronous_pid) ==
  LET candidates == Removable(t, last_asynchronous_pid)
      Processes(slots) == MapThenSumSet(LAMBDA i : Len(Job(t, i).pipe), slots)
      ndeadproc == Processes({i \in Slots(t) : Dead(t, i)})
      Left(i) == ndeadproc - Processes({k \in candidates : k <= i})
  IN  Marked(t, IF force THEN candidates ELSE {i \in candidates : Left(i) > ChildMax})

\* A job keeps the state of its processes: the mark is on the job alone.
mark_all_jobs_as_dead(t) ==
  [t EXCEPT !.jobs = [n \in DOMAIN @ |-> IF @[n] = NoJob THEN NoJob
                                         ELSE [@[n] EXCEPT !.state = "JDEAD"]]]

-----------------------------------------------------------------------------
(* Making jobs. *)

\* add_process, and what make_child forgets of earlier processes of this number.
\* Nothing reads which fork a process is.
AddedProcess(t, pid, fork) ==
  LET process == [pid |-> pid, fork |-> fork, status |-> 0, running |-> TRUE]
      added == [t EXCEPT !.the_pipeline = Append(@, process)]
  IN  bgp_delete(delete_old_job(added, pid), pid)

Cells(n) == [k \in 1..n |-> NoJob]

realloc_jobs_list(t) ==
  LET kept == FoldLeft(LAMBDA list, job : IF job = NoJob THEN list ELSE Append(list, job),
                       <<>>, t.jobs)
      rest == t.njobs % JobSlots
      nsize == ((t.njobs + JobSlots - 1) \div JobSlots) * JobSlots
               + IF rest = 0 \/ rest > JobSlots \div 2 THEN JobSlots ELSE 0
  IN  [t EXCEPT !.jobs = kept \o Cells(nsize - Len(kept)), !.slots = nsize,
                !.firstj = 0, !.lastj = IF kept = <<>> THEN 0 ELSE Len(kept) - 1,
                !.njobs = Len(kept)]

compact_jobs_list(t, last_asynchronous_pid) ==
  realloc_jobs_list(Cleaned(mark_dead_jobs_as_notified(t, FALSE, last_asynchronous_pid)))

\* The slots are scanned from the last job on, and not from the beginning.
FreeSlot(t) ==
  LET from == IF t.lastj = 0 THEN 0 ELSE t.lastj + 1
      free == {i \in Slots(t) : i >= from /\ ~ IsJob(t, i)}
  IN  IF free = {} THEN t.slots ELSE Min(free)

\* The table with room in it, by compaction or by growing.
Roomy(t, last_asynchronous_pid) ==
  LET full == FreeSlot(t) = t.slots
      room == IF full /\ t.slots >= MaxJobsInArray
              THEN compact_jobs_list(t, last_asynchronous_pid) ELSE t
  IN  IF FreeSlot(room) = room.slots
      THEN [room EXCEPT !.jobs = @ \o Cells(JobSlots), !.slots = @ + JobSlots] ELSE room

stop_pipeline(t, async, last_asynchronous_pid) ==
  LET clean == Cleaned(t)
      made == IF clean.slots = 0 THEN [clean EXCEPT !.jobs = Cells(JobSlots), !.slots = JobSlots]
                                 ELSE clean
      room == Roomy(made, last_asynchronous_pid)
      running == \E k \in DOMAIN t.the_pipeline : t.the_pipeline[k].running
      newjob == [pipe |-> t.the_pipeline, state |-> IF running THEN "JRUNNING" ELSE "JDEAD",
                 foreground |-> ~ async, notified |-> FALSE]
  IN  [Put(room, FreeSlot(room), newjob) EXCEPT
         !.the_pipeline = <<>>, !.lastj = FreeSlot(room), !.njobs = @ + 1]

-----------------------------------------------------------------------------
(* What waitchld records of a child. *)

Ended(pipe, k, status) == [pipe EXCEPT ![k].status = status, ![k].running = FALSE]

\* Mutant: the job is dead when its last process is.
JobEndedByLast(job, k, status) ==
  LET pipe == Ended(job.pipe, k, status)
  IN  [job EXCEPT !.pipe = pipe, !.notified = FALSE,
                  !.state = IF Last(pipe).running THEN @ ELSE "JDEAD"]

\* set_job_status_and_cleanup: the job is dead when all its processes are.
JobEnded(job, k, status) ==
  LET pipe == Ended(job.pipe, k, status)
  IN  [job EXCEPT !.pipe = pipe, !.notified = FALSE,
                  !.state = IF \E n \in DOMAIN pipe : pipe[n].running THEN @ ELSE "JDEAD"]

\* The process that lives is searched for in the pipeline, then in the jobs; of a
\* job it is the first of that number, whether it lives or not.
Recorded(t, pid, status) ==
  LET building == SelectInSeq(t.the_pipeline, LAMBDA p : Matches(p, pid, TRUE))
      i == find_job(t, pid, TRUE)
      k == SelectInSeq(Job(t, i).pipe, LAMBDA p : p.pid = pid)
  IN  IF building # 0 THEN [t EXCEPT !.the_pipeline = Ended(@, building, status)]
      ELSE IF i = NO_JOB THEN t
      ELSE Put(t, i, JobEnded(Job(t, i), k, status))
=============================================================================
