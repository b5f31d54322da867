---------------------------------- MODULE Jobs ----------------------------------
(***************************************************************************)
(* jobs.c under way: the shell forks the processes of a script and waits   *)
(* for them, while SIGCHLD comes whenever one ends and the signal is not   *)
(* blocked.  Its handler collects what has ended at once, or, while        *)
(* queue_sigchld is raised, counts the signal and leaves the collecting to *)
(* the code that raised it.  `wait' is left by longjmp when a trapped      *)
(* signal has come (CHECK_WAIT_INTR).                                      *)
(*                                                                         *)
(* A region that blocks SIGCHLD and does not wait is one step.  SIGCHLD is *)
(* one bit: several ends are one signal.  The kernel gives the number of a *)
(* collected process to a later one.                                       *)
(***************************************************************************)
EXTENDS JobTable

CONSTANTS
  Pids,
  MaxForks,      \* bound of the processes made
  MaxSignals     \* bound of the trapped signals that interrupt `wait'

ASSUME JobsAssumption ==
  /\ Pids \subseteq Nat \ {0} /\ IsFiniteSet(Pids)
  /\ MaxForks \in 0..126 /\ MaxSignals \in Nat

ANY_PID == -1
NotFound == 127

VARIABLES
  children,       \* of the kernel, by process number; with the last fork of the number
  pending,        \* SIGCHLD waits to be delivered
  table, last_asynchronous_pid,
  sigchld, queue_sigchld,
  main,           \* where the shell is, with its locals
  forks, signals, \* how many there were
  lost            \* the forks collected by a waitpid whose result was thrown away

signalling == <<sigchld, queue_sigchld>>
counts == <<forks, signals, lost>>
vars == <<children, pending, table, last_asynchronous_pid, signalling, main, counts>>

\* "idle": between two commands.
Idle == [pc |-> "idle", caller |-> "none", pid |-> 0, reaped |-> FALSE, os |-> 0, result |-> 0]
At(pc, caller, pid) == [Idle EXCEPT !.pc = pc, !.caller = caller, !.pid = pid]
Is(pc) == main.pc = pc

\* Callers of wait_for: the command in the foreground, and the three forms of the
\* wait builtin, which alone a signal interrupts.
InBuiltin == main.caller \in {"wait_for_single_pid", "wait_for_background_pids", "wait_for_any_job"}

Blocked == main.pc \in {"pipeline", "wait_for", "waitchld"}

In(state) == {p \in Pids : children[p].state = state}

Init ==
  /\ children = [p \in Pids |-> [state |-> "none", fork |-> 0, kind |-> "foreground"]]
  /\ pending = FALSE
  /\ table = EmptyTable /\ last_asynchronous_pid = 0
  /\ sigchld = 0 /\ queue_sigchld = 0
  /\ main = Idle
  /\ forks = 0 /\ signals = 0 /\ lost = {}

-----------------------------------------------------------------------------
(* Ends of processes, and waitpid. *)

Exit(p) ==
  /\ children[p].state = "running"
  /\ children' = [children EXCEPT ![p].state = "zombie"]
  /\ pending' = TRUE
  /\ UNCHANGED <<table, last_asynchronous_pid, signalling, main, counts>>

Collected(pids) ==
  [p \in Pids |-> IF p \in pids THEN [children[p] EXCEPT !.state = "none"] ELSE children[p]]

AllRecorded(t, pids) == FoldSet(LAMBDA p, u : Recorded(u, p, children[p].fork), t, pids)

\* sigchld after calls of waitpid that did not block.
Less(counted, calls) == IF counted > calls THEN counted - calls ELSE 0

\* waitchld (-1, 0): every process that has ended, and one call that finds none.
ReapAll(counted) ==
  /\ children' = Collected(In("zombie"))
  /\ table' = AllRecorded(table, In("zombie"))
  /\ sigchld' = Less(counted, Cardinality(In("zombie")) + 1)
  /\ UNCHANGED lost

\* A trapped signal ends it after some, at a CHECK_WAIT_INTR: the process whose
\* waitpid has just returned is not recorded.
ReapSome(counted) ==
  \E pids \in SUBSET In("zombie"), dropped \in SUBSET In("zombie") :
    /\ pids \intersect dropped = {} /\ Cardinality(dropped) <= 1
    /\ children' = Collected(pids \union dropped)
    /\ table' = AllRecorded(table, pids)
    /\ lost' = lost \union {children[p].fork : p \in dropped}
    /\ sigchld' = Less(counted, Cardinality(pids \union dropped))

\* The longjmp to wait_intr_buf; queue_sigchld is left as it is.
Interrupted ==
  /\ InBuiltin /\ signals < MaxSignals
  /\ signals' = signals + 1
  /\ main' = Idle

Sigchld_handler ==
  /\ pending /\ ~ Blocked
  /\ pending' = FALSE
  /\ \/ /\ queue_sigchld # 0
        /\ sigchld' = sigchld + 1
        /\ UNCHANGED <<children, table, main, signals, lost>>
     \/ /\ queue_sigchld = 0
        /\ \/ ReapAll(sigchld + 1) /\ UNCHANGED <<main, signals>>
           \/ ReapSome(sigchld + 1) /\ Interrupted
  /\ UNCHANGED <<last_asynchronous_pid, queue_sigchld, forks>>

-----------------------------------------------------------------------------
(* Making processes: make_child, stop_pipeline, execute_pipeline. *)

Callers == {"foreground", "background"}

\* fork, which may have to be tried again after collecting what has ended.  The kernel
\* gives out new numbers in their order, and none twice within a pipeline.
make_child(p, async, kind) ==
  /\ forks < MaxForks /\ forks' = forks + 1
  /\ \E retried \in BOOLEAN :
       LET found == IF retried THEN AllRecorded(table, In("zombie")) ELSE table
           left == IF retried THEN Collected(In("zombie")) ELSE children
       IN  /\ retried => In("zombie") # {}
           /\ left[p].state = "none" /\ \A q \in Pids : q < p => left[q].fork # 0
           /\ \A k \in DOMAIN table.the_pipeline : table.the_pipeline[k].pid # p
           /\ children' = [left EXCEPT ![p] = [state |-> "running", fork |-> forks', kind |-> kind]]
           /\ table' = AddedProcess(found, p, forks')
  /\ last_asynchronous_pid' = IF async THEN p ELSE last_asynchronous_pid
  /\ UNCHANGED <<pending, signalling, signals, lost>>

Async(caller) == caller = "background"
Kind(caller) == IF Async(caller) THEN "$!" ELSE "foreground"

SimpleCommand(p) ==
  /\ Is("idle")
  /\ \E caller \in Callers : /\ make_child(p, Async(caller), Kind(caller))
                             /\ main' = At("simple", caller, p)

\* The last simple command; SIGCHLD was unblocked since the fork.
StopSimple ==
  /\ Is("simple")
  /\ table' = stop_pipeline(table, Async(main.caller), last_asynchronous_pid)
  /\ main' = IF Async(main.caller) THEN Idle ELSE At("called", main.caller, main.pid)
  /\ UNCHANGED <<children, pending, last_asynchronous_pid, signalling, counts>>

\* execute_pipeline blocks SIGCHLD until the pipeline is made and, in the foreground,
\* waited for.
Pipeline(p) ==
  /\ Is("idle") /\ forks + 1 < MaxForks
  /\ \E caller \in Callers : /\ make_child(p, Async(caller), caller)
                             /\ main' = At("pipeline", caller, 0)

PipelineNext(p) ==
  /\ Is("pipeline") /\ main.pid = 0
  /\ make_child(p, Async(main.caller), Kind(main.caller))
  /\ main' = [main EXCEPT !.pid = p]

StopPipeline ==
  /\ Is("pipeline") /\ main.pid # 0
  /\ table' = stop_pipeline(table, Async(main.caller), last_asynchronous_pid)
  /\ main' = IF Async(main.caller) THEN Idle
             ELSE [main EXCEPT !.pc = "wait_for"]
  /\ UNCHANGED <<children, pending, last_asynchronous_pid, signalling, counts>>

-----------------------------------------------------------------------------
(* wait_for and its waitchld (pid, 1). *)

steady == <<last_asynchronous_pid, forks>>

\* wait_for blocks SIGCHLD.
Enter ==
  /\ Is("called")
  /\ \/ main' = [main EXCEPT !.pc = "wait_for"] /\ UNCHANGED signals
     \/ Interrupted
  /\ UNCHANGED <<children, pending, table, signalling, lost, steady>>

Return(result) == main' = [main EXCEPT !.pc = "returned", !.result = result, !.reaped = FALSE]

\* Mutant: waits for a job that may have ended.
WaitsAlways(job) == job # NO_JOB

\* child of wait_for is the first process of the pipeline of its pid.
Waits(job) == job # NO_JOB /\ (Running(table, job) \/ Head(Job(table, job).pipe).running)

\* Mutant: the status of the first process of the pipeline, wait_for's child.
WaitForFirst ==
  /\ Is("wait_for")
  /\ LET job == find_job(table, main.pid, FALSE)
     IN  \/ /\ main.pid = ANY_PID \/ Waits(job)
            /\ queue_sigchld' = 1
            /\ main' = [main EXCEPT !.pc = "waitchld"]
            /\ UNCHANGED table
         \/ /\ main.pid # ANY_PID /\ ~ Waits(job)
            /\ Return(IF job = NO_JOB THEN NotFound ELSE Head(Job(table, job).pipe).status)
            /\ table' = IF job = NO_JOB THEN table ELSE Cleaned(Notified(table))
            /\ UNCHANGED queue_sigchld
  /\ UNCHANGED <<children, pending, sigchld, signals, lost, steady>>

\* The head of the loop, or its end: a job that is gone, one that runs, one that is
\* dead; notify_and_cleanup then has no signal to make up for.
WaitFor ==
  /\ Is("wait_for")
  /\ LET job == find_job(table, main.pid, FALSE)
     IN  \/ /\ main.pid = ANY_PID \/ Waits(job)
            /\ queue_sigchld' = 1
            /\ main' = [main EXCEPT !.pc = "waitchld"]
            /\ UNCHANGED table
         \/ /\ main.pid # ANY_PID /\ ~ Waits(job)
            /\ Return(IF job = NO_JOB THEN NotFound ELSE LastProc(table, job).status)
            /\ table' = IF job = NO_JOB THEN table ELSE Cleaned(Notified(table))
            /\ UNCHANGED queue_sigchld
  /\ UNCHANGED <<children, pending, sigchld, signals, lost, steady>>

\* Back in wait_for with queue_sigchld at 0; it has waited for one if for any.
Resume ==
  /\ queue_sigchld' = 0
  /\ main' = [main EXCEPT !.reaped = FALSE,
                          !.pc = IF main.pid = ANY_PID THEN "returned" ELSE "wait_for"]

\* waitpid has returned a process; with signals counted there is another call.
ReapOne(z) ==
  /\ Is("waitchld") /\ children[z].state = "zombie"
  /\ children' = Collected({z})
  /\ table' = Recorded(table, z, children[z].fork)
  /\ sigchld' = Less(sigchld, 1)
  /\ IF sigchld' > 0 THEN main' = [main EXCEPT !.reaped = TRUE] /\ UNCHANGED queue_sigchld
                     ELSE Resume
  /\ UNCHANGED <<pending, signals, lost, steady>>

\* waitpid did not block and found nothing that has ended.
ReapNone ==
  /\ Is("waitchld") /\ sigchld > 0
  /\ In("zombie") = {} /\ In("running") # {}
  /\ sigchld' = sigchld - 1
  /\ Resume
  /\ UNCHANGED <<children, pending, table, signals, lost, steady>>

\* The process wait_for was called for is not a child, though it is marked running.
NotAChild(t, pid) ==
  LET job == find_job(t, pid, FALSE)
  IN  Put(t, job, [Job(t, job) EXCEPT !.pipe = Ended(@, 1, 0), !.state = "JDEAD"])

\* ECHILD.
NoChildren ==
  /\ Is("waitchld") /\ In("zombie") \union In("running") = {}
  /\ sigchld' = Less(sigchld, 1)
  /\ \/ main.reaped /\ Resume /\ UNCHANGED table
     \/ /\ ~ main.reaped
        /\ IF InBuiltin THEN queue_sigchld' = 0 /\ Return(-1) /\ UNCHANGED table
                        ELSE Resume /\ table' = NotAChild(table, main.pid)
  /\ UNCHANGED <<children, pending, signals, lost, steady>>

\* A trapped signal, before waitpid or during it, or after it has returned z.
InterruptWaitchld ==
  /\ Is("waitchld") /\ Interrupted
  /\ \/ UNCHANGED <<children, sigchld, lost>>
     \/ \E z \in In("zombie") :
          /\ children' = Collected({z})
          /\ lost' = lost \union {children[z].fork}
          /\ sigchld' = Less(sigchld, 1)
  /\ UNCHANGED <<pending, table, queue_sigchld, steady>>

-----------------------------------------------------------------------------
(* The wait builtin. *)

ignorant == <<children, pending, signals, lost, steady>>

\* `wait pid': a process without a job may have its status saved.
wait_for_single_pid(p) ==
  /\ Is("idle") /\ children[p].fork # 0
  /\ main' = IF find_job(table, p, FALSE) # NO_JOB THEN At("called", "wait_for_single_pid", p)
             ELSE [At("returned", "wait_for_single_pid", p) EXCEPT
                     !.result = IF bgp_search(table, p) < 0 THEN NotFound ELSE bgp_search(table, p)]
  /\ UNCHANGED <<table, signalling, ignorant>>

\* What has been waited for may be removed.
MarkWaited(t, pid) ==
  LET job == find_job(t, pid, FALSE)
  IN  IF job # NO_JOB /\ Dead(t, job) THEN Marked(t, {job}) ELSE t

Returned ==
  /\ Is("returned") /\ main.caller \in {"foreground", "wait_for_single_pid"}
  /\ main' = Idle
  /\ table' = IF InBuiltin THEN MarkWaited(table, main.pid) ELSE table
  /\ UNCHANGED <<signalling, ignorant>>

\* `wait': one running background job after the other, each by its last process.
wait_for_background_pids ==
  /\ Is("idle")
  /\ main' = At("next job", "wait_for_background_pids", 0)
  /\ UNCHANGED <<table, signalling, ignorant>>

\* Mutant: a job runs as long as its last process.
BackgroundByLast(t) == {i \in Slots(t) : /\ Running(t, i) /\ ~ Job(t, i).foreground
                                         /\ LastProc(t, i).running}

Background(t) == {i \in Slots(t) : Running(t, i) /\ ~ Job(t, i).foreground}

NextJob ==
  /\ Is("next job") /\ Background(table) # {}
  /\ main' = [main EXCEPT !.pc = "called", !.pid = LastProc(table, Min(Background(table))).pid]
  /\ UNCHANGED <<table, signalling, ignorant>>

\* Mutant: jobs without children stay running.
JobWaitedKeepsJobs ==
  /\ Is("returned") /\ main.caller = "wait_for_background_pids"
  /\ main' = At("next job", main.caller, 0)
  /\ table' = MarkWaited(table, main.pid)
  /\ UNCHANGED <<signalling, ignorant>>

JobWaited ==
  /\ Is("returned") /\ main.caller = "wait_for_background_pids"
  /\ main' = At("next job", main.caller, 0)
  /\ table' = LET marked == MarkWaited(table, main.pid)
              IN  IF main.result = -1 THEN mark_all_jobs_as_dead(marked) ELSE marked
  /\ UNCHANGED <<signalling, ignorant>>

\* cleanup_dead_jobs where SIGCHLD may come: QUEUE_SIGCHLD and the deletions.
StartCleanup(t, caller) ==
  /\ table' = Cleaned(t)
  /\ queue_sigchld' = queue_sigchld + 1
  /\ main' = [At("cleanup", caller, 0) EXCEPT !.os = sigchld]
  /\ UNCHANGED <<sigchld, ignorant>>

NoMoreJobs ==
  /\ Is("next job") /\ Background(table) = {}
  /\ StartCleanup(mark_dead_jobs_as_notified(table, TRUE, last_asynchronous_pid), main.caller)

\* UNQUEUE_SIGCHLD: the signals that came meanwhile are made up for, if no one else
\* queues them.  The builtin then forgets all saved statuses (bgp_clear).
Forgotten(t) == IF InBuiltin THEN [t EXCEPT !.bgpids = <<>>] ELSE t

EndCleanup ==
  /\ Is("cleanup")
  /\ queue_sigchld' = queue_sigchld - 1
  /\ \/ /\ queue_sigchld' # 0 \/ main.os = sigchld
        /\ main' = Idle
        /\ table' = Forgotten(table)
        /\ UNCHANGED <<children, sigchld, signals, lost>>
     \/ /\ queue_sigchld' = 0 /\ main.os # sigchld
        /\ main' = Idle
        /\ children' = Collected(In("zombie"))
        /\ table' = Forgotten(AllRecorded(table, In("zombie")))
        /\ sigchld' = Less(sigchld, Cardinality(In("zombie")) + 1)
        /\ UNCHANGED <<signals, lost>>
     \/ /\ queue_sigchld' = 0 /\ main.os # sigchld
        /\ ReapSome(sigchld) /\ Interrupted
  /\ UNCHANGED <<pending, steady>>

\* `wait -n': a dead job nobody was told of is reported at once.
ReportJob(job) ==
  /\ table' = delete_job(Notified(table), job, TRUE)
  /\ main' = [At("returned", "wait_for_any_job", 0) EXCEPT !.result = LastProc(table, job).status]

Unnotified(t) == {i \in Slots(t) : Dead(t, i) /\ ~ Job(t, i).notified}

wait_for_any_job ==
  /\ Is("idle")
  /\ \/ Unnotified(table) # {} /\ ReportJob(Min(Unnotified(table)))
     \/ /\ Unnotified(table) = {}
        /\ main' = At("any job", "wait_for_any_job", 0) /\ UNCHANGED table
  /\ UNCHANGED <<signalling, ignorant>>

\* SIGCHLD was unblocked since the last scan of the table.
AnyJob ==
  /\ Is("any job")
  /\ main' = IF Background(table) # {} THEN At("called", main.caller, ANY_PID)
             ELSE [At("returned", main.caller, 0) EXCEPT !.result = -1]
  /\ UNCHANGED <<table, signalling, ignorant>>

\* After wait_for any process: the first dead job, told of or not.
AnyWaited ==
  /\ Is("returned") /\ main.caller = "wait_for_any_job" /\ main.pid = ANY_PID
  /\ LET t == IF main.result = -1 THEN mark_all_jobs_as_dead(table) ELSE table
         dead == {i \in Slots(t) : Dead(t, i)}
     IN  \/ /\ dead # {}
            /\ table' = delete_job(Notified(t), Min(dead), TRUE)
            /\ main' = [At("returned", main.caller, 0) EXCEPT !.result = LastProc(t, Min(dead)).status]
         \/ /\ dead = {}
            /\ table' = t /\ main' = At("any job", main.caller, 0)
  /\ UNCHANGED <<signalling, ignorant>>

AnyReturned ==
  /\ Is("returned") /\ main.caller = "wait_for_any_job" /\ main.pid = 0
  /\ main' = Idle
  /\ UNCHANGED <<table, signalling, ignorant>>

-----------------------------------------------------------------------------
(* Between commands: a line is read, an iteration of a loop begins. *)

\* notify_and_cleanup: notify_of_job_status queues SIGCHLD, and does not make up
\* for what has come before cleanup_dead_jobs queues it again.
Notify ==
  /\ Is("idle")
  /\ table.slots # 0
  /\ table' = Notified(table)
  /\ queue_sigchld' = queue_sigchld + 1
  /\ main' = At("notify", "none", 0)
  /\ UNCHANGED <<sigchld, ignorant>>

EndNotify ==
  /\ Is("notify")
  /\ table' = Cleaned(table)
  /\ main' = [At("cleanup", "none", 0) EXCEPT !.os = sigchld]
  /\ UNCHANGED <<signalling, ignorant>>

reap_dead_jobs ==
  /\ Is("idle")
  /\ table.slots # 0
  /\ StartCleanup(mark_dead_jobs_as_notified(table, FALSE, last_asynchronous_pid), "none")

-----------------------------------------------------------------------------

Commands ==
  \/ \E p \in Pids : SimpleCommand(p) \/ Pipeline(p) \/ wait_for_single_pid(p)
  \/ wait_for_background_pids \/ wait_for_any_job \/ Notify \/ reap_dead_jobs

\* The steps that carry a command on.
Steps ==
  \/ StopSimple \/ StopPipeline \/ Enter \/ WaitFor \/ ReapNone \/ NoChildren
  \/ \E p \in Pids : PipelineNext(p) \/ ReapOne(p)
  \/ Returned \/ NextJob \/ JobWaited \/ NoMoreJobs \/ EndCleanup
  \/ AnyJob \/ AnyWaited \/ AnyReturned \/ EndNotify

Next == Commands \/ Steps \/ Sigchld_handler \/ InterruptWaitchld \/ \E p \in Pids : Exit(p)

Spec == Init /\ [][Next]_vars

\* The shell can go on: it is not at rest in a waitpid that blocks.
Ready == /\ ~ Is("idle")
         /\ Is("waitchld") => sigchld > 0 \/ In("running") = {} \/ In("zombie") # {}

\* Processes end, and the shell goes on when it can: weak fairness of Steps, with Ready
\* for ENABLED <<Steps>>_vars, which costs TLC too much.
Fairness ==
  /\ []<>(~ Ready) \/ []<><<Steps>>_vars
  /\ \A p \in Pids : WF_vars(Exit(p))

FairSpec == Spec /\ Fairness

-----------------------------------------------------------------------------

Processes == [pid : Pids \union {0}, fork : 1..MaxForks, status : 0..MaxForks, running : BOOLEAN]

JobType(job) ==
  /\ job.pipe \in Seq(Processes)
  /\ job.state \in {"JNONE", "JRUNNING", "JDEAD"}
  /\ job.foreground \in BOOLEAN /\ job.notified \in BOOLEAN

\* Types; the places of js are slots of the table, and no more statuses are saved
\* than the shell may keep.
TypeOK ==
  /\ children \in [Pids -> [state : {"none", "running", "zombie"}, fork : 0..MaxForks,
                            kind : {"foreground", "background", "$!"}]]
  /\ pending \in BOOLEAN
  /\ Len(table.jobs) = table.slots
  /\ \A i \in Slots(table) : JobType(Job(table, i))
  /\ \A k \in DOMAIN table.bgpids : table.bgpids[k].pid \in Pids \union {0}
  /\ Len(table.bgpids) <= ChildMax
  /\ table.slots > 0 => {table.firstj, table.lastj} \subseteq Slots(table)
  /\ last_asynchronous_pid \in Pids \union {0}
  /\ sigchld \in Nat /\ queue_sigchld \in 0..2
  /\ main.pid \in Pids \union {0, ANY_PID}
  /\ main.result \in {-1, NotFound} \union 0..MaxForks
  /\ lost \subseteq 1..MaxForks

\* js (jobs.c:792-830, 1047-1058): every job lies between firstj and lastj, which hold
\* jobs when there are any, and njobs counts them - whatever is deleted in whatever
\* order, and after the list is compacted.  A new job is put beyond lastj, and a
\* list with room for njobs is allocated: a job outside would be overwritten.
TableSound ==
  LET occupied == {i \in Slots(table) : IsJob(table, i)}
  IN  /\ TypeOK
      /\ table.njobs = Cardinality(occupied)
      /\ occupied # {} => table.firstj = Min(occupied) /\ table.lastj = Max(occupied)

\* Every process marked running is a child the kernel has, under its number; what is
\* recorded of any other is its own status; and a job is dead when none of its
\* processes runs.  Except for processes that were lost.
ChildOf(p) == p.pid # 0 /\ children[p.pid].fork = p.fork /\ children[p.pid].state # "none"

StatesAgree ==
  \A i \in Slots(table) :
    LET pipe == Job(table, i).pipe
        sure == {k \in DOMAIN pipe : pipe[k].fork \notin lost}
    IN  /\ \A k \in sure : pipe[k].running => ChildOf(pipe[k])
        /\ sure = DOMAIN pipe => \A k \in sure : ~ pipe[k].running => pipe[k].status = pipe[k].fork
        /\ Dead(table, i) => \A k \in sure : ~ pipe[k].running
        /\ Running(table, i) => \E k \in DOMAIN pipe : pipe[k].running

\* wait_for does not lose what it waits for (jobs.c:2459-2535): the job stays in the
\* table while SIGCHLD is blocked, and as long as it is marked running there is a child
\* for waitpid to return - whatever the handler has collected before, between the fork
\* and stop_pipeline or between the scan of the table and the wait.
WaitedForExists ==
  /\ Is("wait_for") /\ main.pid # ANY_PID => find_job(table, main.pid, FALSE) # NO_JOB
  /\ Is("waitchld") /\ main.pid # ANY_PID /\ ~ main.reaped /\ lost = {}
       => In("zombie") \union In("running") # {}

\* What the shell believes of its children is true whenever it acts on it.
ChildrenKnown == StatesAgree /\ WaitedForExists

\* `wait pid' of the number $! gave (jobs.c:2125-2168): the status is that of the last
\* process of that number and never of an earlier one, whose traces make_child removes
\* from the table and from the saved statuses; or that the shell has forgotten it.
\* A process collected by a waitpid that a trapped signal overtook has ended with 0, or
\* is no child.
WaitReturnsStatus ==
  LET fork == children[main.pid].fork
  IN  Is("returned") /\ main.caller = "wait_for_single_pid" /\ children[main.pid].kind = "$!"
        => \/ main.result \in {fork, NotFound}
           \/ main.result = 0 /\ fork \in lost
           \/ main.result = -1 /\ lost # {}

\* `wait' (jobs.c:2171-2225) returns when all processes of background jobs are gone,
\* those that are not the last of their pipeline and those made by a job that ended
\* while another was waited for.
WaitGathersAll ==
  Is("cleanup") /\ InBuiltin
    => \A p \in Pids : children[p].kind # "foreground" => children[p].state = "none"

\* `wait', with and without a number, has done what it says when it returns.
WaitReports == WaitReturnsStatus /\ WaitGathersAll

\* What wait_for_single_pid would return without waiting, or -1.
Known(t, pid) ==
  LET job == find_job(t, pid, FALSE)
  IN  IF job = NO_JOB THEN bgp_search(t, pid)
      ELSE IF Dead(t, job) THEN LastProc(t, job).status ELSE -1

Reused(pids) == \E p \in pids : children'[p].fork # children[p].fork

Together(t, pid) ==
  LET job == find_job(t, pid, FALSE)
  IN  IF job = NO_JOB THEN {pid}
      ELSE {Job(t, job).pipe[k].pid : k \in DOMAIN Job(t, job).pipe} \ {0}

\* The status of a process of `$!' that has ended stays known through removal of its job,
\* compaction and growth of the table (POSIX.2, jobs.c:3660-3664), until as many others
\* as the shell may keep have been saved, `wait' has returned, or the number of the
\* process is given out again - or that of another process of its job, with which
\* delete_old_job removes the whole job. (Of a pipeline delete_job saves the status of the
\* last process only: no other has a number that `$!' gave.)
StatusKept ==
  [][\A p \in Pids :
       Known(table, p) # -1 /\ children[p].kind = "$!"
         => \/ Known(table', p) = Known(table, p)
            \/ Len(table'.bgpids) = ChildMax /\ find_job(table', p, FALSE) = NO_JOB
            \/ Is("cleanup") /\ InBuiltin
            \/ Reused(Together(table, p))]_vars

\* No wait is forever, with whatever the handler collects, leaves or counts: the shell
\* comes back to the next command if the processes end.
WaitsReturn == ~ Is("idle") ~> Is("idle")

\* "Returns the exit status of the next exiting job, -1 if there are no background jobs"
\* (jobs.c:2717): `wait -n' finds nothing to wait for (-1) only when there is no
\* background job whose end it has not reported.
WaitAnyFindsJob ==
  Is("returned") /\ main.caller = "wait_for_any_job" /\ main.pid = 0 /\ main.result = -1
    => Unnotified(table) = {}
=============================================================================
