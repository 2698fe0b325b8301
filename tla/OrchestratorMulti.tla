-------------------------- MODULE OrchestratorMulti --------------------------
(***************************************************************************)
(* The multi-process run loop of BackupOrchestrator (backup/orchestrator.h,*)
(* src/unnamed/part_000): run_multi_process, fork_worker, reap_children,  *)
(* the worker semaphore of ipc.h, and the forked children that run         *)
(* BackupWorker::execute (backup/worker.h) against their own database      *)
(* handle.  The scheduler it drives is the JobScheduler module.            *)
(*                                                                         *)
(* Between runs (opc = "idle") the caller submits jobs and may add         *)
(* dependencies; run_multi_process blocks the calling thread, so nothing   *)
(* is submitted while a run is in progress.  One iteration of the parent's *)
(* loop is: reap every exited child one at a time ("reap"), drain the      *)
(* message pipe ("drain"), and fetch the ready jobs ("dispatch").  The     *)
(* parent's iteration touches only jobs that no live child owns, so the    *)
(* dispatch step, fork loop included, is one atomic action.  A child is a  *)
(* separate process: its steps interleave freely with the parent's.        *)
(* The worker's chunking of files is the ChunkStore module; here a worker  *)
(* backs up one file and succeeds or fails.                                *)
(*                                                                         *)
(* The children report to the parent through MessageQueue (ipc.h), one    *)
(* pipe created by initialize() and inherited across fork.  An IPCMessage  *)
(* is 296 bytes, below PIPE_BUF, so each write is atomic, and a write to a *)
(* full pipe blocks the child until the parent reads.  A message is its   *)
(* type and job id; the progress counters are left out.                   *)
(***************************************************************************)
EXTENDS Naturals, FiniteSets, Sequences

CONSTANTS
    Jobs, Priority,
    MaxWorkers,   \* MAX_WORKER_PROCESSES (4 in common/types.h)
    DepsOf,       \* DepsOf[j]: the dependencies job j is submitted with
    LateDeps,     \* pairs <<j, d>> the caller may add_dependency between runs
    MayFail,      \* jobs whose worker may fail (snapshot or database open)
    ForkMayFail,  \* jobs whose fork() may fail (EAGAIN, ENOMEM)
    PipeCap       \* IPCMessages the pipe buffer holds (65536 / 296 = 221)

ASSUME MaxWorkers \in Nat \ {0}
ASSUME DepsOf \in [Jobs -> SUBSET Jobs] /\ LateDeps \subseteq Jobs \X Jobs
ASSUME MayFail \subseteq Jobs /\ ForkMayFail \subseteq Jobs
ASSUME PipeCap \in Nat \ {0}

VARIABLES status, dbDeps, nodes, edges, inProgress, pq,
    opc,      \* where the parent is: "idle" (not in a run), "reap", "dispatch"
    active,   \* jobs of active_workers_ (the map pid -> WorkerInfo)
    sem,      \* value of the named semaphore ecpb_worker_sem
    child,    \* child[j]: where the worker process of job j is (ChildStates)
    pipe      \* msg_queue_: the IPCMessages written and not yet read, oldest first

S == INSTANCE JobScheduler

vars == <<status, dbDeps, nodes, edges, inProgress, pq, opc, active, sem, child, pipe>>
orchVars == <<opc, active, sem, child, pipe>>

\* The sends of BackupWorker::execute (send_progress): the child at pc p
\* writes an IPCMessage of type Sends[p].type and goes on to Sends[p].next.
Sends ==
    [sendStart    |-> [type |-> "JOB_START",    next |-> "working"],
     sendProgress |-> [type |-> "JOB_PROGRESS", next |-> "stored"],
     sendFailed   |-> [type |-> "JOB_FAILED",   next |-> "exit1"],
     sendComplete |-> [type |-> "JOB_COMPLETE", next |-> "exit0"]]

ChildStates ==
    {"none", "forked", "working", "stored", "exit0", "exit1", "reaped"} \cup DOMAIN Sends

MsgTypes == {Sends[p].type : p \in DOMAIN Sends}

\* db_.get_jobs_by_status(PENDING): every PENDING row, in the DAG or not.
PendingJobs == {j \in Jobs : status[j] = "PENDING"}

-----------------------------------------------------------------------------
(* The parent.                                                             *)

Init ==
    /\ S!SchedInit
    /\ opc = "idle"
    /\ active = {}
    /\ sem = MaxWorkers     \* initialize(): worker_sem_.create(.., MAX)
    /\ child = [j \in Jobs |-> "none"]
    /\ pipe = <<>>          \* initialize(): msg_queue_.create, an empty pipe

\* BackupOrchestrator::submit_job between runs.
Submit ==
    /\ opc = "idle"
    /\ \E j \in Jobs : ~S!Exists(j)
    /\ S!SubmitJob(DepsOf[S!NextJobId])
    /\ UNCHANGED orchVars

\* BackupOrchestrator::add_dependency between runs.
AddDependency(j, d) ==
    /\ opc = "idle"
    /\ <<j, d>> \in LateDeps
    /\ S!AddDependency(j, d)
    /\ UNCHANGED orchVars

\* run_multi_process() is called.
StartRun ==
    /\ opc = "idle"
    /\ opc' = "reap"
    /\ UNCHANGED <<status, dbDeps, nodes, edges, inProgress, pq, active, sem, child, pipe>>

\* NamedSemaphore::try_wait: sem_trywait succeeds when the value is
\* positive, and then takes one.
SemTryWait(sm) == sm > 0
SemTaken(sm) == sm - 1

\* NamedSemaphore::post.
SemPost(sm) == sm + 1

\* Mutant of ReapOne: the exit status is not looked at.
ReapOneAnyExit(j) ==
    /\ opc = "reap"
    /\ child[j] \in {"exit0", "exit1"}
    /\ S!MarkCompleted(j)
    /\ active' = active \ {j}
    /\ sem' = sem + 1
    /\ child' = [child EXCEPT ![j] = "reaped"]
    /\ UNCHANGED <<opc, pipe>>

\* One pid returned by waitpid(-1, .., WNOHANG) in reap_children: exit code
\* 0 is mark_completed, anything else mark_failed; then the entry is erased
\* and the semaphore posted.
ReapOne(j) ==
    /\ opc = "reap"
    /\ child[j] \in {"exit0", "exit1"}
    /\ IF child[j] = "exit0" THEN S!MarkCompleted(j) ELSE S!MarkFailed(j)
    /\ active' = active \ {j}
    /\ sem' = SemPost(sem)
    /\ child' = [child EXCEPT ![j] = "reaped"]
    /\ UNCHANGED <<opc, pipe>>

\* waitpid returns 0: no exited child is left.
ReapDone ==
    /\ opc = "reap"
    /\ \A j \in Jobs : child[j] \notin {"exit0", "exit1"}
    /\ opc' = "drain"
    /\ UNCHANGED <<status, dbDeps, nodes, edges, inProgress, pq, active, sem, child, pipe>>

\* Mutant of ProcessMessages: one receive instead of a loop.
ProcessMessagesOnce ==
    /\ opc = "drain"
    /\ pipe' = IF pipe = <<>> THEN pipe ELSE Tail(pipe)
    /\ opc' = "dispatch"
    /\ UNCHANGED <<status, dbDeps, nodes, edges, inProgress, pq, active, sem, child>>

\* process_messages: MessageQueue::receive with a zero timeout until select
\* finds nothing; each message is only logged.  Messages a child writes
\* while the loop runs are read by it or stay for the next iteration, so
\* reading what the pipe holds in one step covers both.
ProcessMessages ==
    /\ opc = "drain"
    /\ pipe' = <<>>
    /\ opc' = "dispatch"
    /\ UNCHANGED <<status, dbDeps, nodes, edges, inProgress, pq, active, sem, child>>

\* Mutant of ForkLoop: a failed fork() does not post the semaphore back.
RECURSIVE ForkLoopLeak(_, _, _, _, _)
ForkLoopLeak(s, F, act, sm, tried) ==
    IF s = <<>> \/ Cardinality(act) >= MaxWorkers \/ sm = 0
    THEN [active |-> act, sem |-> sm, tried |-> tried]
    ELSE IF Head(s) \in F
         THEN ForkLoopLeak(Tail(s), F, act, sm - 1, tried \cup {Head(s)})
         ELSE ForkLoopLeak(Tail(s), F, act \cup {Head(s)}, sm - 1, tried \cup {Head(s)})

\* The for loop over the sorted ready jobs s: stop at MAX_WORKER_PROCESSES
\* active workers or when sem_trywait fails; otherwise fork_worker, which
\* sets the job RUNNING, forks, and on a failed fork (jobs of F) posts the
\* semaphore back.  `tried` are the jobs fork_worker was called for.
RECURSIVE ForkLoop(_, _, _, _, _)
ForkLoop(s, F, act, sm, tried) ==
    IF s = <<>> \/ Cardinality(act) >= MaxWorkers \/ ~SemTryWait(sm)
    THEN [active |-> act, sem |-> sm, tried |-> tried]
    ELSE IF Head(s) \in F
         THEN ForkLoop(Tail(s), F, act, SemPost(SemTaken(sm)), tried \cup {Head(s)})
         ELSE ForkLoop(Tail(s), F, act \cup {Head(s)}, SemTaken(sm), tried \cup {Head(s)})

\* Mutant of RunDone: leave as soon as nothing is PENDING, without waiting
\* for active_workers_ to empty.
RunDoneNoWait == PendingJobs = {}

\* The loop's exit test when no job is ready.
RunDone == PendingJobs = {} /\ active = {}

\* The rest of one loop iteration: get_ready_jobs (which marks every ready
\* job in progress); with none ready, leave the loop if nothing is PENDING
\* and no worker is active, else sleep and go round; otherwise the fork
\* loop.  Ready jobs the fork loop stops before stay in in_progress_.
Dispatch ==
    /\ opc = "dispatch"
    /\ inProgress' = inProgress \cup S!ReadySet
    /\ UNCHANGED <<dbDeps, nodes, edges, pq>>
    /\ IF S!ReadySet = {}
          THEN /\ opc' = IF RunDone THEN "idle" ELSE "reap"
               /\ UNCHANGED <<status, active, sem, child, pipe>>
          ELSE \E s \in S!SortedReady(S!ReadySet), F \in SUBSET (S!ReadySet \cap ForkMayFail) :
               LET r == ForkLoop(s, F, active, sem, {}) IN
               /\ status' = [k \in Jobs |-> IF k \in r.tried THEN "RUNNING" ELSE status[k]]
               /\ active' = r.active
               /\ sem' = r.sem
               /\ child' = [k \in Jobs |-> IF k \in r.active \ active THEN "forked" ELSE child[k]]
               /\ opc' = "reap"
               /\ UNCHANGED pipe

-----------------------------------------------------------------------------
(* A forked child.                                                         *)

\* The child opens its own Database (exit 1 if that fails), then
\* BackupWorker::execute sets the job RUNNING and reports JOB_START.
ChildStart(j) ==
    /\ child[j] = "forked"
    /\ \/ /\ j \in MayFail
          /\ child' = [child EXCEPT ![j] = "exit1"]
          /\ UNCHANGED status
       \/ /\ status' = S!SetStatus(status, j, "RUNNING")
          /\ child' = [child EXCEPT ![j] = "sendStart"]
    /\ UNCHANGED <<dbDeps, nodes, edges, inProgress, pq, opc, active, sem, pipe>>

\* create_snapshot, then the file: an inconsistent snapshot sets FAILED
\* and reports JOB_FAILED; otherwise store_file, and JOB_PROGRESS.
ChildWork(j) ==
    /\ child[j] = "working"
    /\ \/ /\ j \in MayFail
          /\ status' = S!SetStatus(status, j, "FAILED")
          /\ child' = [child EXCEPT ![j] = "sendFailed"]
       \/ /\ child' = [child EXCEPT ![j] = "sendProgress"]
          /\ UNCHANGED status
    /\ UNCHANGED <<dbDeps, nodes, edges, inProgress, pq, opc, active, sem, pipe>>

\* The end of execute: the key row and the stats, COMPLETED, JOB_COMPLETE.
ChildFinish(j) ==
    /\ child[j] = "stored"
    /\ status' = S!SetStatus(status, j, "COMPLETED")
    /\ child' = [child EXCEPT ![j] = "sendComplete"]
    /\ UNCHANGED <<dbDeps, nodes, edges, inProgress, pq, opc, active, sem, pipe>>

\* send_progress: MessageQueue::send writes one IPCMessage, blocking while
\* the pipe is full.  After JOB_FAILED or JOB_COMPLETE the child closes its
\* database and _exits with 1 or 0.
ChildSend(j) ==
    /\ child[j] \in DOMAIN Sends
    /\ Len(pipe) < PipeCap
    /\ pipe' = Append(pipe, [type |-> Sends[child[j]].type, job |-> j])
    /\ child' = [child EXCEPT ![j] = Sends[child[j]].next]
    /\ UNCHANGED <<status, dbDeps, nodes, edges, inProgress, pq, opc, active, sem>>

-----------------------------------------------------------------------------

ParentStep == (\E j \in Jobs : ReapOne(j)) \/ ReapDone \/ ProcessMessages \/ Dispatch

ChildStep(j) == ChildStart(j) \/ ChildWork(j) \/ ChildFinish(j) \/ ChildSend(j)

Next ==
    \/ Submit
    \/ \E j, d \in Jobs : AddDependency(j, d)
    \/ StartRun
    \/ ParentStep
    \/ \E j \in Jobs : ChildStep(j)

\* The parent loop never blocks (it sleeps 100 ms and goes round) and every
\* child is a process the kernel keeps scheduling, and wakes from a blocked
\* write once the pipe has room: both are weakly fair.
\* The caller (submit, add_dependency, starting a run) is not.
Fairness ==
    /\ WF_vars(ParentStep)
    /\ \A j \in Jobs : WF_vars(ChildStep(j))

Spec == Init /\ [][Next]_vars /\ Fairness

-----------------------------------------------------------------------------
(* Properties.                                                             *)

TypeOK ==
    /\ S!SchedTypeOK
    /\ opc \in {"idle", "reap", "drain", "dispatch"}
    /\ active \subseteq Jobs
    /\ sem \in 0..MaxWorkers
    /\ child \in [Jobs -> ChildStates]
    /\ pipe \in Seq([type : MsgTypes, job : Jobs]) /\ Len(pipe) <= PipeCap

\* Spec invariant 3.6 / property 8.5: whatever dependencies jobs are
\* submitted with and added later, the scheduler's DAG never has a cycle.
\* Checked with the Graphs module's IsDag, not with has_path.
DagAcyclic == S!DagAcyclic

\* The semaphore and the active_workers_ map are two counts of the same
\* thing: every successful sem_trywait is matched by exactly one live
\* entry, and every path that drops an entry or abandons a fork posts.
\* A leak on the failed-fork path would silently shrink the pool.
SemaphoreAccounting == sem + Cardinality(active) = MaxWorkers

\* A job is first set RUNNING (fork_worker) only when every dependency the
\* metadata store records for it has COMPLETED: a job never runs after a
\* prerequisite failed, was cancelled, or is still running.
PrereqCompletedBeforeStart ==
    [][\A j \in Jobs :
         (status[j] = "PENDING" /\ status'[j] = "RUNNING")
            => \A r \in dbDeps : r[1] = j => status[r[2]] = "COMPLETED"]_vars

\* When run_multi_process returns, every report its workers wrote has been
\* read: reap_children runs before process_messages in each iteration and
\* the loop leaves only with no worker alive, so the last worker's
\* JOB_COMPLETE is not left in the pipe to be logged by the next run.
PipeDrainedOnReturn == opc = "idle" => pipe = <<>>

\* Every forked worker is eventually reaped: the loop does not return, and
\* does not stop reaping, while a child it forked is still alive.
WorkersReaped == \A j \in Jobs : child[j] = "forked" ~> child[j] = "reaped"

\* Testable property 8 / spec 4.6: the run loop "terminates when no job is
\* PENDING and no worker is active" -- every run_multi_process returns.
RunTerminates == opc # "idle" ~> opc = "idle"

\* Spec 3 (lifecycle): a job that is RUNNING goes on to COMPLETED, or to
\* FAILED on a worker error -- whichever way its worker ends.
RunningJobEnds ==
    \A j \in Jobs : status[j] = "RUNNING" ~> status[j] \in {"COMPLETED", "FAILED"}

\* Spec 5 (cancellation): "A job CANCELLED by scheduler-cascading is one
\* that never ran" -- mark_failed turns only PENDING dependents CANCELLED,
\* never a job that is RUNNING or has COMPLETED or FAILED.
CancelledNeverRan ==
    [][\A j \in Jobs :
         (status'[j] = "CANCELLED" /\ status[j] # "CANCELLED") => status[j] = "PENDING"]_vars

\* Spec 4.4 (failure): the cancellation of a failed job's dependents
\* cascades further "as an emergent consequence", because a cancelled
\* job's node is taken out of the DAG too.  So during a run a PENDING job
\* with a CANCELLED prerequisite does not stay PENDING.
CancelCascades ==
    \A j \in Jobs :
        (opc # "idle" /\ status[j] = "PENDING"
            /\ \E r \in dbDeps : r[1] = j /\ status[r[2]] = "CANCELLED")
        ~> status[j] # "PENDING"

=============================================================================
