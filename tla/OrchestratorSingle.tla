------------------------- MODULE OrchestratorSingle -------------------------
(***************************************************************************)
(* The single-process run loop of BackupOrchestrator, run_single_threaded *)
(* (src/unnamed/part_000 lines 75-98), the one the terminal UI and the CLI *)
(* call after every submit_job.  Each ready job is executed inline by      *)
(* BackupWorker::execute (worker.h) and then passed to mark_completed,     *)
(* whatever the worker's result.                                           *)
(*                                                                         *)
(* The process may be killed at any point (Ctrl-C, kill, power loss).  The *)
(* metadata store (status, dbDeps) survives; the scheduler's heap, DAG and *)
(* in_progress_ set are in memory and start empty in the next process:    *)
(* nothing reloads PENDING or RUNNING jobs from the store.                 *)
(***************************************************************************)
EXTENDS Naturals, FiniteSets, Sequences

CONSTANTS
    Jobs, Priority,
    DepsOf,      \* DepsOf[j]: the dependencies job j is submitted with
    LateDeps,    \* pairs <<j, d>> the caller may add_dependency between runs
    MayFail,     \* jobs whose worker may fail (inconsistent snapshot)
    MaxCrashes   \* bound on process crashes

ASSUME DepsOf \in [Jobs -> SUBSET Jobs] /\ LateDeps \subseteq Jobs \X Jobs
ASSUME MayFail \subseteq Jobs /\ MaxCrashes \in Nat

VARIABLES status, dbDeps, nodes, edges, inProgress, pq,
    opc,      \* "idle" (no run), "loop" (top of the while), "exec" (in the for),
              \* "work" (inside BackupWorker::execute)
    batch,    \* the ready vector the for loop has still to go through
    crashes   \* crashes so far

S == INSTANCE JobScheduler

vars == <<status, dbDeps, nodes, edges, inProgress, pq, opc, batch, crashes>>

\* db_.get_jobs_by_status(PENDING).
PendingJobs == {j \in Jobs : status[j] = "PENDING"}

Init ==
    /\ S!SchedInit
    /\ opc = "idle"
    /\ batch = <<>>
    /\ crashes = 0

\* BackupOrchestrator::submit_job before a run.
Submit ==
    /\ opc = "idle"
    /\ \E j \in Jobs : ~S!Exists(j)
    /\ S!SubmitJob(DepsOf[S!NextJobId])
    /\ UNCHANGED <<opc, batch, crashes>>

\* BackupOrchestrator::add_dependency before a run.
AddDependency(j, d) ==
    /\ opc = "idle"
    /\ <<j, d>> \in LateDeps
    /\ S!AddDependency(j, d)
    /\ UNCHANGED <<opc, batch, crashes>>

\* run_single_threaded() is called.
StartRun ==
    /\ opc = "idle"
    /\ opc' = "loop"
    /\ UNCHANGED <<status, dbDeps, nodes, edges, inProgress, pq, batch, crashes>>

\* The top of the while loop: get_ready_jobs; with none ready, break when
\* nothing is PENDING, otherwise sleep 100 ms and go round.
Loop ==
    /\ opc = "loop"
    /\ S!GetReadyJobs
    /\ UNCHANGED crashes
    /\ IF S!ReadySet = {}
          THEN /\ opc' = IF PendingJobs = {} THEN "idle" ELSE "loop"
               /\ UNCHANGED batch
          ELSE \E s \in S!SortedReady(S!ReadySet) :
               /\ batch' = s
               /\ opc' = "exec"

\* execute_job_direct(Head(batch)) up to and including the RUNNING update.
ExecStart ==
    /\ opc = "exec"
    /\ status' = S!SetStatus(status, Head(batch), "RUNNING")
    /\ opc' = "work"
    /\ UNCHANGED <<dbDeps, nodes, edges, inProgress, pq, batch, crashes>>

\* The rest of BackupWorker::execute (FAILED on an inconsistent snapshot,
\* else COMPLETED), then scheduler_.mark_completed for either outcome.
ExecFinish ==
    LET j == Head(batch) IN
    /\ opc = "work"
    /\ \E v \in IF j \in MayFail THEN {"FAILED", "COMPLETED"} ELSE {"COMPLETED"} :
          status' = S!SetStatus(status, j, v)
    /\ S!Forget(j)
    /\ UNCHANGED dbDeps
    /\ batch' = Tail(batch)
    /\ opc' = IF Tail(batch) = <<>> THEN "loop" ELSE "exec"
    /\ UNCHANGED crashes

\* The process dies; the next one starts with an empty scheduler.
Crash ==
    /\ crashes < MaxCrashes
    /\ crashes' = crashes + 1
    /\ nodes' = {} /\ edges' = {} /\ inProgress' = {} /\ pq' = {}
    /\ opc' = "idle"
    /\ batch' = <<>>
    /\ UNCHANGED <<status, dbDeps>>

RunStep == Loop \/ ExecStart \/ ExecFinish

Next ==
    \/ Submit
    \/ \E j, d \in Jobs : AddDependency(j, d)
    \/ StartRun
    \/ RunStep
    \/ Crash

\* The run loop is one thread that never blocks: weakly fair.  Callers and
\* crashes are not.
Spec == Init /\ [][Next]_vars /\ WF_vars(RunStep)

-----------------------------------------------------------------------------
(* Properties.                                                             *)

PrereqCompletedBeforeStart ==
    [][\A j \in Jobs :
         (status[j] = "PENDING" /\ status'[j] = "RUNNING")
            => \A r \in dbDeps : r[1] = j => status[r[2]] = "COMPLETED"]_vars

\* Spec 4.6: the single-process loop "exits when PENDING is empty"; every
\* call of run_single_threaded (one per backup in the UI) returns.
RunTerminates == opc # "idle" ~> opc = "idle"

=============================================================================
