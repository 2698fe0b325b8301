---------------------------- MODULE JobScheduler ----------------------------
(***************************************************************************)
(* The job scheduler of the backup engine (scheduler/job_scheduler.h,     *)
(* src/unnamed/part_001 lines 1-145) together with the dependency DAG it  *)
(* owns (datastructures/dag.h, src/dag.h lines 1-144) and the rows of the *)
(* metadata store it reads and writes (the jobs and job_dependencies      *)
(* tables of storage/database.h, src/dag.h lines 145-897).                *)
(*                                                                         *)
(* Every public method of JobScheduler takes one mutex, so each is one    *)
(* atomic action here.  The DAG is the record [node, edge] of the Graphs  *)
(* community module: an edge <<p, d>> means "d depends on p" (the code's  *)
(* add_edge(depends_on, job_id)).  in_degree_ is not a variable: the code *)
(* keeps it equal to the number of edges into a node, so it is derived.  *)
(*                                                                         *)
(* Job ids are the AUTOINCREMENT row ids of the jobs table, handed out in *)
(* increasing order.  An id that no row has yet is in status "NONE".     *)
(***************************************************************************)
EXTENDS Naturals, FiniteSets, Sequences

CONSTANTS
    Jobs,       \* the job ids that can be assigned, 1..n
    Priority    \* Priority[j] \in 0..3: LOW, NORMAL, HIGH, URGENT

ASSUME Jobs = 1..Cardinality(Jobs) /\ Jobs # {}
ASSUME Priority \in [Jobs -> 0..3]

LOCAL Gr == INSTANCE Graphs
LOCAL SeqX == INSTANCE SequencesExt

VARIABLES
    status,     \* jobs.status column, "NONE" for an id with no row
    dbDeps,     \* job_dependencies rows <<job_id, depends_on>>
    nodes,      \* DAG<int>::adj_ keys (== in_degree_ keys)
    edges,      \* DAG<int>::adj_ as a set of <<from, to>> pairs
    inProgress, \* JobScheduler::in_progress_
    pq          \* job ids held by JobScheduler::pq_ (only its size is read)

schedVars == <<status, dbDeps, nodes, edges, inProgress, pq>>

Statuses == {"NONE", "PENDING", "RUNNING", "COMPLETED", "FAILED", "CANCELLED"}

-----------------------------------------------------------------------------
(* The DAG (dag.h).                                                        *)

\* DAG::in_degree_[n]: the number of edges into n.
InDegree(n) == Cardinality({e \in edges : e[2] = n})

\* DAG::get_dependents(n): the direct successors of n.
Dependents(n) == {e[2] : e \in {x \in edges : x[1] = n}}

\* The breadth-first search of DAG::has_path: `queue` is the frontier,
\* `visited` the nodes already popped.  Returns every node the search pops.
RECURSIVE Popped(_, _, _)
Popped(E, queue, visited) ==
    IF queue = {} THEN visited
    ELSE LET next == {e[2] : e \in {x \in E : x[1] \in queue}} \ (visited \cup queue)
         IN  Popped(E, next, visited \cup queue)

\* Mutant of HasPath: a search that only looks one edge ahead.
HasPathOneHop(E, from, to) == from = to \/ <<from, to>> \in E

\* DAG::has_path(from, to): `to` is popped by the search started at `from`.
HasPath(E, from, to) == to \in Popped(E, {from}, {})

\* DAG::add_edge(from, to): both endpoints become nodes whatever happens;
\* the edge is refused when it is a self loop or would close a cycle.
EdgeAccepted(E, from, to) == from # to /\ ~HasPath(E, to, from)

\* Mutant of RemoveNode: adj_[node] is not erased, the node's outgoing
\* edges stay behind.
RemoveNodeKeepOut(n) ==
    /\ nodes' = nodes \ {n}
    /\ edges' = {e \in edges : e[2] # n}

\* DAG::remove_node(n): the node and every edge touching it disappear.
RemoveNode(n) ==
    /\ nodes' = nodes \ {n}
    /\ edges' = {e \in edges : e[1] # n /\ e[2] # n}

-----------------------------------------------------------------------------
(* The metadata store (database.h).                                        *)

Exists(j) == status[j] # "NONE"

\* Database::update_job_status: an UPDATE ... WHERE job_id=?; no row, no change.
SetStatus(s, j, v) == IF s[j] # "NONE" THEN [s EXCEPT ![j] = v] ELSE s

\* Database::add_dependency: INSERT OR IGNORE with foreign_keys=ON, so a
\* row naming a job id that has no jobs row is refused (result ignored).
DbAddDependency(rows, j, d) ==
    IF Exists(j) /\ Exists(d) THEN rows \cup {<<j, d>>} ELSE rows

\* Database::create_job hands out the next AUTOINCREMENT id.
NextJobId == CHOOSE j \in Jobs : ~Exists(j) /\ \A k \in Jobs : ~Exists(k) => j <= k

-----------------------------------------------------------------------------
(* The scheduler (job_scheduler.h).                                        *)

\* add_dependency_internal(j, d) for every d of a set at once.  The edges
\* d -> j are all into j, so the order the vector is walked in does not
\* change which are refused.  Refused ones still leave d as a DAG node.
AddDependencies(j, D) ==
    LET ok == {d \in D : EdgeAccepted(edges, d, j)}
    IN  /\ nodes' = nodes \cup {j} \cup D
        /\ edges' = edges \cup {<<d, j>> : d \in ok}
        /\ dbDeps' = dbDeps \cup {<<j, d>> : d \in {x \in ok : Exists(x)}}

\* JobScheduler::submit_job(job) with job.dependencies = D: create_job,
\* push on the heap, add the DAG node, then register every dependency.
SubmitJob(D) ==
    /\ \E j \in Jobs : ~Exists(j)
    /\ LET j == NextJobId IN
       /\ status' = [status EXCEPT ![j] = "PENDING"]
       /\ pq' = pq \cup {j}
       /\ AddDependencies(j, D)
       /\ UNCHANGED inProgress

\* JobScheduler::add_dependency(j, d) called on its own.
AddDependency(j, d) ==
    /\ nodes' = nodes \cup {j, d}
    /\ IF EdgeAccepted(edges, d, j)
          THEN /\ edges' = edges \cup {<<d, j>>}
               /\ dbDeps' = DbAddDependency(dbDeps, j, d)
          ELSE UNCHANGED <<edges, dbDeps>>
    /\ UNCHANGED <<status, inProgress, pq>>

ReadySetNoDeg == {n \in nodes : status[n] = "PENDING" /\ n \notin inProgress}

\* The set get_ready_jobs collects: DAG nodes of in-degree 0 whose row is
\* PENDING and that are not in in_progress_.
ReadySet == {n \in nodes : InDegree(n) = 0 /\ status[n] = "PENDING" /\ n \notin inProgress}

\* The orders the std::sort of get_ready_jobs can return R in: priority
\* descending; equal priorities by created_at, which is a millisecond
\* clock, so jobs created in the same millisecond may come in either order.
SortedReady(R) ==
    {s \in SeqX!SetToSeqs(R) :
        \A a, b \in 1..Len(s) : a < b => Priority[s[a]] >= Priority[s[b]]}

\* JobScheduler::get_ready_jobs: returns ReadySet and marks it in progress.
GetReadyJobs ==
    /\ inProgress' = inProgress \cup ReadySet
    /\ UNCHANGED <<status, dbDeps, nodes, edges, pq>>

\* The in-memory part of mark_completed and mark_failed: remove_node, the
\* heap entry and the in_progress_ entry.
Forget(j) ==
    /\ RemoveNode(j)
    /\ inProgress' = inProgress \ {j}
    /\ pq' = pq \ {j}

\* JobScheduler::mark_completed(j): no database write.
MarkCompleted(j) ==
    /\ Forget(j)
    /\ UNCHANGED <<status, dbDeps>>

\* JobScheduler::mark_failed(j): j FAILED, its direct dependents CANCELLED,
\* then j leaves the DAG.  Dependents further down are not touched.
MarkFailed(j) ==
    /\ status' = [k \in Jobs |->
                    IF k = j /\ Exists(k) THEN "FAILED"
                    ELSE IF k \in Dependents(j) /\ Exists(k) THEN "CANCELLED"
                    ELSE status[k]]
    /\ Forget(j)
    /\ UNCHANGED dbDeps

-----------------------------------------------------------------------------
(* The scheduler on its own, driven by arbitrary API calls.  The only      *)
(* callers of mark_completed / mark_failed (the orchestrator's run loops)  *)
(* pass ids that get_ready_jobs returned, so those are the only ones here. *)

SchedInit ==
    /\ status = [j \in Jobs |-> "NONE"]
    /\ dbDeps = {}
    /\ nodes = {}
    /\ edges = {}
    /\ inProgress = {}
    /\ pq = {}

SchedNext ==
    \/ \E D \in SUBSET Jobs : SubmitJob(D)
    \/ \E j, d \in Jobs : AddDependency(j, d)
    \/ GetReadyJobs
    \/ \E j \in inProgress : MarkCompleted(j)
    \/ \E j \in inProgress : MarkFailed(j)

SchedSpec == SchedInit /\ [][SchedNext]_schedVars

-----------------------------------------------------------------------------
(* Properties.                                                             *)

SchedTypeOK ==
    /\ status \in [Jobs -> Statuses]
    /\ dbDeps \subseteq Jobs \X Jobs
    /\ nodes \subseteq Jobs
    /\ edges \subseteq nodes \X nodes
    /\ inProgress \subseteq Jobs
    /\ pq \subseteq Jobs

\* Spec invariant 6 / testable property 5: however submit_job and
\* add_dependency are interleaved, and whatever ids (existing, future or the
\* job itself) a dependency names, the DAG the scheduler keeps never has a
\* cycle.  Checked against the Graphs module's IsDag, not against has_path.
DagAcyclic == Gr!IsDag([node |-> nodes, edge |-> edges])

=============================================================================
