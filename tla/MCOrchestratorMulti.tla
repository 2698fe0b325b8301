------------------------- MODULE MCOrchestratorMulti -------------------------
(* Models of OrchestratorMulti for TLC: three job ids, two worker slots.   *)
EXTENDS OrchestratorMulti, TLC

MCJobs == 1..3
MCMaxWorkers == 2

\* Job 2 is submitted depending on job 1; job 3 has a higher priority.
MCDepsChain1 == (1 :> {} @@ 2 :> {1} @@ 3 :> {})
MCPriority == (1 :> 1 @@ 2 :> 1 @@ 3 :> 2)
\* Dependencies the caller may add afterwards: with job 2 depending on 1,
\* 3 on 2 and then 1 on 3 would close a cycle of three.
MCLateDeps == {<<3, 2>>, <<1, 3>>}

\* One late dependency: job 1, which may have run already, on job 3.
MCLateDeps13 == {<<1, 3>>}

\* Job 3 depends on 2, which depends on 1: a chain of two hops.
MCDepsChain2 == (1 :> {} @@ 2 :> {1} @@ 3 :> {2})
\* Three independent jobs.
MCDepsNone == [j \in MCJobs |-> {}]
MCPriorityEq == [j \in MCJobs |-> 1]
=============================================================================
