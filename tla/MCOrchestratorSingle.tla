------------------------ MODULE MCOrchestratorSingle ------------------------
(* Models of OrchestratorSingle for TLC: three job ids.                    *)
EXTENDS OrchestratorSingle, TLC

MCJobs == 1..3
\* Job 2 is submitted depending on job 1; job 3 has a higher priority.
MCDepsChain1 == (1 :> {} @@ 2 :> {1} @@ 3 :> {})
MCPriority == (1 :> 1 @@ 2 :> 1 @@ 3 :> 2)
\* Job 2 depends on job 1 and job 3 on job 2.
MCDepsChain12 == (1 :> {} @@ 2 :> {1} @@ 3 :> {2})
\* A dependency added later whose endpoints were submitted without any.
MCLateDeps == {<<3, 1>>}
\* What the terminal UI and the CLI submit: jobs without dependencies.
MCDepsNone == [j \in MCJobs |-> {}]
=============================================================================
