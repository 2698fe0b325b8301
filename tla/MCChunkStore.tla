---------------------------- MODULE MCChunkStore ----------------------------
(* Models of ChunkStore for TLC: two chunk contents, up to three jobs.    *)
EXTENDS ChunkStore, TLC

CONSTANTS c1, c2, s1, s2

MCContents == {c1, c2}
MCJobs == 1..3

\* Three files sharing chunks: job 3's file repeats a chunk of its own.
MCFileOf == (1 :> <<c1, c2>> @@ 2 :> <<c2, c1>> @@ 3 :> <<c1, c1>>)
\* Job 1's source is overwritten in place while the jobs run.
MCEditFirst == [MCFileOf EXCEPT ![1] = <<c2, c2>>]
\* What the CLI submits: LZ4 and encryption, in one process.
MCCompLZ4 == [j \in MCJobs |-> "LZ4"]
MCEncryptAll == [j \in MCJobs |-> TRUE]
MCOneSession == [j \in MCJobs |-> s1]

\* Two jobs, each with its own file of one and the same chunk.
MCJobs2 == 1..2
MCFileOf2 == [j \in MCJobs2 |-> <<c1>>]
MCCompLZ4_2 == [j \in MCJobs2 |-> "LZ4"]
MCEncryptAll2 == [j \in MCJobs2 |-> TRUE]
\* Two CLI invocations: a process, and its key, per job.
MCTwoSessions2 == (1 :> s1 @@ 2 :> s2)

\* One job whose two-chunk file is rewritten in place during the backup.
MCJobs1 == {1}
MCFileOf1 == (1 :> <<c1, c2>>)
MCEditOf1 == (1 :> <<c2, c1>>)
MCCompLZ4_1 == (1 :> "LZ4")
MCEncrypt1 == (1 :> TRUE)
MCSession1 == (1 :> s1)
=============================================================================
