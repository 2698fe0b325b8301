# TLA+ models of the file backup system

These modules model the control of the backup engine under `src/`:
- the job scheduler and its dependency DAG;
- the orchestrator's two run loops, with forked workers, the worker semaphore and crashes;
- the chunk pipeline: snapshot, chunking, deduplication, encryption, the metadata rows (with writes that give up on SQLITE_BUSY), restore and verify;
- the binary heap behind the scheduler;
- the messaging service with its circular event log;
- the chunk store's two in-memory indexes, a B+ tree and an open-addressing HashMap.

Each module is checked with TLC. `PROJECT.json` lists the components, the runs, the mutants, the definition-to-source map, the findings and the hazards.

## How the parts interact

- A caller submits jobs. The terminal UI (`part_002`) and the CLI (`main.cpp`) both do this through `BackupOrchestrator::submit_job` (`part_000`). That call forwards to `JobScheduler::submit_job` (`part_001`).
- `submit_job` does three things:
  - it creates a `jobs` row through `Database` (`dag.h` 145-897);
  - it pushes an entry on the `PriorityQueue` heap (`priority_queue.h`);
  - it adds the job and its dependencies to the `DAG<int>` (`dag.h` 1-144), whose `has_path` check refuses cycles.
- A run loop calls `get_ready_jobs`, which returns the PENDING jobs with in-degree 0 and marks them in progress. The loop then executes each one:
  - `run_single_threaded` (the only loop any caller uses) runs the job inline;
  - `run_multi_process` forks a `BackupWorker` per job, limited by a named semaphore and `MAX_WORKER_PROCESSES`, and reaps exited children with `waitpid`.
- After each job the loop calls `mark_completed` or `mark_failed`. `mark_failed` cancels the direct dependents.
- In multi-process mode each child reports `JOB_START`, `JOB_PROGRESS`, `JOB_FAILED` or `JOB_COMPLETE` through a pipe (`MessageQueue`, `ipc.h`) that the parent creates in `initialize()`. A write to a full pipe blocks the child. The parent's loop reaps exited children, then drains the pipe in `process_messages`, which only logs what it reads.
- A worker does four things:
  - it snapshots the source (`SnapshotManager`: a hard link, or a copy when `link()` fails);
  - it stores every file with `ChunkStore::store_file`, which hashes the file, chunks it, skips chunks whose hash already has a `chunks` row, and compresses, encrypts and writes the others;
  - it records `file_manifests` and `file_chunks`;
  - it stores the job's AES key.
- `RestoreEngine::restore_job` decodes every chunk of a manifest with the job's key and checks the whole-file hash. `verify_backup` only checks that every chunk has a row and a file.
- `store_file` also puts every newly written chunk into `chunk_index_` (a `BPlusTree`, `restore_engine.h` 165-377) and `dedup_index_` (a `HashMap`, `priority_queue.h` 118-236). `restore_file` looks a hash up in `chunk_index_` first, and the statistics screen shows both sizes.
- The UI's messaging menu calls `MessagingService`, which writes `channels` and `messages` rows and logs each call into a `CircularBuffer` of 256 events.

## Modules

| Module | Models | State and actions |
|---|---|---|
| `JobScheduler` | `part_001` 15-143, DAG `dag.h` 1-144, jobs and job_dependencies rows | State: `status`, `dbDeps`, `nodes`, `edges`, `inProgress`, and `pq` (heap contents as a set, since only its size is read). Actions: `SubmitJob`, `AddDependency`, `GetReadyJobs`, `MarkCompleted`, `MarkFailed`. `has_path` is the recursive BFS `Popped`. |
| `OrchestratorMulti` | `run_multi_process`, `fork_worker`, `reap_children`, `process_messages`, the semaphore, the message pipe, and the forked children (`worker.h`) | Instances `JobScheduler`. `pipe` is the sequence of unread messages, each `[type, job]`, at most `PipeCap`. The parent's loop is `ParentStep`: `ReapOne`, `ReapDone`, `ProcessMessages` (drains the pipe), then `Dispatch`, whose `ForkLoop` handles fork failure. `opc` is where the parent is: idle, reap, drain or dispatch. The children are `ChildStart` (database open, RUNNING), `ChildWork` (snapshot and file, or FAILED), `ChildFinish` (COMPLETED), and `ChildSend`, the blocking write of each report (`Sends` gives the report and the next step). Between runs there are `Submit` and `AddDependency`. |
| `OrchestratorSingle` | `run_single_threaded` with `execute_job_direct` | `RunStep` is the loop (`Loop`, `ExecStart`, `ExecFinish`). `Crash` wipes the in-memory scheduler and keeps the database. |
| `ChunkStore` | `store_file`, `store_chunk`, `store_file_manifest`, the key row, `SnapshotManager`, `restore_file`, `restore_job`, `verify_backup` | One file per job, handled by a per-job program counter: `Start` (snapshot), `HashFile`, `CheckChunk` (dedup), `WriteChunk` or `WriteFails`, `RecordChunk`, `StoreManifest`, `Finish`. `Edit` is another program overwriting the source in place. For jobs in `MayBusy`, `DbWriteOutcomes` lets each Database write of `RecordChunk`, `StoreManifest` and `Finish` give up on SQLITE_BUSY and roll back whole (`Transaction`, `step_retry`). The worker goes on either way, as the code ignores the result. Restore and verify are the operators `RestoreOk` and `VerifyBackup`. |
| `PriorityQueue` | `priority_queue.h` 1-105 with `JobCompare` | `Push`, `Pop` and `RemoveIf`, using the recursive `SiftUp` and `SiftDown`. |
| `PriorityBag` | abstract | A bag with push, pop of a greatest item, and removal of any one item. |
| `Messaging` | `messaging.h`, `circular_buffer.h` (`push_overwrite`, `last_n`), the channels and messages rows | `SendFromUi` is the UI's "Send Message" or "Share File": `create_channel`, then the message, logging two events. `CreateChannel` is the other action. `clock` is `now_epoch_ms`, which `Tick` advances, so two messages can share a `created_at`. `GetMessages(c, n)` is `get_messages`: every result the `ORDER BY created_at DESC LIMIT n` can give on ties, each reversed. |
| `BPlusTree` | `restore_engine.h` 165-377 | Nodes live in a heap `tree` (a sequence of records `[leaf, keys, vals, kids, next]`), with `root`, `size` and `call` (the last call and its result). `Insert` is `insert` with the recursive `InsertRec` (leaf and internal splits, root growth). `Erase` is `erase` with `EraseRec` (no rebalancing) and the one-child root collapse. `Find`, `ForEach` (the leaf chain) and `Range` are operators. `inserts` counts inserts up to `MaxInserts`. |
| `HashMap` | `priority_queue.h` 118-236 | One record `hm = [buckets, states, size, cap]`. `Insert` is `insert` with the load check, `Rehash`, and `Probe`. `Erase` turns the `FindIdx` slot into a tombstone. The pair a tombstone keeps in the code is dropped, since `probe`, `find_idx`, `rehash` and `for_each` read only OCCUPIED pairs. |
| `KVMap` | abstract | A finite map with insert and erase; `call` records the key, the inserted value and erase's result. |
| `ChunkIndexes` | `chunk_store.h` 128-133, 236-237 | Instances both containers and drives them with the same calls. They share no state, so each reaches exactly the states it reaches alone. |

`MC*.tla` modules give the constants for TLC.

### Data abstraction

- Chunk contents are model values, and a hash is the content itself.
- A chunk file is described by its encoding `[comp, enc, key]`.
- A process's AES key is its `Session`.
- An event is its sequence number.

## Runs

| Run | Expect | Shows |
|---|---|---|
| `multi_pass` | pass | Three jobs with a chain, two dependencies added later (one would close a cycle of three), two worker slots, failing workers and a failing fork. The DAG stays acyclic (checked against `Graphs!IsDag`). The semaphore equals `MaxWorkers` minus the live workers. The pipe is empty whenever a run has returned. No job starts before its prerequisites are COMPLETED. Every forked worker is reaped before the run returns, including one blocked on a full pipe. |
| `multi_batch_stranded` | violation | Three ready jobs and two slots: the third job is marked in progress but never forked, so the run never ends. |
| `multi_cascade_hang` | violation | In the chain 1 <- 2 <- 3, job 1 fails. Job 2 is CANCELLED but stays in the DAG, so job 3 is PENDING forever. Spec 4.4 says the cancellation cascades. |
| `single_pass` | pass | The single-process loop over a chain 1 <- 2 <- 3, with a failing first job, a later `add_dependency(3, 1)` and a crash. `add_edge` re-creates the nodes of finished and crash-stranded jobs, yet a row enters RUNNING only from PENDING, so no backup is executed twice. |
| `single_crash_orphan` | violation | After a crash, the PENDING rows are not reloaded, and `run_single_threaded` loops forever. |
| `chunk_roundtrip` | pass | Three concurrent jobs share chunks. Job 3's chunk writes may fail, job 2's Database writes may give up on SQLITE_BUSY, and a file is overwritten in place behind a copied snapshot. Job 1 shares chunks with both, and restores whenever it is COMPLETED. Job 3 is exempt, because the spec (4.3 step 6) skips a chunk whose write fails. Job 2 is the subject of `chunk_metadata_lost`. `verify_backup` succeeds for jobs 1 and 3. |
| `chunk_metadata_lost` | violation | A job whose Database writes give up on SQLITE_BUSY still ends COMPLETED. `store_chunk`, `store_file_manifest` and `store_encryption_key` roll back, and their results are ignored. When only the manifest is lost, `restore_job` restores nothing yet reports success, and `verify_backup` reports OK. Spec 7 says metadata failures are fatal for the whole job. |
| `chunk_cross_session` | violation | Dedup across two processes: the job records its own key for a chunk encrypted under another key, and restore fails. |
| `chunk_snapshot_inplace` | violation | A hard-linked snapshot is not a stable view. An in-place write after `hash_file` yields a manifest that fails the hash check. Spec 4.2 promises a stable view. |
| `chunk_index` | pass | Five keys (colliding in the hash table), two values, up to five inserts and any erases. The B+ tree of order 3 reaches three levels and empty leaves after erase. The HashMap grows from two slots to eight and probes past tombstones. For both, `find`, `range` and `size()` agree with what `for_each` visits, node sizes stay within `MAX_KEYS`, keys are unique, and each refines `KVMap`. |
| `pq_heap` | pass | The heap stays ordered, and the heap refines `PriorityBag`: pop returns a greatest item under `JobCompare`. |
| `messaging_log` | pass | Across two wrap-arounds of the ring, `last_n(n)` returns the newest n events for every n from 0 to capacity + 1. `get_messages` shows, for every channel and every tie order, the `min(n, count)` newest messages. No omitted message is newer than a shown one, and messages with different timestamps appear oldest first. |

Every property of a passing run has a mutant in `PROJECT.json`. A mutant is a plausible bug in a mapped definition, such as a dropped sift-up, a leaked semaphore slot, a one-hop cycle check, or a dropped PENDING test. TLC finds the property violated under each mutant.

## Bounds

- **Three job ids.** This is enough for a chain of two hops, a cycle of three, two workers plus one job left over, and a shared chunk among three files.
- **Two chunk contents and files of two chunks.** These give both dedup within a file and dedup across files.
- **Two priorities and six pushes.** The heap reaches depth three, and both tie orders of `created_at` occur.
- **A ring of capacity 3 with 7 events.** The ring wraps twice.
- **One crash.** One is enough to orphan a row.
- **A pipe of two messages** (the real one holds 221). A child sends up to three reports, so with two children the pipe fills and a writer blocks.
- **Two messages shown, clock up to 2 ms** (the UI shows 50). Three messages on one channel give ties that LIMIT cuts.
- **Index: order 3, five keys, five inserts, initial capacity 2.** With two keys per node, five inserts split leaves, split an internal node and grow the root twice. The hash values (0, 4, 0, 7, 8) make keys collide and probe chains wrap at every capacity. The two-slot table fills completely before it grows, and erases leave tombstones inside chains. Erases are unbounded, since they never grow the state.

## Fairness

- `OrchestratorMulti`: weak fairness on the parent's loop and on each child's steps. They are separate processes that the OS keeps scheduling. The loop never blocks except in `usleep`. A child blocked on a full pipe is woken once the parent reads, so its step is weakly fair too.
- `OrchestratorSingle`: weak fairness on the loop, and none on `Crash`.
- `ChunkIndexes`, `PriorityQueue` and `Messaging`: no fairness. Their properties are safety and refinement of safety specifications.
- The submission actions are the user's, and they are not fair.

## Not modelled

- The IPC shared memory, which is created and never used. The messages' progress counters and payload are also left out, since `process_messages` only logs them.
- The ordering of `chunk_index_` and `dedup_index_` against the database rows. Both cache a path that is a function of the hash, and `dedup_index_` is never read. So `ChunkIndexes` checks the containers against their own API, not the chunk store's use of them.
- `ref_count` as a run. `RefCountMatchesRefs` in `ChunkStore` states it, and TLC finds it broken on the first dedup. Nothing reads `ref_count`, so it is kept as a hazard.
- AES, SHA-256, the compressors and `rolling_checksum`. These are pure byte transformations.
- `PriorityQueue::update` and `clear`, which have no callers.
- Database errors other than the worker's chunk, manifest and key writes. The status and statistics updates and the scheduler's calls are taken to succeed, and so is `open()`.
- `CancelledNeverRan` as a run. TLC finds it violated in 28 steps: a late `add_dependency(1, 3)` on a COMPLETED job 1, then job 3 fails, and `mark_failed` cancels job 1. To reproduce, use `multi_pass.cfg` with `DepsOf <- MCDepsNone`, `LateDeps <- MCLateDeps13`, `MayFail = {3}`, `ForkMayFail = {}`, and only `PROPERTY CancelledNeverRan`. It is kept as a hazard, because the run budget went to `chunk_metadata_lost` and no caller in the program uses `add_dependency`.
- `PrereqCompletedBeforeStart` of `OrchestratorSingle` as a run. Single mode calls `mark_completed` after a FAILED job too, so its dependents start; the spec describes this for single mode. After a crash, a submit that names a PENDING job re-creates that job's node without its own prerequisites. Both show with `single_pass.cfg` and only `PROPERTY PrereqCompletedBeforeStart`: the first with `MayFail = {1}` and `DepsOf <- MCDepsChain1`, the second with `MayFail = {}`. Submits with dependencies have no caller in the UI or the CLI.
- Statistics, logging (`logger.h`) and UI formatting.

These gaps appear as hazards in `PROJECT.json` with notes.
