----------------------------- MODULE ChunkStore -----------------------------
(***************************************************************************)
(* The chunk pipeline of the backup engine: ChunkStore::store_file         *)
(* (chunk_store.h) as called by BackupWorker::execute (worker.h), the rows *)
(* it writes through Database (chunks, file_manifests, file_chunks and     *)
(* encryption_keys of src/dag.h), and the inverse, RestoreEngine::         *)
(* restore_job with ChunkStore::restore_file (restore_engine.h).           *)
(*                                                                         *)
(* Several workers run at once (one forked process per job, or jobs of     *)
(* successive CLI invocations).  Each Database call is one SQLite          *)
(* statement or transaction and is atomic; a chunk file write is one       *)
(* write() and is atomic, the last writer of a path wins.                  *)
(*                                                                         *)
(* Data abstraction.  A chunk's bytes are a model value of Contents; its   *)
(* SHA-256 is the value itself (no collisions), so the content-addressed  *)
(* path is too.  Each job backs up one file, the sequence FileOf[j] of     *)
(* chunk contents; the whole-file hash is that sequence.  A chunk file's   *)
(* bytes are described by how they were encoded: [comp, enc, key].  The   *)
(* AES key is generated once per BackupOrchestrator, i.e. per process: a   *)
(* key is the Session a job ran in.  The random IV is left out: two        *)
(* encodings with equal [comp, enc, key] decode the same.                  *)
(*                                                                         *)
(* The worker reads the file through its snapshot (SnapshotManager,      *)
(* src/unnamed/part_001): a hard link to the source's inode, or a byte     *)
(* copy when link() fails.  Another program may overwrite the source file  *)
(* in place while the job runs (EditOf).                                   *)
(*                                                                         *)
(* Restore is not a step: it reads the store without changing it, so it is *)
(* the operator RestoreOk, evaluated in every state.                       *)
(***************************************************************************)
EXTENDS Naturals, Sequences, FiniteSets

CONSTANTS
    Jobs,          \* job ids
    Contents,      \* distinct chunk contents (model values)
    Sessions,      \* orchestrator processes; each has its own AES key
    FileOf,        \* FileOf[j]: the chunk contents of the file job j backs up
    EditOf,        \* EditOf[j]: its contents after an in-place overwrite
    LinkFails,     \* jobs whose snapshot link() fails (other filesystem)
    CompOf,        \* CompOf[j]: the job's compression, "NONE", "LZ4" or "ZSTD"
    EncryptOf,     \* EncryptOf[j]: the job's encrypt flag
    SessionOf,     \* SessionOf[j]: the process job j ran in
    MayFailWrite,  \* jobs whose encrypt or chunk-file open may fail
    MayBusy,       \* jobs whose Database writes may give up on SQLITE_BUSY
    None           \* model value: no row, no file

Comps == {"NONE", "LZ4", "ZSTD"}

ASSUME FileOf \in [Jobs -> Seq(Contents)] /\ LinkFails \subseteq Jobs
ASSUME EditOf \in [Jobs -> Seq(Contents)] /\ \A j \in Jobs : Len(EditOf[j]) = Len(FileOf[j])
ASSUME CompOf \in [Jobs -> Comps] /\ EncryptOf \in [Jobs -> BOOLEAN]
ASSUME SessionOf \in [Jobs -> Sessions] /\ MayFailWrite \subseteq Jobs
ASSUME MayBusy \subseteq Jobs

\* How a chunk file's bytes were produced.
Encodings == [comp : Comps, enc : BOOLEAN, key : Sessions]
\* A chunks row: the settings it was first recorded with, and ref_count.
ChunkRows == [comp : Comps, enc : BOOLEAN, refCount : Nat]

VARIABLES
    src,        \* src[j]: the bytes of job j's source file inode
    snap,       \* snap[j]: None, or the mirrored file: [linked: shares src[j]'s
                \* inode, copy: the bytes copy_file wrote otherwise]
    fileHash,   \* fileHash[j]: manifest.file_hash, the file hashed by store_file
    cur,        \* cur[j]: chunk_data, the chunk the loop turn has read
    chunkRow,   \* chunkRow[c]: the chunks row of hash c, or None
    disk,       \* disk[c]: the encoding of the file chunks/../c, or None
    manifest,   \* manifest[j]: the chunk list of job j's file_manifests row, or None
    keyRow,     \* keyRow[j]: encryption_keys.key_hex of job j, or None
    pc,         \* pc[j]: where job j's worker is
    idx,        \* idx[j]: position in FileOf[j] of the chunk being processed
    acc         \* acc[j]: manifest.chunks built so far

vars == <<src, snap, fileHash, cur, chunkRow, disk, manifest, keyRow, pc, idx, acc>>
storeVars == <<chunkRow, disk, manifest, keyRow>>

PCs == {"idle", "hash", "chunk", "write", "record", "manifest", "key", "done"}

\* The encoding job j's settings give a chunk.
EncodingOf(j) == [comp |-> CompOf[j], enc |-> EncryptOf[j], key |-> SessionOf[j]]

\* What reading the snapshot's file returns now.
Data(j) == IF snap[j].linked THEN src[j] ELSE snap[j].copy

Cur(j) == cur[j]

\* Database::chunk_exists(hash): SELECT 1 FROM chunks WHERE hash=?.
ChunkExists(c) == chunkRow[c] # None

\* Database::get_chunk_meta(hash): the chunks row, or nullopt (None).
GetChunkMeta(c) == chunkRow[c]

\* Database::store_encryption_key: INSERT OR REPLACE of the job's key row.
StoreEncryptionKey(kr, j, key) == [kr EXCEPT ![j] = key]

\* A write of job j's worker in a Transaction: BEGIN IMMEDIATE waits up to
\* busy_timeout for the write lock another process holds, and each step
\* retries SQLITE_BUSY SQLITE_MAX_RETRIES times.  Either the statements
\* commit together (TRUE) or BEGIN or a step gives up, the destructor rolls
\* back, and the call returns false (FALSE).  Only for jobs in MayBusy.
DbWriteOutcomes(j) == IF j \in MayBusy THEN {TRUE, FALSE} ELSE {TRUE}

\* Database::get_encryption_key(job): key_hex, or "" (None) with no row.
GetEncryptionKey(j) == keyRow[j]

-----------------------------------------------------------------------------

Init ==
    /\ src = FileOf
    /\ snap = [j \in Jobs |-> None]
    /\ fileHash = [j \in Jobs |-> None]
    /\ cur = [j \in Jobs |-> None]
    /\ chunkRow = [c \in Contents |-> None]
    /\ disk = [c \in Contents |-> None]
    /\ manifest = [j \in Jobs |-> None]
    /\ keyRow = [j \in Jobs |-> None]
    /\ pc = [j \in Jobs |-> "idle"]
    /\ idx = [j \in Jobs |-> 1]
    /\ acc = [j \in Jobs |-> <<>>]

\* Another program overwrites the source file in place (same length).
Edit(j) ==
    /\ src[j] = FileOf[j] /\ EditOf[j] # FileOf[j]
    /\ src' = [src EXCEPT ![j] = EditOf[j]]
    /\ UNCHANGED <<snap, fileHash, cur, chunkRow, disk, manifest, keyRow, pc, idx, acc>>

\* BackupWorker::execute: RUNNING, then SnapshotManager::create_snapshot
\* mirrors the file: link() to the same inode, or copy_file of its bytes
\* as they are now.  list_files returns the mirrored file.
Start(j) ==
    /\ pc[j] = "idle"
    /\ snap' = [snap EXCEPT ![j] = IF j \in LinkFails
                                   THEN [linked |-> FALSE, copy |-> src[j]]
                                   ELSE [linked |-> TRUE, copy |-> <<>>]]
    /\ pc' = [pc EXCEPT ![j] = "hash"]
    /\ UNCHANGED <<src, fileHash, cur, chunkRow, disk, manifest, keyRow, idx, acc>>

\* store_file: stat, SHA256::hash_file of the whole file (file_hash), open.
HashFile(j) ==
    /\ pc[j] = "hash"
    /\ fileHash' = [fileHash EXCEPT ![j] = Data(j)]
    /\ pc' = [pc EXCEPT ![j] = "chunk"]
    /\ UNCHANGED <<src, snap, cur, chunkRow, disk, manifest, keyRow, idx, acc>>

\* Mutant of CheckChunk: a deduplicated chunk does not advance chunk_idx.
CheckChunkNoAdvance(j) ==
    /\ pc[j] = "chunk"
    /\ IF idx[j] > Len(Data(j))
          THEN /\ pc' = [pc EXCEPT ![j] = "manifest"]
               /\ UNCHANGED <<cur, idx, acc>>
          ELSE LET c == Data(j)[idx[j]] IN
               /\ cur' = [cur EXCEPT ![j] = c]
               /\ IF chunkRow[c] # None
                     THEN /\ acc' = [acc EXCEPT ![j] = Append(@, c)]
                          /\ UNCHANGED <<pc, idx>>
                     ELSE /\ pc' = [pc EXCEPT ![j] = "write"]
                          /\ UNCHANGED <<idx, acc>>
    /\ UNCHANGED <<src, snap, fileHash>>
    /\ UNCHANGED storeVars

\* One turn of the while loop up to the dedup check: read the next chunk
\* of the file as it is now; a hash that has a chunks row is deduplicated:
\* appended to the manifest, nothing written.  At end of file the loop ends.
CheckChunk(j) ==
    /\ pc[j] = "chunk"
    /\ IF idx[j] > Len(Data(j))
          THEN /\ pc' = [pc EXCEPT ![j] = "manifest"]
               /\ UNCHANGED <<cur, idx, acc>>
          ELSE LET c == Data(j)[idx[j]] IN
               /\ cur' = [cur EXCEPT ![j] = c]
               /\ IF ChunkExists(c)
                     THEN /\ acc' = [acc EXCEPT ![j] = Append(@, c)]
                          /\ idx' = [idx EXCEPT ![j] = @ + 1]
                          /\ UNCHANGED pc
                     ELSE /\ pc' = [pc EXCEPT ![j] = "write"]
                          /\ UNCHANGED <<idx, acc>>
    /\ UNCHANGED <<src, snap, fileHash>>
    /\ UNCHANGED storeVars

\* Mutant of WriteChunk: the encrypt step is left out.
WriteChunkPlain(j) ==
    /\ pc[j] = "write"
    /\ disk' = [disk EXCEPT ![Cur(j)] = [EncodingOf(j) EXCEPT !.enc = FALSE]]
    /\ pc' = [pc EXCEPT ![j] = "record"]
    /\ UNCHANGED <<chunkRow, manifest, keyRow, idx, acc>>
    /\ UNCHANGED <<src, snap, fileHash, cur>>

\* Compress (LZ4 and ZSTD of a 64 KiB buffer into a compressBound-sized
\* one do not fail, so the uncompressed fallback is not taken), encrypt,
\* and write the chunk file, truncating whatever is there.
WriteChunk(j) ==
    /\ pc[j] = "write"
    /\ disk' = [disk EXCEPT ![Cur(j)] = EncodingOf(j)]
    /\ pc' = [pc EXCEPT ![j] = "record"]
    /\ UNCHANGED <<chunkRow, manifest, keyRow, idx, acc>>
    /\ UNCHANGED <<src, snap, fileHash, cur>>

\* Mutant of WriteFails: the failed chunk is appended all the same.
WriteFailsAppend(j) ==
    /\ pc[j] = "write"
    /\ j \in MayFailWrite
    /\ acc' = [acc EXCEPT ![j] = Append(@, Cur(j))]
    /\ idx' = [idx EXCEPT ![j] = @ + 1]
    /\ pc' = [pc EXCEPT ![j] = "chunk"]
    /\ UNCHANGED <<chunkRow, disk, manifest, keyRow>>
    /\ UNCHANGED <<src, snap, fileHash, cur>>

\* Encryption returns empty, or the chunk file cannot be opened: `continue`
\* goes to the next chunk without appending this one or advancing offset
\* and chunk_idx (the next chunk is read from the file all the same).
WriteFails(j) ==
    /\ pc[j] = "write"
    /\ j \in MayFailWrite
    /\ idx' = [idx EXCEPT ![j] = @ + 1]
    /\ pc' = [pc EXCEPT ![j] = "chunk"]
    /\ UNCHANGED <<chunkRow, disk, manifest, keyRow, acc>>
    /\ UNCHANGED <<src, snap, fileHash, cur>>

\* Database::store_chunk(hash, .., comp, encrypted): INSERT OR IGNORE with
\* ref_count 1; if the row was there already (another worker stored the
\* hash since the dedup check), increment_chunk_ref.  The new row.
StoreChunk(row, comp, enc) ==
    IF row = None THEN [comp |-> comp, enc |-> enc, refCount |-> 1]
    ELSE [row EXCEPT !.refCount = @ + 1]

\* store_chunk, then the chunk is appended and the loop goes on: store_file
\* ignores store_chunk's result, so a rolled-back row is appended too.  The
\* B+tree and hash-map indexes store_file also fills hold the same path the
\* row does (paths are a function of the hash) and are not state here.
RecordChunk(j) ==
    LET c == Cur(j) IN
    /\ pc[j] = "record"
    /\ \E ok \in DbWriteOutcomes(j) :
          chunkRow' = IF ok THEN [chunkRow EXCEPT ![c] = StoreChunk(@, CompOf[j], EncryptOf[j])]
                      ELSE chunkRow
    /\ acc' = [acc EXCEPT ![j] = Append(@, c)]
    /\ idx' = [idx EXCEPT ![j] = @ + 1]
    /\ pc' = [pc EXCEPT ![j] = "chunk"]
    /\ UNCHANGED <<disk, manifest, keyRow>>
    /\ UNCHANGED <<src, snap, fileHash, cur>>

\* Database::store_file_manifest: the file_manifests row and its
\* file_chunks rows in one transaction; store_file ignores its result.
StoreManifest(j) ==
    /\ pc[j] = "manifest"
    /\ \E ok \in DbWriteOutcomes(j) :
          manifest' = IF ok THEN [manifest EXCEPT ![j] = acc[j]] ELSE manifest
    /\ pc' = [pc EXCEPT ![j] = "key"]
    /\ UNCHANGED <<chunkRow, disk, keyRow, idx, acc>>
    /\ UNCHANGED <<src, snap, fileHash, cur>>

\* The end of execute: store_encryption_key if the job encrypts, the stats,
\* and status COMPLETED (pc = "done"); the key write's result is ignored.
Finish(j) ==
    /\ pc[j] = "key"
    /\ \E ok \in DbWriteOutcomes(j) :
          keyRow' = IF EncryptOf[j] /\ ok THEN StoreEncryptionKey(keyRow, j, SessionOf[j]) ELSE keyRow
    /\ pc' = [pc EXCEPT ![j] = "done"]
    /\ UNCHANGED <<chunkRow, disk, manifest, idx, acc>>
    /\ UNCHANGED <<src, snap, fileHash, cur>>

Next ==
    \E j \in Jobs :
        \/ Edit(j) \/ Start(j) \/ HashFile(j) \/ CheckChunk(j) \/ WriteChunk(j) \/ WriteFails(j)
        \/ RecordChunk(j) \/ StoreManifest(j) \/ Finish(j)

Spec == Init /\ [][Next]_vars

-----------------------------------------------------------------------------
(* Restore (restore_engine.h, ChunkStore::restore_file).                   *)

\* One chunk of job j decodes to content c: its path is found (row, or
\* cache, which holds the same path), the file is there, decrypt with the
\* job's key if the JOB is encrypted succeeds, decompress with the JOB's
\* compression succeeds, and the per-chunk hash matches.  With any other
\* encoding one of those fails: CBC padding or the hash check rejects a
\* wrong key or a plaintext, LZ4/ZSTD reject foreign input.
ChunkDecodes(j, c) ==
    /\ GetChunkMeta(c) # None
    /\ disk[c] # None
    /\ disk[c].enc = EncryptOf[j]
    /\ EncryptOf[j] => disk[c].key = GetEncryptionKey(j)
    /\ disk[c].comp = CompOf[j]

\* restore_job(j) restores job j's file: the job is COMPLETED, its key row
\* is there if it encrypts, every chunk decodes, and the concatenation
\* passes the whole-file hash check against manifest.file_hash.
RestoreOk(j) ==
    /\ pc[j] = "done"
    /\ EncryptOf[j] => GetEncryptionKey(j) # None
    /\ manifest[j] # None
    /\ \A i \in 1..Len(manifest[j]) : ChunkDecodes(j, manifest[j][i])
    /\ manifest[j] = fileHash[j]

\* RestoreEngine::verify_backup(j): the job is COMPLETED and every chunk of
\* its manifests has a chunks row and a file on disk.  No manifest row:
\* nothing to check, true.
VerifyBackup(j) ==
    /\ pc[j] = "done"
    /\ manifest[j] # None =>
          \A i \in 1..Len(manifest[j]) :
              GetChunkMeta(manifest[j][i]) # None /\ disk[manifest[j][i]] # None

\* file_chunks rows naming c, over all committed manifests.
RefsTo(c) ==
    Cardinality({r \in UNION {{j} \X DOMAIN manifest[j] : j \in {k \in Jobs : manifest[k] # None}} :
                    manifest[r[1]][r[2]] = c})

-----------------------------------------------------------------------------
(* Properties.                                                             *)

TypeOK ==
    /\ src \in [Jobs -> Seq(Contents)]
    /\ snap \in [Jobs -> [linked : BOOLEAN, copy : Seq(Contents)] \cup {None}]
    /\ fileHash \in [Jobs -> Seq(Contents) \cup {None}]
    /\ cur \in [Jobs -> Contents \cup {None}]
    /\ chunkRow \in [Contents -> ChunkRows \cup {None}]
    /\ disk \in [Contents -> Encodings \cup {None}]
    /\ manifest \in [Jobs -> Seq(Contents) \cup {None}]
    /\ keyRow \in [Jobs -> Sessions \cup {None}]
    /\ pc \in [Jobs -> PCs]
    /\ \A j \in Jobs : idx[j] \in 1..Len(FileOf[j]) + 1
    /\ \A j \in Jobs : acc[j] \in Seq(Contents) /\ Len(acc[j]) < idx[j]

\* Spec invariant 8.1 (round trip): every COMPLETED job can be restored
\* byte for byte -- whatever other workers, deduplicating against it or it
\* against them, did before, during or after it, failed chunk writes of
\* other jobs included, and Database writes of other jobs that gave up.
\* A job whose own chunk write may fail is left out: store_file skips that
\* chunk (spec 4.3 step 6), so its whole-file hash check fails on restore
\* by design.  So is a job whose own Database writes may fail, which
\* MetadataRecordedIfCompleted is about.
RoundTrip == \A j \in Jobs \ (MayFailWrite \cup MayBusy) : pc[j] = "done" => RestoreOk(j)

\* Spec 4.7 and E5: verify_backup succeeds for every COMPLETED job -- a
\* manifest never names a chunk that has no row or no file, even when some
\* chunk writes of the job failed and other workers share its chunks.
VerifiedIfCompleted == \A j \in Jobs \ MayBusy : pc[j] = "done" => VerifyBackup(j)

\* Spec 7 (error policy): "failures to record metadata are fatal for the
\* whole job".  A job the worker sets COMPLETED has its file_manifests row,
\* its encryption_keys row if it encrypts, and a chunks row for every chunk
\* its manifest names -- whatever store_chunk, store_file_manifest and
\* store_encryption_key returned.
MetadataRecordedIfCompleted ==
    \A j \in Jobs : pc[j] = "done" =>
        /\ manifest[j] # None
        /\ EncryptOf[j] => GetEncryptionKey(j) # None
        /\ \A i \in 1..Len(manifest[j]) : GetChunkMeta(manifest[j][i]) # None

\* Spec invariant 3.3: a chunk's ref_count equals the number of file_chunks
\* rows across all manifests that name its hash ("INSERT-OR-INCREMENT at
\* write time").  Checked once no worker is between chunk and manifest.
RefCountMatchesRefs ==
    (\A j \in Jobs : pc[j] \in {"idle", "key", "done"}) =>
        \A c \in Contents : chunkRow[c] # None => chunkRow[c].refCount = RefsTo(c)

=============================================================================
