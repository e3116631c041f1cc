---------------------------- MODULE FileDownload ----------------------------
(***************************************************************************)
(* The download half of a node: the gRPC call download_file, which accepts *)
(* a file into the pending store, and FileDownloadService, which the P2P   *)
(* loop calls once a second to turn pending records into published files.  *)
(*                                                                         *)
(* Between two awaits every tokio task of the program may be overtaken by  *)
(* any other, so an action is the code from one await to the next.  The    *)
(* data (bytes, Merkle proofs, CBOR) is abstracted to the file a chunk, a  *)
(* .metadata file or a restored file belongs to; Torn is a file that       *)
(* fs::write or File::create has truncated and not yet filled.             *)
(***************************************************************************)
EXTENDS Integers, FiniteSets

CONSTANTS
  File,                 \* file keys (hash of name, chunk count, root, public)
  Path,                 \* download paths a client may name
  Name,                 \* original file names
  Prefix,               \* chunk directory names: a name with "." made "_"
  NameOf,               \* original_file_name of each file
  PrefixOf,             \* get_chunks_dir_name_prefix of each name
  NumChunks,            \* total_chunks of each file
  Task,                 \* slots for the tasks that download one record each
  Call,                 \* calls of download_file, one gRPC request each
  Asks,                 \* the files and paths each call may name
  MaxActiveDownloads,   \* --max-active-downloads
  Mishaps,              \* kinds of failure that may happen
  MaxMishaps,           \* bound: how many failures happen in a behaviour
  None, Torn

Chunks(f) == 0 .. NumChunks[f] - 1
ChunkId == UNION {Chunks(f) : f \in File}
Dir == Path \X Prefix
DirOf(p, f) == <<p, PrefixOf[NameOf[f]]>>
FileAt(d, f) == <<d[1], NameOf[f]>>
PendingDownloadRecord == [key : File, dir : Dir, chunks : SUBSET ChunkId]

MishapKind == {"crash", "store", "lost", "write", "flush"}

ASSUME ConstantsAssumption ==
  /\ NameOf \in [File -> Name]
  /\ PrefixOf \in [Name -> Prefix]
  /\ NumChunks \in [File -> Nat \ {0}]
  /\ Asks \in [Call -> SUBSET (File \X Path)]
  /\ MaxActiveDownloads \in Nat
  /\ Mishaps \subseteq MishapKind
  /\ MaxMishaps \in Nat
  /\ None \notin File /\ Torn \notin File /\ None # Torn
  /\ None \notin Dir \cup PendingDownloadRecord
  /\ None \notin [ChunkId -> File \cup {None, Torn}]

VARIABLES
  pending,     \* PENDING_DOWNLOADS column family
  published,   \* PUBLISHED_FILES column family: the chunks_dir of a record
  meta,        \* <chunks_dir>/.metadata: the file it describes
  chunkFile,   \* <chunks_dir>/<chunk>.chunk: the file its bytes belong to
  restored,    \* <path>/<original_file_name>: whose bytes, chunk by chunk
  scanning,    \* the P2P loop is inside work_on_pending_downloads
  snapshot,    \* records the scan's iterator has still to yield
  active,      \* active_downloads
  pc,          \* what each spawned download task does next
  record,      \* its pending_download_record
  proofs,      \* the .metadata it read when it started
  failed,      \* first_error is set
  sub,         \* its subtask for each chunk
  call,        \* each download_file request
  mishaps,     \* failures so far
  owners,      \* history: the files .metadata was created for, per directory
  cut          \* history: chunks some record claimed when a write of theirs
               \* was cut short

store == <<pending, published>>
disk == <<meta, chunkFile, restored>>
scan == <<scanning, snapshot>>
tasks == <<pc, record, proofs, failed, sub>>
history == <<owners, cut>>
vars == <<store, disk, scan, active, tasks, call, mishaps, history>>

TaskPc == {"idle", "read", "join", "restore", "publish", "unpend", "leave"}
SubState == {"off", "wait", "asked", "lost", "good", "bad", "verified",
             "writing", "some", "none", "err", "joined"}
CallPc == {"new", "pending", "ask", "exists", "save", "saving", "put",
           "ok", "failed"}
NoSubtasks == [c \in ChunkId |-> "off"]
Content == File \cup {None, Torn}

TypeOK ==
  /\ pending \in [File -> PendingDownloadRecord \cup {None}]
  /\ published \in [File -> Dir \cup {None}]
  /\ meta \in [Dir -> Content]
  /\ chunkFile \in [Dir -> [ChunkId -> Content]]
  /\ restored \in [Path \X Name -> [ChunkId -> Content] \cup {None}]
  /\ scanning \in BOOLEAN
  /\ snapshot \subseteq PendingDownloadRecord
  /\ active \subseteq File
  /\ pc \in [Task -> TaskPc]
  /\ record \in [Task -> PendingDownloadRecord \cup {None}]
  /\ \A t \in Task : IF pc[t] = "idle" THEN record[t] = None /\ sub[t] = NoSubtasks
                                       ELSE record[t] \in PendingDownloadRecord
  /\ proofs \in [Task -> File \cup {None}]
  /\ failed \in [Task -> BOOLEAN]
  /\ sub \in [Task -> [ChunkId -> SubState]]
  /\ call \in [Call -> [pc : CallPc, file : File \cup {None}, path : Path \cup {None}]]
  /\ \A k \in Call : call[k].pc \notin {"new", "failed"} =>
                       call[k].file \in File /\ call[k].path \in Path
  /\ mishaps \in Nat
  /\ owners \in [Dir -> SUBSET File]
  /\ cut \subseteq Dir \X ChunkId

NoCall(end) == [pc |-> end, file |-> None, path |-> None]

Init ==
  /\ pending = [f \in File |-> None]
  /\ published = [f \in File |-> None]
  /\ meta = [d \in Dir |-> None]
  /\ chunkFile = [d \in Dir |-> [c \in ChunkId |-> None]]
  /\ restored = [x \in Path \X Name |-> None]
  /\ scanning = FALSE /\ snapshot = {} /\ active = {}
  /\ pc = [t \in Task |-> "idle"]
  /\ record = [t \in Task |-> None]
  /\ proofs = [t \in Task |-> None]
  /\ failed = [t \in Task |-> FALSE]
  /\ sub = [t \in Task |-> NoSubtasks]
  /\ call = [k \in Call |-> NoCall("new")]
  /\ mishaps = 0
  /\ owners = [d \in Dir |-> {}]
  /\ cut = {}

Mishap(kind) ==
  /\ kind \in Mishaps
  /\ mishaps < MaxMishaps
  /\ mishaps' = mishaps + 1

(* A store call returns Ok and the column family is cf', or it returns an  *)
(* error and nothing changed.                                              *)
StoreFails == Mishap("store") /\ UNCHANGED store

(***************************************************************************)
(* The semaphore is not a variable: a subtask holds its permit from        *)
(* acquire() until download_file_chunk returns, so the permits left are    *)
(* those no subtask holds.                                                 *)
(***************************************************************************)
HoldsPermit == {"asked", "lost", "good", "bad", "verified", "writing"}
Holders == {x \in Task \X ChunkId : sub[x[1]][x[2]] \in HoldsPermit}
AvailablePermits == MaxActiveDownloads - Cardinality(Holders)

-----------------------------------------------------------------------------
(* work_on_pending_downloads: while it runs the P2P loop handles no event, *)
(* so no subtask and no call gets an answer.                               *)

\* Return at once without a permit; otherwise open the iterator.
WorkOnPendingDownloads ==
  /\ ~scanning
  /\ AvailablePermits > 0
  /\ scanning' = TRUE
  /\ snapshot' = {pending[f] : f \in File} \ {None}
  /\ UNCHANGED <<store, disk, active, tasks, call, mishaps, history>>

\* The iterator yields a record whose key is already being downloaded.
ScanSkip(r) ==
  /\ scanning /\ AvailablePermits > 0
  /\ r \in snapshot /\ r.key \in active
  /\ snapshot' = snapshot \ {r}
  /\ UNCHANGED <<store, disk, scanning, active, tasks, call, mishaps, history>>

Spawn(r, t) ==
  /\ scanning /\ AvailablePermits > 0
  /\ r \in snapshot
  /\ pc[t] = "idle"
  /\ snapshot' = snapshot \ {r}
  /\ active' = active \cup {r.key}
  /\ pc' = [pc EXCEPT ![t] = "read"]
  /\ record' = [record EXCEPT ![t] = r]
  /\ UNCHANGED <<store, disk, scanning, proofs, failed, sub, call, mishaps, history>>

\* Mutant of ScanSpawn: the result of active_downloads.insert is ignored.
ScanSpawnAgain(r, t) == Spawn(r, t)

\* The insert into active_downloads succeeds: the key has no task yet.
ScanSpawn(r, t) == r.key \notin active /\ Spawn(r, t)

\* The iterator is exhausted, or no permit is left for its next record.
ScanStop ==
  /\ scanning
  /\ snapshot = {} \/ AvailablePermits = 0
  /\ scanning' = FALSE /\ snapshot' = {}
  /\ UNCHANGED <<store, disk, active, tasks, call, mishaps, history>>

-----------------------------------------------------------------------------
(* download: the task of one record and a subtask per missing chunk.       *)

\* Mutant of ReadMetadata: metadata that does not parse is used all the same.
ReadMetadataUnchecked(t) ==
  /\ pc[t] = "read"
  /\ pc' = [pc EXCEPT ![t] = "join"]
  /\ proofs' = [proofs EXCEPT ![t] = meta[record[t].dir]]
  /\ UNCHANGED <<store, disk, scan, active, record, failed, sub, call, mishaps, history>>

\* Read .metadata; spawn a subtask for each chunk the record does not claim.
ReadMetadata(t) ==
  LET m == meta[record[t].dir] IN
  /\ pc[t] = "read"
  /\ IF m \in File
     THEN /\ pc' = [pc EXCEPT ![t] = "join"]
          /\ proofs' = [proofs EXCEPT ![t] = m]
          /\ sub' = [sub EXCEPT ![t] = [c \in ChunkId |->
               IF c \in Chunks(m) \ record[t].chunks THEN "wait" ELSE "off"]]
     ELSE /\ pc' = [pc EXCEPT ![t] = "leave"]
          /\ UNCHANGED <<proofs, sub>>
  /\ UNCHANGED <<store, disk, scan, active, record, failed, call, mishaps, history>>

SetSub(t, c, s) == sub' = [sub EXCEPT ![t][c] = s]
OnlySub == UNCHANGED <<store, scan, active, pc, record, proofs, failed, call>>

AcquireUnbounded(t, c) ==
  /\ sub[t][c] = "wait"
  /\ SetSub(t, c, "asked")
  /\ OnlySub /\ UNCHANGED <<disk, mishaps, history>>

\* Take a permit and send RequestFileChunk.
Acquire(t, c) == AvailablePermits > 0 /\ AcquireUnbounded(t, c)

\* The loop answers the oneshot: bytes that are the chunk, bytes that are
\* not, or None, NotFound and Error, which release the permit at once.
ReplyBytes(t, c, bytes) ==
  /\ ~scanning
  /\ sub[t][c] = "asked"
  /\ SetSub(t, c, bytes)
  /\ OnlySub /\ UNCHANGED <<disk, mishaps, history>>

ReplyNone(t, c) ==
  /\ ~scanning
  /\ sub[t][c] = "asked"
  /\ SetSub(t, c, "none")
  /\ OnlySub /\ UNCHANGED <<disk, mishaps, history>>

\* The peer never answers: OutboundFailure is logged, the oneshot stays in
\* file_download_requests and the subtask waits on it for good.
ReplyLost(t, c) ==
  /\ sub[t][c] = "asked"
  /\ Mishap("lost")
  /\ SetSub(t, c, "lost")
  /\ OnlySub /\ UNCHANGED <<disk, history>>

Correct(t, c) ==
  /\ sub[t][c] = "good"
  /\ meta[record[t].dir] = record[t].key
  /\ c \in Chunks(record[t].key)

\* The reply is verified against the .metadata read again; one that is not
\* the chunk that .metadata describes is an error.
Verify(t, c) ==
  /\ Correct(t, c)
  /\ SetSub(t, c, "verified")
  /\ OnlySub /\ UNCHANGED <<disk, mishaps, history>>

\* Mutant of Reject: the result of verify_chunk is ignored.
RejectNothing(t, c) ==
  /\ sub[t][c] = "bad"
  /\ SetSub(t, c, "some")
  /\ chunkFile' = [chunkFile EXCEPT ![record[t].dir][c] = Torn]
  /\ OnlySub /\ UNCHANGED <<meta, restored, mishaps, history>>

Reject(t, c) ==
  /\ sub[t][c] \in {"good", "bad"} /\ ~Correct(t, c)
  /\ SetSub(t, c, "err")
  /\ OnlySub /\ UNCHANGED <<disk, mishaps, history>>

\* Mutant of StartWrite: fs::write is not awaited.
StartWriteUnawaited(t, c) ==
  /\ sub[t][c] = "verified"
  /\ SetSub(t, c, "some")
  /\ chunkFile' = [chunkFile EXCEPT ![record[t].dir][c] = Torn]
  /\ OnlySub /\ UNCHANGED <<meta, restored, mishaps, history>>

\* fs::write truncates the chunk file on a blocking thread.
StartWrite(t, c) ==
  /\ sub[t][c] = "verified"
  /\ SetSub(t, c, "writing")
  /\ chunkFile' = [chunkFile EXCEPT ![record[t].dir][c] = Torn]
  /\ OnlySub /\ UNCHANGED <<meta, restored, mishaps, history>>

\* fs::write has written the bytes, ProvideFileChunk is sent, the permit
\* released.
WriteDone(t, c) ==
  /\ sub[t][c] = "writing"
  /\ chunkFile' = [chunkFile EXCEPT ![record[t].dir][c] = record[t].key]
  /\ SetSub(t, c, "some")
  /\ OnlySub /\ UNCHANGED <<meta, restored, mishaps, history>>

\* Records in the store, in the hands of the scan (perhaps stale), of a task.
Records ==
  ({pending[f] : f \in File} \cup snapshot \cup {record[t] : t \in Task}) \ {None}

\* Chunk files being written, and those of them that some record claims: the
\* second download of a chunk, started from a record the scan read too early.
BeingWritten ==
  {x \in Dir \X ChunkId :
     \E t \in Task : pc[t] # "idle" /\ record[t].dir = x[1] /\ sub[t][x[2]] = "writing"}
Claimed == {x \in Dir \X ChunkId : \E r \in Records : r.dir = x[1] /\ x[2] \in r.chunks}

\* fs::write fails half way (disk full): the file stays torn.
WriteFails(t, c) ==
  /\ sub[t][c] = "writing"
  /\ Mishap("write")
  /\ SetSub(t, c, "err")
  /\ cut' = cut \cup ({<<record[t].dir, c>>} \cap Claimed)
  /\ OnlySub /\ UNCHANGED <<disk, owners>>

\* join_next: a downloaded chunk enters the record, which is persisted
\* whole; a failure to persist it is only logged.
JoinSome(t, c) ==
  LET r == [record[t] EXCEPT !.chunks = @ \cup {c}] IN
  /\ pc[t] = "join" /\ sub[t][c] = "some"
  /\ record' = [record EXCEPT ![t] = r]
  /\ \/ /\ pending' = [pending EXCEPT ![r.key] = r]
        /\ UNCHANGED <<published, mishaps>>
     \/ StoreFails
  /\ SetSub(t, c, "joined")
  /\ UNCHANGED <<disk, scan, active, pc, proofs, failed, call, history>>

JoinNone(t, c) ==
  /\ pc[t] = "join" /\ sub[t][c] = "none"
  /\ SetSub(t, c, "joined")
  /\ OnlySub /\ UNCHANGED <<disk, mishaps, history>>

JoinError(t, c) ==
  /\ pc[t] = "join" /\ sub[t][c] = "err"
  /\ failed' = [failed EXCEPT ![t] = TRUE]
  /\ SetSub(t, c, "joined")
  /\ UNCHANGED <<store, disk, scan, active, pc, record, proofs, call, mishaps, history>>

Goto(t, next) ==
  /\ pc' = [pc EXCEPT ![t] = next]
  /\ UNCHANGED <<scan, active, record, proofs, failed, sub, call>>

Completed(t) == Cardinality(record[t].chunks) = NumChunks[proofs[t]]

\* Every subtask has been joined: the outcome of download.
DownloadReturns(t) ==
  /\ pc[t] = "join"
  /\ \A c \in ChunkId : sub[t][c] \in {"off", "joined"}
  /\ Goto(t, IF ~failed[t] /\ Completed(t) THEN "restore" ELSE "leave")
  /\ UNCHANGED <<store, disk, mishaps, history>>

-----------------------------------------------------------------------------
(* process_completed, and the end of the task.                             *)

\* restore_original_file reads .metadata once more.  A file that exists is
\* taken as it is; otherwise the chunk files are put together in a .part file
\* that is renamed at the end; a missing chunk or metadata is an error.
RestoreOriginalFile(t) ==
  LET d == record[t].dir
      m == meta[d]
      exists == restored[FileAt(d, m)] # None
      complete == \A c \in Chunks(m) : chunkFile[d][c] # None
      bytes == [c \in ChunkId |-> IF c \in Chunks(m) THEN chunkFile[d][c] ELSE None]
  IN
  /\ pc[t] = "restore"
  /\ IF m \in File THEN
       /\ Goto(t, IF exists \/ complete THEN "publish" ELSE "leave")
       /\ restored' = IF ~exists /\ complete
                      THEN [restored EXCEPT ![FileAt(d, m)] = bytes] ELSE restored
     ELSE Goto(t, "leave") /\ restored' = restored
  /\ UNCHANGED <<store, meta, chunkFile, mishaps, history>>

\* Mutant of PutPublished: the pending record is deleted first.
DeleteBeforePublish(t) ==
  /\ pc[t] = "publish"
  /\ pending' = [pending EXCEPT ![record[t].key] = None]
  /\ Goto(t, "unpend")
  /\ UNCHANGED <<published, disk, mishaps, history>>

PutPublished(t) ==
  /\ pc[t] = "publish"
  /\ published' = [published EXCEPT ![record[t].key] = record[t].dir]
  /\ Goto(t, "unpend")
  /\ UNCHANGED <<pending, disk, mishaps, history>>

\* The record goes by its key: whatever pending holds under it now.
DeletePending(t) ==
  /\ pc[t] = "unpend"
  /\ pending' = [pending EXCEPT ![record[t].key] = None]
  /\ Goto(t, "leave")
  /\ UNCHANGED <<published, disk, mishaps, history>>

CompletionFails(t) ==
  /\ pc[t] \in {"publish", "unpend"}
  /\ StoreFails
  /\ Goto(t, "leave")
  /\ UNCHANGED <<disk, history>>

\* Mutant of Leave: the key stays in active_downloads.
LeaveActive(t) ==
  /\ pc[t] = "leave"
  /\ pc' = [pc EXCEPT ![t] = "idle"]
  /\ record' = [record EXCEPT ![t] = None]
  /\ proofs' = [proofs EXCEPT ![t] = None]
  /\ failed' = [failed EXCEPT ![t] = FALSE]
  /\ sub' = [sub EXCEPT ![t] = NoSubtasks]
  /\ UNCHANGED <<store, disk, scan, active, call, mishaps, history>>

\* The spawned task removes its key from active_downloads and ends.
Leave(t) ==
  /\ pc[t] = "leave"
  /\ active' = active \ {record[t].key}
  /\ pc' = [pc EXCEPT ![t] = "idle"]
  /\ record' = [record EXCEPT ![t] = None]
  /\ proofs' = [proofs EXCEPT ![t] = None]
  /\ failed' = [failed EXCEPT ![t] = FALSE]
  /\ sub' = [sub EXCEPT ![t] = NoSubtasks]
  /\ UNCHANGED <<store, disk, scan, call, mishaps, history>>

-----------------------------------------------------------------------------
(* download_file: one action per await.                                    *)

CallGoes(k, next) == call' = [call EXCEPT ![k].pc = next]
CallEnds(k) == call' = [call EXCEPT ![k] = NoCall("failed")]
CallGoesIf(k, test, next) == IF test THEN CallGoes(k, next) ELSE CallEnds(k)
OnlyCall == UNCHANGED <<scan, active, tasks>>

CheckPublished(k, f, p) ==
  /\ call[k].pc = "new"
  /\ call' = [call EXCEPT ![k] =
       IF published[f] = None THEN [pc |-> "pending", file |-> f, path |-> p]
                              ELSE NoCall("failed")]
  /\ OnlyCall /\ UNCHANGED <<store, disk, mishaps, history>>

CheckPending(k) ==
  /\ call[k].pc = "pending"
  /\ CallGoesIf(k, pending[call[k].file] = None, "ask")
  /\ OnlyCall /\ UNCHANGED <<store, disk, mishaps, history>>

\* The loop answers RequestMetadata with the file's metadata.
ReceiveMetadata(k) ==
  /\ ~scanning
  /\ call[k].pc = "ask"
  /\ CallGoes(k, "exists")
  /\ OnlyCall /\ UNCHANGED <<store, disk, mishaps, history>>

CallDir(k) == DirOf(call[k].path, call[k].file)

CheckFileExists(k) ==
  /\ call[k].pc = "exists"
  /\ CallGoesIf(k, restored[FileAt(CallDir(k), call[k].file)] = None, "save")
  /\ OnlyCall /\ UNCHANGED <<store, disk, mishaps, history>>

\* save_metadata truncates .metadata and writes it, on a blocking thread.
CreateMetadata(k) ==
  /\ call[k].pc = "save"
  /\ meta' = [meta EXCEPT ![CallDir(k)] = Torn]
  /\ owners' = [owners EXCEPT ![CallDir(k)] = @ \cup {call[k].file}]
  /\ CallGoes(k, "saving")
  /\ OnlyCall /\ UNCHANGED <<store, chunkFile, restored, mishaps, cut>>

FillMetadata(k) ==
  /\ call[k].pc = "saving"
  /\ meta' = [meta EXCEPT ![CallDir(k)] = call[k].file]
  /\ CallGoes(k, "put")
  /\ OnlyCall /\ UNCHANGED <<store, chunkFile, restored, mishaps, history>>

\* ProvideMetadata is on its way; the new record claims no chunk and
\* replaces any record under the key.
PutPending(k) ==
  /\ call[k].pc = "put"
  /\ pending' = [pending EXCEPT ![call[k].file] =
       [key |-> call[k].file, dir |-> CallDir(k), chunks |-> {}]]
  /\ CallGoes(k, "ok")
  /\ OnlyCall /\ UNCHANGED <<published, disk, mishaps, history>>

\* An error status (no provider, a store or a disk error), or the client
\* hangs up and the handler is dropped; the blocking write goes on.
CallFails(k) ==
  /\ call[k].pc \in {"pending", "ask", "exists", "save", "put"}
  /\ CallEnds(k)
  /\ OnlyCall /\ UNCHANGED <<store, disk, mishaps, history>>

\* The disk fills up while .metadata is written.  A writer that is dropped,
\* not flushed, keeps the error of its last write to itself: the call goes on.
FillMetadataFails(k) ==
  /\ call[k].pc = "saving"
  /\ \/ Mishap("write") /\ CallEnds(k)
     \/ Mishap("flush") /\ CallGoes(k, "put")
  /\ OnlyCall /\ UNCHANGED <<store, disk, history>>

-----------------------------------------------------------------------------
(* The process dies, in the middle of a write or not, and is started       *)
(* again: the store and the disk survive as they are.                      *)

Crash ==
  /\ Mishap("crash")
  /\ cut' = cut \cup (BeingWritten \cap Claimed)
  /\ scanning' = FALSE /\ snapshot' = {} /\ active' = {}
  /\ pc' = [t \in Task |-> "idle"]
  /\ record' = [t \in Task |-> None]
  /\ proofs' = [t \in Task |-> None]
  /\ failed' = [t \in Task |-> FALSE]
  /\ sub' = [t \in Task |-> NoSubtasks]
  /\ call' = [k \in Call |-> IF call[k].pc \in {"new", "ok", "failed"}
                             THEN call[k] ELSE NoCall("failed")]
  /\ UNCHANGED <<store, disk, owners>>

ScanStep == ScanStop \/ \E r \in snapshot : ScanSkip(r) \/ \E t \in Task : ScanSpawn(r, t)

ChunkStep(t, c) ==
  \/ Acquire(t, c)
  \/ Verify(t, c) \/ Reject(t, c) \/ StartWrite(t, c) \/ WriteDone(t, c)
  \/ JoinSome(t, c) \/ JoinNone(t, c) \/ JoinError(t, c)

TaskStep(t) ==
  \/ ReadMetadata(t)
  \/ \E c \in ChunkId : ChunkStep(t, c)
  \/ DownloadReturns(t)
  \/ RestoreOriginalFile(t) \/ PutPublished(t) \/ DeletePending(t)
  \/ Leave(t)

Reply(t, c) ==
  \/ ReplyBytes(t, c, "good") \/ ReplyBytes(t, c, "bad")
  \/ ReplyNone(t, c) \/ ReplyLost(t, c)

CallStep(k) ==
  \/ \E f \in File, p \in Path : <<f, p>> \in Asks[k] /\ CheckPublished(k, f, p)
  \/ CheckPending(k) \/ ReceiveMetadata(k) \/ CheckFileExists(k)
  \/ CreateMetadata(k) \/ FillMetadata(k) \/ PutPending(k)
  \/ CallFails(k) \/ FillMetadataFails(k)

Next ==
  \/ WorkOnPendingDownloads \/ ScanStep
  \/ \E t \in Task : \/ TaskStep(t) \/ CompletionFails(t)
                     \/ \E c \in ChunkId : Reply(t, c) \/ WriteFails(t, c)
  \/ \E k \in Call : CallStep(k)
  \/ Crash

Spec == Init /\ [][Next]_vars

(***************************************************************************)
(* Fairness.  The ticker and the tasks are scheduled by tokio; a blocking  *)
(* write ends.  Some peer has every chunk, and a chunk asked for again and *)
(* again is in the end received from it.                                   *)
(***************************************************************************)
ChunkReceived(f, c) ==
  \E t \in Task : record[t] # None /\ record[t].key = f /\ ReplyBytes(t, c, "good")

Fairness ==
  /\ WF_vars(WorkOnPendingDownloads) /\ WF_vars(ScanStep)
  /\ \A t \in Task : WF_vars(TaskStep(t))
  /\ \A k \in Call : WF_vars(FillMetadata(k))
  /\ \A f \in File : \A c \in Chunks(f) : SF_vars(ChunkReceived(f, c))

FairSpec == Spec /\ Fairness

-----------------------------------------------------------------------------
(* Properties.                                                             *)

\* active_downloads is exactly the keys of the tasks that run, and no file
\* is downloaded by two tasks at once: the mutex-guarded insert and remove of
\* file_download_service.rs:50-54 and 85-88.
OneTaskPerFile ==
  /\ active = {record[t].key : t \in {u \in Task : pc[u] # "idle"}}
  /\ \A t, u \in Task :
       pc[t] # "idle" /\ pc[u] # "idle" /\ record[t].key = record[u].key => t = u

\* Another file has had its .metadata created in the directory too: names
\* that differ in "." and "_" share one, and so do two files of one name.
SharedDir(d, f) == owners[d] # {f}

\* A chunk that any record claims as downloaded is on disk with the bytes of
\* its file, at every moment but while it is downloaded again: the order of
\* verify, write and join in file_download_service.rs:140-224, across crashes,
\* failed puts, stale scan records and repeated download_file calls.  The code
\* never looks at a claimed chunk again, so two cases remain: its second
\* download was cut short, or another file was put into its directory.
ClaimedChunksOnDisk ==
  \A r \in Records : \A c \in r.chunks :
    \/ chunkFile[r.dir][c] = r.key
    \/ <<r.dir, c>> \in BeingWritten \cup cut
    \/ SharedDir(r.dir, r.key)

RestoredIntact(d, f) ==
  LET bytes == restored[FileAt(d, f)] IN
  /\ bytes # None
  /\ \A c \in ChunkId : IF c \in Chunks(f) THEN bytes[c] = f \/ <<d, c>> \in cut
                                           ELSE bytes[c] = None

\* A published record's file has been restored beside its chunks, with every
\* byte of that file, but for the two cases above:
\* process_completed, file_download_service.rs:264-283.
PublishedIsRestored ==
  \A f \in File : published[f] # None =>
    RestoredIntact(published[f], f) \/ SharedDir(published[f], f)

\* What is published as downloaded is the file that its peers have
\* (README.md:152, "Downloads a file from peers"), where no other file was put
\* into its directory.
DownloadIsTheFile ==
  \A f \in File : published[f] # None /\ ~SharedDir(published[f], f) =>
    \A c \in Chunks(f) : restored[FileAt(published[f], f)][c] = f

\* A pending download only ever leaves the store for a published file; no
\* crash, failed call or overlapping request drops it (the delete comes after
\* the put, file_download_service.rs:270-280).
PendingBecomesPublished ==
  [][\A f \in File : pending[f] # None /\ pending'[f] = None => published[f] # None]_vars

\* An accepted download is completed and its record removed (README.md:152,
\* "Downloads a file from peers"), if peers answer.
DownloadsComplete ==
  \A f \in File : pending[f] # None ~> published[f] # None /\ pending[f] = None
=============================================================================
