------------------------ MODULE FileDownload_proofs ------------------------
(* Theorems about FileDownload, for every value of its constants.           *)
EXTENDS FileDownload, FiniteSetTheorems, TLAPS

USE DEF MishapKind, history

-----------------------------------------------------------------------------
(* Type correctness.                                                        *)

\* The scan only moves records and keys between sets.
LEMMA ScanType ==
  ASSUME TypeOK, WorkOnPendingDownloads \/ ScanStep
  PROVE  TypeOK'
<1>1. CASE WorkOnPendingDownloads
  BY <1>1 DEF TypeOK, WorkOnPendingDownloads, store, disk, tasks, vars
<1>2. CASE ScanStop
  BY <1>2 DEF TypeOK, ScanStop, store, disk, tasks, vars
<1>3. ASSUME NEW r \in snapshot, ScanSkip(r)  PROVE TypeOK'
  BY <1>3 DEF TypeOK, ScanSkip, store, disk, tasks, vars
<1>4. ASSUME NEW r \in snapshot, NEW t \in Task, ScanSpawn(r, t)  PROVE TypeOK'
  BY <1>4 DEF TypeOK, ScanSpawn, Spawn, store, disk, tasks, vars, TaskPc, PendingDownloadRecord
<1>. QED  BY <1>1, <1>2, <1>3, <1>4 DEF ScanStep

\* A subtask exists only while its task runs.
LEMMA SubtaskRuns ==
  ASSUME TypeOK, NEW t \in Task, NEW c \in ChunkId, sub[t][c] # "off"
  PROVE  pc[t] # "idle" /\ record[t] \in PendingDownloadRecord
BY DEF TypeOK, NoSubtasks

\* A step that only moves a subtask.
LEMMA SubType ==
  ASSUME TypeOK, NEW t \in Task, NEW c \in ChunkId, NEW s \in SubState,
         sub[t][c] # "off", SetSub(t, c, s), OnlySub, UNCHANGED <<disk, owners>>,
         cut' \subseteq Dir \X ChunkId, mishaps' \in Nat
  PROVE  TypeOK'
<1>1. pc[t] # "idle"  BY SubtaskRuns
<1>2. sub' \in [Task -> [ChunkId -> SubState]]  BY DEF TypeOK, SetSub
<1>3. \A u \in Task : pc[u] = "idle" => sub'[u] = NoSubtasks
  BY <1>1 DEF TypeOK, SetSub
<1>. QED  BY <1>2, <1>3 DEF TypeOK, OnlySub, store, disk, scan

LEMMA ChunkType ==
  ASSUME TypeOK, NEW t \in Task, NEW c \in ChunkId,
         ChunkStep(t, c) \/ Reply(t, c) \/ WriteFails(t, c)
  PROVE  TypeOK'
<1>. USE ConstantsAssumption
<1>1. CASE Acquire(t, c)
  BY <1>1, SubType DEF Acquire, AcquireUnbounded, SubState, TypeOK
<1>2. CASE StartWrite(t, c)
  <2>1. pc[t] # "idle" /\ sub[t][c] # "off"  BY <1>2, SubtaskRuns DEF StartWrite
  <2>2. chunkFile' \in [Dir -> [ChunkId -> Content]]
    BY <1>2 DEF StartWrite, TypeOK, Content
  <2>3. sub' \in [Task -> [ChunkId -> SubState]]
    BY <1>2 DEF StartWrite, TypeOK, SetSub, SubState
  <2>4. \A u \in Task : pc[u] = "idle" => sub'[u] = NoSubtasks
    BY <1>2, <2>1 DEF StartWrite, TypeOK, SetSub
  <2>. QED  BY <1>2, <2>2, <2>3, <2>4 DEF StartWrite, TypeOK, OnlySub, store, scan
<1>3. CASE Reject(t, c)
  BY <1>3, SubType DEF Reject, SubState, TypeOK
<1>10. CASE Verify(t, c)
  BY <1>10, SubType DEF Verify, Correct, SubState, TypeOK
<1>4. CASE WriteDone(t, c)
  <2>1. pc[t] # "idle" /\ record[t] \in PendingDownloadRecord
    BY <1>4, SubtaskRuns DEF WriteDone
  <2>2. chunkFile' \in [Dir -> [ChunkId -> Content]]
    BY <1>4, <2>1 DEF WriteDone, TypeOK, Content, PendingDownloadRecord
  <2>3. sub' \in [Task -> [ChunkId -> SubState]]
    BY <1>4 DEF WriteDone, TypeOK, SetSub, SubState
  <2>4. \A u \in Task : pc[u] = "idle" => sub'[u] = NoSubtasks
    BY <1>4, <2>1 DEF WriteDone, TypeOK, SetSub
  <2>. QED  BY <1>4, <2>2, <2>3, <2>4 DEF WriteDone, TypeOK, OnlySub, store, scan
<1>5. CASE JoinSome(t, c)
  <2>1. pc[t] # "idle" /\ record[t] \in PendingDownloadRecord
    BY <1>5, SubtaskRuns DEF JoinSome
  <2>2. [record[t] EXCEPT !.chunks = @ \cup {c}] \in PendingDownloadRecord
    BY <2>1 DEF PendingDownloadRecord
  <2>3. record' \in [Task -> PendingDownloadRecord \cup {None}]
    BY <1>5, <2>2 DEF JoinSome, TypeOK
  <2>4. /\ pending' \in [File -> PendingDownloadRecord \cup {None}]
        /\ published' = published /\ mishaps' \in Nat
    <3>. DEFINE r == [record[t] EXCEPT !.chunks = @ \cup {c}]
    <3>1. CASE pending' = [pending EXCEPT ![r.key] = r] /\ UNCHANGED <<published, mishaps>>
      BY <3>1, <2>2 DEF TypeOK
    <3>2. CASE StoreFails
      BY <3>2 DEF StoreFails, Mishap, store, TypeOK
    <3>. QED  BY <1>5, <3>1, <3>2 DEF JoinSome
  <2>5. sub' \in [Task -> [ChunkId -> SubState]]
    BY <1>5 DEF JoinSome, TypeOK, SetSub, SubState
  <2>6. \A u \in Task : IF pc[u] = "idle" THEN record'[u] = None /\ sub'[u] = NoSubtasks
                                         ELSE record'[u] \in PendingDownloadRecord
    BY <1>5, <2>1, <2>2 DEF JoinSome, TypeOK, SetSub
  <2>. QED  BY <1>5, <2>3, <2>4, <2>5, <2>6 DEF JoinSome, TypeOK, disk, scan
<1>6. CASE JoinNone(t, c)
  BY <1>6, SubType DEF JoinNone, SubState, TypeOK
<1>7. CASE JoinError(t, c)
  <2>1. pc[t] # "idle"  BY <1>7 DEF JoinError
  <2>2. sub' \in [Task -> [ChunkId -> SubState]]
    BY <1>7 DEF JoinError, TypeOK, SetSub, SubState
  <2>3. \A u \in Task : pc[u] = "idle" => sub'[u] = NoSubtasks
    BY <1>7, <2>1 DEF JoinError, TypeOK, SetSub
  <2>. QED  BY <1>7, <2>2, <2>3 DEF JoinError, TypeOK, disk, scan, store
<1>8. CASE Reply(t, c)
  <2>1. CASE ReplyBytes(t, c, "good") \/ ReplyBytes(t, c, "bad")
    BY <2>1, SubType DEF ReplyBytes, SubState, TypeOK
  <2>2. CASE ReplyNone(t, c)
    BY <2>2, SubType DEF ReplyNone, SubState, TypeOK
  <2>3. CASE ReplyLost(t, c)
    <3>1. mishaps' \in Nat  BY <2>3 DEF ReplyLost, Mishap, TypeOK
    <3>. QED  BY <2>3, <3>1, SubType DEF ReplyLost, SubState, TypeOK
  <2>. QED  BY <1>8, <2>1, <2>2, <2>3 DEF Reply
<1>9. CASE WriteFails(t, c)
  <2>1. mishaps' \in Nat  BY <1>9 DEF WriteFails, Mishap, TypeOK
  <2>2. cut' \subseteq Dir \X ChunkId  BY <1>9 DEF WriteFails, Claimed, TypeOK
  <2>. QED  BY <1>9, <2>1, <2>2, SubType DEF WriteFails, SubState
<1>. QED  BY <1>1, <1>2, <1>3, <1>4, <1>5, <1>6, <1>7, <1>8, <1>9, <1>10 DEF ChunkStep

LEMMA TaskType ==
  ASSUME TypeOK, NEW t \in Task,
         \/ ReadMetadata(t) \/ DownloadReturns(t) \/ RestoreOriginalFile(t)
         \/ PutPublished(t) \/ DeletePending(t) \/ CompletionFails(t) \/ Leave(t)
  PROVE  TypeOK'
<1>1. CASE ReadMetadata(t)
  <2>1. record[t] \in PendingDownloadRecord /\ pc[t] # "idle"
    BY <1>1 DEF ReadMetadata, TypeOK
  <2>2. sub' \in [Task -> [ChunkId -> SubState]] /\ \A u \in Task \ {t} : sub'[u] = sub[u]
    <3>. DEFINE new == [c \in ChunkId |->
           IF c \in Chunks(meta[record[t].dir]) \ record[t].chunks THEN "wait" ELSE "off"]
    <3>1. new \in [ChunkId -> SubState]  BY DEF SubState
    <3>2. sub' = [sub EXCEPT ![t] = new] \/ sub' = sub  BY <1>1 DEF ReadMetadata
    <3>. HIDE DEF new
    <3>. QED  BY <3>1, <3>2 DEF TypeOK
  <2>3. proofs' \in [Task -> File \cup {None}]
    BY <1>1 DEF ReadMetadata, TypeOK
  <2>4. /\ pc' \in [Task -> TaskPc] /\ pc'[t] # "idle"
        /\ \A u \in Task \ {t} : pc'[u] = pc[u]
    <3>1. \E next \in {"join", "leave"} : pc' = [pc EXCEPT ![t] = next]
      BY <1>1 DEF ReadMetadata
    <3>. QED  BY <3>1 DEF TypeOK, TaskPc
  <2>5. \A u \in Task : IF pc'[u] = "idle" THEN record[u] = None /\ sub'[u] = NoSubtasks
                                          ELSE record[u] \in PendingDownloadRecord
    BY <2>1, <2>2, <2>4 DEF TypeOK
  <2>. QED  BY <1>1, <2>2, <2>3, <2>4, <2>5 DEF ReadMetadata, TypeOK, store, disk, scan
<1>2. CASE DownloadReturns(t)
  BY <1>2 DEF DownloadReturns, Goto, TypeOK, store, disk, scan, TaskPc
<1>3. CASE RestoreOriginalFile(t)
  <2>. DEFINE d == record[t].dir
              m == meta[d]
              bytes == [c \in ChunkId |-> IF c \in Chunks(m) THEN chunkFile[d][c] ELSE None]
  <2>1. record[t] \in PendingDownloadRecord /\ d \in Dir
    BY <1>3 DEF RestoreOriginalFile, TypeOK, PendingDownloadRecord
  <2>2. bytes \in [ChunkId -> Content]
    BY <2>1 DEF TypeOK, Content
  <2>3. restored' \in [Path \X Name -> [ChunkId -> Content] \cup {None}]
    <3>1. restored' = restored \/ restored' = [restored EXCEPT ![FileAt(d, m)] = bytes]
      BY <1>3 DEF RestoreOriginalFile
    <3>. HIDE DEF bytes
    <3>. QED  BY <2>2, <3>1 DEF TypeOK
  <2>4. pc' \in [Task -> TaskPc] /\ \A u \in Task : pc'[u] = "idle" <=> pc[u] = "idle"
    BY <1>3 DEF RestoreOriginalFile, Goto, TypeOK, TaskPc
  <2>5. UNCHANGED <<store, meta, chunkFile, mishaps, history, scan, active, record, proofs,
                    failed, sub, call>>
    BY <1>3 DEF RestoreOriginalFile, Goto
  <2>. HIDE DEF d, m, bytes
  <2>6. \A u \in Task : IF pc'[u] = "idle" THEN record'[u] = None /\ sub'[u] = NoSubtasks
                                          ELSE record'[u] \in PendingDownloadRecord
    BY <2>4, <2>5 DEF TypeOK
  <2>. QED  BY <2>3, <2>4, <2>5, <2>6, SMTT(30) DEF TypeOK, store, scan
<1>4. CASE PutPublished(t)
  BY <1>4 DEF PutPublished, Goto, TypeOK, disk, scan, TaskPc, PendingDownloadRecord
<1>5. CASE DeletePending(t)
  BY <1>5 DEF DeletePending, Goto, TypeOK, disk, scan, TaskPc, PendingDownloadRecord
<1>6. CASE CompletionFails(t)
  BY <1>6 DEF CompletionFails, StoreFails, Mishap, Goto, TypeOK, store, disk, scan, TaskPc
<1>7. CASE Leave(t)
  BY <1>7 DEF Leave, TypeOK, store, disk, scan, TaskPc, NoSubtasks, SubState
<1>. QED  BY <1>1, <1>2, <1>3, <1>4, <1>5, <1>6, <1>7

CallOK ==
  /\ call \in [Call -> [pc : CallPc, file : File \cup {None}, path : Path \cup {None}]]
  /\ \A k \in Call : call[k].pc \notin {"new", "failed"} =>
                       call[k].file \in File /\ call[k].path \in Path

\* A call under way goes on or ends.
LEMMA CallMoves ==
  ASSUME TypeOK, NEW k \in Call, call[k].pc \notin {"new", "failed"},
         NEW next \in CallPc, CallGoes(k, next) \/ CallEnds(k)
  PROVE  CallOK'
<1>1. CASE CallGoes(k, next)
  BY <1>1 DEF CallGoes, TypeOK, CallOK
<1>2. CASE CallEnds(k)
  BY <1>2 DEF CallEnds, NoCall, CallPc, TypeOK, CallOK
<1>. QED  BY <1>1, <1>2

\* A step that only moves a call.
LEMMA OnlyCallType ==
  ASSUME TypeOK, CallOK', UNCHANGED <<store, disk, scan, active, tasks, history>>,
         mishaps' \in Nat
  PROVE  TypeOK'
<1>1. UNCHANGED <<pending, published, meta, chunkFile, restored, scanning, snapshot, active,
                  pc, record, proofs, failed, sub, owners, cut>>
  BY DEF store, disk, scan, tasks
<1>. QED  BY <1>1, SMTT(30) DEF TypeOK, CallOK

LEMMA CallType ==
  ASSUME TypeOK, NEW k \in Call, CallStep(k)
  PROVE  TypeOK'
<1>. USE DEF OnlyCall, CallGoes, CallEnds, CallGoesIf, NoCall, CallPc
<1>1. ASSUME NEW f \in File, NEW p \in Path, CheckPublished(k, f, p)  PROVE TypeOK'
  <2>1. CallOK'  BY <1>1 DEF CheckPublished, TypeOK, CallOK
  <2>. QED  BY <1>1, <2>1, OnlyCallType DEF CheckPublished, TypeOK
<1>2. CASE CheckPending(k)
  <2>1. CallOK'  BY <1>2, CallMoves DEF CheckPending
  <2>. QED  BY <1>2, <2>1, OnlyCallType DEF CheckPending, TypeOK
<1>3. CASE ReceiveMetadata(k)
  <2>1. CallOK'  BY <1>3, CallMoves DEF ReceiveMetadata
  <2>. QED  BY <1>3, <2>1, OnlyCallType DEF ReceiveMetadata, TypeOK
<1>4. CASE CheckFileExists(k)
  <2>1. CallOK'  BY <1>4, CallMoves DEF CheckFileExists
  <2>. QED  BY <1>4, <2>1, OnlyCallType DEF CheckFileExists, TypeOK
<1>5. CASE CreateMetadata(k)
  <2>1. CallOK'  BY <1>5, CallMoves DEF CreateMetadata
  <2>2. meta' \in [Dir -> Content]  BY <1>5 DEF CreateMetadata, TypeOK, Content
  <2>3. owners' \in [Dir -> SUBSET File]  BY <1>5 DEF CreateMetadata, TypeOK
  <2>. QED  BY <1>5, <2>1, <2>2, <2>3, SMTT(30) DEF CreateMetadata, TypeOK, CallOK, store, scan, tasks
<1>6. CASE FillMetadata(k)
  <2>1. CallOK'  BY <1>6, CallMoves DEF FillMetadata
  <2>2. meta' \in [Dir -> Content]
    <3>1. call[k].file \in Content  BY <1>6 DEF FillMetadata, TypeOK, Content
    <3>. QED  BY <1>6, <3>1 DEF FillMetadata, TypeOK
  <2>. QED  BY <1>6, <2>1, <2>2, SMTT(30) DEF FillMetadata, TypeOK, CallOK, store, scan, tasks
<1>7. CASE PutPending(k)
  <2>1. call[k].file \in File /\ call[k].path \in Path  BY <1>7 DEF PutPending, TypeOK
  <2>2. CallDir(k) \in Dir
    BY <2>1, ConstantsAssumption DEF CallDir, DirOf, Dir
  <2>3. pending' \in [File -> PendingDownloadRecord \cup {None}]
    BY <1>7, <2>1, <2>2 DEF PutPending, TypeOK, PendingDownloadRecord
  <2>. QED  BY <1>7, <2>3 DEF PutPending, TypeOK, disk, scan, tasks
<1>8. CASE CallFails(k)
  <2>1. CallOK'  BY <1>8, CallMoves DEF CallFails
  <2>. QED  BY <1>8, <2>1, OnlyCallType DEF CallFails, TypeOK
<1>9. CASE FillMetadataFails(k)
  <2>1. CallOK'  BY <1>9, CallMoves DEF FillMetadataFails
  <2>. QED  BY <1>9, <2>1, OnlyCallType DEF FillMetadataFails, Mishap, TypeOK
<1>. QED  BY <1>1, <1>2, <1>3, <1>4, <1>5, <1>6, <1>7, <1>8, <1>9 DEF CallStep

LEMMA CrashType ==
  ASSUME TypeOK, Crash
  PROVE  TypeOK'
<1>1. CallOK'  BY DEF Crash, TypeOK, CallOK, NoCall, CallPc
<1>2. sub' \in [Task -> [ChunkId -> SubState]]  BY DEF Crash, NoSubtasks, SubState
<1>3. mishaps' \in Nat  BY DEF Crash, Mishap, TypeOK
<1>4. pc' \in [Task -> TaskPc]  BY DEF Crash, TaskPc
<1>5. cut' \subseteq Dir \X ChunkId  BY DEF Crash, Claimed, BeingWritten, TypeOK
<1>. QED  BY <1>1, <1>2, <1>3, <1>4, <1>5 DEF Crash, CallOK, TypeOK, store, disk

\* Every variable keeps its type (the record types of file_store/domain.rs and
\* the states of the tasks and calls).
THEOREM TypeCorrect == Spec => []TypeOK
<1>1. Init => TypeOK
  <2>. SUFFICES ASSUME Init  PROVE TypeOK
    OBVIOUS
  <2>1. CallOK  BY DEF Init, CallOK, NoCall, CallPc
  <2>2. sub \in [Task -> [ChunkId -> SubState]]  BY DEF Init, NoSubtasks, SubState
  <2>3. meta \in [Dir -> Content] /\ chunkFile \in [Dir -> [ChunkId -> Content]]
    BY DEF Init, Content
  <2>4. pc \in [Task -> TaskPc]  BY DEF Init, TaskPc
  <2>. QED  BY <2>1, <2>2, <2>3, <2>4 DEF Init, TypeOK, CallOK
<1>2. TypeOK /\ [Next]_vars => TypeOK'
  <2>. SUFFICES ASSUME TypeOK, [Next]_vars  PROVE TypeOK'
    OBVIOUS
  <2>1. CASE Next
    BY <2>1, ScanType, TaskType, ChunkType, CallType, CrashType DEF Next, TaskStep
  <2>2. CASE UNCHANGED vars
    BY <2>2 DEF TypeOK, vars, store, disk, scan, tasks
  <2>. QED  BY <2>1, <2>2
<1>. QED  BY <1>1, <1>2, PTL DEF Spec

-----------------------------------------------------------------------------
(* One task per file.                                                       *)

Running == {t \in Task : pc[t] # "idle"}

\* What OneTaskPerFile depends on is the same before and after.
SameTasks ==
  /\ active' = active
  /\ \A t \in Task : pc'[t] = "idle" <=> pc[t] = "idle"
  /\ \A t \in Task : pc[t] # "idle" => record'[t].key = record[t].key

LEMMA SameTasksKeep ==
  ASSUME OneTaskPerFile, SameTasks
  PROVE  OneTaskPerFile'
BY DEF OneTaskPerFile, SameTasks

\* All steps but the spawn and the end of a task, and a crash, leave
\* active_downloads and the set of running tasks alone.
LEMMA OtherStepsSameTasks ==
  ASSUME TypeOK, [Next]_vars, ~Crash,
         ~ \E r \in snapshot, t \in Task : ScanSpawn(r, t),
         ~ \E t \in Task : Leave(t)
  PROVE  SameTasks
<1>. USE DEF SameTasks
<1>1. CASE WorkOnPendingDownloads \/ ScanStep
  BY <1>1 DEF WorkOnPendingDownloads, ScanStep, ScanStop, ScanSkip, tasks
<1>2. ASSUME NEW k \in Call, CallStep(k)  PROVE SameTasks
  BY <1>2 DEF CallStep, CheckPublished, CheckPending, ReceiveMetadata, CheckFileExists,
       CreateMetadata, FillMetadata, PutPending, CallFails, FillMetadataFails, OnlyCall, tasks
<1>3. ASSUME NEW t \in Task, NEW c \in ChunkId,
             Reply(t, c) \/ WriteFails(t, c) \/ Acquire(t, c) \/ Verify(t, c) \/ Reject(t, c) \/ StartWrite(t, c)
               \/ WriteDone(t, c) \/ JoinNone(t, c)
      PROVE  SameTasks
  BY <1>3 DEF Reply, ReplyBytes, ReplyNone, ReplyLost, WriteFails, Acquire, AcquireUnbounded,
       Verify, StartWrite, Reject, WriteDone, JoinNone, OnlySub
<1>4. ASSUME NEW t \in Task, NEW c \in ChunkId, JoinSome(t, c) \/ JoinError(t, c)
      PROVE  SameTasks
  <2>1. CASE JoinError(t, c)
    BY <2>1 DEF JoinError
  <2>2. CASE JoinSome(t, c)
    <3>1. record[t] \in PendingDownloadRecord  BY <2>2, SubtaskRuns DEF JoinSome
    <3>2. [record[t] EXCEPT !.chunks = @ \cup {c}].key = record[t].key
      BY <3>1 DEF PendingDownloadRecord
    <3>. QED  BY <2>2, <3>2 DEF JoinSome, TypeOK
  <2>. QED  BY <1>4, <2>1, <2>2
<1>5. ASSUME NEW t \in Task,
             ReadMetadata(t) \/ DownloadReturns(t) \/ RestoreOriginalFile(t)
               \/ PutPublished(t) \/ DeletePending(t) \/ CompletionFails(t)
      PROVE  SameTasks
  <2>1. /\ active' = active /\ record' = record
        /\ pc[t] # "idle"
        /\ \E next \in TaskPc \ {"idle"} : pc' = [pc EXCEPT ![t] = next]
    BY <1>5 DEF ReadMetadata, DownloadReturns, RestoreOriginalFile, PutPublished,
         DeletePending, CompletionFails, Goto, TaskPc
  <2>. QED  BY <2>1 DEF TypeOK
<1>6. CASE UNCHANGED vars
  BY <1>6 DEF vars, tasks
<1>. QED  BY <1>1, <1>2, <1>3, <1>4, <1>5, <1>6 DEF Next, TaskStep, ChunkStep, ScanStep

\* active_downloads holds exactly the keys of the running tasks and no two
\* tasks download one file, however scans, failures and crashes interleave
\* (file_download_service.rs:50-54, 85-88).
THEOREM OneTask == Spec => []OneTaskPerFile
<1>1. Init => OneTaskPerFile
  BY DEF Init, OneTaskPerFile
<1>2. TypeOK /\ OneTaskPerFile /\ [Next]_vars => OneTaskPerFile'
  <2>. SUFFICES ASSUME TypeOK, OneTaskPerFile, [Next]_vars  PROVE OneTaskPerFile'
    OBVIOUS
  <2>1. ASSUME NEW r \in snapshot, NEW t \in Task, ScanSpawn(r, t)
        PROVE  OneTaskPerFile'
    <3>1. /\ r.key \notin active /\ active' = active \cup {r.key} /\ pc[t] = "idle"
          /\ pc' = [pc EXCEPT ![t] = "read"] /\ record' = [record EXCEPT ![t] = r]
      BY <2>1 DEF ScanSpawn, Spawn
    <3>. QED  BY <3>1 DEF OneTaskPerFile, TypeOK
  <2>2. ASSUME NEW t \in Task, Leave(t)  PROVE OneTaskPerFile'
    <3>1. /\ pc[t] = "leave" /\ active' = active \ {record[t].key}
          /\ pc' = [pc EXCEPT ![t] = "idle"] /\ record' = [record EXCEPT ![t] = None]
      BY <2>2 DEF Leave
    <3>. QED  BY <3>1 DEF OneTaskPerFile, TypeOK
  <2>3. CASE Crash
    BY <2>3 DEF Crash, OneTaskPerFile
  <2>. QED  BY <2>1, <2>2, <2>3, OtherStepsSameTasks, SameTasksKeep
<1>. QED  BY <1>1, <1>2, TypeCorrect, PTL DEF Spec

-----------------------------------------------------------------------------
(* A pending download leaves the store only for a published file.           *)

PublishedBeforeUnpend ==
  \A t \in Task : pc[t] = "unpend" => published[record[t].key] # None

LEMMA PublishedStays ==
  ASSUME TypeOK, [Next]_vars, NEW f \in File, published[f] # None
  PROVE  published'[f] # None
<1>1. CASE WorkOnPendingDownloads \/ ScanStop \/ UNCHANGED vars
  BY <1>1 DEF WorkOnPendingDownloads, ScanStop, vars, store
<1>2. ASSUME NEW r \in snapshot, ScanSkip(r) \/ \E u \in Task : ScanSpawn(r, u)
      PROVE  published' = published
  BY <1>2 DEF ScanSkip, ScanSpawn, Spawn, store
<1>3. ASSUME NEW t \in Task, NEW c \in ChunkId, ChunkStep(t, c)
      PROVE  published' = published
  <2>1. CASE Acquire(t, c) \/ Verify(t, c) \/ Reject(t, c) \/ StartWrite(t, c) \/ WriteDone(t, c)
    BY <2>1 DEF Acquire, AcquireUnbounded, Verify, StartWrite, Reject, WriteDone,
       OnlySub, store
  <2>2. CASE JoinSome(t, c)
    BY <2>2 DEF JoinSome, StoreFails, store
  <2>3. CASE JoinNone(t, c) \/ JoinError(t, c)
    BY <2>3 DEF JoinNone, JoinError, OnlySub, store
  <2>. QED  BY <1>3, <2>1, <2>2, <2>3 DEF ChunkStep
<1>4. ASSUME NEW t \in Task, NEW c \in ChunkId, Reply(t, c) \/ WriteFails(t, c)
      PROVE  published' = published
  BY <1>4 DEF Reply, ReplyBytes, ReplyNone, ReplyLost, WriteFails, OnlySub, store
<1>5. ASSUME NEW t \in Task,
             \/ ReadMetadata(t) \/ DownloadReturns(t) \/ RestoreOriginalFile(t)
             \/ DeletePending(t) \/ CompletionFails(t) \/ Leave(t)
      PROVE  published' = published
  BY <1>5 DEF ReadMetadata, DownloadReturns, RestoreOriginalFile, DeletePending,
     CompletionFails, StoreFails, Leave, store
<1>6. ASSUME NEW t \in Task, PutPublished(t)  PROVE published'[f] # None
  BY <1>6, ConstantsAssumption DEF PutPublished, TypeOK, PendingDownloadRecord, Dir
<1>7. ASSUME NEW k \in Call, CallStep(k)  PROVE published' = published
  BY <1>7 DEF CallStep, CheckPublished, CheckPending, ReceiveMetadata, CheckFileExists,
     CreateMetadata, FillMetadata, PutPending, CallFails, FillMetadataFails, store
<1>8. CASE Crash
  BY <1>8 DEF Crash, store
<1>. QED
  BY <1>1, <1>2, <1>3, <1>4, <1>5, <1>6, <1>7, <1>8 DEF Next, ScanStep, TaskStep

\* Only PutPublished leads to the deletion of the record.
LEMMA BeforeUnpend ==
  ASSUME TypeOK, [Next]_vars, NEW t \in Task, pc'[t] = "unpend"
  PROVE  PutPublished(t) \/ (pc[t] = "unpend" /\ record'[t] = record[t])
<1>1. CASE (WorkOnPendingDownloads \/ ScanStop \/ UNCHANGED vars)
  BY <1>1 DEF WorkOnPendingDownloads, ScanStop, vars, tasks
<1>2. ASSUME NEW r \in snapshot, ScanSkip(r) \/ \E u \in Task : ScanSpawn(r, u)
      PROVE  pc[t] = "unpend" /\ record'[t] = record[t]
  BY <1>2 DEF ScanSkip, ScanSpawn, Spawn, tasks, TypeOK
<1>3. ASSUME NEW u \in Task, NEW c \in ChunkId,
             ChunkStep(u, c) \/ Reply(u, c) \/ WriteFails(u, c)
      PROVE  pc[t] = "unpend" /\ record'[t] = record[t]
  BY <1>3 DEF ChunkStep, Acquire, AcquireUnbounded, Verify, StartWrite, Reject, WriteDone,
     JoinSome, JoinNone, JoinError, Reply, ReplyBytes, ReplyNone, ReplyLost, WriteFails,
     OnlySub, TypeOK
<1>4. ASSUME NEW u \in Task,
             \/ ReadMetadata(u) \/ DownloadReturns(u) \/ RestoreOriginalFile(u)
             \/ DeletePending(u) \/ CompletionFails(u) \/ Leave(u)
      PROVE  pc[t] = "unpend" /\ record'[t] = record[t]
  BY <1>4 DEF ReadMetadata, DownloadReturns, RestoreOriginalFile, DeletePending,
     CompletionFails, Leave, Goto, TypeOK
<1>5. ASSUME NEW u \in Task, PutPublished(u), u # t
      PROVE  pc[t] = "unpend" /\ record'[t] = record[t]
  BY <1>5 DEF PutPublished, Goto, TypeOK
<1>6. ASSUME NEW k \in Call, CallStep(k)
      PROVE  pc[t] = "unpend" /\ record'[t] = record[t]
  BY <1>6 DEF CallStep, CheckPublished, CheckPending, ReceiveMetadata, CheckFileExists,
       CreateMetadata, FillMetadata, PutPending, CallFails, FillMetadataFails, OnlyCall, tasks
<1>7. CASE Crash
  BY <1>7 DEF Crash
<1>. QED  BY <1>1, <1>2, <1>3, <1>4, <1>5, <1>6, <1>7 DEF Next, ScanStep, TaskStep

\* Only DeletePending removes a pending record.
LEMMA OnlyDeleteRemoves ==
  ASSUME TypeOK, [Next]_vars, NEW f \in File, pending[f] # None, pending'[f] = None
  PROVE  \E t \in Task : DeletePending(t) /\ record[t].key = f
<1>1. ASSUME NEW t \in Task, DeletePending(t)  PROVE record[t].key = f
  BY <1>1 DEF DeletePending, TypeOK
<1>2. ASSUME NEW t \in Task, NEW c \in ChunkId, JoinSome(t, c)  PROVE FALSE
  <2>1. record[t] \in PendingDownloadRecord  BY <1>2, SubtaskRuns DEF JoinSome
  <2>. DEFINE r == [record[t] EXCEPT !.chunks = @ \cup {c}]
  <2>2. r \in PendingDownloadRecord
    BY <2>1 DEF PendingDownloadRecord
  <2>3. r # None  BY <2>2, ConstantsAssumption
  <2>4. pending' = [pending EXCEPT ![r.key] = r] \/ pending' = pending
    BY <1>2 DEF JoinSome, StoreFails, store
  <2>. HIDE DEF r
  <2>. QED  BY <2>3, <2>4 DEF TypeOK
<1>3. ASSUME NEW k \in Call, PutPending(k)  PROVE FALSE
  <2>. DEFINE r == [key |-> call[k].file, dir |-> CallDir(k), chunks |-> {}]
  <2>1. call[k].file \in File /\ call[k].path \in Path  BY <1>3 DEF PutPending, TypeOK
  <2>2. r \in PendingDownloadRecord
    BY <2>1, ConstantsAssumption DEF CallDir, DirOf, Dir, PendingDownloadRecord
  <2>3. r # None  BY <2>2, ConstantsAssumption
  <2>. QED  BY <1>3, <2>1, <2>3 DEF PutPending, TypeOK
<1>4. CASE WorkOnPendingDownloads \/ ScanStop \/ UNCHANGED vars
  BY <1>4 DEF WorkOnPendingDownloads, ScanStop, vars, store
<1>5. ASSUME NEW r \in snapshot, ScanSkip(r) \/ \E u \in Task : ScanSpawn(r, u)
      PROVE  FALSE
  BY <1>5 DEF ScanSkip, ScanSpawn, Spawn, store
<1>6. ASSUME NEW t \in Task, NEW c \in ChunkId,
             \/ Acquire(t, c) \/ Verify(t, c) \/ Reject(t, c) \/ StartWrite(t, c) \/ WriteDone(t, c)
             \/ JoinNone(t, c) \/ JoinError(t, c)
      PROVE  FALSE
  BY <1>6 DEF Acquire, AcquireUnbounded, Verify, StartWrite, Reject, WriteDone,
     JoinNone, JoinError, OnlySub, store
<1>7. ASSUME NEW t \in Task, NEW c \in ChunkId, Reply(t, c) \/ WriteFails(t, c)
      PROVE  FALSE
  BY <1>7 DEF Reply, ReplyBytes, ReplyNone, ReplyLost, WriteFails, OnlySub, store
<1>8. ASSUME NEW t \in Task,
             \/ ReadMetadata(t) \/ DownloadReturns(t) \/ RestoreOriginalFile(t)
             \/ PutPublished(t) \/ CompletionFails(t) \/ Leave(t)
      PROVE  FALSE
  BY <1>8 DEF ReadMetadata, DownloadReturns, RestoreOriginalFile, PutPublished,
     CompletionFails, StoreFails, Leave, store
<1>9. ASSUME NEW k \in Call,
             \/ \E g \in File, p \in Path : <<g, p>> \in Asks[k] /\ CheckPublished(k, g, p)
             \/ CheckPending(k) \/ ReceiveMetadata(k) \/ CheckFileExists(k)
             \/ CreateMetadata(k) \/ FillMetadata(k)
             \/ CallFails(k) \/ FillMetadataFails(k)
      PROVE  FALSE
  BY <1>9 DEF CheckPublished, CheckPending, ReceiveMetadata, CheckFileExists,
     CreateMetadata, FillMetadata, CallFails, FillMetadataFails, store
<1>10. CASE Crash
  BY <1>10 DEF Crash, store
<1>. QED
  BY <1>1, <1>2, <1>3, <1>4, <1>5, <1>6, <1>7, <1>8, <1>9, <1>10
  DEF Next, ScanStep, TaskStep, ChunkStep, CallStep

\* No step removes a pending record whose file is not published, whatever
\* fails or restarts: process_completed publishes before it deletes
\* (file_download_service.rs:270-280).
THEOREM PendingIsNotLost == Spec => PendingBecomesPublished
<1>1. Init => PublishedBeforeUnpend
  BY DEF Init, PublishedBeforeUnpend
<1>2. TypeOK /\ PublishedBeforeUnpend /\ [Next]_vars => PublishedBeforeUnpend'
  <2>. SUFFICES ASSUME TypeOK, PublishedBeforeUnpend, [Next]_vars,
                       NEW t \in Task, pc'[t] = "unpend"
                PROVE  published'[record'[t].key] # None
    BY DEF PublishedBeforeUnpend
  <2>1. CASE PutPublished(t)
    BY <2>1, ConstantsAssumption DEF PutPublished, Goto, TypeOK, PendingDownloadRecord, Dir
  <2>2. CASE pc[t] = "unpend" /\ record'[t] = record[t]
    <3>1. record[t].key \in File  BY <2>2 DEF TypeOK, PendingDownloadRecord
    <3>. QED  BY <2>2, <3>1, PublishedStays DEF PublishedBeforeUnpend
  <2>. QED  BY <2>1, <2>2, BeforeUnpend
<1>3. TypeOK /\ PublishedBeforeUnpend /\ [Next]_vars =>
        [\A f \in File : pending[f] # None /\ pending'[f] = None => published[f] # None]_vars
  BY OnlyDeleteRemoves DEF PublishedBeforeUnpend, DeletePending
<1>. QED  BY <1>1, <1>2, <1>3, TypeCorrect, PTL DEF Spec, PendingBecomesPublished

-----------------------------------------------------------------------------
(* The disk.  A directory that only one file has been put into is written    *)
(* by that file's downloads alone, and there the store and the disk agree:  *)
(* every fact below about the bytes of a directory is about such a one.     *)

Own(r) == owners[r.dir] = {r.key}

\* Directories are owned by files whose names lead to them; records, calls and
\* metadata are where their file is an owner.
OwnersPlaced == \A d \in Dir : \A f \in owners[d] : d[2] = PrefixOf[NameOf[f]]
RecordsPlaced == \A r \in Records : r.key \in owners[r.dir]
MetadataPlaced == \A d \in Dir : meta[d] \in File => meta[d] \in owners[d]
CallsPlaced ==
  \A k \in Call : call[k].pc \in {"saving", "put"} => call[k].file \in owners[CallDir(k)]

ClaimsOfKey == \A r \in Records : Own(r) => r.chunks \subseteq Chunks(r.key)

\* A subtask works on a chunk of its file its record does not claim, and one
\* that has succeeded has written it.
SubtasksPlaced ==
  \A t \in Task, c \in ChunkId :
    /\ sub[t][c] \notin {"off", "joined"} => pc[t] = "join" /\ c \notin record[t].chunks
    /\ sub[t][c] # "off" /\ Own(record[t]) => c \in Chunks(record[t].key)
    /\ sub[t][c] = "some" /\ Own(record[t]) => chunkFile[record[t].dir][c] = record[t].key

ProofsOfKey ==
  \A t \in Task : pc[t] = "join" /\ Own(record[t]) => proofs[t] = record[t].key

RestoreReady ==
  \A t \in Task : pc[t] = "restore" /\ Own(record[t]) =>
    record[t].chunks = Chunks(record[t].key)

RestoredWhole ==
  \A p \in Path, f \in File : owners[DirOf(p, f)] \subseteq {f} =>
    restored[<<p, NameOf[f]>>] = None \/ RestoredIntact(DirOf(p, f), f)

RestoredBeforePublish ==
  \A t \in Task : pc[t] \in {"publish", "unpend"} /\ Own(record[t]) =>
    RestoredIntact(record[t].dir, record[t].key)

PublishedPlaced == \A f \in File : published[f] # None => f \in owners[published[f]]

Placed == OwnersPlaced /\ RecordsPlaced /\ MetadataPlaced /\ CallsPlaced /\ PublishedPlaced
ChunksInv == ClaimsOfKey /\ SubtasksPlaced /\ ProofsOfKey /\ RestoreReady /\ ClaimedChunksOnDisk
RestoredInv == RestoredWhole /\ RestoredBeforePublish /\ PublishedIsRestored
DiskInv == Placed /\ ChunksInv /\ RestoredInv

LEMMA RecordsType == ASSUME TypeOK PROVE Records \subseteq PendingDownloadRecord
BY DEF TypeOK, Records

LEMMA TaskRecord ==
  ASSUME TypeOK, NEW t \in Task, pc[t] # "idle"
  PROVE  /\ record[t] \in PendingDownloadRecord /\ record[t] \in Records
         /\ record[t].dir \in Dir /\ record[t].key \in File
         /\ record[t].chunks \subseteq ChunkId
<1>1. record[t] \in PendingDownloadRecord  BY DEF TypeOK
<1>. QED  BY <1>1, ConstantsAssumption DEF Records, PendingDownloadRecord

\* In the directory of a running task, metadata that parses is its own.
LEMMA MetadataIsOwn ==
  ASSUME TypeOK, MetadataPlaced, NEW t \in Task, pc[t] # "idle", Own(record[t]),
         meta[record[t].dir] \in File
  PROVE  meta[record[t].dir] = record[t].key
BY TaskRecord DEF MetadataPlaced, Own

\* Two running tasks never share a directory that one file owns.
LEMMA OneTaskPerDir ==
  ASSUME TypeOK, RecordsPlaced, OneTaskPerFile, NEW t \in Task, NEW u \in Task,
         pc[t] # "idle", pc[u] # "idle", Own(record[t]), record[t].dir = record[u].dir
  PROVE  t = u
<1>1. record[u] \in Records  BY TaskRecord
<1>2. record[t].key = record[u].key  BY <1>1 DEF RecordsPlaced, Own
<1>. QED  BY <1>2 DEF OneTaskPerFile

\* A restored file that stays as it is stays intact.
LEMMA IntactStays ==
  ASSUME NEW d \in Dir, NEW f \in File, RestoredIntact(d, f),
         restored'[FileAt(d, f)] = restored[FileAt(d, f)], cut \subseteq cut'
  PROVE  RestoredIntact(d, f)'
BY DEF RestoredIntact, FileAt

\* Steps that leave the published records, the restored files and the tasks
\* past their restore alone.
LEMMA RestoredStays ==
  ASSUME TypeOK, Placed, RestoredInv, UNCHANGED <<published, restored>>, cut \subseteq cut',
         \A d \in Dir : owners[d] \subseteq owners'[d],
         \A t \in Task : pc'[t] \in {"publish", "unpend"} =>
           pc[t] = pc'[t] /\ record'[t] = record[t]
  PROVE  RestoredInv'
<1>1. RestoredWhole'
  <2>. SUFFICES ASSUME NEW p \in Path, NEW f \in File, owners'[DirOf(p, f)] \subseteq {f},
                       restored'[<<p, NameOf[f]>>] # None
                PROVE  RestoredIntact(DirOf(p, f), f)'
    BY DEF RestoredWhole
  <2>1. DirOf(p, f) \in Dir  BY ConstantsAssumption DEF DirOf, Dir
  <2>2. RestoredIntact(DirOf(p, f), f)
    BY <2>1 DEF RestoredInv, RestoredWhole
  <2>. QED  BY <2>1, <2>2, IntactStays
<1>2. RestoredBeforePublish'
  <2>. SUFFICES ASSUME NEW t \in Task, pc'[t] \in {"publish", "unpend"}, Own(record[t])'
                PROVE  RestoredIntact(record[t].dir, record[t].key)'
    BY DEF RestoredBeforePublish
  <2>1. /\ pc[t] = pc'[t] /\ record'[t] = record[t] /\ pc[t] # "idle"
        /\ record[t].key \in owners[record[t].dir]
    BY TaskRecord DEF Placed, RecordsPlaced
  <2>2. record[t].dir \in Dir /\ record[t].key \in File  BY <2>1, TaskRecord
  <2>3. Own(record[t])  BY <2>1, <2>2 DEF Own
  <2>4. RestoredIntact(record[t].dir, record[t].key)
    BY <2>1, <2>3 DEF RestoredInv, RestoredBeforePublish
  <2>. QED  BY <2>1, <2>2, <2>4, IntactStays
<1>3. PublishedIsRestored'
  <2>. SUFFICES ASSUME NEW f \in File, published[f] # None, ~SharedDir(published[f], f)'
                PROVE  RestoredIntact(published[f], f)'
    BY DEF PublishedIsRestored
  <2>1. published[f] \in Dir  BY DEF TypeOK
  <2>2. owners[published[f]] = {f}
    BY <2>1 DEF Placed, PublishedPlaced, SharedDir
  <2>. QED  BY <2>1, <2>2, IntactStays DEF RestoredInv, PublishedIsRestored, SharedDir
<1>. QED  BY <1>1, <1>2, <1>3 DEF RestoredInv


\* Steps that leave the placed things where they are.
LEMMA PlacedStays ==
  ASSUME TypeOK, Placed, UNCHANGED <<published, meta, owners>>,
         \A r \in Records' : \E q \in Records : q.key = r.key /\ q.dir = r.dir,
         \A k \in Call : call'[k].pc \in {"saving", "put"} => call'[k] = call[k]
  PROVE  Placed'
<1>1. OwnersPlaced' /\ MetadataPlaced' /\ PublishedPlaced'
  BY DEF Placed, OwnersPlaced, MetadataPlaced, PublishedPlaced
<1>2. RecordsPlaced'
  BY DEF Placed, RecordsPlaced
<1>3. CallsPlaced'
  BY DEF Placed, CallsPlaced, CallDir
<1>. QED  BY <1>1, <1>2, <1>3 DEF Placed

\* A record that is its directory's only owner afterwards was so before.
LEMMA OwnBefore ==
  ASSUME TypeOK, Placed, NEW r \in Records, \A d \in Dir : owners[d] \subseteq owners'[d],
         owners'[r.dir] = {r.key}
  PROVE  Own(r)
<1>1. r.dir \in Dir /\ r.key \in owners[r.dir]
  BY RecordsType DEF Placed, RecordsPlaced, PendingDownloadRecord
<1>. QED  BY <1>1 DEF Own

\* The claims hold on when no chunk file changes and no record is new.
LEMMA ClaimsStay ==
  ASSUME TypeOK, Placed, ChunksInv, Records' \subseteq Records, UNCHANGED chunkFile,
         \A d \in Dir : owners[d] \subseteq owners'[d],
         cut \subseteq cut', BeingWritten \cap Claimed \subseteq BeingWritten' \cup cut'
  PROVE  ClaimsOfKey' /\ ClaimedChunksOnDisk'
<1>1. ClaimsOfKey'
  BY OwnBefore DEF ChunksInv, ClaimsOfKey, Own
<1>2. ASSUME NEW r \in Records', NEW c \in r.chunks, ~SharedDir(r.dir, r.key)'
      PROVE  chunkFile'[r.dir][c] = r.key \/ <<r.dir, c>> \in BeingWritten' \cup cut'
  <2>1. r \in Records /\ r.dir \in Dir /\ c \in ChunkId
    BY <1>2, RecordsType DEF PendingDownloadRecord
  <2>2. ~SharedDir(r.dir, r.key)
    BY <1>2, <2>1, OwnBefore DEF SharedDir, Own
  <2>3. chunkFile[r.dir][c] = r.key \/ <<r.dir, c>> \in BeingWritten \cup cut
    BY <1>2, <2>1, <2>2 DEF ChunksInv, ClaimedChunksOnDisk
  <2>4. <<r.dir, c>> \in Claimed  BY <1>2, <2>1 DEF Claimed
  <2>. QED  BY <2>3, <2>4
<1>. QED  BY <1>1, <1>2 DEF ClaimedChunksOnDisk

\* Steps that leave the tasks and the chunk files alone.
LEMMA TasksStay ==
  ASSUME TypeOK, Placed, ChunksInv, UNCHANGED <<chunkFile, tasks>>,
         \A d \in Dir : owners[d] \subseteq owners'[d]
  PROVE  SubtasksPlaced' /\ ProofsOfKey' /\ RestoreReady'
<1>1. ASSUME NEW t \in Task, pc[t] # "idle", Own(record[t])'  PROVE Own(record[t])
  BY <1>1, TaskRecord, OwnBefore DEF Own, tasks
<1>2. \A t \in Task, c \in ChunkId : sub[t][c] # "off" => pc[t] # "idle"
  BY SubtaskRuns
<1>3. SubtasksPlaced'
  BY <1>1, <1>2 DEF tasks, ChunksInv, SubtasksPlaced
<1>4. ProofsOfKey' /\ RestoreReady'
  BY <1>1 DEF tasks, ChunksInv, ProofsOfKey, RestoreReady
<1>. QED  BY <1>3, <1>4

\* The scan: records are only copied or dropped, a spawned task has no subtask.
LEMMA ScanDisk ==
  ASSUME TypeOK, DiskInv, WorkOnPendingDownloads \/ ScanStep
  PROVE  DiskInv'
<1>1. CASE WorkOnPendingDownloads \/ ScanStop \/ \E r \in snapshot : ScanSkip(r)
  <2>1. UNCHANGED <<store, disk, tasks, call, owners, cut>>
    BY <1>1 DEF WorkOnPendingDownloads, ScanStop, ScanSkip
  <2>2. Records' \subseteq Records
    BY <1>1, <2>1 DEF WorkOnPendingDownloads, ScanStop, ScanSkip, Records, store, tasks
  <2>3. BeingWritten' = BeingWritten  BY <2>1 DEF BeingWritten, tasks
  <2>4. Placed'  BY <2>1, <2>2, PlacedStays DEF DiskInv, store, disk
  <2>5. ChunksInv'
    BY <2>1, <2>2, <2>3, ClaimsStay, TasksStay DEF DiskInv, ChunksInv, disk
  <2>6. RestoredInv'
    BY <2>1, RestoredStays DEF DiskInv, store, disk, tasks
  <2>. QED  BY <2>4, <2>5, <2>6 DEF DiskInv
<1>2. ASSUME NEW r \in snapshot, NEW t \in Task, ScanSpawn(r, t)  PROVE DiskInv'
  <2>1. /\ UNCHANGED <<store, disk, proofs, sub, call, owners, cut>> /\ pc[t] = "idle"
        /\ pc' = [pc EXCEPT ![t] = "read"] /\ record' = [record EXCEPT ![t] = r]
    BY <1>2 DEF ScanSpawn, Spawn
  <2>2. \A c \in ChunkId : sub[t][c] = "off"
    BY <2>1 DEF TypeOK, NoSubtasks
  <2>3. Records' \subseteq Records
    BY <1>2, <2>1, ConstantsAssumption DEF ScanSpawn, Spawn, Records, store, TypeOK
  <2>4. BeingWritten \subseteq BeingWritten'
    BY <2>1, <2>2 DEF BeingWritten, TypeOK
  <2>5. Placed'  BY <2>1, <2>3, PlacedStays DEF DiskInv, store, disk
  <2>6. ClaimsOfKey' /\ ClaimedChunksOnDisk'
    BY <2>1, <2>3, <2>4, ClaimsStay DEF DiskInv, disk
  <2>7. SubtasksPlaced' /\ ProofsOfKey' /\ RestoreReady'
    <3>1. /\ pc'[t] = "read" /\ UNCHANGED chunkFile
          /\ \A u \in Task \ {t} : pc'[u] = pc[u] /\ record'[u] = record[u]
      BY <2>1 DEF TypeOK, disk
    <3>2. SubtasksPlaced'
      BY <2>1, <2>2, <3>1 DEF DiskInv, ChunksInv, SubtasksPlaced, Own
    <3>3. ProofsOfKey' /\ RestoreReady'
      BY <2>1, <3>1 DEF DiskInv, ChunksInv, ProofsOfKey, RestoreReady, Own
    <3>. QED  BY <3>2, <3>3
  <2>8. RestoredInv'
    <3>1. \A u \in Task : pc'[u] \in {"publish", "unpend"} => pc[u] = pc'[u] /\ record'[u] = record[u]
      BY <2>1 DEF TypeOK
    <3>. QED  BY <2>1, <3>1, RestoredStays DEF DiskInv, store, disk
  <2>. QED  BY <2>5, <2>6, <2>7, <2>8 DEF DiskInv, ChunksInv
<1>. QED  BY <1>1, <1>2 DEF ScanStep


\* A subtask that does not start a write, nor succeeds; a write it gives up is
\* among the cut ones if its chunk is claimed.
LEMMA SubDisk ==
  ASSUME TypeOK, DiskInv, NEW t \in Task, NEW c \in ChunkId, NEW s \in SubState,
         sub[t][c] \notin {"off", "joined"}, s \notin {"off", "some", "writing"},
         SetSub(t, c, s), UNCHANGED <<store, disk, scan, pc, record, proofs, call, owners>>,
         cut \subseteq cut',
         sub[t][c] = "writing" => ({<<record[t].dir, c>>} \cap Claimed) \subseteq cut'
  PROVE  DiskInv'
<1>1. /\ sub'[t][c] = s
      /\ \A u \in Task, e \in ChunkId : <<u, e>> # <<t, c>> => sub'[u][e] = sub[u][e]
  BY DEF SetSub, TypeOK
<1>2. Records' = Records  BY DEF Records, store, scan
<1>3. BeingWritten \cap Claimed \subseteq BeingWritten' \cup cut'
  <2>. SUFFICES ASSUME NEW x \in BeingWritten \cap Claimed, x \notin cut'  PROVE x \in BeingWritten'
    OBVIOUS
  <2>1. PICK u \in Task : pc[u] # "idle" /\ record[u].dir = x[1] /\ sub[u][x[2]] = "writing"
    BY DEF BeingWritten
  <2>2. x \in Dir \X ChunkId /\ x = <<x[1], x[2]>>  BY DEF BeingWritten
  <2>3. <<u, x[2]>> # <<t, c>>  BY <2>1, <2>2
  <2>4. sub'[u][x[2]] = "writing"  BY <1>1, <2>1, <2>2, <2>3
  <2>. QED  BY <2>1, <2>2, <2>4 DEF BeingWritten
<1>4. Placed'  BY <1>2, PlacedStays DEF DiskInv, store, disk
<1>5. ClaimsOfKey' /\ ClaimedChunksOnDisk'
  BY <1>2, <1>3, ClaimsStay DEF DiskInv, disk
<1>6. SubtasksPlaced'
  BY <1>1 DEF DiskInv, ChunksInv, SubtasksPlaced, Own, disk
<1>7. ProofsOfKey' /\ RestoreReady'
  BY DEF DiskInv, ChunksInv, ProofsOfKey, RestoreReady, Own
<1>8. RestoredInv'
  BY RestoredStays DEF DiskInv, store, disk
<1>. QED  BY <1>4, <1>5, <1>6, <1>7, <1>8 DEF DiskInv, ChunksInv

\* A write begins, or ends with the chunk's bytes.
LEMMA WriteDisk ==
  ASSUME TypeOK, OneTaskPerFile, DiskInv, NEW t \in Task, NEW c \in ChunkId,
         StartWrite(t, c) \/ WriteDone(t, c)
  PROVE  DiskInv'
<1>. DEFINE d == record[t].dir
            key == record[t].key
<1>1. /\ UNCHANGED <<store, scan, pc, record, proofs, meta, restored, call, owners, cut>>
      /\ \/ /\ sub[t][c] = "verified" /\ sub' = [sub EXCEPT ![t][c] = "writing"]
            /\ chunkFile' = [chunkFile EXCEPT ![d][c] = Torn]
         \/ /\ sub[t][c] = "writing" /\ sub' = [sub EXCEPT ![t][c] = "some"]
            /\ chunkFile' = [chunkFile EXCEPT ![d][c] = key]
  BY DEF StartWrite, WriteDone, OnlySub, SetSub
<1>2. /\ pc[t] # "idle" /\ record[t] \in Records /\ d \in Dir /\ key \in File
  BY <1>1, SubtaskRuns, TaskRecord
<1>3. /\ sub'[t][c] = "writing" \/ (sub'[t][c] = "some" /\ chunkFile'[d][c] = key)
      /\ \A u \in Task, e \in ChunkId : <<u, e>> # <<t, c>> => sub'[u][e] = sub[u][e]
      /\ \A x \in Dir, e \in ChunkId : <<x, e>> # <<d, c>> => chunkFile'[x][e] = chunkFile[x][e]
  BY <1>1, <1>2 DEF TypeOK
<1>4. Records' = Records  BY <1>1 DEF Records, store, scan
<1>5. Placed'  BY <1>1, <1>4, PlacedStays DEF DiskInv, store
<1>6. ClaimsOfKey'  BY <1>1, <1>4 DEF DiskInv, ChunksInv, ClaimsOfKey, Own
<1>7. ASSUME NEW q \in Records, NEW e \in q.chunks, ~SharedDir(q.dir, q.key)
      PROVE  chunkFile'[q.dir][e] = q.key \/ <<q.dir, e>> \in BeingWritten' \cup cut
  <2>1. q.dir \in Dir /\ e \in ChunkId  BY RecordsType DEF PendingDownloadRecord
  <2>2. CASE <<q.dir, e>> = <<d, c>>
    <3>1. CASE sub'[t][c] = "writing"
      BY <1>1, <1>2, <2>1, <2>2, <3>1 DEF BeingWritten
    <3>2. CASE chunkFile'[d][c] = key
      <4>1. key \in owners[d] /\ owners[q.dir] = {q.key}
        BY <1>2, <1>7 DEF DiskInv, Placed, RecordsPlaced, SharedDir
      <4>. QED  BY <2>2, <3>2, <4>1
    <3>. QED  BY <1>3, <3>1, <3>2
  <2>3. CASE <<q.dir, e>> # <<d, c>>
    <3>1. chunkFile[q.dir][e] = q.key \/ <<q.dir, e>> \in BeingWritten \cup cut
      BY <1>7 DEF DiskInv, ChunksInv, ClaimedChunksOnDisk
    <3>2. CASE <<q.dir, e>> \in BeingWritten
      <4>1. PICK u \in Task : pc[u] # "idle" /\ record[u].dir = q.dir /\ sub[u][e] = "writing"
        BY <3>2 DEF BeingWritten
      <4>2. sub'[u][e] = "writing"  BY <1>3, <2>1, <2>3, <4>1
      <4>. QED  BY <1>1, <2>1, <4>1, <4>2 DEF BeingWritten
    <3>. QED  BY <1>3, <2>1, <2>3, <3>1, <3>2
  <2>. QED  BY <2>2, <2>3
<1>8. ClaimedChunksOnDisk'
  BY <1>1, <1>4, <1>7 DEF ClaimedChunksOnDisk, SharedDir
<1>9. ASSUME NEW u \in Task, NEW e \in ChunkId, sub'[u][e] = "some", Own(record[u])
      PROVE  chunkFile'[record[u].dir][e] = record[u].key
  <2>1. CASE u = t /\ e = c
    BY <1>3, <1>9, <2>1
  <2>2. CASE <<u, e>> # <<t, c>>
    <3>1. sub[u][e] = "some"  BY <1>3, <1>9, <2>2
    <3>2. pc[u] # "idle" /\ record[u].dir \in Dir  BY <3>1, SubtaskRuns, TaskRecord
    <3>3. <<record[u].dir, e>> # <<d, c>>
      BY <1>2, <1>9, <2>2, <3>2, OneTaskPerDir DEF DiskInv, Placed
    <3>. QED  BY <1>3, <1>9, <3>1, <3>2, <3>3 DEF DiskInv, ChunksInv, SubtasksPlaced
  <2>. QED  BY <2>1, <2>2
<1>10. SubtasksPlaced'
  BY <1>1, <1>3, <1>9 DEF DiskInv, ChunksInv, SubtasksPlaced, Own
<1>11. ProofsOfKey' /\ RestoreReady'
  BY <1>1 DEF DiskInv, ChunksInv, ProofsOfKey, RestoreReady, Own
<1>12. RestoredInv'
  BY <1>1, RestoredStays DEF DiskInv, store
<1>. QED  BY <1>5, <1>6, <1>8, <1>10, <1>11, <1>12 DEF DiskInv, ChunksInv

\* A written chunk enters the record of its task.
LEMMA JoinDisk ==
  ASSUME TypeOK, DiskInv, NEW t \in Task, NEW c \in ChunkId, JoinSome(t, c)
  PROVE  DiskInv'
<1>. DEFINE d == record[t].dir
            key == record[t].key
            r == [record[t] EXCEPT !.chunks = @ \cup {c}]
<1>1. /\ sub[t][c] = "some" /\ pc[t] = "join"
      /\ UNCHANGED <<published, disk, scan, pc, proofs, call, owners, cut>>
      /\ record' = [record EXCEPT ![t] = r]
      /\ sub' = [sub EXCEPT ![t][c] = "joined"]
      /\ pending' = [pending EXCEPT ![r.key] = r] \/ pending' = pending
  BY DEF JoinSome, StoreFails, store, SetSub
<1>2. /\ record[t] \in PendingDownloadRecord /\ record[t] \in Records
      /\ d \in Dir /\ key \in File
  BY <1>1, TaskRecord
<1>3. r \in PendingDownloadRecord /\ r.dir = d /\ r.key = key /\ r.chunks = record[t].chunks \cup {c}
  BY <1>2 DEF PendingDownloadRecord
<1>. HIDE DEF r
<1>4. /\ sub'[t][c] = "joined" /\ record'[t] = r
      /\ \A u \in Task, e \in ChunkId : <<u, e>> # <<t, c>> => sub'[u][e] = sub[u][e]
      /\ \A u \in Task \ {t} : record'[u] = record[u]
  BY <1>1 DEF TypeOK
<1>5. Records' \subseteq Records \cup {r}
  BY <1>1, <1>3 DEF Records, scan, TypeOK
<1>6. BeingWritten \subseteq BeingWritten'
  <2>. SUFFICES ASSUME NEW x \in BeingWritten  PROVE x \in BeingWritten'
    OBVIOUS
  <2>1. PICK u \in Task : pc[u] # "idle" /\ record[u].dir = x[1] /\ sub[u][x[2]] = "writing"
    BY DEF BeingWritten
  <2>2. x[2] \in ChunkId /\ x \in Dir \X ChunkId  BY DEF BeingWritten
  <2>3. sub'[u][x[2]] = "writing"  BY <1>1, <1>4, <2>1, <2>2
  <2>4. record'[u].dir = record[u].dir  BY <1>3, <1>4
  <2>. QED  BY <1>1, <2>1, <2>2, <2>3, <2>4 DEF BeingWritten
<1>7. Placed'
  BY <1>1, <1>2, <1>3, <1>5, PlacedStays DEF DiskInv, disk
<1>8. Own(r) => Own(record[t]) /\ chunkFile[d][c] = key /\ c \in Chunks(key)
  BY <1>1, <1>3 DEF DiskInv, ChunksInv, SubtasksPlaced, Own
<1>9. ClaimsOfKey'
  BY <1>1, <1>2, <1>3, <1>5, <1>8 DEF DiskInv, ChunksInv, ClaimsOfKey, Own
<1>10. ASSUME NEW q \in Records', NEW e \in q.chunks, ~SharedDir(q.dir, q.key)
       PROVE  chunkFile[q.dir][e] = q.key \/ <<q.dir, e>> \in BeingWritten' \cup cut
  <2>1. \A q2 \in Records : \A e2 \in q2.chunks : ~SharedDir(q2.dir, q2.key) =>
          chunkFile[q2.dir][e2] = q2.key \/ <<q2.dir, e2>> \in BeingWritten' \cup cut
    BY <1>6 DEF DiskInv, ChunksInv, ClaimedChunksOnDisk
  <2>2. CASE q = r
    BY <1>2, <1>3, <1>8, <1>10, <2>1, <2>2 DEF SharedDir, Own
  <2>. QED  BY <1>5, <1>10, <2>1, <2>2
<1>11. ClaimedChunksOnDisk'
  BY <1>1, <1>10 DEF ClaimedChunksOnDisk, SharedDir, disk
<1>12. Own(record[t])' => Own(record[t])
  BY <1>1, <1>3, <1>4 DEF Own
<1>13. SubtasksPlaced'
  BY <1>1, <1>3, <1>4, <1>12 DEF DiskInv, ChunksInv, SubtasksPlaced, Own, disk
<1>14. ProofsOfKey' /\ RestoreReady'
  BY <1>1, <1>3, <1>4, <1>12 DEF DiskInv, ChunksInv, ProofsOfKey, RestoreReady, Own
<1>15. RestoredInv'
  BY <1>1, <1>4, RestoredStays DEF DiskInv, disk
<1>. QED  BY <1>7, <1>9, <1>11, <1>13, <1>14, <1>15 DEF DiskInv, ChunksInv

LEMMA ChunkDisk ==
  ASSUME TypeOK, OneTaskPerFile, DiskInv, NEW t \in Task, NEW c \in ChunkId,
         ChunkStep(t, c) \/ Reply(t, c) \/ WriteFails(t, c)
  PROVE  DiskInv'
<1>. USE DEF SubState
<1>1. CASE Acquire(t, c)
  BY <1>1, SubDisk DEF Acquire, AcquireUnbounded, OnlySub
<1>2. CASE Verify(t, c) \/ Reject(t, c)
  BY <1>2, SubDisk DEF Verify, Correct, Reject, OnlySub
<1>3. CASE ReplyBytes(t, c, "good") \/ ReplyBytes(t, c, "bad")
  BY <1>3, SubDisk DEF ReplyBytes, OnlySub
<1>4. CASE ReplyNone(t, c) \/ ReplyLost(t, c)
  BY <1>4, SubDisk DEF ReplyNone, ReplyLost, OnlySub
<1>5. CASE JoinNone(t, c) \/ JoinError(t, c)
  BY <1>5, SubDisk DEF JoinNone, JoinError, OnlySub
<1>6. CASE WriteFails(t, c)
  BY <1>6, SubDisk DEF WriteFails, OnlySub
<1>7. CASE StartWrite(t, c) \/ WriteDone(t, c)
  BY <1>7, WriteDisk
<1>. QED  BY <1>1, <1>2, <1>3, <1>4, <1>5, <1>6, <1>7, JoinDisk DEF ChunkStep, Reply


LEMMA ChunksCount ==
  ASSUME NEW f \in File
  PROVE  IsFiniteSet(Chunks(f)) /\ Cardinality(Chunks(f)) = NumChunks[f]
<1>. DEFINE n == NumChunks[f]
<1>1. n \in Nat \ {0}  BY ConstantsAssumption
<1>. HIDE DEF n
<1>2. IsFiniteSet(0 .. n - 1) /\ Cardinality(0 .. n - 1) = n
  <2>1. 0 \in Int /\ n - 1 \in Int  BY <1>1
  <2>2. /\ IsFiniteSet(0 .. n - 1)
        /\ Cardinality(0 .. n - 1) = IF 0 > n - 1 THEN 0 ELSE (n - 1) - 0 + 1
    BY <2>1, FS_Interval
  <2>. QED  BY <1>1, <2>2
<1>. QED  BY <1>2 DEF Chunks, n

\* A step of one task that leaves the disk alone and keeps or drops records;
\* what it may do is said of the task alone.
LEMMA OneTaskDisk ==
  ASSUME TypeOK, DiskInv, NEW t \in Task, pc[t] # "idle",
         UNCHANGED <<published, disk, scan, record, call, owners, cut>>,
         Records' \subseteq Records,
         \A c \in ChunkId : sub[t][c] \in {"off", "joined"},
         \A u \in Task \ {t} : pc'[u] = pc[u] /\ proofs'[u] = proofs[u] /\ sub'[u] = sub[u],
         \A c \in ChunkId : sub'[t][c] \in {"off", "joined"}
           \/ (sub'[t][c] = "wait" /\ pc'[t] = "join" /\ c \notin record[t].chunks),
         \A c \in ChunkId : sub'[t][c] # "off" /\ Own(record[t]) => c \in Chunks(record[t].key),
         pc'[t] = "join" /\ Own(record[t]) => proofs'[t] = record[t].key,
         pc'[t] = "restore" /\ Own(record[t]) => record[t].chunks = Chunks(record[t].key),
         pc'[t] \in {"publish", "unpend"} /\ pc'[t] # pc[t] /\ Own(record[t]) =>
           RestoredIntact(record[t].dir, record[t].key)
  PROVE  Placed' /\ ChunksInv' /\ RestoredWhole' /\ RestoredBeforePublish' /\ PublishedIsRestored'
<1>1. BeingWritten \subseteq BeingWritten'
  <2>. SUFFICES ASSUME NEW x \in BeingWritten  PROVE x \in BeingWritten'
    OBVIOUS
  <2>1. PICK u \in Task : pc[u] # "idle" /\ record[u].dir = x[1] /\ sub[u][x[2]] = "writing"
    BY DEF BeingWritten
  <2>2. x[2] \in ChunkId /\ x \in Dir \X ChunkId  BY DEF BeingWritten
  <2>3. u # t  BY <2>1, <2>2
  <2>. QED  BY <2>1, <2>2, <2>3 DEF BeingWritten
<1>2. Placed'  BY PlacedStays DEF DiskInv, disk
<1>3. ClaimsOfKey' /\ ClaimedChunksOnDisk'
  BY <1>1, ClaimsStay DEF DiskInv, disk
<1>4. SubtasksPlaced'
  BY DEF DiskInv, ChunksInv, SubtasksPlaced, Own, disk
<1>5. ProofsOfKey' /\ RestoreReady'
  BY DEF DiskInv, ChunksInv, ProofsOfKey, RestoreReady, Own
<1>6. RestoredWhole' /\ PublishedIsRestored'
  BY DEF DiskInv, RestoredInv, RestoredWhole, PublishedIsRestored, RestoredIntact, SharedDir, disk
<1>7. RestoredBeforePublish'
  <2>. SUFFICES ASSUME NEW u \in Task, pc'[u] \in {"publish", "unpend"}, Own(record[u])
                PROVE  RestoredIntact(record[u].dir, record[u].key)
    BY DEF RestoredBeforePublish, RestoredIntact, Own, disk
  <2>1. CASE pc'[u] = pc[u]
    BY <2>1 DEF DiskInv, RestoredInv, RestoredBeforePublish
  <2>. QED  BY <2>1
<1>. QED  BY <1>2, <1>3, <1>4, <1>5, <1>6, <1>7 DEF ChunksInv

\* The .metadata is read: in a directory of its own a task reads its own.
LEMMA ReadDisk ==
  ASSUME TypeOK, DiskInv, NEW t \in Task, ReadMetadata(t)
  PROVE  DiskInv'
<1>. DEFINE m == meta[record[t].dir]
<1>1. /\ pc[t] = "read" /\ UNCHANGED <<store, disk, scan, record, call, owners, cut>>
      /\ \A u \in Task \ {t} : pc'[u] = pc[u] /\ proofs'[u] = proofs[u] /\ sub'[u] = sub[u]
  BY DEF ReadMetadata, TypeOK
<1>2. \A c \in ChunkId : sub[t][c] \in {"off", "joined"}
  BY <1>1 DEF DiskInv, ChunksInv, SubtasksPlaced
<1>3. CASE m \in File
  <2>1. /\ pc'[t] = "join" /\ proofs'[t] = m
        /\ \A c \in ChunkId : sub'[t][c] =
             IF c \in Chunks(m) \ record[t].chunks THEN "wait" ELSE "off"
    BY <1>3 DEF ReadMetadata, TypeOK
  <2>2. Own(record[t]) => m = record[t].key
    BY <1>1, <1>3, MetadataIsOwn DEF DiskInv, Placed
  <2>3. Records' = Records  BY <1>1 DEF Records, store, scan
  <2>. HIDE DEF m
  <2>. QED  BY <1>1, <1>2, <2>1, <2>2, <2>3, OneTaskDisk DEF DiskInv, RestoredInv, store
<1>4. CASE m \notin File
  <2>1. pc'[t] = "leave" /\ proofs' = proofs /\ sub' = sub
    BY <1>4 DEF ReadMetadata, TypeOK
  <2>2. \A c \in ChunkId : sub[t][c] # "off" /\ Own(record[t]) => c \in Chunks(record[t].key)
    BY DEF DiskInv, ChunksInv, SubtasksPlaced
  <2>3. Records' = Records  BY <1>1 DEF Records, store, scan
  <2>. QED  BY <1>1, <1>2, <2>1, <2>2, <2>3, OneTaskDisk DEF DiskInv, RestoredInv, store
<1>. QED  BY <1>3, <1>4


\* Every subtask is joined: in a directory of its own a task goes on only with
\* every chunk of its file.
LEMMA ReturnDisk ==
  ASSUME TypeOK, DiskInv, NEW t \in Task, DownloadReturns(t)
  PROVE  DiskInv'
<1>1. /\ pc[t] = "join" /\ UNCHANGED <<store, disk, scan, record, proofs, sub, call, owners, cut>>
      /\ \A c \in ChunkId : sub[t][c] \in {"off", "joined"}
      /\ \A u \in Task \ {t} : pc'[u] = pc[u]
      /\ pc'[t] \in {"restore", "leave"}
      /\ pc'[t] = "restore" => Completed(t)
  BY DEF DownloadReturns, Goto, TypeOK
<1>2. Completed(t) /\ Own(record[t]) => record[t].chunks = Chunks(record[t].key)
  <2>. SUFFICES ASSUME Completed(t), Own(record[t])
                PROVE  record[t].chunks = Chunks(record[t].key)
    OBVIOUS
  <2>1. record[t] \in Records /\ record[t].key \in File  BY <1>1, TaskRecord
  <2>2. proofs[t] = record[t].key /\ record[t].chunks \subseteq Chunks(record[t].key)
    BY <1>1, <2>1 DEF DiskInv, ChunksInv, ProofsOfKey, ClaimsOfKey
  <2>3. /\ IsFiniteSet(Chunks(record[t].key))
        /\ Cardinality(Chunks(record[t].key)) = NumChunks[record[t].key]
    BY <2>1, ChunksCount
  <2>. QED  BY <2>2, <2>3, FS_Subset DEF Completed
<1>3. \A c \in ChunkId : sub[t][c] # "off" /\ Own(record[t]) => c \in Chunks(record[t].key)
  BY DEF DiskInv, ChunksInv, SubtasksPlaced
<1>4. Records' = Records  BY <1>1 DEF Records, store, scan
<1>. QED  BY <1>1, <1>2, <1>3, <1>4, OneTaskDisk DEF DiskInv, RestoredInv, store

\* The original file is put together, or found: in a directory of its own with
\* the bytes of every chunk whose write was not cut short.
LEMMA RestoreDisk ==
  ASSUME TypeOK, OneTaskPerFile, DiskInv, NEW t \in Task, RestoreOriginalFile(t)
  PROVE  DiskInv'
<1>. DEFINE d == record[t].dir
            key == record[t].key
            m == meta[d]
            bytes == [c \in ChunkId |-> IF c \in Chunks(m) THEN chunkFile[d][c] ELSE None]
            at == FileAt(d, m)
<1>1. /\ pc[t] = "restore"
      /\ UNCHANGED <<store, meta, chunkFile, scan, record, proofs, sub, call, owners, cut>>
      /\ \A u \in Task \ {t} : pc'[u] = pc[u]
      /\ pc'[t] \in {"publish", "leave"}
      /\ \/ /\ restored' = restored
            /\ pc'[t] = "publish" => m \in File /\ restored[at] # None
         \/ m \in File /\ restored[at] = None /\ restored' = [restored EXCEPT ![at] = bytes]
  BY DEF RestoreOriginalFile, Goto, TypeOK
<1>2. /\ record[t] \in Records /\ d \in Dir /\ key \in File /\ pc[t] # "idle"
      /\ record[t].chunks \subseteq ChunkId
  BY <1>1, TaskRecord
<1>3. m \in File /\ Own(record[t]) => m = key
  BY <1>2, MetadataIsOwn DEF DiskInv, Placed
<1>4. m \in File => /\ m \in owners[d] /\ DirOf(d[1], m) = d /\ d[1] \in Path
                    /\ at = <<d[1], NameOf[m]>> /\ at \in Path \X Name
  BY <1>2, ConstantsAssumption DEF DiskInv, Placed, MetadataPlaced, OwnersPlaced, DirOf, Dir, FileAt
<1>5. ASSUME Own(record[t]), NEW c \in Chunks(key)
      PROVE  chunkFile[d][c] = key \/ <<d, c>> \in cut
  <2>1. c \in record[t].chunks /\ c \in ChunkId
    BY <1>1, <1>2, <1>5 DEF DiskInv, ChunksInv, RestoreReady
  <2>2. <<d, c>> \notin BeingWritten
    <3>. SUFFICES ASSUME <<d, c>> \in BeingWritten  PROVE FALSE
      OBVIOUS
    <3>1. PICK u \in Task : pc[u] # "idle" /\ record[u].dir = d /\ sub[u][c] = "writing"
      BY DEF BeingWritten
    <3>2. u = t  BY <1>2, <1>5, <3>1, OneTaskPerDir DEF DiskInv, Placed
    <3>. QED  BY <1>1, <2>1, <3>1, <3>2 DEF DiskInv, ChunksInv, SubtasksPlaced
  <2>. QED  BY <1>2, <1>5, <2>1, <2>2 DEF DiskInv, ChunksInv, ClaimedChunksOnDisk, SharedDir, Own
<1>6. \A x \in Path \X Name : restored'[x] = restored[x]
        \/ (m \in File /\ x = at /\ restored[x] = None /\ restored'[x] = bytes)
  <2>1. CASE restored' = restored  BY <2>1
  <2>2. CASE m \in File /\ restored[at] = None /\ restored' = [restored EXCEPT ![at] = bytes]
    <3>. HIDE DEF bytes, at, m
    <3>. QED  BY <1>4, <2>2 DEF TypeOK
  <2>. QED  BY <1>1, <2>1, <2>2
<1>. DEFINE wrote == m \in File /\ restored' = [restored EXCEPT ![at] = bytes]
<1>7. ASSUME Own(record[t]), m \in File, restored'[at] = bytes
      PROVE  \A dd \in Dir, f \in File : dd = d /\ f = key => RestoredIntact(dd, f)'
  <2>1. m = key /\ at = FileAt(d, key)  BY <1>3, <1>7
  <2>2. bytes \in [ChunkId -> Content]  BY <1>2 DEF TypeOK, Content
  <2>3. bytes # None
    <3>. HIDE DEF bytes
    <3>. QED  BY <2>2, ConstantsAssumption DEF Content
  <2>4. \A c \in ChunkId : IF c \in Chunks(key) THEN bytes[c] = key \/ <<d, c>> \in cut
                                                ELSE bytes[c] = None
    BY <1>5, <1>7, <2>1
  <2>. HIDE DEF bytes
  <2>. QED  BY <1>1, <1>7, <2>1, <2>3, <2>4 DEF RestoredIntact
<1>8. RestoredWhole'
  <2>. SUFFICES ASSUME NEW p \in Path, NEW f \in File, owners[DirOf(p, f)] \subseteq {f},
                       restored'[<<p, NameOf[f]>>] # None
                PROVE  RestoredIntact(DirOf(p, f), f)'
    BY <1>1 DEF RestoredWhole
  <2>. DEFINE x == <<p, NameOf[f]>>
  <2>1. /\ x \in Path \X Name /\ DirOf(p, f) \in Dir
        /\ x = FileAt(DirOf(p, f), f)
    BY ConstantsAssumption DEF DirOf, Dir, FileAt
  <2>2. CASE restored'[x] = restored[x]
    <3>1. RestoredIntact(DirOf(p, f), f)
      BY <2>2 DEF DiskInv, RestoredInv, RestoredWhole
    <3>. QED  BY <1>1, <2>1, <2>2, <3>1, IntactStays
  <2>3. CASE m \in File /\ x = at /\ restored'[x] = bytes
    <3>1. d[1] = p /\ NameOf[m] = NameOf[f]  BY <1>4, <2>3
    <3>2. DirOf(p, f) = d  BY <1>4, <2>3, <3>1 DEF DirOf
    <3>3. key \in owners[d] /\ m \in owners[d]
      BY <1>2, <1>4, <2>3 DEF DiskInv, Placed, RecordsPlaced
    <3>4. key = f /\ Own(record[t])  BY <3>2, <3>3 DEF Own
    <3>. QED  BY <1>7, <2>1, <2>3, <3>2, <3>4
  <2>. QED  BY <1>6, <2>1, <2>2, <2>3
\* A restored file is never touched again.
<1>9. ASSUME NEW dd \in Dir, NEW f \in File, RestoredIntact(dd, f)
      PROVE  RestoredIntact(dd, f)'
  <2>1. FileAt(dd, f) \in Path \X Name /\ restored[FileAt(dd, f)] # None
    BY <1>9, ConstantsAssumption DEF FileAt, Dir, RestoredIntact
  <2>2. restored'[FileAt(dd, f)] = restored[FileAt(dd, f)]  BY <1>6, <2>1
  <2>. QED  BY <1>1, <1>9, <2>2, IntactStays
<1>10. PublishedIsRestored'
  <2>1. \A f \in File : published[f] # None => published[f] \in Dir  BY DEF TypeOK
  <2>. QED  BY <1>1, <1>9, <2>1 DEF DiskInv, RestoredInv, PublishedIsRestored, SharedDir, store
<1>11. ASSUME pc'[t] = "publish", Own(record[t])
       PROVE  \A dd \in Dir, f \in File : dd = d /\ f = key => RestoredIntact(dd, f)'
  <2>1. m \in File  BY <1>1, <1>11
  <2>2. m = key /\ at \in Path \X Name /\ owners[d] = {key}  BY <1>3, <1>4, <1>11, <2>1 DEF Own
  <2>3. CASE restored' = restored /\ restored[at] # None
    <3>1. RestoredIntact(d, key)
      BY <1>2, <1>4, <2>1, <2>2, <2>3 DEF DiskInv, RestoredInv, RestoredWhole
    <3>. QED  BY <1>2, <1>9, <3>1
  <2>4. CASE restored' = [restored EXCEPT ![at] = bytes]
    <3>1. restored'[at] = bytes
      <4>. HIDE DEF at, bytes
      <4>. QED  BY <2>2, <2>4 DEF TypeOK
    <3>. QED  BY <1>7, <1>11, <2>1, <3>1
  <2>. QED  BY <1>1, <1>11, <2>3, <2>4
<1>12. RestoredBeforePublish'
  <2>. SUFFICES ASSUME NEW u \in Task, pc'[u] \in {"publish", "unpend"}, Own(record[u])
                PROVE  \A dd \in Dir, f \in File :
                         dd = record[u].dir /\ f = record[u].key => RestoredIntact(dd, f)'
    <3>1. \A u \in Task : pc'[u] \in {"publish", "unpend"} =>
            record[u].dir \in Dir /\ record[u].key \in File
      BY <1>1, TaskRecord DEF TypeOK
    <3>. QED  BY <1>1, <3>1 DEF RestoredBeforePublish, Own
  <2>1. CASE u = t
    BY <1>1, <1>11, <2>1
  <2>2. CASE u # t
    <3>1. pc[u] \in {"publish", "unpend"} /\ pc[u] # "idle"  BY <1>1, <2>2
    <3>2. record[u].dir \in Dir /\ record[u].key \in File  BY <3>1, TaskRecord
    <3>. QED  BY <1>9, <3>1, <3>2 DEF DiskInv, RestoredInv, RestoredBeforePublish
  <2>. QED  BY <2>1, <2>2
<1>13. Records' = Records  BY <1>1 DEF Records, store, scan
<1>14. Placed'  BY <1>1, <1>13, PlacedStays DEF DiskInv, store
<1>15. BeingWritten \subseteq BeingWritten'
  <2>. SUFFICES ASSUME NEW x \in BeingWritten  PROVE x \in BeingWritten'
    OBVIOUS
  <2>1. PICK u \in Task : pc[u] # "idle" /\ record[u].dir = x[1] /\ sub[u][x[2]] = "writing"
    BY DEF BeingWritten
  <2>2. x[2] \in ChunkId /\ x \in Dir \X ChunkId  BY DEF BeingWritten
  <2>3. pc[u] = "join" /\ u # t
    BY <1>1, <2>1, <2>2 DEF DiskInv, ChunksInv, SubtasksPlaced
  <2>. QED  BY <1>1, <2>1, <2>2, <2>3 DEF BeingWritten
<1>16. ClaimsOfKey' /\ ClaimedChunksOnDisk'
  BY <1>1, <1>13, <1>15, ClaimsStay DEF DiskInv
<1>17. SubtasksPlaced'
  <2>1. \A c \in ChunkId : sub[t][c] \in {"off", "joined"}
    BY <1>1 DEF DiskInv, ChunksInv, SubtasksPlaced
  <2>. QED  BY <1>1, <2>1 DEF DiskInv, ChunksInv, SubtasksPlaced, Own
<1>18. ProofsOfKey' /\ RestoreReady'
  BY <1>1 DEF DiskInv, ChunksInv, ProofsOfKey, RestoreReady, Own
<1>. QED  BY <1>8, <1>10, <1>12, <1>14, <1>16, <1>17, <1>18 DEF DiskInv, ChunksInv, RestoredInv

\* The end of a task: the record is published, deleted, or left for a retry.
LEMMA EndDisk ==
  ASSUME TypeOK, DiskInv, NEW t \in Task,
         PutPublished(t) \/ DeletePending(t) \/ CompletionFails(t) \/ Leave(t)
  PROVE  DiskInv'
<1>. DEFINE d == record[t].dir
            key == record[t].key
<1>1. pc[t] \in {"publish", "unpend", "leave"} /\ pc[t] # "idle"
  BY DEF PutPublished, DeletePending, CompletionFails, Leave
<1>2. /\ record[t] \in Records /\ d \in Dir /\ key \in File  BY <1>1, TaskRecord
<1>3. \A c \in ChunkId : sub[t][c] \in {"off", "joined"}
  BY <1>1 DEF DiskInv, ChunksInv, SubtasksPlaced
<1>4. \A c \in ChunkId : sub[t][c] # "off" /\ Own(record[t]) => c \in Chunks(record[t].key)
  BY DEF DiskInv, ChunksInv, SubtasksPlaced
<1>5. CASE DeletePending(t) \/ CompletionFails(t)
  <2>1. /\ UNCHANGED <<published, disk, scan, record, proofs, sub, call, owners, cut>>
        /\ pending' = [pending EXCEPT ![key] = None] \/ pending' = pending
        /\ \A u \in Task \ {t} : pc'[u] = pc[u]
        /\ pc'[t] = "leave"
    BY <1>5 DEF DeletePending, CompletionFails, StoreFails, store, Goto, TypeOK
  <2>2. Records' \subseteq Records
    BY <1>2, <2>1 DEF Records, scan, TypeOK
  <2>. QED  BY <1>1, <1>3, <1>4, <2>1, <2>2, OneTaskDisk DEF DiskInv, RestoredInv
<1>6. CASE PutPublished(t)
  <2>1. /\ pc[t] = "publish"
        /\ UNCHANGED <<pending, disk, scan, record, proofs, sub, call, owners, cut>>
        /\ published' = [published EXCEPT ![key] = d]
        /\ \A u \in Task \ {t} : pc'[u] = pc[u]
        /\ pc'[t] = "unpend"
    BY <1>6 DEF PutPublished, Goto, TypeOK
  <2>2. Records' = Records  BY <2>1 DEF Records, scan
  <2>3. BeingWritten' = BeingWritten
    <3>1. \A u \in Task : pc'[u] # "idle" <=> pc[u] # "idle"  BY <2>1
    <3>. QED  BY <2>1, <3>1 DEF BeingWritten
  <2>4. Placed'
    <3>1. PublishedPlaced'
      BY <1>2, <2>1 DEF DiskInv, Placed, PublishedPlaced, RecordsPlaced, TypeOK
    <3>2. OwnersPlaced' /\ RecordsPlaced' /\ MetadataPlaced' /\ CallsPlaced'
      BY <2>1, <2>2 DEF DiskInv, Placed, OwnersPlaced, RecordsPlaced, MetadataPlaced,
                        CallsPlaced, CallDir, disk
    <3>. QED  BY <3>1, <3>2 DEF Placed
  <2>5. ClaimsOfKey' /\ ClaimedChunksOnDisk'
    BY <2>1, <2>2, <2>3, ClaimsStay DEF DiskInv, disk
  <2>6. SubtasksPlaced' /\ ProofsOfKey' /\ RestoreReady'
    BY <1>3, <2>1 DEF DiskInv, ChunksInv, SubtasksPlaced, ProofsOfKey, RestoreReady, Own, disk
  <2>7. Own(record[t]) => RestoredIntact(d, key)
    BY <2>1 DEF DiskInv, RestoredInv, RestoredBeforePublish
  <2>8. RestoredWhole' /\ RestoredBeforePublish'
    BY <2>1, <2>7 DEF DiskInv, RestoredInv, RestoredWhole, RestoredBeforePublish, RestoredIntact,
                      Own, disk
  <2>9. PublishedIsRestored'
    BY <1>2, <2>1, <2>7 DEF DiskInv, RestoredInv, PublishedIsRestored, RestoredIntact,
                            SharedDir, Own, disk, TypeOK
  <2>. QED  BY <2>4, <2>5, <2>6, <2>8, <2>9 DEF DiskInv, ChunksInv, RestoredInv
<1>7. CASE Leave(t)
  <2>1. /\ UNCHANGED <<store, disk, scan, call, owners, cut>>
        /\ \A u \in Task \ {t} : /\ pc'[u] = pc[u] /\ record'[u] = record[u]
                                 /\ sub'[u] = sub[u] /\ proofs'[u] = proofs[u]
        /\ pc'[t] = "idle" /\ record'[t] = None /\ \A c \in ChunkId : sub'[t][c] = "off"
    BY <1>7 DEF Leave, TypeOK, NoSubtasks
  <2>2. Records' \subseteq Records
    BY <2>1 DEF Records, store, scan
  <2>3. BeingWritten \subseteq BeingWritten'
    <3>. SUFFICES ASSUME NEW x \in BeingWritten  PROVE x \in BeingWritten'
      OBVIOUS
    <3>1. PICK u \in Task : pc[u] # "idle" /\ record[u].dir = x[1] /\ sub[u][x[2]] = "writing"
      BY DEF BeingWritten
    <3>2. x[2] \in ChunkId /\ x \in Dir \X ChunkId  BY DEF BeingWritten
    <3>3. u # t  BY <1>3, <3>1, <3>2
    <3>. QED  BY <2>1, <3>1, <3>2, <3>3 DEF BeingWritten
  <2>4. Placed'  BY <2>1, <2>2, PlacedStays DEF DiskInv, store, disk
  <2>5. ClaimsOfKey' /\ ClaimedChunksOnDisk'
    BY <2>1, <2>2, <2>3, ClaimsStay DEF DiskInv, disk
  <2>6. SubtasksPlaced' /\ ProofsOfKey' /\ RestoreReady'
    BY <2>1 DEF DiskInv, ChunksInv, SubtasksPlaced, ProofsOfKey, RestoreReady, Own, disk
  <2>7. RestoredInv'
    BY <2>1, RestoredStays DEF DiskInv, store, disk
  <2>. QED  BY <2>4, <2>5, <2>6, <2>7 DEF DiskInv, ChunksInv
<1>. QED  BY <1>5, <1>6, <1>7


\* Calls: a directory gets an owner before its .metadata is created.
LEMMA CallDisk ==
  ASSUME TypeOK, DiskInv, NEW k \in Call, CallStep(k)
  PROVE  DiskInv'
<1>. USE DEF OnlyCall, CallGoes, CallEnds, CallGoesIf, NoCall
<1>1. /\ UNCHANGED <<published, chunkFile, restored, scan, tasks, cut>>
      /\ \A d \in Dir : owners[d] \subseteq owners'[d]
  <2>1. CASE CreateMetadata(k)
    BY <2>1 DEF CreateMetadata, TypeOK, store
  <2>2. CASE ~CreateMetadata(k)
    BY <2>2 DEF CallStep, CheckPublished, CheckPending, ReceiveMetadata, CheckFileExists,
       FillMetadata, PutPending, CallFails, FillMetadataFails, store, disk
  <2>. QED  BY <2>1, <2>2
<1>2. BeingWritten' = BeingWritten  BY <1>1 DEF BeingWritten, tasks
<1>3. RestoredInv'
  BY <1>1, RestoredStays DEF DiskInv, tasks
<1>4. SubtasksPlaced' /\ ProofsOfKey' /\ RestoreReady'
  BY <1>1, TasksStay DEF DiskInv
<1>5. \A j \in Call : j # k => call'[j] = call[j]
  BY DEF CallStep, CheckPublished, CheckPending, ReceiveMetadata, CheckFileExists,
     CreateMetadata, FillMetadata, PutPending, CallFails, FillMetadataFails, TypeOK
<1>6. ASSUME call[k].pc \notin {"new", "failed"}
      PROVE  /\ call[k].file \in File /\ CallDir(k) \in Dir
             /\ CallDir(k)[2] = PrefixOf[NameOf[call[k].file]]
  BY <1>6, ConstantsAssumption DEF TypeOK, CallDir, DirOf, Dir
<1>7. CASE PutPending(k)
  <2>. DEFINE r == [key |-> call[k].file, dir |-> CallDir(k), chunks |-> {}]
  <2>1. /\ call[k].pc = "put" /\ call'[k].pc = "ok" /\ UNCHANGED <<disk, owners>>
        /\ pending' = [pending EXCEPT ![call[k].file] = r]
    BY <1>7 DEF PutPending, TypeOK
  <2>2. r.key \in owners[r.dir]  BY <2>1 DEF DiskInv, Placed, CallsPlaced
  <2>3. r.chunks = {}  OBVIOUS
  <2>. HIDE DEF r
  <2>4. Records' \subseteq Records \cup {r}
    BY <1>1, <2>1 DEF Records, scan, tasks, TypeOK
  <2>5. RecordsPlaced' /\ ClaimsOfKey'
    BY <2>1, <2>2, <2>3, <2>4 DEF DiskInv, Placed, RecordsPlaced, ChunksInv, ClaimsOfKey, Own
  <2>6. ClaimedChunksOnDisk'
    BY <1>1, <1>2, <2>1, <2>3, <2>4 DEF DiskInv, ChunksInv, ClaimedChunksOnDisk, SharedDir, disk
  <2>7. OwnersPlaced' /\ MetadataPlaced' /\ CallsPlaced' /\ PublishedPlaced'
    BY <1>1, <1>5, <2>1 DEF DiskInv, Placed, OwnersPlaced, MetadataPlaced, CallsPlaced, CallDir,
                            PublishedPlaced, disk
  <2>. QED  BY <1>3, <1>4, <2>5, <2>6, <2>7 DEF DiskInv, Placed, ChunksInv
<1>8. CASE UNCHANGED store
  <2>1. Records' = Records  BY <1>1, <1>8 DEF Records, store, scan, tasks
  <2>2. ClaimsOfKey' /\ ClaimedChunksOnDisk'
    BY <1>1, <1>2, <2>1, ClaimsStay DEF DiskInv
  <2>3. OwnersPlaced' /\ MetadataPlaced' /\ CallsPlaced'
    <3>1. CASE CreateMetadata(k)
      <4>1. /\ call[k].pc = "save"
            /\ meta' = [meta EXCEPT ![CallDir(k)] = Torn]
            /\ owners' = [owners EXCEPT ![CallDir(k)] = @ \cup {call[k].file}]
            /\ call'[k].file = call[k].file /\ call'[k].path = call[k].path
        BY <3>1 DEF CreateMetadata, TypeOK
      <4>2. OwnersPlaced'
        BY <1>6, <4>1 DEF DiskInv, Placed, OwnersPlaced, TypeOK
      <4>3. MetadataPlaced'
        BY <1>1, <4>1, ConstantsAssumption DEF DiskInv, Placed, MetadataPlaced, TypeOK
      <4>4. \A j \in Call : CallDir(j)' = CallDir(j)
        BY <1>5, <4>1 DEF CallDir
      <4>5. \A j \in Call : call[j].pc \in {"saving", "put"} => CallDir(j) \in Dir
        BY ConstantsAssumption DEF TypeOK, CallDir, DirOf, Dir
      <4>6. call[k].file \in owners'[CallDir(k)]
        BY <1>6, <4>1 DEF TypeOK
      <4>7. CallsPlaced'
        <5>. SUFFICES ASSUME NEW j \in Call, call'[j].pc \in {"saving", "put"}
                      PROVE  call'[j].file \in owners'[CallDir(j)']
          BY DEF CallsPlaced
        <5>1. CASE j = k  BY <4>1, <4>4, <4>6, <5>1
        <5>2. CASE j # k
          BY <1>1, <1>5, <4>4, <4>5, <5>2 DEF DiskInv, Placed, CallsPlaced
        <5>. QED  BY <5>1, <5>2
      <4>. QED  BY <4>2, <4>3, <4>7
    <3>2. CASE FillMetadata(k)
      <4>1. /\ call[k].pc = "saving" /\ UNCHANGED owners
            /\ meta' = [meta EXCEPT ![CallDir(k)] = call[k].file]
            /\ call'[k].file = call[k].file /\ call'[k].path = call[k].path
        BY <3>2 DEF FillMetadata, TypeOK
      <4>2. call[k].file \in owners[CallDir(k)]
        BY <4>1 DEF DiskInv, Placed, CallsPlaced
      <4>3. MetadataPlaced'
        BY <1>6, <4>1, <4>2 DEF DiskInv, Placed, MetadataPlaced, TypeOK
      <4>4. OwnersPlaced' /\ CallsPlaced'
        BY <1>5, <4>1, <4>2 DEF DiskInv, Placed, OwnersPlaced, CallsPlaced, CallDir
      <4>. QED  BY <4>3, <4>4
    <3>3. CASE FillMetadataFails(k)
      <4>1. /\ call[k].pc = "saving" /\ UNCHANGED <<owners, meta>>
            /\ call'[k].pc = "failed"
                 \/ (call'[k].file = call[k].file /\ call'[k].path = call[k].path)
        BY <3>3 DEF FillMetadataFails, TypeOK, disk
      <4>. QED  BY <1>5, <4>1 DEF DiskInv, Placed, OwnersPlaced, MetadataPlaced, CallsPlaced, CallDir
    <3>4. CASE ~CreateMetadata(k) /\ ~FillMetadata(k) /\ ~FillMetadataFails(k)
      <4>1. UNCHANGED <<meta, owners>> /\ call'[k].pc \notin {"saving", "put"}
        <5>1. CASE PutPending(k) \/ CallFails(k)
          BY <5>1 DEF PutPending, CallFails, disk, TypeOK
        <5>2. ASSUME NEW f \in File, NEW p \in Path, CheckPublished(k, f, p)
              PROVE  UNCHANGED <<meta, owners>> /\ call'[k].pc \notin {"saving", "put"}
          BY <5>2 DEF CheckPublished, disk, TypeOK
        <5>3. CASE CheckPending(k) \/ ReceiveMetadata(k) \/ CheckFileExists(k)
          BY <5>3 DEF CheckPending, ReceiveMetadata, CheckFileExists, disk, TypeOK
        <5>. QED  BY <3>4, <5>1, <5>2, <5>3 DEF CallStep
      <4>. QED  BY <1>5, <4>1 DEF DiskInv, Placed, OwnersPlaced, MetadataPlaced, CallsPlaced, CallDir
    <3>. QED  BY <3>1, <3>2, <3>3, <3>4
  <2>4. RecordsPlaced' /\ PublishedPlaced'
    <3>1. \A r \in Records : r.dir \in Dir  BY RecordsType DEF PendingDownloadRecord
    <3>2. \A f \in File : published[f] # None => published[f] \in Dir  BY DEF TypeOK
    <3>. QED  BY <1>1, <2>1, <3>1, <3>2 DEF DiskInv, Placed, RecordsPlaced, PublishedPlaced
  <2>. QED  BY <1>3, <1>4, <2>2, <2>3, <2>4 DEF DiskInv, Placed, ChunksInv
<1>. QED  BY <1>7, <1>8
     DEF CallStep, CheckPublished, CheckPending, ReceiveMetadata, CheckFileExists, CreateMetadata,
         FillMetadata, CallFails, FillMetadataFails

\* A crash cuts the writes under way short and drops tasks, scan and calls.
LEMMA CrashDisk ==
  ASSUME TypeOK, DiskInv, Crash
  PROVE  DiskInv'
<1>1. /\ UNCHANGED <<store, disk, owners>> /\ snapshot' = {}
      /\ cut' = cut \cup (BeingWritten \cap Claimed)
      /\ pc' = [t \in Task |-> "idle"] /\ record' = [t \in Task |-> None]
      /\ sub' = [t \in Task |-> NoSubtasks]
  BY DEF Crash
<1>2. Records' \subseteq Records
  BY <1>1 DEF Records, store
<1>3. \A k \in Call : call'[k].pc \in {"saving", "put"} => call'[k] = call[k]
  BY DEF Crash, NoCall, TypeOK
<1>4. Placed'  BY <1>1, <1>2, <1>3, PlacedStays DEF DiskInv, store, disk
<1>5. ClaimsOfKey' /\ ClaimedChunksOnDisk'
  BY <1>1, <1>2, ClaimsStay DEF DiskInv, disk
<1>6. SubtasksPlaced' /\ ProofsOfKey' /\ RestoreReady'
  BY <1>1 DEF SubtasksPlaced, ProofsOfKey, RestoreReady, NoSubtasks
<1>7. RestoredInv'
  BY <1>1, RestoredStays DEF DiskInv, store, disk
<1>. QED  BY <1>4, <1>5, <1>6, <1>7 DEF DiskInv, ChunksInv

LEMMA DiskInvariant == Spec => []DiskInv
<1>1. Init => DiskInv
  <2>. SUFFICES ASSUME Init  PROVE DiskInv
    OBVIOUS
  <2>1. Records = {}  BY DEF Init, Records
  <2>2. Placed
    BY <2>1, ConstantsAssumption
    DEF Init, Placed, OwnersPlaced, RecordsPlaced, MetadataPlaced, CallsPlaced, PublishedPlaced, NoCall
  <2>3. ChunksInv
    BY <2>1 DEF Init, ChunksInv, ClaimsOfKey, SubtasksPlaced, ProofsOfKey, RestoreReady,
                ClaimedChunksOnDisk, NoSubtasks
  <2>4. RestoredInv
    BY ConstantsAssumption
    DEF Init, RestoredInv, RestoredWhole, RestoredBeforePublish, PublishedIsRestored
  <2>. QED  BY <2>2, <2>3, <2>4 DEF DiskInv
<1>2. TypeOK /\ OneTaskPerFile /\ DiskInv /\ [Next]_vars => DiskInv'
  <2>. SUFFICES ASSUME TypeOK, OneTaskPerFile, DiskInv, [Next]_vars  PROVE DiskInv'
    OBVIOUS
  <2>1. CASE Next
    BY <2>1, ScanDisk, ReadDisk, ReturnDisk, RestoreDisk, EndDisk, ChunkDisk, CallDisk, CrashDisk
    DEF Next, TaskStep
  <2>2. CASE UNCHANGED vars
    <3>1. UNCHANGED <<pending, published, meta, chunkFile, restored, snapshot, pc, record, proofs,
                      sub, call, owners, cut>>
      BY <2>2 DEF vars, store, disk, scan, tasks
    <3>2. Records' = Records /\ BeingWritten' = BeingWritten
      BY <3>1 DEF Records, BeingWritten
    <3>3. Placed'  BY <3>1, <3>2, PlacedStays DEF DiskInv
    <3>4. ChunksInv'
      BY <2>2, <3>1, <3>2, ClaimsStay, TasksStay DEF DiskInv, ChunksInv, vars
    <3>. QED  BY <3>1, <3>3, <3>4, RestoredStays DEF DiskInv
  <2>. QED  BY <2>1, <2>2
<1>. QED  BY <1>1, <1>2, TypeCorrect, OneTask, PTL DEF Spec

\* A chunk any record claims is on disk with its file's bytes, unless its second
\* download was cut short or another file was put into its directory: no order
\* of replies, joins, stale scans, repeated calls, store and write errors and
\* crashes does it any other harm (file_download_service.rs:140-262).
THEOREM ClaimsHold == Spec => []ClaimedChunksOnDisk
BY DiskInvariant, PTL DEF DiskInv, ChunksInv

\* A file that is recorded as published was restored byte for byte, but for the
\* same two harms (file_download_service.rs:264-283, processing.rs:161-211).
THEOREM PublishedRestored == Spec => []PublishedIsRestored
BY DiskInvariant, PTL DEF DiskInv, RestoredInv
=============================================================================
