# rust-dfs in TLA+

Specifications, model-checking runs and machine-checked proofs of the node in
`src/`: a distributed file store in which every node offers files to its peers
over libp2p and serves its own user over gRPC.  File and line references are to
`src/src/app/` unless another path is given.

## 1. The system

| component | state it keeps | operations | what makes it correct |
|---|---|---|---|
| `FileDownloadService` (`file_download_service.rs`) | `active_downloads`, a semaphore of `max_active_downloads` permits, one task per record, one subtask per missing chunk | scan once a second; download; verify and save a chunk; join; restore; complete | one task per file; a claimed chunk is on disk; a published file is whole; a pending file is never lost; every download ends |
| `DfsService::download_file` (`grpc/server.rs:61`) | none of its own; writes `.metadata` and a pending record | check, ask for metadata, check, save, offer, put | an accepted call delivers its file |
| `DfsService::publish_file` (`:39`) | writes chunks, `.metadata` and a job | split, save, put | a job describes what is on disk |
| `DfsService::search` (`:162`) | per call: result channel, gRPC stream, cache, ticker | receive, forward, abort | a stream stays open while its client listens, and everything is forgotten when it leaves |
| `EventService` (`p2p/events.rs`) | four tables of oneshot senders by query id and request id, a table of search sessions | commands, Kademlia events, requests and responses, gossip, publishing | each request is answered once, with its own answer; published files are offered |
| `P2pService` (`p2p/service.rs`) | the swarm, the command receiver, the ticker | one biased `select!` loop that awaits each handler | it goes on serving |
| `RocksDBStore` (`file_store/`) | column families: pending downloads, published files, file metadata (jobs) | put, get, delete, exists, stream, next job | atomic single-key operations; streams see a snapshot |
| file processing (`file_processing/`, `utils.rs`) | files on disk | split, save metadata, verify, restore | restore inverts split |
| `Server` (`server.rs`) | service tasks, a cancellation token | start, spawn, stop | all services end together |
| discovery, swarm, keypair, CLI, errors, proto | addresses, configuration | | outside the models |

How they interact.  gRPC handlers and download tasks reach the P2P loop through
one command channel (capacity 100); answers come back through a oneshot channel
per request, or through a channel of 64 per search.  The loop calls the download
service and the publishing of jobs itself, and awaits them: while it scans,
publishes or waits for room in a search channel it serves nothing else.  The
store and the disk are shared by handlers, tasks and loop without any
transaction across them.

What is hard here: check-then-act across awaits, records that are stale when a
task starts, `.metadata` that is rewritten between three reads of it, crashes
between a file write, a put and a delete, requests that are never answered,
bounded channels that are awaited in a circle, retries without end inside the
loop, requests served from files that are being written, and a shutdown that
waits for all of them.  `PROJECT.json` lists each hazard at its line with the properties that
would catch it.

## 2. Modules

| module | models | kind |
|---|---|---|
| `FileDownload` | `FileDownloadService`, `download_file`, the store and the disk they share, crash and restart | specification |
| `FileDownload_proofs` | theorems about `FileDownload` | proofs |
| `Oneshot` | what the loop promises to a caller with a oneshot channel | abstract specification |
| `ProviderRequests` | the four tables of `EventService`, from the command to the answer | specification that implements `Oneshot` |
| `ProviderRequests_proofs` | theorems about `ProviderRequests`, its implementation of `Oneshot` among them | proofs |
| `Search` | search calls, their tasks, the sessions of the loop, the answers to peers' searches, the channels between them | specification |
| `Search_proofs` | theorems about `Search` | proofs |
| `Publish` | `publish_file`, `file_publish`, `provide_all_published_files`, the keys of downloads, crash and restart | specification |
| `Publish_proofs` | theorems about `Publish` | proofs |
| `Replication` | what a network of nodes promises about who holds a file | abstract specification |
| `Serving` | several nodes: the handlers of metadata and chunk requests beside the nodes' own publications and downloads | specification that implements `Replication` |
| `Serving_proofs` | theorems about `Serving`, its implementation of the steps of `Replication` among them | proofs |
| `Lifecycle` | `main`, `Server`, the two services, the calls in flight, cancellation | specification |
| `Lifecycle_proofs` | theorems about `Lifecycle` | proofs |
| `FileSplit` | `split` and `restore_original_file`, byte by byte | specification |
| `FileSplit_proofs` | theorems about `FileSplit` | proofs |
| `MC*` | constants of the instances | model checking |

How they fit together.  `FileDownload` and `Publish` are one node with its store
and disk in full detail: every await, every failure.  `Serving` composes the two
across nodes and keeps of each the steps that another node, or the handler of its
request, can see; what `FileDownload` takes as a nondeterministic reply is there
the answer of another node's loop.  `ProviderRequests` is the inside of the loop
between the command and the answer, `FileSplit` the inside of the one write
action of `FileDownload` and `Publish` that stands for all chunks, `Search` the
other user of the command channel, `Lifecycle` the frame around all of them.

### FileDownload

An action is the code from one await to the next.  Variables against the code:
`pending` and `published` are the two column families; `meta`, `chunkFile` and
`restored` the files `.metadata`, `<n>.chunk` and the restored original, each
holding the *file key its bytes belong to*, `None` when absent and `Torn` when
truncated and not yet filled; `scanning` and `snapshot` the loop inside
`work_on_pending_downloads` and what its iterator still yields; `active` is
`active_downloads`; `pc`, `record`, `proofs`, `failed` and `sub` the local state
of a spawned task; `call` the gRPC calls, each of which names a file and a path
from its `Asks`.  The permits are not a variable: they
are those no subtask in a state of `HoldsPermit` holds.  Two variables are history,
read by the properties alone: `owners`, the files whose `.metadata` was ever created
in a directory, and `cut`, the claimed chunks whose second download was cut short.

| code | actions |
|---|---|
| `work_on_pending_downloads` | `WorkOnPendingDownloads`, `ScanSkip`, `ScanSpawn`, `ScanStop` |
| `download`, `download_file_chunk` | `ReadMetadata`, `Acquire`, `ReplyBytes`, `ReplyNone`, `ReplyLost`, `JoinSome`, `JoinNone`, `JoinError`, `DownloadReturns` |
| `verify_and_save_file_chunk` | `Verify`, `Reject`, `StartWrite`, `WriteDone`, `WriteFails` |
| `process_completed`, `restore_original_file` | `RestoreOriginalFile`, `PutPublished`, `DeletePending`, `CompletionFails` |
| end of the spawned task | `Leave` |
| `download_file` | `CheckPublished`, `CheckPending`, `ReceiveMetadata`, `CheckFileExists`, `CreateMetadata`, `FillMetadata`, `PutPending`, `CallFails`, `FillMetadataFails` |
| the process | `Crash` |

Abstractions.  A chunk's bytes are right or wrong (`good`, `bad`); verification
succeeds exactly for the right bytes under the metadata of the right file, which
assumes the Merkle proof and SHA-256 do their work.  The metadata a peer answers
with is that of the file asked for.  `restore_original_file` is one action: its
inside is `FileSplit`, and chunk files present at its start are not removed by
anything.  `ProvideMetadata` and `ProvideFileChunk` are commands that change
nothing the module keeps; `Publish` has what they do to the key store.

Failures are a bounded budget (`MaxMishaps`) over the kinds in `Mishaps`:
`crash`, `store` (a put or delete returns an error), `lost` (a request ends in
`OutboundFailure`), `write` (a file write is cut short by the disk) and `flush` (the last write of `.metadata` fails and nobody is told:
`save_blocking` drops its `BufWriter` without a flush, `utils.rs:36-39`).  A
`crash` may come at any step, also between the truncation of a file and its write.

### ProviderRequests and Oneshot

`providers` stands for `metadata_providers_requests` and
`file_chunk_providers_requests`, `downloads` for the two `*_download_requests`;
they are indexed by kind because the two request behaviours number their
requests independently.  Kademlia and request_response are external: a query
reports peers any number of times and ends once, by success or timeout; a
request is answered or fails, in any order.

`Oneshot` is what the caller gets from all this: somebody owes every waiting
caller an answer; the loss of its own request strands it, at most one caller for
each loss; a stranded caller is never answered.  `ProviderRequests` instantiates it
with a refinement mapping (`Standing`) that reads the tables and the network: a
caller is `waiting` while a query or a request on its way carries its channel
(`UnderWay`), `stranded` when none does, and an answer that belongs to another
request is `crossed`, which `Oneshot` has no place for.  A table that dropped,
lost or exchanged a sender would break the mapping.

### Search

`commands` is the command channel, `sessions` is `file_search_sessions`,
`blocked` the loop inside the awaited `tx.send` of `file_search_results`; `task`,
`found`, `hand` and `cache` belong to a `search_task`; `delivered` and `read` are
what went into the gRPC stream and what the client took.  The sender of a result
channel is in a queued command or in the session table (`HasSender`); when it is
in neither, `rx.recv()` returns `None`.  A search of a peer (`ReceiveSearch`)
spawns a task whose stream yields the published files; `ReportMatch` sends each
public match through the command channel, `HandleResult` is the loop that passes
it on to the peer.  Which names contain a value is the constant `MatchesOf`.

### Publish

`jobs` is the column family of file metadata, `offered` the keys in Kademlia's
memory store with its limit `MaxKeys` (external; the code sees it as the errors
of `put_record` and `start_providing`).  `loop` is where the P2P loop is:
starting, serving, or in one of the three steps of `file_publish`.  The files in
`Downloads` get `.metadata` from `download_file` (`BeginDownload`) and their record
from `FileDownloadService` instead (`CompleteDownload`), and their keys are offered
by commands whose errors are only logged (`ProvideDownload`), before or after the
record or never.  A write of a chunk may be cut short (`WriteChunkCut`), the last
write of `.metadata` lost without an error (`FillMetadataLost`), and at a start a
`.metadata` that cannot be read is passed over (`SkipUnreadable`).  Any number of
calls and downloads may use one path; `Shared` names the paths where two have.
History: `begun`, `skipped`, and `unflushed`, the paths where such a write was lost.

### Serving and Replication

Each node has the column families `published` and `pending`, the files `meta` and
`chunkFile` by chunks directory, one `publish_file` call with the job it leaves,
one `download_file` call, a subtask per chunk, and its P2P loop.  The loop takes
the messages in its `inbox` in order; `handler` is the request whose handler is
suspended at an await, and while there is one the loop takes nothing else, but
the node's tasks go on.

| code | actions |
|---|---|
| `metadata_download`, a request | `TakeMetadataRequest` (`get_published_file`), `ServeMetadata` (reads `.metadata`) |
| `file_download`, a request | `TakeChunkRequest`, `LookUpPending` (`try_from_pending_downloads`), `ReadMetadata` (`get_from_chunks`), `ReadChunk` |
| the responses | `ReceiveMetadata`, `ReceiveChunk` |
| a publication | `StartPublish`, `WriteChunk`, `CreateMetadata`, `FillMetadata`, `AddPublished` |
| a download | `RequestMetadata`, `SaveMetadata`, `MetadataSaved`, `PutPending`, `RequestFileChunk`, `ChunkWritten`, `JoinChunk`, `PutPublished`, `DeletePending` |

Whom a node asks is any node that has offered the key (`OffersMetadata`,
`OffersChunk`): the metadata is offered before the pending record is stored, a
chunk before the record claims it, so a request may come too early and be
answered `NotFound`.  Losses and crashes are left to the modules of one node.
`ReceiveChunk` is one action from the response to the truncation of the chunk
file: the read of `.metadata` and the check between them are steps of their own in
`FileDownload`, and with one writer per directory, which is what `Serving` is
about, nothing can change between them.

`Replication` is the promise to the user: who holds a file, and whose accepted
download of it is under way; a download is accepted only of a file that is held
somewhere, holders keep the file, and the downloads complete.  `Serving`
implements it, liveness included, with `holders` the nodes that have a published
record and `wanted` those that have only a pending one.  `ReplicatesStepwise` is
the same without the liveness; it is what is proved.

### Lifecycle

`main` is `main()` and, in its stops, `Server::stop`; `cancelled` the tokens
(the parent and the child of each service); `p2p` and `grpc` the two spawned
tasks.  A call is `open` until gRPC has ended its handler or stream.  Its sender (a
oneshot's or that of a result channel) is with the command it waits to send
(`sending`), in the channel (`queued`), in a table of the loop (`held`), or used or
lost (`dropped`).  What lets the calls go, and with them gRPC and `stop()`, is
`DropChannel`: the loop's future ends and drops its tables and the receiver of the
channel.  A search leaves a `search_task`, which gRPC does not wait for: it selects
between results and a ticker (`TakeResult`, `TaskEnds`, `Tick`), awaits room in the
stream (`ForwardResult`), and when the client is gone awaits a place for
`FileSearchAbort` among the `commands` (`SendAbort`).  The loop itself awaits room
in `found`, the channel to that task (`SendResult`); `out` is the one from it to the
client.  Whether `--grpc-port` is given and whether the key store is full are chosen
at the start.

### FileSplit

Bytes are their offsets in the source.  A read gives any positive number of
bytes up to the room in the buffer (`Read`); a chunk file is a piece `from`..`to`
(`WriteChunk`).  `part` and `restored` are the `.part` file and the file with the
original name, as sequences of pieces.  A mishap stands for a crash and for any
error of the restore: the record stays pending and the next attempt starts over.

## 3. Runs

Passing runs, and their bounds:

- `download_safety` (2 007 000 states, symmetric in tasks and calls): one file of
  two chunks, two calls that may name two paths, two tasks, two permits, two
  mishaps of every kind.  Two calls are the least for overlapping requests and
  replaced records, two tasks for a stale record beside a running task, two mishaps
  for a failure during the recovery from another.
- `download_liveness` (289 000 states): two files compete for one permit, two
  mishaps of crash, store and write; `DownloadsComplete`.  Each call names a file of
  its own: a second call for a file whose save of `.metadata` is cut short leaves the
  file's pending download without readable metadata, and it then never completes.
  For the same reason `flush` is left out: a swallowed write error leaves a pending
  record whose `.metadata` never parses.
- `requests` (7 000 states): one metadata and two chunk requests, two peers, one
  lost request.  It includes coinciding request ids of the two behaviours.
- `search` (97 000 states): two searches for two values, a peer that searches this
  node, with a public file that matches and a private one, four messages in all,
  result channel and stream of one place, one forgotten cache entry, and a command
  channel of two places, for which two calls, their aborts and the matches of the
  peer's search compete, so that it fills and the circle of `events.rs:334` closes.
  Three results of one search are what it takes to fill hand and channel and block
  the loop.
- `publish` (454 000 states): files of one and two chunks that are published,
  one of them by two calls, and one that is downloaded, seven keys in all, in a key
  store of four, so that any one of them fits and then not every other; any write
  may be cut short or lost; two crashes.
- `serving` (189 000 states): three nodes; one publishes a file of two chunks, the
  second downloads it and publishes another, the third downloads both, the first
  of them also from the second node while that is still downloading it.
- `lifecycle` (208 000 states): one download call and two searches, a command
  channel and result channels of one place, so that each of them fills and an
  abandoned search can hold the loop; with and without gRPC, with a full key store
  and with room.
- `file_split`: chunks of three bytes, every length from 0 to 10, which has the
  multiples of the chunk size and their neighbours; two mishaps.

Runs that end in a violation, each showing a place where the code does not do
what a line of the repository says (see `findings` in `PROJECT.json`):

- `lost_reply`: after one `OutboundFailure` the download never completes.
- `download_torn`: the scan spawns a record it read too early, that task downloads a
  claimed chunk again, a crash comes in the middle of `fs::write`
  (`file_download_service.rs:249`), and the torn chunk, which no later step checks,
  is restored into the published file.
- `same_value`: a second search for a value closes the first one's stream.
- `search_deadlock`: the loop and a search task wait for each other.

Deadlock checking is off in every run: the instances have finitely many calls
and stop when all are served, a node's `main` returns, a file is restored.

### What the properties say

- `ClaimedChunksOnDisk`: every record anywhere (in the store, in the scan, in a
  task) that claims a chunk is backed by the right bytes on disk, unless the
  chunk is being written again at this moment.  Two exceptions are named: a second
  write of the chunk was cut short (`cut`, which `download_torn` turns into a
  published file that is torn), or another file has used the directory
  (`SharedDir`; the run has one file, the theorem holds for every clash of names).
- `PublishedIsRestored`: a published record stands for a whole restored file, with
  the same two exceptions.  `DownloadIsTheFile` is it without the first one.
- `PendingBecomesPublished`, `JobsLeavePublished`: nothing the user was promised
  leaves the store except by being published.
- `OneTaskPerFile`: the set behind the mutex and the running tasks agree.
- `KeptOnce`, `AnswersOwnRequest`: a request's channel is in exactly one table while
  it waits and gets the answer to its own request.  `KeepsPromise`: nothing but the
  loss of its own request strands a caller, and then nobody answers it any more.
- `SessionHasTask`, `StreamStaysOpen`, `GoneIsForgotten`: a session and its task
  live and end together.  `SessionHasTask` also shows the error branch at
  `events.rs:336-342` to be dead.
- `RepeatsOnlyForgotten`: repeats in a stream are paid for by cache evictions.
- `OnlyCircleBlocks`, `CircleIsForGood`: with a command channel that fills, the loop
  is held up in one way only: it awaits room for a search whose task awaits room
  among the commands (`Circle`).  Nothing else blocks it, and nothing opens that.
  `LoopServes` is without the exception, and `search_deadlock` refutes it.
- `PeersAreAnswered`: a peer's search is answered with every public match, and
  with nothing private, although its matches compete for the command channel,
  unless the circle closes first.
- `PublishedIsOffered`, `NodeComesUp`: after a restart a node offers what it has
  published itself; a start fails for three reasons alone: the published files do
  not fit, a write of `.metadata` was lost without an error, or a directory had two
  writers.  A crash anywhere, or a write that fails and says so, is none of them.
- `PublishedIsIntact`: what lies beside a job or a record is that file's, where one
  alone has written, but for a `.metadata` whose last write was lost.
- `PublishedIsWhole`, `AnswersAreOfTheFile`: across nodes, a file that is
  published anywhere is whole, and a request is answered with what was asked for
  or with `NotFound`: the awaits between the lookups of `file_download` never
  show a peer an error, a torn file or another file.
- `Replicates`: the nodes implement `Replication`.
- `ExitIsClean`, `StopReturns`, `FailureStopsNode`, `CallsEndWithLoop`: Ctrl-C or
  the failure of a service ends the node, with no call left waiting, although
  gRPC waits for calls that wait for the loop.  Two things hold the node for good:
  a loop in `file_publish` over a full key store (`HeldByJob`), and a loop that
  awaits room for an abandoned search whose task awaits room for its abort
  (`HeldBySearch`, the circle again); neither looks at the token any more.
- `ChunksPartitionSource`, `RestoredIsSource`, `RestoredOrEmpty`: the chunks do
  not depend on how the reads fall, and restore inverts split.

### Fairness, and why

- The ticker, the loop and spawned tasks are scheduled by tokio: weak fairness.
  `select!` in the loop is biased, so this assumes that swarm events and commands
  do not arrive without a pause; the code does not enforce it.
- A chunk that is asked for again and again is in the end received (strong
  fairness on `ChunkReceived` in `FileDownload`): some peer has every chunk, the
  choice among providers is random and the scan repeats each second.  Without it
  no download could be promised.  `Serving` assumes nothing about who is asked:
  each loop takes its messages and each subtask runs, and a subtask that got
  `NotFound` asks again.  That is enough there because a node offers a chunk
  shortly before it claims it, never without claiming it in the end, and a node
  that is asked too early is on its way.
- A search task's receive branch is not passed over for good: `select!` in
  `search_task` chooses among ready branches at random and its ticker is ready
  once a second.  Senders into a full tokio channel are admitted in order, which
  is why the task of a peer's search gets its place (strong fairness on
  `AnswerPeer`) although others compete for it.
- A search client reads what it is sent or leaves.  One that does neither
  stalls the task, then the loop.
- A query ends by Kademlia's own timeout.  A lost request is not assumed to be
  answered: `AnsweredUnlessLost` says exactly that.
- `Lifecycle`: main, the services and the calls run, and a client reads the
  stream it holds open.  The loop looks at its commands and at its token again
  and again (strong fairness, since a result or a job disables both): not if
  swarm events never pause, the same assumption as above.  A search task takes its
  results (strong fairness on `TaskReceives`): its ticker is ready once a second.
  No peer has to answer and no job has to end.
- `FileSplit`: reads, writes and renames return.

### What the code does outside these instances

Facts met while modelling that no run is spent on:

- Two overlapping `download_file` calls for one file pass both store checks and
  are both answered ok; the later record replaces the earlier one, also one that
  has claimed chunks, and the first call's path never gets the file
  (`grpc/server.rs:80-155`).
- A job whose keys do not fit into the key store is retried for ever inside the
  loop, which then serves nothing else (`events.rs:239-242`): `StoreFull` and
  `HeldByJob` name this exception.
- Publishing a changed file again at its path overwrites the chunks and the
  `.metadata` of the older key, whose record stays; its peers then get the newer
  file.  `Publish` has such calls and names the paths (`Shared`); in `Serving` each
  directory has one writer (`OneWriterPerDir`; `Publishes` and `Wants` of the
  instance).
- `a.txt` and `a_txt` downloaded to one path share `a_txt_chunks`
  (`processing.rs:33`): the later call replaces the `.metadata` under the earlier
  download, whose chunks are then rejected at every scan, or which restores the other
  file in its place.  `SharedDir` names such directories.
- The keys of a download that the key store refuses are only logged
  (`events.rs:107-116`) and the file is recorded as published all the same; the next
  start offers it again, meets the same limit with a `?` (`events.rs:225`) and ends
  the node, until a record is removed by hand.  `NodeComesUp` names this as the first
  of its three reasons.
- `--max-active-downloads` bounds chunk transfers, not downloads.
- `x` restored through `x.part` collides with a published file of that name.

## 4. Proofs

Every proof is checked by tlapm to the last step.  The theorems hold for every
value of the constants that satisfies `ConstantsAssumption`; any further
assumption is named here and stands in the theorem.

`FileDownload_proofs`:

- `TypeCorrect`: `Spec => []TypeOK`.
- `OneTask`: `Spec => []OneTaskPerFile`, inductive together with `TypeOK`.
- `PendingIsNotLost`: `Spec => PendingBecomesPublished`.  The delete happens at
  `pc = "unpend"`; the invariant is that such a task's key is published.
- `ClaimsHold`, `PublishedRestored`: `[]ClaimedChunksOnDisk` and
  `[]PublishedIsRestored`, for every failure and every clash of names; the two
  exceptions are in the properties, not in an assumption.

The two last need a strengthening, `DiskInv`, in three parts.  `Placed`: whatever
names a directory (records, `.metadata`, calls, published records) names one of
which its file is an owner.  `ChunksInv`, about files that own their directory alone
(`Own`): a subtask lies among the chunks of its own key (`SubtasksPlaced`), a task
holds the proofs of its own key (`ProofsOfKey`), and at `restore` has every chunk
(`RestoreReady`).  `RestoredInv`: what is restored is whole but for cut chunks
(`RestoredWhole`), and a task past `restore` has it (`RestoredBeforePublish`).  The
claim about chunk files alone is not inductive: a completed chunk is whole only
because the reply was checked against metadata of the same key.

`Publish_proofs`:

- `TypeCorrect`: `Spec => []TypeOK`, the limit of the key store included.  The
  argument is `ProvideWithinLimit`: what one `provide_all` enters is an initial
  segment of the file's keys (`InitialSegment`), the longest that fits.
- `JobsAreNotLost`: `Spec => JobsLeavePublished`, because the record is in the
  store whenever the loop is about to delete the job (`RecordedFirst`).
- `PublishedIntact`, `PublishedOffered`, `NodeStarts`: `[]PublishedIsIntact`,
  `[]PublishedIsOffered` and `[]NodeComesUp`, from `ConstantsAssumption` alone: any
  number of calls and downloads at one path, cut and lost writes, crashes anywhere.

`PublishedIsIntact` needs `DiskInv`: whatever has a job or a record comes from a
call that was answered or a download (`JobsHaveCalls`), what a call has counted is
on disk where it alone has written (`CallsWrite`, `DownloadsWrite`), and `.metadata`
is torn only while it is saved or where its last write was lost
(`TornWhileSaving`).  The two about the key store need `OfferInv`: the stream at
startup has offered what it has yielded and nothing else (`StreamOffers`), so that a
start whose published files fit never meets the limit (`ProvideAllThatFits`), and a
job is recorded only when all its keys are offered (`JobOffered`).

`FileSplit_proofs`, for every chunk size, every length and every number of
mishaps, from `ConstantsAssumption` alone:

- `TypeCorrect`: `Spec => []TypeOK`.
- `ChunksPartition`: `Spec => []ChunksPartitionSource`.  A written chunk starts
  where the last one ends, because `pos - filled` is the end of what is written
  (`ConsecutiveAppend`), and a short one is written only at the end of the source.
- `RestoredWhole`: `Spec => []RestoredIsSource`.  That a restored file is whole is
  not inductive; that the `.part` file is a prefix of the chunk files
  (`PartFollowsChunks`), and a restored file all of them (`RestoredFromChunks`),
  is, and `SplitIsComplete` says that these are the whole source.

`ProviderRequests_proofs`, from `ConstantsAssumption` alone:

- `TypeCorrect`: `Spec => []TypeOK`.  That no number of a query or a request
  leaves its range is `NumbersSuffice`: each number given out belongs to another
  channel, and there are no more of them than calls.
- `ChannelsKeptOnce`, `AnswersOwn`: `[]KeptOnce` and `[]AnswersOwnRequest`.
- `PromiseKept`: `Spec => KeepsPromise`, the refinement of `Oneshot` under the mapping
  `Standing`: no step but a failure takes the last query or request that carries an
  open channel without answering it, and a failure takes one channel
  (`UnderWayCarried` relates what is on its way to what the tables hold).

The invariant relates the tables to each other: an entry has a number that was given
out (`QueriesKept`, `DownloadsKept`), a message on its way has its entry
(`MessagesOwn`), each is of the kind of its request, no channel is in two entries
(`KeptApart`), and a channel that is open is in one (`WaitingIsKept`).  That both
behaviours number from one does no harm because the kind picks the table.

`Search_proofs`, for every capacity, number of searches and value of the bounds:

- `TypeCorrect`: `Spec => []TypeOK`, with the capacity of all three channels.
- `SessionsLead`: `Spec => []SessionHasTask`.  It is inductive with
  `QueuedHasTask`: as long as a command or the table holds the sender, the task
  cannot end.
- `RepeatsForgotten`: `Spec => []RepeatsOnlyForgotten`.  The number of sends is at
  most that of the entries a cache holds and those it has forgotten
  (`CacheHoldsSent`), because what a task is about to send is not in its cache
  when it sends it, however long the send waits (`HandIsNew`).
- `RivalsClose`: no assumption on what is searched for.  The stream of a client
  that listens ends only if its search was refused or if another call searches for
  the same value (`SenderKept`, `AbortsTheGone`); so the cause that `same_value`
  exhibits is the only one.  `StreamsStayOpen` draws the conclusion: under
  `DistinctValues`, `Spec => []StreamStaysOpen`.
- `CircleForGood`: `Spec => CircleIsForGood`, for every capacity: no step of anybody
  makes room for either of the two that wait.
- `PeersTold`: `MatchesAccounted`, what the liveness of `PeersAreAnswered` rests
  on: a match is still to be looked at, queued or sent, and nothing else is.

`Serving_proofs`, for every number of nodes, files and chunks, under the assumption
`OneWriterPerDir`: on each node, files that share a chunks directory are one file,
and it is not both published and downloaded into it.  Without it a second writer
truncates the `.metadata` beside a published file, and a published file is not
whole (section 3).

- `TypeCorrect`, `PublishedWhole`, `AnswersFitFile`: `[]TypeOK`,
  `[]PublishedIsWhole` and `[]AnswersAreOfTheFile`.
- `StepsReplicate`: `Spec => ReplicatesStepwise`.  `AddPublished` is a step
  `Publish`, `PutPending` an `Accept`, `PutPublished` a `Complete`; a job for a file
  whose download is still under way completes that; all other steps stutter.

The invariant `IInv` has two halves.  `DiskInv` is about directories: one to which
a record points is `Settled`, that is, no call is to write its `.metadata` any
more, and it `Has` a chunk for good once the record claims it; a call has written
what its counter says (`PublishWrites`, `CallWrites`), a subtask is about a chunk
that is not claimed yet (`SubtasksFit`).  `NetInv` is about messages: what is asked
for is on its way once, as a request in an inbox or a handler or as the answer
(`AskedOnce`), and somebody waits for it (`SomebodyWaits`), so that an answer never
meets a record that has gone; what a handler has looked up stays true through its
awaits (`HandlerReads`), because settled directories stay settled.

`Lifecycle_proofs`, for every set of calls and every capacity:

- `TypeCorrect`, `ExitsClean`: `[]TypeOK` and `[]ExitIsClean`, from what main has
  spawned and joined (`Phases`) and the calls gRPC has waited for (`CallsServed`).
  No command, task or sender is there before gRPC serves.
- `AllAreTold`, `LoopLetsGo`: the safety halves of `FailureStopsNode` and
  `CallsEndWithLoop`: no service ends and main does not stop without all tokens
  cancelled, and once the loop has ended no call waits for it.

Every invariant and every action property of the passing runs is thus a theorem.
Only model-checked is liveness (fairness and `ENABLED` are out of the prover's
reach): `DownloadsComplete`, `AnsweredUnlessLost`, `GoneIsForgotten`,
`OnlyCircleBlocks`, `PeersAreAnswered`, `JobIsPublishedOrStoreFull`, `StopReturns`,
`FailureStopsNode`, `CallsEndWithLoop`, `RestoredOrEmpty` and the fairness of
`Replication`.

## 5. Not modelled

Discovery, dialling, relay and identify, whose only effect here is which peers a
query reports; keypair and swarm construction; serialisation; hashes and Merkle
proofs; logging; option parsing.  Kademlia's own record expiry, and records that
other peers put into the node's key store, are outside `Publish`.  A service that
panics is outside `Lifecycle`: `spawn_task` cancels the token only for an error.
Crashes of several nodes, and lost messages between them, are modelled for one
node at a time (`FileDownload`, `ProviderRequests`), not in `Serving`.

## 6. Plan

What is left is to prove what liveness rests on, as safety:

1. `Serving`: a chunk that was offered is served or about to be claimed, which is
   why asking too early ends.
2. `FileDownload`: the permits are never more than `max_active_downloads`, and
   none is held for good by a task that has ended.
