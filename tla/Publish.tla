------------------------------ MODULE Publish ------------------------------
(***************************************************************************)
(* The publishing half of a node: the gRPC call publish_file, which splits *)
(* a file into chunks beside it and leaves a job in the store, and the P2P *)
(* loop, which takes a job, offers its keys to Kademlia, records the file  *)
(* as published and deletes the job.  The store and the disk survive a     *)
(* crash; what Kademlia offers is kept in memory, up to a limit, and is    *)
(* offered again from the published files when the node starts.  A file    *)
(* that the node has downloaded is published too, but a key of it that the *)
(* limit refuses is only logged; the download itself is FileDownload.      *)
(* Every path may be published or downloaded to any number of times.       *)
(***************************************************************************)
EXTENDS Naturals, FiniteSets

CONSTANTS
  File,         \* file keys: a name, its content and its public flag
  Path,         \* paths on disk
  PathOf,       \* where a file lies, its chunks directory beside it
  NumChunks,    \* total_chunks of each file
  Call,         \* calls of publish_file
  FileOf,       \* what each call publishes
  Downloads,    \* files the node may download
  MaxKeys,      \* keys the Kademlia store holds (1024 in libp2p's MemoryStore)
  MaxCrashes,   \* bound: crashes in a behaviour
  None, Torn

Chunk == UNION {0 .. NumChunks[f] - 1 : f \in File}

\* Kademlia's keys for a file: the metadata's first, then each chunk's.
Keys(f) == {<<f, i>> : i \in 0 .. NumChunks[f]}

ASSUME ConstantsAssumption ==
  /\ PathOf \in [File -> Path]
  /\ NumChunks \in [File -> Nat \ {0}]
  /\ FileOf \in [Call -> File]
  /\ Downloads \subseteq File
  /\ MaxKeys \in Nat /\ MaxCrashes \in Nat
  /\ None \notin File /\ Torn \notin File /\ None # Torn

VARIABLES
  call,        \* what each call does next
  written,     \* how many chunks it has written
  chunkFile,   \* <chunks_dir>/<chunk>.chunk: whose bytes
  meta,        \* <chunks_dir>/.metadata: the file it describes
  jobs,        \* FILE_METADATA column family
  published,   \* PUBLISHED_FILES column family
  offered,     \* keys in Kademlia's memory store
  loop,        \* what the P2P loop does
  job,         \* the metadata file_publish works on
  toOffer,     \* records the stream at startup has still to yield
  crashes,
  begun,       \* downloads that have written their .metadata
  skipped,     \* records whose .metadata this start could not read
  unflushed    \* history: paths where a lost write has left .metadata torn

calls == <<call, written>>
disk == <<chunkFile, meta>>
store == <<jobs, published>>
p2p == <<offered, loop, job, toOffer, skipped>>
vars == <<calls, disk, store, p2p, crashes, begun, unflushed>>

CallPc == {"new", "split", "saving", "put", "ok", "failed"}
LoopPc == {"starting", "serve", "provide", "add", "delete", "down"}
Content == File \cup {None, Torn}

TypeOK ==
  /\ call \in [Call -> CallPc]
  /\ written \in [Call -> Nat]
  /\ \A k \in Call : written[k] \in 0 .. NumChunks[FileOf[k]]
  /\ chunkFile \in [Path -> [Chunk -> Content]]
  /\ meta \in [Path -> Content]
  /\ jobs \subseteq File /\ published \subseteq File
  /\ offered \subseteq UNION {Keys(f) : f \in File}
  /\ IsFiniteSet(offered) /\ Cardinality(offered) <= MaxKeys
  /\ loop \in LoopPc
  /\ job \in File \cup {None}
  /\ job # None <=> loop \in {"provide", "add", "delete"}
  /\ toOffer \subseteq published
  /\ crashes \in 0 .. MaxCrashes
  /\ begun \subseteq Downloads /\ skipped \subseteq published /\ unflushed \subseteq Path

Init ==
  /\ call = [k \in Call |-> "new"]
  /\ written = [k \in Call |-> 0]
  /\ chunkFile = [p \in Path |-> [c \in Chunk |-> None]]
  /\ meta = [p \in Path |-> None]
  /\ jobs = {} /\ published = {}
  /\ offered = {} /\ loop = "serve" /\ job = None /\ toOffer = {}
  /\ crashes = 0
  /\ begun = {} /\ skipped = {} /\ unflushed = {}

-----------------------------------------------------------------------------
(* publish_file: one action per write it awaits.                           *)

Goto(k, next) == call' = [call EXCEPT ![k] = next]

StartPublish(k) ==
  /\ call[k] = "new"
  /\ Goto(k, "split")
  /\ UNCHANGED <<written, disk, store, p2p, crashes, begun, unflushed>>

\* split writes the next chunk, over any chunk file of that number.
WriteChunk(k) ==
  LET f == FileOf[k] IN
  /\ call[k] = "split" /\ written[k] < NumChunks[f]
  /\ chunkFile' = [chunkFile EXCEPT ![PathOf[f]][written[k]] = f]
  /\ written' = [written EXCEPT ![k] = @ + 1]
  /\ UNCHANGED <<call, meta, store, p2p, crashes, begun, unflushed>>

\* The write truncates the chunk file and fails, or the process dies next.
WriteChunkCut(k) ==
  LET f == FileOf[k] IN
  /\ call[k] = "split" /\ written[k] < NumChunks[f]
  /\ chunkFile' = [chunkFile EXCEPT ![PathOf[f]][written[k]] = Torn]
  /\ Goto(k, "failed")
  /\ UNCHANGED <<written, meta, store, p2p, crashes, begun, unflushed>>

\* Mutant of CreateMetadata: the last chunk is not awaited.
CreateMetadataEarly(k) ==
  /\ call[k] = "split" /\ written[k] + 1 >= NumChunks[FileOf[k]]
  /\ meta' = [meta EXCEPT ![PathOf[FileOf[k]]] = Torn]
  /\ Goto(k, "saving")
  /\ UNCHANGED <<written, chunkFile, store, p2p, crashes, begun, unflushed>>

\* save_metadata truncates .metadata ...
CreateMetadata(k) ==
  /\ call[k] = "split" /\ written[k] = NumChunks[FileOf[k]]
  /\ meta' = [meta EXCEPT ![PathOf[FileOf[k]]] = Torn]
  /\ Goto(k, "saving")
  /\ UNCHANGED <<written, chunkFile, store, p2p, crashes, begun, unflushed>>

\* ... and writes it.
FillMetadata(k) ==
  /\ call[k] = "saving"
  /\ meta' = [meta EXCEPT ![PathOf[FileOf[k]]] = FileOf[k]]
  /\ Goto(k, "put")
  /\ UNCHANGED <<written, chunkFile, store, p2p, crashes, begun, unflushed>>

\* The last write of the BufWriter happens when it is dropped, its error is
\* lost: save_metadata returns Ok all the same.
FillMetadataLost(k) ==
  /\ call[k] = "saving"
  /\ Goto(k, "put")
  /\ unflushed' = unflushed \cup {PathOf[FileOf[k]]}
  /\ UNCHANGED <<written, disk, store, p2p, crashes, begun>>

\* Mutant of PutJob: save_metadata is not awaited.
PutJobEarly(k) ==
  /\ call[k] \in {"saving", "put"}
  /\ jobs' = jobs \cup {FileOf[k]}
  /\ Goto(k, "ok")
  /\ UNCHANGED <<written, disk, published, p2p, crashes, begun, unflushed>>

\* put_file_metadata: the job, and the answer to the client.
PutJob(k) ==
  /\ call[k] = "put"
  /\ jobs' = jobs \cup {FileOf[k]}
  /\ Goto(k, "ok")
  /\ UNCHANGED <<written, disk, published, p2p, crashes, begun, unflushed>>

\* An input, disk or store error, or the client hangs up.
CallFails(k) ==
  /\ call[k] \in {"split", "saving", "put"}
  /\ Goto(k, "failed")
  /\ UNCHANGED <<written, disk, store, p2p, crashes, begun, unflushed>>

-----------------------------------------------------------------------------
(* A download, as far as the published files and the key store see it.     *)

\* download_file saves .metadata in the directory it shares with its chunks.
BeginDownload(f) ==
  /\ f \in Downloads \ (begun \cup published)
  /\ loop \notin {"starting", "down"}
  /\ begun' = begun \cup {f}
  /\ meta' = [meta EXCEPT ![PathOf[f]] = f]
  /\ UNCHANGED <<calls, chunkFile, store, p2p, crashes, unflushed>>

\* Its task has written the chunks and records the file.
CompleteDownload(f) ==
  /\ f \in begun \ published
  /\ loop \notin {"starting", "down"}
  /\ chunkFile' = [chunkFile EXCEPT ![PathOf[f]] =
       [c \in Chunk |-> IF c \in 0 .. NumChunks[f] - 1 THEN f ELSE @[c]]]
  /\ published' = published \cup {f}
  /\ UNCHANGED <<calls, meta, jobs, p2p, crashes, begun, unflushed>>

-----------------------------------------------------------------------------
(* The P2P loop.                                                           *)

\* Mutant of Provide: the store has no limit.
ProvideUnbounded(f) == offered \cup Keys(f)

\* provide_all enters a file's keys one after the other until the store
\* refuses one; a key it holds already is replaced.
Provide(f) ==
  offered \cup {k \in Keys(f) :
                  Cardinality(offered \cup {<<f, i>> : i \in 0 .. k[2]}) <= MaxKeys}

Provided(f) == Keys(f) \subseteq Provide(f)

\* ProvideMetadata and ProvideFileChunk, the commands of a download: the store
\* takes what it has room for, and the rest is an error that is logged.
ProvideDownload(f) ==
  /\ loop = "serve" /\ f \in Downloads
  /\ offered' = Provide(f)
  /\ UNCHANGED <<calls, disk, store, loop, job, toOffer, skipped, crashes, begun, unflushed>>

\* get_next_file_metadata yields the first job.
TakeJob(f) ==
  /\ loop = "serve" /\ f \in jobs
  /\ loop' = "provide" /\ job' = f
  /\ UNCHANGED <<calls, disk, store, offered, toOffer, skipped, crashes, begun, unflushed>>

\* file_publish: provide_all, again every second until it succeeds.
ProvideJob ==
  /\ loop = "provide"
  /\ offered' = Provide(job)
  /\ loop' = IF Provided(job) THEN "add" ELSE "provide"
  /\ UNCHANGED <<calls, disk, store, job, toOffer, skipped, crashes, begun, unflushed>>

\* Mutant of AddPublished: the job is deleted before the file is recorded.
DeleteJobFirst ==
  /\ loop = "add"
  /\ jobs' = jobs \ {job}
  /\ loop' = "delete"
  /\ UNCHANGED <<calls, disk, published, offered, job, toOffer, skipped, crashes, begun, unflushed>>

\* add_published_file, again every second until the store takes it.
AddPublished ==
  /\ loop = "add"
  /\ published' = published \cup {job}
  /\ loop' = "delete"
  /\ UNCHANGED <<calls, disk, jobs, offered, job, toOffer, skipped, crashes, begun, unflushed>>

\* delete_file_metadata, by the job's key.
DeleteJob ==
  /\ loop = "delete"
  /\ jobs' = jobs \ {job}
  /\ loop' = "serve" /\ job' = None
  /\ UNCHANGED <<calls, disk, published, offered, toOffer, skipped, crashes, begun, unflushed>>

\* The process dies, whatever it was doing, and is started again: the stream
\* of published files is opened.
Crash ==
  /\ crashes < MaxCrashes
  /\ crashes' = crashes + 1
  /\ call' = [k \in Call |-> IF call[k] \in {"new", "ok"} THEN call[k] ELSE "failed"]
  /\ offered' = {} /\ loop' = "starting" /\ job' = None
  /\ toOffer' = published /\ skipped' = {}
  /\ UNCHANGED <<written, disk, store, begun, unflushed>>

\* Mutant of OfferPublished: a record is passed over.
OfferNothing(f) ==
  /\ loop = "starting" /\ f \in toOffer
  /\ toOffer' = toOffer \ {f}
  /\ UNCHANGED <<calls, disk, store, offered, loop, job, skipped, crashes, begun, unflushed>>

\* provide_all_published_files reads the .metadata beside the record's chunks
\* and offers what it describes.  Metadata that does not parse or a key that is
\* refused ends the P2P service and with it the node.
OfferPublished(f) ==
  LET m == meta[PathOf[f]] IN
  /\ loop = "starting" /\ f \in toOffer /\ m # None
  /\ toOffer' = toOffer \ {f}
  /\ offered' = IF m \in File THEN Provide(m) ELSE offered
  /\ loop' = IF m \in File /\ Provided(m) THEN "starting" ELSE "down"
  /\ UNCHANGED <<calls, disk, store, job, skipped, crashes, begun, unflushed>>

\* Metadata that cannot be read is only logged.
SkipUnreadable(f) ==
  /\ loop = "starting" /\ f \in toOffer
  /\ toOffer' = toOffer \ {f}
  /\ skipped' = skipped \cup {f}
  /\ UNCHANGED <<calls, disk, store, offered, loop, job, crashes, begun, unflushed>>

\* Mutant of StartLoop: the stream of published files must yield one first.
StartLoopNever ==
  /\ loop = "starting" /\ toOffer = {} /\ published # {}
  /\ loop' = "serve"
  /\ UNCHANGED <<calls, disk, store, offered, job, toOffer, skipped, crashes, begun, unflushed>>

StartLoop ==
  /\ loop = "starting" /\ toOffer = {}
  /\ loop' = "serve"
  /\ UNCHANGED <<calls, disk, store, offered, job, toOffer, skipped, crashes, begun, unflushed>>

DownloadStep ==
  \E f \in File : BeginDownload(f) \/ CompleteDownload(f) \/ ProvideDownload(f)

LoopStep ==
  \/ \E f \in File : TakeJob(f) \/ OfferPublished(f) \/ SkipUnreadable(f)
  \/ ProvideJob \/ AddPublished \/ DeleteJob \/ StartLoop

Next ==
  \/ \E k \in Call : \/ StartPublish(k) \/ WriteChunk(k) \/ WriteChunkCut(k)
                     \/ CreateMetadata(k) \/ FillMetadata(k) \/ FillMetadataLost(k)
                     \/ PutJob(k) \/ CallFails(k)
  \/ DownloadStep
  \/ LoopStep
  \/ Crash

Spec == Init /\ [][Next]_vars

(* The loop runs: swarm events, which its biased select! serves first, leave *)
(* it time for a job, and the store takes a write in the end.                *)
FairSpec == Spec /\ WF_vars(LoopStep)

-----------------------------------------------------------------------------
(* Properties.                                                             *)

\* A job leaves the store only for a published file, whatever crash comes
\* between the three steps of file_publish (events.rs:239-247).
JobsLeavePublished ==
  [][\A f \in jobs \ jobs' : f \in published]_vars

\* Who has written, or begun to write, into the chunks directory of a path.
Writers(p) ==
  {<<"call", k>> : k \in {k \in Call : call[k] # "new" /\ PathOf[FileOf[k]] = p}}
  \cup {<<"download", f>> : f \in {f \in begun : PathOf[f] = p}}

\* Published or downloaded there more than once: a later writer overwrites what an
\* earlier record points to, and may fail or be killed half-way (processing.rs:95).
Shared(p) == \E x, y \in Writers(p) : x # y

\* A loop that serves offers every key of every file it has published by itself,
\* also after a restart, unless that start could not read the file's .metadata or
\* another writer has replaced it (events.rs:214-247, service.rs:207-209).
PublishedIsOffered ==
  loop = "serve" => \A f \in published \ Downloads :
    f \in skipped \/ Shared(PathOf[f]) \/ Keys(f) \subseteq offered

\* publish_file leaves the job after its last write (server.rs:45-54), so wherever
\* one alone has written, the chunks beside a file with a job or a record are that
\* file's, and the .metadata too unless its last write was lost (utils.rs:36-39).
PublishedIsIntact ==
  \A f \in jobs \cup published : Shared(PathOf[f]) \/
    /\ \A c \in 0 .. NumChunks[f] - 1 : chunkFile[PathOf[f]][c] = f
    /\ meta[PathOf[f]] = f \/ (PathOf[f] \in unflushed /\ meta[PathOf[f]] = Torn)

PublishedKeys == UNION {Keys(f) : f \in published}

\* The key store has room for all that is published.
PublishedFits == IsFiniteSet(PublishedKeys) /\ Cardinality(PublishedKeys) <= MaxKeys

\* A start fails for three reasons alone, whatever crash came while files were
\* written and recorded: the keys do not fit, a write of .metadata was lost, or a
\* directory had two writers (events.rs:214-230).
NodeComesUp ==
  loop = "down" =>
    \/ ~PublishedFits
    \/ \E f \in published : PathOf[f] \in unflushed \/ Shared(PathOf[f])

StoreFull == loop = "provide" /\ ~Provided(job)

\* A job is published in the end, whatever crashes, unless the key store is full or
\* the node does not start any more (events.rs:232-247; NodeComesUp says when).
JobIsPublishedOrStoreFull ==
  \A f \in File : f \in jobs ~> f \in published \/ StoreFull \/ loop = "down"
=============================================================================
