------------------------------- MODULE Serving -------------------------------
(***************************************************************************)
(* Several nodes: how the P2P loop of each answers the metadata and chunk  *)
(* requests of the others while its own tasks publish and download.  The   *)
(* handler of a request awaits every look into the store and every read of *)
(* a file; until it has answered, the loop takes no other event, but the   *)
(* download tasks and the gRPC calls of the node go on and move the records*)
(* and write the files the handler is looking at.                          *)
(*                                                                         *)
(* The inner steps of a download and of a publication are FileDownload and *)
(* Publish; here they keep the steps that other nodes can see.  A message  *)
(* is in the inbox of its receiver from the moment it is sent: a delay on  *)
(* the way is a delay of the sender, which does nothing else about it.     *)
(***************************************************************************)
EXTENDS Naturals, FiniteSets, Sequences, TLC

CONSTANTS
  Node, File,
  Path,          \* directories on a node's disk
  Name,          \* file names; the name decides the chunks directory in a path
  NameOf,        \* the name of each file
  NumChunks,     \* total_chunks of each file
  Publishes,     \* <<node, file, path>>: the publish_file calls there may be
  Wants,         \* <<node, file, path>>: the download_file calls there may be
  None,          \* no record, no file; the answer FileResponse::NotFound
  Torn,          \* a file truncated and not yet written
  Error          \* the answer FileResponse::Error

Chunks(f) == 0 .. NumChunks[f] - 1
Chunk == UNION {Chunks(f) : f \in File}
Dir == Path \X Name
DirAt(p, f) == <<p, NameOf[f]>>
Content == File \cup {None, Torn}

ASSUME ConstantsAssumption ==
  /\ NameOf \in [File -> Name]
  /\ NumChunks \in [File -> Nat \ {0}]
  /\ Publishes \subseteq Node \X File \X Path
  /\ Wants \subseteq Node \X File \X Path
  /\ \A special \in {None, Torn, Error} : special \notin File
  /\ None \notin Dir /\ None \notin [dir : Dir, chunks : SUBSET Chunk]
  /\ None # Torn /\ None # Error /\ Torn # Error

VARIABLES
  published,   \* each node's PUBLISHED_FILES: the chunks_dir of a record
  pending,     \* each node's PENDING_DOWNLOADS
  meta,        \* each node's .metadata files, by chunks_dir
  chunkFile,   \* each node's chunk files
  publish,     \* the publish_file call of each node, then its job
  call,        \* the download_file call of each node
  sub,         \* each node's subtask for a chunk of a file
  handler,     \* the request whose handler the loop is in
  inbox        \* what the swarm has still to hand to the loop

store == <<published, pending>>
disk == <<meta, chunkFile>>
client == <<publish, call>>
net == <<handler, inbox>>
vars == <<store, disk, client, sub, net>>

Record == [dir : Dir, chunks : SUBSET Chunk]
Request == [is : {"request"}, kind : {"metadata", "chunk"}, peer : Node, file : File,
            chunk : Chunk]
Response == [is : {"response"}, kind : {"metadata", "chunk"}, peer : Node, file : File,
             chunk : Chunk, body : Content \cup {Error}]

NoPublish == [pc |-> "idle", file |-> None, path |-> None, next |-> 0]
NoCall == [pc |-> "idle", asked |-> None, path |-> None, file |-> None]
NoHandler == [pc |-> "idle", request |-> None, dir |-> None]

TypeOK ==
  /\ published \in [Node -> [File -> Dir \cup {None}]]
  /\ pending \in [Node -> [File -> Record \cup {None}]]
  /\ meta \in [Node -> [Dir -> Content]]
  /\ chunkFile \in [Node -> [Dir -> [Chunk -> Content]]]
  /\ publish \in [Node ->
       [pc : {"split", "saving", "job"}, file : File, path : Path, next : Nat]
         \cup {NoPublish}]
  /\ call \in [Node ->
       [pc : {"asked", "save", "saving", "put"}, asked : File, path : Path,
        file : File \cup {None}] \cup {NoCall}]
  /\ sub \in [Node -> [File -> [Chunk -> {"idle", "asked", "writing", "written"}]]]
  /\ handler \in [Node ->
       [pc : {"pending", "metadata", "chunk"}, request : Request, dir : Dir \cup {None}]
         \cup {NoHandler}]
  /\ inbox \in [Node -> Seq(Request \cup Response)]

Init ==
  /\ published = [n \in Node |-> [f \in File |-> None]]
  /\ pending = [n \in Node |-> [f \in File |-> None]]
  /\ meta = [n \in Node |-> [d \in Dir |-> None]]
  /\ chunkFile = [n \in Node |-> [d \in Dir |-> [c \in Chunk |-> None]]]
  /\ publish = [n \in Node |-> NoPublish]
  /\ call = [n \in Node |-> NoCall]
  /\ sub = [n \in Node |-> [f \in File |-> [c \in Chunk |-> "idle"]]]
  /\ handler = [n \in Node |-> NoHandler]
  /\ inbox = [n \in Node |-> <<>>]

-----------------------------------------------------------------------------
(* Publishing: a publish_file call and the job it leaves to the loop.      *)

StartPublish(n, f, p) ==
  /\ <<n, f, p>> \in Publishes
  /\ publish[n] = NoPublish
  /\ published[n][f] = None      \* bound: a file is published once
  /\ publish' = [publish EXCEPT ![n] = [pc |-> "split", file |-> f, path |-> p, next |-> 0]]
  /\ UNCHANGED <<store, disk, call, sub, net>>

\* Mutant of WriteChunk: one chunk too many.
WriteChunkPastEnd(n) ==
  LET w == publish[n]
      d == DirAt(w.path, w.file)
  IN
  /\ w.pc = "split" /\ w.next <= NumChunks[w.file]
  /\ chunkFile' = [chunkFile EXCEPT ![n][d] = (w.next :> w.file) @@ @]
  /\ publish' = [publish EXCEPT ![n].next = @ + 1]
  /\ UNCHANGED <<store, meta, call, sub, net>>

\* split writes chunk files over those that lie there.
WriteChunk(n) ==
  LET w == publish[n]
      d == DirAt(w.path, w.file)
  IN
  /\ w.pc = "split" /\ w.next < NumChunks[w.file]
  /\ chunkFile' = [chunkFile EXCEPT ![n][d][w.next] = w.file]
  /\ publish' = [publish EXCEPT ![n].next = @ + 1]
  /\ UNCHANGED <<store, meta, call, sub, net>>

CreateMetadata(n) ==
  LET w == publish[n] IN
  /\ w.pc = "split" /\ w.next = NumChunks[w.file]
  /\ meta' = [meta EXCEPT ![n][DirAt(w.path, w.file)] = Torn]
  /\ publish' = [publish EXCEPT ![n].pc = "saving"]
  /\ UNCHANGED <<store, chunkFile, call, sub, net>>

FillMetadata(n) ==
  LET w == publish[n] IN
  /\ w.pc = "saving"
  /\ meta' = [meta EXCEPT ![n][DirAt(w.path, w.file)] = w.file]
  /\ publish' = [publish EXCEPT ![n].pc = "job"]
  /\ UNCHANGED <<store, chunkFile, call, sub, net>>

\* Mutant of AddPublished: a file is recorded while its chunks are written.
AddPublishedEarly(n) ==
  LET w == publish[n] IN
  /\ w.pc \in {"split", "job"} /\ handler[n] = NoHandler
  /\ published' = [published EXCEPT ![n][w.file] = DirAt(w.path, w.file)]
  /\ publish' = [publish EXCEPT ![n] = IF w.pc = "job" THEN NoPublish ELSE w]
  /\ UNCHANGED <<pending, disk, call, sub, net>>

\* The loop offers the keys and adds the record; it serves nobody meanwhile.
AddPublished(n) ==
  LET w == publish[n] IN
  /\ w.pc = "job" /\ handler[n] = NoHandler
  /\ published' = [published EXCEPT ![n][w.file] = DirAt(w.path, w.file)]
  /\ publish' = [publish EXCEPT ![n] = NoPublish]
  /\ UNCHANGED <<pending, disk, call, sub, net>>

-----------------------------------------------------------------------------
(* Who is asked.  Kademlia knows the nodes that have offered a key: the    *)
(* metadata is offered before a pending record is stored and a chunk before*)
(* it is entered in the record, so a node may be asked too early.          *)

OffersMetadata(n, f) ==
  \/ published[n][f] # None
  \/ pending[n][f] # None
  \/ call[n].pc = "put" /\ call[n].file = f

OffersChunk(n, f, c) ==
  \/ published[n][f] # None
  \/ pending[n][f] # None /\ (c \in pending[n][f].chunks \/ sub[n][f][c] = "written")

Send(m, message) == inbox' = [inbox EXCEPT ![m] = Append(@, message)]

Ask(n, m, kind, f, c) ==
  Send(m, [is |-> "request", kind |-> kind, peer |-> n, file |-> f, chunk |-> c])

-----------------------------------------------------------------------------
(* download_file.                                                          *)

\* The file is neither published nor pending here: ask a provider for it.
RequestMetadata(n, f, p) ==
  /\ <<n, f, p>> \in Wants
  /\ call[n] = NoCall
  /\ published[n][f] = None /\ pending[n][f] = None
  /\ \E m \in Node \ {n} : OffersMetadata(m, f) /\ Ask(n, m, "metadata", f, 0)
  /\ call' = [call EXCEPT ![n] = [pc |-> "asked", asked |-> f, path |-> p, file |-> None]]
  /\ UNCHANGED <<store, disk, publish, sub, handler>>

CallDir(n) == DirAt(call[n].path, call[n].file)

SaveMetadata(n) ==
  /\ call[n].pc = "save"
  /\ meta' = [meta EXCEPT ![n][CallDir(n)] = Torn]
  /\ call' = [call EXCEPT ![n].pc = "saving"]
  /\ UNCHANGED <<store, chunkFile, publish, sub, net>>

MetadataSaved(n) ==
  /\ call[n].pc = "saving"
  /\ meta' = [meta EXCEPT ![n][CallDir(n)] = call[n].file]
  /\ call' = [call EXCEPT ![n].pc = "put"]
  /\ UNCHANGED <<store, chunkFile, publish, sub, net>>

\* The record's key is that of the metadata the peer sent.
PutPending(n) ==
  /\ call[n].pc = "put"
  /\ pending' = [pending EXCEPT ![n][call[n].file] = [dir |-> CallDir(n), chunks |-> {}]]
  /\ call' = [call EXCEPT ![n] = NoCall]
  /\ UNCHANGED <<published, disk, publish, sub, net>>

-----------------------------------------------------------------------------
(* A download.                                                             *)

SetSub(n, f, c, s) == sub' = [sub EXCEPT ![n][f][c] = s]

RequestFileChunk(n, f, c) ==
  /\ pending[n][f] # None /\ published[n][f] = None
  /\ c \in Chunks(f) \ pending[n][f].chunks
  /\ sub[n][f][c] = "idle"
  /\ SetSub(n, f, c, "asked")
  /\ \E m \in Node \ {n} : OffersChunk(m, f, c) /\ Ask(n, m, "chunk", f, c)
  /\ UNCHANGED <<store, disk, client, handler>>

\* The bytes written are those of the file that .metadata describes.
ChunkWritten(n, f, c) ==
  LET d == pending[n][f].dir IN
  /\ sub[n][f][c] = "writing"
  /\ chunkFile' = [chunkFile EXCEPT ![n][d][c] = meta[n][d]]
  /\ SetSub(n, f, c, "written")
  /\ UNCHANGED <<store, meta, client, net>>

\* Mutant of JoinChunk: a chunk is claimed as soon as its file is opened.
JoinChunkEarly(n, f, c) ==
  /\ sub[n][f][c] \in {"writing", "written"}
  /\ pending' = [pending EXCEPT ![n][f].chunks = @ \cup {c}]
  /\ sub' = [sub EXCEPT ![n][f][c] = IF @ = "written" THEN "idle" ELSE @]
  /\ UNCHANGED <<published, disk, client, net>>

JoinChunk(n, f, c) ==
  /\ sub[n][f][c] = "written"
  /\ pending' = [pending EXCEPT ![n][f].chunks = @ \cup {c}]
  /\ SetSub(n, f, c, "idle")
  /\ UNCHANGED <<published, disk, client, net>>

Subtask(n, f, c) ==
  RequestFileChunk(n, f, c) \/ ChunkWritten(n, f, c) \/ JoinChunk(n, f, c)

Downloaded(n, f) == pending[n][f] # None /\ pending[n][f].chunks = Chunks(f)

PutPublished(n, f) ==
  /\ Downloaded(n, f) /\ published[n][f] = None
  /\ published' = [published EXCEPT ![n][f] = pending[n][f].dir]
  /\ UNCHANGED <<pending, disk, client, sub, net>>

\* Mutant of DeletePending: the record goes before the file is recorded.
DeletePendingFirst(n, f) ==
  /\ Downloaded(n, f)
  /\ pending' = [pending EXCEPT ![n][f] = None]
  /\ UNCHANGED <<published, disk, client, sub, net>>

DeletePending(n, f) ==
  /\ Downloaded(n, f) /\ published[n][f] # None
  /\ pending' = [pending EXCEPT ![n][f] = None]
  /\ UNCHANGED <<published, disk, client, sub, net>>

ProcessCompleted(n, f) == PutPublished(n, f) \/ DeletePending(n, f)

-----------------------------------------------------------------------------
(* The loop: metadata_download and file_download.                          *)

\* The rest of the inbox, and an answer for the peer that asked.
Answer(n, r, body, rest) ==
  inbox' = [[inbox EXCEPT ![n] = rest] EXCEPT
              ![r.peer] = Append(@, [is |-> "response", kind |-> r.kind, peer |-> n,
                                     file |-> r.file, chunk |-> r.chunk, body |-> body])]

Handle(n, next) == handler' = [handler EXCEPT ![n] = next]

\* The swarm hands a message of a kind to the loop.
Take(n, is, kind) ==
  /\ handler[n] = NoHandler
  /\ inbox[n] # <<>> /\ Head(inbox[n]).is = is /\ Head(inbox[n]).kind = kind

\* Metadata is served of published files alone: get_published_file.
TakeMetadataRequest(n) ==
  LET r == Head(inbox[n])
      d == published[n][r.file]
  IN
  /\ Take(n, "request", "metadata")
  /\ \/ /\ d # None
        /\ Handle(n, [pc |-> "metadata", request |-> r, dir |-> d])
        /\ inbox' = [inbox EXCEPT ![n] = Tail(@)]
     \/ d = None /\ Answer(n, r, None, Tail(inbox[n])) /\ UNCHANGED handler
  /\ UNCHANGED <<store, disk, client, sub>>

\* A chunk of a file that is not published is looked for among the pending.
TakeChunkRequest(n) ==
  LET r == Head(inbox[n])
      d == published[n][r.file]
  IN
  /\ Take(n, "request", "chunk")
  /\ Handle(n, [pc |-> IF d # None THEN "metadata" ELSE "pending", request |-> r, dir |-> d])
  /\ inbox' = [inbox EXCEPT ![n] = Tail(@)]
  /\ UNCHANGED <<store, disk, client, sub>>

Respond(n, body) ==
  /\ Answer(n, handler[n].request, body, inbox[n])
  /\ Handle(n, NoHandler)

\* try_from_pending_downloads: the record must claim the chunk.
LookUpPending(n) ==
  LET r == handler[n].request
      held == pending[n][r.file]
  IN
  /\ handler[n].pc = "pending"
  /\ IF held # None /\ r.chunk \in held.chunks
     THEN Handle(n, [handler[n] EXCEPT !.pc = "metadata", !.dir = held.dir]) /\ UNCHANGED inbox
     ELSE Respond(n, None)
  /\ UNCHANGED <<store, disk, client, sub>>

\* The .metadata beside the record's chunks, as it is, answers a metadata
\* request ...
ServeMetadata(n) ==
  LET m == meta[n][handler[n].dir] IN
  /\ handler[n].pc = "metadata" /\ handler[n].request.kind = "metadata"
  /\ Respond(n, IF m = None THEN Error ELSE m)
  /\ UNCHANGED <<store, disk, client, sub>>

\* ... and parsed it bounds the number of the chunk that is read.
ReadMetadata(n) ==
  LET m == meta[n][handler[n].dir]
      exists == m \in File /\ handler[n].request.chunk \in Chunks(m)
  IN
  /\ handler[n].pc = "metadata" /\ handler[n].request.kind = "chunk"
  /\ \/ exists /\ Handle(n, [handler[n] EXCEPT !.pc = "chunk"]) /\ UNCHANGED inbox
     \/ ~exists /\ Respond(n, Error)
  /\ UNCHANGED <<store, disk, client, sub>>

ReadChunk(n) ==
  LET bytes == chunkFile[n][handler[n].dir][handler[n].request.chunk] IN
  /\ handler[n].pc = "chunk"
  /\ Respond(n, IF bytes = None THEN Error ELSE bytes)
  /\ UNCHANGED <<store, disk, client, sub>>

\* An answer to download_file: metadata that parses and whose file is not
\* there yet is saved, anything else fails the call.
ReceiveMetadata(n) ==
  LET r == Head(inbox[n])
      d == DirAt(call[n].path, r.body)
  IN
  /\ Take(n, "response", "metadata")
  /\ inbox' = [inbox EXCEPT ![n] = Tail(@)]
  /\ call' = [call EXCEPT ![n] =
       IF r.body \in File /\ published[n][r.body] # d
       THEN [@ EXCEPT !.pc = "save", !.file = r.body] ELSE NoCall]
  /\ UNCHANGED <<store, disk, publish, sub, handler>>

\* An answer to a chunk request: bytes that the .metadata in the record's
\* directory proves to be the chunk are written, for anything else the chunk
\* is asked for again at a later tick.
ReceiveChunk(n) ==
  LET r == Head(inbox[n])
      d == pending[n][r.file].dir
      correct == r.body \in File /\ r.body = meta[n][d]
  IN
  /\ Take(n, "response", "chunk")
  /\ inbox' = [inbox EXCEPT ![n] = Tail(@)]
  /\ SetSub(n, r.file, r.chunk, IF correct THEN "writing" ELSE "idle")
  /\ chunkFile' = IF correct THEN [chunkFile EXCEPT ![n][d][r.chunk] = Torn] ELSE chunkFile
  /\ UNCHANGED <<store, meta, client, handler>>

LoopStep(n) ==
  \/ TakeMetadataRequest(n) \/ TakeChunkRequest(n)
  \/ LookUpPending(n) \/ ServeMetadata(n) \/ ReadMetadata(n) \/ ReadChunk(n)
  \/ ReceiveMetadata(n) \/ ReceiveChunk(n)

-----------------------------------------------------------------------------

PublishStep(n) == WriteChunk(n) \/ CreateMetadata(n) \/ FillMetadata(n)
CallStep(n) == SaveMetadata(n) \/ MetadataSaved(n) \/ PutPending(n)

Next ==
  \E n \in Node :
    \/ PublishStep(n) \/ AddPublished(n) \/ CallStep(n) \/ LoopStep(n)
    \/ \E f \in File :
         \/ \E p \in Path : StartPublish(n, f, p) \/ RequestMetadata(n, f, p)
         \/ \E c \in Chunk : Subtask(n, f, c)
         \/ ProcessCompleted(n, f)

Spec == Init /\ [][Next]_vars

(***************************************************************************)
(* Fairness: each loop takes its events, the tasks run.  A subtask that    *)
(* got no chunk asks again at a later tick; whom it asks is up to          *)
(* choose_random and never assumed.                                        *)
(***************************************************************************)
Fairness ==
  \A n \in Node :
    /\ WF_vars(LoopStep(n))
    /\ \A f \in File : /\ WF_vars(ProcessCompleted(n, f))
                       /\ \A c \in Chunk : WF_vars(Subtask(n, f, c))

FairSpec == Spec /\ Fairness

-----------------------------------------------------------------------------
(* Properties.                                                             *)

Whole(n, d, f) == meta[n][d] = f /\ \A c \in Chunks(f) : chunkFile[n][d][c] = f

\* Wherever a file is published, by publish_file or as the end of a download
\* from any mixture of peers, .metadata and every chunk are that file's
\* (file_download_service.rs:226-283, events.rs:233-249).
PublishedIsWhole ==
  \A n \in Node, f \in File : published[n][f] # None => Whole(n, published[n][f], f)

\* A request is answered with what was asked for or with NotFound, never with
\* an error, a torn file or another file's bytes, although the record that was
\* looked up and the files are being moved and written by the node's tasks
\* (events.rs:450-470, 562-690).
AnswersAreOfTheFile ==
  \A n \in Node : \A i \in DOMAIN inbox[n] :
    LET r == inbox[n][i] IN r.is = "response" => r.body \in {r.file, None}

\* The network replicates: a node holds a file once it has published it.
Network == INSTANCE Replication WITH
  Publishes <- {<<x[1], x[2]>> : x \in Publishes},
  holders <- [f \in File |-> {n \in Node : published[n][f] # None}],
  wanted <- [f \in File |-> {n \in Node : pending[n][f] # None /\ published[n][f] = None}]

\* The nodes implement Replication, liveness included: a download is accepted
\* only of a file that is held somewhere and its node comes to hold it, whichever
\* providers are asked and however often they have to answer NotFound
\* (events.rs:551-690, file_download_service.rs:99-283).
Replicates == Network!Spec

\* What Replicates says of single steps, without the liveness.
ReplicatesStepwise == Network!SafetySpec
=============================================================================
