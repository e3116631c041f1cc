---------------------------- MODULE Serving_proofs ----------------------------
(***************************************************************************)
(* Theorems about Serving, for every set of nodes and files, whatever they *)
(* publish and download: a published file is whole, a request is answered  *)
(* with what was asked for or with NotFound, and the nodes implement the   *)
(* steps of Replication.                                                   *)
(***************************************************************************)
EXTENDS Serving, SequenceTheorems, TLAPS

(* On each node, files that share a chunks directory are one file, and it is not
   both published and downloaded into it.  A second writer of a directory would
   truncate the .metadata beside a published file. *)
OneWriterPerDir ==
  /\ Publishes \cap Wants = {}
  /\ \A x \in Publishes \cup Wants, y \in Publishes \cup Wants :
       x[1] = y[1] /\ DirAt(x[3], x[2]) = DirAt(y[3], y[2]) => x[2] = y[2]

-----------------------------------------------------------------------------
(* The inductive invariant: directories and who writes them.               *)

(* A publish_file or download_file call on n is to write d or is writing it. *)
BeingWritten(n, d) ==
  \/ publish[n] # NoPublish /\ d = DirAt(publish[n].path, publish[n].file)
  \/ call[n] # NoCall /\ d = DirAt(call[n].path, call[n].asked)

(* d is a chunks directory of f on n that a record of f points to or has pointed
   to: nobody writes its .metadata any more. *)
Settled(n, f, d) ==
  /\ \E p \in Path :
       /\ d = DirAt(p, f)
       /\ \/ <<n, f, p>> \in Publishes /\ published[n][f] # None
          \/ <<n, f, p>> \in Wants /\ (published[n][f] # None \/ pending[n][f] # None)
  /\ ~ BeingWritten(n, d)
  /\ meta[n][d] = f

(* Chunk c is in d for good: no download into d will write it. *)
Has(n, f, d, c) ==
  /\ chunkFile[n][d][c] = f
  /\ pending[n][f] # None /\ pending[n][f].dir = d => c \in pending[n][f].chunks

PublishedSettled ==
  \A n \in Node, f \in File : published[n][f] # None =>
    /\ Settled(n, f, published[n][f])
    /\ \A c \in Chunks(f) : Has(n, f, published[n][f], c)

PendingSettled ==
  \A n \in Node, f \in File : pending[n][f] # None =>
    /\ Settled(n, f, pending[n][f].dir)
    /\ \E p \in Path : <<n, f, p>> \in Wants /\ pending[n][f].dir = DirAt(p, f)
    /\ pending[n][f].chunks \subseteq Chunks(f)
    /\ \A c \in pending[n][f].chunks : Has(n, f, pending[n][f].dir, c)

(* What a publish_file call has written. *)
PublishWrites ==
  \A n \in Node : publish[n] # NoPublish =>
    LET w == publish[n]
        d == DirAt(w.path, w.file)
    IN
    /\ <<n, w.file, w.path>> \in Publishes
    /\ w.next \in 0 .. NumChunks[w.file]
    /\ \A c \in 0 .. w.next - 1 : chunkFile[n][d][c] = w.file
    /\ w.pc \in {"saving", "job"} => w.next = NumChunks[w.file]
    /\ w.pc = "job" => meta[n][d] = w.file

(* A download_file call is about the file it asked for, which some node has
   published once an answer has come. *)
CallWrites ==
  \A n \in Node : call[n] # NoCall =>
    LET w == call[n] IN
    /\ <<n, w.asked, w.path>> \in Wants
    /\ pending[n][w.asked] = None
    /\ w.pc # "asked" => /\ w.file = w.asked
                         /\ \E m \in Node : published[m][w.file] # None
    /\ w.pc = "put" => meta[n][DirAt(w.path, w.file)] = w.file

(* A subtask is about a chunk that the record has not claimed yet. *)
SubtasksFit ==
  \A n \in Node, f \in File, c \in Chunk : sub[n][f][c] # "idle" =>
    /\ pending[n][f] # None
    /\ c \in Chunks(f) /\ c \notin pending[n][f].chunks
    /\ sub[n][f][c] = "written" => chunkFile[n][pending[n][f].dir][c] = f

-----------------------------------------------------------------------------
(* The inductive invariant: messages.                                      *)

(* The request in the handler of a node and the messages in its inbox; 0 is the
   place of the former. *)
Places(n) == (IF handler[n] = NoHandler THEN {} ELSE {0}) \cup DOMAIN inbox[n]
At(n, i) == IF i = 0 THEN handler[n].request ELSE inbox[n][i]

(* The node that waits for an answer, whether the request or the answer is on
   its way. *)
Asker(n, msg) == IF msg.is = "request" THEN msg.peer ELSE n

SameAsked(m, i, n, j) ==
  /\ Asker(m, At(m, i)) = Asker(n, At(n, j))
  /\ At(m, i).kind = At(n, j).kind
  /\ At(m, i).file = At(n, j).file
  /\ At(m, i).chunk = At(n, j).chunk

(* What has been asked for is on its way once. *)
AskedOnce ==
  \A m \in Node, n \in Node : \A i \in Places(m), j \in Places(n) :
    SameAsked(m, i, n, j) => m = n /\ i = j

(* Somebody waits for each message: the download_file call, or the subtask. *)
SomebodyWaits ==
  \A n \in Node : \A i \in Places(n) :
    LET msg == At(n, i)
        k == Asker(n, msg)
    IN
    /\ msg.is = "request" => k # n
    /\ msg.kind = "metadata" => /\ call[k].pc = "asked" /\ call[k].asked = msg.file
                                /\ msg.chunk = 0
    /\ msg.kind = "chunk" => sub[k][msg.file][msg.chunk] = "asked"

(* The metadata of a file comes from a node that has published it. *)
AnswersFit ==
  \A n \in Node : \A i \in DOMAIN inbox[n] :
    LET r == inbox[n][i] IN
    r.is = "response" =>
      /\ r.body \in {r.file, None}
      /\ r.kind = "metadata" /\ r.body # None => \E m \in Node : published[m][r.file] # None

(* What a handler has looked up stays as it is while the loop awaits. *)
HandlerReads ==
  \A n \in Node : handler[n] # NoHandler =>
    LET r == handler[n].request
        d == handler[n].dir
    IN
    /\ handler[n].pc = "pending" => d = None /\ r.kind = "chunk"
    /\ handler[n].pc # "pending" => d # None /\ Settled(n, r.file, d)
    /\ handler[n].pc # "pending" /\ r.kind = "chunk" => Has(n, r.file, d, r.chunk)
    /\ handler[n].pc = "chunk" => r.kind = "chunk"
    /\ r.is = "request"
    /\ r.kind = "metadata" => published[n][r.file] # None

DiskInv == PublishedSettled /\ PendingSettled /\ PublishWrites /\ CallWrites /\ SubtasksFit
NetInv == AskedOnce /\ SomebodyWaits /\ AnswersFit /\ HandlerReads
IInv == TypeOK /\ DiskInv /\ NetInv

-----------------------------------------------------------------------------
(* Types.                                                                  *)

(* 0 is a chunk of every file. *)
LEMMA ZeroIsChunk == ASSUME NEW f \in File PROVE 0 \in Chunks(f) /\ 0 \in Chunk
<1>1. 0 \in Chunks(f)
  BY ConstantsAssumption DEF Chunks
<1> QED  BY <1>1 DEF Chunk

LEMMA ChunksAreChunks == ASSUME NEW f \in File PROVE Chunks(f) \subseteq Chunk
  BY DEF Chunk

LEMMA DirType == ASSUME NEW f \in File, NEW p \in Path PROVE DirAt(p, f) \in Dir
  BY ConstantsAssumption DEF DirAt, Dir

(* A call that is under way is a record of the kind it should be. *)
PublishRecord == [pc : {"split", "saving", "job"}, file : File, path : Path, next : Nat]
CallRecord == [pc : {"asked", "save", "saving", "put"}, asked : File, path : Path,
               file : File \cup {None}]
HandlerRecord == [pc : {"pending", "metadata", "chunk"}, request : Request,
                  dir : Dir \cup {None}]

LEMMA CallsTyped ==
  ASSUME TypeOK, NEW n \in Node
  PROVE  /\ publish[n] # NoPublish <=> publish[n].pc # "idle"
         /\ publish[n] # NoPublish => publish[n] \in PublishRecord
         /\ call[n] # NoCall <=> call[n].pc # "idle"
         /\ call[n] # NoCall => call[n] \in CallRecord
         /\ handler[n] # NoHandler <=> handler[n].pc # "idle"
         /\ handler[n] # NoHandler => handler[n] \in HandlerRecord
<1>1. /\ publish[n] # NoPublish <=> publish[n].pc # "idle"
      /\ publish[n] # NoPublish => publish[n] \in PublishRecord
  BY DEF TypeOK, NoPublish, PublishRecord
<1>2. /\ call[n] # NoCall <=> call[n].pc # "idle"
      /\ call[n] # NoCall => call[n] \in CallRecord
  BY DEF TypeOK, NoCall, CallRecord
<1>3. /\ handler[n] # NoHandler <=> handler[n].pc # "idle"
      /\ handler[n] # NoHandler => handler[n] \in HandlerRecord
  BY DEF TypeOK, NoHandler, HandlerRecord
<1> QED  BY <1>1, <1>2, <1>3

LEMMA InitType == Init => TypeOK
  BY DEF Init, TypeOK, Content

LEMMA PublishStepType ==
  ASSUME TypeOK, NEW n \in Node, PublishStep(n) \/ AddPublished(n)
  PROVE  TypeOK'
<1> DEFINE w == publish[n]
           d == DirAt(w.path, w.file)
<1>1. w \in PublishRecord /\ d \in Dir
  <2>1. w # NoPublish
    BY DEF PublishStep, WriteChunk, CreateMetadata, FillMetadata, AddPublished, NoPublish
  <2> QED  BY <2>1, CallsTyped, DirType DEF PublishRecord
<1>2. CASE WriteChunk(n)
  <2>1. chunkFile' \in [Node -> [Dir -> [Chunk -> Content]]]
    BY <1>1, <1>2 DEF TypeOK, WriteChunk, PublishRecord, Content
  <2>2. publish' \in [Node -> PublishRecord \cup {NoPublish}]
    <3>1. [w EXCEPT !.next = w.next + 1] \in PublishRecord
      BY <1>1 DEF PublishRecord
    <3>2. publish' = [publish EXCEPT ![n] = [w EXCEPT !.next = w.next + 1]]
      BY <1>2 DEF WriteChunk
    <3> QED  BY <3>1, <3>2 DEF TypeOK, PublishRecord
  <2> QED  BY <1>2, <2>1, <2>2 DEF TypeOK, WriteChunk, PublishRecord, store, net
<1>3. CASE CreateMetadata(n)
  <2>1. meta' \in [Node -> [Dir -> Content]]
    BY <1>1, <1>3 DEF TypeOK, CreateMetadata, Content
  <2>2. publish' \in [Node -> PublishRecord \cup {NoPublish}]
    BY <1>1, <1>3 DEF TypeOK, CreateMetadata, PublishRecord
  <2> QED  BY <1>3, <2>1, <2>2 DEF TypeOK, CreateMetadata, PublishRecord, store, net
<1>4. CASE FillMetadata(n)
  <2>1. meta' \in [Node -> [Dir -> Content]]
    BY <1>1, <1>4 DEF TypeOK, FillMetadata, Content, PublishRecord
  <2>2. publish' \in [Node -> PublishRecord \cup {NoPublish}]
    BY <1>1, <1>4 DEF TypeOK, FillMetadata, PublishRecord
  <2> QED  BY <1>4, <2>1, <2>2 DEF TypeOK, FillMetadata, PublishRecord, store, net
<1>5. CASE AddPublished(n)
  <2>1. published' \in [Node -> [File -> Dir \cup {None}]]
    BY <1>1, <1>5 DEF TypeOK, AddPublished, PublishRecord
  <2>2. publish' \in [Node -> PublishRecord \cup {NoPublish}]
    BY <1>5 DEF TypeOK, AddPublished, PublishRecord
  <2> QED  BY <1>5, <2>1, <2>2 DEF TypeOK, AddPublished, PublishRecord, disk, net
<1> QED  BY <1>2, <1>3, <1>4, <1>5 DEF PublishStep

LEMMA StartPublishType ==
  ASSUME TypeOK, NEW n \in Node, NEW f \in File, NEW p \in Path, StartPublish(n, f, p)
  PROVE  TypeOK'
<1>1. publish' \in [Node -> PublishRecord \cup {NoPublish}]
  BY DEF TypeOK, StartPublish, PublishRecord
<1> QED  BY <1>1 DEF TypeOK, StartPublish, PublishRecord, store, disk, net

LEMMA CallStepType ==
  ASSUME TypeOK, CallWrites, NEW n \in Node, CallStep(n)
  PROVE  TypeOK'
<1>1. /\ call[n] \in CallRecord /\ call[n].file \in File /\ CallDir(n) \in Dir
  <2>1. call[n] # NoCall /\ call[n].pc # "asked"
    BY DEF CallStep, SaveMetadata, MetadataSaved, PutPending, NoCall
  <2>2. call[n] \in CallRecord /\ call[n].file = call[n].asked
    BY <2>1, CallsTyped DEF CallWrites
  <2> QED  BY <2>2, DirType DEF CallRecord, CallDir
<1>2. CASE SaveMetadata(n)
  <2>1. meta' \in [Node -> [Dir -> Content]]
    BY <1>1, <1>2 DEF TypeOK, SaveMetadata, Content
  <2>2. call' \in [Node -> CallRecord \cup {NoCall}]
    BY <1>1, <1>2 DEF TypeOK, SaveMetadata, CallRecord
  <2> QED  BY <1>2, <2>1, <2>2 DEF TypeOK, SaveMetadata, CallRecord, store, net
<1>3. CASE MetadataSaved(n)
  <2>1. meta' \in [Node -> [Dir -> Content]]
    BY <1>1, <1>3 DEF TypeOK, MetadataSaved, Content
  <2>2. call' \in [Node -> CallRecord \cup {NoCall}]
    BY <1>1, <1>3 DEF TypeOK, MetadataSaved, CallRecord
  <2> QED  BY <1>3, <2>1, <2>2 DEF TypeOK, MetadataSaved, CallRecord, store, net
<1>4. CASE PutPending(n)
  <2>1. pending' \in [Node -> [File -> Record \cup {None}]]
    BY <1>1, <1>4 DEF TypeOK, PutPending, Record
  <2>2. call' \in [Node -> CallRecord \cup {NoCall}]
    BY <1>4 DEF TypeOK, PutPending, CallRecord
  <2> QED  BY <1>4, <2>1, <2>2 DEF TypeOK, PutPending, CallRecord, disk, net
<1> QED  BY <1>2, <1>3, <1>4 DEF CallStep

LEMMA SendType ==
  ASSUME TypeOK, NEW m \in Node, NEW msg \in Request \cup Response, Send(m, msg)
  PROVE  inbox' \in [Node -> Seq(Request \cup Response)]
<1>1. Append(inbox[m], msg) \in Seq(Request \cup Response)
  BY DEF TypeOK
<1> QED  BY <1>1 DEF TypeOK, Send

LEMMA AskType ==
  ASSUME TypeOK, NEW n \in Node, NEW m \in Node, NEW kind \in {"metadata", "chunk"},
         NEW f \in File, NEW c \in Chunk, Ask(n, m, kind, f, c)
  PROVE  inbox' \in [Node -> Seq(Request \cup Response)]
<1>1. [is |-> "request", kind |-> kind, peer |-> n, file |-> f, chunk |-> c] \in Request
  BY DEF Request
<1> QED  BY <1>1, SendType DEF Ask

LEMMA RequestMetadataType ==
  ASSUME TypeOK, NEW n \in Node, NEW f \in File, NEW p \in Path, RequestMetadata(n, f, p)
  PROVE  TypeOK'
<1>1. inbox' \in [Node -> Seq(Request \cup Response)]
  BY AskType, ZeroIsChunk DEF RequestMetadata
<1>2. call' \in [Node -> CallRecord \cup {NoCall}]
  BY DEF TypeOK, RequestMetadata, CallRecord
<1> QED  BY <1>1, <1>2 DEF TypeOK, RequestMetadata, CallRecord, store, disk

SubType == [Node -> [File -> [Chunk -> {"idle", "asked", "writing", "written"}]]]

LEMMA SetSubType ==
  ASSUME TypeOK, NEW n \in Node, NEW f \in File, NEW c \in Chunk,
         NEW s \in {"idle", "asked", "writing", "written"}, SetSub(n, f, c, s)
  PROVE  sub' \in SubType
  BY DEF TypeOK, SetSub, SubType

LEMMA SubtaskType ==
  ASSUME TypeOK, PendingSettled, SubtasksFit,
         NEW n \in Node, NEW f \in File, NEW c \in Chunk, Subtask(n, f, c)
  PROVE  TypeOK'
<1>1. pending[n][f] \in Record
  <2>1. pending[n][f] # None
    BY DEF Subtask, RequestFileChunk, ChunkWritten, JoinChunk, SubtasksFit
  <2> QED  BY <2>1 DEF TypeOK
<1>2. CASE RequestFileChunk(n, f, c)
  <2>1. inbox' \in [Node -> Seq(Request \cup Response)]
    BY <1>2, AskType DEF RequestFileChunk
  <2>2. sub' \in SubType
    BY <1>2, SetSubType DEF RequestFileChunk
  <2> QED  BY <1>2, <2>1, <2>2 DEF TypeOK, RequestFileChunk, SubType, store, disk, client
<1>3. CASE ChunkWritten(n, f, c)
  <2>1. chunkFile' \in [Node -> [Dir -> [Chunk -> Content]]]
    BY <1>1, <1>3 DEF TypeOK, ChunkWritten, Record
  <2>2. sub' \in SubType
    BY <1>3, SetSubType DEF ChunkWritten
  <2> QED  BY <1>3, <2>1, <2>2 DEF TypeOK, ChunkWritten, SubType, store, net, client
<1>4. CASE JoinChunk(n, f, c)
  <2>1. pending' \in [Node -> [File -> Record \cup {None}]]
    <3>1. [pending[n][f] EXCEPT !.chunks = pending[n][f].chunks \cup {c}] \in Record
      BY <1>1 DEF Record
    <3>2. pending' = [pending EXCEPT ![n] = [pending[n] EXCEPT ![f] =
                       [pending[n][f] EXCEPT !.chunks = pending[n][f].chunks \cup {c}]]]
      BY <1>4 DEF JoinChunk
    <3> QED  BY <3>1, <3>2 DEF TypeOK
  <2>2. sub' \in SubType
    BY <1>4, SetSubType DEF JoinChunk
  <2> QED  BY <1>4, <2>1, <2>2 DEF TypeOK, JoinChunk, SubType, disk, net, client
<1> QED  BY <1>2, <1>3, <1>4 DEF Subtask

LEMMA ProcessCompletedType ==
  ASSUME TypeOK, NEW n \in Node, NEW f \in File, ProcessCompleted(n, f)
  PROVE  TypeOK'
<1>1. CASE PutPublished(n, f)
  <2>1. pending[n][f] \in Record
    BY <1>1 DEF PutPublished, Downloaded, TypeOK
  <2>2. published' \in [Node -> [File -> Dir \cup {None}]]
    BY <1>1, <2>1 DEF TypeOK, PutPublished, Record
  <2> QED  BY <1>1, <2>2 DEF TypeOK, PutPublished, disk, client, net
<1>2. CASE DeletePending(n, f)
  <2>1. pending' \in [Node -> [File -> Record \cup {None}]]
    BY <1>2 DEF TypeOK, DeletePending
  <2> QED  BY <1>2, <2>1 DEF TypeOK, DeletePending, disk, client, net
<1> QED  BY <1>1, <1>2 DEF ProcessCompleted

LEMMA HeadType ==
  ASSUME TypeOK, NEW n \in Node, inbox[n] # <<>>
  PROVE  /\ Head(inbox[n]) \in Request \cup Response
         /\ Head(inbox[n]).is = "request" => Head(inbox[n]) \in Request
         /\ Head(inbox[n]).is = "response" => Head(inbox[n]) \in Response
         /\ Head(inbox[n]) = inbox[n][1]
         /\ Tail(inbox[n]) \in Seq(Request \cup Response)
<1>1. inbox[n] \in Seq(Request \cup Response)
  BY DEF TypeOK
<1>2. /\ Head(inbox[n]) \in Request \cup Response
      /\ Head(inbox[n]) = inbox[n][1]
      /\ Tail(inbox[n]) \in Seq(Request \cup Response)
  BY <1>1
<1> QED  BY <1>2 DEF Request, Response

(* The answer to a request of another node goes behind what that has received. *)
Reply(n, r, body) == [is |-> "response", kind |-> r.kind, peer |-> n,
                      file |-> r.file, chunk |-> r.chunk, body |-> body]

LEMMA AnswerSends ==
  ASSUME TypeOK, NEW n \in Node, NEW r \in Request, NEW body \in Content \cup {Error},
         NEW rest \in Seq(Request \cup Response), Answer(n, r, body, rest)
  PROVE  /\ inbox' \in [Node -> Seq(Request \cup Response)]
         /\ r.peer # n => /\ inbox'[n] = rest
                          /\ inbox'[r.peer] = Append(inbox[r.peer], Reply(n, r, body))
         /\ \A m \in Node : m \notin {n, r.peer} => inbox'[m] = inbox[m]
<1>1. r.peer \in Node /\ Reply(n, r, body) \in Response
  BY DEF Request, Response, Reply
<1> DEFINE mid == [inbox EXCEPT ![n] = rest]
<1>2. mid \in [Node -> Seq(Request \cup Response)]
  BY DEF TypeOK
<1>3. inbox' = [mid EXCEPT ![r.peer] = Append(mid[r.peer], Reply(n, r, body))]
  BY DEF Answer, Reply
<1>4. /\ mid[n] = rest
      /\ \A m \in Node : m # n => mid[m] = inbox[m]
  BY DEF TypeOK
<1> HIDE DEF mid
<1>5. Append(mid[r.peer], Reply(n, r, body)) \in Seq(Request \cup Response)
  BY <1>1, <1>2
<1> QED  BY <1>1, <1>2, <1>3, <1>4, <1>5

HandlerType == [Node -> HandlerRecord \cup {NoHandler}]

LEMMA HandleType ==
  ASSUME TypeOK, NEW n \in Node, NEW next \in HandlerRecord \cup {NoHandler}, Handle(n, next)
  PROVE  handler' \in HandlerType
  BY DEF TypeOK, Handle, HandlerType, HandlerRecord

LEMMA RespondType ==
  ASSUME TypeOK, NEW n \in Node, handler[n] # NoHandler,
         NEW body \in Content \cup {Error}, Respond(n, body)
  PROVE  handler' \in HandlerType /\ inbox' \in [Node -> Seq(Request \cup Response)]
<1>1. handler[n].request \in Request
  BY CallsTyped DEF HandlerRecord
<1>2. inbox' \in [Node -> Seq(Request \cup Response)]
  BY <1>1, AnswerSends DEF Respond, TypeOK
<1> QED  BY <1>2, HandleType DEF Respond

(* An action that leaves the rest alone. *)
LEMMA NetType ==
  ASSUME TypeOK, UNCHANGED <<store, disk, client, sub>>,
         handler' \in HandlerType, inbox' \in [Node -> Seq(Request \cup Response)]
  PROVE  TypeOK'
  BY DEF TypeOK, store, disk, client, HandlerType, HandlerRecord

LEMMA TakeRequestType ==
  ASSUME TypeOK, NEW n \in Node, TakeMetadataRequest(n) \/ TakeChunkRequest(n)
  PROVE  TypeOK'
<1> DEFINE r == Head(inbox[n])
           d == published[n][r.file]
<1>1. inbox[n] # <<>> /\ r.is = "request"
  BY DEF TakeMetadataRequest, TakeChunkRequest, Take
<1>2. r \in Request /\ Tail(inbox[n]) \in Seq(Request \cup Response)
  BY <1>1, HeadType
<1>3. d \in Dir \cup {None}
  BY <1>2 DEF TypeOK, Request
<1>4. UNCHANGED <<store, disk, client, sub>>
  BY DEF TakeMetadataRequest, TakeChunkRequest
<1> HIDE DEF r, d
<1>5. ASSUME inbox' = [inbox EXCEPT ![n] = Tail(@)]
      PROVE  inbox' \in [Node -> Seq(Request \cup Response)]
  BY <1>2, <1>5 DEF TypeOK
<1>6. ASSUME NEW pc \in {"pending", "metadata"}, Handle(n, [pc |-> pc, request |-> r, dir |-> d])
      PROVE  handler' \in HandlerType
  <2>1. [pc |-> pc, request |-> r, dir |-> d] \in HandlerRecord
    BY <1>2, <1>3 DEF HandlerRecord
  <2> QED  BY <2>1, <1>6, HandleType
<1>7. ASSUME Answer(n, r, None, Tail(inbox[n])), UNCHANGED handler
      PROVE  handler' \in HandlerType /\ inbox' \in [Node -> Seq(Request \cup Response)]
  <2>1. inbox' \in [Node -> Seq(Request \cup Response)]
    BY <1>2, <1>7, AnswerSends DEF Content
  <2> QED  BY <2>1, <1>7 DEF TypeOK, HandlerType, HandlerRecord
<1>8. handler' \in HandlerType /\ inbox' \in [Node -> Seq(Request \cup Response)]
  <2>1. CASE TakeMetadataRequest(n)
    BY <2>1, <1>5, <1>6, <1>7 DEF TakeMetadataRequest, r, d
  <2>2. CASE TakeChunkRequest(n)
    BY <2>2, <1>5, <1>6 DEF TakeChunkRequest, r, d
  <2> QED  BY <2>1, <2>2
<1> QED  BY <1>4, <1>8, NetType

LEMMA HandlerStepType ==
  ASSUME TypeOK, HandlerReads, PendingSettled, NEW n \in Node,
         LookUpPending(n) \/ ServeMetadata(n) \/ ReadMetadata(n) \/ ReadChunk(n)
  PROVE  TypeOK'
<1>1. handler[n] # NoHandler
  BY DEF LookUpPending, ServeMetadata, ReadMetadata, ReadChunk, NoHandler
<1>2. handler[n] \in HandlerRecord /\ handler[n].request \in Request
  BY <1>1, CallsTyped DEF HandlerRecord
<1>3. UNCHANGED <<store, disk, client, sub>>
  BY DEF LookUpPending, ServeMetadata, ReadMetadata, ReadChunk
<1>4. CASE LookUpPending(n)
  <2> DEFINE held == pending[n][handler[n].request.file]
  <2>1. CASE Respond(n, None)
    BY <2>1, <1>1, <1>3, RespondType, NetType DEF Content
  <2>2. CASE /\ held # None
             /\ Handle(n, [handler[n] EXCEPT !.pc = "metadata", !.dir = held.dir])
             /\ UNCHANGED inbox
    <3>1. held.dir \in Dir
      BY <1>2, <2>2 DEF TypeOK, Record, Request
    <3>2. [handler[n] EXCEPT !.pc = "metadata", !.dir = held.dir] \in HandlerRecord
      BY <1>2, <3>1 DEF HandlerRecord
    <3>3. handler' \in HandlerType
      BY <2>2, <3>2, HandleType
    <3> QED  BY <3>3, <2>2, <1>3, NetType DEF TypeOK
  <2> QED  BY <1>4, <2>1, <2>2 DEF LookUpPending
<1>5. ASSUME handler[n].pc \in {"metadata", "chunk"}
      PROVE  handler[n].dir \in Dir /\ handler[n].request.chunk \in Chunk
  BY <1>1, <1>2, <1>5 DEF HandlerReads, HandlerRecord, Request
<1>6. CASE ServeMetadata(n)
  <2>1. meta[n][handler[n].dir] \in Content
    BY <1>5, <1>6 DEF TypeOK, ServeMetadata
  <2> QED  BY <2>1, <1>1, <1>3, <1>6, RespondType, NetType DEF ServeMetadata
<1>7. CASE ReadMetadata(n)
  <2>1. CASE Respond(n, Error)
    BY <2>1, <1>1, <1>3, RespondType, NetType
  <2>2. CASE Handle(n, [handler[n] EXCEPT !.pc = "chunk"]) /\ UNCHANGED inbox
    <3>1. [handler[n] EXCEPT !.pc = "chunk"] \in HandlerRecord
      BY <1>2 DEF HandlerRecord
    <3>2. handler' \in HandlerType
      BY <2>2, <3>1, HandleType
    <3> QED  BY <3>2, <2>2, <1>3, NetType DEF TypeOK
  <2> QED  BY <1>7, <2>1, <2>2 DEF ReadMetadata
<1>8. CASE ReadChunk(n)
  <2>1. chunkFile[n][handler[n].dir][handler[n].request.chunk] \in Content
    <3>1. chunkFile \in [Node -> [Dir -> [Chunk -> Content]]]
      BY DEF TypeOK
    <3>2. handler[n].dir \in Dir /\ handler[n].request.chunk \in Chunk
      BY <1>5, <1>8 DEF ReadChunk
    <3> QED  BY <3>1, <3>2
  <2>2. \E body \in Content \cup {Error} : Respond(n, body)
    BY <1>8, <2>1 DEF ReadChunk
  <2> QED  BY <2>2, <1>1, <1>3, RespondType, NetType
<1> QED  BY <1>4, <1>6, <1>7, <1>8

(* The answer that the loop takes is waited for. *)
LEMMA ReceiveMetadataWaited ==
  ASSUME TypeOK, SomebodyWaits, NEW n \in Node, ReceiveMetadata(n)
  PROVE  LET r == Head(inbox[n]) IN
         /\ handler[n] = NoHandler /\ inbox[n] # <<>>
         /\ r = inbox[n][1] /\ r \in Response /\ r.kind = "metadata"
         /\ call[n] # NoCall /\ call[n].pc = "asked" /\ call[n].asked = r.file
<1> DEFINE r == Head(inbox[n])
<1>1. /\ handler[n] = NoHandler /\ inbox[n] # <<>>
      /\ r.is = "response" /\ r.kind = "metadata"
  BY DEF ReceiveMetadata, Take
<1>2. r \in Response /\ r = inbox[n][1]
  BY <1>1, HeadType
<1>3. 1 \in Places(n) /\ At(n, 1) = r
  BY <1>1, <1>2 DEF Places, At, TypeOK
<1>4. call[n].pc = "asked" /\ call[n].asked = r.file
  BY <1>1, <1>3 DEF SomebodyWaits, Asker
<1> QED  BY <1>1, <1>2, <1>4, CallsTyped

LEMMA ReceiveChunkWaited ==
  ASSUME TypeOK, SomebodyWaits, NEW n \in Node, ReceiveChunk(n)
  PROVE  LET r == Head(inbox[n]) IN
         /\ handler[n] = NoHandler /\ inbox[n] # <<>>
         /\ r = inbox[n][1] /\ r \in Response /\ r.kind = "chunk"
         /\ r.file \in File /\ r.chunk \in Chunk
         /\ sub[n][r.file][r.chunk] = "asked"
<1> DEFINE r == Head(inbox[n])
<1>1. /\ handler[n] = NoHandler /\ inbox[n] # <<>>
      /\ r.is = "response" /\ r.kind = "chunk"
  BY DEF ReceiveChunk, Take
<1>2. r \in Response /\ r = inbox[n][1]
  BY <1>1, HeadType
<1>3. 1 \in Places(n) /\ At(n, 1) = r
  BY <1>1, <1>2 DEF Places, At, TypeOK
<1>4. sub[n][r.file][r.chunk] = "asked"
  BY <1>1, <1>3 DEF SomebodyWaits, Asker
<1> QED  BY <1>1, <1>2, <1>4 DEF Response

LEMMA ReceiveMetadataType ==
  ASSUME TypeOK, SomebodyWaits, NEW n \in Node, ReceiveMetadata(n)
  PROVE  TypeOK'
<1> DEFINE r == Head(inbox[n])
<1>1. inbox[n] # <<>> /\ call[n] # NoCall
  BY ReceiveMetadataWaited
<1>2. Tail(inbox[n]) \in Seq(Request \cup Response)
  BY <1>1, HeadType
<1>3. call[n] \in CallRecord
  BY <1>1, CallsTyped
<1>4. inbox' \in [Node -> Seq(Request \cup Response)]
  BY <1>2 DEF ReceiveMetadata, TypeOK
<1>5. call' \in [Node -> CallRecord \cup {NoCall}]
  <2>1. ASSUME r.body \in File
        PROVE  [call[n] EXCEPT !.pc = "save", !.file = r.body] \in CallRecord
    BY <1>3, <2>1 DEF CallRecord
  <2> QED  BY <2>1 DEF ReceiveMetadata, TypeOK, CallRecord
<1> QED
  BY <1>4, <1>5 DEF TypeOK, ReceiveMetadata, CallRecord, store, disk

LEMMA ReceiveChunkType ==
  ASSUME TypeOK, SomebodyWaits, SubtasksFit, NEW n \in Node, ReceiveChunk(n)
  PROVE  TypeOK'
<1> DEFINE r == Head(inbox[n])
           d == pending[n][r.file].dir
<1>1. inbox[n] # <<>> /\ sub[n][r.file][r.chunk] = "asked"
  BY ReceiveChunkWaited
<1>2. Tail(inbox[n]) \in Seq(Request \cup Response)
  BY <1>1, HeadType
<1>3. r.file \in File /\ r.chunk \in Chunk
  BY ReceiveChunkWaited
<1>4. d \in Dir
  <2>1. pending[n][r.file] # None
    BY <1>1, <1>3 DEF SubtasksFit
  <2> QED  BY <2>1, <1>3 DEF TypeOK, Record
<1>5. inbox' \in [Node -> Seq(Request \cup Response)]
  BY <1>2 DEF ReceiveChunk, TypeOK
<1>6. sub' \in SubType
  BY <1>3, SetSubType DEF ReceiveChunk
<1>7. chunkFile' \in [Node -> [Dir -> [Chunk -> Content]]]
  <2>1. chunkFile' = chunkFile \/ chunkFile' = [chunkFile EXCEPT ![n][d][r.chunk] = Torn]
    BY DEF ReceiveChunk
  <2>2. ASSUME NEW e \in Dir, NEW c \in Chunk
        PROVE  [chunkFile EXCEPT ![n][e][c] = Torn] \in [Node -> [Dir -> [Chunk -> Content]]]
    BY DEF TypeOK, Content
  <2>3. [chunkFile EXCEPT ![n][d][r.chunk] = Torn] \in [Node -> [Dir -> [Chunk -> Content]]]
    BY <2>2, <1>3, <1>4
  <2> HIDE DEF r, d
  <2> QED  BY <2>1, <2>3 DEF TypeOK
<1> QED
  BY <1>5, <1>6, <1>7 DEF TypeOK, ReceiveChunk, SubType, store, client

-----------------------------------------------------------------------------
(* Directories.                                                            *)

(* What a step may not take back: that a directory is settled, and that a chunk
   is there for good. *)
SettledStays ==
  \A n \in Node, f \in File, d \in Dir : Settled(n, f, d) =>
    /\ Settled(n, f, d)'
    /\ \A c \in Chunks(f) : Has(n, f, d, c) => Has(n, f, d, c)'

PublishedStays ==
  \A n \in Node, f \in File : published[n][f] # None => published'[n][f] # None

LEMMA DirOwner ==
  ASSUME OneWriterPerDir,
         NEW n \in Node, NEW f \in File, NEW p \in Path, <<n, f, p>> \in Publishes \cup Wants,
         NEW g \in File, NEW q \in Path, <<n, g, q>> \in Publishes \cup Wants,
         DirAt(p, f) = DirAt(q, g)
  PROVE  f = g /\ p = q
<1> DEFINE u == <<n, f, p>>
           v == <<n, g, q>>
<1>1. u[1] = v[1] /\ DirAt(u[3], u[2]) = DirAt(v[3], v[2])
  OBVIOUS
<1>2. u[2] = v[2]
  BY <1>1 DEF OneWriterPerDir
<1> QED  BY <1>2 DEF DirAt

LEMMA SettledOwner ==
  ASSUME OneWriterPerDir,
         NEW n \in Node, NEW f \in File, NEW p \in Path, <<n, f, p>> \in Publishes \cup Wants,
         NEW g \in File, Settled(n, g, DirAt(p, f))
  PROVE  /\ g = f
         /\ <<n, f, p>> \in Publishes => published[n][f] # None
         /\ published[n][f] # None \/ pending[n][f] # None
<1>1. PICK q \in Path :
         /\ DirAt(p, f) = DirAt(q, g)
         /\ \/ <<n, g, q>> \in Publishes /\ published[n][g] # None
            \/ <<n, g, q>> \in Wants /\ (published[n][g] # None \/ pending[n][g] # None)
  BY DEF Settled
<1>2. f = g /\ p = q
  BY <1>1, DirOwner
<1> QED  BY <1>1, <1>2 DEF OneWriterPerDir

LEMMA PublishPlace ==
  ASSUME TypeOK, PublishWrites, NEW n \in Node, publish[n] # NoPublish
  PROVE  /\ publish[n] \in PublishRecord
         /\ publish[n].file \in File /\ publish[n].path \in Path
         /\ <<n, publish[n].file, publish[n].path>> \in Publishes
         /\ DirAt(publish[n].path, publish[n].file) \in Dir
<1>1. publish[n] \in PublishRecord
  BY CallsTyped
<1>2. publish[n].file \in File /\ publish[n].path \in Path
  BY <1>1 DEF PublishRecord
<1> QED  BY <1>1, <1>2, DirType DEF PublishWrites

LEMMA CallPlace ==
  ASSUME TypeOK, CallWrites, NEW n \in Node, call[n] # NoCall
  PROVE  /\ call[n] \in CallRecord
         /\ call[n].asked \in File /\ call[n].path \in Path
         /\ <<n, call[n].asked, call[n].path>> \in Wants
         /\ DirAt(call[n].path, call[n].asked) \in Dir
<1>1. call[n] \in CallRecord
  BY CallsTyped
<1>2. call[n].asked \in File /\ call[n].path \in Path
  BY <1>1 DEF CallRecord
<1> QED  BY <1>1, <1>2, DirType DEF CallWrites

(* The two calls of a node write different directories. *)
LEMMA TwoCallsApart ==
  ASSUME OneWriterPerDir, TypeOK, PublishWrites, CallWrites, NEW n \in Node,
         publish[n] # NoPublish, call[n] # NoCall
  PROVE  DirAt(publish[n].path, publish[n].file) # DirAt(call[n].path, call[n].asked)
<1> DEFINE f == publish[n].file
           p == publish[n].path
           g == call[n].asked
           q == call[n].path
<1>1. f \in File /\ p \in Path /\ <<n, f, p>> \in Publishes
  BY PublishPlace
<1>2. g \in File /\ q \in Path /\ <<n, g, q>> \in Wants
  BY CallPlace
<1> HIDE DEF f, p, g, q
<1>3. SUFFICES ASSUME DirAt(p, f) = DirAt(q, g) PROVE FALSE
  BY DEF f, p, g, q
<1>4. f = g /\ p = q
  BY <1>1, <1>2, <1>3, DirOwner
<1> QED  BY <1>1, <1>2, <1>4 DEF OneWriterPerDir

(* Records of two files point to different directories. *)
LEMMA SettledOne ==
  ASSUME NEW n \in Node, NEW f \in File, NEW g \in File, NEW d \in Dir,
         Settled(n, f, d), Settled(n, g, d)
  PROVE  f = g
  BY DEF Settled

LEMMA PendingPlace ==
  ASSUME TypeOK, PendingSettled, NEW n \in Node, NEW f \in File, pending[n][f] # None
  PROVE  /\ pending[n][f] \in Record /\ pending[n][f].dir \in Dir
         /\ Settled(n, f, pending[n][f].dir)
         /\ meta[n][pending[n][f].dir] = f
         /\ ~ BeingWritten(n, pending[n][f].dir)
<1>1. pending[n][f] \in Record
  BY DEF TypeOK
<1>2. Settled(n, f, pending[n][f].dir)
  BY DEF PendingSettled
<1> QED  BY <1>1, <1>2 DEF Record, Settled

LEMMA StaysIf ==
  ASSUME PublishedStays,
         \A n \in Node, f \in File :
           pending[n][f] # None => pending'[n][f] # None \/ published'[n][f] # None,
         \A n \in Node, f \in File, d \in Dir : Settled(n, f, d) =>
           /\ ~ BeingWritten(n, d)'
           /\ meta'[n][d] = meta[n][d]
           /\ \A c \in Chunks(f) : Has(n, f, d, c) => Has(n, f, d, c)'
  PROVE  SettledStays
<1> SUFFICES ASSUME NEW n \in Node, NEW f \in File, NEW d \in Dir, Settled(n, f, d)
             PROVE  Settled(n, f, d)'
  BY DEF SettledStays
<1>1. ~ BeingWritten(n, d)' /\ meta'[n][d] = f
  BY DEF Settled
<1>2. PICK p \in Path :
        /\ d = DirAt(p, f)
        /\ \/ <<n, f, p>> \in Publishes /\ published[n][f] # None
           \/ <<n, f, p>> \in Wants /\ (published[n][f] # None \/ pending[n][f] # None)
  BY DEF Settled
<1>3. \/ <<n, f, p>> \in Publishes /\ published'[n][f] # None
      \/ <<n, f, p>> \in Wants /\ (published'[n][f] # None \/ pending'[n][f] # None)
  BY <1>2 DEF PublishedStays
<1> QED  BY <1>1, <1>2, <1>3 DEF Settled

(* What a publish_file call and its job touch. *)
LEMMA PublishFrame ==
  ASSUME IInv, NEW m \in Node, PublishStep(m) \/ AddPublished(m)
  PROVE  /\ publish[m] # NoPublish
         /\ UNCHANGED <<pending, call, sub>> /\ PublishedStays
         /\ \A n \in Node, d \in Dir :
              \/ n = m /\ d = DirAt(publish[m].path, publish[m].file)
              \/ meta'[n][d] = meta[n][d] /\ chunkFile'[n][d] = chunkFile[n][d]
         /\ \A n \in Node : n # m => publish'[n] = publish[n]
         /\ publish'[m] = NoPublish \/ (/\ publish'[m].path = publish[m].path
                                       /\ publish'[m].file = publish[m].file)
<1> DEFINE w == publish[m]
           e == DirAt(w.path, w.file)
<1>1. TypeOK /\ PublishWrites
  BY DEF IInv, DiskInv
<1>2. w # NoPublish
  BY DEF PublishStep, WriteChunk, CreateMetadata, FillMetadata, AddPublished, NoPublish
<1>3. w \in PublishRecord /\ e \in Dir /\ w.file \in File
  BY <1>1, <1>2, PublishPlace
<1>4. UNCHANGED <<pending, call, sub>> /\ PublishedStays
  <2>1. CASE AddPublished(m)
    BY <2>1, <1>1, <1>3, ConstantsAssumption DEF AddPublished, PublishedStays, TypeOK
  <2>2. CASE PublishStep(m)
    BY <2>2 DEF PublishStep, WriteChunk, CreateMetadata, FillMetadata, PublishedStays, store
  <2> QED  BY <2>1, <2>2
<1>5. ASSUME NEW n \in Node, NEW d \in Dir, ~ (n = m /\ d = e)
      PROVE  meta'[n][d] = meta[n][d] /\ chunkFile'[n][d] = chunkFile[n][d]
  BY <1>1, <1>3, <1>5 DEF PublishStep, WriteChunk, CreateMetadata, FillMetadata, AddPublished,
                          disk, TypeOK
<1>6. \A n \in Node : n # m => publish'[n] = publish[n]
  BY <1>1 DEF PublishStep, WriteChunk, CreateMetadata, FillMetadata, AddPublished, TypeOK
<1>7. publish'[m] = NoPublish \/ (publish'[m].path = w.path /\ publish'[m].file = w.file)
  <2>1. PublishStep(m) => \/ publish'[m] = [w EXCEPT !.next = w.next + 1]
                          \/ publish'[m] = [w EXCEPT !.pc = "saving"]
                          \/ publish'[m] = [w EXCEPT !.pc = "job"]
    BY <1>1 DEF PublishStep, WriteChunk, CreateMetadata, FillMetadata, TypeOK
  <2>2. AddPublished(m) => publish'[m] = NoPublish
    BY <1>1 DEF AddPublished, TypeOK
  <2> HIDE DEF w
  <2> QED  BY <2>1, <2>2, <1>3 DEF PublishRecord
<1> QED  BY <1>2, <1>4, <1>5, <1>6, <1>7

LEMMA PublishStays ==
  ASSUME IInv, NEW m \in Node, PublishStep(m) \/ AddPublished(m)
  PROVE  SettledStays /\ PublishedStays
<1>1. UNCHANGED <<pending, call, sub>> /\ PublishedStays
  BY PublishFrame
<1>2. \A n \in Node : publish'[n] # NoPublish =>
        /\ publish[n] # NoPublish
        /\ publish'[n].path = publish[n].path /\ publish'[n].file = publish[n].file
  BY PublishFrame
<1>3. ASSUME NEW n \in Node, NEW f \in File, NEW d \in Dir, Settled(n, f, d)
      PROVE  /\ ~ BeingWritten(n, d)'
             /\ meta'[n][d] = meta[n][d]
             /\ \A c \in Chunks(f) : Has(n, f, d, c) => Has(n, f, d, c)'
  <2>1. ~ BeingWritten(n, d)
    BY <1>3 DEF Settled
  <2>2. meta'[n][d] = meta[n][d] /\ chunkFile'[n][d] = chunkFile[n][d]
    BY <2>1, PublishFrame DEF BeingWritten
  <2>3. ~ BeingWritten(n, d)'
    BY <2>1, <1>1, <1>2 DEF BeingWritten
  <2> QED  BY <2>2, <2>3, <1>1 DEF Has
<1> QED  BY <1>1, <1>3, StaysIf

LEMMA StartPublishStays ==
  ASSUME IInv, OneWriterPerDir, NEW m \in Node, NEW g \in File, NEW p \in Path,
         StartPublish(m, g, p)
  PROVE  SettledStays /\ PublishedStays
<1>1. TypeOK
  BY DEF IInv
<1>2. UNCHANGED <<published, pending, meta, chunkFile, call>>
  BY DEF StartPublish, store, disk
<1>3. ASSUME NEW n \in Node, NEW f \in File, NEW d \in Dir, Settled(n, f, d)
      PROVE  ~ BeingWritten(n, d)'
  <2>1. ~ BeingWritten(n, d)
    BY <1>3 DEF Settled
  <2>2. ~ (n = m /\ d = DirAt(p, g))
    BY <1>3, SettledOwner DEF StartPublish
  <2>3. publish'[n] # NoPublish =>
          \/ publish'[n] = publish[n]
          \/ n = m /\ publish'[n].path = p /\ publish'[n].file = g
    BY <1>1 DEF StartPublish, TypeOK
  <2> QED  BY <2>1, <2>2, <2>3, <1>2 DEF BeingWritten
<1>4. PublishedStays
  BY <1>2 DEF PublishedStays
<1>5. \A n \in Node, f \in File, d \in Dir : Settled(n, f, d) =>
        /\ ~ BeingWritten(n, d)'
        /\ meta'[n][d] = meta[n][d]
        /\ \A c \in Chunks(f) : Has(n, f, d, c) => Has(n, f, d, c)'
  BY <1>2, <1>3 DEF Has
<1> QED  BY <1>2, <1>4, <1>5, StaysIf

(* What a download_file call with an answer touches. *)
LEMMA CallFrame ==
  ASSUME IInv, NEW m \in Node, CallStep(m)
  PROVE  /\ call[m] # NoCall /\ call[m].file = call[m].asked /\ call[m].file \in File
         /\ CallDir(m) = DirAt(call[m].path, call[m].asked) /\ CallDir(m) \in Dir
         /\ UNCHANGED <<published, publish, chunkFile, sub>>
         /\ \A n \in Node, d \in Dir : meta'[n][d] = meta[n][d] \/ (n = m /\ d = CallDir(m))
         /\ \A n \in Node : n # m => call'[n] = call[n]
         /\ call'[m] = NoCall \/ (/\ call'[m].path = call[m].path
                                 /\ call'[m].asked = call[m].asked)
         /\ \A n \in Node, f \in File :
              \/ pending'[n][f] = pending[n][f]
              \/ /\ n = m /\ f = call[m].asked
                 /\ pending'[n][f] = [dir |-> CallDir(m), chunks |-> {}]
                 /\ pending'[n][f] # None
<1> DEFINE w == call[m]
           e == CallDir(m)
<1>1. TypeOK /\ CallWrites
  BY DEF IInv, DiskInv
<1>2. w # NoCall /\ w.pc # "asked"
  BY DEF CallStep, SaveMetadata, MetadataSaved, PutPending, NoCall
<1>3. /\ w \in CallRecord /\ w.file = w.asked /\ w.file \in File
      /\ e = DirAt(w.path, w.asked) /\ e \in Dir
  BY <1>1, <1>2, CallPlace DEF CallDir, CallWrites
<1>4. UNCHANGED <<published, publish, chunkFile, sub>>
  BY DEF CallStep, SaveMetadata, MetadataSaved, PutPending, store, disk
<1> HIDE DEF e
<1>5. \A n \in Node, d \in Dir : meta'[n][d] = meta[n][d] \/ (n = m /\ d = e)
  BY <1>1, <1>3 DEF CallStep, SaveMetadata, MetadataSaved, PutPending, disk, TypeOK, e
<1>6. \A n \in Node : n # m => call'[n] = call[n]
  BY <1>1 DEF CallStep, SaveMetadata, MetadataSaved, PutPending, TypeOK
<1>7. call'[m] = NoCall \/ (call'[m].path = w.path /\ call'[m].asked = w.asked)
  <2>1. call'[m] \in {NoCall, [w EXCEPT !.pc = "saving"], [w EXCEPT !.pc = "put"]}
    BY <1>1 DEF CallStep, SaveMetadata, MetadataSaved, PutPending, TypeOK
  <2> HIDE DEF w
  <2> QED  BY <2>1, <1>3 DEF CallRecord
<1>8. \A n \in Node, f \in File :
        \/ pending'[n][f] = pending[n][f]
        \/ /\ n = m /\ f = w.asked
           /\ pending'[n][f] = [dir |-> e, chunks |-> {}] /\ pending'[n][f] # None
  <2>1. [dir |-> e, chunks |-> {}] \in Record
    BY <1>3 DEF Record
  <2>2. [dir |-> e, chunks |-> {}] # None
    BY <2>1, ConstantsAssumption DEF Record
  <2>3. PutPending(m) => pending' = [pending EXCEPT ![m][w.file] = [dir |-> e, chunks |-> {}]]
    BY DEF PutPending, e
  <2> QED  BY <2>2, <2>3, <1>1, <1>3 DEF CallStep, SaveMetadata, MetadataSaved, TypeOK, store
<1> QED  BY <1>2, <1>3, <1>4, <1>5, <1>6, <1>7, <1>8 DEF e

LEMMA CallStays ==
  ASSUME IInv, NEW m \in Node, CallStep(m)
  PROVE  SettledStays /\ PublishedStays
<1>1. UNCHANGED <<published, publish, chunkFile>>
  BY CallFrame
<1>2. \A n \in Node : call'[n] # NoCall =>
        /\ call[n] # NoCall
        /\ call'[n].path = call[n].path /\ call'[n].asked = call[n].asked
  BY CallFrame
<1>3. \A n \in Node, d \in Dir : meta'[n][d] = meta[n][d] \/ (n = m /\ d = CallDir(m))
  BY CallFrame
<1>4. \A n \in Node, f \in File :
        \/ pending'[n][f] = pending[n][f]
        \/ /\ n = m /\ f = call[m].asked
           /\ pending'[n][f] = [dir |-> CallDir(m), chunks |-> {}]
           /\ pending'[n][f] # None
  BY CallFrame
<1>5. ASSUME NEW n \in Node, NEW f \in File, NEW d \in Dir, Settled(n, f, d)
      PROVE  /\ ~ BeingWritten(n, d)'
             /\ meta'[n][d] = meta[n][d]
             /\ \A c \in Chunks(f) : Has(n, f, d, c) => Has(n, f, d, c)'
  <2>1. ~ BeingWritten(n, d)
    BY <1>5 DEF Settled
  <2>2. ~ (n = m /\ d = CallDir(m))
    BY <2>1, CallFrame DEF BeingWritten
  <2>3. ~ BeingWritten(n, d)'
    BY <2>1, <1>1, <1>2 DEF BeingWritten
  <2>4. meta'[n][d] = meta[n][d] /\ chunkFile'[n][d] = chunkFile[n][d]
    BY <2>2, <1>1, <1>3
  <2>5. pending'[n][f] = pending[n][f] \/ pending'[n][f].dir # d
    BY <2>2, <1>4
  <2> QED  BY <2>3, <2>4, <2>5 DEF Has
<1>6. PublishedStays
  BY <1>1 DEF PublishedStays
<1>7. \A n \in Node, f \in File : pending[n][f] # None => pending'[n][f] # None
  BY <1>4
<1> QED  BY <1>5, <1>6, <1>7, StaysIf

LEMMA RequestMetadataStays ==
  ASSUME IInv, OneWriterPerDir, NEW m \in Node, NEW g \in File, NEW p \in Path,
         RequestMetadata(m, g, p)
  PROVE  SettledStays /\ PublishedStays
<1>1. TypeOK
  BY DEF IInv
<1>2. UNCHANGED <<published, pending, meta, chunkFile, publish>>
  BY DEF RequestMetadata, store, disk
<1>3. ASSUME NEW n \in Node, NEW f \in File, NEW d \in Dir, Settled(n, f, d)
      PROVE  ~ BeingWritten(n, d)'
  <2>1. ~ BeingWritten(n, d)
    BY <1>3 DEF Settled
  <2>2. ~ (n = m /\ d = DirAt(p, g))
    BY <1>3, SettledOwner DEF RequestMetadata
  <2>3. call'[n] # NoCall =>
          \/ call'[n] = call[n]
          \/ n = m /\ call'[n].path = p /\ call'[n].asked = g
    BY <1>1 DEF RequestMetadata, TypeOK
  <2> QED  BY <2>1, <2>2, <2>3, <1>2 DEF BeingWritten
<1>4. PublishedStays
  BY <1>2 DEF PublishedStays
<1>5. \A n \in Node, f \in File, d \in Dir : Settled(n, f, d) =>
        /\ ~ BeingWritten(n, d)'
        /\ meta'[n][d] = meta[n][d]
        /\ \A c \in Chunks(f) : Has(n, f, d, c) => Has(n, f, d, c)'
  BY <1>2, <1>3 DEF Has
<1> QED  BY <1>2, <1>4, <1>5, StaysIf

(* A step that leaves .metadata and the calls alone, and takes no record away
   that is needed. *)
LEMMA QuietStays ==
  ASSUME TypeOK, UNCHANGED <<meta, client>>, PublishedStays,
         \A n \in Node, f \in File :
           pending[n][f] # None => pending'[n][f] # None \/ published'[n][f] # None,
         \A n \in Node, f \in File, d \in Dir : Settled(n, f, d) =>
           \A c \in Chunks(f) : Has(n, f, d, c) => Has(n, f, d, c)'
  PROVE  SettledStays
<1>1. \A n \in Node, f \in File, d \in Dir : Settled(n, f, d) =>
        ~ BeingWritten(n, d)' /\ meta'[n][d] = meta[n][d]
  BY DEF Settled, BeingWritten, client
<1> QED  BY <1>1, StaysIf

(* The file of a chunk of a pending download is written by its subtask alone:
   what lies there is for good only if the record claims it. *)
LEMMA SubtaskFile ==
  ASSUME IInv, NEW m \in Node, NEW g \in File, NEW b \in Chunk, sub[m][g][b] # "idle"
  PROVE  /\ pending[m][g] \in Record /\ pending[m][g].dir \in Dir
         /\ b \in Chunks(g) /\ b \notin pending[m][g].chunks
         /\ Settled(m, g, pending[m][g].dir) /\ meta[m][pending[m][g].dir] = g
         /\ \A f \in File : Settled(m, f, pending[m][g].dir) => f = g
         /\ pending[m][g] # None /\ ~ Has(m, g, pending[m][g].dir, b)
<1>1. TypeOK /\ PendingSettled /\ SubtasksFit
  BY DEF IInv, DiskInv
<1>2. pending[m][g] # None /\ b \in Chunks(g) /\ b \notin pending[m][g].chunks
  BY <1>1 DEF SubtasksFit
<1>3. /\ pending[m][g] \in Record /\ pending[m][g].dir \in Dir
      /\ Settled(m, g, pending[m][g].dir) /\ meta[m][pending[m][g].dir] = g
  BY <1>1, <1>2, PendingPlace
<1>4. \A f \in File : Settled(m, f, pending[m][g].dir) => f = g
  BY <1>3, SettledOne
<1> QED  BY <1>2, <1>3, <1>4 DEF Has

LEMMA SubtaskStays ==
  ASSUME IInv, NEW m \in Node, NEW g \in File, NEW b \in Chunk, Subtask(m, g, b)
  PROVE  SettledStays /\ PublishedStays
<1> DEFINE e == pending[m][g].dir
<1>1. TypeOK
  BY DEF IInv
<1>2. UNCHANGED <<published, meta, client>>
  BY DEF Subtask, RequestFileChunk, ChunkWritten, JoinChunk, store, disk
<1>3. PublishedStays
  BY <1>2 DEF PublishedStays
<1>4. CASE RequestFileChunk(m, g, b)
  <2>1. UNCHANGED <<pending, chunkFile>>
    BY <1>4 DEF RequestFileChunk, store, disk
  <2> QED  BY <2>1, <1>1, <1>2, <1>3, QuietStays DEF Has
<1>5. CASE ChunkWritten(m, g, b)
  <2>1. pending' = pending /\ sub[m][g][b] # "idle"
    BY <1>5 DEF ChunkWritten, store
  <2>2. e \in Dir /\ meta[m][e] = g /\ \A f \in File : Settled(m, f, e) => f = g
    BY <2>1, SubtaskFile
  <2>3. chunkFile' = [chunkFile EXCEPT ![m][e][b] = g]
    BY <2>2, <1>5 DEF ChunkWritten
  <2> HIDE DEF e
  <2>4. \A n \in Node, d \in Dir : \A c \in Chunk :
          chunkFile'[n][d][c] = IF n = m /\ d = e /\ c = b THEN g ELSE chunkFile[n][d][c]
    BY <2>2, <2>3, <1>1 DEF TypeOK
  <2>5. \A n \in Node, f \in File, d \in Dir : Settled(n, f, d) =>
          \A c \in Chunks(f) : Has(n, f, d, c) => Has(n, f, d, c)'
    BY <2>1, <2>2, <2>4, ChunksAreChunks DEF Has
  <2> QED  BY <2>1, <2>5, <1>1, <1>2, <1>3, QuietStays
<1>6. CASE JoinChunk(m, g, b)
  <2>1. chunkFile' = chunkFile /\ sub[m][g][b] # "idle"
    BY <1>6 DEF JoinChunk, disk
  <2>2. pending[m][g] \in Record
    BY <2>1, SubtaskFile
  <2>3. [pending[m][g] EXCEPT !.chunks = pending[m][g].chunks \cup {b}] \in Record
    BY <2>2 DEF Record
  <2>4. /\ pending'[m][g] # None /\ pending'[m][g].dir = pending[m][g].dir
        /\ pending[m][g].chunks \subseteq pending'[m][g].chunks
    <3>1. pending'[m][g] = [pending[m][g] EXCEPT !.chunks = pending[m][g].chunks \cup {b}]
      BY <1>1, <1>6 DEF JoinChunk, TypeOK
    <3> QED  BY <3>1, <2>2, <2>3, ConstantsAssumption DEF Record
  <2>5. \A n \in Node, f \in File : pending'[n][f] = pending[n][f] \/ (n = m /\ f = g)
    BY <1>1, <1>6 DEF JoinChunk, TypeOK
  <2>6. \A n \in Node, f \in File : pending[n][f] # None => pending'[n][f] # None
    BY <2>4, <2>5
  <2>7. \A n \in Node, f \in File, d \in Dir : Settled(n, f, d) =>
          \A c \in Chunks(f) : Has(n, f, d, c) => Has(n, f, d, c)'
    <3>1. pending[m][g] # None
      BY <2>1, SubtaskFile
    <3> QED  BY <3>1, <2>1, <2>4, <2>5 DEF Has
  <2> QED  BY <2>6, <2>7, <1>1, <1>2, <1>3, QuietStays
<1> QED  BY <1>4, <1>5, <1>6 DEF Subtask

LEMMA ProcessCompletedStays ==
  ASSUME IInv, NEW m \in Node, NEW g \in File, ProcessCompleted(m, g)
  PROVE  SettledStays /\ PublishedStays
<1>1. TypeOK
  BY DEF IInv
<1>2. UNCHANGED <<meta, chunkFile, client>>
  BY DEF ProcessCompleted, PutPublished, DeletePending, disk
<1>3. CASE PutPublished(m, g)
  <2>1. pending' = pending
    BY <1>3 DEF PutPublished
  <2>2. pending[m][g] \in Record /\ pending[m][g].dir # None
    BY <1>1, <1>3, ConstantsAssumption DEF PutPublished, Downloaded, TypeOK, Record
  <2>3. PublishedStays
    BY <1>1, <1>3, <2>2 DEF PutPublished, PublishedStays, TypeOK
  <2> QED  BY <2>1, <2>3, <1>1, <1>2, QuietStays DEF Has
<1>4. CASE DeletePending(m, g)
  <2>1. published' = published /\ published[m][g] # None
    BY <1>4 DEF DeletePending
  <2>2. PublishedStays
    BY <2>1 DEF PublishedStays
  <2>3. \A n \in Node, f \in File :
          \/ pending'[n][f] = pending[n][f]
          \/ n = m /\ f = g /\ pending'[n][f] = None
    BY <1>1, <1>4 DEF DeletePending, TypeOK
  <2>4. \A n \in Node, f \in File :
          pending[n][f] # None => pending'[n][f] # None \/ published'[n][f] # None
    BY <2>1, <2>3
  <2>5. \A n \in Node, f \in File, d \in Dir : Settled(n, f, d) =>
          \A c \in Chunks(f) : Has(n, f, d, c) => Has(n, f, d, c)'
    BY <2>3, <1>2 DEF Has
  <2> QED  BY <2>2, <2>4, <2>5, <1>1, <1>2, QuietStays
<1> QED  BY <1>3, <1>4 DEF ProcessCompleted

(* A handler reads and writes nothing. *)
LEMMA NetStays ==
  ASSUME UNCHANGED <<store, disk, client>>
  PROVE  SettledStays /\ PublishedStays
<1>1. \A n \in Node, f \in File, d \in Dir : Settled(n, f, d) => Settled(n, f, d)'
  BY DEF Settled, BeingWritten, store, disk, client
<1>2. \A n \in Node, f \in File, d \in Dir : \A c \in Chunks(f) :
        Has(n, f, d, c) => Has(n, f, d, c)'
  BY DEF Has, store, disk
<1> QED  BY <1>1, <1>2 DEF SettledStays, PublishedStays, store

LEMMA ReceiveMetadataStays ==
  ASSUME IInv, NEW m \in Node, ReceiveMetadata(m)
  PROVE  SettledStays /\ PublishedStays
<1>1. TypeOK
  BY DEF IInv
<1>2. UNCHANGED <<published, pending, meta, chunkFile, publish>>
  BY DEF ReceiveMetadata, store, disk
<1>3. \A n \in Node : n # m => call'[n] = call[n]
  BY <1>1 DEF ReceiveMetadata, TypeOK
<1>4. call'[m] # NoCall =>
        /\ call[m] # NoCall
        /\ call'[m].path = call[m].path /\ call'[m].asked = call[m].asked
  <2>1. call[m] \in CallRecord \cup {NoCall}
    BY <1>1, CallsTyped
  <2>2. call[m] # NoCall
    BY ReceiveMetadataWaited DEF IInv, NetInv
  <2>3. PICK body : call'[m] \in {NoCall, [call[m] EXCEPT !.pc = "save", !.file = body]}
    BY <1>1 DEF ReceiveMetadata, TypeOK
  <2> QED  BY <2>1, <2>2, <2>3 DEF CallRecord
<1>5. \A n \in Node, f \in File, d \in Dir : Settled(n, f, d) =>
        /\ ~ BeingWritten(n, d)'
        /\ meta'[n][d] = meta[n][d]
        /\ \A c \in Chunks(f) : Has(n, f, d, c) => Has(n, f, d, c)'
  BY <1>2, <1>3, <1>4 DEF Settled, BeingWritten, Has
<1>6. PublishedStays
  BY <1>2 DEF PublishedStays
<1> QED  BY <1>2, <1>5, <1>6, StaysIf

LEMMA ReceiveChunkStays ==
  ASSUME IInv, NEW m \in Node, ReceiveChunk(m)
  PROVE  SettledStays /\ PublishedStays
<1> DEFINE r == Head(inbox[m])
           e == pending[m][r.file].dir
<1>1. TypeOK
  BY DEF IInv
<1>2. UNCHANGED <<published, pending, meta, client>>
  BY DEF ReceiveChunk, store
<1>3. r \in Response /\ r.file \in File /\ r.chunk \in Chunk /\ sub[m][r.file][r.chunk] = "asked"
  BY ReceiveChunkWaited DEF IInv, NetInv
<1>4. /\ e \in Dir /\ ~ Has(m, r.file, e, r.chunk)
      /\ \A f \in File : Settled(m, f, e) => f = r.file
  BY <1>3, SubtaskFile
<1>5. chunkFile' = chunkFile \/ chunkFile' = [chunkFile EXCEPT ![m][e][r.chunk] = Torn]
  BY DEF ReceiveChunk
<1> HIDE DEF r, e
<1>6. \A n \in Node, d \in Dir : \A c \in Chunk :
        chunkFile'[n][d][c] = chunkFile[n][d][c] \/ (n = m /\ d = e /\ c = r.chunk)
  BY <1>1, <1>3, <1>4, <1>5 DEF TypeOK
<1>7. \A n \in Node, f \in File, d \in Dir : Settled(n, f, d) =>
        \A c \in Chunks(f) : Has(n, f, d, c) => Has(n, f, d, c)'
  BY <1>2, <1>4, <1>6, ChunksAreChunks DEF Has
<1>8. PublishedStays
  BY <1>2 DEF PublishedStays
<1> QED  BY <1>1, <1>2, <1>7, <1>8, QuietStays

-----------------------------------------------------------------------------
(* Frames: what each part of DiskInv needs in order to survive a step.     *)

LEMMA PublishedKept ==
  ASSUME TypeOK, PublishedSettled, SettledStays, UNCHANGED published
  PROVE  PublishedSettled'
<1> SUFFICES ASSUME NEW n \in Node, NEW f \in File, NEW d \in Dir,
                    published[n][f] # None, published[n][f] = d
             PROVE  Settled(n, f, d)' /\ \A c \in Chunks(f) : Has(n, f, d, c)'
  BY DEF PublishedSettled, TypeOK
<1>1. Settled(n, f, d) /\ \A c \in Chunks(f) : Has(n, f, d, c)
  BY DEF PublishedSettled
<1> QED  BY <1>1 DEF SettledStays

(* One more record of a published file. *)
LEMMA PublishedGrows ==
  ASSUME TypeOK, PublishedSettled, SettledStays,
         NEW m \in Node, NEW g \in File, NEW e \in Dir,
         published' = [published EXCEPT ![m][g] = e],
         Settled(m, g, e)', \A c \in Chunks(g) : Has(m, g, e, c)'
  PROVE  PublishedSettled'
<1>1. \A n \in Node, f \in File :
        published'[n][f] = IF n = m /\ f = g THEN e ELSE published[n][f]
  BY DEF TypeOK
<1> SUFFICES ASSUME NEW n \in Node, NEW f \in File, NEW d \in Dir,
                    published'[n][f] # None, published'[n][f] = d
             PROVE  Settled(n, f, d)' /\ \A c \in Chunks(f) : Has(n, f, d, c)'
  BY <1>1 DEF PublishedSettled, TypeOK
<1>2. CASE n = m /\ f = g
  BY <1>1, <1>2
<1>3. CASE ~ (n = m /\ f = g)
  <2>1. Settled(n, f, d) /\ \A c \in Chunks(f) : Has(n, f, d, c)
    BY <1>1, <1>3 DEF PublishedSettled
  <2> QED  BY <2>1 DEF SettledStays
<1> QED  BY <1>2, <1>3

(* What PendingSettled says of one record. *)
GoodPending(n, f, held) ==
  /\ Settled(n, f, held.dir)
  /\ \E p \in Path : <<n, f, p>> \in Wants /\ held.dir = DirAt(p, f)
  /\ held.chunks \subseteq Chunks(f)
  /\ \A c \in held.chunks : Has(n, f, held.dir, c)

LEMMA PendingIsGood ==
  PendingSettled <=>
    \A n \in Node, f \in File : pending[n][f] # None => GoodPending(n, f, pending[n][f])
  BY DEF PendingSettled, GoodPending

(* A record that a step leaves alone stays good. *)
LEMMA GoodStays ==
  ASSUME SettledStays, NEW n \in Node, NEW f \in File, NEW held \in Record,
         GoodPending(n, f, held)
  PROVE  GoodPending(n, f, held)'
<1>1. held.dir \in Dir
  BY DEF Record
<1>2. Settled(n, f, held.dir)' /\ \A c \in held.chunks : Has(n, f, held.dir, c)'
  <2>1. \A d \in Dir : Settled(n, f, d) =>
          /\ Settled(n, f, d)'
          /\ \A c \in Chunks(f) : Has(n, f, d, c) => Has(n, f, d, c)'
    BY DEF SettledStays
  <2> QED  BY <1>1, <2>1 DEF GoodPending
<1> QED  BY <1>2 DEF GoodPending

(* All records but one are left alone. *)
LEMMA PendingKept ==
  ASSUME TypeOK, PendingSettled, SettledStays, NEW m \in Node, NEW g \in File,
         \A n \in Node, f \in File : pending'[n][f] = pending[n][f] \/ (n = m /\ f = g),
         \/ pending'[m][g] = pending[m][g]
         \/ pending'[m][g] = None
         \/ \E held : held = pending'[m][g] /\ GoodPending(m, g, held)'
  PROVE  PendingSettled'
<1> SUFFICES ASSUME NEW n \in Node, NEW f \in File, NEW held,
                    pending'[n][f] # None, held = pending'[n][f]
             PROVE  GoodPending(n, f, held)'
  BY DEF PendingSettled, GoodPending
<1>1. CASE pending'[n][f] = pending[n][f]
  <2>1. held \in Record /\ GoodPending(n, f, held)
    BY <1>1, PendingIsGood DEF TypeOK
  <2> QED  BY <2>1, GoodStays
<1>2. CASE pending'[n][f] # pending[n][f]
  BY <1>2
<1> QED  BY <1>1, <1>2

LEMMA PendingSame ==
  ASSUME TypeOK, PendingSettled, SettledStays, UNCHANGED pending
  PROVE  PendingSettled'
<1> SUFFICES ASSUME NEW n \in Node, NEW f \in File, NEW held,
                    pending[n][f] # None, held = pending[n][f]
             PROVE  GoodPending(n, f, held)'
  BY DEF PendingSettled, GoodPending
<1>1. held \in Record /\ GoodPending(n, f, held)
  BY PendingIsGood DEF TypeOK
<1> QED  BY <1>1, GoodStays

LEMMA PublishWritesKept ==
  ASSUME PublishWrites, UNCHANGED publish,
         \A n \in Node : publish[n] # NoPublish =>
           LET d == DirAt(publish[n].path, publish[n].file) IN
           meta'[n][d] = meta[n][d] /\ chunkFile'[n][d] = chunkFile[n][d]
  PROVE  PublishWrites'
  BY DEF PublishWrites

LEMMA CallWritesKept ==
  ASSUME CallWrites, UNCHANGED call, PublishedStays,
         \A n \in Node : call[n] # NoCall =>
           LET d == DirAt(call[n].path, call[n].asked) IN
           /\ meta'[n][d] = meta[n][d]
           /\ call[n].asked \in File
           /\ pending'[n][call[n].asked] \in {pending[n][call[n].asked], None}
  PROVE  CallWrites'
<1> SUFFICES ASSUME NEW n \in Node, call[n] # NoCall
             PROVE  /\ <<n, call[n].asked, call[n].path>> \in Wants
                    /\ pending'[n][call[n].asked] = None
                    /\ call[n].pc # "asked" =>
                         /\ call[n].file = call[n].asked
                         /\ \E m \in Node : published'[m][call[n].file] # None
                    /\ call[n].pc = "put" =>
                         meta'[n][DirAt(call[n].path, call[n].file)] = call[n].file
  BY DEF CallWrites
<1> QED  BY DEF CallWrites, PublishedStays

LEMMA SubtasksKept ==
  ASSUME SubtasksFit, UNCHANGED <<pending, sub>>,
         \A n \in Node, f \in File : pending[n][f] # None =>
           chunkFile'[n][pending[n][f].dir] = chunkFile[n][pending[n][f].dir]
  PROVE  SubtasksFit'
  BY DEF SubtasksFit

-----------------------------------------------------------------------------
(* The steps of a publication.                                             *)

LEMMA PublishWritesStep ==
  ASSUME IInv, NEW m \in Node, PublishStep(m) \/ AddPublished(m)
  PROVE  PublishWrites'
<1> DEFINE w == publish[m]
           e == DirAt(w.path, w.file)
           v == publish'[m]
<1>1. TypeOK /\ PublishWrites
  BY DEF IInv, DiskInv
<1>2. w # NoPublish /\ w \in PublishRecord /\ e \in Dir /\ w.file \in File
  BY <1>1, PublishFrame, PublishPlace
<1>3. /\ <<m, w.file, w.path>> \in Publishes
      /\ w.next \in 0 .. NumChunks[w.file]
      /\ \A c \in 0 .. w.next - 1 : chunkFile[m][e][c] = w.file
      /\ w.pc \in {"saving", "job"} => w.next = NumChunks[w.file]
  BY <1>1, <1>2 DEF PublishWrites
<1>4. NumChunks[w.file] \in Nat \ {0}
  BY <1>2, ConstantsAssumption
<1>5. v # NoPublish =>
        /\ <<m, v.file, v.path>> \in Publishes
        /\ v.next \in 0 .. NumChunks[v.file]
        /\ \A c \in 0 .. v.next - 1 : chunkFile'[m][DirAt(v.path, v.file)][c] = v.file
        /\ v.pc \in {"saving", "job"} => v.next = NumChunks[v.file]
        /\ v.pc = "job" => meta'[m][DirAt(v.path, v.file)] = v.file
  <2>1. CASE WriteChunk(m)
    <3>1. v = [w EXCEPT !.next = w.next + 1] /\ w.pc = "split" /\ w.next < NumChunks[w.file]
      BY <2>1, <1>1 DEF WriteChunk, TypeOK
    <3>2. w.next \in Chunk
      BY <3>1, <1>2, <1>3, <1>4, ChunksAreChunks DEF Chunks
    <3>3. chunkFile' = [chunkFile EXCEPT ![m][e][w.next] = w.file]
      BY <2>1 DEF WriteChunk
    <3> HIDE DEF e
    <3>4. \A c \in 0 .. w.next - 1 : c \in Chunk
      BY <3>2, <1>2, <1>3, <1>4, ChunksAreChunks DEF Chunks
    <3>5. \A c \in 0 .. w.next : chunkFile'[m][e][c] = w.file
      <4>1. \A c \in Chunk :
              chunkFile'[m][e][c] = IF c = w.next THEN w.file ELSE chunkFile[m][e][c]
        BY <3>2, <3>3, <1>1, <1>2 DEF TypeOK
      <4>2. \A c \in 0 .. w.next : c = w.next \/ c \in 0 .. w.next - 1
        BY <1>3, <1>4
      <4> QED  BY <4>1, <4>2, <3>2, <3>4, <1>3 DEF e
    <3>6. v.pc = "split" /\ v.path = w.path /\ v.file = w.file /\ v.next = w.next + 1
      <4> HIDE DEF w, v
      <4> QED  BY <3>1, <1>2 DEF PublishRecord
    <3> HIDE DEF w, v
    <3>7. v.next \in 0 .. NumChunks[v.file] /\ v.next - 1 = w.next
      BY <3>1, <3>6, <1>3, <1>4
    <3> QED  BY <3>5, <3>6, <3>7, <1>3 DEF e
  <2>2. CASE CreateMetadata(m)
    <3>1. v = [w EXCEPT !.pc = "saving"] /\ w.next = NumChunks[w.file] /\ chunkFile' = chunkFile
      BY <2>2, <1>1 DEF CreateMetadata, TypeOK
    <3> HIDE DEF w, v
    <3>2. v.pc = "saving" /\ v.path = w.path /\ v.file = w.file /\ v.next = w.next
      BY <3>1, <1>2 DEF PublishRecord
    <3> QED  BY <3>1, <3>2, <1>3 DEF e
  <2>3. CASE FillMetadata(m)
    <3>1. v = [w EXCEPT !.pc = "job"] /\ w.pc = "saving" /\ chunkFile' = chunkFile
      BY <2>3, <1>1 DEF FillMetadata, TypeOK
    <3>2. meta'[m][e] = w.file
      BY <2>3, <1>1, <1>2 DEF FillMetadata, TypeOK
    <3> HIDE DEF w, v
    <3>3. v.pc = "job" /\ v.path = w.path /\ v.file = w.file /\ v.next = w.next
      BY <3>1, <1>2 DEF PublishRecord
    <3> QED  BY <3>1, <3>2, <3>3, <1>3 DEF e
  <2>4. CASE AddPublished(m)
    BY <2>4, <1>1 DEF AddPublished, TypeOK
  <2> QED  BY <2>1, <2>2, <2>3, <2>4 DEF PublishStep
<1>6. \A n \in Node : n # m =>
        publish'[n] = publish[n] /\ meta'[n] = meta[n] /\ chunkFile'[n] = chunkFile[n]
  BY <1>1 DEF PublishStep, WriteChunk, CreateMetadata, FillMetadata, AddPublished, disk, TypeOK
<1> QED  BY <1>1, <1>5, <1>6 DEF PublishWrites

(* The new record points to what the call has written. *)
LEMMA AddPublishedSettles ==
  ASSUME IInv, OneWriterPerDir, NEW m \in Node, AddPublished(m), SettledStays,
         NEW f \in File, NEW p \in Path, NEW e \in Dir,
         f = publish[m].file, p = publish[m].path, e = DirAt(p, f)
  PROVE  PublishedSettled'
<1>1. TypeOK /\ PublishedSettled /\ PendingSettled /\ PublishWrites /\ CallWrites
  BY DEF IInv, DiskInv
<1>2. publish[m] # NoPublish /\ publish[m] \in PublishRecord /\ <<m, f, p>> \in Publishes
  BY <1>1, PublishFrame, PublishPlace
<1>3. /\ published' = [published EXCEPT ![m][f] = e]
      /\ UNCHANGED <<meta, chunkFile, pending, call>>
      /\ publish'[m] = NoPublish /\ publish[m].pc = "job"
  BY <1>1 DEF AddPublished, TypeOK, disk
<1>4. /\ publish[m].next = NumChunks[f] /\ meta[m][e] = f
      /\ \A c \in Chunks(f) : chunkFile[m][e][c] = f
  BY <1>1, <1>2, <1>3 DEF PublishWrites, Chunks
<1>5. published'[m][f] # None
  BY <1>1, <1>3, ConstantsAssumption DEF TypeOK
<1>6. BeingWritten(m, e)
  BY <1>2 DEF BeingWritten
<1>7. ~ BeingWritten(m, e)'
  <2>1. call[m] # NoCall => DirAt(call[m].path, call[m].asked) # e
    BY <1>1, <1>2, TwoCallsApart
  <2> QED  BY <2>1, <1>3 DEF BeingWritten
<1>8. pending'[m][f] # None => pending'[m][f].dir # e
  BY <1>1, <1>3, <1>6, PendingPlace
<1>9. Settled(m, f, e)'
  BY <1>2, <1>3, <1>4, <1>5, <1>7 DEF Settled
<1>10. \A c \in Chunks(f) : Has(m, f, e, c)'
  BY <1>3, <1>4, <1>8 DEF Has
<1> QED  BY <1>1, <1>3, <1>9, <1>10, PublishedGrows

LEMMA PublishDisk ==
  ASSUME IInv, OneWriterPerDir, NEW m \in Node, PublishStep(m) \/ AddPublished(m)
  PROVE  DiskInv'
<1> DEFINE w == publish[m]
           f == w.file
           e == DirAt(w.path, w.file)
<1>1. TypeOK /\ PublishedSettled /\ PendingSettled /\ PublishWrites /\ CallWrites /\ SubtasksFit
  BY DEF IInv, DiskInv
<1>2. /\ w # NoPublish /\ w \in PublishRecord /\ e \in Dir /\ f \in File /\ w.path \in Path
      /\ <<m, f, w.path>> \in Publishes
  BY <1>1, PublishFrame, PublishPlace
<1>3. UNCHANGED <<pending, call, sub>>
  BY PublishFrame
<1>4. SettledStays /\ PublishedStays
  BY PublishStays
<1>5. \A n \in Node, d \in Dir :
        \/ n = m /\ d = e
        \/ meta'[n][d] = meta[n][d] /\ chunkFile'[n][d] = chunkFile[n][d]
  BY PublishFrame
<1>6. BeingWritten(m, e)
  BY <1>2 DEF BeingWritten
<1>7. call[m] # NoCall => DirAt(call[m].path, call[m].asked) # e
  BY <1>1, <1>2, TwoCallsApart
<1>8. PendingSettled'
  BY <1>1, <1>2, <1>3, <1>4, PendingSame
<1>9. CallWrites'
  <2>1. \A n \in Node : call[n] # NoCall =>
          LET d == DirAt(call[n].path, call[n].asked) IN
          meta'[n][d] = meta[n][d] /\ call[n].asked \in File
    BY <1>1, <1>5, <1>7, CallPlace
  <2> QED  BY <2>1, <1>1, <1>3, <1>4, CallWritesKept
<1>10. SubtasksFit'
  <2>1. \A n \in Node, g \in File : pending[n][g] # None =>
          pending[n][g].dir \in Dir /\ ~ BeingWritten(n, pending[n][g].dir)
    BY <1>1, PendingPlace
  <2>2. \A n \in Node, g \in File : pending[n][g] # None =>
          chunkFile'[n][pending[n][g].dir] = chunkFile[n][pending[n][g].dir]
    BY <2>1, <1>5, <1>6
  <2> QED  BY <2>2, <1>1, <1>3, SubtasksKept
<1>11. PublishedSettled'
  <2>1. CASE PublishStep(m)
    <3>1. UNCHANGED published
      BY <2>1 DEF PublishStep, WriteChunk, CreateMetadata, FillMetadata, store
    <3> QED  BY <3>1, <1>1, <1>4, PublishedKept
  <2>2. CASE AddPublished(m)
    BY <2>2, <1>2, <1>4, AddPublishedSettles
  <2> QED  BY <2>1, <2>2
<1> QED  BY <1>8, <1>9, <1>10, <1>11, PublishWritesStep DEF DiskInv

LEMMA StartPublishDisk ==
  ASSUME IInv, OneWriterPerDir, NEW m \in Node, NEW g \in File, NEW p \in Path,
         StartPublish(m, g, p)
  PROVE  DiskInv'
<1>1. TypeOK /\ PublishedSettled /\ PendingSettled /\ PublishWrites /\ CallWrites /\ SubtasksFit
  BY DEF IInv, DiskInv
<1>2. UNCHANGED <<published, pending, meta, chunkFile, call, sub>>
  BY DEF StartPublish, store, disk
<1>3. SettledStays /\ PublishedStays
  BY StartPublishStays
<1>4. PublishedSettled'
  BY <1>1, <1>2, <1>3, PublishedKept
<1>5. PendingSettled'
  BY <1>1, <1>2, <1>3, PendingSame
<1>6. PublishWrites'
  <2>1. publish'[m] = [pc |-> "split", file |-> g, path |-> p, next |-> 0]
    BY <1>1 DEF StartPublish, TypeOK
  <2>2. \A n \in Node : n # m => publish'[n] = publish[n]
    BY <1>1 DEF StartPublish, TypeOK
  <2>3. <<m, g, p>> \in Publishes /\ NumChunks[g] \in Nat
    BY ConstantsAssumption DEF StartPublish
  <2> QED  BY <2>1, <2>2, <2>3, <1>1, <1>2 DEF PublishWrites
<1>7. CallWrites'
  BY <1>1, <1>2, <1>3, CallPlace, CallWritesKept
<1>8. SubtasksFit'
  BY <1>1, <1>2, SubtasksKept
<1> QED  BY <1>4, <1>5, <1>6, <1>7, <1>8 DEF DiskInv

-----------------------------------------------------------------------------
(* The steps of a download_file call.                                      *)

(* The new record points to the .metadata that the call has written. *)
LEMMA PutPendingSettles ==
  ASSUME IInv, OneWriterPerDir, NEW m \in Node, PutPending(m), SettledStays,
         NEW f \in File, NEW p \in Path, NEW e \in Dir,
         f = call[m].asked, p = call[m].path, e = DirAt(p, f)
  PROVE  PendingSettled'
<1>1. TypeOK /\ PendingSettled /\ PublishWrites /\ CallWrites
  BY DEF IInv, DiskInv
<1>2. /\ call[m] # NoCall /\ call[m].file = f /\ CallDir(m) = e /\ call[m].pc = "put"
      /\ <<m, f, p>> \in Wants
  BY <1>1, CallFrame, CallPlace DEF CallStep, PutPending
<1>3. \E held : held = [dir |-> e, chunks |-> {}]
  OBVIOUS
<1>4. PICK held : held = [dir |-> e, chunks |-> {}]
  BY <1>3
<1>5. held \in Record /\ held # None /\ held.dir = e /\ held.chunks = {}
  <2>1. held \in Record
    BY <1>4 DEF Record
  <2> QED  BY <2>1, <1>4, ConstantsAssumption DEF Record
<1>6. /\ pending' = [pending EXCEPT ![m][f] = held]
      /\ UNCHANGED <<published, meta, publish>> /\ call'[m] = NoCall
  BY <1>1, <1>2, <1>4 DEF PutPending, TypeOK, disk
<1>7. meta[m][e] = f
  BY <1>1, <1>2 DEF CallWrites
<1>8. ~ BeingWritten(m, e)'
  <2>1. publish[m] # NoPublish => DirAt(publish[m].path, publish[m].file) # e
    BY <1>1, <1>2, TwoCallsApart
  <2> QED  BY <2>1, <1>6 DEF BeingWritten
<1>9. \A n \in Node, g \in File :
        pending'[n][g] = IF n = m /\ g = f THEN held ELSE pending[n][g]
  BY <1>1, <1>6 DEF TypeOK
<1>10. Settled(m, f, e)'
  BY <1>2, <1>5, <1>6, <1>7, <1>8, <1>9 DEF Settled
<1>11. GoodPending(m, f, held)'
  BY <1>2, <1>5, <1>10 DEF GoodPending
<1> QED  BY <1>1, <1>9, <1>11, PendingKept

LEMMA CallWritesStep ==
  ASSUME IInv, NEW m \in Node, CallStep(m)
  PROVE  CallWrites'
<1> DEFINE w == call[m]
           v == call'[m]
<1>1. TypeOK /\ CallWrites
  BY DEF IInv, DiskInv
<1>2. /\ w # NoCall /\ w \in CallRecord /\ w.file = w.asked /\ w.file \in File
      /\ CallDir(m) \in Dir
  BY <1>1, CallFrame, CallPlace
<1>3. /\ <<m, w.asked, w.path>> \in Wants
      /\ pending[m][w.asked] = None
      /\ \E n \in Node : published[n][w.file] # None
  BY <1>1, <1>2 DEF CallWrites, CallStep, SaveMetadata, MetadataSaved, PutPending
<1>4. published' = published
  BY CallFrame
<1>5. v # NoCall =>
        /\ <<m, v.asked, v.path>> \in Wants
        /\ pending'[m][v.asked] = None
        /\ v.file = v.asked
        /\ \E n \in Node : published'[n][v.file] # None
        /\ v.pc = "put" => meta'[m][DirAt(v.path, v.file)] = v.file
  <2>1. CASE SaveMetadata(m)
    <3>1. v = [w EXCEPT !.pc = "saving"] /\ pending' = pending
      BY <2>1, <1>1 DEF SaveMetadata, TypeOK, store
    <3> HIDE DEF w, v
    <3>2. v.pc = "saving" /\ v.path = w.path /\ v.file = w.file /\ v.asked = w.asked
      BY <3>1, <1>2 DEF CallRecord
    <3> QED  BY <3>1, <3>2, <1>2, <1>3, <1>4
  <2>2. CASE MetadataSaved(m)
    <3>1. v = [w EXCEPT !.pc = "put"] /\ pending' = pending
      BY <2>2, <1>1 DEF MetadataSaved, TypeOK, store
    <3>2. meta'[m][CallDir(m)] = w.file
      BY <2>2, <1>1, <1>2 DEF MetadataSaved, TypeOK
    <3>3. CallDir(m) = DirAt(w.path, w.file)
      BY DEF CallDir
    <3> HIDE DEF w, v
    <3>4. v.pc = "put" /\ v.path = w.path /\ v.file = w.file /\ v.asked = w.asked
      BY <3>1, <1>2 DEF CallRecord
    <3> QED  BY <3>1, <3>2, <3>3, <3>4, <1>2, <1>3, <1>4
  <2>3. CASE PutPending(m)
    BY <2>3, <1>1 DEF PutPending, TypeOK
  <2> QED  BY <2>1, <2>2, <2>3 DEF CallStep
<1>6. \A n \in Node : n # m =>
        call'[n] = call[n] /\ meta'[n] = meta[n] /\ pending'[n] = pending[n]
  BY <1>1 DEF CallStep, SaveMetadata, MetadataSaved, PutPending, store, disk, TypeOK
<1> HIDE DEF v
<1>7. \A n \in Node : n = m => call'[n] = v
  BY DEF v
<1> QED  BY <1>1, <1>4, <1>5, <1>6, <1>7 DEF CallWrites

LEMMA CallDisk ==
  ASSUME IInv, OneWriterPerDir, NEW m \in Node, CallStep(m)
  PROVE  DiskInv'
<1>1. TypeOK /\ PublishedSettled /\ PendingSettled /\ PublishWrites /\ CallWrites /\ SubtasksFit
  BY DEF IInv, DiskInv
<1>2. UNCHANGED <<published, publish, chunkFile, sub>>
  BY CallFrame
<1>3. SettledStays /\ PublishedStays
  BY CallStays
<1>4. /\ call[m] # NoCall /\ call[m].asked \in File /\ call[m].path \in Path
      /\ DirAt(call[m].path, call[m].asked) \in Dir
      /\ pending[m][call[m].asked] = None
  BY <1>1, CallFrame, CallPlace DEF CallWrites
<1>5. PublishedSettled'
  BY <1>1, <1>2, <1>3, PublishedKept
<1>6. PendingSettled'
  <2>1. CASE PutPending(m)
    BY <2>1, <1>3, <1>4, PutPendingSettles
  <2>2. CASE SaveMetadata(m) \/ MetadataSaved(m)
    <3>1. pending' = pending
      BY <2>2 DEF SaveMetadata, MetadataSaved, store
    <3> QED  BY <3>1, <1>1, <1>3, <1>4, PendingSame
  <2> QED  BY <2>1, <2>2 DEF CallStep
<1>7. PublishWrites'
  <2>1. \A n \in Node, d \in Dir : meta'[n][d] = meta[n][d] \/ (n = m /\ d = CallDir(m))
    BY CallFrame
  <2>2. CallDir(m) = DirAt(call[m].path, call[m].asked)
    BY CallFrame
  <2>3. \A n \in Node : publish[n] # NoPublish =>
          LET d == DirAt(publish[n].path, publish[n].file) IN
          /\ d \in Dir
          /\ n = m => d # CallDir(m)
    BY <1>1, <1>4, <2>2, PublishPlace, TwoCallsApart
  <2>4. \A n \in Node : publish[n] # NoPublish =>
          LET d == DirAt(publish[n].path, publish[n].file) IN
          meta'[n][d] = meta[n][d] /\ chunkFile'[n][d] = chunkFile[n][d]
    BY <2>1, <2>3, <1>2
  <2> QED  BY <2>4, <1>1, <1>2, PublishWritesKept
<1>8. SubtasksFit'
  <2>1. \A n \in Node, f \in File :
          \/ pending'[n][f] = pending[n][f]
          \/ /\ n = m /\ f = call[m].asked
             /\ pending'[n][f] = [dir |-> CallDir(m), chunks |-> {}]
             /\ pending'[n][f] # None
    BY CallFrame
  <2>2. \A n \in Node, f \in File : pending[n][f] # None => pending'[n][f] = pending[n][f]
    BY <2>1, <1>4
  <2> QED  BY <2>2, <1>1, <1>2 DEF SubtasksFit
<1> QED  BY <1>5, <1>6, <1>7, <1>8, CallWritesStep DEF DiskInv

LEMMA RequestMetadataDisk ==
  ASSUME IInv, OneWriterPerDir, NEW m \in Node, NEW g \in File, NEW p \in Path,
         RequestMetadata(m, g, p)
  PROVE  DiskInv'
<1>1. TypeOK /\ PublishedSettled /\ PendingSettled /\ PublishWrites /\ CallWrites /\ SubtasksFit
  BY DEF IInv, DiskInv
<1>2. UNCHANGED <<published, pending, meta, chunkFile, publish, sub>>
  BY DEF RequestMetadata, store, disk
<1>3. SettledStays /\ PublishedStays
  BY RequestMetadataStays
<1>4. PublishedSettled'
  BY <1>1, <1>2, <1>3, PublishedKept
<1>5. PendingSettled'
  BY <1>1, <1>2, <1>3, PendingSame
<1>6. PublishWrites'
  BY <1>1, <1>2, PublishWritesKept
<1>7. CallWrites'
  <2>1. call'[m] = [pc |-> "asked", asked |-> g, path |-> p, file |-> None]
    BY <1>1 DEF RequestMetadata, TypeOK
  <2>2. \A n \in Node : n # m => call'[n] = call[n]
    BY <1>1 DEF RequestMetadata, TypeOK
  <2>3. <<m, g, p>> \in Wants /\ pending[m][g] = None
    BY DEF RequestMetadata
  <2> QED  BY <2>1, <2>2, <2>3, <1>1, <1>2 DEF CallWrites
<1>8. SubtasksFit'
  BY <1>1, <1>2, SubtasksKept
<1> QED  BY <1>4, <1>5, <1>6, <1>7, <1>8 DEF DiskInv

-----------------------------------------------------------------------------
(* The steps of a download.                                                *)

(* A subtask changes neither the records of published files nor a call. *)
LEMMA SubtaskFrame ==
  ASSUME IInv, NEW m \in Node, UNCHANGED <<published, meta, client>>,
         SettledStays, PublishedStays,
         \A n \in Node, d \in Dir :
           chunkFile'[n][d] = chunkFile[n][d] \/ ~ BeingWritten(n, d),
         \A n \in Node, f \in File : pending[n][f] = None => pending'[n][f] = None
  PROVE  PublishedSettled' /\ PublishWrites' /\ CallWrites'
<1>1. TypeOK /\ PublishedSettled /\ PublishWrites /\ CallWrites
  BY DEF IInv, DiskInv
<1>2. PublishedSettled'
  BY <1>1, PublishedKept
<1>3. PublishWrites'
  <2>1. \A n \in Node : publish[n] # NoPublish =>
          LET d == DirAt(publish[n].path, publish[n].file) IN
          d \in Dir /\ BeingWritten(n, d)
    BY <1>1, PublishPlace DEF BeingWritten
  <2>2. \A n \in Node : publish[n] # NoPublish =>
          LET d == DirAt(publish[n].path, publish[n].file) IN
          meta'[n][d] = meta[n][d] /\ chunkFile'[n][d] = chunkFile[n][d]
    BY <2>1
  <2> QED  BY <2>2, <1>1, PublishWritesKept DEF client
<1>4. CallWrites'
  <2>1. \A n \in Node : call[n] # NoCall =>
          /\ call[n].asked \in File
          /\ pending[n][call[n].asked] = None
    BY <1>1, CallPlace DEF CallWrites
  <2>2. \A n \in Node : call[n] # NoCall =>
          LET d == DirAt(call[n].path, call[n].asked) IN
          /\ meta'[n][d] = meta[n][d]
          /\ call[n].asked \in File
          /\ pending'[n][call[n].asked] \in {pending[n][call[n].asked], None}
    BY <2>1
  <2> QED  BY <2>2, <1>1, CallWritesKept DEF client
<1> QED  BY <1>2, <1>3, <1>4

(* A chunk file that the subtask of chunk b of file g writes. *)
LEMMA ChunkFileWritten ==
  ASSUME TypeOK, NEW m \in Node, NEW e \in Dir, NEW b \in Chunk, NEW v \in Content,
         chunkFile' = [chunkFile EXCEPT ![m][e][b] = v]
  PROVE  \A n \in Node, d \in Dir :
           /\ \A c \in Chunk : chunkFile'[n][d][c] =
                IF n = m /\ d = e /\ c = b THEN v ELSE chunkFile[n][d][c]
           /\ ~ (n = m /\ d = e) => chunkFile'[n][d] = chunkFile[n][d]
  BY DEF TypeOK

(* The other subtasks write other chunk files: those of another file lie in
   another directory. *)
LEMMA SubtasksApart ==
  ASSUME IInv, NEW m \in Node, NEW g \in File, NEW b \in Chunk, sub[m][g][b] # "idle",
         NEW e \in Dir, e = pending[m][g].dir, NEW v \in Content,
         \/ chunkFile' = [chunkFile EXCEPT ![m][e][b] = v]
         \/ chunkFile' = chunkFile,
         NEW n \in Node, NEW f \in File, NEW c \in Chunk, sub[n][f][c] # "idle",
         ~ (n = m /\ f = g /\ c = b)
  PROVE  chunkFile'[n][pending[n][f].dir][c] = chunkFile[n][pending[n][f].dir][c]
<1>1. TypeOK
  BY DEF IInv
<1>2. pending[n][f].dir \in Dir /\ meta[n][pending[n][f].dir] = f /\ meta[m][e] = g
  BY SubtaskFile
<1>3. ~ (n = m /\ pending[n][f].dir = e /\ c = b)
  BY <1>2
<1>4. CASE chunkFile' = [chunkFile EXCEPT ![m][e][b] = v]
  <2>1. chunkFile'[n][pending[n][f].dir][c] =
          IF n = m /\ pending[n][f].dir = e /\ c = b
            THEN v ELSE chunkFile[n][pending[n][f].dir][c]
    <3>1. \A d \in Dir : chunkFile'[n][d][c] =
            IF n = m /\ d = e /\ c = b THEN v ELSE chunkFile[n][d][c]
      BY <1>1, <1>4 DEF TypeOK
    <3> QED  BY <3>1, <1>2
  <2> QED  BY <2>1, <1>3
<1>5. CASE chunkFile' = chunkFile
  BY <1>5
<1> QED  BY <1>4, <1>5

LEMMA SubChanges ==
  ASSUME TypeOK, NEW m \in Node, NEW g \in File, NEW b \in Chunk, NEW s, SetSub(m, g, b, s)
  PROVE  \A n \in Node, f \in File, c \in Chunk :
           sub'[n][f][c] = IF n = m /\ f = g /\ c = b THEN s ELSE sub[n][f][c]
  BY DEF TypeOK, SetSub

LEMMA RequestFileChunkDisk ==
  ASSUME IInv, NEW m \in Node, NEW g \in File, NEW b \in Chunk, RequestFileChunk(m, g, b)
  PROVE  DiskInv'
<1>1. TypeOK /\ PendingSettled /\ SubtasksFit
  BY DEF IInv, DiskInv
<1>2. UNCHANGED <<published, pending, meta, chunkFile, client>>
  BY DEF RequestFileChunk, store, disk
<1>3. SettledStays /\ PublishedStays
  BY SubtaskStays DEF Subtask
<1>4. PublishedSettled' /\ PublishWrites' /\ CallWrites'
  BY <1>2, <1>3, SubtaskFrame
<1>5. PendingSettled'
  BY <1>1, <1>2, <1>3, PendingSame
<1>6. SubtasksFit'
  <2>1. \A n \in Node, f \in File, c \in Chunk :
          sub'[n][f][c] = IF n = m /\ f = g /\ c = b THEN "asked" ELSE sub[n][f][c]
    BY <1>1, SubChanges DEF RequestFileChunk
  <2>2. pending[m][g] # None /\ b \in Chunks(g) /\ b \notin pending[m][g].chunks
    BY DEF RequestFileChunk
  <2> QED  BY <2>1, <2>2, <1>1, <1>2 DEF SubtasksFit
<1> QED  BY <1>4, <1>5, <1>6 DEF DiskInv

(* The subtask of a chunk goes on: it may write the chunk's file. *)
LEMMA SubtaskGoesOn ==
  ASSUME IInv, NEW m \in Node, NEW g \in File, NEW b \in Chunk, sub[m][g][b] # "idle",
         NEW e \in Dir, e = pending[m][g].dir, NEW v \in Content, NEW s,
         UNCHANGED <<published, pending, meta, client>>, SettledStays, PublishedStays,
         SetSub(m, g, b, s),
         \/ chunkFile' = [chunkFile EXCEPT ![m][e][b] = v]
         \/ chunkFile' = chunkFile,
         s = "written" => chunkFile'[m][e][b] = g
  PROVE  DiskInv'
<1>1. TypeOK /\ PendingSettled /\ SubtasksFit
  BY DEF IInv, DiskInv
<1>2. pending[m][g] # None /\ b \in Chunks(g) /\ b \notin pending[m][g].chunks
  BY SubtaskFile
<1>3. PublishedSettled' /\ PublishWrites' /\ CallWrites'
  <2>1. ~ BeingWritten(m, e)
    BY <1>1, <1>2, PendingPlace
  <2>2. \A n \in Node, d \in Dir :
          chunkFile'[n][d] = chunkFile[n][d] \/ ~ BeingWritten(n, d)
    BY <2>1, <1>1, ChunkFileWritten
  <2> QED  BY <2>2, SubtaskFrame
<1>4. PendingSettled'
  BY <1>1, PendingSame
<1>5. SubtasksFit'
  <2>1. \A n \in Node, f \in File, c \in Chunk :
          sub'[n][f][c] = IF n = m /\ f = g /\ c = b THEN s ELSE sub[n][f][c]
    BY <1>1, SubChanges
  <2>2. \A n \in Node, f \in File, c \in Chunk :
          sub[n][f][c] # "idle" /\ ~ (n = m /\ f = g /\ c = b) =>
            chunkFile'[n][pending[n][f].dir][c] = chunkFile[n][pending[n][f].dir][c]
    BY SubtasksApart
  <2> QED  BY <2>1, <2>2, <1>1, <1>2 DEF SubtasksFit
<1> QED  BY <1>3, <1>4, <1>5 DEF DiskInv

LEMMA ChunkWrittenDisk ==
  ASSUME IInv, NEW m \in Node, NEW g \in File, NEW b \in Chunk, ChunkWritten(m, g, b)
  PROVE  DiskInv'
<1>1. TypeOK
  BY DEF IInv
<1>2. sub[m][g][b] # "idle" /\ UNCHANGED <<published, pending, meta, client>>
  BY DEF ChunkWritten, store
<1>3. SettledStays /\ PublishedStays
  BY SubtaskStays DEF Subtask
<1>4. PICK e \in Dir : e = pending[m][g].dir
  BY <1>2, SubtaskFile
<1>5. meta[m][e] = g
  BY <1>2, <1>4, SubtaskFile
<1>6. chunkFile' = [chunkFile EXCEPT ![m][e][b] = g] /\ SetSub(m, g, b, "written")
  BY <1>4, <1>5 DEF ChunkWritten
<1>7. g \in Content
  BY DEF Content
<1>8. chunkFile'[m][e][b] = g
  BY <1>1, <1>6 DEF TypeOK
<1> QED  BY <1>2, <1>3, <1>4, <1>6, <1>7, <1>8, SubtaskGoesOn

LEMMA ReceiveChunkDisk ==
  ASSUME IInv, NEW m \in Node, ReceiveChunk(m)
  PROVE  DiskInv'
<1>1. TypeOK
  BY DEF IInv
<1>2. UNCHANGED <<published, pending, meta, client>>
  BY DEF ReceiveChunk, store
<1>3. SettledStays /\ PublishedStays
  BY ReceiveChunkStays
<1>4. PICK g \in File, b \in Chunk : g = Head(inbox[m]).file /\ b = Head(inbox[m]).chunk
  BY <1>1, ReceiveChunkWaited DEF IInv, NetInv
<1>5. sub[m][g][b] # "idle"
  BY <1>1, <1>4, ReceiveChunkWaited DEF IInv, NetInv
<1>6. PICK e \in Dir : e = pending[m][g].dir
  BY <1>5, SubtaskFile
<1>7. \/ chunkFile' = [chunkFile EXCEPT ![m][e][b] = Torn]
      \/ chunkFile' = chunkFile
  BY <1>4, <1>6 DEF ReceiveChunk
<1>8. PICK s \in {"writing", "idle"} : SetSub(m, g, b, s)
  BY <1>4 DEF ReceiveChunk
<1>9. Torn \in Content
  BY DEF Content
<1> QED  BY <1>2, <1>3, <1>5, <1>6, <1>7, <1>8, <1>9, SubtaskGoesOn

LEMMA JoinChunkDisk ==
  ASSUME IInv, NEW m \in Node, NEW g \in File, NEW b \in Chunk, JoinChunk(m, g, b)
  PROVE  DiskInv'
<1>1. TypeOK /\ PendingSettled /\ SubtasksFit
  BY DEF IInv, DiskInv
<1>2. sub[m][g][b] = "written" /\ UNCHANGED <<published, meta, chunkFile, client>>
  BY DEF JoinChunk, disk
<1>3. SettledStays /\ PublishedStays
  BY SubtaskStays DEF Subtask
<1>4. /\ pending[m][g] # None /\ pending[m][g] \in Record
      /\ b \in Chunks(g) /\ b \notin pending[m][g].chunks
      /\ chunkFile[m][pending[m][g].dir][b] = g
  BY <1>1, <1>2, SubtaskFile DEF SubtasksFit
<1>5. PICK held \in Record : held = [pending[m][g] EXCEPT !.chunks = pending[m][g].chunks \cup {b}]
  BY <1>4 DEF Record
<1>6. held.dir = pending[m][g].dir /\ held.chunks = pending[m][g].chunks \cup {b}
  BY <1>4, <1>5 DEF Record
<1>7. held # None
  BY ConstantsAssumption DEF Record
<1>8. \A n \in Node, f \in File :
        pending'[n][f] = IF n = m /\ f = g THEN held ELSE pending[n][f]
  BY <1>1, <1>5 DEF JoinChunk, TypeOK
<1>9. PublishedSettled' /\ PublishWrites' /\ CallWrites'
  <2>1. \A n \in Node, f \in File : pending[n][f] = None => pending'[n][f] = None
    BY <1>4, <1>8
  <2> QED  BY <2>1, <1>2, <1>3, SubtaskFrame
<1>10. PendingSettled'
  <2>1. GoodPending(m, g, pending[m][g])
    BY <1>1, <1>4, PendingIsGood
  <2>2. PICK old \in Record : old = pending[m][g]
    BY <1>4
  <2>3. GoodPending(m, g, old)'
    BY <1>3, <2>1, <2>2, GoodStays
  <2>4. Has(m, g, held.dir, b)'
    BY <1>2, <1>4, <1>6, <1>8 DEF Has
  <2>5. GoodPending(m, g, held)'
    BY <2>2, <2>3, <2>4, <1>4, <1>6 DEF GoodPending
  <2>6. held = pending'[m][g]
    BY <1>8
  <2> QED  BY <2>5, <2>6, <1>1, <1>3, <1>8, PendingKept
<1>11. SubtasksFit'
  <2>1. \A n \in Node, f \in File, c \in Chunk :
          sub'[n][f][c] = IF n = m /\ f = g /\ c = b THEN "idle" ELSE sub[n][f][c]
    BY <1>1, SubChanges DEF JoinChunk
  <2> QED  BY <2>1, <1>1, <1>2, <1>6, <1>7, <1>8 DEF SubtasksFit
<1> QED  BY <1>9, <1>10, <1>11 DEF DiskInv

LEMMA PutPublishedDisk ==
  ASSUME IInv, NEW m \in Node, NEW g \in File, PutPublished(m, g)
  PROVE  DiskInv'
<1>1. TypeOK /\ PublishedSettled /\ PendingSettled /\ PublishWrites /\ CallWrites /\ SubtasksFit
  BY DEF IInv, DiskInv
<1>2. UNCHANGED <<pending, meta, chunkFile, client, sub>>
  BY DEF PutPublished, disk
<1>3. SettledStays /\ PublishedStays
  BY ProcessCompletedStays DEF ProcessCompleted
<1>4. pending[m][g] # None /\ pending[m][g].chunks = Chunks(g)
  BY DEF PutPublished, Downloaded
<1>5. PICK e \in Dir : e = pending[m][g].dir
  BY <1>1, <1>4, PendingPlace
<1>6. Settled(m, g, e) /\ \A c \in Chunks(g) : Has(m, g, e, c)
  BY <1>1, <1>4, <1>5 DEF PendingSettled
<1>7. PublishedSettled'
  <2>1. published' = [published EXCEPT ![m][g] = e]
    BY <1>5 DEF PutPublished
  <2>2. Settled(m, g, e)' /\ \A c \in Chunks(g) : Has(m, g, e, c)'
    BY <1>3, <1>6 DEF SettledStays
  <2> QED  BY <2>1, <2>2, <1>1, <1>3, PublishedGrows
<1>8. PendingSettled'
  BY <1>1, <1>2, <1>3, PendingSame
<1>9. PublishWrites' /\ SubtasksFit'
  BY <1>1, <1>2, PublishWritesKept, SubtasksKept DEF client
<1>10. CallWrites'
  BY <1>1, <1>2, <1>3, CallPlace, CallWritesKept DEF client
<1> QED  BY <1>7, <1>8, <1>9, <1>10 DEF DiskInv

LEMMA DeletePendingDisk ==
  ASSUME IInv, NEW m \in Node, NEW g \in File, DeletePending(m, g)
  PROVE  DiskInv'
<1>1. TypeOK /\ PublishedSettled /\ PendingSettled /\ PublishWrites /\ CallWrites /\ SubtasksFit
  BY DEF IInv, DiskInv
<1>2. UNCHANGED <<published, meta, chunkFile, client, sub>>
  BY DEF DeletePending, disk
<1>3. SettledStays /\ PublishedStays
  BY ProcessCompletedStays DEF ProcessCompleted
<1>4. pending[m][g].chunks = Chunks(g)
  BY DEF DeletePending, Downloaded
<1>5. \A n \in Node, f \in File :
        pending'[n][f] = IF n = m /\ f = g THEN None ELSE pending[n][f]
  BY <1>1 DEF DeletePending, TypeOK
<1>6. PublishedSettled' /\ PublishWrites' /\ CallWrites'
  BY <1>2, <1>3, <1>5, SubtaskFrame
<1>7. PendingSettled'
  <2>1. \A n \in Node, f \in File : pending'[n][f] = pending[n][f] \/ (n = m /\ f = g)
    BY <1>5
  <2>2. pending'[m][g] = None
    BY <1>5
  <2> QED  BY <2>1, <2>2, <1>1, <1>3, PendingKept
<1>8. SubtasksFit'
  <2>1. \A c \in Chunk : sub[m][g][c] = "idle"
    BY <1>1, <1>4 DEF SubtasksFit, TypeOK
  <2> QED  BY <2>1, <1>1, <1>2, <1>5 DEF SubtasksFit
<1> QED  BY <1>6, <1>7, <1>8 DEF DiskInv

-----------------------------------------------------------------------------
(* The steps of the loop, on the disk.                                     *)

LEMMA NetDisk ==
  ASSUME DiskInv, UNCHANGED <<store, disk, client, sub>>
  PROVE  DiskInv'
<1>1. UNCHANGED <<published, pending, meta, chunkFile, publish, call, sub>>
  BY DEF store, disk, client
<1>2. PublishedSettled'
  BY <1>1 DEF DiskInv, PublishedSettled, Settled, Has, BeingWritten
<1>3. PendingSettled'
  BY <1>1 DEF DiskInv, PendingSettled, Settled, Has, BeingWritten
<1>4. PublishWrites' /\ SubtasksFit'
  BY <1>1 DEF DiskInv, PublishWrites, SubtasksFit
<1>5. CallWrites'
  BY <1>1 DEF DiskInv, CallWrites
<1> QED  BY <1>2, <1>3, <1>4, <1>5 DEF DiskInv

(* An answer with another's metadata would be saved as the asked file's. *)
LEMMA ReceiveMetadataDisk ==
  ASSUME IInv, NEW m \in Node, ReceiveMetadata(m)
  PROVE  DiskInv'
<1> DEFINE r == Head(inbox[m])
           w == call[m]
           v == call'[m]
<1>1. TypeOK /\ PublishedSettled /\ PendingSettled /\ PublishWrites /\ CallWrites /\ SubtasksFit
      /\ SomebodyWaits /\ AnswersFit
  BY DEF IInv, DiskInv, NetInv
<1>2. UNCHANGED <<published, pending, meta, chunkFile, publish, sub>>
  BY DEF ReceiveMetadata, store, disk
<1>3. SettledStays /\ PublishedStays
  BY ReceiveMetadataStays
<1>4. PublishedSettled'
  BY <1>1, <1>2, <1>3, PublishedKept
<1>5. PendingSettled'
  BY <1>1, <1>2, <1>3, PendingSame
<1>6. PublishWrites' /\ SubtasksFit'
  BY <1>1, <1>2, PublishWritesKept, SubtasksKept
<1>7. CallWrites'
  <2>1. /\ inbox[m] # <<>> /\ r = inbox[m][1] /\ r \in Response /\ r.kind = "metadata"
        /\ w # NoCall /\ w.pc = "asked" /\ w.asked = r.file
    BY <1>1, ReceiveMetadataWaited
  <2>2. r.is = "response" /\ r.file \in File /\ 1 \in DOMAIN inbox[m]
    BY <2>1, <1>1 DEF Response, TypeOK
  <2>3. /\ r.body \in {r.file, None}
        /\ r.body # None => \E n \in Node : published[n][r.file] # None
    BY <2>1, <2>2, <1>1 DEF AnswersFit
  <2>4. w \in CallRecord
    BY <2>1, <1>1, CallsTyped
  <2>5. \/ v = NoCall
        \/ v = [w EXCEPT !.pc = "save", !.file = r.body] /\ r.body \in File
    BY <1>1 DEF ReceiveMetadata, TypeOK
  <2>6. \A n \in Node : n # m => call'[n] = call[n]
    BY <1>1 DEF ReceiveMetadata, TypeOK
  <2> HIDE DEF r, w, v
  <2>7. v # NoCall =>
          /\ v.pc = "save" /\ v.path = w.path /\ v.asked = w.asked /\ v.file = w.asked
          /\ \E n \in Node : published[n][v.file] # None
    BY <2>1, <2>3, <2>4, <2>5, ConstantsAssumption DEF CallRecord
  <2>8. <<m, w.asked, w.path>> \in Wants /\ pending[m][w.asked] = None
    BY <2>1, <1>1 DEF CallWrites, w
  <2>9. \A n \in Node : n = m => call'[n] = v
    BY DEF v
  <2> QED  BY <2>6, <2>7, <2>8, <2>9, <1>1, <1>2 DEF CallWrites
<1> QED  BY <1>4, <1>5, <1>6, <1>7 DEF DiskInv

-----------------------------------------------------------------------------
(* Messages: what HandlerReads and AnswersFit say of one of them.          *)

GoodHandler(n, h) ==
  /\ h.pc = "pending" => h.dir = None /\ h.request.kind = "chunk"
  /\ h.pc # "pending" => h.dir # None /\ Settled(n, h.request.file, h.dir)
  /\ h.pc # "pending" /\ h.request.kind = "chunk" =>
       Has(n, h.request.file, h.dir, h.request.chunk)
  /\ h.pc = "chunk" => h.request.kind = "chunk"
  /\ h.request.is = "request"
  /\ h.request.kind = "metadata" => published[n][h.request.file] # None

LEMMA HandlersAreGood ==
  HandlerReads <=> \A n \in Node : handler[n] # NoHandler => GoodHandler(n, handler[n])
  BY DEF HandlerReads, GoodHandler

(* The request in a handler is waited for like one in an inbox. *)
LEMMA HandlerPlace ==
  ASSUME IInv, NEW n \in Node, handler[n] # NoHandler
  PROVE  /\ handler[n] \in HandlerRecord /\ GoodHandler(n, handler[n])
         /\ handler[n].request \in Request
         /\ handler[n].request.file \in File /\ handler[n].request.peer \in Node
         /\ handler[n].request.peer # n
         /\ handler[n].request.kind = "chunk" =>
              handler[n].request.chunk \in Chunks(handler[n].request.file)
         /\ 0 \in Places(n) /\ At(n, 0) = handler[n].request
<1> DEFINE r == handler[n].request
<1>1. TypeOK /\ SomebodyWaits /\ HandlerReads /\ SubtasksFit
  BY DEF IInv, DiskInv, NetInv
<1>2. handler[n] \in HandlerRecord /\ r \in Request
  BY <1>1, CallsTyped DEF HandlerRecord
<1>3. /\ r.file \in File /\ r.peer \in Node /\ r.chunk \in Chunk /\ r.is = "request"
  BY <1>2 DEF Request
<1>4. 0 \in Places(n) /\ At(n, 0) = r
  BY DEF Places, At
<1>5. r.peer # n /\ (r.kind = "chunk" => sub[r.peer][r.file][r.chunk] = "asked")
  BY <1>1, <1>3, <1>4 DEF SomebodyWaits, Asker
<1>6. r.kind = "chunk" => r.chunk \in Chunks(r.file)
  BY <1>1, <1>3, <1>5 DEF SubtasksFit
<1> QED  BY <1>1, <1>2, <1>3, <1>4, <1>5, <1>6, HandlersAreGood

LEMMA HandlerStays ==
  ASSUME SettledStays, PublishedStays, NEW n \in Node, NEW h \in HandlerRecord,
         h.request.kind = "chunk" => h.request.chunk \in Chunks(h.request.file),
         GoodHandler(n, h)
  PROVE  GoodHandler(n, h)'
<1>1. PICK f \in File : f = h.request.file
  BY DEF HandlerRecord, Request
<1>2. published[n][f] # None => published'[n][f] # None
  BY DEF PublishedStays
<1>3. h.dir # None => h.dir \in Dir
  BY DEF HandlerRecord
<1>4. h.pc # "pending" => Settled(n, f, h.dir)'
  BY <1>1, <1>3 DEF GoodHandler, SettledStays
<1>5. h.pc # "pending" /\ h.request.kind = "chunk" => Has(n, f, h.dir, h.request.chunk)'
  BY <1>1, <1>3 DEF GoodHandler, SettledStays
<1>6. f' = f /\ h' = h
  OBVIOUS
<1> QED  BY <1>1, <1>2, <1>4, <1>5 DEF GoodHandler

(* All handlers but one are left alone. *)
LEMMA HandlersKept ==
  ASSUME IInv, SettledStays, PublishedStays, NEW m \in Node,
         \A n \in Node : handler'[n] = handler[n] \/ n = m,
         \/ handler'[m] \in {handler[m], NoHandler}
         \/ \E h : h = handler'[m] /\ GoodHandler(m, h)'
  PROVE  HandlerReads'
<1> SUFFICES ASSUME NEW n \in Node, NEW h, handler'[n] # NoHandler, h = handler'[n]
             PROVE  GoodHandler(n, h)'
  BY DEF HandlerReads, GoodHandler
<1>1. CASE handler'[n] = handler[n]
  <2>1. /\ h \in HandlerRecord /\ GoodHandler(n, h)
        /\ h.request.kind = "chunk" => h.request.chunk \in Chunks(h.request.file)
    BY <1>1, HandlerPlace
  <2> QED  BY <2>1, HandlerStays
<1>2. CASE handler'[n] # handler[n]
  BY <1>2
<1> QED  BY <1>1, <1>2

GoodAnswer(r) ==
  r.is = "response" =>
    /\ r.body \in {r.file, None}
    /\ r.kind = "metadata" /\ r.body # None => \E m \in Node : published[m][r.file] # None

LEMMA AnswersAreGood ==
  AnswersFit <=> \A n \in Node : \A i \in DOMAIN inbox[n] : GoodAnswer(inbox[n][i])
  BY DEF AnswersFit, GoodAnswer

(* Every message was there before the step or is a good answer. *)
LEMMA AnswersKept ==
  ASSUME IInv, TypeOK', PublishedStays,
         \A n \in Node : \A i \in DOMAIN inbox'[n] :
           \/ \E j \in DOMAIN inbox[n] : inbox'[n][i] = inbox[n][j]
           \/ \E r : r = inbox'[n][i] /\ GoodAnswer(r)
  PROVE  AnswersFit'
<1> SUFFICES ASSUME NEW n \in Node, NEW i \in DOMAIN inbox'[n], NEW r, r = inbox'[n][i]
             PROVE  GoodAnswer(r)'
  BY DEF AnswersFit, GoodAnswer
<1>1. GoodAnswer(r)
  BY AnswersAreGood DEF IInv, NetInv
<1>2. r.file \in File
  <2>1. inbox'[n] \in Seq(Request \cup Response)
    BY DEF TypeOK
  <2>2. r \in Request \cup Response
    BY <2>1
  <2> QED  BY <2>2 DEF Request, Response
<1>3. r.is = "response" /\ r.kind = "metadata" /\ r.body # None =>
        \E m \in Node : published'[m][r.file] # None
  BY <1>1, <1>2 DEF GoodAnswer, PublishedStays
<1> QED  BY <1>1, <1>3 DEF GoodAnswer

-----------------------------------------------------------------------------
(* Messages: where they go.                                                *)

(* After the step, place i of m holds what place j of n held before it, or the
   answer to that. *)
Comes(m, i, n, j) ==
  /\ Asker(m, At(m, i))' = Asker(n, At(n, j))
  /\ At(m, i)'.kind = At(n, j).kind
  /\ At(m, i)'.file = At(n, j).file
  /\ At(m, i)'.chunk = At(n, j).chunk
  /\ At(m, i)'.is = "request" => m = n /\ At(n, j).is = "request"

(* Who waits for what is there goes on waiting. *)
GoesOnWaiting(n, j) ==
  LET msg == At(n, j)
      k == Asker(n, msg)
  IN
  /\ msg.kind = "metadata" => call'[k] = call[k]
  /\ msg.kind = "chunk" => sub'[k][msg.file][msg.chunk] = sub[k][msg.file][msg.chunk]

LEMMA WaitersKept ==
  ASSUME SomebodyWaits,
         \A m \in Node : \A i \in Places(m)' :
           \E n \in Node : \E j \in Places(n) : Comes(m, i, n, j) /\ GoesOnWaiting(n, j)
  PROVE  SomebodyWaits'
<1> SUFFICES ASSUME NEW m \in Node, NEW i \in Places(m)', NEW msg, NEW k,
                    msg = At(m, i)', k = Asker(m, msg)'
             PROVE  /\ msg.is = "request" => k # m
                    /\ msg.kind = "metadata" => /\ call'[k].pc = "asked"
                                                /\ call'[k].asked = msg.file
                                                /\ msg.chunk = 0
                    /\ msg.kind = "chunk" => sub'[k][msg.file][msg.chunk] = "asked"
  BY DEF SomebodyWaits, Asker
<1>1. PICK n \in Node : \E j \in Places(n) : Comes(m, i, n, j) /\ GoesOnWaiting(n, j)
  OBVIOUS
<1>2. PICK j \in Places(n) : Comes(m, i, n, j) /\ GoesOnWaiting(n, j)
  BY <1>1
<1>3. k = Asker(n, At(n, j))
  BY <1>2 DEF Comes, Asker
<1> QED  BY <1>2, <1>3 DEF Comes, GoesOnWaiting, SomebodyWaits

(* from[m][i] and place[m][i] say where each message comes from. *)
Origins(from, place) ==
  /\ \A m \in Node : \A i \in Places(m)' :
       /\ from[m][i] \in Node /\ place[m][i] \in Places(from[m][i])
       /\ Comes(m, i, from[m][i], place[m][i])
  /\ \A m \in Node, n \in Node : \A i \in Places(m)', j \in Places(n)' :
       from[m][i] = from[n][j] /\ place[m][i] = place[n][j] => m = n /\ i = j

LEMMA AskedOnceKept ==
  ASSUME AskedOnce, NEW from, NEW place, Origins(from, place)
  PROVE  AskedOnce'
<1> SUFFICES ASSUME NEW m \in Node, NEW n \in Node, NEW i \in Places(m)', NEW j \in Places(n)',
                    SameAsked(m, i, n, j)'
             PROVE  m = n /\ i = j
  BY DEF AskedOnce
<1>1. /\ from[m][i] \in Node /\ place[m][i] \in Places(from[m][i])
      /\ Comes(m, i, from[m][i], place[m][i])
  BY DEF Origins
<1>2. /\ from[n][j] \in Node /\ place[n][j] \in Places(from[n][j])
      /\ Comes(n, j, from[n][j], place[n][j])
  BY DEF Origins
<1>3. SameAsked(from[m][i], place[m][i], from[n][j], place[n][j])
  BY <1>1, <1>2 DEF SameAsked, Comes
<1>4. from[m][i] = from[n][j] /\ place[m][i] = place[n][j]
  BY <1>1, <1>2, <1>3 DEF AskedOnce
<1> QED  BY <1>4 DEF Origins

LEMMA PlaceType ==
  ASSUME TypeOK, NEW n \in Node, NEW i \in Places(n)
  PROVE  /\ At(n, i) \in Request \cup Response
         /\ At(n, i).file \in File /\ At(n, i).chunk \in Chunk /\ Asker(n, At(n, i)) \in Node
         /\ At(n, i).kind \in {"metadata", "chunk"}
         /\ i \in Nat
<1>1. inbox[n] \in Seq(Request \cup Response)
  BY DEF TypeOK
<1>2. i \in Nat
  BY <1>1 DEF Places
<1>3. At(n, i) \in Request \cup Response
  <2>1. CASE i = 0
    <3>1. handler[n] # NoHandler
      BY <1>1, <2>1 DEF Places
    <3> QED  BY <2>1, <3>1, CallsTyped DEF At, HandlerRecord
  <2>2. CASE i # 0
    BY <1>1, <2>2 DEF Places, At
  <2> QED  BY <2>1, <2>2
<1> QED  BY <1>2, <1>3 DEF Request, Response, Asker

(* A step that the loop and the swarm take no part in. *)
LEMMA NetKept ==
  ASSUME IInv, UNCHANGED net, SettledStays, PublishedStays,
         \A n \in Node : call[n].pc = "asked" => call'[n] = call[n],
         \A n \in Node, f \in File, c \in Chunk :
           sub[n][f][c] = "asked" => sub'[n][f][c] = "asked"
  PROVE  NetInv'
<1>1. TypeOK /\ AskedOnce /\ SomebodyWaits /\ AnswersFit /\ HandlerReads
  BY DEF IInv, NetInv
<1>2. handler' = handler /\ inbox' = inbox
  BY DEF net
<1>3. \A n \in Node : Places(n)' = Places(n)
  BY <1>2 DEF Places
<1>4. \A n \in Node : \A i \in Places(n) : At(n, i)' = At(n, i)
  BY <1>2 DEF At
<1>5. AskedOnce'
  BY <1>1, <1>3, <1>4 DEF AskedOnce, SameAsked, Asker
<1>6. SomebodyWaits'
  <2>1. \A n \in Node : \A i \in Places(n) :
          /\ At(n, i).file \in File /\ At(n, i).chunk \in Chunk /\ Asker(n, At(n, i)) \in Node
    BY <1>1, PlaceType
  <2> QED  BY <2>1, <1>1, <1>3, <1>4 DEF SomebodyWaits, Asker
<1>7. AnswersFit'
  <2>1. \A n \in Node : \A i \in DOMAIN inbox[n] : inbox[n][i].file \in File
    <3>1. \A n \in Node : inbox[n] \in Seq(Request \cup Response)
      BY <1>1 DEF TypeOK
    <3>2. \A n \in Node : \A i \in DOMAIN inbox[n] : inbox[n][i] \in Request \cup Response
      BY <3>1
    <3> QED  BY <3>2 DEF Request, Response
  <2> QED  BY <2>1, <1>1, <1>2 DEF AnswersFit, PublishedStays
<1>8. HandlerReads'
  <2> SUFFICES ASSUME NEW m \in Node
               PROVE  HandlerReads'
    BY DEF HandlerReads
  <2> QED  BY <1>2, HandlersKept
<1> QED  BY <1>5, <1>6, <1>7, <1>8 DEF NetInv

(* One message more, at the end of an inbox. *)
LEMMA SendPlaces ==
  ASSUME TypeOK, NEW m \in Node, NEW msg \in Request \cup Response, Send(m, msg),
         UNCHANGED handler
  PROVE  /\ \A n \in Node : \A i \in Places(n)' :
              \/ i \in Places(n) /\ At(n, i)' = At(n, i)
              \/ n = m /\ i = Len(inbox[m]) + 1 /\ At(n, i)' = msg
         /\ \A n \in Node : \A i \in DOMAIN inbox'[n] :
              \/ i \in DOMAIN inbox[n] /\ inbox'[n][i] = inbox[n][i]
              \/ n = m /\ i = Len(inbox[m]) + 1 /\ inbox'[n][i] = msg
<1>1. inbox[m] \in Seq(Request \cup Response)
  BY DEF TypeOK
<1>2. /\ inbox'[m] = Append(inbox[m], msg)
      /\ \A n \in Node : n # m => inbox'[n] = inbox[n]
  BY DEF Send, TypeOK
<1>3. \A i \in DOMAIN inbox'[m] :
        \/ i \in DOMAIN inbox[m] /\ inbox'[m][i] = inbox[m][i]
        \/ i = Len(inbox[m]) + 1 /\ inbox'[m][i] = msg
  BY <1>1, <1>2
<1>4. \A n \in Node : \A i \in DOMAIN inbox'[n] :
        \/ i \in DOMAIN inbox[n] /\ inbox'[n][i] = inbox[n][i]
        \/ n = m /\ i = Len(inbox[m]) + 1 /\ inbox'[n][i] = msg
  BY <1>2, <1>3
<1>5. Len(inbox[m]) + 1 # 0
  BY <1>1
<1> QED  BY <1>4, <1>5 DEF Places, At

(* A request of what n has not asked for: it is the only one about it. *)
LEMMA AskedOnceGrows ==
  ASSUME IInv, NEW n \in Node, NEW m \in Node \ {n}, NEW kind \in {"metadata", "chunk"},
         NEW f \in File, NEW c \in Chunk, Ask(n, m, kind, f, c), UNCHANGED handler,
         \A k \in Node : \A i \in Places(k) :
           ~ (/\ Asker(k, At(k, i)) = n /\ At(k, i).kind = kind
              /\ At(k, i).file = f /\ At(k, i).chunk = c)
  PROVE  AskedOnce'
<1> DEFINE msg == [is |-> "request", kind |-> kind, peer |-> n, file |-> f, chunk |-> c]
<1>1. TypeOK /\ AskedOnce
  BY DEF IInv, NetInv
<1>2. msg \in Request /\ Send(m, msg)
  BY DEF Ask, Request
<1>3. \A k \in Node : \A i \in Places(k)' :
        \/ i \in Places(k) /\ At(k, i)' = At(k, i)
        \/ k = m /\ i = Len(inbox[m]) + 1 /\ At(k, i)' = msg
  BY <1>1, <1>2, SendPlaces
<1> SUFFICES ASSUME NEW k \in Node, NEW l \in Node, NEW i \in Places(k)', NEW j \in Places(l)',
                    SameAsked(k, i, l, j)'
             PROVE  k = l /\ i = j
  BY DEF AskedOnce
<1>4. /\ msg.is = "request" /\ msg.peer = n /\ msg.kind = kind /\ msg.file = f /\ msg.chunk = c
  OBVIOUS
<1> HIDE DEF msg
<1>5. i \in Places(k) /\ At(k, i)' = At(k, i) =>
        ~ (/\ Asker(k, At(k, i))' = n /\ At(k, i)'.kind = kind
           /\ At(k, i)'.file = f /\ At(k, i)'.chunk = c)
  BY DEF Asker
<1>6. j \in Places(l) /\ At(l, j)' = At(l, j) =>
        ~ (/\ Asker(l, At(l, j))' = n /\ At(l, j)'.kind = kind
           /\ At(l, j)'.file = f /\ At(l, j)'.chunk = c)
  BY DEF Asker
<1>7. CASE i \in Places(k) /\ At(k, i)' = At(k, i) /\ j \in Places(l) /\ At(l, j)' = At(l, j)
  <2>1. SameAsked(k, i, l, j)
    BY <1>7 DEF SameAsked, Asker
  <2> QED  BY <2>1, <1>1, <1>7 DEF AskedOnce
<1>8. CASE k = m /\ i = Len(inbox[m]) + 1 /\ At(k, i)' = msg
  BY <1>3, <1>4, <1>6, <1>8 DEF SameAsked, Asker
<1>9. CASE l = m /\ j = Len(inbox[m]) + 1 /\ At(l, j)' = msg
  BY <1>3, <1>4, <1>5, <1>9 DEF SameAsked, Asker
<1> QED  BY <1>3, <1>7, <1>8, <1>9

(* A request goes out: whoever waited goes on waiting, and so does the asker. *)
LEMMA AskNet ==
  ASSUME IInv, TypeOK', SettledStays, PublishedStays, NEW n \in Node, NEW m \in Node \ {n},
         NEW kind \in {"metadata", "chunk"}, NEW f \in File, NEW c \in Chunk,
         Ask(n, m, kind, f, c), UNCHANGED handler,
         \A k \in Node : \A i \in Places(k) :
           /\ GoesOnWaiting(k, i)
           /\ ~ (/\ Asker(k, At(k, i)) = n /\ At(k, i).kind = kind
                 /\ At(k, i).file = f /\ At(k, i).chunk = c),
         kind = "metadata" => call'[n].pc = "asked" /\ call'[n].asked = f /\ c = 0,
         kind = "chunk" => sub'[n][f][c] = "asked"
  PROVE  NetInv'
<1>1. TypeOK /\ SomebodyWaits
  BY DEF IInv, NetInv
<1>2. PICK msg \in Request :
        msg = [is |-> "request", kind |-> kind, peer |-> n, file |-> f, chunk |-> c]
  BY DEF Request
<1>3. /\ msg.is = "request" /\ msg.peer = n /\ msg.kind = kind /\ msg.file = f /\ msg.chunk = c
  BY <1>2
<1>4. Send(m, msg)
  BY <1>2 DEF Ask
<1>5. AskedOnce'
  BY AskedOnceGrows
<1>6. SomebodyWaits'
  <2> SUFFICES ASSUME NEW l \in Node, NEW i \in Places(l)', NEW now, NEW k,
                      now = At(l, i)', k = Asker(l, now)
               PROVE  /\ now.is = "request" => k # l
                      /\ now.kind = "metadata" => /\ call'[k].pc = "asked"
                                                  /\ call'[k].asked = now.file
                                                  /\ now.chunk = 0
                      /\ now.kind = "chunk" => sub'[k][now.file][now.chunk] = "asked"
    BY DEF SomebodyWaits, Asker
  <2>1. CASE i \in Places(l) /\ At(l, i)' = At(l, i)
    <3>1. GoesOnWaiting(l, i)
      BY <2>1
    <3> QED  BY <3>1, <2>1, <1>1 DEF SomebodyWaits, GoesOnWaiting
  <2>2. CASE l = m /\ At(l, i)' = msg
    BY <2>2, <1>3 DEF Asker
  <2> QED  BY <2>1, <2>2, <1>1, <1>4, SendPlaces
<1>7. AnswersFit'
  <2>1. GoodAnswer(msg)
    BY <1>3 DEF GoodAnswer
  <2>2. \A k \in Node : \A i \in DOMAIN inbox'[k] :
          \/ i \in DOMAIN inbox[k] /\ inbox'[k][i] = inbox[k][i]
          \/ inbox'[k][i] = msg
    BY <1>1, <1>4, SendPlaces
  <2> QED  BY <2>1, <2>2, AnswersKept
<1>8. HandlerReads'
  BY HandlersKept
<1> QED  BY <1>5, <1>6, <1>7, <1>8 DEF NetInv

LEMMA RequestMetadataNet ==
  ASSUME IInv, OneWriterPerDir, NEW n \in Node, NEW f \in File, NEW p \in Path,
         RequestMetadata(n, f, p)
  PROVE  NetInv'
<1>1. TypeOK /\ SomebodyWaits /\ TypeOK'
  BY RequestMetadataType DEF IInv, NetInv
<1>2. SettledStays /\ PublishedStays
  BY RequestMetadataStays
<1>3. PICK m \in Node \ {n} : Ask(n, m, "metadata", f, 0)
  BY DEF RequestMetadata
<1>4. /\ call'[n] = [pc |-> "asked", asked |-> f, path |-> p, file |-> None]
      /\ \A k \in Node : k # n => call'[k] = call[k]
      /\ UNCHANGED <<handler, sub>> /\ call[n].pc = "idle"
  BY <1>1 DEF RequestMetadata, TypeOK, NoCall
<1>5. \A k \in Node : \A i \in Places(k) :
        /\ GoesOnWaiting(k, i)
        /\ ~ (Asker(k, At(k, i)) = n /\ At(k, i).kind = "metadata")
  BY <1>1, <1>4, PlaceType DEF SomebodyWaits, GoesOnWaiting
<1> QED  BY <1>1, <1>2, <1>3, <1>4, <1>5, ZeroIsChunk, AskNet

LEMMA RequestFileChunkNet ==
  ASSUME IInv, NEW n \in Node, NEW f \in File, NEW c \in Chunk, RequestFileChunk(n, f, c)
  PROVE  NetInv'
<1>1. TypeOK /\ SomebodyWaits /\ TypeOK'
  BY SubtaskType DEF IInv, DiskInv, NetInv, Subtask
<1>2. SettledStays /\ PublishedStays
  BY SubtaskStays DEF Subtask
<1>3. PICK m \in Node \ {n} : Ask(n, m, "chunk", f, c)
  BY DEF RequestFileChunk
<1>4. UNCHANGED <<handler, call>> /\ sub[n][f][c] = "idle"
  BY DEF RequestFileChunk, client
<1>5. \A k \in Node, g \in File, b \in Chunk :
        sub'[k][g][b] = IF k = n /\ g = f /\ b = c THEN "asked" ELSE sub[k][g][b]
  BY <1>1, SubChanges DEF RequestFileChunk
<1>6. \A k \in Node : \A i \in Places(k) :
        /\ GoesOnWaiting(k, i)
        /\ ~ (/\ Asker(k, At(k, i)) = n /\ At(k, i).kind = "chunk"
              /\ At(k, i).file = f /\ At(k, i).chunk = c)
  <2> SUFFICES ASSUME NEW k \in Node, NEW i \in Places(k), NEW msg, NEW l \in Node,
                      msg = At(k, i), l = Asker(k, msg), msg.kind = "chunk"
               PROVE  /\ sub'[l][msg.file][msg.chunk] = sub[l][msg.file][msg.chunk]
                      /\ ~ (l = n /\ msg.file = f /\ msg.chunk = c)
    BY <1>1, <1>4, PlaceType DEF GoesOnWaiting
  <2>1. sub[l][msg.file][msg.chunk] = "asked" /\ msg.file \in File /\ msg.chunk \in Chunk
    BY <1>1, PlaceType DEF SomebodyWaits
  <2> QED  BY <2>1, <1>4, <1>5
<1> QED  BY <1>1, <1>2, <1>3, <1>4, <1>5, <1>6, AskNet

LEMMA TailPlaces ==
  ASSUME NEW S, NEW s \in Seq(S), s # <<>>
  PROVE  \A i \in DOMAIN Tail(s) :
           i \in Nat \ {0} /\ i + 1 \in DOMAIN s /\ i + 1 # 0 /\ Tail(s)[i] = s[i + 1]
<1>1. /\ Tail(s) \in Seq(S) /\ Len(Tail(s)) = Len(s) - 1
      /\ \A i \in 1 .. Len(Tail(s)) : Tail(s)[i] = s[i + 1]
  BY HeadTailProperties
<1>2. DOMAIN Tail(s) = 1 .. Len(Tail(s))
  BY <1>1, LenProperties
<1>3. DOMAIN s = 1 .. Len(s) /\ Len(s) \in Nat
  BY LenProperties
<1> QED  BY <1>1, <1>2, <1>3

(* The loop takes the first message of its inbox, into a handler or not. *)
LEMMA TakePlaces ==
  ASSUME TypeOK, NEW n \in Node, handler[n] = NoHandler, inbox[n] # <<>>,
         inbox' = [inbox EXCEPT ![n] = Tail(@)],
         \A m \in Node : m # n => handler'[m] = handler[m],
         handler'[n] = NoHandler \/ handler'[n].request = Head(inbox[n])
  PROVE  /\ 1 \in Places(n) /\ At(n, 1) = Head(inbox[n])
         /\ \A m \in Node : m # n => \A i \in Places(m)' : i \in Places(m) /\ At(m, i)' = At(m, i)
         /\ \A i \in Places(n)' : /\ i + 1 \in Places(n) /\ At(n, i)' = At(n, i + 1)
                                  /\ handler'[n] = NoHandler => i # 0
         /\ \A m \in Node : \A i \in DOMAIN inbox'[m] :
              \E j \in DOMAIN inbox[m] : inbox'[m][i] = inbox[m][j]
<1>1. inbox[n] \in Seq(Request \cup Response)
  BY DEF TypeOK
<1>2. /\ inbox'[n] = Tail(inbox[n])
      /\ \A m \in Node : m # n => inbox'[m] = inbox[m]
  BY DEF TypeOK
<1>3. 1 \in DOMAIN inbox[n] /\ inbox[n][1] = Head(inbox[n])
  BY <1>1
<1>4. \A i \in DOMAIN inbox'[n] :
        /\ i \in Nat \ {0} /\ i + 1 \in DOMAIN inbox[n] /\ i + 1 # 0
        /\ inbox'[n][i] = inbox[n][i + 1]
  <2>1. \A i \in DOMAIN Tail(inbox[n]) :
          /\ i \in Nat \ {0} /\ i + 1 \in DOMAIN inbox[n] /\ i + 1 # 0
          /\ Tail(inbox[n])[i] = inbox[n][i + 1]
    BY <1>1, TailPlaces
  <2> QED  BY <1>2, <2>1
<1>5. \A m \in Node : m # n => \A i \in Places(m)' : i \in Places(m) /\ At(m, i)' = At(m, i)
  BY <1>2 DEF Places, At
<1>6. \A i \in Places(n)' : /\ i + 1 \in Places(n) /\ At(n, i)' = At(n, i + 1)
                            /\ handler'[n] = NoHandler => i # 0
  <2> SUFFICES ASSUME NEW i \in Places(n)'
               PROVE  /\ i + 1 \in Places(n) /\ At(n, i)' = At(n, i + 1)
                      /\ handler'[n] = NoHandler => i # 0
    OBVIOUS
  <2>1. CASE i \in DOMAIN inbox'[n]
    BY <2>1, <1>4 DEF Places, At
  <2>2. CASE i = 0 /\ handler'[n] # NoHandler
    BY <2>2, <1>3 DEF Places, At
  <2> QED  BY <2>1, <2>2 DEF Places
<1>7. 1 \in Places(n) /\ At(n, 1) = Head(inbox[n])
  BY <1>3 DEF Places, At
<1>8. \A m \in Node : \A i \in DOMAIN inbox'[m] :
        \E j \in DOMAIN inbox[m] : inbox'[m][i] = inbox[m][j]
  BY <1>2, <1>4
<1> QED  BY <1>5, <1>6, <1>7, <1>8

(* A message that stays as it is, wherever on the node. *)
LEMMA SameComes ==
  ASSUME TypeOK, NEW m \in Node, NEW i, NEW j, At(m, i)' = At(m, j)
  PROVE  Comes(m, i, m, j)
  BY DEF Comes, Asker

LEMMA NewPlaces ==
  ASSUME TypeOK'
  PROVE  \A m \in Node : \A i \in Places(m)' : i \in Nat
<1> SUFFICES ASSUME NEW m \in Node, NEW i \in Places(m)'
             PROVE  i \in Nat
  OBVIOUS
<1>1. inbox'[m] \in Seq(Request \cup Response)
  BY DEF TypeOK
<1> QED  BY <1>1 DEF Places

LEMMA TakeAskedOnce ==
  ASSUME IInv, NEW n \in Node, handler[n] = NoHandler, inbox[n] # <<>>,
         inbox' = [inbox EXCEPT ![n] = Tail(@)],
         \A m \in Node : m # n => handler'[m] = handler[m],
         handler'[n] = NoHandler \/ handler'[n].request = Head(inbox[n]),
         TypeOK'
  PROVE  AskedOnce'
<1>1. TypeOK /\ AskedOnce
  BY DEF IInv, NetInv
<1>2. PICK from : from = [m \in Node |-> [i \in Nat |-> m]]
  OBVIOUS
<1>3. PICK place : place = [m \in Node |-> [i \in Nat |-> IF m = n THEN i + 1 ELSE i]]
  OBVIOUS
<1>4. \A m \in Node : \A i \in Places(m)' : i \in Nat
  BY NewPlaces
<1>5. \A m \in Node : \A i \in Places(m)' :
        from[m][i] = m /\ place[m][i] = IF m = n THEN i + 1 ELSE i
  BY <1>2, <1>3, <1>4
<1>6. \A m \in Node : \A i \in Places(m)' :
        place[m][i] \in Places(m) /\ Comes(m, i, m, place[m][i])
  <2>1. \A i \in Places(n)' : i + 1 \in Places(n) /\ At(n, i)' = At(n, i + 1)
    BY <1>1, TakePlaces
  <2>2. \A i \in Places(n)' : i + 1 \in Places(n) /\ Comes(n, i, n, i + 1)
    BY <2>1, <1>1, SameComes
  <2>3. \A m \in Node : m # n => \A i \in Places(m)' : i \in Places(m) /\ Comes(m, i, m, i)
    BY <1>1, TakePlaces, SameComes
  <2> QED  BY <2>2, <2>3, <1>5
<1>7. \A m \in Node, k \in Node : \A i \in Places(m)', j \in Places(k)' :
        from[m][i] = from[k][j] /\ place[m][i] = place[k][j] => m = k /\ i = j
  BY <1>4, <1>5
<1>8. \A m \in Node : \A i \in Places(m)' :
        /\ from[m][i] \in Node /\ place[m][i] \in Places(from[m][i])
        /\ Comes(m, i, from[m][i], place[m][i])
  BY <1>5, <1>6
<1>9. Origins(from, place)
  BY <1>7, <1>8 DEF Origins
<1> QED  BY <1>1, <1>9, AskedOnceKept

(* A request goes into a handler. *)
LEMMA TakeNet ==
  ASSUME IInv, NEW n \in Node, handler[n] = NoHandler, inbox[n] # <<>>,
         inbox' = [inbox EXCEPT ![n] = Tail(@)], UNCHANGED <<store, disk, client, sub>>, TypeOK',
         NEW h \in HandlerRecord, handler' = [handler EXCEPT ![n] = h],
         h.request = Head(inbox[n]), GoodHandler(n, h)
  PROVE  NetInv'
<1>1. TypeOK /\ SomebodyWaits /\ SubtasksFit
  BY DEF IInv, DiskInv, NetInv
<1>2. handler'[n] = h /\ \A m \in Node : m # n => handler'[m] = handler[m]
  BY <1>1 DEF TypeOK
<1>3. SettledStays /\ PublishedStays
  BY NetStays
<1>4. AskedOnce'
  BY <1>2, TakeAskedOnce
<1>5. SomebodyWaits'
  <2>1. \A m \in Node : \A i \in Places(m) : GoesOnWaiting(m, i)
    BY DEF GoesOnWaiting, client
  <2>2. \A m \in Node : \A i \in Places(m)' :
          \E j \in Places(m) : At(m, i)' = At(m, j)
    <3>1. \A i \in Places(n)' : i + 1 \in Places(n) /\ At(n, i)' = At(n, i + 1)
      BY <1>1, <1>2, TakePlaces
    <3>2. \A m \in Node : m # n => \A i \in Places(m)' : i \in Places(m) /\ At(m, i)' = At(m, i)
      BY <1>1, <1>2, TakePlaces
    <3> QED  BY <3>1, <3>2
  <2>3. \A m \in Node : \A i \in Places(m)' :
          \E j \in Places(m) : Comes(m, i, m, j)
    BY <2>2, <1>1, SameComes
  <2> QED  BY <2>1, <2>3, <1>1, WaitersKept
<1>6. AnswersFit'
  BY <1>1, <1>2, <1>3, TakePlaces, AnswersKept
<1>7. h.request.kind = "chunk" => h.request.chunk \in Chunks(h.request.file)
  <2>1. 1 \in Places(n) /\ At(n, 1) = h.request
    BY <1>1, <1>2, TakePlaces
  <2> QED  BY <2>1, <1>1, PlaceType DEF SomebodyWaits, SubtasksFit
<1>8. GoodHandler(n, h)'
  BY <1>3, <1>7, HandlerStays
<1>9. HandlerReads'
  BY <1>2, <1>3, <1>8, HandlersKept
<1> QED  BY <1>4, <1>5, <1>6, <1>9 DEF NetInv

(* The request at place k of n, in the handler or first in the inbox, goes, and
   its answer goes to the node that asked. *)
Answered(n, k, msg, body, rest) ==
  /\ k \in {0, 1} /\ k \in Places(n) /\ At(n, k) = msg
  /\ msg \in Request /\ msg.peer # n
  /\ body \in Content \cup {Error}
  /\ rest \in Seq(Request \cup Response)
  /\ \A i \in DOMAIN rest :
       i \in Nat \ {0} /\ i + k \in DOMAIN inbox[n] /\ rest[i] = inbox[n][i + k]
  /\ Answer(n, msg, body, rest)
  /\ handler'[n] = NoHandler
  /\ \A m \in Node : m # n => handler'[m] = handler[m]

LEMMA AnswerPlaces ==
  ASSUME TypeOK, NEW n \in Node, NEW k, NEW msg, NEW body, NEW rest,
         Answered(n, k, msg, body, rest),
         NEW p \in Node, p = msg.peer, NEW l, l = Len(inbox[p]) + 1,
         NEW reply, reply = Reply(n, msg, body)
  PROVE  /\ \A i \in Places(n)' :
              i \in Nat \ {0} /\ i + k \in Places(n) /\ At(n, i)' = At(n, i + k)
         /\ \A i \in Places(p)' :
              \/ i \in Places(p) /\ i # l /\ At(p, i)' = At(p, i)
              \/ i = l /\ At(p, i)' = reply
         /\ \A m \in Node : m \notin {n, p} =>
              \A i \in Places(m)' : i \in Places(m) /\ At(m, i)' = At(m, i)
         /\ \A m \in Node : \A i \in DOMAIN inbox'[m] :
              \/ \E j \in DOMAIN inbox[m] : inbox'[m][i] = inbox[m][j]
              \/ inbox'[m][i] = reply
<1>1. /\ inbox'[n] = rest
      /\ inbox'[p] = Append(inbox[p], reply)
      /\ \A m \in Node : m \notin {n, p} => inbox'[m] = inbox[m]
  BY AnswerSends DEF Answered
<1>2. inbox[p] \in Seq(Request \cup Response)
  BY DEF TypeOK
<1>3. \A i \in DOMAIN inbox[p] : i \in 1 .. Len(inbox[p]) /\ i # 0 /\ i # l
  BY <1>2
<1>4. \A i \in DOMAIN inbox'[p] :
        \/ i \in DOMAIN inbox[p] /\ inbox'[p][i] = inbox[p][i]
        \/ i = l /\ inbox'[p][i] = reply
  BY <1>1, <1>2
<1>5. l # 0
  BY <1>2
<1>6. \A i \in Places(n)' :
        i \in Nat \ {0} /\ i + k \in Places(n) /\ At(n, i)' = At(n, i + k)
  <2> SUFFICES ASSUME NEW i \in Places(n)'
               PROVE  i \in Nat \ {0} /\ i + k \in Places(n) /\ At(n, i)' = At(n, i + k)
    OBVIOUS
  <2>1. i \in DOMAIN rest
    BY <1>1 DEF Places, Answered
  <2>2. i \in Nat \ {0} /\ i + k \in DOMAIN inbox[n] /\ rest[i] = inbox[n][i + k]
    BY <2>1 DEF Answered
  <2>3. i + k # 0
    BY <2>2 DEF Answered
  <2> QED  BY <2>2, <2>3, <1>1 DEF Places, At
<1>7. \A i \in Places(p)' :
        \/ i \in Places(p) /\ i # l /\ At(p, i)' = At(p, i)
        \/ i = l /\ At(p, i)' = reply
  BY <1>3, <1>4, <1>5 DEF Places, At, Answered
<1>8. \A m \in Node : m \notin {n, p} =>
        \A i \in Places(m)' : i \in Places(m) /\ At(m, i)' = At(m, i)
  BY <1>1 DEF Places, At, Answered
<1>9. \A m \in Node : \A i \in DOMAIN inbox'[m] :
        \/ \E j \in DOMAIN inbox[m] : inbox'[m][i] = inbox[m][j]
        \/ inbox'[m][i] = reply
  <2>1. \A i \in DOMAIN inbox'[n] : \E j \in DOMAIN inbox[n] : inbox'[n][i] = inbox[n][j]
    BY <1>1 DEF Answered
  <2> QED  BY <2>1, <1>1, <1>4
<1> QED  BY <1>6, <1>7, <1>8, <1>9

LEMMA AnswerComes ==
  ASSUME TypeOK, NEW n \in Node, NEW k, NEW msg, NEW body, NEW rest,
         Answered(n, k, msg, body, rest),
         NEW p \in Node, p = msg.peer, NEW l, l = Len(inbox[p]) + 1
  PROVE  /\ \A i \in Places(n)' :
              i \in Nat \ {0} /\ i + k \in Places(n) /\ Comes(n, i, n, i + k)
         /\ \A i \in Places(p)' :
              \/ i \in Places(p) /\ i # l /\ Comes(p, i, p, i)
              \/ i = l /\ k \in Places(n) /\ Comes(p, i, n, k)
         /\ \A m \in Node : m \notin {n, p} =>
              \A i \in Places(m)' : i \in Places(m) /\ Comes(m, i, m, i)
<1>1. PICK reply : reply = Reply(n, msg, body)
  OBVIOUS
<1>2. /\ reply.is = "response" /\ reply.kind = msg.kind
      /\ reply.file = msg.file /\ reply.chunk = msg.chunk
  BY <1>1 DEF Reply
<1>3. /\ k \in Places(n) /\ At(n, k) = msg /\ msg.is = "request"
  BY DEF Answered, Request
<1>4. \A i \in Places(n)' :
        i \in Nat \ {0} /\ i + k \in Places(n) /\ At(n, i)' = At(n, i + k)
  BY <1>1, AnswerPlaces
<1>5. \A i \in Places(p)' :
        \/ i \in Places(p) /\ i # l /\ At(p, i)' = At(p, i)
        \/ i = l /\ At(p, i)' = reply
  BY <1>1, AnswerPlaces
<1>6. \A m \in Node : m \notin {n, p} =>
        \A i \in Places(m)' : i \in Places(m) /\ At(m, i)' = At(m, i)
  BY <1>1, AnswerPlaces
<1>7. ASSUME NEW i, At(p, i)' = reply
      PROVE  Comes(p, i, n, k)
  BY <1>2, <1>3, <1>7 DEF Comes, Asker
<1>8. \A i \in Places(n)' :
        i \in Nat \ {0} /\ i + k \in Places(n) /\ Comes(n, i, n, i + k)
  BY <1>4, SameComes
<1>9. \A i \in Places(p)' :
        \/ i \in Places(p) /\ i # l /\ Comes(p, i, p, i)
        \/ i = l /\ k \in Places(n) /\ Comes(p, i, n, k)
  BY <1>3, <1>5, <1>7, SameComes
<1>10. \A m \in Node : m \notin {n, p} =>
         \A i \in Places(m)' : i \in Places(m) /\ Comes(m, i, m, i)
  BY <1>6, SameComes
<1> QED  BY <1>8, <1>9, <1>10

LEMMA AnswerAskedOnce ==
  ASSUME IInv, TypeOK', NEW n \in Node, NEW k, NEW msg, NEW body, NEW rest,
         Answered(n, k, msg, body, rest)
  PROVE  AskedOnce'
<1>1. TypeOK /\ AskedOnce
  BY DEF IInv, NetInv
<1>2. PICK p \in Node : p = msg.peer /\ p # n
  BY DEF Answered, Request
<1>3. PICK l : l = Len(inbox[p]) + 1
  OBVIOUS
<1>4. PICK from : from = [m \in Node |-> [i \in Nat |-> IF m = p /\ i = l THEN n ELSE m]]
  OBVIOUS
<1>5. PICK place : place = [m \in Node |-> [i \in Nat |->
                     IF m = p /\ i = l THEN k ELSE IF m = n THEN i + k ELSE i]]
  OBVIOUS
<1>6. \A m \in Node : \A i \in Places(m)' : i \in Nat
  BY NewPlaces
<1>7. \A m \in Node : \A i \in Places(m)' :
        /\ from[m][i] = IF m = p /\ i = l THEN n ELSE m
        /\ place[m][i] = IF m = p /\ i = l THEN k ELSE IF m = n THEN i + k ELSE i
  BY <1>4, <1>5, <1>6
<1>8. \A i \in Places(n)' :
        i \in Nat \ {0} /\ i + k \in Places(n) /\ Comes(n, i, n, i + k)
  BY <1>1, <1>2, <1>3, AnswerComes
<1>9. \A i \in Places(p)' :
        \/ i \in Places(p) /\ i # l /\ Comes(p, i, p, i)
        \/ i = l /\ k \in Places(n) /\ Comes(p, i, n, k)
  BY <1>1, <1>2, <1>3, AnswerComes
<1>10. \A m \in Node : m \notin {n, p} =>
         \A i \in Places(m)' : i \in Places(m) /\ Comes(m, i, m, i)
  BY <1>1, <1>2, <1>3, AnswerComes
<1>11. \A m \in Node : \A i \in Places(m)' :
         /\ from[m][i] \in Node /\ place[m][i] \in Places(from[m][i])
         /\ Comes(m, i, from[m][i], place[m][i])
  <2> SUFFICES ASSUME NEW m \in Node, NEW i \in Places(m)'
               PROVE  /\ from[m][i] \in Node /\ place[m][i] \in Places(from[m][i])
                      /\ Comes(m, i, from[m][i], place[m][i])
    OBVIOUS
  <2>1. CASE m = n
    <3>1. from[n][i] = n /\ place[n][i] = i + k
      BY <2>1, <1>2, <1>7
    <3> QED  BY <3>1, <2>1, <1>8
  <2>2. CASE m = p
    <3>1. /\ i = l => from[p][i] = n /\ place[p][i] = k
          /\ i # l => from[p][i] = p /\ place[p][i] = i
      BY <2>2, <1>2, <1>7
    <3> QED  BY <3>1, <2>2, <1>9
  <2>3. CASE m \notin {n, p}
    <3>1. from[m][i] = m /\ place[m][i] = i
      BY <2>3, <1>7
    <3> QED  BY <3>1, <2>3, <1>10
  <2> QED  BY <2>1, <2>2, <2>3
<1>12. \A m \in Node, q \in Node : \A i \in Places(m)', j \in Places(q)' :
         from[m][i] = from[q][j] /\ place[m][i] = place[q][j] => m = q /\ i = j
  <2>1. k \in {0, 1}
    BY DEF Answered
  <2>2. \A i \in Places(n)' : i \in Nat \ {0}
    BY <1>8
  <2> QED  BY <2>1, <2>2, <1>2, <1>6, <1>7
<1>13. Origins(from, place)
  BY <1>11, <1>12 DEF Origins
<1> QED  BY <1>1, <1>13, AskedOnceKept

LEMMA AnswerNet ==
  ASSUME IInv, TypeOK', UNCHANGED <<store, disk, client, sub>>,
         NEW n \in Node, NEW k, NEW msg, NEW body, NEW rest,
         Answered(n, k, msg, body, rest),
         NEW reply, reply = Reply(n, msg, body), GoodAnswer(reply)
  PROVE  NetInv'
<1>1. TypeOK /\ SomebodyWaits
  BY DEF IInv, NetInv
<1>2. PICK p \in Node : p = msg.peer /\ p # n
  BY DEF Answered, Request
<1>3. PICK l : l = Len(inbox[p]) + 1
  OBVIOUS
<1>4. SettledStays /\ PublishedStays
  BY NetStays
<1>5. AskedOnce'
  BY AnswerAskedOnce
<1>6. SomebodyWaits'
  <2>1. \A m \in Node : \A i \in Places(m) : GoesOnWaiting(m, i)
    BY DEF GoesOnWaiting, client
  <2>2. \A i \in Places(n)' : i + k \in Places(n) /\ Comes(n, i, n, i + k)
    BY <1>1, <1>2, <1>3, AnswerComes
  <2>3. \A i \in Places(p)' :
          \/ i \in Places(p) /\ Comes(p, i, p, i)
          \/ k \in Places(n) /\ Comes(p, i, n, k)
    BY <1>1, <1>2, <1>3, AnswerComes, SMTT(30)
  <2>4. \A m \in Node : m \notin {n, p} =>
          \A i \in Places(m)' : i \in Places(m) /\ Comes(m, i, m, i)
    BY <1>1, <1>2, <1>3, AnswerComes
  <2>5. \A m \in Node : \A i \in Places(m)' :
          \E q \in Node : \E j \in Places(q) : Comes(m, i, q, j)
    BY <2>2, <2>3, <2>4
  <2> QED  BY <2>1, <2>5, <1>1, WaitersKept
<1>7. AnswersFit'
  <2>1. \A m \in Node : \A i \in DOMAIN inbox'[m] :
          \/ \E j \in DOMAIN inbox[m] : inbox'[m][i] = inbox[m][j]
          \/ inbox'[m][i] = reply
    BY <1>1, <1>2, <1>3, AnswerPlaces
  <2> QED  BY <2>1, <1>4, AnswersKept
<1>8. HandlerReads'
  <2>1. handler'[n] = NoHandler /\ \A m \in Node : handler'[m] = handler[m] \/ m = n
    BY DEF Answered
  <2> QED  BY <2>1, <1>4, HandlersKept
<1> QED  BY <1>5, <1>6, <1>7, <1>8 DEF NetInv

-----------------------------------------------------------------------------
(* The steps of the loop, on the messages.                                 *)

(* The loop takes an answer: whoever waits for another message goes on. *)
LEMMA ReceiveNet ==
  ASSUME IInv, TypeOK', NEW n \in Node, handler[n] = NoHandler, inbox[n] # <<>>,
         inbox' = [inbox EXCEPT ![n] = Tail(@)], UNCHANGED handler,
         SettledStays, PublishedStays,
         \A m \in Node : \A j \in Places(m) : ~ (m = n /\ j = 1) => GoesOnWaiting(m, j)
  PROVE  NetInv'
<1>1. TypeOK /\ SomebodyWaits
  BY DEF IInv, NetInv
<1>2. AskedOnce'
  BY TakeAskedOnce
<1>3. SomebodyWaits'
  <2>1. \A i \in Places(n)' : /\ i + 1 \in Places(n) /\ At(n, i)' = At(n, i + 1)
                              /\ handler'[n] = NoHandler => i # 0
    BY <1>1, TakePlaces
  <2>2. \A m \in Node : m # n => \A i \in Places(m)' : i \in Places(m) /\ At(m, i)' = At(m, i)
    BY <1>1, TakePlaces
  <2>3. \A i \in Places(n)' : i + 1 # 1
    BY <2>1, NewPlaces
  <2>4. \A i \in Places(n)' :
          i + 1 \in Places(n) /\ Comes(n, i, n, i + 1) /\ GoesOnWaiting(n, i + 1)
    BY <2>1, <2>3, <1>1, SameComes
  <2>5. \A m \in Node : m # n =>
          \A i \in Places(m)' : i \in Places(m) /\ Comes(m, i, m, i) /\ GoesOnWaiting(m, i)
    BY <2>2, <1>1, SameComes
  <2>6. \A m \in Node : \A i \in Places(m)' :
          \E k \in Node : \E j \in Places(k) : Comes(m, i, k, j) /\ GoesOnWaiting(k, j)
    BY <2>4, <2>5
  <2> QED  BY <2>6, <1>1, WaitersKept
<1>4. AnswersFit'
  <2>1. \A m \in Node : \A i \in DOMAIN inbox'[m] :
          \E j \in DOMAIN inbox[m] : inbox'[m][i] = inbox[m][j]
    BY <1>1, TakePlaces
  <2> QED  BY <2>1, AnswersKept
<1>5. HandlerReads'
  BY HandlersKept
<1> QED  BY <1>2, <1>3, <1>4, <1>5 DEF NetInv

(* The first message of an inbox is the only one about what it is about. *)
LEMMA FirstAlone ==
  ASSUME IInv, NEW n \in Node, NEW r, r = inbox[n][1], inbox[n] # <<>>, r.is = "response",
         NEW m \in Node, NEW j \in Places(m), ~ (m = n /\ j = 1)
  PROVE  ~ (/\ Asker(m, At(m, j)) = n /\ At(m, j).kind = r.kind
            /\ At(m, j).file = r.file /\ At(m, j).chunk = r.chunk)
<1>1. AskedOnce /\ inbox[n] \in Seq(Request \cup Response)
  BY DEF IInv, NetInv, TypeOK
<1>2. 1 \in Places(n) /\ At(n, 1) = r
  BY <1>1 DEF Places, At
<1>3. ~ SameAsked(m, j, n, 1)
  BY <1>1, <1>2 DEF AskedOnce
<1> QED  BY <1>2, <1>3 DEF SameAsked, Asker

LEMMA ReceiveMetadataNet ==
  ASSUME IInv, NEW n \in Node, ReceiveMetadata(n)
  PROVE  NetInv'
<1>1. TypeOK /\ SomebodyWaits /\ TypeOK'
  BY ReceiveMetadataType DEF IInv, NetInv
<1>2. SettledStays /\ PublishedStays
  BY ReceiveMetadataStays
<1>3. PICK r : r = Head(inbox[n])
  OBVIOUS
<1>4. /\ handler[n] = NoHandler /\ inbox[n] # <<>>
      /\ r = inbox[n][1] /\ r \in Response /\ r.kind = "metadata"
      /\ call[n].pc = "asked" /\ call[n].asked = r.file
  BY <1>1, <1>3, ReceiveMetadataWaited
<1>5. r.is = "response"
  BY <1>4 DEF Response
<1>6. r.chunk = 0
  <2>1. 1 \in Places(n) /\ At(n, 1) = r
    BY <1>1, <1>4 DEF Places, At, TypeOK
  <2> QED  BY <2>1, <1>1, <1>4 DEF SomebodyWaits
<1>7. /\ inbox' = [inbox EXCEPT ![n] = Tail(@)] /\ UNCHANGED <<handler, sub>>
      /\ \A m \in Node : m # n => call'[m] = call[m]
  BY <1>1 DEF ReceiveMetadata, TypeOK
<1>8. ASSUME NEW m \in Node, NEW j \in Places(m), ~ (m = n /\ j = 1)
      PROVE  GoesOnWaiting(m, j)
  <2>1. PICK k \in Node : k = Asker(m, At(m, j))
    BY <1>1, PlaceType
  <2>2. ~ (k = n /\ At(m, j).kind = "metadata")
    <3>1. ~ (/\ k = n /\ At(m, j).kind = r.kind
             /\ At(m, j).file = r.file /\ At(m, j).chunk = r.chunk)
      BY <1>4, <1>5, <1>8, <2>1, FirstAlone
    <3> QED  BY <3>1, <2>1, <1>1, <1>4, <1>6 DEF SomebodyWaits
  <2> QED  BY <2>1, <2>2, <1>7 DEF GoesOnWaiting
<1> QED  BY <1>1, <1>2, <1>4, <1>7, <1>8, ReceiveNet

LEMMA ReceiveChunkNet ==
  ASSUME IInv, NEW n \in Node, ReceiveChunk(n)
  PROVE  NetInv'
<1>1. TypeOK /\ TypeOK'
  BY ReceiveChunkType DEF IInv, NetInv, DiskInv
<1>2. SettledStays /\ PublishedStays
  BY ReceiveChunkStays
<1>3. PICK r : r = Head(inbox[n])
  OBVIOUS
<1>4. /\ handler[n] = NoHandler /\ inbox[n] # <<>>
      /\ r = inbox[n][1] /\ r \in Response /\ r.kind = "chunk"
      /\ r.file \in File /\ r.chunk \in Chunk
  BY <1>1, <1>3, ReceiveChunkWaited DEF IInv, NetInv
<1>5. r.is = "response"
  BY <1>4 DEF Response
<1>6. inbox' = [inbox EXCEPT ![n] = Tail(@)] /\ UNCHANGED <<handler, call>>
  BY DEF ReceiveChunk, client
<1>7. PICK s : SetSub(n, r.file, r.chunk, s)
  BY <1>3 DEF ReceiveChunk
<1>8. ASSUME NEW m \in Node, NEW j \in Places(m), ~ (m = n /\ j = 1)
      PROVE  GoesOnWaiting(m, j)
  <2>1. PICK k \in Node, g \in File, b \in Chunk :
          k = Asker(m, At(m, j)) /\ g = At(m, j).file /\ b = At(m, j).chunk
    BY <1>1, PlaceType
  <2>2. At(m, j).kind = "chunk" => ~ (k = n /\ g = r.file /\ b = r.chunk)
    BY <1>4, <1>5, <1>8, <2>1, FirstAlone
  <2>3. At(m, j).kind = "chunk" => sub'[k][g][b] = sub[k][g][b]
    BY <2>2, <1>1, <1>4, <1>7, SubChanges
  <2> QED  BY <2>1, <2>3, <1>6 DEF GoesOnWaiting
<1> QED  BY <1>1, <1>2, <1>4, <1>6, <1>8, ReceiveNet

(* A request comes into its handler, which will read what its record names. *)
LEMMA TakeRequestNet ==
  ASSUME IInv, NEW n \in Node, TakeMetadataRequest(n) \/ TakeChunkRequest(n)
  PROVE  NetInv'
<1>1. TypeOK /\ SomebodyWaits /\ SubtasksFit /\ PublishedSettled /\ TypeOK'
  BY TakeRequestType DEF IInv, DiskInv, NetInv
<1>2. PICK r : r = Head(inbox[n])
  OBVIOUS
<1>3. /\ handler[n] = NoHandler /\ inbox[n] # <<>> /\ r.is = "request"
      /\ TakeMetadataRequest(n) => r.kind = "metadata"
      /\ TakeChunkRequest(n) => r.kind = "chunk"
  BY <1>2 DEF TakeMetadataRequest, TakeChunkRequest, Take
<1>4. r \in Request /\ Tail(inbox[n]) \in Seq(Request \cup Response) /\ r = inbox[n][1]
  BY <1>1, <1>2, <1>3, HeadType
<1>5. r.file \in File /\ r.peer \in Node /\ r.chunk \in Chunk
  BY <1>4 DEF Request
<1>6. PICK d \in Dir \cup {None} : d = published[n][r.file]
  BY <1>1, <1>5 DEF TypeOK
<1>7. 1 \in Places(n) /\ At(n, 1) = r
  BY <1>1, <1>3, <1>4 DEF Places, At, TypeOK
<1>8. r.peer # n /\ (r.kind = "chunk" => r.chunk \in Chunks(r.file))
  BY <1>1, <1>3, <1>5, <1>7 DEF SomebodyWaits, SubtasksFit, Asker
<1>9. UNCHANGED <<store, disk, client, sub>>
  BY DEF TakeMetadataRequest, TakeChunkRequest
<1>10. d # None => /\ Settled(n, r.file, d)
                   /\ r.kind = "chunk" => Has(n, r.file, d, r.chunk)
  BY <1>1, <1>5, <1>6, <1>8 DEF PublishedSettled
<1>11. ASSUME NEW pc \in {"pending", "metadata"},
              pc = IF d # None THEN "metadata" ELSE "pending",
              pc = "pending" => r.kind = "chunk",
              Handle(n, [pc |-> pc, request |-> r, dir |-> d]),
              inbox' = [inbox EXCEPT ![n] = Tail(@)]
       PROVE  NetInv'
  <2>1. PICK h \in HandlerRecord : h = [pc |-> pc, request |-> r, dir |-> d]
    BY <1>4 DEF HandlerRecord
  <2>2. h.pc = pc /\ h.request = r /\ h.dir = d
    BY <2>1
  <2>3. GoodHandler(n, h)
    BY <2>2, <1>3, <1>6, <1>10, <1>11 DEF GoodHandler
  <2>4. handler' = [handler EXCEPT ![n] = h]
    BY <2>1, <1>11 DEF Handle
  <2> QED  BY <2>2, <2>3, <2>4, <1>1, <1>2, <1>3, <1>9, <1>11, TakeNet
<1>12. CASE TakeChunkRequest(n)
  <2>1. Handle(n, [pc |-> IF d # None THEN "metadata" ELSE "pending", request |-> r, dir |-> d])
    BY <1>2, <1>6, <1>12 DEF TakeChunkRequest
  <2>2. inbox' = [inbox EXCEPT ![n] = Tail(@)]
    BY <1>12 DEF TakeChunkRequest
  <2> QED  BY <2>1, <2>2, <1>3, <1>11, <1>12
<1>13. CASE TakeMetadataRequest(n)
  <2>1. CASE /\ d # None
             /\ Handle(n, [pc |-> "metadata", request |-> r, dir |-> d])
             /\ inbox' = [inbox EXCEPT ![n] = Tail(@)]
    BY <2>1, <1>11
  <2>2. CASE Answer(n, r, None, Tail(inbox[n])) /\ UNCHANGED handler
    <3>1. PICK rest : rest = Tail(inbox[n])
      OBVIOUS
    <3>2. PICK reply : reply = Reply(n, r, None)
      OBVIOUS
    <3>3. GoodAnswer(reply)
      BY <3>2 DEF GoodAnswer, Reply
    <3>4. \A i \in DOMAIN rest :
            i \in Nat \ {0} /\ i + 1 \in DOMAIN inbox[n] /\ rest[i] = inbox[n][i + 1]
      BY <3>1, <1>1, <1>3, TailPlaces DEF TypeOK
    <3>5. Answered(n, 1, r, None, rest)
      BY <3>1, <3>4, <2>2, <1>3, <1>4, <1>7, <1>8 DEF Answered, Content
    <3> QED  BY <3>2, <3>3, <3>5, <1>1, <1>9, AnswerNet
  <2> QED  BY <2>1, <2>2, <1>2, <1>6, <1>13 DEF TakeMetadataRequest
<1> QED  BY <1>12, <1>13

(* The handler of a request looks on. *)
LEMMA HandlerGoesOn ==
  ASSUME IInv, UNCHANGED <<store, disk, client, sub, inbox>>,
         NEW n \in Node, handler[n] # NoHandler,
         NEW h \in HandlerRecord, h.request = handler[n].request,
         handler' = [handler EXCEPT ![n] = h], GoodHandler(n, h)
  PROVE  NetInv'
<1>1. TypeOK /\ AskedOnce /\ SomebodyWaits /\ AnswersFit
  BY DEF IInv, NetInv
<1>2. handler'[n] = h /\ \A m \in Node : m # n => handler'[m] = handler[m]
  BY <1>1 DEF TypeOK
<1>3. h # NoHandler
  BY DEF HandlerRecord, NoHandler
<1>4. \A m \in Node : Places(m)' = Places(m)
  BY <1>2, <1>3 DEF Places
<1>5. \A m \in Node : \A i \in Places(m) : At(m, i)' = At(m, i)
  BY <1>2 DEF At
<1>6. AskedOnce'
  BY <1>1, <1>4, <1>5 DEF AskedOnce, SameAsked, Asker
<1>7. SomebodyWaits'
  <2>1. call' = call /\ sub' = sub
    BY DEF client
  <2> QED  BY <2>1, <1>1, <1>4, <1>5 DEF SomebodyWaits, Asker
<1>8. AnswersFit'
  <2>1. published' = published /\ inbox' = inbox
    BY DEF store
  <2> QED  BY <2>1, <1>1 DEF AnswersFit
<1>9. HandlerReads'
  <2>1. SettledStays /\ PublishedStays
    BY NetStays
  <2>2. h.request.kind = "chunk" => h.request.chunk \in Chunks(h.request.file)
    BY HandlerPlace
  <2>3. GoodHandler(n, h)'
    BY <2>1, <2>2, HandlerStays
  <2> QED  BY <2>1, <2>3, <1>2, HandlersKept
<1> QED  BY <1>6, <1>7, <1>8, <1>9 DEF NetInv

LEMMA RespondNet ==
  ASSUME IInv, TypeOK', UNCHANGED <<store, disk, client, sub>>,
         NEW n \in Node, handler[n] # NoHandler,
         NEW body \in Content \cup {Error}, Respond(n, body),
         body \in {handler[n].request.file, None}
  PROVE  NetInv'
<1>1. TypeOK
  BY DEF IInv
<1>2. PICK r \in Request : r = handler[n].request
  BY HandlerPlace
<1>3. /\ r.file \in File /\ r.peer # n /\ 0 \in Places(n) /\ At(n, 0) = r
      /\ GoodHandler(n, handler[n])
  BY <1>2, HandlerPlace
<1>4. PICK reply : reply = Reply(n, r, body)
  OBVIOUS
<1>5. GoodAnswer(reply)
  BY <1>2, <1>3, <1>4 DEF GoodAnswer, GoodHandler, Reply
<1>6. PICK rest \in Seq(Request \cup Response) : rest = inbox[n]
  BY <1>1 DEF TypeOK
<1>7. \A i \in DOMAIN rest :
        i \in Nat \ {0} /\ i + 0 \in DOMAIN inbox[n] /\ rest[i] = inbox[n][i + 0]
  <2>1. \A i \in DOMAIN rest : i \in Nat \ {0} /\ i + 0 = i
    BY <1>6
  <2> QED  BY <2>1, <1>6
<1>8. Answer(n, r, body, rest) /\ handler' = [handler EXCEPT ![n] = NoHandler]
  BY <1>2, <1>6 DEF Respond, Handle
<1>9. handler'[n] = NoHandler /\ \A m \in Node : m # n => handler'[m] = handler[m]
  BY <1>1, <1>8 DEF TypeOK
<1>10. Answered(n, 0, r, body, rest)
  BY <1>3, <1>7, <1>8, <1>9 DEF Answered
<1> QED  BY <1>4, <1>5, <1>10, AnswerNet

LEMMA LookUpPendingNet ==
  ASSUME IInv, NEW n \in Node, LookUpPending(n)
  PROVE  NetInv'
<1>1. TypeOK /\ PendingSettled /\ TypeOK'
  BY HandlerStepType DEF IInv, DiskInv, NetInv
<1>2. UNCHANGED <<store, disk, client, sub>> /\ handler[n].pc = "pending"
  BY DEF LookUpPending
<1>3. handler[n] # NoHandler
  BY <1>2 DEF NoHandler
<1>4. PICK g \in HandlerRecord, r \in Request : g = handler[n] /\ r = g.request
  BY <1>3, HandlerPlace
<1>5. /\ r.file \in File /\ r.is = "request" /\ r.kind = "chunk"
  BY <1>2, <1>3, <1>4, HandlerPlace DEF GoodHandler, Request
<1>6. CASE Respond(n, None)
  BY <1>1, <1>2, <1>3, <1>6, RespondNet DEF Content
<1>7. CASE /\ pending[n][r.file] # None /\ r.chunk \in pending[n][r.file].chunks
           /\ Handle(n, [g EXCEPT !.pc = "metadata", !.dir = pending[n][r.file].dir])
           /\ UNCHANGED inbox
  <2>1. PICK d \in Dir : d = pending[n][r.file].dir
    BY <1>1, <1>5, <1>7, PendingPlace
  <2>2. Settled(n, r.file, d) /\ Has(n, r.file, d, r.chunk)
    BY <2>1, <1>1, <1>5, <1>7 DEF PendingSettled
  <2>3. PICK h \in HandlerRecord : h = [g EXCEPT !.pc = "metadata", !.dir = d]
    BY <1>4 DEF HandlerRecord
  <2>4. h.pc = "metadata" /\ h.request = r /\ h.dir = d
    BY <2>3, <1>4 DEF HandlerRecord
  <2>5. GoodHandler(n, h)
    BY <2>2, <2>4, <1>5, ConstantsAssumption DEF GoodHandler
  <2>6. handler' = [handler EXCEPT ![n] = h]
    BY <2>1, <2>3, <1>7 DEF Handle
  <2> QED  BY <2>4, <2>5, <2>6, <1>2, <1>3, <1>4, <1>7, HandlerGoesOn
<1> QED  BY <1>4, <1>6, <1>7 DEF LookUpPending

LEMMA ServeMetadataNet ==
  ASSUME IInv, NEW n \in Node, ServeMetadata(n)
  PROVE  NetInv'
<1>1. TypeOK'
  BY HandlerStepType DEF IInv, DiskInv, NetInv
<1>2. UNCHANGED <<store, disk, client, sub>> /\ handler[n].pc = "metadata"
  BY DEF ServeMetadata
<1>3. handler[n] # NoHandler
  BY <1>2 DEF NoHandler
<1>4. PICK f \in File : f = handler[n].request.file
  BY <1>3, HandlerPlace
<1>5. meta[n][handler[n].dir] = f
  BY <1>2, <1>3, <1>4, HandlerPlace DEF GoodHandler, Settled
<1>6. Respond(n, f)
  BY <1>5, ConstantsAssumption DEF ServeMetadata
<1> QED  BY <1>1, <1>2, <1>3, <1>4, <1>6, RespondNet DEF Content

LEMMA ReadMetadataNet ==
  ASSUME IInv, NEW n \in Node, ReadMetadata(n)
  PROVE  NetInv'
<1>1. UNCHANGED <<store, disk, client, sub>> /\ handler[n].pc = "metadata"
  BY DEF ReadMetadata
<1>2. handler[n] # NoHandler
  BY <1>1 DEF NoHandler
<1>3. PICK g \in HandlerRecord : g = handler[n] /\ GoodHandler(n, g)
  BY <1>2, HandlerPlace
<1>4. g.request.kind = "chunk" /\ g.request.file \in File
  BY <1>2, <1>3, HandlerPlace DEF ReadMetadata
<1>5. meta[n][g.dir] = g.request.file /\ g.request.chunk \in Chunks(g.request.file)
  BY <1>1, <1>2, <1>3, <1>4, HandlerPlace DEF GoodHandler, Settled
<1>6. Handle(n, [g EXCEPT !.pc = "chunk"]) /\ UNCHANGED inbox
  BY <1>3, <1>4, <1>5 DEF ReadMetadata
<1>7. PICK h \in HandlerRecord : h = [g EXCEPT !.pc = "chunk"]
  BY DEF HandlerRecord
<1>8. h.pc = "chunk" /\ h.request = g.request /\ h.dir = g.dir
  BY <1>7 DEF HandlerRecord
<1>9. GoodHandler(n, h)
  BY <1>1, <1>3, <1>4, <1>8 DEF GoodHandler
<1>10. handler' = [handler EXCEPT ![n] = h]
  BY <1>6, <1>7 DEF Handle
<1> QED  BY <1>1, <1>2, <1>3, <1>6, <1>8, <1>9, <1>10, HandlerGoesOn

LEMMA ReadChunkNet ==
  ASSUME IInv, NEW n \in Node, ReadChunk(n)
  PROVE  NetInv'
<1>1. TypeOK'
  BY HandlerStepType DEF IInv, DiskInv, NetInv
<1>2. UNCHANGED <<store, disk, client, sub>> /\ handler[n].pc = "chunk"
  BY DEF ReadChunk
<1>3. handler[n] # NoHandler
  BY <1>2 DEF NoHandler
<1>4. PICK f \in File : f = handler[n].request.file
  BY <1>3, HandlerPlace
<1>5. chunkFile[n][handler[n].dir][handler[n].request.chunk] = f
  BY <1>2, <1>3, <1>4, HandlerPlace DEF GoodHandler, Has
<1>6. Respond(n, f)
  BY <1>5, ConstantsAssumption DEF ReadChunk
<1> QED  BY <1>1, <1>2, <1>3, <1>4, <1>6, RespondNet DEF Content

-----------------------------------------------------------------------------
(* The invariant is inductive.                                             *)

LEMMA InitInv == Init => IInv
<1> SUFFICES ASSUME Init PROVE IInv
  OBVIOUS
<1>1. TypeOK
  BY InitType
<1>2. /\ \A n \in Node : publish[n] = NoPublish /\ call[n] = NoCall /\ handler[n] = NoHandler
      /\ \A n \in Node : inbox[n] = <<>>
      /\ \A n \in Node, f \in File : published[n][f] = None /\ pending[n][f] = None
      /\ \A n \in Node, f \in File, c \in Chunk : sub[n][f][c] = "idle"
  BY DEF Init
<1>3. DiskInv
  BY <1>2 DEF DiskInv, PublishedSettled, PendingSettled, PublishWrites, CallWrites, SubtasksFit
<1>4. \A n \in Node : Places(n) = {} /\ DOMAIN inbox[n] = {}
  BY <1>2 DEF Places
<1>5. NetInv
  BY <1>2, <1>4 DEF NetInv, AskedOnce, SomebodyWaits, AnswersFit, HandlerReads
<1> QED  BY <1>1, <1>3, <1>5 DEF IInv

LEMMA PublishKeeps ==
  ASSUME IInv, OneWriterPerDir, NEW n \in Node,
         \/ PublishStep(n) \/ AddPublished(n)
         \/ \E f \in File, p \in Path : StartPublish(n, f, p)
  PROVE  IInv'
<1>1. TypeOK
  BY DEF IInv
<1>2. TypeOK' /\ DiskInv' /\ SettledStays /\ PublishedStays
  BY <1>1, PublishStepType, PublishDisk, PublishStays,
     StartPublishType, StartPublishDisk, StartPublishStays
<1>3. UNCHANGED <<net, call, sub>>
  BY DEF PublishStep, WriteChunk, CreateMetadata, FillMetadata, AddPublished, StartPublish
<1>4. NetInv'
  BY <1>2, <1>3, NetKept
<1> QED  BY <1>2, <1>4 DEF IInv

LEMMA CallKeeps ==
  ASSUME IInv, OneWriterPerDir, NEW n \in Node, CallStep(n)
  PROVE  IInv'
<1>1. TypeOK /\ CallWrites
  BY DEF IInv, DiskInv
<1>2. TypeOK' /\ DiskInv' /\ SettledStays /\ PublishedStays
  BY <1>1, CallStepType, CallDisk, CallStays
<1>3. /\ UNCHANGED <<net, sub>>
      /\ \A m \in Node : call[m].pc = "asked" => call'[m] = call[m]
  <2>1. call[n].pc # "asked" /\ UNCHANGED <<net, sub>>
    BY DEF CallStep, SaveMetadata, MetadataSaved, PutPending
  <2> QED  BY <2>1, CallFrame
<1>4. NetInv'
  BY <1>2, <1>3, NetKept
<1> QED  BY <1>2, <1>4 DEF IInv

LEMMA RequestMetadataKeeps ==
  ASSUME IInv, OneWriterPerDir, NEW n \in Node, NEW f \in File, NEW p \in Path,
         RequestMetadata(n, f, p)
  PROVE  IInv'
<1>1. TypeOK
  BY DEF IInv
<1> QED  BY <1>1, RequestMetadataType, RequestMetadataDisk, RequestMetadataNet DEF IInv

LEMMA SubtaskKeeps ==
  ASSUME IInv, NEW n \in Node, NEW f \in File, NEW c \in Chunk, Subtask(n, f, c)
  PROVE  IInv'
<1>1. TypeOK /\ PendingSettled /\ SubtasksFit
  BY DEF IInv, DiskInv
<1>2. TypeOK' /\ SettledStays /\ PublishedStays
  BY <1>1, SubtaskType, SubtaskStays
<1>3. DiskInv'
  BY RequestFileChunkDisk, ChunkWrittenDisk, JoinChunkDisk DEF Subtask
<1>4. NetInv'
  <2>1. CASE RequestFileChunk(n, f, c)
    BY <2>1, RequestFileChunkNet
  <2>2. CASE ChunkWritten(n, f, c) \/ JoinChunk(n, f, c)
    <3>1. UNCHANGED <<net, call>> /\ sub[n][f][c] # "asked"
      BY <2>2 DEF ChunkWritten, JoinChunk, client
    <3>2. PICK s : SetSub(n, f, c, s)
      BY <2>2 DEF ChunkWritten, JoinChunk
    <3>3. \A m \in Node, g \in File, b \in Chunk :
            sub[m][g][b] = "asked" => sub'[m][g][b] = "asked"
      BY <3>1, <3>2, <1>1, SubChanges
    <3> QED  BY <3>1, <3>3, <1>2, NetKept
  <2> QED  BY <2>1, <2>2 DEF Subtask
<1> QED  BY <1>2, <1>3, <1>4 DEF IInv

LEMMA ProcessCompletedKeeps ==
  ASSUME IInv, NEW n \in Node, NEW f \in File, ProcessCompleted(n, f)
  PROVE  IInv'
<1>1. TypeOK
  BY DEF IInv
<1>2. TypeOK' /\ SettledStays /\ PublishedStays
  BY <1>1, ProcessCompletedType, ProcessCompletedStays
<1>3. DiskInv'
  BY PutPublishedDisk, DeletePendingDisk DEF ProcessCompleted
<1>4. UNCHANGED <<net, call, sub>>
  BY DEF ProcessCompleted, PutPublished, DeletePending, client
<1>5. NetInv'
  BY <1>2, <1>4, NetKept
<1> QED  BY <1>2, <1>3, <1>5 DEF IInv

LEMMA LoopKeeps ==
  ASSUME IInv, NEW n \in Node, LoopStep(n)
  PROVE  IInv'
<1>1. TypeOK /\ PendingSettled /\ SubtasksFit /\ SomebodyWaits /\ HandlerReads /\ DiskInv
  BY DEF IInv, DiskInv, NetInv
<1>2. TypeOK'
  BY <1>1, TakeRequestType, HandlerStepType, ReceiveMetadataType, ReceiveChunkType DEF LoopStep
<1>3. DiskInv'
  <2>1. CASE ReceiveMetadata(n)
    BY <2>1, ReceiveMetadataDisk
  <2>2. CASE ReceiveChunk(n)
    BY <2>2, ReceiveChunkDisk
  <2>3. CASE \/ TakeMetadataRequest(n) \/ TakeChunkRequest(n) \/ LookUpPending(n)
             \/ ServeMetadata(n) \/ ReadMetadata(n) \/ ReadChunk(n)
    <3>1. UNCHANGED <<store, disk, client, sub>>
      BY <2>3 DEF TakeMetadataRequest, TakeChunkRequest, LookUpPending, ServeMetadata,
                  ReadMetadata, ReadChunk
    <3> QED  BY <3>1, <1>1, NetDisk
  <2> QED  BY <2>1, <2>2, <2>3 DEF LoopStep
<1>4. NetInv'
  BY TakeRequestNet, LookUpPendingNet, ServeMetadataNet, ReadMetadataNet, ReadChunkNet,
     ReceiveMetadataNet, ReceiveChunkNet DEF LoopStep
<1> QED  BY <1>2, <1>3, <1>4 DEF IInv

LEMMA StutterKeeps == IInv /\ UNCHANGED vars => IInv'
<1> SUFFICES ASSUME IInv, UNCHANGED vars PROVE IInv'
  OBVIOUS
<1>1. UNCHANGED <<store, disk, client, sub, net>>
  BY DEF vars
<1>2. TypeOK'
  BY <1>1 DEF IInv, TypeOK, store, disk, client, net
<1>3. DiskInv'
  BY <1>1, NetDisk DEF IInv
<1>4. NetInv'
  BY <1>1, NetKept, NetStays DEF client
<1> QED  BY <1>2, <1>3, <1>4 DEF IInv

LEMMA StepInv ==
  ASSUME IInv, OneWriterPerDir, [Next]_vars
  PROVE  IInv'
<1>1. CASE UNCHANGED vars
  BY <1>1, StutterKeeps
<1>2. CASE Next
  <2>1. PICK n \in Node :
          \/ PublishStep(n) \/ AddPublished(n) \/ CallStep(n) \/ LoopStep(n)
          \/ \E f \in File :
               \/ \E p \in Path : StartPublish(n, f, p) \/ RequestMetadata(n, f, p)
               \/ \E c \in Chunk : Subtask(n, f, c)
               \/ ProcessCompleted(n, f)
    BY <1>2 DEF Next
  <2>2. CASE PublishStep(n) \/ AddPublished(n)
    BY <2>2, PublishKeeps
  <2>3. CASE CallStep(n)
    BY <2>3, CallKeeps
  <2>4. CASE LoopStep(n)
    BY <2>4, LoopKeeps
  <2>5. ASSUME NEW f \in File, NEW p \in Path, StartPublish(n, f, p)
        PROVE  IInv'
    BY <2>5, PublishKeeps
  <2>6. ASSUME NEW f \in File, NEW p \in Path, RequestMetadata(n, f, p)
        PROVE  IInv'
    BY <2>6, RequestMetadataKeeps
  <2>7. ASSUME NEW f \in File, NEW c \in Chunk, Subtask(n, f, c)
        PROVE  IInv'
    BY <2>7, SubtaskKeeps
  <2>8. ASSUME NEW f \in File, ProcessCompleted(n, f)
        PROVE  IInv'
    BY <2>8, ProcessCompletedKeeps
  <2> QED  BY <2>1, <2>2, <2>3, <2>4, <2>5, <2>6, <2>7, <2>8
<1> QED  BY <1>1, <1>2

-----------------------------------------------------------------------------
(* The theorems.                                                           *)

(* The inductive invariant holds in every state (Serving.Next, all handlers,
   tasks and calls of every node). *)
THEOREM IInvHolds == ASSUME OneWriterPerDir PROVE Spec => []IInv
<1>1. ASSUME IInv, [Next]_vars PROVE IInv'
  BY <1>1, StepInv
<1> QED  BY <1>1, InitInv, PTL DEF Spec

(* Every record, file and message has its type; above all, a subtask or an answer
   of the loop always finds the pending record whose directory it uses
   (file_download_service.rs:285-364). *)
THEOREM TypeCorrect == ASSUME OneWriterPerDir PROVE Spec => []TypeOK
  BY IInvHolds, PTL DEF IInv

(* Wherever a file is published, .metadata and every chunk are that file's
   (file_download_service.rs:226-283, events.rs:233-249). *)
THEOREM PublishedWhole == ASSUME OneWriterPerDir PROVE Spec => []PublishedIsWhole
<1>1. IInv => PublishedIsWhole
  BY DEF IInv, DiskInv, PublishedSettled, PublishedIsWhole, Whole, Settled, Has
<1> QED  BY <1>1, IInvHolds, PTL

(* A request is answered with what was asked for or with NotFound
   (events.rs:450-470, 562-690). *)
THEOREM AnswersFitFile == ASSUME OneWriterPerDir PROVE Spec => []AnswersAreOfTheFile
<1>1. IInv => AnswersAreOfTheFile
  BY DEF IInv, NetInv, AnswersFit, AnswersAreOfTheFile
<1> QED  BY <1>1, IInvHolds, PTL

(* The abstract state after a step. *)
HoldersOf(pub) == [f \in File |-> {n \in Node : pub[n][f] # None}]
WantedOf(pub, pen) == [f \in File |-> {n \in Node : pen[n][f] # None /\ pub[n][f] = None}]

LEMMA AbstractState ==
  /\ Network!vars = <<HoldersOf(published), WantedOf(published, pending)>>
  /\ Network!vars' = <<HoldersOf(published'), WantedOf(published', pending')>>
  BY DEF Network!vars, HoldersOf, WantedOf

(* A step that leaves alone which records there are is a stutter of the network. *)
LEMMA SameRecordsStutter ==
  ASSUME \A n \in Node, f \in File :
           /\ published'[n][f] # None <=> published[n][f] # None
           /\ published[n][f] # None \/ (pending'[n][f] # None <=> pending[n][f] # None)
  PROVE  UNCHANGED Network!vars
<1>1. HoldersOf(published') = HoldersOf(published)
  BY DEF HoldersOf
<1>2. WantedOf(published', pending') = WantedOf(published, pending)
  BY DEF WantedOf
<1> QED  BY <1>1, <1>2, AbstractState

(* A node that has not published f publishes it. *)
LEMMA PublishedHolds ==
  ASSUME TypeOK, NEW n \in Node, NEW f \in File, NEW d, d # None,
         published[n][f] = None, UNCHANGED pending,
         published' = [published EXCEPT ![n][f] = d]
  PROVE  /\ HoldersOf(published') = [HoldersOf(published) EXCEPT ![f] = @ \cup {n}]
         /\ pending[n][f] = None => WantedOf(published', pending') = WantedOf(published, pending)
         /\ WantedOf(published', pending') = [WantedOf(published, pending) EXCEPT ![f] = @ \ {n}]
<1>1. \A m \in Node, g \in File :
        published'[m][g] = IF m = n /\ g = f THEN d ELSE published[m][g]
  BY DEF TypeOK
<1>2. HoldersOf(published') = [HoldersOf(published) EXCEPT ![f] = @ \cup {n}]
  <2>1. \A g \in File : {m \in Node : published'[m][g] # None}
           = IF g = f THEN {m \in Node : published[m][g] # None} \cup {n}
             ELSE {m \in Node : published[m][g] # None}
    BY <1>1
  <2> QED  BY <2>1 DEF HoldersOf
<1>3. \A g \in File : {m \in Node : pending'[m][g] # None /\ published'[m][g] = None}
         = IF g = f THEN {m \in Node : pending[m][g] # None /\ published[m][g] = None} \ {n}
           ELSE {m \in Node : pending[m][g] # None /\ published[m][g] = None}
  <2>1. \A m \in Node, g \in File : published'[m][g] = None <=>
          published[m][g] = None /\ ~ (m = n /\ g = f)
    BY <1>1
  <2>2. {m \in Node : pending'[m][f] # None /\ published'[m][f] = None}
          = {m \in Node : pending[m][f] # None /\ published[m][f] = None} \ {n}
    BY <2>1
  <2>3. ASSUME NEW g \in File, g # f
        PROVE  {m \in Node : pending'[m][g] # None /\ published'[m][g] = None}
                 = {m \in Node : pending[m][g] # None /\ published[m][g] = None}
    BY <2>1, <2>3
  <2> QED  BY <2>2, <2>3
<1>4. WantedOf(published', pending') = [WantedOf(published, pending) EXCEPT ![f] = @ \ {n}]
  BY <1>3, ZenonT(30) DEF WantedOf
<1>5. ASSUME pending[n][f] = None
      PROVE  WantedOf(published', pending') = WantedOf(published, pending)
  <2>1. \A g \in File : {m \in Node : pending'[m][g] # None /\ published'[m][g] = None}
           = {m \in Node : pending[m][g] # None /\ published[m][g] = None}
    BY <1>1, <1>5
  <2> QED  BY <2>1 DEF WantedOf
<1> QED  BY <1>2, <1>4, <1>5

(* A publication is a step Publish, or it completes a download of the same file,
   or the file was published already. *)
LEMMA AddPublishedReplicates ==
  ASSUME IInv, NEW n \in Node, AddPublished(n)
  PROVE  [Network!Next]_(Network!vars)
<1>1. publish[n] # NoPublish /\ publish[n] \in PublishRecord
  <2>1. publish[n] # NoPublish
    BY DEF AddPublished, NoPublish
  <2> QED  BY <2>1, CallsTyped DEF IInv
<1>2. PICK f \in File, p \in Path : f = publish[n].file /\ p = publish[n].path
  BY <1>1 DEF PublishRecord
<1>3. <<n, f, p>> \in Publishes
  BY <1>1, <1>2 DEF IInv, DiskInv, PublishWrites
<1>4. published' = [published EXCEPT ![n][f] = DirAt(p, f)] /\ UNCHANGED pending
  BY <1>2 DEF AddPublished
<1>5. DirAt(p, f) \in Dir /\ DirAt(p, f) # None
  BY DirType, ConstantsAssumption
<1>6. CASE published[n][f] # None
  <2>1. \A m \in Node, g \in File : published'[m][g] # None <=> published[m][g] # None
    BY <1>4, <1>5, <1>6 DEF IInv, TypeOK
  <2> QED  BY <2>1, <1>4, SameRecordsStutter
<1>7. CASE published[n][f] = None
  <2>1. /\ HoldersOf(published') = [HoldersOf(published) EXCEPT ![f] = @ \cup {n}]
        /\ pending[n][f] = None => WantedOf(published', pending') = WantedOf(published, pending)
        /\ WantedOf(published', pending') = [WantedOf(published, pending) EXCEPT ![f] = @ \ {n}]
    BY <1>4, <1>5, <1>7, PublishedHolds DEF IInv
  <2>2. CASE pending[n][f] = None
    <3>1. <<n, f>> \in {<<x[1], x[2]>> : x \in Publishes}
      BY <1>3
    <3>2. Network!Publish(n, f)
      BY <2>1, <2>2, <3>1 DEF Network!Publish, HoldersOf, WantedOf
    <3> QED  BY <3>2 DEF Network!Next
  <2>3. CASE pending[n][f] # None
    <3>1. n \in WantedOf(published, pending)[f]
      BY <1>7, <2>3 DEF WantedOf
    <3>2. Network!Complete(n, f)
      BY <2>1, <3>1 DEF Network!Complete, HoldersOf, WantedOf
    <3> QED  BY <3>2 DEF Network!Next
  <2> QED  BY <2>2, <2>3
<1> QED  BY <1>6, <1>7

(* PutPublished completes a download. *)
LEMMA PutPublishedReplicates ==
  ASSUME IInv, NEW n \in Node, NEW f \in File, PutPublished(n, f)
  PROVE  [Network!Next]_(Network!vars)
<1> DEFINE d == pending[n][f].dir
<1>1. d \in Dir /\ d # None /\ published[n][f] = None /\ pending[n][f] # None
  BY ConstantsAssumption DEF PutPublished, Downloaded, IInv, TypeOK, Record
<1>2. published' = [published EXCEPT ![n][f] = d] /\ UNCHANGED pending
  BY DEF PutPublished
<1> HIDE DEF d
<1>3. /\ HoldersOf(published') = [HoldersOf(published) EXCEPT ![f] = @ \cup {n}]
      /\ WantedOf(published', pending') = [WantedOf(published, pending) EXCEPT ![f] = @ \ {n}]
  BY <1>1, <1>2, PublishedHolds DEF IInv
<1>4. n \in WantedOf(published, pending)[f]
  BY <1>1 DEF WantedOf
<1>5. Network!Complete(n, f)
  BY <1>3, <1>4 DEF Network!Complete, HoldersOf, WantedOf
<1> QED  BY <1>5 DEF Network!Next

(* A pending record is stored of a file that the call was told of by a node that
   had published it. *)
LEMMA PutPendingReplicates ==
  ASSUME IInv, NEW n \in Node, PutPending(n)
  PROVE  [Network!Next]_(Network!vars)
<1>1. call[n] # NoCall /\ call[n].pc # "asked" /\ call[n] \in CallRecord
  <2>1. call[n] # NoCall /\ call[n].pc # "asked"
    BY DEF PutPending, NoCall
  <2> QED  BY <2>1, CallsTyped DEF IInv
<1>2. PICK f \in File, p \in Path : f = call[n].file /\ p = call[n].path
  BY <1>1 DEF IInv, DiskInv, CallWrites, CallRecord
<1>3. \E m \in Node : published[m][f] # None
  BY <1>1, <1>2 DEF IInv, DiskInv, CallWrites
<1> DEFINE held == [dir |-> DirAt(p, f), chunks |-> {}]
<1>4. held # None
  <2>1. held \in [dir : Dir, chunks : SUBSET Chunk]
    BY DirType
  <2> QED  BY <2>1, ConstantsAssumption
<1>5. \A m \in Node, g \in File :
        pending'[m][g] = IF m = n /\ g = f THEN held ELSE pending[m][g]
  BY <1>2 DEF IInv, TypeOK, PutPending, CallDir
<1>6. UNCHANGED published
  BY DEF PutPending
<1> HIDE DEF held
<1>7. CASE published[n][f] # None
  <2>1. \A m \in Node, g \in File :
          published[m][g] # None \/ (pending'[m][g] # None <=> pending[m][g] # None)
    BY <1>5, <1>7
  <2> QED  BY <1>6, <2>1, SameRecordsStutter
<1>8. CASE published[n][f] = None
  <2>1. HoldersOf(published') = HoldersOf(published)
    BY <1>6 DEF HoldersOf
  <2>2. \A g \in File : {m \in Node : pending'[m][g] # None /\ published'[m][g] = None}
           = IF g = f THEN {m \in Node : pending[m][g] # None /\ published[m][g] = None} \cup {n}
             ELSE {m \in Node : pending[m][g] # None /\ published[m][g] = None}
    BY <1>4, <1>5, <1>6, <1>8
  <2>3. WantedOf(published', pending') = [WantedOf(published, pending) EXCEPT ![f] = @ \cup {n}]
    BY <2>2 DEF WantedOf
  <2>4. HoldersOf(published)[f] # {} /\ n \notin HoldersOf(published)[f]
    BY <1>3, <1>8 DEF HoldersOf
  <2>5. Network!Accept(n, f)
    BY <2>1, <2>3, <2>4 DEF Network!Accept, HoldersOf, WantedOf
  <2> QED  BY <2>5 DEF Network!Next
<1> QED  BY <1>7, <1>8

(* Every other step is a stutter of the network. *)
LEMMA SubtaskReplicates ==
  ASSUME IInv, NEW n \in Node, NEW f \in File, NEW c \in Chunk, Subtask(n, f, c)
  PROVE  UNCHANGED Network!vars
<1>1. CASE UNCHANGED store
  BY <1>1, SameRecordsStutter DEF store
<1>2. CASE JoinChunk(n, f, c)
  <2>1. pending[n][f] # None
    BY <1>2 DEF IInv, DiskInv, SubtasksFit, JoinChunk
  <2>2. [pending[n][f] EXCEPT !.chunks = pending[n][f].chunks \cup {c}] \in Record
    BY <2>1 DEF IInv, TypeOK, Record
  <2>3. pending' = [pending EXCEPT ![n] = [pending[n] EXCEPT ![f] =
                     [pending[n][f] EXCEPT !.chunks = pending[n][f].chunks \cup {c}]]]
    BY <1>2 DEF JoinChunk
  <2>4. \A m \in Node, g \in File : pending'[m][g] # None <=> pending[m][g] # None
    BY <2>1, <2>2, <2>3, ConstantsAssumption DEF IInv, TypeOK, Record
  <2> QED  BY <1>2, <2>4, SameRecordsStutter DEF JoinChunk
<1> QED  BY <1>1, <1>2 DEF Subtask, RequestFileChunk, ChunkWritten

LEMMA DeletePendingReplicates ==
  ASSUME IInv, NEW n \in Node, NEW f \in File, DeletePending(n, f)
  PROVE  UNCHANGED Network!vars
<1>1. \A m \in Node, g \in File :
        published[m][g] # None \/ (pending'[m][g] # None <=> pending[m][g] # None)
  BY DEF DeletePending, IInv, TypeOK
<1> QED  BY <1>1, SameRecordsStutter DEF DeletePending

LEMMA StepReplicates ==
  ASSUME IInv, [Next]_vars
  PROVE  [Network!Next]_(Network!vars)
<1>1. CASE UNCHANGED store
  BY <1>1, SameRecordsStutter DEF store
<1>2. CASE Next
  <2>1. PICK n \in Node :
          \/ PublishStep(n) \/ AddPublished(n) \/ CallStep(n) \/ LoopStep(n)
          \/ \E f \in File :
               \/ \E p \in Path : StartPublish(n, f, p) \/ RequestMetadata(n, f, p)
               \/ \E c \in Chunk : Subtask(n, f, c)
               \/ ProcessCompleted(n, f)
    BY <1>2 DEF Next
  <2>2. ASSUME PublishStep(n) \/ SaveMetadata(n) \/ MetadataSaved(n)
        PROVE  UNCHANGED store
    BY <2>2 DEF PublishStep, WriteChunk, CreateMetadata, FillMetadata, SaveMetadata,
                MetadataSaved
  <2>3. ASSUME LoopStep(n)
        PROVE  UNCHANGED store
    BY <2>3 DEF LoopStep, TakeMetadataRequest, TakeChunkRequest, LookUpPending,
                ServeMetadata, ReadMetadata, ReadChunk, ReceiveMetadata, ReceiveChunk
  <2>4. ASSUME NEW f \in File, NEW p \in Path, StartPublish(n, f, p) \/ RequestMetadata(n, f, p)
        PROVE  UNCHANGED store
    BY <2>4 DEF StartPublish, RequestMetadata
  <2>5. ASSUME NEW f \in File, NEW c \in Chunk, Subtask(n, f, c)
        PROVE  UNCHANGED Network!vars
    BY <2>5, SubtaskReplicates
  <2>6. ASSUME NEW f \in File, ProcessCompleted(n, f)
        PROVE  [Network!Next]_(Network!vars)
    BY <2>6, PutPublishedReplicates, DeletePendingReplicates DEF ProcessCompleted
  <2> QED
    BY <1>1, <2>1, <2>2, <2>3, <2>4, <2>5, <2>6, AddPublishedReplicates,
       PutPendingReplicates DEF CallStep
<1> QED  BY <1>1, <1>2 DEF vars

(* The nodes implement the steps of Replication: a file enters the network by a
   publication, a download is accepted only of a file that some node holds and
   completes at the node that accepted it, and nobody loses a file (events.rs:551-690,
   file_download_service.rs:99-283). *)
THEOREM StepsReplicate == ASSUME OneWriterPerDir PROVE Spec => ReplicatesStepwise
<1>1. Init => Network!Init
  BY DEF Init, Network!Init
<1>2. ASSUME IInv, [Next]_vars
      PROVE  [Network!Next]_(Network!vars)
  BY <1>2, StepReplicates
<1> QED
  BY <1>1, <1>2, IInvHolds, PTL DEF Spec, ReplicatesStepwise, Network!SafetySpec
=============================================================================
