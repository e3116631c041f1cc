-------------------------- MODULE Publish_proofs --------------------------
(* Theorems about Publish, for every value of its constants.               *)
EXTENDS Publish, FiniteSetTheorems, WellFoundedInduction, TLAPS

-----------------------------------------------------------------------------
(* The key store.                                                          *)

\* The keys of a file are finitely many, and so are its first ones.
LEMMA KeysFinite ==
  ASSUME NEW f \in File, NEW n \in Nat
  PROVE  IsFiniteSet({<<f, i>> : i \in 0 .. n})
<1>1. {<<f, i>> : i \in 0 .. n} = {f} \X (0 .. n)
  OBVIOUS
<1>2. IsFiniteSet({f})  BY FS_Singleton
<1>3. IsFiniteSet(0 .. n)  BY FS_Interval
<1>. QED  BY <1>1, <1>2, <1>3, FS_Product

\* A set of naturals up to a bound has a least element: the shortest interval
\* that ends in it.
LEMMA LeastElement ==
  ASSUME NEW n \in Nat, NEW B \in SUBSET (0 .. n), B # {}
  PROVE  \E b \in B : \A m \in B : b <= m
<1>. DEFINE S == 0 .. n
            T == {0 .. m : m \in B}
            R == StrictSubsetOrdering(S)
<1>1. IsFiniteSet(S)  BY FS_Interval
<1>2. T \subseteq FiniteSubsetsOf(S) /\ T # {}
  <2>1. \A m \in B : IsFiniteSet(0 .. m) /\ 0 .. m \subseteq S  BY FS_Interval
  <2>. QED  BY <2>1 DEF FiniteSubsetsOf
<1>. HIDE DEF T, R
<1>3. IsWellFoundedOn(R, FiniteSubsetsOf(S))
  BY FS_StrictSubsetOrderingWellFounded DEF R
<1>4. PICK t \in T : \A u \in T : ~(<<u, t>> \in R)
  BY <1>2, <1>3, WFMin
<1>5. PICK b \in B : t = 0 .. b  BY <1>4 DEF T
<1>6. ASSUME NEW m \in B, ~(b <= m)  PROVE FALSE
  <2>1. m \in Nat /\ b \in Nat /\ m < b  BY <1>6
  <2>2. 0 .. m \subseteq 0 .. b /\ b \in 0 .. b /\ b \notin 0 .. m  BY <2>1
  <2>3. 0 .. m \in SUBSET S /\ 0 .. b \in SUBSET S  OBVIOUS
  <2>4. <<0 .. m, 0 .. b>> \in R  BY <2>2, <2>3 DEF R, StrictSubsetOrdering
  <2>. QED  BY <1>4, <1>5, <2>4 DEF T
<1>. QED  BY <1>6

\* A set of naturals that holds what lies below each member is an interval.
LEMMA InitialSegment ==
  ASSUME NEW n \in Nat, NEW A \in SUBSET (0 .. n), A # {},
         \A m \in A : \A i \in 0 .. m : i \in A
  PROVE  \E b \in A : A = 0 .. b
<1>1. CASE (0 .. n) \ A = {}
  <2>1. A \subseteq 0 .. n /\ 0 .. n \subseteq A  BY <1>1
  <2>2. A = 0 .. n  BY <2>1, Zenon
  <2>3. n \in A  BY <2>1
  <2>. QED  BY <2>2, <2>3, Zenon
<1>2. CASE (0 .. n) \ A # {}
  <2>1. PICK b \in (0 .. n) \ A : \A m \in (0 .. n) \ A : b <= m
    BY <1>2, LeastElement
  <2>2. 0 \in A
    <3>1. PICK m \in A : TRUE  OBVIOUS
    <3>2. m \in Nat /\ 0 \in 0 .. m  OBVIOUS
    <3>. QED  BY <3>2
  <2>3. b \in Nat /\ b # 0 /\ b - 1 \in 0 .. n  BY <2>1, <2>2
  <2>4. \A m \in 0 .. n : m \in A <=> m < b
    <3>1. SUFFICES ASSUME NEW m \in 0 .. n  PROVE m \in A <=> m < b
      OBVIOUS
    <3>2. ASSUME m \in A, ~(m < b)  PROVE FALSE
      <4>1. b \in 0 .. m  BY <2>3, <3>2
      <4>. QED  BY <2>1, <3>2, <4>1
    <3>3. ASSUME m < b, m \notin A  PROVE FALSE
      <4>1. b <= m  BY <2>1, <3>3
      <4>. QED  BY <2>3, <3>3, <4>1
    <3>. QED  BY <3>2, <3>3
  <2>5. b - 1 \in A  BY <2>3, <2>4
  <2>6. \A m \in 0 .. n : m \in A <=> m \in 0 .. b - 1  BY <2>3, <2>4
  <2>7. 0 .. b - 1 \subseteq 0 .. n  BY <2>3
  <2>8. A = 0 .. b - 1  BY <2>6, <2>7, Zenon
  <2>. QED  BY <2>5, <2>8, Zenon
<1>. QED  BY <1>1, <1>2

\* Entering a file's keys keeps within the limit, drops no key and adds only
\* keys of that file.
LEMMA ProvideWithinLimit ==
  ASSUME NEW f \in File, IsFiniteSet(offered), Cardinality(offered) <= MaxKeys
  PROVE  /\ IsFiniteSet(Provide(f))
         /\ Cardinality(Provide(f)) <= MaxKeys
         /\ offered \subseteq Provide(f)
         /\ Provide(f) \subseteq offered \cup Keys(f)
<1>. USE ConstantsAssumption
<1>. DEFINE First(n) == {<<f, i>> : i \in 0 .. n}
            Fits(n) == Cardinality(offered \cup First(n)) <= MaxKeys
            A == {n \in 0 .. NumChunks[f] : Fits(n)}
<1>1. NumChunks[f] \in Nat  OBVIOUS
<1>2. Provide(f) = offered \cup {<<f, n>> : n \in A}
  <2>1. Provide(f) = offered \cup {k \in Keys(f) : Fits(k[2])}  BY DEF Provide
  <2>. HIDE DEF Fits
  <2>2. {k \in Keys(f) : Fits(k[2])} = {<<f, n>> : n \in A}  BY DEF Keys
  <2>. QED  BY <2>1, <2>2
<1>3. \A n \in Nat : IsFiniteSet(offered \cup First(n)) /\ Cardinality(offered \cup First(n)) \in Nat
  BY KeysFinite, FS_Union, FS_CardinalityType
<1>4. \A m \in A : \A i \in 0 .. m : i \in A
  <2>1. SUFFICES ASSUME NEW m \in A, NEW i \in 0 .. m  PROVE i \in A
    OBVIOUS
  <2>2. m \in Nat /\ i \in Nat /\ i \in 0 .. NumChunks[f] /\ Fits(m)  BY <1>1
  <2>3. offered \cup First(i) \subseteq offered \cup First(m)  BY <2>2
  <2>4. Cardinality(offered \cup First(i)) <= Cardinality(offered \cup First(m))
    BY <1>3, <2>2, <2>3, FS_Subset
  <2>5. Fits(i)
    <3>1. Cardinality(offered \cup First(i)) \in Nat /\ Cardinality(offered \cup First(m)) \in Nat
      BY <1>3, <2>2
    <3>2. Cardinality(offered \cup First(m)) <= MaxKeys  BY <2>2
    <3>. HIDE DEF First
    <3>. QED  BY <2>4, <3>1, <3>2
  <2>. QED  BY <2>2, <2>5
<1>5. CASE A = {}
  <2>. HIDE DEF A
  <2>1. Provide(f) = offered  BY <1>2, <1>5
  <2>. QED  BY <2>1
<1>6. CASE A # {}
  <2>. HIDE DEF Fits
  <2>1. PICK b \in A : A = 0 .. b  BY <1>1, <1>4, <1>6, InitialSegment
  <2>2. b \in Nat /\ Fits(b)  BY <2>1
  <2>3. Provide(f) = offered \cup First(b)  BY <1>2, <2>1
  <2>4. Cardinality(offered \cup First(b)) <= MaxKeys  BY <2>2 DEF Fits
  <2>5. First(b) \subseteq Keys(f)  BY <1>1, <2>1 DEF Keys
  <2>. QED  BY <1>3, <2>2, <2>3, <2>4, <2>5
<1>. QED  BY <1>5, <1>6

\* Keys that fit into a set within the limit are all entered.
LEMMA ProvideAllThatFits ==
  ASSUME NEW f \in File, NEW K, IsFiniteSet(K), Cardinality(K) <= MaxKeys,
         offered \subseteq K, Keys(f) \subseteq K
  PROVE  Provide(f) = offered \cup Keys(f)
<1>. USE ConstantsAssumption
<1>1. ASSUME NEW n \in 0 .. NumChunks[f]
      PROVE  Cardinality(offered \cup {<<f, i>> : i \in 0 .. n}) <= MaxKeys
  <2>1. offered \cup {<<f, i>> : i \in 0 .. n} \subseteq K  BY DEF Keys
  <2>2. Cardinality(offered \cup {<<f, i>> : i \in 0 .. n}) <= Cardinality(K)
    BY <2>1, FS_Subset
  <2>3. Cardinality(K) \in Nat /\ Cardinality(offered \cup {<<f, i>> : i \in 0 .. n}) \in Nat
    BY <2>1, FS_Subset, FS_CardinalityType
  <2>. QED  BY <2>2, <2>3
<1>. QED  BY <1>1 DEF Provide, Keys
-----------------------------------------------------------------------------
(* Type correctness.                                                        *)

CallStep(k) ==
  \/ StartPublish(k) \/ WriteChunk(k) \/ WriteChunkCut(k)
  \/ CreateMetadata(k) \/ FillMetadata(k) \/ FillMetadataLost(k)
  \/ PutJob(k) \/ CallFails(k)

LEMMA CallType ==
  ASSUME TypeOK, NEW k \in Call, CallStep(k)
  PROVE  TypeOK'
<1>. USE ConstantsAssumption
<1>. DEFINE f == FileOf[k]
<1>1. f \in File /\ PathOf[f] \in Path /\ NumChunks[f] \in Nat  OBVIOUS
<1>2. \A s \in CallPc : Goto(k, s) => call' \in [Call -> CallPc]
  BY DEF TypeOK, Goto
<1>3. CASE WriteChunk(k)
  <2>1. written[k] \in 0 .. NumChunks[f] - 1  BY <1>3, <1>1 DEF WriteChunk, TypeOK
  <2>2. written' \in [Call -> Nat]  BY <1>3, <2>1 DEF WriteChunk, TypeOK
  <2>3. \A l \in Call : written'[l] \in 0 .. NumChunks[FileOf[l]]
    BY <1>1, <1>3, <2>1 DEF WriteChunk, TypeOK
  <2>4. chunkFile' \in [Path -> [Chunk -> Content]]
    <3>1. f \in Content  BY DEF Content
    <3>. QED  BY <1>1, <1>3, <3>1 DEF WriteChunk, TypeOK
  <2>. QED  BY <1>3, <2>2, <2>3, <2>4 DEF WriteChunk, TypeOK, store, p2p
<1>4. CASE CreateMetadata(k)
  <2>1. meta' \in [Path -> Content]  BY <1>1, <1>4 DEF CreateMetadata, TypeOK, Content
  <2>2. call' \in [Call -> CallPc]  BY <1>2, <1>4 DEF CreateMetadata, CallPc
  <2>. QED  BY <1>4, <2>1, <2>2 DEF CreateMetadata, TypeOK, store, p2p
<1>5. CASE FillMetadata(k)
  <2>1. meta' \in [Path -> Content]  BY <1>1, <1>5 DEF FillMetadata, TypeOK, Content
  <2>2. call' \in [Call -> CallPc]  BY <1>2, <1>5 DEF FillMetadata, CallPc
  <2>. QED  BY <1>5, <2>1, <2>2 DEF FillMetadata, TypeOK, store, p2p
<1>6. CASE WriteChunkCut(k)
  <2>1. written[k] \in Chunk  BY <1>6, <1>1 DEF WriteChunkCut, TypeOK, Chunk
  <2>2. chunkFile' \in [Path -> [Chunk -> Content]]
    <3>1. Torn \in Content  BY DEF Content
    <3>. QED  BY <1>1, <1>6, <2>1, <3>1 DEF WriteChunkCut, TypeOK
  <2>3. call' \in [Call -> CallPc]  BY <1>2, <1>6 DEF WriteChunkCut, CallPc
  <2>. QED  BY <1>6, <2>2, <2>3 DEF WriteChunkCut, TypeOK, store, p2p
<1>7. CASE FillMetadataLost(k)
  <2>1. call' \in [Call -> CallPc]  BY <1>2, <1>7 DEF FillMetadataLost, CallPc
  <2>. QED  BY <1>1, <1>7, <2>1 DEF FillMetadataLost, TypeOK, disk, store, p2p
<1>8. CASE StartPublish(k) \/ CallFails(k)
  <2>1. call' \in [Call -> CallPc]  BY <1>2, <1>8 DEF StartPublish, CallFails, CallPc
  <2>. QED  BY <1>8, <2>1 DEF StartPublish, CallFails, TypeOK, disk, store, p2p
<1>9. CASE PutJob(k)
  <2>1. call' \in [Call -> CallPc]  BY <1>2, <1>9 DEF PutJob, CallPc
  <2>. QED  BY <1>1, <1>9, <2>1 DEF PutJob, TypeOK, disk, p2p
<1>. QED  BY <1>3, <1>4, <1>5, <1>6, <1>7, <1>8, <1>9 DEF CallStep

\* What Provide leaves in the key store is of the store's type.
LEMMA ProvideType ==
  ASSUME TypeOK, NEW f \in File, offered' = Provide(f)
  PROVE  /\ offered' \subseteq UNION {Keys(g) : g \in File}
         /\ IsFiniteSet(offered') /\ Cardinality(offered') <= MaxKeys
<1>1. IsFiniteSet(offered) /\ Cardinality(offered) <= MaxKeys  BY DEF TypeOK
<1>. QED  BY <1>1, ProvideWithinLimit DEF TypeOK

LEMMA DownloadType ==
  ASSUME TypeOK, DownloadStep
  PROVE  TypeOK'
<1>. USE ConstantsAssumption
<1>1. ASSUME NEW f \in File, CompleteDownload(f)  PROVE TypeOK'
  <2>1. f \in Content /\ PathOf[f] \in Path  BY DEF Content
  <2>2. [c \in Chunk |-> IF c \in 0 .. NumChunks[f] - 1 THEN f ELSE chunkFile[PathOf[f]][c]]
          \in [Chunk -> Content]
    BY <2>1 DEF TypeOK
  <2>3. chunkFile' \in [Path -> [Chunk -> Content]]
    BY <1>1, <2>1, <2>2 DEF CompleteDownload, TypeOK
  <2>. QED  BY <1>1, <2>3 DEF CompleteDownload, TypeOK, calls, p2p
<1>3. ASSUME NEW f \in File, BeginDownload(f)  PROVE TypeOK'
  <2>1. f \in Content /\ PathOf[f] \in Path  BY DEF Content
  <2>2. meta' \in [Path -> Content]  BY <1>3, <2>1 DEF BeginDownload, TypeOK
  <2>. QED  BY <1>3, <2>2 DEF BeginDownload, TypeOK, calls, store, p2p
<1>2. ASSUME NEW f \in File, ProvideDownload(f)  PROVE TypeOK'
  BY <1>2, ProvideType DEF ProvideDownload, TypeOK, calls, disk, store
<1>. QED  BY <1>1, <1>2, <1>3 DEF DownloadStep

LEMMA LoopType ==
  ASSUME TypeOK, LoopStep \/ Crash
  PROVE  TypeOK'
<1>. USE ConstantsAssumption
<1>1. ASSUME NEW f \in File, TakeJob(f)  PROVE TypeOK'
  BY <1>1 DEF TakeJob, TypeOK, calls, disk, store, LoopPc
<1>2. CASE ProvideJob
  <2>1. job \in File  BY <1>2 DEF ProvideJob, TypeOK
  <2>. QED  BY <1>2, <2>1, ProvideType DEF ProvideJob, TypeOK, calls, disk, store, LoopPc
<1>3. CASE AddPublished
  <2>1. job \in File  BY <1>3 DEF AddPublished, TypeOK
  <2>. QED  BY <1>3, <2>1 DEF AddPublished, TypeOK, calls, disk, LoopPc
<1>4. CASE DeleteJob
  BY <1>4 DEF DeleteJob, TypeOK, calls, disk, LoopPc
<1>5. CASE StartLoop
  BY <1>5 DEF StartLoop, TypeOK, calls, disk, store, LoopPc
<1>6. ASSUME NEW f \in File, OfferPublished(f)  PROVE TypeOK'
  <2>1. /\ offered' \subseteq UNION {Keys(g) : g \in File}
        /\ IsFiniteSet(offered') /\ Cardinality(offered') <= MaxKeys
    <3>1. CASE meta[PathOf[f]] \in File
      BY <1>6, <3>1, ProvideType DEF OfferPublished
    <3>2. CASE meta[PathOf[f]] \notin File
      BY <1>6, <3>2 DEF OfferPublished, TypeOK
    <3>. QED  BY <3>1, <3>2
  <2>2. loop = "starting" /\ loop' \in {"starting", "down"}
    BY <1>6 DEF OfferPublished
  <2>. QED  BY <1>6, <2>1, <2>2 DEF OfferPublished, TypeOK, calls, disk, store, LoopPc
<1>8. ASSUME NEW f \in File, SkipUnreadable(f)  PROVE TypeOK'
  BY <1>8 DEF SkipUnreadable, TypeOK, calls, disk, store
<1>7. CASE Crash
  <2>1. call' \in [Call -> CallPc]  BY <1>7 DEF Crash, TypeOK, CallPc
  <2>2. IsFiniteSet(offered') /\ Cardinality(offered') <= MaxKeys /\ offered' = {}
    BY <1>7, FS_EmptySet DEF Crash
  <2>3. crashes' \in 0 .. MaxCrashes  BY <1>7 DEF Crash, TypeOK
  <2>. QED  BY <1>7, <2>1, <2>2, <2>3 DEF Crash, TypeOK, disk, store, LoopPc
<1>. QED  BY <1>1, <1>2, <1>3, <1>4, <1>5, <1>6, <1>7, <1>8 DEF LoopStep

\* Every behaviour of the publishing half keeps its types, and the key store
\* its limit (service.rs:117).
THEOREM TypeCorrect == Spec => []TypeOK
<1>1. Init => TypeOK
  BY ConstantsAssumption, FS_EmptySet DEF Init, TypeOK, CallPc, LoopPc, Content
<1>2. TypeOK /\ [Next]_vars => TypeOK'
  <2>. SUFFICES ASSUME TypeOK, [Next]_vars  PROVE TypeOK'
    OBVIOUS
  <2>1. CASE Next  BY <2>1, CallType, DownloadType, LoopType DEF Next, CallStep
  <2>2. CASE UNCHANGED vars
    BY <2>2 DEF TypeOK, vars, calls, disk, store, p2p
  <2>. QED  BY <2>1, <2>2
<1>. QED  BY <1>1, <1>2, PTL DEF Spec
-----------------------------------------------------------------------------
(* file_publish's order of steps.                                           *)

\* The record is in the store before the job is deleted.
RecordedFirst == loop = "delete" => job \in published

LEMMA RecordedFirstInvariant == Spec => []RecordedFirst
<1>1. Init => RecordedFirst  BY DEF Init, RecordedFirst
<1>2. RecordedFirst /\ [Next]_vars => RecordedFirst'
  <2>. SUFFICES ASSUME RecordedFirst, [Next]_vars  PROVE RecordedFirst'
    OBVIOUS
  <2>1. CASE LoopStep
    BY <2>1 DEF RecordedFirst, LoopStep, TakeJob, OfferPublished, SkipUnreadable, ProvideJob, AddPublished,
                DeleteJob, StartLoop, store
  <2>2. CASE Crash  BY <2>2 DEF RecordedFirst, Crash
  <2>3. ASSUME NEW k \in Call,
               CallStep(k)
        PROVE  RecordedFirst'
    BY <2>3 DEF RecordedFirst, CallStep, StartPublish, WriteChunk, WriteChunkCut, CreateMetadata,
                FillMetadata, FillMetadataLost, PutJob, CallFails, store, p2p
  <2>4. CASE DownloadStep
    BY <2>4 DEF RecordedFirst, DownloadStep, BeginDownload, CompleteDownload, ProvideDownload, store, p2p
  <2>5. CASE UNCHANGED vars  BY <2>5 DEF RecordedFirst, vars, store, p2p
  <2>. QED  BY <2>1, <2>2, <2>3, <2>4, <2>5 DEF Next, CallStep
<1>. QED  BY <1>1, <1>2, PTL DEF Spec

\* A job leaves the store only for a published file, whatever crash comes
\* between the three steps of file_publish (events.rs:239-247).
THEOREM JobsAreNotLost == Spec => JobsLeavePublished
<1>1. RecordedFirst /\ [Next]_vars => [\A f \in jobs \ jobs' : f \in published]_vars
  <2>. SUFFICES ASSUME RecordedFirst, Next  PROVE \A f \in jobs \ jobs' : f \in published
    OBVIOUS
  <2>1. CASE LoopStep
    BY <2>1 DEF RecordedFirst, LoopStep, TakeJob, OfferPublished, SkipUnreadable, ProvideJob, AddPublished,
                DeleteJob, StartLoop, store
  <2>2. CASE Crash  BY <2>2 DEF Crash, store
  <2>3. ASSUME NEW k \in Call,
               CallStep(k)
        PROVE  jobs \subseteq jobs'
    BY <2>3 DEF CallStep, StartPublish, WriteChunk, WriteChunkCut, CreateMetadata,
                FillMetadata, FillMetadataLost, PutJob, CallFails, store
  <2>4. CASE DownloadStep
    BY <2>4 DEF DownloadStep, BeginDownload, CompleteDownload, ProvideDownload, store
  <2>. QED  BY <2>1, <2>2, <2>3, <2>4 DEF Next, CallStep
<1>. QED  BY <1>1, RecordedFirstInvariant, PTL DEF Spec, JobsLeavePublished

-----------------------------------------------------------------------------
(* Who writes to a chunks directory.                                        *)

\* Writers are never forgotten, so a directory that two have written to stays one
\* with an exception, and so does a lost write.
LEMMA WritersStay ==
  ASSUME TypeOK, [Next]_vars
  PROVE  /\ \A p \in Path : Shared(p) => Shared(p)'
         /\ unflushed \subseteq unflushed'
<1>1. CASE \E k \in Call : CallStep(k)
  <2>1. PICK k \in Call : CallStep(k)  BY <1>1
  <2>2. \A l \in Call : call[l] # "new" => call'[l] # "new"
    BY <2>1 DEF CallStep, StartPublish, WriteChunk, WriteChunkCut, CreateMetadata, FillMetadata,
                FillMetadataLost, PutJob, CallFails, Goto, TypeOK
  <2>3. begun' = begun /\ unflushed \subseteq unflushed'
    BY <2>1 DEF CallStep, StartPublish, WriteChunk, WriteChunkCut, CreateMetadata, FillMetadata,
                FillMetadataLost, PutJob, CallFails
  <2>4. \A p \in Path : Writers(p) \subseteq Writers(p)'  BY <2>2, <2>3 DEF Writers
  <2>. QED  BY <2>3, <2>4 DEF Shared
<1>2. CASE DownloadStep
  <2>1. call' = call /\ begun \subseteq begun' /\ UNCHANGED unflushed
    BY <1>2 DEF DownloadStep, BeginDownload, CompleteDownload, ProvideDownload, calls
  <2>2. \A p \in Path : Writers(p) \subseteq Writers(p)'  BY <2>1 DEF Writers
  <2>. QED  BY <2>1, <2>2 DEF Shared
<1>3. CASE LoopStep \/ Crash \/ UNCHANGED vars
  <2>1. \A l \in Call : call[l] # "new" => call'[l] # "new"
    BY <1>3 DEF LoopStep, TakeJob, OfferPublished, SkipUnreadable, ProvideJob, AddPublished,
                DeleteJob, StartLoop, Crash, vars, calls, TypeOK
  <2>2. UNCHANGED <<begun, unflushed>>
    BY <1>3 DEF LoopStep, TakeJob, OfferPublished, SkipUnreadable, ProvideJob, AddPublished,
                DeleteJob, StartLoop, Crash, vars
  <2>3. \A p \in Path : Writers(p) \subseteq Writers(p)'  BY <2>1, <2>2 DEF Writers
  <2>. QED  BY <2>2, <2>3 DEF Shared
<1>. QED  BY <1>1, <1>2, <1>3 DEF Next, CallStep

\* A call that has a directory for itself has it for itself.
LEMMA CallAlone ==
  ASSUME NEW k \in Call, call[k] # "new", ~Shared(PathOf[FileOf[k]])
  PROVE  /\ \A l \in Call : l # k /\ call[l] # "new" => PathOf[FileOf[l]] # PathOf[FileOf[k]]
         /\ \A f \in begun : PathOf[f] # PathOf[FileOf[k]]
<1>. DEFINE p == PathOf[FileOf[k]]
<1>1. <<"call", k>> \in Writers(p)  BY DEF Writers
<1>2. ASSUME NEW l \in Call, l # k, call[l] # "new", PathOf[FileOf[l]] = p  PROVE FALSE
  <2>1. <<"call", l>> \in Writers(p)  BY <1>2 DEF Writers
  <2>. QED  BY <1>1, <1>2, <2>1 DEF Shared
<1>3. ASSUME NEW f \in begun, PathOf[f] = p  PROVE FALSE
  <2>1. <<"download", f>> \in Writers(p)  BY <1>3 DEF Writers
  <2>. QED  BY <1>1, <2>1 DEF Shared
<1>. QED  BY <1>2, <1>3

LEMMA DownloadAlone ==
  ASSUME NEW f \in begun, ~Shared(PathOf[f])
  PROVE  /\ \A l \in Call : call[l] # "new" => PathOf[FileOf[l]] # PathOf[f]
         /\ \A g \in begun : g # f => PathOf[g] # PathOf[f]
<1>. DEFINE p == PathOf[f]
<1>1. <<"download", f>> \in Writers(p)  BY DEF Writers
<1>2. ASSUME NEW l \in Call, call[l] # "new", PathOf[FileOf[l]] = p  PROVE FALSE
  <2>1. <<"call", l>> \in Writers(p)  BY <1>2 DEF Writers
  <2>. QED  BY <1>1, <2>1 DEF Shared
<1>3. ASSUME NEW g \in begun, g # f, PathOf[g] = p  PROVE FALSE
  <2>1. <<"download", g>> \in Writers(p)  BY <1>3 DEF Writers
  <2>. QED  BY <1>1, <1>3, <2>1 DEF Shared
<1>. QED  BY <1>2, <1>3

-----------------------------------------------------------------------------
(* What lies beside a published file.                                       *)

\* A job comes from a call that was answered, a record from a job or a download.
JobsHaveCalls ==
  /\ \A g \in jobs : \E l \in Call : call[l] = "ok" /\ FileOf[l] = g
  /\ \A g \in published : g \in begun \/ \E l \in Call : call[l] = "ok" /\ FileOf[l] = g

\* How far a call has come is on disk, if it writes there alone.
CallsWrite ==
  \A k \in Call :
    LET f == FileOf[k]
        p == PathOf[f]
    IN
    /\ call[k] = "new" => written[k] = 0
    /\ call[k] \in {"saving", "put", "ok"} => written[k] = NumChunks[f]
    /\ call[k] \in {"split", "saving", "put", "ok"} /\ ~Shared(p) =>
         \A c \in 0 .. written[k] - 1 : chunkFile[p][c] = f
    /\ call[k] \in {"put", "ok"} /\ ~Shared(p) =>
         meta[p] = f \/ (p \in unflushed /\ meta[p] = Torn)

\* So is what a download has written.
DownloadsWrite ==
  \A f \in begun : ~Shared(PathOf[f]) =>
    /\ meta[PathOf[f]] = f
    /\ f \in published => \A c \in 0 .. NumChunks[f] - 1 : chunkFile[PathOf[f]][c] = f

\* Until it is written, .metadata does not parse.
TornWhileSaving ==
  \A k \in Call :
    call[k] = "saving" /\ ~Shared(PathOf[FileOf[k]]) => meta[PathOf[FileOf[k]]] = Torn

JobInStore == job # None => job \in jobs

DiskInv == JobsHaveCalls /\ CallsWrite /\ DownloadsWrite /\ TornWhileSaving /\ JobInStore

LEMMA DiskIntact ==
  ASSUME TypeOK, DiskInv
  PROVE  PublishedIsIntact
<1>. USE ConstantsAssumption
<1>1. ASSUME NEW g \in jobs \cup published, ~Shared(PathOf[g])
      PROVE  /\ \A c \in 0 .. NumChunks[g] - 1 : chunkFile[PathOf[g]][c] = g
             /\ meta[PathOf[g]] = g \/ (PathOf[g] \in unflushed /\ meta[PathOf[g]] = Torn)
  <2>1. CASE \E l \in Call : call[l] = "ok" /\ FileOf[l] = g
    BY <1>1, <2>1 DEF DiskInv, CallsWrite
  <2>2. CASE g \in begun /\ g \in published
    BY <1>1, <2>2 DEF DiskInv, DownloadsWrite
  <2>. QED  BY <2>1, <2>2 DEF DiskInv, JobsHaveCalls
<1>. QED  BY <1>1 DEF PublishedIsIntact

LEMMA CallDisk ==
  ASSUME TypeOK, DiskInv, NEW k \in Call, CallStep(k)
  PROVE  DiskInv'
<1>. USE ConstantsAssumption
<1>. DEFINE f == FileOf[k]
            p == PathOf[f]
<1>0. \A q \in Path : Shared(q) => Shared(q)'
  BY WritersStay DEF Next, CallStep
<1>1. f \in File /\ p \in Path /\ NumChunks[f] \in Nat /\ written[k] \in Nat
  BY DEF TypeOK
<1>2. UNCHANGED <<published, job, begun>>
  BY DEF CallStep, StartPublish, WriteChunk, WriteChunkCut, CreateMetadata, FillMetadata,
         FillMetadataLost, PutJob, CallFails, store, p2p
<1>3. call[k] # "ok" /\ call'[k] # "new"
  BY DEF CallStep, StartPublish, WriteChunk, WriteChunkCut, CreateMetadata, FillMetadata,
         FillMetadataLost, PutJob, CallFails, Goto, TypeOK
<1>4. \A l \in Call : l # k => call'[l] = call[l] /\ written'[l] = written[l]
  BY DEF CallStep, StartPublish, WriteChunk, WriteChunkCut, CreateMetadata, FillMetadata,
         FillMetadataLost, PutJob, CallFails, Goto, TypeOK
<1>5. /\ \A q \in Path : q # p => chunkFile'[q] = chunkFile[q] /\ meta'[q] = meta[q]
      /\ unflushed \subseteq unflushed'
  BY <1>1 DEF CallStep, StartPublish, WriteChunk, WriteChunkCut, CreateMetadata, FillMetadata,
              FillMetadataLost, PutJob, CallFails, disk, TypeOK
<1>6. ~Shared(p)' => /\ ~Shared(p)
                     /\ \A l \in Call : l # k /\ call[l] # "new" => PathOf[FileOf[l]] # p
                     /\ \A g \in begun : PathOf[g] # p
  <2>. SUFFICES ASSUME ~Shared(p)'
               PROVE  /\ \A l \in Call : l # k /\ call[l] # "new" => PathOf[FileOf[l]] # p
                      /\ \A g \in begun : PathOf[g] # p
    BY <1>0, <1>1
  <2>1. <<"call", k>> \in Writers(p)'  BY <1>3 DEF Writers
  <2>2. ASSUME NEW l \in Call, l # k, call[l] # "new", PathOf[FileOf[l]] = p  PROVE FALSE
    <3>1. <<"call", l>> \in Writers(p)'  BY <1>4, <2>2 DEF Writers
    <3>. QED  BY <2>1, <2>2, <3>1 DEF Shared
  <2>3. ASSUME NEW g \in begun, PathOf[g] = p  PROVE FALSE
    <3>1. <<"download", g>> \in Writers(p)'  BY <1>2, <2>3 DEF Writers
    <3>. QED  BY <2>1, <3>1 DEF Shared
  <2>. QED  BY <2>2, <2>3
<1>7. /\ call'[k] = "new" => written'[k] = 0
      /\ call'[k] \in {"saving", "put", "ok"} => written'[k] = NumChunks[f]
      /\ call'[k] \in {"split", "saving", "put", "ok"} /\ ~Shared(p) =>
           \A c \in 0 .. written'[k] - 1 : chunkFile'[p][c] = f
      /\ call'[k] \in {"put", "ok"} /\ ~Shared(p) =>
           meta'[p] = f \/ (p \in unflushed' /\ meta'[p] = Torn)
  <2>1. CASE StartPublish(k)
    BY <1>1, <2>1 DEF StartPublish, Goto, TypeOK, DiskInv, CallsWrite
  <2>2. CASE WriteChunk(k)
    <3>1. /\ written'[k] = written[k] + 1 /\ call'[k] = "split"
          /\ written[k] \in 0 .. NumChunks[f] - 1
      BY <1>1, <2>2 DEF WriteChunk, TypeOK
    <3>2. written[k] \in Chunk  BY <1>1, <3>1 DEF Chunk
    <3>3. chunkFile'[p][written[k]] = f
      BY <1>1, <2>2, <3>2 DEF WriteChunk, TypeOK
    <3>4. \A c \in 0 .. written[k] - 1 : chunkFile'[p][c] = chunkFile[p][c]
      BY <1>1, <2>2, <3>2 DEF WriteChunk, TypeOK
    <3>5. ~Shared(p) => \A c \in 0 .. written[k] - 1 : chunkFile[p][c] = f
      BY <2>2 DEF WriteChunk, DiskInv, CallsWrite
    <3>6. \A c \in 0 .. written'[k] - 1 : c = written[k] \/ c \in 0 .. written[k] - 1
      BY <1>1, <3>1
    <3>. QED  BY <3>1, <3>3, <3>4, <3>5, <3>6
  <2>3. CASE CreateMetadata(k)
    BY <1>1, <2>3 DEF CreateMetadata, Goto, TypeOK, DiskInv, CallsWrite
  <2>4. CASE FillMetadata(k)
    BY <1>1, <2>4 DEF FillMetadata, Goto, TypeOK, DiskInv, CallsWrite
  <2>5. CASE FillMetadataLost(k)
    <3>1. /\ call[k] = "saving" /\ call'[k] = "put" /\ p \in unflushed'
          /\ UNCHANGED <<written, chunkFile, meta>>
      BY <2>5 DEF FillMetadataLost, Goto, TypeOK, disk
    <3>2. ~Shared(p) => meta[p] = Torn
      BY <3>1, <1>1 DEF DiskInv, TornWhileSaving
    <3>. QED  BY <3>1, <3>2 DEF DiskInv, CallsWrite
  <2>6. CASE PutJob(k)
    BY <1>1, <2>6 DEF PutJob, Goto, TypeOK, DiskInv, CallsWrite, disk
  <2>7. CASE CallFails(k) \/ WriteChunkCut(k)
    BY <1>1, <2>7 DEF CallFails, WriteChunkCut, Goto, TypeOK
  <2>. QED  BY <2>1, <2>2, <2>3, <2>4, <2>5, <2>6, <2>7 DEF CallStep
<1>8. CallsWrite'
  <2>1. ASSUME NEW l \in Call, l # k
        PROVE  LET g == FileOf[l]
                   q == PathOf[g]
               IN
               /\ call'[l] = "new" => written'[l] = 0
               /\ call'[l] \in {"saving", "put", "ok"} => written'[l] = NumChunks[g]
               /\ call'[l] \in {"split", "saving", "put", "ok"} /\ ~Shared(q)' =>
                    \A c \in 0 .. written'[l] - 1 : chunkFile'[q][c] = g
               /\ call'[l] \in {"put", "ok"} /\ ~Shared(q)' =>
                    meta'[q] = g \/ (q \in unflushed' /\ meta'[q] = Torn)
    <3>1. call'[l] = call[l] /\ written'[l] = written[l]  BY <1>4, <2>1
    <3>2. PathOf[FileOf[l]] \in Path  OBVIOUS
    <3>3. CASE PathOf[FileOf[l]] = p
      <4>1. ~Shared(p)' => call[l] = "new"  BY <1>6, <2>1, <3>3
      <4>. QED  BY <3>1, <3>3, <4>1 DEF DiskInv, CallsWrite
    <3>4. CASE PathOf[FileOf[l]] # p
      BY <1>0, <1>5, <3>1, <3>2, <3>4 DEF DiskInv, CallsWrite
    <3>. QED  BY <3>3, <3>4
  <2>2. ~Shared(p)' => ~Shared(p)  BY <1>6
  <2>. QED  BY <1>7, <2>1, <2>2 DEF CallsWrite
<1>9. DownloadsWrite'
  <2>1. ASSUME NEW g \in begun, ~Shared(PathOf[g])'
        PROVE  PathOf[g] # p /\ PathOf[g] \in Path /\ ~Shared(PathOf[g])
    <3>1. PathOf[g] \in Path  BY DEF TypeOK
    <3>. QED  BY <1>0, <1>6, <2>1, <3>1
  <2>. QED  BY <1>2, <1>5, <2>1 DEF DiskInv, DownloadsWrite
<1>10. JobsHaveCalls' /\ JobInStore'
  <2>1. jobs \subseteq jobs' /\ (jobs' = jobs \/ (jobs' = jobs \cup {f} /\ call'[k] = "ok"))
    BY DEF CallStep, StartPublish, WriteChunk, WriteChunkCut, CreateMetadata, FillMetadata,
           FillMetadataLost, PutJob, CallFails, Goto, TypeOK, store
  <2>2. \A l \in Call : call[l] = "ok" => call'[l] = "ok"  BY <1>3, <1>4
  <2>. QED  BY <1>2, <2>1, <2>2 DEF DiskInv, JobsHaveCalls, JobInStore
<1>11. TornWhileSaving'
  <2>1. ASSUME NEW l \in Call, call'[l] = "saving", ~Shared(PathOf[FileOf[l]])'
        PROVE  meta'[PathOf[FileOf[l]]] = Torn
    <3>1. CASE l = k
      BY <1>1, <2>1, <3>1
         DEF CallStep, StartPublish, WriteChunk, WriteChunkCut, CreateMetadata, FillMetadata,
             FillMetadataLost, PutJob, CallFails, Goto, TypeOK
    <3>2. CASE l # k
      <4>1. call[l] = "saving" /\ PathOf[FileOf[l]] \in Path  BY <1>4, <2>1, <3>2
      <4>2. PathOf[FileOf[l]] # p /\ ~Shared(PathOf[FileOf[l]])  BY <1>0, <1>6, <2>1, <3>2, <4>1
      <4>. QED  BY <1>5, <4>1, <4>2 DEF DiskInv, TornWhileSaving
    <3>. QED  BY <3>1, <3>2
  <2>. QED  BY <2>1 DEF TornWhileSaving
<1>. QED  BY <1>8, <1>9, <1>10, <1>11 DEF DiskInv

LEMMA DownloadDisk ==
  ASSUME TypeOK, DiskInv, DownloadStep
  PROVE  DiskInv'
<1>. USE ConstantsAssumption
<1>0. \A q \in Path : Shared(q) => Shared(q)'
  BY WritersStay DEF Next
<1>1. ASSUME NEW f \in File, BeginDownload(f)  PROVE DiskInv'
  <2>. DEFINE p == PathOf[f]
  <2>1. /\ f \notin published /\ p \in Path /\ begun' = begun \cup {f}
        /\ UNCHANGED <<call, written, chunkFile, jobs, published, job, unflushed>>
    BY <1>1 DEF BeginDownload, calls, store, p2p
  <2>2. /\ meta'[p] = f
        /\ \A q \in Path : q # p => meta'[q] = meta[q]
    BY <1>1, <2>1 DEF BeginDownload, TypeOK
  <2>3. ~Shared(p)' => /\ \A l \in Call : call[l] # "new" => PathOf[FileOf[l]] # p
                       /\ \A g \in begun' : g # f => PathOf[g] # p
    <3>. SUFFICES ASSUME ~Shared(p)'
                 PROVE  /\ \A l \in Call : call[l] # "new" => PathOf[FileOf[l]] # p
                        /\ \A g \in begun' : g # f => PathOf[g] # p
      OBVIOUS
    <3>1. <<"download", f>> \in Writers(p)'  BY <2>1 DEF Writers
    <3>2. ASSUME NEW l \in Call, call[l] # "new", PathOf[FileOf[l]] = p  PROVE FALSE
      <4>1. <<"call", l>> \in Writers(p)'  BY <2>1, <3>2 DEF Writers
      <4>. QED  BY <3>1, <4>1 DEF Shared
    <3>3. ASSUME NEW g \in begun', g # f, PathOf[g] = p  PROVE FALSE
      <4>1. <<"download", g>> \in Writers(p)'  BY <3>3 DEF Writers
      <4>. QED  BY <3>1, <3>3, <4>1 DEF Shared
    <3>. QED  BY <3>2, <3>3
  <2>4. CallsWrite' /\ TornWhileSaving'
    <3>1. ASSUME NEW l \in Call, call[l] # "new", ~Shared(PathOf[FileOf[l]])'
          PROVE  /\ meta'[PathOf[FileOf[l]]] = meta[PathOf[FileOf[l]]]
                 /\ ~Shared(PathOf[FileOf[l]])
      BY <1>0, <2>2, <2>3, <3>1
    <3>2. CallsWrite'  BY <2>1, <3>1 DEF DiskInv, CallsWrite
    <3>3. TornWhileSaving'  BY <2>1, <3>1 DEF DiskInv, TornWhileSaving
    <3>. QED  BY <3>2, <3>3
  <2>5. DownloadsWrite'
    <3>1. ASSUME NEW g \in begun', ~Shared(PathOf[g])'
          PROVE  /\ meta'[PathOf[g]] = g
                 /\ g \in published => \A c \in 0 .. NumChunks[g] - 1 : chunkFile[PathOf[g]][c] = g
      <4>1. CASE g = f  BY <2>1, <2>2, <4>1
      <4>2. CASE g # f
        <5>1. g \in begun /\ PathOf[g] \in Path  BY <2>1, <4>2 DEF TypeOK
        <5>2. PathOf[g] # p  BY <2>3, <3>1, <4>2
        <5>. QED  BY <1>0, <2>2, <3>1, <5>1, <5>2 DEF DiskInv, DownloadsWrite
      <4>. QED  BY <4>1, <4>2
    <3>. QED  BY <2>1, <3>1 DEF DownloadsWrite
  <2>6. JobsHaveCalls' /\ JobInStore'
    BY <2>1 DEF DiskInv, JobsHaveCalls, JobInStore
  <2>. QED  BY <2>4, <2>5, <2>6 DEF DiskInv
<1>2. ASSUME NEW f \in File, CompleteDownload(f)  PROVE DiskInv'
  <2>. DEFINE p == PathOf[f]
  <2>1. /\ f \in begun /\ p \in Path /\ NumChunks[f] \in Nat
        /\ published' = published \cup {f}
        /\ UNCHANGED <<call, written, meta, jobs, job, begun, unflushed>>
    BY <1>2 DEF CompleteDownload, calls, p2p
  <2>2. \A q \in Path : q # p => chunkFile'[q] = chunkFile[q]
    BY <1>2, <2>1 DEF CompleteDownload, TypeOK
  <2>3. \A c \in 0 .. NumChunks[f] - 1 : chunkFile'[p][c] = f
    <3>1. \A c \in 0 .. NumChunks[f] - 1 : c \in Chunk  BY DEF Chunk
    <3>. QED  BY <1>2, <2>1, <3>1 DEF CompleteDownload, TypeOK
  <2>4. \A q \in Path : Shared(q)' <=> Shared(q)  BY <2>1 DEF Shared, Writers
  <2>5. ~Shared(p) => /\ \A l \in Call : call[l] # "new" => PathOf[FileOf[l]] # p
                      /\ \A g \in begun : g # f => PathOf[g] # p
    BY <2>1, DownloadAlone
  <2>6. CallsWrite' /\ TornWhileSaving'
    <3>1. \A l \in Call : PathOf[FileOf[l]] \in Path  OBVIOUS
    <3>2. \A l \in Call : call[l] # "new" /\ ~Shared(PathOf[FileOf[l]]) =>
            chunkFile'[PathOf[FileOf[l]]] = chunkFile[PathOf[FileOf[l]]]
      BY <2>2, <2>5, <3>1
    <3>3. CallsWrite'  BY <2>1, <2>4, <3>1, <3>2 DEF DiskInv, CallsWrite
    <3>4. TornWhileSaving'  BY <2>1, <2>4, <3>1 DEF DiskInv, TornWhileSaving
    <3>. QED  BY <3>3, <3>4
  <2>7. DownloadsWrite'
    <3>1. \A g \in begun : PathOf[g] \in Path  BY DEF TypeOK
    <3>2. \A g \in begun : g # f /\ ~Shared(PathOf[g]) => PathOf[g] # p
      BY <2>5
    <3>. QED  BY <2>1, <2>2, <2>3, <2>4, <3>1, <3>2 DEF DiskInv, DownloadsWrite
  <2>8. JobsHaveCalls' /\ JobInStore'
    BY <2>1 DEF DiskInv, JobsHaveCalls, JobInStore
  <2>. QED  BY <2>6, <2>7, <2>8 DEF DiskInv
<1>3. ASSUME NEW f \in File, ProvideDownload(f)  PROVE DiskInv'
  <2>1. UNCHANGED <<call, written, chunkFile, meta, jobs, published, job, begun, unflushed>>
    BY <1>3 DEF ProvideDownload, calls, disk, store
  <2>. QED
    BY <2>1 DEF DiskInv, JobsHaveCalls, CallsWrite, DownloadsWrite, TornWhileSaving, JobInStore,
                Shared, Writers
<1>. QED  BY <1>1, <1>2, <1>3 DEF DownloadStep

LEMMA LoopDisk ==
  ASSUME TypeOK, DiskInv, LoopStep \/ Crash
  PROVE  DiskInv'
<1>. USE ConstantsAssumption
<1>1. UNCHANGED <<written, chunkFile, meta, begun, unflushed>>
  BY DEF LoopStep, TakeJob, OfferPublished, SkipUnreadable, ProvideJob, AddPublished, DeleteJob,
         StartLoop, Crash, calls, disk
<1>2. \A l \in Call : call'[l] = call[l] \/ (call[l] \notin {"new", "ok"} /\ call'[l] = "failed")
  BY DEF LoopStep, TakeJob, OfferPublished, SkipUnreadable, ProvideJob, AddPublished, DeleteJob,
         StartLoop, Crash, calls, TypeOK
<1>3. jobs' \subseteq jobs /\ published \subseteq published' /\ published' \subseteq published \cup jobs
  BY DEF LoopStep, TakeJob, OfferPublished, SkipUnreadable, ProvideJob, AddPublished, DeleteJob,
         StartLoop, Crash, store, TypeOK, DiskInv, JobInStore
<1>4. JobInStore'
  BY DEF LoopStep, TakeJob, OfferPublished, SkipUnreadable, ProvideJob, AddPublished, DeleteJob,
         StartLoop, Crash, store, DiskInv, JobInStore
<1>5. \A p \in Path : Shared(p)' <=> Shared(p)
  <2>1. \A l \in Call : call'[l] # "new" <=> call[l] # "new"  BY <1>2
  <2>2. \A p \in Path : Writers(p)' = Writers(p)  BY <1>1, <2>1 DEF Writers
  <2>. QED  BY <2>2 DEF Shared
<1>6. \A l \in Call : PathOf[FileOf[l]] \in Path  OBVIOUS
<1>7. JobsHaveCalls'  BY <1>1, <1>2, <1>3 DEF DiskInv, JobsHaveCalls
<1>8. CallsWrite'  BY <1>1, <1>2, <1>5, <1>6 DEF DiskInv, CallsWrite
<1>9. TornWhileSaving'  BY <1>1, <1>2, <1>5, <1>6 DEF DiskInv, TornWhileSaving
<1>10. DownloadsWrite'
  <2>1. ASSUME NEW g \in begun, g \in jobs  PROVE Shared(PathOf[g])
    <3>1. PICK l \in Call : call[l] = "ok" /\ FileOf[l] = g
      BY <2>1 DEF DiskInv, JobsHaveCalls
    <3>. QED  BY <3>1, CallAlone
  <2>2. \A g \in begun : PathOf[g] \in Path  BY DEF TypeOK
  <2>. QED  BY <1>1, <1>3, <1>5, <2>1, <2>2 DEF DiskInv, DownloadsWrite
<1>. QED  BY <1>4, <1>7, <1>8, <1>9, <1>10 DEF DiskInv

LEMMA DiskInvariant == Spec => []DiskInv
<1>1. Init => DiskInv
  BY DEF Init, DiskInv, JobsHaveCalls, CallsWrite, DownloadsWrite, TornWhileSaving, JobInStore
<1>2. TypeOK /\ DiskInv /\ [Next]_vars => DiskInv'
  <2>. SUFFICES ASSUME TypeOK, DiskInv, [Next]_vars  PROVE DiskInv'
    OBVIOUS
  <2>1. CASE Next  BY <2>1, CallDisk, DownloadDisk, LoopDisk DEF Next, CallStep
  <2>2. CASE UNCHANGED vars
    BY <2>2 DEF DiskInv, JobsHaveCalls, CallsWrite, DownloadsWrite, TornWhileSaving, JobInStore,
                Shared, Writers, vars, calls, disk, store, p2p
  <2>. QED  BY <2>1, <2>2
<1>. QED  BY <1>1, <1>2, TypeCorrect, PTL DEF Spec

\* publish_file leaves the job after its last write (server.rs:45-54), so wherever
\* one writer alone has been, the chunks beside a file with a job or a record are
\* that file's, and the .metadata too unless its last write was lost
\* (utils.rs:36-39), whatever fails, crashes or is published again elsewhere.
THEOREM PublishedIntact == Spec => []PublishedIsIntact
<1>1. TypeOK /\ DiskInv => PublishedIsIntact  BY DiskIntact
<1>. QED  BY <1>1, TypeCorrect, DiskInvariant, PTL

-----------------------------------------------------------------------------
(* What a published file's peers are offered.                               *)

\* The exceptions of a file: this start could not read its .metadata, or another
\* writer has been in its directory.
Excused(f) == f \in skipped \/ Shared(PathOf[f])

\* The stream at startup has offered what it has yielded, and nothing else.
StreamOffers ==
  loop = "starting" =>
    /\ offered \subseteq PublishedKeys \/ \E f \in published : Shared(PathOf[f])
    /\ \A f \in published \ toOffer : Excused(f) \/ Keys(f) \subseteq offered

LoopOffers ==
  loop \in {"serve", "provide", "add", "delete"} =>
    \A f \in published \ Downloads : Excused(f) \/ Keys(f) \subseteq offered

JobOffered == loop \in {"add", "delete"} => Keys(job) \subseteq offered

OfferInv == StreamOffers /\ LoopOffers /\ JobOffered /\ NodeComesUp

\* A step that leaves published, offered, the loop and its job.
LEMMA OffersStay ==
  ASSUME TypeOK, OfferInv, [Next]_vars, UNCHANGED <<published, p2p>>
  PROVE  OfferInv'
<1>1. /\ \A p \in Path : Shared(p) => Shared(p)'
      /\ unflushed \subseteq unflushed'
  BY WritersStay
<1>2. \A f \in published : PathOf[f] \in Path  BY ConstantsAssumption DEF TypeOK
<1>3. UNCHANGED <<published, offered, loop, job, toOffer, skipped>>  BY DEF p2p
<1>4. PublishedKeys' = PublishedKeys /\ (PublishedFits' <=> PublishedFits)
  BY <1>3 DEF PublishedKeys, PublishedFits
<1>5. \A f \in published : Excused(f) => Excused(f)'  BY <1>1, <1>2, <1>3 DEF Excused
<1>6. StreamOffers'  BY <1>1, <1>2, <1>3, <1>4, <1>5 DEF OfferInv, StreamOffers
<1>7. LoopOffers' /\ JobOffered'  BY <1>3, <1>5 DEF OfferInv, LoopOffers, JobOffered
<1>8. NodeComesUp'  BY <1>1, <1>2, <1>3, <1>4 DEF OfferInv, NodeComesUp
<1>. QED  BY <1>6, <1>7, <1>8 DEF OfferInv

LEMMA DownloadOffers ==
  ASSUME TypeOK, OfferInv, DownloadStep
  PROVE  OfferInv'
<1>. USE ConstantsAssumption
<1>0. \A p \in Path : Shared(p) => Shared(p)'  BY WritersStay DEF Next
<1>1. ASSUME NEW f \in File, BeginDownload(f)  PROVE OfferInv'
  <2>1. UNCHANGED <<published, p2p>>  BY <1>1 DEF BeginDownload, store
  <2>2. [Next]_vars  BY DEF Next
  <2>. QED  BY <2>1, <2>2, OffersStay
<1>2. ASSUME NEW f \in File, CompleteDownload(f)  PROVE OfferInv'
  <2>1. /\ published' = published \cup {f} /\ f \in Downloads
        /\ loop \notin {"starting", "down"}
        /\ UNCHANGED <<offered, loop, job, toOffer, skipped>>
    BY <1>2 DEF CompleteDownload, TypeOK, p2p
  <2>2. \A g \in published : Excused(g) => Excused(g)'
    BY <1>0, <2>1 DEF Excused, TypeOK
  <2>. QED  BY <2>1, <2>2 DEF OfferInv, StreamOffers, LoopOffers, JobOffered, NodeComesUp
<1>3. ASSUME NEW f \in File, ProvideDownload(f)  PROVE OfferInv'
  <2>1. offered \subseteq offered'
    BY <1>3, ProvideWithinLimit DEF ProvideDownload, TypeOK
  <2>2. /\ loop = "serve" /\ UNCHANGED <<published, loop, job, toOffer, skipped>>
    BY <1>3 DEF ProvideDownload, store
  <2>3. \A g \in published : Excused(g) => Excused(g)'
    BY <1>0, <2>2 DEF Excused, TypeOK
  <2>. QED  BY <2>1, <2>2, <2>3 DEF OfferInv, StreamOffers, LoopOffers, JobOffered, NodeComesUp
<1>. QED  BY <1>1, <1>2, <1>3 DEF DownloadStep

LEMMA LoopOffersKeys ==
  ASSUME TypeOK, PublishedIsIntact, OfferInv, LoopStep \/ Crash
  PROVE  OfferInv'
<1>. USE ConstantsAssumption
<1>. USE DEF OfferInv, StreamOffers, LoopOffers, JobOffered, NodeComesUp
<1>0. /\ \A p \in Path : Shared(p) => Shared(p)'
      /\ \A f \in published : PathOf[f] \in Path
  BY WritersStay DEF Next, TypeOK
<1>00. skipped' = skipped => \A f \in published : Excused(f) => Excused(f)'
  BY <1>0 DEF Excused
<1>1. ASSUME NEW f \in File, TakeJob(f)  PROVE OfferInv'
  BY <1>00, <1>1 DEF TakeJob, store
<1>2. CASE ProvideJob
  <2>1. job \in File /\ loop = "provide" /\ UNCHANGED <<published, job, skipped>>
    BY <1>2 DEF ProvideJob, TypeOK, store
  <2>2. offered \subseteq offered'
    BY <1>2, <2>1, ProvideWithinLimit DEF ProvideJob, TypeOK
  <2>3. (loop' = "add" /\ Keys(job) \subseteq offered') \/ loop' = "provide"
    BY <1>2 DEF ProvideJob, Provided
  <2>. QED  BY <1>00, <2>1, <2>2, <2>3
<1>3. CASE AddPublished
  BY <1>00, <1>3 DEF AddPublished
<1>4. CASE DeleteJob
  BY <1>00, <1>4 DEF DeleteJob
<1>5. CASE StartLoop
  BY <1>00, <1>5 DEF StartLoop, store
<1>6. ASSUME NEW f \in File, SkipUnreadable(f)  PROVE OfferInv'
  <2>1. /\ loop = "starting" /\ toOffer' = toOffer \ {f} /\ skipped' = skipped \cup {f}
        /\ UNCHANGED <<published, offered, loop, job>>
    BY <1>6 DEF SkipUnreadable, store
  <2>2. Excused(f)' /\ \A g \in published : Excused(g) => Excused(g)'
    BY <1>0, <2>1 DEF Excused
  <2>3. PublishedKeys' = PublishedKeys  BY <2>1 DEF PublishedKeys
  <2>. QED  BY <1>0, <2>1, <2>2, <2>3
<1>7. ASSUME NEW f \in File, OfferPublished(f)  PROVE OfferInv'
  <2> DEFINE p == PathOf[f]
             m == meta[p]
  <2>1. /\ loop = "starting" /\ f \in published /\ toOffer' = toOffer \ {f}
        /\ UNCHANGED <<published, job, skipped, unflushed>> /\ p \in Path
    BY <1>7 DEF OfferPublished, TypeOK, store
  <2>2. PublishedKeys' = PublishedKeys /\ (PublishedFits' <=> PublishedFits)
    BY <2>1 DEF PublishedKeys, PublishedFits
  <2>3. \A g \in published : Excused(g) => Excused(g)'  BY <1>00, <2>1
  <2>4. offered \subseteq offered' /\ loop' \in {"starting", "down"}
    <3>1. m \in File => offered \subseteq Provide(m)
      BY ProvideWithinLimit DEF TypeOK
    <3>. QED  BY <1>7, <3>1 DEF OfferPublished
  <2>5. CASE Shared(p)
    <3>1. Shared(p)' /\ Excused(f)'  BY <1>0, <2>1, <2>5 DEF Excused
    <3>. QED  BY <2>1, <2>3, <2>4, <3>1
  <2>6. CASE ~Shared(p) /\ m # f
    <3>1. p \in unflushed /\ m = Torn
      BY <2>1, <2>6 DEF PublishedIsIntact
    <3>2. loop' = "down"  BY <1>7, <3>1 DEF OfferPublished
    <3>. QED  BY <2>1, <3>1, <3>2
  <2>7. CASE ~Shared(p) /\ m = f
    <3>1. offered' = Provide(f) /\ loop' = IF Provided(f) THEN "starting" ELSE "down"
      BY <1>7, <2>7 DEF OfferPublished
    <3>2. Keys(f) \subseteq PublishedKeys  BY <2>1 DEF PublishedKeys
    <3>3. offered' \subseteq offered \cup Keys(f)
      BY <3>1, ProvideWithinLimit DEF TypeOK
    <3>4. CASE Provided(f)
      <4>1. loop' = "starting" /\ Keys(f) \subseteq offered'  BY <3>1, <3>4 DEF Provided
      <4>2. offered' \subseteq PublishedKeys' \/ \E g \in published' : Shared(PathOf[g])'
        BY <1>0, <2>1, <2>2, <3>2, <3>3
      <4>3. \A g \in published' \ toOffer' : Excused(g)' \/ Keys(g) \subseteq offered'
        BY <2>1, <2>3, <2>4, <4>1
      <4>. QED  BY <2>1, <4>1, <4>2, <4>3
    <3>5. CASE ~Provided(f)
      <4>1. ~PublishedFits \/ \E g \in published : Shared(PathOf[g])
        <5>1. PublishedFits /\ offered \subseteq PublishedKeys => Provide(f) = offered \cup Keys(f)
          BY <3>2, ProvideAllThatFits DEF PublishedFits
        <5>. QED  BY <2>1, <3>5, <5>1 DEF Provided
      <4>2. loop' = "down"  BY <3>1, <3>5
      <4>. QED  BY <1>0, <2>1, <2>2, <4>1, <4>2
    <3>. QED  BY <3>4, <3>5
  <2>. QED  BY <2>5, <2>6, <2>7
<1>8. CASE Crash
  BY <1>8 DEF Crash, store
<1>. QED  BY <1>1, <1>2, <1>3, <1>4, <1>5, <1>6, <1>7, <1>8 DEF LoopStep

LEMMA OfferInvariant == Spec => []OfferInv
<1>1. Init => OfferInv
  BY DEF Init, OfferInv, StreamOffers, LoopOffers, JobOffered, NodeComesUp
<1>2. TypeOK /\ DiskInv /\ OfferInv /\ [Next]_vars => OfferInv'
  <2>. SUFFICES ASSUME TypeOK, DiskInv, OfferInv, [Next]_vars  PROVE OfferInv'
    OBVIOUS
  <2>1. CASE LoopStep \/ Crash  BY <2>1, DiskIntact, LoopOffersKeys
  <2>2. ASSUME NEW k \in Call, CallStep(k)  PROVE OfferInv'
    <3>1. UNCHANGED <<published, p2p>>
      BY <2>2 DEF CallStep, StartPublish, WriteChunk, WriteChunkCut, CreateMetadata,
                  FillMetadata, FillMetadataLost, PutJob, CallFails, store
    <3>. QED  BY <3>1, OffersStay
  <2>3. CASE DownloadStep  BY <2>3, DownloadOffers
  <2>4. CASE UNCHANGED vars  BY <2>4, OffersStay DEF vars, store
  <2>. QED  BY <2>1, <2>2, <2>3, <2>4 DEF Next, CallStep
<1>. QED  BY <1>1, <1>2, TypeCorrect, DiskInvariant, PTL DEF Spec

\* A loop that serves offers every key of every file it has published by itself,
\* also after a restart, unless that start could not read the file's .metadata or
\* its directory has had another writer (events.rs:214-247, service.rs:207-209).
THEOREM PublishedOffered == Spec => []PublishedIsOffered
<1>1. OfferInv => PublishedIsOffered
  BY DEF OfferInv, LoopOffers, Excused, PublishedIsOffered
<1>. QED  BY <1>1, OfferInvariant, PTL

\* A start fails for three reasons alone: the published files' keys do not fit, the
\* last write of some .metadata was lost, or a directory has had two writers
\* (events.rs:214-230, utils.rs:36-39).
THEOREM NodeStarts == Spec => []NodeComesUp
BY OfferInvariant, PTL DEF OfferInv
=============================================================================
