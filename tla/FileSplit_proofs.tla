--------------------------- MODULE FileSplit_proofs ---------------------------
(***************************************************************************)
(* Theorems about FileSplit, for every chunk size and every length of the  *)
(* source.  The pieces in the .part file and in the restored one are       *)
(* compared with the chunk files (PartFollowsChunks, RestoredFromChunks),  *)
(* and those with the source (ChunksPartitionSource).                      *)
(***************************************************************************)
EXTENDS FileSplit, TLAPS

-----------------------------------------------------------------------------
(* The inductive invariant.                                                *)

(* split is left with the whole source written, and restore_original_file is
   reached only with a chunk. *)
SplitIsComplete ==
  /\ filled <= pos
  /\ pc # "read" => AtEnd /\ filled = 0
  /\ pc \in {"restore", "write", "renamed"} => chunks # <<>>

(* The .part file holds the first chunks, in their order. *)
PartFollowsChunks ==
  /\ pc = "write" => part # None
  /\ part # None =>
       /\ pc # "read"
       /\ Len(part) <= Len(chunks)
       /\ \A i \in 1 .. Len(part) : part[i] = chunks[i]

(* Only the chunk files, all of them, are given the name of the source. *)
RestoredFromChunks ==
  restored # None => pc \in {"restore", "write", "renamed"} /\ restored = chunks

FilesInv ==
  /\ TypeOK /\ SplitIsComplete /\ ChunksPartitionSource
  /\ PartFollowsChunks /\ RestoredFromChunks

-----------------------------------------------------------------------------
(* Lemmas.                                                                 *)

(* A sequence of pieces is never mistaken for the absence of a file. *)
LEMMA PiecesAreNotNone == ASSUME NEW s \in Seq(Piece) PROVE s # None
  BY ConstantsAssumption DEF Piece

(* A non-empty piece that starts where the others end continues them. *)
LEMMA ConsecutiveAppend ==
  ASSUME NEW s \in Seq(Piece), NEW n \in Nat, NEW m \in Nat,
         Consecutive(s, n), n < m
  PROVE  Consecutive(Append(s, [from |-> n, to |-> m]), m)
<1> DEFINE p == [from |-> n, to |-> m]
           t == Append(s, p)
<1>1. p \in Piece
  BY DEF Piece
<1>2. t \in Seq(Piece) /\ Len(t) = Len(s) + 1 /\ t[Len(t)] = p /\ t # <<>>
  <2>1. t \in Seq(Piece) /\ Len(t) = Len(s) + 1 /\ Len(s) \in Nat
    BY <1>1
  <2>2. t[Len(s) + 1] = p
    BY <1>1
  <2>3. t # <<>>
    BY <2>1
  <2> QED  BY <2>1, <2>2, <2>3
<1>3. \A i \in 1 .. Len(s) : t[i] = s[i]
  BY <1>1
<1>4. ASSUME NEW i \in 1 .. Len(t)
      PROVE  t[i].from = (IF i = 1 THEN 0 ELSE t[i - 1].to) /\ t[i].from < t[i].to
  <2>1. CASE i <= Len(s)
    <3>1. i \in 1 .. Len(s) /\ t[i] = s[i]
      BY <2>1, <1>3
    <3>2. i # 1 => t[i - 1] = s[i - 1]
      BY <2>1, <1>3
    <3> QED  BY <3>1, <3>2 DEF Consecutive
  <2>2. CASE i = Len(s) + 1 /\ s = <<>>
    BY <2>2, <1>2 DEF Consecutive
  <2>3. CASE i = Len(s) + 1 /\ s # <<>>
    <3>1. t[i] = p /\ i # 1 /\ t[i - 1] = s[Len(s)]
      BY <2>3, <1>2, <1>3
    <3>2. s[Len(s)].to = n
      BY <2>3 DEF Consecutive
    <3> QED  BY <3>1, <3>2
  <2> QED  BY <1>2, <2>1, <2>2, <2>3
<1> HIDE DEF t
<1>5. m = IF t = <<>> THEN 0 ELSE t[Len(t)].to
  BY <1>2
<1>6. Consecutive(t, m)
  BY <1>4, <1>5 DEF Consecutive
<1> QED  BY <1>6 DEF t

(* A source that is cut into at least one chunk is not empty. *)
LEMMA ChunksOfSomething ==
  ASSUME NEW s \in Seq(Piece), NEW n \in Nat, Consecutive(s, n), s # <<>>
  PROVE  n > 0
<1>1. Len(s) \in 1 .. Len(s) /\ s[Len(s)] \in Piece
  OBVIOUS
<1> QED  BY <1>1 DEF Consecutive, Piece

-----------------------------------------------------------------------------
(* The steps of split, of restore_original_file, and a mishap.             *)

LEMMA InitFiles == Init => FilesInv
<1> SUFFICES ASSUME Init PROVE FilesInv
  OBVIOUS
<1>1. TypeOK
  BY ConstantsAssumption DEF Init, TypeOK
<1>2. Consecutive(<<>>, 0)
  BY DEF Consecutive
<1>3. SplitIsComplete /\ ChunksPartitionSource /\ PartFollowsChunks /\ RestoredFromChunks
  BY <1>2 DEF Init, SplitIsComplete, ChunksPartitionSource, PartFollowsChunks,
              RestoredFromChunks
<1> QED  BY <1>1, <1>3 DEF FilesInv

LEMMA ReadKeepsFiles == FilesInv /\ Read => FilesInv'
<1> SUFFICES ASSUME FilesInv, Read PROVE FilesInv'
  OBVIOUS
<1>1. PICK n \in 1 .. (ChunkSize - filled) :
        n <= length - pos /\ pos' = pos + n /\ filled' = filled + n
  BY DEF Read
<1>2. TypeOK'
  BY <1>1, ConstantsAssumption DEF FilesInv, TypeOK, Read
<1>3. pos' - filled' = pos - filled
  BY <1>1, ConstantsAssumption DEF FilesInv, TypeOK
<1>4. ChunksPartitionSource'
  BY <1>3 DEF FilesInv, ChunksPartitionSource, Read, Consecutive
<1>5. SplitIsComplete'
  BY <1>1, ConstantsAssumption DEF FilesInv, TypeOK, Read, SplitIsComplete
<1>6. PartFollowsChunks' /\ RestoredFromChunks'
  BY DEF FilesInv, Read, PartFollowsChunks, RestoredFromChunks
<1> QED  BY <1>2, <1>4, <1>5, <1>6 DEF FilesInv

LEMMA WriteChunkKeepsFiles == FilesInv /\ WriteChunk => FilesInv'
<1> SUFFICES ASSUME FilesInv, WriteChunk PROVE FilesInv'
  OBVIOUS
<1> DEFINE piece == [from |-> pos - filled, to |-> pos]
<1>1. /\ length \in Nat /\ pos \in Nat /\ pos - filled \in Nat
      /\ filled \in 1 .. ChunkSize /\ ChunkSize \in Nat
      /\ chunks \in Seq(Piece)
  BY ConstantsAssumption DEF FilesInv, TypeOK, SplitIsComplete, WriteChunk
<1>2. piece \in Piece
  BY <1>1 DEF Piece
<1>3. chunks' = Append(chunks, piece) /\ filled' = 0 /\ pos' = pos /\ length' = length
  BY DEF WriteChunk
<1>4. TypeOK'
  BY <1>1, <1>2, <1>3 DEF FilesInv, TypeOK, WriteChunk
<1>5. Consecutive(chunks', pos' - filled')
  <2>1. Consecutive(chunks, pos - filled) /\ pos - filled < pos
    BY <1>1 DEF FilesInv, ChunksPartitionSource
  <2>2. Consecutive(Append(chunks, piece), pos)
    BY <2>1, <1>1, ConsecutiveAppend
  <2>3. pos' - filled' = pos
    BY <1>1, <1>3
  <2> QED  BY <1>3, <2>2, <2>3
<1>6. ASSUME NEW i \in 1 .. Len(chunks')
      PROVE  LET size == chunks'[i].to - chunks'[i].from IN
             size = ChunkSize \/ (chunks'[i].to = length' /\ size < ChunkSize)
  <2>1. CASE i \in 1 .. Len(chunks)
    <3>1. chunks'[i] = chunks[i]
      BY <2>1, <1>1, <1>2, <1>3
    <3> QED  BY <2>1, <3>1, <1>3 DEF FilesInv, ChunksPartitionSource
  <2>2. CASE i = Len(chunks) + 1
    <3>1. chunks'[i] = piece
      BY <2>2, <1>1, <1>2, <1>3
    <3>2. piece.to - piece.from = filled /\ piece.to = pos
      BY <1>1
    <3>3. filled = ChunkSize \/ (filled < ChunkSize /\ pos = length)
      BY <1>1 DEF WriteChunk, AtEnd
    <3> QED  BY <3>1, <3>2, <3>3, <1>3
  <2> QED  BY <1>1, <1>2, <1>3, <2>1, <2>2
<1>7. ChunksPartitionSource'
  BY <1>5, <1>6 DEF ChunksPartitionSource, Consecutive
<1>8. SplitIsComplete'
  BY <1>1, <1>3 DEF FilesInv, SplitIsComplete, WriteChunk, AtEnd
<1>9. PartFollowsChunks' /\ RestoredFromChunks'
  BY DEF FilesInv, WriteChunk, PartFollowsChunks, RestoredFromChunks
<1> QED  BY <1>4, <1>7, <1>8, <1>9 DEF FilesInv

(* The steps that change neither the chunk files nor what has been read. *)
LEMMA ChunksStay ==
  ASSUME ChunksPartitionSource, UNCHANGED <<length, pos, filled, chunks>>
  PROVE  ChunksPartitionSource'
  BY DEF ChunksPartitionSource, Consecutive

LEMMA SplitEndsKeepsFiles == FilesInv /\ SplitEnds => FilesInv'
<1> SUFFICES ASSUME FilesInv, SplitEnds PROVE FilesInv'
  OBVIOUS
<1>1. TypeOK'
  BY DEF FilesInv, TypeOK, SplitEnds
<1>2. ChunksPartitionSource'
  BY ChunksStay DEF FilesInv, SplitEnds
<1>3. SplitIsComplete'
  BY DEF FilesInv, SplitIsComplete, SplitEnds, AtEnd
<1>4. PartFollowsChunks' /\ RestoredFromChunks'
  BY DEF FilesInv, SplitEnds, PartFollowsChunks, RestoredFromChunks
<1> QED  BY <1>1, <1>2, <1>3, <1>4 DEF FilesInv

LEMMA CreatePartKeepsFiles == FilesInv /\ CreatePart => FilesInv'
<1> SUFFICES ASSUME FilesInv, CreatePart PROVE FilesInv'
  OBVIOUS
<1>1. TypeOK'
  BY DEF FilesInv, TypeOK, CreatePart
<1>2. ChunksPartitionSource'
  BY ChunksStay DEF FilesInv, CreatePart
<1>3. SplitIsComplete' /\ RestoredFromChunks'
  BY DEF FilesInv, SplitIsComplete, RestoredFromChunks, CreatePart, AtEnd
<1>4. PartFollowsChunks'
  <2>1. <<>> \in Seq(Piece) /\ Len(<<>>) = 0
    OBVIOUS
  <2>2. Len(part') = 0 /\ part' # None
    BY <2>1, PiecesAreNotNone DEF CreatePart
  <2>3. Len(chunks') \in Nat
    BY DEF FilesInv, TypeOK, CreatePart
  <2> QED  BY <2>2, <2>3 DEF PartFollowsChunks, CreatePart
<1> QED  BY <1>1, <1>2, <1>3, <1>4 DEF FilesInv

LEMMA AppendChunkKeepsFiles == FilesInv /\ AppendChunk => FilesInv'
<1> SUFFICES ASSUME FilesInv, AppendChunk PROVE FilesInv'
  OBVIOUS
<1> DEFINE next == chunks[Len(part) + 1]
<1>1. part \in Seq(Piece) /\ chunks \in Seq(Piece) /\ Len(part) < Len(chunks)
  BY DEF FilesInv, TypeOK, PartFollowsChunks, AppendChunk
<1>2. next \in Piece /\ part' = Append(part, next)
  BY <1>1 DEF AppendChunk
<1>3. part' \in Seq(Piece) /\ Len(part') = Len(part) + 1
  BY <1>1, <1>2
<1>4. TypeOK'
  BY <1>3 DEF FilesInv, TypeOK, AppendChunk
<1>5. ChunksPartitionSource'
  BY ChunksStay DEF FilesInv, AppendChunk
<1>6. SplitIsComplete' /\ RestoredFromChunks'
  BY DEF FilesInv, SplitIsComplete, RestoredFromChunks, AppendChunk, AtEnd
<1>7. PartFollowsChunks'
  <2>1. \A i \in 1 .. Len(part) : part'[i] = chunks[i]
    BY <1>1, <1>2 DEF FilesInv, PartFollowsChunks, AppendChunk, TypeOK
  <2>2. part'[Len(part) + 1] = next
    BY <1>1, <1>2
  <2>3. \A i \in 1 .. Len(part') : part'[i] = chunks[i]
    BY <2>1, <2>2, <1>1, <1>3
  <2>4. part' # None
    BY <1>3, PiecesAreNotNone
  <2> QED  BY <1>1, <1>3, <2>3, <2>4 DEF PartFollowsChunks, AppendChunk
<1> QED  BY <1>4, <1>5, <1>6, <1>7 DEF FilesInv

(* The .part file that is renamed is as long as the chunk files and agrees with
   them: it is them. *)
LEMMA RenameKeepsFiles == FilesInv /\ Rename => FilesInv'
<1> SUFFICES ASSUME FilesInv, Rename PROVE FilesInv'
  OBVIOUS
<1>1. part \in Seq(Piece) /\ chunks \in Seq(Piece) /\ Len(part) = Len(chunks)
  BY DEF FilesInv, TypeOK, PartFollowsChunks, Rename
<1>2. \A i \in 1 .. Len(part) : part[i] = chunks[i]
  BY <1>1, PiecesAreNotNone DEF FilesInv, PartFollowsChunks
<1>3. part = chunks
  BY <1>1, <1>2
<1>4. TypeOK'
  BY <1>1 DEF FilesInv, TypeOK, Rename
<1>5. ChunksPartitionSource'
  BY ChunksStay DEF FilesInv, Rename
<1>6. SplitIsComplete' /\ PartFollowsChunks'
  BY DEF FilesInv, SplitIsComplete, PartFollowsChunks, Rename, AtEnd
<1>7. RestoredFromChunks'
  BY <1>3 DEF RestoredFromChunks, Rename
<1> QED  BY <1>4, <1>5, <1>6, <1>7 DEF FilesInv

(* A file that is taken as it is, and an attempt that starts over. *)
LEMMA RetryKeepsFiles == FilesInv /\ (AlreadyRestored \/ Mishap) => FilesInv'
<1> SUFFICES ASSUME FilesInv, AlreadyRestored \/ Mishap PROVE FilesInv'
  OBVIOUS
<1>1. TypeOK'
  BY DEF FilesInv, TypeOK, AlreadyRestored, Mishap
<1>2. ChunksPartitionSource'
  BY ChunksStay DEF FilesInv, AlreadyRestored, Mishap
<1>3. SplitIsComplete'
  BY DEF FilesInv, SplitIsComplete, AlreadyRestored, Mishap, AtEnd
<1>4. PartFollowsChunks'
  BY DEF FilesInv, PartFollowsChunks, AlreadyRestored, Mishap
<1>5. RestoredFromChunks'
  BY DEF FilesInv, RestoredFromChunks, AlreadyRestored, Mishap
<1> QED  BY <1>1, <1>2, <1>3, <1>4, <1>5 DEF FilesInv

LEMMA StutterKeepsFiles == FilesInv /\ UNCHANGED vars => FilesInv'
  BY ChunksStay DEF FilesInv, TypeOK, SplitIsComplete, PartFollowsChunks,
                    RestoredFromChunks, AtEnd, vars

LEMMA FilesInvHolds == Spec => []FilesInv
<1>1. FilesInv /\ [Next]_vars => FilesInv'
  BY ReadKeepsFiles, WriteChunkKeepsFiles, SplitEndsKeepsFiles, CreatePartKeepsFiles,
     AppendChunkKeepsFiles, RenameKeepsFiles, RetryKeepsFiles, StutterKeepsFiles
     DEF Next, Step
<1> QED  BY InitFiles, <1>1, PTL DEF Spec

-----------------------------------------------------------------------------
(* Theorems.                                                               *)

(* What is read never exceeds the source or the buffer, and every chunk file is
   a piece of the source (split, processing.rs:139-170). *)
THEOREM TypeCorrect == Spec => []TypeOK
  BY FilesInvHolds, PTL DEF FilesInv

(* For every chunk size and length, and however short the reads are, split writes
   full chunks, but for the last of the source, without a gap or an overlap
   (processing.rs:139-170). *)
THEOREM ChunksPartition == Spec => []ChunksPartitionSource
  BY FilesInvHolds, PTL DEF FilesInv

(* A file that restore_original_file has given the original name is the whole
   source, whatever attempt was cut short before (processing.rs:172-211). *)
THEOREM RestoredWhole == Spec => []RestoredIsSource
<1>1. FilesInv => RestoredIsSource
  <2> SUFFICES ASSUME FilesInv, restored # None
               PROVE  Consecutive(restored, length) /\ length > 0
    BY DEF RestoredIsSource
  <2>1. restored = chunks /\ chunks # <<>> /\ pos - filled = length
    BY ConstantsAssumption
       DEF FilesInv, RestoredFromChunks, SplitIsComplete, AtEnd, TypeOK
  <2>2. Consecutive(chunks, length)
    BY <2>1 DEF FilesInv, ChunksPartitionSource
  <2>3. chunks \in Seq(Piece) /\ length \in Nat
    BY ConstantsAssumption DEF FilesInv, TypeOK
  <2> QED  BY <2>1, <2>2, <2>3, ChunksOfSomething
<1> QED  BY <1>1, FilesInvHolds, PTL
=============================================================================
