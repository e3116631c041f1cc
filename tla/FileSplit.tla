------------------------------ MODULE FileSplit ------------------------------
(***************************************************************************)
(* A file cut into chunk files by split, which reads as many bytes at a    *)
(* time as it is given, and put together again by restore_original_file,   *)
(* which writes a .part file and renames it.  Bytes are their offsets in   *)
(* the source file: a chunk file holds those from "from" up to "to".       *)
(***************************************************************************)
EXTENDS Integers, Sequences

CONSTANTS
  Lengths,       \* lengths of the source file
  ChunkSize,     \* CHUNK_SIZE (1 MiB in the code)
  MaxMishaps,    \* bound: crashes and failed writes in a behaviour
  None

ASSUME ConstantsAssumption ==
  /\ Lengths \subseteq Nat
  /\ ChunkSize \in Nat \ {0}
  /\ MaxMishaps \in Nat
  /\ None \notin Seq([from : Nat, to : Nat])

VARIABLES
  length,    \* length of the source
  pc,
  pos,       \* bytes read of it
  filled,    \* bytes in the buffer: the last ones read
  chunks,    \* the chunk files, in the order of their numbers
  part,      \* <name>.part: the pieces written to it, or None
  restored,  \* <name>: the pieces it is made of, or None
  mishaps

vars == <<length, pc, pos, filled, chunks, part, restored, mishaps>>

Piece == [from : Nat, to : Nat]

TypeOK ==
  /\ length \in Lengths
  /\ pc \in {"read", "refused", "restore", "write", "renamed"}
  /\ pos \in 0 .. length /\ filled \in 0 .. ChunkSize
  /\ chunks \in Seq(Piece)
  /\ part \in Seq(Piece) \cup {None}
  /\ restored \in Seq(Piece) \cup {None}
  /\ mishaps \in Nat

Init ==
  /\ length \in Lengths
  /\ pc = "read" /\ pos = 0 /\ filled = 0
  /\ chunks = <<>> /\ part = None /\ restored = None
  /\ mishaps = 0

AtEnd == pos = length

-----------------------------------------------------------------------------
(* split.                                                                  *)

\* Mutant of Read: the part of the buffer that is filled is offered again.
ReadIntoWhole ==
  /\ pc = "read" /\ filled < ChunkSize /\ ~AtEnd
  /\ \E n \in 1 .. ChunkSize :
       /\ n <= length - pos
       /\ pos' = pos + n /\ filled' = filled + n
  /\ UNCHANGED <<length, pc, chunks, part, restored, mishaps>>

\* read() gives some of the bytes that are left and have room in the buffer.
Read ==
  /\ pc = "read" /\ filled < ChunkSize /\ ~AtEnd
  /\ \E n \in 1 .. (ChunkSize - filled) :
       /\ n <= length - pos
       /\ pos' = pos + n /\ filled' = filled + n
  /\ UNCHANGED <<length, pc, chunks, part, restored, mishaps>>

\* Mutant of WriteChunk: what a short read has given is taken for a chunk.
WriteChunkShort ==
  /\ pc = "read" /\ filled > 0
  /\ chunks' = Append(chunks, [from |-> pos - filled, to |-> pos])
  /\ filled' = 0
  /\ UNCHANGED <<length, pc, pos, part, restored, mishaps>>

\* The buffer is full, or read() has given 0 bytes.
WriteChunk ==
  /\ pc = "read" /\ filled > 0
  /\ filled = ChunkSize \/ AtEnd
  /\ chunks' = Append(chunks, [from |-> pos - filled, to |-> pos])
  /\ filled' = 0
  /\ UNCHANGED <<length, pc, pos, part, restored, mishaps>>

\* Mutant of SplitEnds: the empty file is not told apart.
SplitEndsAnyway ==
  /\ pc = "read" /\ filled = 0 /\ AtEnd
  /\ pc' = "restore"
  /\ UNCHANGED <<length, pos, filled, chunks, part, restored, mishaps>>

\* Nothing is left.  A tree without leaves has no root: the file is refused.
SplitEnds ==
  /\ pc = "read" /\ filled = 0 /\ AtEnd
  /\ pc' = IF chunks = <<>> THEN "refused" ELSE "restore"
  /\ UNCHANGED <<length, pos, filled, chunks, part, restored, mishaps>>

-----------------------------------------------------------------------------
(* restore_original_file, on the node that has all the chunk files.        *)

\* The file is not there: File::create truncates the .part file.
CreatePart ==
  /\ pc = "restore" /\ restored = None
  /\ part' = <<>>
  /\ pc' = "write"
  /\ UNCHANGED <<length, pos, filled, chunks, restored, mishaps>>

\* A file of that name is taken as it is.
AlreadyRestored ==
  /\ pc = "restore" /\ restored # None
  /\ pc' = "renamed"
  /\ UNCHANGED <<length, pos, filled, chunks, part, restored, mishaps>>

AppendChunk ==
  /\ pc = "write" /\ Len(part) < Len(chunks)
  /\ part' = Append(part, chunks[Len(part) + 1])
  /\ UNCHANGED <<length, pc, pos, filled, chunks, restored, mishaps>>

\* Mutant of Rename: the file is written in place.
RenameEarly ==
  /\ pc = "write"
  /\ restored' = part /\ part' = None
  /\ pc' = "renamed"
  /\ UNCHANGED <<length, pos, filled, chunks, mishaps>>

\* All chunks are written and flushed: the .part file gets the file's name.
Rename ==
  /\ pc = "write" /\ Len(part) = Len(chunks)
  /\ restored' = part /\ part' = None
  /\ pc' = "renamed"
  /\ UNCHANGED <<length, pos, filled, chunks, mishaps>>

\* The node dies, or a read, a write or the store fails: the next attempt finds
\* the files as they are, the restored one, too, unless it was recorded.
Mishap ==
  /\ mishaps < MaxMishaps
  /\ mishaps' = mishaps + 1
  /\ pc \in {"write", "renamed"} /\ pc' = "restore"
  /\ UNCHANGED <<length, pos, filled, chunks, part, restored>>

Step ==
  \/ Read \/ WriteChunk \/ SplitEnds
  \/ CreatePart \/ AlreadyRestored \/ AppendChunk \/ Rename

Next == Step \/ Mishap

Spec == Init /\ [][Next]_vars

(* Every read, write and rename returns. *)
FairSpec == Spec /\ WF_vars(Step)

-----------------------------------------------------------------------------
(* Properties.                                                             *)

\* The pieces are the first n bytes of the source, one after the other.
Consecutive(pieces, n) ==
  /\ \A i \in 1 .. Len(pieces) :
       pieces[i].from = (IF i = 1 THEN 0 ELSE pieces[i - 1].to) /\ pieces[i].from < pieces[i].to
  /\ n = IF pieces = <<>> THEN 0 ELSE pieces[Len(pieces)].to

\* However the reads fall, the chunk files are what has been read, without a
\* gap or an overlap, and all but the last of the source are full: two nodes that
\* publish one file get the same chunks and key (processing.rs:139-170).
ChunksPartitionSource ==
  /\ Consecutive(chunks, pos - filled)
  /\ \A i \in 1 .. Len(chunks) :
       LET size == chunks[i].to - chunks[i].from IN
       size = ChunkSize \/ (chunks[i].to = length /\ size < ChunkSize)

\* A file of the original name is the whole source, whatever crash came while
\* its .part file was written, and is never empty (processing.rs:172-211).
RestoredIsSource == restored # None => Consecutive(restored, length) /\ length > 0

\* Every file is restored in the end, but the empty one, which is refused
\* (processing.rs:110-113).
RestoredOrEmpty == <>[](IF length = 0 THEN pc = "refused" ELSE restored # None)
=============================================================================
