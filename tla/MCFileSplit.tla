----------------------------- MODULE MCFileSplit -----------------------------
(* An instance of FileSplit: lengths about multiples of the chunk size. *)
EXTENDS FileSplit

MCLengths == 0 .. 3 * ChunkSize + 1
=============================================================================
