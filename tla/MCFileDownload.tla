--------------------------- MODULE MCFileDownload ---------------------------
(* Instances of FileDownload: the constants that are functions, and bounds. *)
EXTENDS FileDownload, TLC

CONSTANTS f1, f2, t1, t2, k1, k2, p1, p2

MCNameOf == [f \in File |-> IF f = f1 THEN "a.txt" ELSE "b.txt"]
MCName == {MCNameOf[f] : f \in File}
MCPrefixOf == [n \in MCName |-> IF n = "a.txt" THEN "a_txt" ELSE "b_txt"]
MCPrefix == {MCPrefixOf[n] : n \in MCName}
MCMishaps == {"crash", "store", "lost", "write", "flush"}
MCLostReply == {"lost"}
MCLiveMishaps == {"crash", "store", "write"}
MCAnyCall == [k \in Call |-> File \X Path]
MCOneCallPerFile == [k \in Call |-> {<<IF k = k1 THEN f1 ELSE f2, p1>>}]
MCTwoChunks == [f \in File |-> 2]
MCOneChunk == [f \in File |-> 1]
MCSymmetry == Permutations(Task) \cup Permutations(Call)
=============================================================================
