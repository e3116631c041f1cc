------------------------- MODULE MCProviderRequests -------------------------
(* Instances of ProviderRequests. *)
EXTENDS ProviderRequests, TLC

CONSTANTS m1, c1, c2, p1, p2

MCKindOf == [r \in Request |-> IF r = m1 THEN "metadata" ELSE "chunk"]
=============================================================================
