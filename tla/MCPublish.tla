------------------------------ MODULE MCPublish ------------------------------
(* Instances of Publish: a file of two chunks and others of one.           *)
EXTENDS Publish

CONSTANTS f1, f2, f3, k1, k2, k3, p1, p2, p3

MCPathOf == [f \in File |-> CASE f = f1 -> p1 [] f = f2 -> p2 [] f = f3 -> p3]
MCNumChunks == [f \in File |-> IF f = f2 THEN 2 ELSE 1]
MCFileOf == [k \in Call |-> IF k = k2 THEN f2 ELSE f1]
=============================================================================
