------------------------------ MODULE MCSearch ------------------------------
(* Instances of Search: two calls, for two values or for the same. *)
EXTENDS Search

CONSTANTS s1, s2, v1, v2, a, b, c, q

MCTwoValues == [s \in Search |-> IF s = s1 THEN v1 ELSE v2]
MCSameValue == [s \in Search |-> v1]
MCMatchesOf == [peer \in PeerSearch |-> Published]
MCResultsOf == [v \in Value |-> IF v = v1 THEN {a} ELSE {b}]
=============================================================================
