------------------------------ MODULE MCServing ------------------------------
(* Instances of Serving: a publisher and nodes that download from it. *)
EXTENDS Serving

CONSTANTS a, b, c, f, g, p, x, y

MCNames == [file \in File |-> IF file = f THEN x ELSE y]
MCNumChunks == [file \in File |-> IF file = f THEN 2 ELSE 1]

\* Two publishers; b downloads what a has, and c from both and from b what b
\* itself has still to complete.
MCPublishes == {<<a, f, p>>, <<b, g, p>>}
MCWants == {<<b, f, p>>, <<c, f, p>>, <<c, g, p>>}
=============================================================================
