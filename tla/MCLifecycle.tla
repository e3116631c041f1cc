----------------------------- MODULE MCLifecycle -----------------------------
(* An instance of Lifecycle: calls that compete for a place among the commands. *)
EXTENDS Lifecycle

CONSTANTS k1, s1, s2
=============================================================================
