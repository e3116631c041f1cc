------------------------------ MODULE Oneshot ------------------------------
(***************************************************************************)
(* What the P2P loop and the network make of the oneshot channel that a    *)
(* caller sends along with RequestMetadata or RequestFileChunk.  Somebody  *)
(* owes every waiting caller an answer: a response to its own request, or  *)
(* None.  A request the network loses strands its caller, who is owed      *)
(* nothing any more and waits until it gives up; a loss strands one caller *)
(* at most, and nothing else strands any.                                  *)
(***************************************************************************)
EXTENDS Naturals

CONSTANTS Request, MaxLosses

VARIABLES
  channel,    \* how each request stands
  losses      \* requests that the network has lost

vars == <<channel, losses>>

Standings == {"idle", "waiting", "stranded", "some", "none", "gone"}

TypeOK == channel \in [Request -> Standings] /\ losses \in Nat

Init == channel = [r \in Request |-> "idle"] /\ losses = 0

Moves(r, from, to) == channel[r] = from /\ channel' = [channel EXCEPT ![r] = to]

Ask(r) == Moves(r, "idle", "waiting") /\ UNCHANGED losses

Answer(r) ==
  /\ Moves(r, "waiting", "some") \/ Moves(r, "waiting", "none")
  /\ UNCHANGED losses

GiveUp(r) ==
  /\ Moves(r, "waiting", "gone") \/ Moves(r, "stranded", "gone")
  /\ UNCHANGED losses

\* The request is lost, of a caller that waits or has gone.
Lose(r) ==
  /\ losses < MaxLosses
  /\ losses' = losses + 1
  /\ \/ Moves(r, "waiting", "stranded")
     \/ channel[r] = "gone" /\ UNCHANGED channel

Next == \E r \in Request : Ask(r) \/ Answer(r) \/ GiveUp(r) \/ Lose(r)

Spec == Init /\ [][Next]_vars
=============================================================================
