----------------------------- MODULE Replication -----------------------------
(***************************************************************************)
(* What a network of nodes promises: a file enters the network where it is *)
(* published; a node whose download of a file was accepted holds it in the *)
(* end; a download is accepted only of a file that some node holds; and a  *)
(* node that holds a file keeps it.                                        *)
(***************************************************************************)
CONSTANTS Node, File,
          Publishes     \* who may publish which file

VARIABLES holders,      \* the nodes that hold each file
          wanted        \* the nodes whose download of it is under way

vars == <<holders, wanted>>

Init ==
  /\ holders = [f \in File |-> {}]
  /\ wanted = [f \in File |-> {}]

Publish(n, f) ==
  /\ <<n, f>> \in Publishes
  /\ holders' = [holders EXCEPT ![f] = @ \cup {n}]
  /\ UNCHANGED wanted

Accept(n, f) ==
  /\ holders[f] # {} /\ n \notin holders[f]
  /\ wanted' = [wanted EXCEPT ![f] = @ \cup {n}]
  /\ UNCHANGED holders

Complete(n, f) ==
  /\ n \in wanted[f]
  /\ holders' = [holders EXCEPT ![f] = @ \cup {n}]
  /\ wanted' = [wanted EXCEPT ![f] = @ \ {n}]

Next == \E n \in Node, f \in File : Publish(n, f) \/ Accept(n, f) \/ Complete(n, f)

SafetySpec == Init /\ [][Next]_vars

Spec ==
  /\ SafetySpec
  /\ \A n \in Node, f \in File : WF_vars(Complete(n, f))
=============================================================================
