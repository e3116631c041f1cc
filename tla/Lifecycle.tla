------------------------------ MODULE Lifecycle ------------------------------
(***************************************************************************)
(* The life of a node: main starts a server, the server spawns the P2P     *)
(* service and the gRPC service, each under a child of one cancellation    *)
(* token; Ctrl-C or the failure of a service cancels the token, and stop() *)
(* waits for both tasks.  gRPC waits for the calls in flight, these wait   *)
(* for the P2P loop, and what frees them is what the loop drops at its end:*)
(* the senders in its tables and the commands in its channel.              *)
(*                                                                         *)
(* A call of download_file waits for a oneshot.  A call of search leaves a *)
(* task behind that feeds its stream and, when the client is gone, sends   *)
(* FileSearchAbort into the channel the calls' commands go through.        *)
(***************************************************************************)
EXTENDS Naturals, FiniteSets, Sequences

CONSTANTS
  Download, Search,   \* calls of download_file and of search
  WithGrpc,           \* --grpc-port is given, or not
  MaxCommands,        \* bound on the command channel (100 in the code)
  MaxResults          \* bound on the channels of a search (64 in the code)

Call == Download \cup Search
Token == {"parent", "p2p", "grpc"}

ASSUME ConstantsAssumption ==
  /\ Download \cap Search = {}
  /\ WithGrpc \subseteq BOOLEAN
  /\ MaxCommands \in Nat \ {0} /\ MaxResults \in Nat \ {0}

VARIABLES
  main,        \* where main() is
  cancelled,   \* the tokens that are cancelled
  p2p, grpc,   \* the task of each service
  grpcPort,    \* the node has a gRPC service
  keysFull,    \* the Kademlia store takes no further key
  target,      \* the search whose channel the loop is sending into
  commands,    \* the command channel into the loop
  sender,      \* where the oneshot or result sender of each call is
  open,        \* calls whose handler or stream gRPC has not ended
  task,        \* the search_task of each search
  found,       \* results in the channel from the loop to it
  out          \* results in the channel from it to the client

services == <<p2p, grpc>>
config == <<grpcPort, keysFull>>
searches == <<task, found, out>>
calls == <<commands, sender, open>>
vars == <<main, cancelled, services, config, target, calls, searches>>

Ask(c) == [type |-> "call", of |-> c]
FileSearchAbort(c) == [type |-> "abort", of |-> c]
Command == {Ask(c) : c \in Call} \cup {FileSearchAbort(c) : c \in Search}

TypeOK ==
  /\ main \in {"init", "p2p", "grpc", "running", "stop_p2p", "stop_grpc", "exited"}
  /\ cancelled \subseteq Token
  /\ p2p \in {"absent", "starting", "loop", "publishing", "sending", "failed", "done"}
  /\ grpc \in {"absent", "starting", "serving", "draining", "failed", "done"}
  /\ grpcPort \in BOOLEAN /\ keysFull \in BOOLEAN
  /\ target \subseteq Search /\ Cardinality(target) <= 1
  /\ commands \in Seq(Command) /\ Len(commands) <= MaxCommands
  /\ sender \in [Call -> {"new", "sending", "queued", "held", "dropped"}]
  /\ open \subseteq Call
  /\ task \in [Search -> {"none", "select", "send", "abort", "ended"}]
  /\ found \in [Search -> 0 .. MaxResults]
  /\ out \in [Search -> 0 .. MaxResults]

Init ==
  /\ main = "init" /\ cancelled = {}
  /\ p2p = "absent" /\ grpc = "absent"
  /\ grpcPort \in WithGrpc /\ keysFull \in BOOLEAN
  /\ target = {} /\ commands = <<>>
  /\ sender = [c \in Call |-> "new"] /\ open = {}
  /\ task = [c \in Search |-> "none"]
  /\ found = [c \in Search |-> 0] /\ out = [c \in Search |-> 0]

\* Mutant of CancelAll: one child is forgotten.
CancelAllButGrpc == cancelled' = Token \ {"grpc"}

\* Cancelling a token cancels its children, also those still to be made.
CancelAll == cancelled' = Token

-----------------------------------------------------------------------------
(* main, Server::start and Server::stop.                                   *)

\* The base directory or the store cannot be opened: nothing is spawned.
StartFails ==
  /\ main = "init" /\ main' = "exited"
  /\ UNCHANGED <<cancelled, services, config, target, calls, searches>>

SpawnP2p ==
  /\ main = "init" /\ main' = "p2p"
  /\ p2p' = "starting"
  /\ UNCHANGED <<cancelled, grpc, config, target, calls, searches>>

SpawnGrpc ==
  /\ main = "p2p" /\ main' = "running"
  /\ grpc' = IF grpcPort THEN "starting" ELSE "absent"
  /\ UNCHANGED <<cancelled, p2p, config, target, calls, searches>>

\* Ctrl-C, or a service has cancelled the token; stop() cancels it again.
Stop ==
  /\ main = "running" /\ main' = "stop_p2p"
  /\ CancelAll
  /\ UNCHANGED <<services, config, target, calls, searches>>

CtrlC == cancelled = {} /\ Stop
TokenCancelled == "parent" \in cancelled /\ Stop

P2pEnded == p2p \in {"failed", "done"}
GrpcEnded == grpc \in {"absent", "failed", "done"}

JoinP2p ==
  /\ main = "stop_p2p" /\ P2pEnded
  /\ main' = "stop_grpc"
  /\ UNCHANGED <<cancelled, services, config, target, calls, searches>>

\* Mutant of JoinGrpc: stop() takes the first handle alone.
JoinGrpcUnawaited ==
  /\ main = "stop_grpc"
  /\ main' = "exited"
  /\ UNCHANGED <<cancelled, services, config, target, calls, searches>>

JoinGrpc ==
  /\ main = "stop_grpc" /\ GrpcEnded
  /\ main' = "exited"
  /\ UNCHANGED <<cancelled, services, config, target, calls, searches>>

MainStep == SpawnP2p \/ SpawnGrpc \/ TokenCancelled \/ JoinP2p \/ JoinGrpc

-----------------------------------------------------------------------------
(* The P2P service.                                                        *)

\* Mutant of DropChannel: what the loop's tables hold outlives the loop.
DropChannelOnly ==
  /\ sender' = [c \in Call |-> IF sender[c] \in {"sending", "queued"} THEN "dropped"
                                                                    ELSE sender[c]]
  /\ commands' = <<>> /\ target' = {}

\* The service's future is dropped with its tables and the channel's receiver:
\* no call waits for it any more.
DropChannel ==
  /\ sender' = [c \in Call |-> IF sender[c] = "new" THEN "new" ELSE "dropped"]
  /\ commands' = <<>> /\ target' = {}

\* Mutant of P2pFails: the service cancels its own token.
P2pFailsAlone ==
  /\ p2p = "starting" /\ p2p' = "failed"
  /\ cancelled' = cancelled \cup {"p2p"}
  /\ DropChannel
  /\ UNCHANGED <<main, grpc, config, open, searches>>

\* The swarm, a listener, the topic, a bootstrap peer or the offering of the
\* published files fails.
P2pFails ==
  /\ p2p = "starting" /\ p2p' = "failed"
  /\ CancelAll
  /\ DropChannel
  /\ UNCHANGED <<main, grpc, config, open, searches>>

P2pStarts ==
  /\ p2p = "starting" /\ p2p' = "loop"
  /\ UNCHANGED <<main, cancelled, grpc, config, target, calls, searches>>

Moves(c, next) == sender' = [sender EXCEPT ![c] = next]

Takes(command) ==
  /\ p2p = "loop" /\ commands # <<>> /\ command = Head(commands)
  /\ commands' = Tail(commands)
  /\ UNCHANGED <<main, cancelled, services, config, target, open, searches>>

\* A command is taken: its sender enters the loop's tables, or is dropped with
\* the command (no search topic, or gossipsub refuses the message).
TakeCommand(c) ==
  /\ Takes(Ask(c))
  /\ Moves(c, "held") \/ (c \in Search /\ Moves(c, "dropped"))

\* The session is removed, if there is one.
TakeAbort(c) ==
  /\ Takes(FileSearchAbort(c))
  /\ IF sender[c] = "held" THEN Moves(c, "dropped") ELSE UNCHANGED sender

\* The loop has an answer for a download_file call, or none.
AnswerCall(c) ==
  /\ p2p = "loop" /\ c \in Download /\ sender[c] = "held"
  /\ Moves(c, "dropped")
  /\ UNCHANGED <<main, cancelled, services, config, target, commands, open, searches>>

\* A search result has come for a session: file_search_results awaits a place
\* in its channel.
ReceiveResult(c) ==
  /\ p2p = "loop" /\ c \in Search /\ sender[c] = "held"
  /\ p2p' = "sending" /\ target' = {c}
  /\ UNCHANGED <<main, cancelled, grpc, config, calls, searches>>

\* Mutant of SendResult: the channel has no bound.
SendResultUnbounded(c) ==
  /\ p2p = "sending" /\ target = {c}
  /\ found' = [found EXCEPT ![c] = @ + 1]
  /\ p2p' = "loop" /\ target' = {}
  /\ UNCHANGED <<main, cancelled, grpc, config, calls, task, out>>

\* There is a place; the receiver lives as long as the loop keeps the sender.
SendResult(c) == found[c] < MaxResults /\ SendResultUnbounded(c)

TakeJob ==
  /\ p2p = "loop" /\ p2p' = "publishing"
  /\ UNCHANGED <<main, cancelled, grpc, config, target, calls, searches>>

\* file_publish returns once every key is offered.
JobPublished ==
  /\ p2p = "publishing" /\ ~keysFull
  /\ p2p' = "loop"
  /\ UNCHANGED <<main, cancelled, grpc, config, target, calls, searches>>

\* select! is biased: the token is looked at when no command is waiting.
P2pCancelled ==
  /\ p2p = "loop" /\ "p2p" \in cancelled
  /\ commands = <<>>
  /\ p2p' = "done"
  /\ DropChannel
  /\ UNCHANGED <<main, cancelled, grpc, config, open, searches>>

TakesCommand == \E c \in Call : TakeCommand(c) \/ TakeAbort(c)

P2pStep ==
  \/ P2pStarts \/ JobPublished \/ TakesCommand
  \/ \E c \in Search : SendResult(c)

-----------------------------------------------------------------------------
(* The gRPC service.                                                       *)

\* The port is taken.
GrpcFails ==
  /\ grpc = "starting" /\ grpc' = "failed"
  /\ CancelAll
  /\ UNCHANGED <<main, p2p, config, target, calls, searches>>

GrpcStarts ==
  /\ grpc = "starting" /\ grpc' = "serving"
  /\ UNCHANGED <<main, cancelled, p2p, config, target, calls, searches>>

\* serve_with_shutdown: no new call is taken ...
GrpcCancelled ==
  /\ grpc = "serving" /\ "grpc" \in cancelled
  /\ grpc' = "draining"
  /\ UNCHANGED <<main, cancelled, p2p, config, target, calls, searches>>

\* ... and those in flight are waited for; search tasks are not.
GrpcDrained ==
  /\ grpc = "draining" /\ open = {}
  /\ grpc' = "done"
  /\ UNCHANGED <<main, cancelled, p2p, config, target, calls, searches>>

GrpcStep == GrpcStarts \/ GrpcCancelled \/ GrpcDrained

-----------------------------------------------------------------------------
(* Calls and their clients.                                                *)

OnlyCalls == UNCHANGED <<main, cancelled, services, config, target>>

StartCall(c) ==
  /\ grpc = "serving" /\ sender[c] = "new"
  /\ Moves(c, IF P2pEnded THEN "dropped" ELSE "sending")
  /\ open' = open \cup {c}
  /\ OnlyCalls /\ UNCHANGED <<commands, searches>>

\* The command has a place; search spawns its task and returns the stream.
SendCommand(c) ==
  /\ sender[c] = "sending" /\ Len(commands) < MaxCommands
  /\ Moves(c, "queued")
  /\ commands' = Append(commands, Ask(c))
  /\ task' = IF c \in Search THEN [task EXCEPT ![c] = "select"] ELSE task
  /\ OnlyCalls /\ UNCHANGED <<open, found, out>>

Ends(c) ==
  /\ c \in open /\ open' = open \ {c}
  /\ OnlyCalls /\ UNCHANGED <<commands, sender, searches>>

\* The answer or the error status goes to the client.
DownloadEnds(c) == c \in Download /\ sender[c] = "dropped" /\ Ends(c)

\* The command could not be sent, or the task has ended and dropped the sender
\* of a stream that is read to its end.
StreamEnds(c) ==
  /\ c \in Search /\ sender[c] = "dropped"
  /\ task[c] \in {"none", "ended"} /\ out[c] = 0
  /\ Ends(c)

ReadResult(c) ==
  /\ c \in Search \cap open /\ out[c] > 0
  /\ out' = [out EXCEPT ![c] = @ - 1]
  /\ OnlyCalls /\ UNCHANGED <<calls, task, found>>

\* The client hangs up: the handler or the stream is dropped, a command that
\* is sent already is not.
HangUp(c) ==
  /\ c \in open /\ open' = open \ {c}
  /\ IF sender[c] = "sending" THEN Moves(c, "dropped") ELSE UNCHANGED sender
  /\ out' = IF c \in Search THEN [out EXCEPT ![c] = 0] ELSE out
  /\ OnlyCalls /\ UNCHANGED <<commands, task, found>>

-----------------------------------------------------------------------------
(* search_task: select! between the results and a ticker.                  *)

TaskGoes(c, next) ==
  /\ task' = [task EXCEPT ![c] = next]
  /\ OnlyCalls /\ UNCHANGED <<sender, open>>

\* A result is taken; one sent before, or of a file of this node, is skipped.
TakeResult(c) ==
  /\ task[c] = "select" /\ found[c] > 0
  /\ found' = [found EXCEPT ![c] = @ - 1]
  /\ TaskGoes(c, "send") \/ TaskGoes(c, "select")
  /\ UNCHANGED <<commands, out>>

\* It is handed on when there is a place, or the client turns out to be gone.
ForwardResult(c) ==
  /\ task[c] = "send"
  /\ \/ c \in open /\ out[c] < MaxResults
        /\ out' = [out EXCEPT ![c] = @ + 1]
        /\ TaskGoes(c, "select")
     \/ c \notin open /\ UNCHANGED out /\ TaskGoes(c, "abort")
  /\ UNCHANGED <<commands, found>>

\* A tick finds the stream closed.
Tick(c) ==
  /\ task[c] = "select" /\ c \notin open
  /\ TaskGoes(c, "abort")
  /\ UNCHANGED <<commands, found, out>>

\* FileSearchAbort awaits a place among the commands, or the channel is closed.
SendAbort(c) ==
  /\ task[c] = "abort"
  /\ \/ P2pEnded /\ UNCHANGED commands
     \/ /\ ~P2pEnded /\ Len(commands) < MaxCommands
        /\ commands' = Append(commands, FileSearchAbort(c))
  /\ TaskGoes(c, "select")
  /\ UNCHANGED <<found, out>>

\* The sender is dropped and the channel empty.
TaskEnds(c) ==
  /\ task[c] = "select" /\ sender[c] = "dropped" /\ found[c] = 0
  /\ TaskGoes(c, "ended")
  /\ UNCHANGED <<commands, found, out>>

CallStep(c) == SendCommand(c) \/ DownloadEnds(c) \/ StreamEnds(c) \/ ReadResult(c)
TaskAwaits(c) == ForwardResult(c) \/ SendAbort(c)
TaskReceives(c) == TakeResult(c) \/ TaskEnds(c)
TaskStep(c) == TaskAwaits(c) \/ TaskReceives(c) \/ Tick(c)

Next ==
  \/ StartFails \/ CtrlC \/ MainStep
  \/ P2pFails \/ P2pStep \/ TakeJob \/ P2pCancelled
  \/ GrpcFails \/ GrpcStep
  \/ \E c \in Call : StartCall(c) \/ CallStep(c) \/ HangUp(c) \/ AnswerCall(c)
                     \/ ReceiveResult(c)
  \/ \E c \in Search : TaskStep(c)

Spec == Init /\ [][Next]_vars

(***************************************************************************)
(* Fairness: tokio runs main, both services, the calls and the tasks, and a*)
(* client reads the stream it holds open.  The loop comes to look at its   *)
(* commands and its token: swarm events, which come first in the biased    *)
(* select!, are not always there.  The select! of a search task comes to   *)
(* its results: the ticker is ready once a second only.                    *)
(* No peer has to answer, and a job need not end.                          *)
(***************************************************************************)
Fairness ==
  /\ WF_vars(MainStep) /\ WF_vars(P2pStep) /\ WF_vars(GrpcStep)
  /\ SF_vars(TakesCommand) /\ SF_vars(P2pCancelled)
  /\ \A c \in Call : WF_vars(CallStep(c))
  /\ \A c \in Search : WF_vars(TaskAwaits(c)) /\ SF_vars(TaskReceives(c))

FairSpec == Spec /\ Fairness

-----------------------------------------------------------------------------
(* Properties.                                                             *)

\* The loop is held in provide_all by a full key store (events.rs:239-242).
HeldByJob == p2p = "publishing" /\ keysFull

\* The loop awaits room in the channel of an abandoned search (events.rs:334)
\* whose task awaits room in the full command channel (grpc/server.rs:234, 249).
HeldBySearch ==
  /\ p2p = "sending" /\ Len(commands) = MaxCommands
  /\ \A c \in target : found[c] = MaxResults /\ task[c] = "abort"

Held == HeldByJob \/ HeldBySearch

\* When main returns, every service has ended and no call is left waiting for
\* an answer (main.rs:28-33, server.rs:90-106).
ExitIsClean ==
  main = "exited" =>
    /\ p2p \in {"absent", "failed", "done"} /\ GrpcEnded
    /\ open = {}

\* Once the token is cancelled the node exits, although gRPC waits for calls,
\* calls wait for the loop and stop() waits for both.  Two things alone can hold
\* it for good: a job that the key store refuses, and a full command channel
\* with an abandoned search the loop is sending to (main.rs:28-33,
\* server.rs:90-106, service.rs:212-228, grpc/server.rs:204-259, 283-305).
StopReturns == "parent" \in cancelled ~> main = "exited" \/ Held

\* A service that fails takes the node down (server.rs:80-84), held or not held
\* by the same two.
FailureStopsNode == p2p = "failed" \/ grpc = "failed" ~> main = "exited" \/ Held

\* No call outlives the loop it waits for, no search task either
\* (events.rs:60-65, server.rs:62, grpc/server.rs:219-223).
CallsEndWithLoop ==
  P2pEnded ~> open = {} /\ \A c \in Search : task[c] \in {"none", "ended"}
=============================================================================
