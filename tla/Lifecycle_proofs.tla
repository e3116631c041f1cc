--------------------------- MODULE Lifecycle_proofs ---------------------------
(***************************************************************************)
(* Theorems about Lifecycle, for every set of calls and capacity of the    *)
(* channels: main returns after both services and with no call waiting, no *)
(* service ends unless the whole node is told to stop, and no call waits   *)
(* for a loop that has ended.                                              *)
(***************************************************************************)
EXTENDS Lifecycle, FiniteSetTheorems, TLAPS

(* What main has spawned and joined. *)
Phases ==
  /\ main = "init" => p2p = "absent"
  /\ main \in {"init", "p2p"} => grpc = "absent"
  /\ main = "stop_grpc" => P2pEnded
  /\ main = "exited" => (p2p = "absent" \/ P2pEnded) /\ GrpcEnded

(* No call is there before gRPC serves, and none is open when it is done. *)
CallsServed ==
  /\ grpc \in {"absent", "starting", "failed"} =>
       /\ commands = <<>>
       /\ \A c \in Call : sender[c] = "new"
       /\ \A c \in Search : task[c] = "none"
  /\ grpc \in {"absent", "starting", "failed", "done"} => open = {}

(* A service that fails or ends does so with the token of the whole node cancelled:
   the other service and main are told (server.rs:49-84). *)
NobodyEndsAlone ==
  /\ cancelled \in {{}, Token}
  /\ P2pEnded \/ grpc \in {"draining", "failed", "done"} => cancelled = Token
  /\ main \in {"stop_p2p", "stop_grpc"} => cancelled = Token

(* No call waits for a loop that has ended: what its commands and tables held was
   dropped with it, and a call that comes later finds the channel closed
   (events.rs:60-65, server.rs:62). *)
NobodyWaitsForEndedLoop ==
  P2pEnded => commands = <<>> /\ \A c \in Call : sender[c] \in {"new", "dropped"}

IInv == TypeOK /\ Phases /\ CallsServed /\ NobodyEndsAlone /\ NobodyWaitsForEndedLoop

-----------------------------------------------------------------------------

(* A sender moves on: the others stay where they are. *)
LEMMA OneMoves ==
  ASSUME TypeOK, NEW c \in Call,
         NEW next \in {"new", "sending", "queued", "held", "dropped"}, Moves(c, next)
  PROVE  /\ sender' \in [Call -> {"new", "sending", "queued", "held", "dropped"}]
         /\ sender'[c] = next
         /\ \A d \in Call \ {c} : sender'[d] = sender[d]
  BY DEF Moves, TypeOK

(* A command joins the queue where there is a place, and the first one leaves it. *)
LEMMA QueueBounded ==
  ASSUME TypeOK
  PROVE  /\ commands # <<>> => /\ Head(commands) \in Command
                              /\ Tail(commands) \in Seq(Command)
                              /\ Len(Tail(commands)) <= MaxCommands
         /\ \A x \in Command : Len(commands) < MaxCommands =>
              /\ Append(commands, x) \in Seq(Command)
              /\ Len(Append(commands, x)) <= MaxCommands
<1>1. MaxCommands \in Nat /\ commands \in Seq(Command) /\ Len(commands) <= MaxCommands
  BY ConstantsAssumption DEF TypeOK
<1>2. commands # <<>> => /\ Head(commands) \in Command
                         /\ Tail(commands) \in Seq(Command)
                         /\ Len(Tail(commands)) = Len(commands) - 1
                         /\ Len(commands) \in Nat
  BY <1>1
<1>3. \A x \in Command : /\ Append(commands, x) \in Seq(Command)
                         /\ Len(Append(commands, x)) = Len(commands) + 1
                         /\ Len(commands) \in Nat
  BY <1>1
<1> HIDE DEF Command
<1> QED  BY <1>1, <1>2, <1>3

LEMMA InitInv == Init => IInv
<1> SUFFICES ASSUME Init PROVE IInv
  OBVIOUS
<1>1. TypeOK
  <2>1. Cardinality(target) <= 1
    BY FS_EmptySet DEF Init
  <2>2. commands \in Seq(Command) /\ Len(commands) <= MaxCommands
    BY ConstantsAssumption DEF Init
  <2> QED  BY <2>1, <2>2, ConstantsAssumption DEF Init, TypeOK
<1>2. Phases /\ CallsServed /\ NobodyEndsAlone /\ NobodyWaitsForEndedLoop
  BY DEF Init, Phases, CallsServed, NobodyEndsAlone, NobodyWaitsForEndedLoop, P2pEnded,
         GrpcEnded, Token
<1> QED  BY <1>1, <1>2 DEF IInv

(* main, Server::start and Server::stop. *)
LEMMA MainKeeps ==
  ASSUME IInv, StartFails \/ CtrlC \/ MainStep
  PROVE  IInv'
<1> USE DEF services, config, calls, searches, P2pEnded, GrpcEnded
<1>1. UNCHANGED <<target, calls, searches, grpcPort, keysFull>>
  BY DEF StartFails, CtrlC, MainStep, SpawnP2p, SpawnGrpc, TokenCancelled, Stop, JoinP2p,
         JoinGrpc
<1>2. TypeOK'
  BY <1>1 DEF IInv, TypeOK, StartFails, CtrlC, MainStep, SpawnP2p, SpawnGrpc,
              TokenCancelled, Stop, JoinP2p, JoinGrpc, CancelAll
<1>3. Phases'
  BY DEF IInv, Phases, StartFails, CtrlC, MainStep, SpawnP2p, SpawnGrpc,
         TokenCancelled, Stop, JoinP2p, JoinGrpc
<1>4. CallsServed'
  BY <1>1 DEF IInv, Phases, CallsServed, StartFails, CtrlC, MainStep, SpawnP2p, SpawnGrpc,
              TokenCancelled, Stop, JoinP2p, JoinGrpc
<1>5. NobodyEndsAlone'
  BY DEF IInv, NobodyEndsAlone, StartFails, CtrlC, MainStep, SpawnP2p, SpawnGrpc,
         TokenCancelled, Stop, JoinP2p, JoinGrpc, CancelAll
<1>6. NobodyWaitsForEndedLoop'
  BY <1>1 DEF IInv, NobodyWaitsForEndedLoop, StartFails, CtrlC, MainStep, SpawnP2p,
              SpawnGrpc, TokenCancelled, Stop, JoinP2p, JoinGrpc
<1> QED  BY <1>2, <1>3, <1>4, <1>5, <1>6 DEF IInv

(* The P2P service fails or is cancelled: what waited for it is dropped. *)
LEMMA P2pEndKeeps ==
  ASSUME IInv, P2pFails \/ P2pCancelled
  PROVE  IInv'
<1> USE DEF config, searches, P2pEnded, GrpcEnded
<1>1. /\ UNCHANGED <<main, grpc, open, searches, grpcPort, keysFull>>
      /\ p2p \in {"starting", "loop"} /\ p2p' \in {"failed", "done"}
      /\ commands' = <<>> /\ target' = {}
      /\ sender' = [c \in Call |-> IF sender[c] = "new" THEN "new" ELSE "dropped"]
      /\ cancelled' = Token
  BY DEF P2pFails, P2pCancelled, DropChannel, CancelAll, IInv, NobodyEndsAlone
<1>2. TypeOK'
  <2>1. Cardinality(target') <= 1
    BY <1>1, FS_EmptySet
  <2>2. commands' \in Seq(Command) /\ Len(commands') <= MaxCommands
    BY <1>1, ConstantsAssumption
  <2>3. sender' \in [Call -> {"new", "sending", "queued", "held", "dropped"}]
    BY <1>1
  <2> QED  BY <1>1, <2>1, <2>2, <2>3 DEF IInv, TypeOK
<1>3. \A c \in Call : /\ sender'[c] \in {"new", "dropped"}
                      /\ sender[c] = "new" => sender'[c] = "new"
  BY <1>1
<1>4. Phases'
  BY <1>1 DEF IInv, Phases
<1>5. CallsServed'
  BY <1>1, <1>3 DEF IInv, CallsServed
<1>6. NobodyEndsAlone' /\ NobodyWaitsForEndedLoop'
  BY <1>1, <1>3 DEF NobodyEndsAlone, NobodyWaitsForEndedLoop, Token
<1> QED  BY <1>2, <1>4, <1>5, <1>6 DEF IInv

(* What the loop does between its commands leaves the calls alone. *)
LEMMA LoopKeeps ==
  ASSUME IInv,
         \/ P2pStarts \/ JobPublished \/ TakeJob
         \/ \E c \in Call : SendResult(c) \/ ReceiveResult(c)
  PROVE  IInv'
<1> USE DEF config, searches, services, calls
<1>1. /\ UNCHANGED <<main, cancelled, grpc, grpcPort, keysFull, calls, task, out>>
      /\ p2p \in {"starting", "loop", "publishing", "sending"}
      /\ p2p' \in {"loop", "publishing", "sending"}
  BY DEF P2pStarts, JobPublished, TakeJob, SendResult, SendResultUnbounded, ReceiveResult
<1>2. target' \subseteq Search /\ Cardinality(target') <= 1
  <2>1. UNCHANGED target \/ target' = {} \/ \E c \in Search : target' = {c}
    BY DEF P2pStarts, JobPublished, TakeJob, SendResult, SendResultUnbounded, ReceiveResult
  <2>2. target \subseteq Search /\ Cardinality(target) <= 1
    BY DEF IInv, TypeOK
  <2>3. Cardinality({}) <= 1
    BY FS_EmptySet
  <2>4. ASSUME NEW c \in Search PROVE Cardinality({c}) <= 1
    <3>1. Cardinality({c}) = 1
      BY FS_Singleton
    <3> QED  BY <3>1
  <2> QED  BY <2>1, <2>2, <2>3, <2>4
<1>3. found' \in [Search -> 0 .. MaxResults]
  <2>1. \/ UNCHANGED found
        \/ \E c \in Search : found[c] < MaxResults /\ found' = [found EXCEPT ![c] = @ + 1]
    BY DEF P2pStarts, JobPublished, TakeJob, SendResult, SendResultUnbounded, ReceiveResult,
           IInv, TypeOK
  <2>2. found \in [Search -> 0 .. MaxResults] /\ MaxResults \in Nat
    BY ConstantsAssumption DEF IInv, TypeOK
  <2>3. \A c \in Search : found[c] < MaxResults => found[c] + 1 \in 0 .. MaxResults
    BY <2>2
  <2> QED  BY <2>1, <2>2, <2>3
<1>4. TypeOK'
  BY <1>1, <1>2, <1>3 DEF IInv, TypeOK
<1>5. Phases' /\ CallsServed'
  BY <1>1 DEF IInv, Phases, CallsServed, P2pEnded, GrpcEnded
<1>6. NobodyEndsAlone' /\ NobodyWaitsForEndedLoop'
  BY <1>1 DEF IInv, NobodyEndsAlone, NobodyWaitsForEndedLoop, P2pEnded
<1> QED  BY <1>4, <1>5, <1>6 DEF IInv

(* The loop takes a command or answers a call: one sender may move on. *)
LEMMA CommandsKeep ==
  ASSUME IInv, NEW c \in Call, TakeCommand(c) \/ TakeAbort(c) \/ AnswerCall(c)
  PROVE  IInv'
<1> USE DEF config, searches, services
<1>1. /\ UNCHANGED <<main, cancelled, p2p, grpc, grpcPort, keysFull, target, open, searches>>
      /\ p2p = "loop"
      /\ \/ UNCHANGED commands
         \/ commands # <<>> /\ commands' = Tail(commands)
      /\ \/ UNCHANGED sender
         \/ \E next \in {"held", "dropped"} : Moves(c, next)
  BY DEF TakeCommand, TakeAbort, AnswerCall, Takes
<1>2. commands' \in Seq(Command) /\ Len(commands') <= MaxCommands
  BY <1>1, QueueBounded DEF IInv, TypeOK
<1>3. sender' \in [Call -> {"new", "sending", "queued", "held", "dropped"}]
  BY <1>1, OneMoves DEF IInv, TypeOK
<1>4. TypeOK'
  BY <1>1, <1>2, <1>3 DEF IInv, TypeOK
<1>5. Phases' /\ NobodyEndsAlone' /\ NobodyWaitsForEndedLoop'
  BY <1>1 DEF IInv, Phases, NobodyEndsAlone, NobodyWaitsForEndedLoop, P2pEnded, GrpcEnded
<1>6. CallsServed'
  <2>1. grpc \notin {"absent", "starting", "failed"}
    BY DEF IInv, CallsServed, TakeCommand, TakeAbort, AnswerCall, Takes, Call
  <2> QED  BY <1>1, <2>1 DEF IInv, CallsServed
<1> QED  BY <1>4, <1>5, <1>6 DEF IInv

(* The gRPC service. *)
LEMMA GrpcKeeps ==
  ASSUME IInv, GrpcFails \/ GrpcStep
  PROVE  IInv'
<1> USE DEF config, calls, searches, P2pEnded, GrpcEnded
<1>1. /\ UNCHANGED <<main, p2p, target, calls, searches, grpcPort, keysFull>>
      /\ grpc \in {"starting", "serving", "draining"}
      /\ grpc' \in {"failed", "serving", "draining", "done"}
      /\ cancelled' \in {cancelled, Token}
  BY DEF GrpcFails, GrpcStep, GrpcStarts, GrpcCancelled, GrpcDrained, CancelAll
<1>2. TypeOK'
  BY <1>1 DEF IInv, TypeOK
<1>3. Phases'
  BY <1>1 DEF IInv, Phases
<1>4. CallsServed'
  BY <1>1 DEF IInv, CallsServed, GrpcFails, GrpcStep, GrpcStarts, GrpcCancelled, GrpcDrained
<1>5. NobodyEndsAlone'
  <2>1. grpc' \in {"failed", "draining", "done"} => cancelled' = Token
    BY <1>1 DEF IInv, NobodyEndsAlone, GrpcFails, GrpcStep, GrpcStarts, GrpcCancelled,
                GrpcDrained, CancelAll
  <2> QED  BY <1>1, <2>1 DEF IInv, NobodyEndsAlone, Token
<1>6. NobodyWaitsForEndedLoop'
  BY <1>1 DEF IInv, NobodyWaitsForEndedLoop
<1> QED  BY <1>2, <1>3, <1>4, <1>5, <1>6 DEF IInv

(* Calls and their clients. *)
LEMMA CallsKeep ==
  ASSUME IInv, NEW c \in Call, StartCall(c) \/ CallStep(c) \/ HangUp(c)
  PROVE  IInv'
<1> USE DEF config, searches, services, calls, OnlyCalls, Ends
<1>1. UNCHANGED <<main, cancelled, p2p, grpc, target, grpcPort, keysFull>>
  BY DEF StartCall, CallStep, SendCommand, DownloadEnds, StreamEnds, ReadResult, HangUp
<1>2. \/ UNCHANGED sender
      \/ \E next \in {"sending", "queued", "dropped"} :
           /\ Moves(c, next)
           /\ sender[c] = "new" => grpc = "serving"
           /\ P2pEnded => next = "dropped" \/ sender[c] = "sending"
  BY DEF StartCall, CallStep, SendCommand, DownloadEnds, StreamEnds, ReadResult, HangUp
<1>3. /\ sender' \in [Call -> {"new", "sending", "queued", "held", "dropped"}]
      /\ \A d \in Call : sender[d] = "new" /\ grpc # "serving" => sender'[d] = "new"
  BY <1>2, OneMoves DEF IInv, TypeOK
<1>4. /\ commands' \in Seq(Command) /\ Len(commands') <= MaxCommands
      /\ UNCHANGED commands \/ sender[c] = "sending"
  <2>1. CASE UNCHANGED commands
    BY <2>1 DEF IInv, TypeOK
  <2>2. CASE SendCommand(c)
    BY <2>2, QueueBounded DEF SendCommand, Command, IInv
  <2> QED
    BY <2>1, <2>2 DEF StartCall, CallStep, DownloadEnds, StreamEnds, ReadResult, HangUp
<1>5. /\ open' \subseteq Call
      /\ grpc # "serving" => open' \subseteq open
  BY DEF IInv, TypeOK, StartCall, CallStep, SendCommand, DownloadEnds, StreamEnds,
         ReadResult, HangUp
<1>6. /\ task' \in [Search -> {"none", "select", "send", "abort", "ended"}]
      /\ UNCHANGED task \/ sender[c] = "sending"
  BY DEF IInv, TypeOK, StartCall, CallStep, SendCommand, DownloadEnds, StreamEnds,
         ReadResult, HangUp
<1>7. found' = found /\ out' \in [Search -> 0 .. MaxResults]
  <2>1. CASE UNCHANGED <<found, out>>
    BY <2>1 DEF IInv, TypeOK
  <2>2. CASE ReadResult(c)
    BY <2>2, ConstantsAssumption DEF ReadResult, IInv, TypeOK
  <2>3. CASE HangUp(c)
    BY <2>3, ConstantsAssumption DEF HangUp, IInv, TypeOK
  <2> QED
    BY <2>1, <2>2, <2>3 DEF StartCall, CallStep, SendCommand, DownloadEnds, StreamEnds
<1>8. TypeOK'
  BY <1>1, <1>3, <1>4, <1>5, <1>6, <1>7 DEF IInv, TypeOK
<1>9. Phases' /\ NobodyEndsAlone'
  BY <1>1 DEF IInv, Phases, NobodyEndsAlone, P2pEnded, GrpcEnded
<1>10. CallsServed'
  BY <1>1, <1>3, <1>4, <1>5, <1>6 DEF IInv, CallsServed
<1>11. NobodyWaitsForEndedLoop'
  <2>1. ASSUME P2pEnded
        PROVE  commands' = <<>> /\ \A d \in Call : sender'[d] \in {"new", "dropped"}
    <3>1. sender[c] # "sending"
      BY <2>1 DEF IInv, NobodyWaitsForEndedLoop
    <3>2. commands' = <<>>
      BY <2>1, <3>1, <1>4 DEF IInv, NobodyWaitsForEndedLoop
    <3>3. \A d \in Call : sender'[d] \in {"new", "dropped"}
      BY <2>1, <3>1, <1>2, OneMoves DEF IInv, NobodyWaitsForEndedLoop
    <3> QED  BY <3>2, <3>3
  <2> QED  BY <1>1, <2>1 DEF NobodyWaitsForEndedLoop, P2pEnded
<1> QED  BY <1>8, <1>9, <1>10, <1>11 DEF IInv

(* The search tasks: they move no sender and open no call. *)
LEMMA TasksKeep ==
  ASSUME IInv, NEW c \in Search, TaskStep(c)
  PROVE  IInv'
<1> USE DEF config, services, OnlyCalls, TaskGoes
<1>1. UNCHANGED <<main, cancelled, p2p, grpc, target, grpcPort, keysFull, sender, open>>
  BY DEF TaskStep, TaskAwaits, TaskReceives, ForwardResult, SendAbort, TakeResult, TaskEnds,
         Tick
<1>2. /\ task[c] # "none"
      /\ \E next \in {"select", "send", "abort", "ended"} : task' = [task EXCEPT ![c] = next]
  BY DEF TaskStep, TaskAwaits, TaskReceives, ForwardResult, SendAbort, TakeResult, TaskEnds,
         Tick
<1>3. /\ commands' \in Seq(Command) /\ Len(commands') <= MaxCommands
      /\ P2pEnded => UNCHANGED commands
  <2>1. CASE UNCHANGED commands
    BY <2>1 DEF IInv, TypeOK
  <2>2. CASE /\ ~P2pEnded /\ Len(commands) < MaxCommands
             /\ commands' = Append(commands, FileSearchAbort(c))
    BY <2>2, QueueBounded DEF Command, IInv
  <2> QED
    BY <2>1, <2>2 DEF TaskStep, TaskAwaits, TaskReceives, ForwardResult, SendAbort,
                      TakeResult, TaskEnds, Tick
<1>4. found' \in [Search -> 0 .. MaxResults] /\ out' \in [Search -> 0 .. MaxResults]
  <2>1. CASE UNCHANGED <<found, out>>
    BY <2>1 DEF IInv, TypeOK
  <2>2. CASE TakeResult(c)
    <3>1. found[c] \in 0 .. MaxResults /\ found[c] > 0
      BY <2>2 DEF TakeResult, IInv, TypeOK
    <3>2. found[c] - 1 \in 0 .. MaxResults
      BY <3>1, ConstantsAssumption
    <3> QED  BY <2>2, <3>2 DEF TakeResult, IInv, TypeOK
  <2>3. CASE ForwardResult(c)
    <3>1. /\ found' = found
          /\ \/ out' = out
             \/ out[c] < MaxResults /\ out' = [out EXCEPT ![c] = @ + 1]
      BY <2>3 DEF ForwardResult
    <3>2. /\ found \in [Search -> 0 .. MaxResults] /\ out \in [Search -> 0 .. MaxResults]
          /\ MaxResults \in Nat
      BY ConstantsAssumption DEF IInv, TypeOK
    <3>3. out[c] < MaxResults => out[c] + 1 \in 0 .. MaxResults
      BY <3>2
    <3> QED  BY <3>1, <3>2, <3>3
  <2> QED
    BY <2>1, <2>2, <2>3 DEF TaskStep, TaskAwaits, TaskReceives, SendAbort, TaskEnds, Tick
<1>5. TypeOK'
  <2>1. task' \in [Search -> {"none", "select", "send", "abort", "ended"}]
    BY <1>2 DEF IInv, TypeOK
  <2> QED  BY <1>1, <1>3, <1>4, <2>1 DEF IInv, TypeOK
<1>6. Phases' /\ NobodyEndsAlone'
  BY <1>1 DEF IInv, Phases, NobodyEndsAlone, P2pEnded, GrpcEnded
<1>7. CallsServed'
  BY <1>1, <1>2 DEF IInv, CallsServed
<1>8. NobodyWaitsForEndedLoop'
  BY <1>1, <1>3 DEF IInv, NobodyWaitsForEndedLoop, P2pEnded
<1> QED  BY <1>5, <1>6, <1>7, <1>8 DEF IInv

LEMMA StepInv == IInv /\ [Next]_vars => IInv'
<1> SUFFICES ASSUME IInv, [Next]_vars PROVE IInv'
  OBVIOUS
<1>1. CASE UNCHANGED vars
  BY <1>1 DEF IInv, TypeOK, Phases, CallsServed, NobodyEndsAlone, NobodyWaitsForEndedLoop,
              P2pEnded, GrpcEnded, vars, services, config, calls, searches
<1>2. CASE StartFails \/ CtrlC \/ MainStep
  BY <1>2, MainKeeps
<1>3. CASE P2pFails \/ P2pCancelled
  BY <1>3, P2pEndKeeps
<1>4. CASE P2pStep \/ TakeJob
  BY <1>4, LoopKeeps, CommandsKeep DEF P2pStep, TakesCommand, Call
<1>5. CASE GrpcFails \/ GrpcStep
  BY <1>5, GrpcKeeps
<1>6. ASSUME NEW c \in Call,
             StartCall(c) \/ CallStep(c) \/ HangUp(c) \/ AnswerCall(c) \/ ReceiveResult(c)
      PROVE  IInv'
  BY <1>6, CallsKeep, CommandsKeep, LoopKeeps
<1>7. ASSUME NEW c \in Search, TaskStep(c)
      PROVE  IInv'
  BY <1>7, TasksKeep
<1> QED  BY <1>1, <1>2, <1>3, <1>4, <1>5, <1>6, <1>7 DEF Next

THEOREM IInvHolds == Spec => []IInv
  BY InitInv, StepInv, PTL DEF Spec

-----------------------------------------------------------------------------

(* Every variable has its type; no channel of results holds more than its capacity
   (server.rs:183-184). *)
THEOREM TypeCorrect == Spec => []TypeOK
  BY IInvHolds, PTL DEF IInv

(* When main returns, every service has ended and no call is left waiting
   (main.rs:28-33, server.rs:90-106). *)
THEOREM ExitsClean == Spec => []ExitIsClean
<1>1. IInv => ExitIsClean
  BY DEF IInv, Phases, CallsServed, ExitIsClean, P2pEnded, GrpcEnded
<1> QED  BY <1>1, IInvHolds, PTL

(* The safety half of FailureStopsNode: no service ends, and main does not stop,
   without the whole node being told (server.rs:49-84). *)
THEOREM AllAreTold == Spec => []NobodyEndsAlone
  BY IInvHolds, PTL DEF IInv

(* The safety half of CallsEndWithLoop: once the loop has ended, every call has what
   it needs to end (events.rs:60-65, server.rs:62). *)
THEOREM LoopLetsGo == Spec => []NobodyWaitsForEndedLoop
  BY IInvHolds, PTL DEF IInv
=============================================================================
