------------------------------- MODULE Search -------------------------------
(***************************************************************************)
(* A node's searches: the gRPC call search, the task it spawns for its     *)
(* result stream, the command channel into the P2P loop, and the loop's    *)
(* table of search sessions, whose key is the search value itself.  Three  *)
(* bounded channels lie between a peer's answer and the client; every send *)
(* into one of them is awaited, by the loop as by the tasks.               *)
(*                                                                         *)
(* A peer's search is answered the other way: the loop spawns a task that  *)
(* goes through the published files and sends a command for each match.    *)
(*                                                                         *)
(* The peers and gossipsub are external: once a value has been gossiped,   *)
(* results for it arrive at any time, and so do the searches of peers.     *)
(***************************************************************************)
EXTENDS Naturals, FiniteSets, Sequences

CONSTANTS
  Search,        \* calls of search
  Value,         \* search values, which are the session ids too
  ValueOf,       \* what each call searches for
  ResultsOf,     \* the files some peer answers a value with
  Published,     \* files this node has published itself
  Public,        \* files published with public set
  PeerSearch,    \* searches gossiped by peers
  MatchesOf,     \* files whose name contains the value of such a search
  MaxCommands,   \* capacity of the P2P command channel (100 in the code)
  MaxFound,      \* capacity of a search's result channel (64)
  MaxStream,     \* capacity of its gRPC stream (64)
  MaxMessages,   \* bound: results and peers' searches that arrive in a behaviour
  MaxEvictions,  \* bound: entries a cache forgets in a behaviour
  MaxTicks,      \* bound: ticks that find a search's stream closed
  None

File == (UNION {ResultsOf[v] : v \in Value}) \cup Published

ASSUME ConstantsAssumption ==
  /\ ValueOf \in [Search -> Value]
  /\ DOMAIN ResultsOf = Value
  /\ Public \subseteq Published
  /\ MatchesOf \in [PeerSearch -> SUBSET File]
  /\ MaxCommands \in Nat \ {0} /\ MaxFound \in Nat \ {0} /\ MaxStream \in Nat \ {0}
  /\ MaxMessages \in Nat /\ MaxEvictions \in Nat /\ MaxTicks \in Nat
  /\ None \notin Search \cup File /\ \A files \in SUBSET File : None # files

VARIABLES
  commands,    \* commands_tx .. commands_rx
  sessions,    \* file_search_sessions: whose sender a session id holds
  gossiped,    \* values sent to the network
  blocked,     \* the result that the P2P loop awaits to pass on, or None
  messages,    \* results and peers' searches that have arrived
  task,        \* what each search_task does next
  found,       \* its rx
  ticks,       \* ticks that have found its stream closed
  hand,        \* the file it sends to the stream
  cache,       \* files it remembers to have sent
  evictions,   \* entries the caches have forgotten
  delivered,   \* files sent into the stream, since its start
  read,        \* how many of them the client has read
  gone,        \* searches whose client has closed the stream
  refused,     \* searches whose gossip failed
  unread,      \* records a peer's file_search has still to look at, or None
  answered     \* files sent to the peer

loop == <<sessions, gossiped, blocked, messages, refused>>
tasks == <<task, ticks, hand, cache, evictions>>
streams == <<delivered, read, gone>>
peers == <<unread, answered>>
vars == <<commands, loop, found, tasks, streams, peers>>

FileSearch(s) == [type |-> "search", of |-> s]
FileSearchAbort(v) == [type |-> "abort", of |-> v]
FileSearchResult(p, f) == [type |-> "result", of |-> <<p, f>>]
Command ==
  {FileSearch(s) : s \in Search} \cup {FileSearchAbort(v) : v \in Value}
    \cup {FileSearchResult(p, f) : p \in PeerSearch, f \in File}

TypeOK ==
  /\ commands \in Seq(Command) /\ Len(commands) <= MaxCommands
  /\ sessions \in [Value -> Search \cup {None}]
  /\ gossiped \subseteq Value
  /\ blocked \in [value : Value, file : File] \cup {None}
  /\ messages \in Nat
  /\ task \in [Search -> {"idle", "select", "send", "abort", "ended"}]
  /\ ticks \in [Search -> Nat]
  /\ found \in [Search -> Seq(File)]
  /\ \A s \in Search : Len(found[s]) <= MaxFound
  /\ hand \in [Search -> File \cup {None}]
  /\ cache \in [Search -> SUBSET File]
  /\ evictions \in Nat
  /\ delivered \in [Search -> Seq(File)] /\ read \in [Search -> Nat]
  /\ \A s \in Search : Len(delivered[s]) \in read[s] .. read[s] + MaxStream
  /\ gone \subseteq Search /\ refused \subseteq Search
  /\ unread \in [PeerSearch -> (SUBSET File) \cup {None}]
  /\ answered \in [PeerSearch -> SUBSET File]

Init ==
  /\ commands = <<>>
  /\ sessions = [v \in Value |-> None]
  /\ gossiped = {} /\ blocked = None /\ messages = 0
  /\ task = [s \in Search |-> "idle"]
  /\ ticks = [s \in Search |-> 0]
  /\ found = [s \in Search |-> <<>>]
  /\ hand = [s \in Search |-> None]
  /\ cache = [s \in Search |-> {}] /\ evictions = 0
  /\ delivered = [s \in Search |-> <<>>]
  /\ read = [s \in Search |-> 0]
  /\ gone = {} /\ refused = {}
  /\ unread = [p \in PeerSearch |-> None]
  /\ answered = [p \in PeerSearch |-> {}]

Goto(s, next) == task' = [task EXCEPT ![s] = next]

-----------------------------------------------------------------------------
(* The gRPC call, and its client.                                          *)

\* search: send the command, spawn the task, return the stream.
StartSearch(s) ==
  /\ task[s] = "idle"
  /\ Len(commands) < MaxCommands
  /\ commands' = Append(commands, FileSearch(s))
  /\ Goto(s, "select")
  /\ UNCHANGED <<peers, loop, found, ticks, hand, cache, evictions, streams>>

ClientReads(s) ==
  /\ s \notin gone /\ read[s] < Len(delivered[s])
  /\ read' = [read EXCEPT ![s] = @ + 1]
  /\ UNCHANGED <<peers, commands, loop, found, tasks, delivered, gone>>

ClientLeaves(s) ==
  /\ task[s] # "idle" /\ s \notin gone
  /\ gone' = gone \cup {s}
  /\ UNCHANGED <<peers, commands, loop, found, tasks, delivered, read>>

-----------------------------------------------------------------------------
(* The P2P loop.  It does nothing else while it awaits a result channel.   *)

Serving == blocked = None

HandleCommand(c) ==
  /\ Serving
  /\ commands # <<>> /\ c = Head(commands)
  /\ commands' = Tail(commands)

\* FileSearch: gossip the value; a session of the same id is replaced, its
\* sender dropped.  Without a peer or a topic the new sender is dropped.
HandleSearch(s) ==
  /\ HandleCommand(FileSearch(s))
  /\ \/ /\ gossiped' = gossiped \cup {ValueOf[s]}
        /\ sessions' = [sessions EXCEPT ![ValueOf[s]] = s]
        /\ UNCHANGED refused
     \/ refused' = refused \cup {s} /\ UNCHANGED <<gossiped, sessions>>
  /\ UNCHANGED <<peers, blocked, messages, found, tasks, streams>>

\* Mutant of HandleAbort: the session is kept.
HandleAbortNoRemove(v) ==
  /\ HandleCommand(FileSearchAbort(v))
  /\ UNCHANGED <<peers, loop, found, tasks, streams>>

HandleAbort(v) ==
  /\ HandleCommand(FileSearchAbort(v))
  /\ sessions' = [sessions EXCEPT ![v] = None]
  /\ UNCHANGED <<peers, gossiped, blocked, messages, refused, found, tasks, streams>>

PassOn(s, f) == found' = [found EXCEPT ![s] = Append(@, f)]

\* Mutant of ReceiveResult: an unbounded channel.
ReceiveResultUnbounded(v, f) ==
  LET s == sessions[v] IN
  /\ Serving
  /\ v \in gossiped /\ f \in ResultsOf[v]
  /\ messages < MaxMessages
  /\ messages' = messages + 1
  /\ IF s = None THEN UNCHANGED found ELSE PassOn(s, f)
  /\ UNCHANGED <<peers, commands, sessions, gossiped, blocked, refused, tasks, streams>>

\* file_search_results: a result for a session goes into its channel, or the
\* loop awaits room there; without a session it is dropped.
ReceiveResult(v, f) ==
  LET s == sessions[v] IN
  /\ Serving
  /\ v \in gossiped /\ f \in ResultsOf[v]
  /\ messages < MaxMessages
  /\ messages' = messages + 1
  /\ \/ s = None /\ UNCHANGED <<found, blocked>>
     \/ s # None /\ Len(found[s]) < MaxFound /\ PassOn(s, f) /\ UNCHANGED blocked
     \/ /\ s # None /\ Len(found[s]) = MaxFound
        /\ blocked' = [value |-> v, file |-> f]
        /\ UNCHANGED found
  /\ UNCHANGED <<peers, commands, sessions, gossiped, refused, tasks, streams>>

Unblock ==
  /\ ~Serving
  /\ LET s == sessions[blocked.value] IN Len(found[s]) < MaxFound /\ PassOn(s, blocked.file)
  /\ blocked' = None
  /\ UNCHANGED <<peers, commands, sessions, gossiped, messages, refused, tasks, streams>>

-----------------------------------------------------------------------------
(* search_task: select! between the result channel and the ticker.         *)

\* A result that was sent before or that is a file of this node is skipped.
Recv(s) ==
  LET f == Head(found[s])
      skip == f \in cache[s] \cup Published
  IN
  /\ task[s] = "select" /\ found[s] # <<>>
  /\ found' = [found EXCEPT ![s] = Tail(@)]
  /\ hand' = [hand EXCEPT ![s] = IF skip THEN None ELSE f]
  /\ Goto(s, IF skip THEN "select" ELSE "send")
  /\ UNCHANGED <<peers, commands, loop, ticks, cache, evictions, streams>>

\* Mutant of Send: the file is not entered into the cache.
SendUncached(s) ==
  /\ task[s] = "send" /\ s \notin gone
  /\ Len(delivered[s]) - read[s] < MaxStream
  /\ delivered' = [delivered EXCEPT ![s] = Append(@, hand[s])]
  /\ hand' = [hand EXCEPT ![s] = None]
  /\ Goto(s, "select")
  /\ UNCHANGED <<peers, commands, loop, found, ticks, cache, evictions, read, gone>>

Send(s) ==
  /\ task[s] = "send" /\ s \notin gone
  /\ Len(delivered[s]) - read[s] < MaxStream
  /\ delivered' = [delivered EXCEPT ![s] = Append(@, hand[s])]
  /\ cache' = [cache EXCEPT ![s] = @ \cup {hand[s]}]
  /\ hand' = [hand EXCEPT ![s] = None]
  /\ Goto(s, "select")
  /\ UNCHANGED <<peers, commands, loop, found, ticks, evictions, read, gone>>

\* Mutant of SendFails: a send that waits does not notice the client leave.
SendFailsWithRoom(s) ==
  /\ task[s] = "send" /\ s \in gone
  /\ Len(delivered[s]) - read[s] < MaxStream
  /\ hand' = [hand EXCEPT ![s] = None]
  /\ Goto(s, "abort")
  /\ UNCHANGED <<peers, commands, loop, found, ticks, cache, evictions, streams>>

\* The stream is closed, before or while the send waits.
SendFails(s) ==
  /\ task[s] = "send" /\ s \in gone
  /\ hand' = [hand EXCEPT ![s] = None]
  /\ Goto(s, "abort")
  /\ UNCHANGED <<peers, commands, loop, found, ticks, cache, evictions, streams>>

TickThen(s, next) ==
  /\ ticks[s] < MaxTicks
  /\ ticks' = [ticks EXCEPT ![s] = @ + 1]
  /\ Goto(s, next)
  /\ UNCHANGED <<peers, commands, loop, found, hand, cache, evictions, streams>>

\* Mutants of Tick: the check of is_closed is missing; the task ends at once.
TickUnchecked(s) == task[s] = "select" /\ TickThen(s, "abort")

TickBreaks(s) == task[s] = "select" /\ s \in gone /\ TickThen(s, "ended")

\* The ticker fires and grpc_tx.is_closed.
Tick(s) == task[s] = "select" /\ s \in gone /\ TickThen(s, "abort")

\* Mutant of Abort: the command is dropped when the channel is full.
AbortTries(s) ==
  /\ task[s] = "abort"
  /\ commands' = IF Len(commands) < MaxCommands THEN Append(commands, FileSearchAbort(ValueOf[s]))
                 ELSE commands
  /\ Goto(s, "select")
  /\ UNCHANGED <<peers, loop, found, ticks, hand, cache, evictions, streams>>

\* FileSearchAbort is sent, then the task goes on until its channel closes.
Abort(s) ==
  /\ task[s] = "abort" /\ Len(commands) < MaxCommands
  /\ commands' = Append(commands, FileSearchAbort(ValueOf[s]))
  /\ Goto(s, "select")
  /\ UNCHANGED <<peers, loop, found, ticks, hand, cache, evictions, streams>>

\* The sending half of rx: in a queued command, or in the session table.
HasSender(s) ==
  \/ \E i \in DOMAIN commands : commands[i] = FileSearch(s)
  \/ sessions[ValueOf[s]] = s

\* rx.recv() returns None: the task ends, and with it the stream.
RecvNone(s) ==
  /\ task[s] = "select" /\ found[s] = <<>> /\ ~HasSender(s)
  /\ Goto(s, "ended")
  /\ UNCHANGED <<peers, commands, loop, found, ticks, hand, cache, evictions, streams>>

\* An entry outlives its minute, or the cache is full.
Evict(s, f) ==
  /\ task[s] \notin {"idle", "ended"} /\ f \in cache[s]
  /\ evictions < MaxEvictions
  /\ evictions' = evictions + 1
  /\ cache' = [cache EXCEPT ![s] = @ \ {f}]
  /\ UNCHANGED <<peers, commands, loop, found, task, ticks, hand, streams>>

-----------------------------------------------------------------------------
(* The searches of peers.                                                  *)

\* A message on the topic: file_search is spawned and opens its stream.
ReceiveSearch(p) ==
  /\ Serving
  /\ unread[p] = None
  /\ messages < MaxMessages
  /\ messages' = messages + 1
  /\ unread' = [unread EXCEPT ![p] = Published]
  /\ UNCHANGED <<commands, sessions, gossiped, blocked, refused, found, tasks, streams, answered>>

\* Mutant of ReportMatch: a private file is reported too.
ReportMatchPrivate(p, f) ==
  /\ unread[p] # None /\ f \in unread[p]
  /\ unread' = [unread EXCEPT ![p] = @ \ {f}]
  /\ IF f \in MatchesOf[p]
     THEN /\ Len(commands) < MaxCommands
          /\ commands' = Append(commands, FileSearchResult(p, f))
     ELSE UNCHANGED commands
  /\ UNCHANGED <<loop, found, tasks, streams, answered>>

\* The next record; a public match is sent as a command for the loop, once the
\* channel has room.
ReportMatch(p, f) ==
  /\ unread[p] # None /\ f \in unread[p]
  /\ unread' = [unread EXCEPT ![p] = @ \ {f}]
  /\ IF f \in Public \cap MatchesOf[p]
     THEN /\ Len(commands) < MaxCommands
          /\ commands' = Append(commands, FileSearchResult(p, f))
     ELSE UNCHANGED commands
  /\ UNCHANGED <<loop, found, tasks, streams, answered>>

\* The loop sends the result to the peer the message came from.
HandleResult(p, f) ==
  /\ HandleCommand(FileSearchResult(p, f))
  /\ answered' = [answered EXCEPT ![p] = @ \cup {f}]
  /\ UNCHANGED <<loop, found, tasks, streams, unread>>

AnswerPeer(p) == \E f \in File : ReportMatch(p, f)

Next ==
  \/ \E p \in PeerSearch :
       \/ ReceiveSearch(p) \/ AnswerPeer(p) \/ \E f \in File : HandleResult(p, f)
  \/ \E s \in Search :
       \/ StartSearch(s) \/ ClientReads(s) \/ ClientLeaves(s)
       \/ HandleSearch(s)
       \/ Recv(s) \/ Send(s) \/ SendFails(s) \/ Tick(s) \/ Abort(s) \/ RecvNone(s)
       \/ \E f \in File : Evict(s, f)
  \/ \E v \in Value : HandleAbort(v) \/ \E f \in ResultsOf[v] : ReceiveResult(v, f)
  \/ Unblock

Spec == Init /\ [][Next]_vars

(***************************************************************************)
(* Fairness.  The loop and the tasks run.  select! takes a ready branch at *)
(* random and the ticker is ready once a second, so the channel's branch   *)
(* is not passed over for good; a full tokio channel admits its senders in *)
(* order.  A client reads what it is sent, or leaves.                      *)
(***************************************************************************)
LoopStep ==
  \/ Unblock
  \/ \E s \in Search : HandleSearch(s)
  \/ \E v \in Value : HandleAbort(v)
  \/ \E p \in PeerSearch, f \in File : HandleResult(p, f)

FairSpec ==
  /\ Spec
  /\ WF_vars(LoopStep)
  /\ \A p \in PeerSearch : SF_vars(AnswerPeer(p))
  /\ \A s \in Search :
       /\ SF_vars(Recv(s) \/ RecvNone(s)) /\ SF_vars(Abort(s))
       /\ WF_vars(Send(s) \/ SendFails(s) \/ Tick(s)) /\ WF_vars(ClientReads(s))

-----------------------------------------------------------------------------
(* Properties.                                                             *)

\* A session always leads to a running task that searches for its value: no
\* task ends before its session is gone, so the error branch of
\* events.rs:336-342 is never taken and Unblock never waits in vain for one.
SessionHasTask ==
  \A v \in Value : sessions[v] # None =>
    /\ ValueOf[sessions[v]] = v
    /\ task[sessions[v]] \notin {"idle", "ended"}

\* A file is reported again only if the cache has forgotten it: the check, the
\* send and the insert of server.rs:223-243 lie several awaits apart.
RepeatsOnlyForgotten ==
  \A s \in Search :
    Len(delivered[s]) <= Cardinality({delivered[s][i] : i \in DOMAIN delivered[s]}) + evictions

\* The stream of a client that listens stays open unless its search could not
\* be gossiped ("Streams search results", README.md:163; server.rs:204-259).
StreamStaysOpen ==
  \A s \in Search : task[s] = "ended" /\ s \notin gone => s \in refused

\* The loop awaits room in the channel of a search whose task awaits room among
\* the commands, which only the loop makes (events.rs:334; server.rs:234, 249).
Circle ==
  /\ ~Serving /\ Len(commands) = MaxCommands
  /\ LET s == sessions[blocked.value] IN task[s] = "abort" /\ Len(found[s]) = MaxFound

\* Nobody breaks the circle: the client is gone, no tick and no third task helps.
CircleIsForGood == [][Circle => Circle']_vars

\* The circle is the only way the loop's awaited send (events.rs:334) does not
\* return, however full the command channel is.
OnlyCircleBlocks == ~Serving ~> Serving \/ Circle

\* A search whose client has left is in the end forgotten by the task and the
\* loop (server.rs:246-256), unless the circle closes first.
GoneIsForgotten ==
  \A s \in Search : s \in gone ~> Circle \/ (task[s] = "ended" /\ sessions[ValueOf[s]] # s)

\* A peer's search is answered with every public file that matches and no other,
\* although its results compete with the node's own searches for a place among
\* the commands (events.rs:706-785, 145-150), unless the circle closes first.
PeersAreAnswered ==
  \A p \in PeerSearch :
    unread[p] # None ~> Circle \/ (unread[p] = {} /\ answered[p] = Public \cap MatchesOf[p])

\* The P2P loop goes on to serve swarm events (service.rs:214, "to prioritize
\* swarm events"): its awaited send into a result channel returns.  The circle
\* refutes it.
LoopServes == ~Serving ~> Serving
=============================================================================
