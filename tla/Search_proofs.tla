---------------------------- MODULE Search_proofs ----------------------------
(***************************************************************************)
(* Theorems about Search, for every number of searches and capacity of the *)
(* channels: a session leads to a running task, the stream of a client that*)
(* listens is closed by nothing but a rival for its session id, a file is  *)
(* reported again only when it was forgotten, and a peer's search is       *)
(* answered with public matches alone, none of which is lost.              *)
(***************************************************************************)
EXTENDS Search, SequenceTheorems, FiniteSetTheorems, TLAPS

-----------------------------------------------------------------------------
(* The inductive invariant.                                                *)

Items(q) == {q[i] : i \in DOMAIN q}

(* A command for a search is in the channel while its task runs. *)
QueuedHasTask ==
  \A s \in Search : FileSearch(s) \in Items(commands) => task[s] \notin {"idle", "ended"}

(* The session the loop awaits is not replaced meanwhile. *)
BlockedHasSession == blocked # None => sessions[blocked.value] # None

(* What the task is about to send is not in its cache. *)
HandIsNew ==
  \A s \in Search : task[s] = "send" => hand[s] \in File /\ hand[s] \notin cache[s]

(* The cache holds what was sent and not forgotten. *)
CacheHoldsSent ==
  \A s \in Search :
    /\ cache[s] \subseteq Items(delivered[s])
    /\ Len(delivered[s]) <= Cardinality(cache[s]) + evictions

(* Another call searches for the same value, which is the session id. *)
HasRival(s) == \E t \in Search \ {s} : ValueOf[t] = ValueOf[s] /\ task[t] # "idle"

(* The sending half of a listening client's channel is kept. *)
SenderKept ==
  \A s \in Search :
    task[s] # "idle" /\ s \notin gone \cup refused => HasSender(s) \/ HasRival(s)

(* A search is aborted when its client has left. *)
AbortsTheGone ==
  \A s \in Search :
    /\ task[s] = "abort" => s \in gone
    /\ FileSearchAbort(ValueOf[s]) \in Items(commands) => s \in gone \/ HasRival(s)

Reportable(p) == Public \cap MatchesOf[p]

(* A file of this node that a peer's search matches: still to be looked at, on its
   way to the loop or sent. *)
ReportsFit ==
  \A p \in PeerSearch :
    /\ answered[p] \subseteq Reportable(p)
    /\ \A f \in File : FileSearchResult(p, f) \in Items(commands) => f \in Reportable(p)
    /\ \A f \in Reportable(p) : unread[p] # None =>
         f \in unread[p] \cup answered[p] \/ FileSearchResult(p, f) \in Items(commands)

IInv ==
  /\ TypeOK /\ SessionHasTask /\ QueuedHasTask /\ BlockedHasSession
  /\ HandIsNew /\ CacheHoldsSent
  /\ SenderKept /\ AbortsTheGone
  /\ ReportsFit

-----------------------------------------------------------------------------
(* The command channel.                                                    *)

(* A command is about one search, one value or one match. *)
LEMMA CommandsDiffer ==
  ASSUME NEW s, NEW t, NEW p, NEW f, NEW q, NEW g, NEW v, NEW w
  PROVE  /\ FileSearch(s) # FileSearchAbort(v) /\ FileSearch(s) # FileSearchResult(p, f)
         /\ FileSearchAbort(v) # FileSearchResult(p, f)
         /\ FileSearch(s) = FileSearch(t) => s = t
         /\ FileSearchAbort(v) = FileSearchAbort(w) => v = w
         /\ FileSearchResult(p, f) = FileSearchResult(q, g) => p = q /\ f = g
<1>1. /\ FileSearch(s).type = "search" /\ FileSearch(s).of = s
      /\ FileSearch(t).of = t
      /\ FileSearchAbort(v).type = "abort" /\ FileSearchAbort(v).of = v
      /\ FileSearchAbort(w).of = w
      /\ FileSearchResult(p, f).type = "result" /\ FileSearchResult(p, f).of = <<p, f>>
      /\ FileSearchResult(q, g).of = <<q, g>>
  BY DEF FileSearch, FileSearchAbort, FileSearchResult
<1> QED  BY <1>1

LEMMA ItemsAppend ==
  ASSUME NEW S, NEW q \in Seq(S), NEW x \in S
  PROVE  /\ Append(q, x) \in Seq(S) /\ Len(Append(q, x)) = Len(q) + 1
         /\ Items(Append(q, x)) = Items(q) \cup {x}
<1> DEFINE r == Append(q, x)
<1>1. /\ r \in Seq(S) /\ Len(r) = Len(q) + 1 /\ r[Len(q) + 1] = x
      /\ \A i \in 1 .. Len(q) : r[i] = q[i]
  BY AppendProperties
<1>2. Len(q) \in Nat /\ DOMAIN q = 1 .. Len(q) /\ DOMAIN r = 1 .. Len(q) + 1
  BY <1>1, LenProperties
<1> HIDE DEF r
<1>3. Items(r) \subseteq Items(q) \cup {x}
  BY <1>1, <1>2 DEF Items
<1>4. Items(q) \cup {x} \subseteq Items(r)
  BY <1>1, <1>2 DEF Items
<1> QED  BY <1>1, <1>3, <1>4 DEF r

LEMMA ItemsTail ==
  ASSUME NEW S, NEW q \in Seq(S), q # <<>>
  PROVE  /\ Head(q) \in S /\ Tail(q) \in Seq(S) /\ Len(Tail(q)) = Len(q) - 1
         /\ Len(q) \in Nat \ {0}
         /\ Items(q) = Items(Tail(q)) \cup {Head(q)}
<1> DEFINE r == Tail(q)
<1>1. /\ r \in Seq(S) /\ Len(r) = Len(q) - 1 /\ Head(q) = q[1]
      /\ \A i \in 1 .. Len(r) : r[i] = q[i + 1]
  BY HeadTailProperties
<1>2. Len(q) \in Nat \ {0} /\ DOMAIN q = 1 .. Len(q) /\ DOMAIN r = 1 .. Len(q) - 1
  BY <1>1, LenProperties, EmptySeq
<1> HIDE DEF r
<1>3. q[1] \in S
  BY <1>2, ElementOfSeq
<1>4. Items(q) \subseteq Items(r) \cup {q[1]}
  <2>1. ASSUME NEW i \in 1 .. Len(q), i # 1
        PROVE  q[i] \in Items(r)
    <3>1. i - 1 \in 1 .. Len(r) /\ r[i - 1] = q[(i - 1) + 1] /\ (i - 1) + 1 = i
      BY <1>1, <1>2, <2>1
    <3> QED  BY <1>1, <1>2, <3>1 DEF Items
  <2> QED  BY <1>2, <2>1 DEF Items
<1>5. Items(r) \cup {q[1]} \subseteq Items(q)
  BY <1>1, <1>2 DEF Items
<1> QED  BY <1>1, <1>2, <1>3, <1>4, <1>5 DEF r

(* A task sends a command when there is room for it. *)
LEMMA CommandSent ==
  ASSUME TypeOK, NEW c \in Command, Len(commands) < MaxCommands,
         commands' = Append(commands, c)
  PROVE  /\ commands' \in Seq(Command) /\ Len(commands') <= MaxCommands
         /\ Items(commands') = Items(commands) \cup {c}
<1>1. commands \in Seq(Command) /\ Len(commands) \in Nat
  BY LenProperties DEF TypeOK
<1>2. /\ commands' \in Seq(Command) /\ Len(commands') = Len(commands) + 1
      /\ Items(commands') = Items(commands) \cup {c}
  BY <1>1, ItemsAppend
<1> QED  BY <1>1, <1>2, ConstantsAssumption

(* The loop takes the command that was sent first. *)
LEMMA CommandTaken ==
  ASSUME TypeOK, NEW c, HandleCommand(c)
  PROVE  /\ commands' \in Seq(Command) /\ Len(commands') <= MaxCommands
         /\ c \in Items(commands)
         /\ Items(commands) = Items(commands') \cup {c}
<1>1. commands \in Seq(Command) /\ Len(commands) \in Nat
  BY LenProperties DEF TypeOK
<1>2. /\ Tail(commands) \in Seq(Command) /\ Len(Tail(commands)) = Len(commands) - 1
      /\ Items(commands) = Items(Tail(commands)) \cup {Head(commands)}
  BY <1>1, ItemsTail DEF HandleCommand
<1>3. Len(Tail(commands)) <= MaxCommands
  BY <1>1, <1>2, ConstantsAssumption DEF TypeOK
<1> QED  BY <1>2, <1>3 DEF HandleCommand

-----------------------------------------------------------------------------
(* Types.                                                                  *)

LEMMA InitType == Init => TypeOK
<1> SUFFICES ASSUME Init PROVE TypeOK
  OBVIOUS
<1>1. <<>> \in Seq(Command) /\ <<>> \in Seq(File) /\ Len(<<>>) = 0
  BY EmptySeq
<1> QED  BY <1>1, ConstantsAssumption DEF Init, TypeOK

LEMMA ClientType ==
  ASSUME TypeOK, NEW s \in Search, StartSearch(s) \/ ClientReads(s) \/ ClientLeaves(s)
  PROVE  TypeOK'
<1>1. CASE StartSearch(s)
  <2>1. FileSearch(s) \in Command
    BY DEF Command
  <2>2. commands' \in Seq(Command) /\ Len(commands') <= MaxCommands
    BY <1>1, <2>1, CommandSent DEF StartSearch
  <2> QED
    BY <1>1, <2>2 DEF TypeOK, StartSearch, Goto, peers, loop, streams
<1>2. CASE ClientReads(s)
  <2>1. Len(delivered[s]) \in Nat /\ read[s] \in Nat
    BY LenProperties DEF TypeOK
  <2>2. \A t \in Search : Len(delivered'[t]) \in read'[t] .. read'[t] + MaxStream
    BY <1>2, <2>1, ConstantsAssumption DEF TypeOK, ClientReads
  <2> QED
    BY <1>2, <2>1, <2>2 DEF TypeOK, ClientReads, peers, loop, tasks
<1>3. CASE ClientLeaves(s)
  BY <1>3 DEF TypeOK, ClientLeaves, peers, loop, tasks
<1> QED  BY <1>1, <1>2, <1>3

LEMMA CommandType ==
  ASSUME TypeOK,
         \/ \E s \in Search : HandleSearch(s)
         \/ \E v \in Value : HandleAbort(v)
         \/ \E p \in PeerSearch, f \in File : HandleResult(p, f)
  PROVE  TypeOK'
<1>1. ASSUME NEW s \in Search, HandleSearch(s)
      PROVE  TypeOK'
  <2>1. commands' \in Seq(Command) /\ Len(commands') <= MaxCommands
    BY <1>1, CommandTaken DEF HandleSearch
  <2>2. ValueOf[s] \in Value
    BY ConstantsAssumption
  <2>3. /\ sessions' \in [Value -> Search \cup {None}]
        /\ gossiped' \subseteq Value /\ refused' \subseteq Search
    BY <1>1, <2>2 DEF TypeOK, HandleSearch
  <2> QED  BY <1>1, <2>1, <2>3 DEF TypeOK, HandleSearch, peers, tasks, streams
<1>2. ASSUME NEW v \in Value, HandleAbort(v)
      PROVE  TypeOK'
  <2>1. commands' \in Seq(Command) /\ Len(commands') <= MaxCommands
    BY <1>2, CommandTaken DEF HandleAbort
  <2> QED  BY <1>2, <2>1 DEF TypeOK, HandleAbort, peers, tasks, streams
<1>3. ASSUME NEW p \in PeerSearch, NEW f \in File, HandleResult(p, f)
      PROVE  TypeOK'
  <2>1. commands' \in Seq(Command) /\ Len(commands') <= MaxCommands
    BY <1>3, CommandTaken DEF HandleResult
  <2> QED  BY <1>3, <2>1 DEF TypeOK, HandleResult, loop, tasks, streams
<1> QED  BY <1>1, <1>2, <1>3

LEMMA PassOnType ==
  ASSUME TypeOK, NEW s \in Search, NEW f \in File, Len(found[s]) < MaxFound, PassOn(s, f)
  PROVE  /\ found' \in [Search -> Seq(File)]
         /\ \A t \in Search : Len(found'[t]) <= MaxFound
<1>1. found[s] \in Seq(File) /\ Len(found[s]) \in Nat
  BY LenProperties DEF TypeOK
<1>2. Append(found[s], f) \in Seq(File) /\ Len(Append(found[s], f)) <= MaxFound
  BY <1>1, ItemsAppend, ConstantsAssumption
<1> QED  BY <1>2 DEF TypeOK, PassOn

LEMMA ReceiveType ==
  ASSUME TypeOK, BlockedHasSession,
         (\E v \in Value : \E f \in ResultsOf[v] : ReceiveResult(v, f)) \/ Unblock
  PROVE  TypeOK'
<1>1. ASSUME NEW v \in Value, NEW f \in ResultsOf[v], ReceiveResult(v, f)
      PROVE  TypeOK'
  <2>1. f \in File
    BY DEF File
  <2>2. /\ found' \in [Search -> Seq(File)]
        /\ \A t \in Search : Len(found'[t]) <= MaxFound
    <3>1. CASE UNCHANGED found
      BY <3>1 DEF TypeOK
    <3>2. CASE sessions[v] # None /\ Len(found[sessions[v]]) < MaxFound /\ PassOn(sessions[v], f)
      <4>1. sessions[v] \in Search
        BY <3>2 DEF TypeOK
      <4> QED  BY <2>1, <3>2, <4>1, PassOnType
    <3> QED  BY <1>1, <3>1, <3>2 DEF ReceiveResult
  <2>3. blocked' \in [value : Value, file : File] \cup {None}
    BY <1>1, <2>1 DEF TypeOK, ReceiveResult
  <2>4. messages' \in Nat
    BY <1>1 DEF TypeOK, ReceiveResult
  <2>5. UNCHANGED <<peers, commands, sessions, gossiped, refused, tasks, streams>>
    BY <1>1 DEF ReceiveResult
  <2> QED  BY <2>2, <2>3, <2>4, <2>5 DEF TypeOK, peers, tasks, streams
<1>2. CASE Unblock
  <2>1. blocked \in [value : Value, file : File] /\ sessions[blocked.value] \in Search
    BY <1>2 DEF TypeOK, BlockedHasSession, Unblock, Serving
  <2>2. /\ found' \in [Search -> Seq(File)]
        /\ \A t \in Search : Len(found'[t]) <= MaxFound
    BY <1>2, <2>1, PassOnType DEF Unblock
  <2> QED  BY <1>2, <2>2 DEF TypeOK, Unblock, peers, tasks, streams
<1> QED  BY <1>1, <1>2

LEMMA TaskType ==
  ASSUME TypeOK, HandIsNew, NEW s \in Search,
         \/ Recv(s) \/ Send(s) \/ SendFails(s) \/ Tick(s) \/ Abort(s) \/ RecvNone(s)
         \/ \E f \in File : Evict(s, f)
  PROVE  TypeOK'
<1>1. CASE Recv(s)
  <2>1. found[s] \in Seq(File) /\ Len(found[s]) \in Nat
    BY LenProperties DEF TypeOK
  <2>2. Head(found[s]) \in File /\ Tail(found[s]) \in Seq(File) /\ Len(Tail(found[s])) <= MaxFound
    BY <1>1, <2>1, ItemsTail, ConstantsAssumption DEF Recv, TypeOK
  <2> QED  BY <1>1, <2>2 DEF TypeOK, Recv, Goto, peers, loop, streams
<1>2. CASE Send(s)
  <2>1. hand[s] \in File
    BY <1>2 DEF Send, HandIsNew
  <2>2. delivered[s] \in Seq(File) /\ Len(delivered[s]) \in Nat /\ read[s] \in Nat
    BY LenProperties DEF TypeOK
  <2>3. /\ Append(delivered[s], hand[s]) \in Seq(File)
        /\ Len(Append(delivered[s], hand[s])) = Len(delivered[s]) + 1
    BY <2>1, <2>2, ItemsAppend
  <2>4. Len(Append(delivered[s], hand[s])) \in read[s] .. read[s] + MaxStream
    BY <1>2, <2>2, <2>3, ConstantsAssumption DEF Send, TypeOK
  <2> QED  BY <1>2, <2>1, <2>3, <2>4 DEF TypeOK, Send, Goto, peers, loop
<1>3. CASE SendFails(s)
  BY <1>3 DEF TypeOK, SendFails, Goto, peers, loop, streams
<1>4. CASE Tick(s)
  BY <1>4 DEF TypeOK, Tick, TickThen, Goto, peers, loop, streams
<1>5. CASE Abort(s)
  <2>1. FileSearchAbort(ValueOf[s]) \in Command
    BY ConstantsAssumption DEF Command
  <2>2. commands' \in Seq(Command) /\ Len(commands') <= MaxCommands
    BY <1>5, <2>1, CommandSent DEF Abort
  <2> QED  BY <1>5, <2>2 DEF TypeOK, Abort, Goto, peers, loop, streams
<1>6. CASE RecvNone(s)
  BY <1>6 DEF TypeOK, RecvNone, Goto, peers, loop, streams
<1>7. ASSUME NEW f \in File, Evict(s, f)
      PROVE  TypeOK'
  BY <1>7 DEF TypeOK, Evict, peers, loop, streams
<1> QED  BY <1>1, <1>2, <1>3, <1>4, <1>5, <1>6, <1>7

LEMMA PeerType ==
  ASSUME TypeOK, NEW p \in PeerSearch, ReceiveSearch(p) \/ AnswerPeer(p)
  PROVE  TypeOK'
<1>1. CASE ReceiveSearch(p)
  <2>1. Published \subseteq File
    BY DEF File
  <2> QED  BY <1>1, <2>1 DEF TypeOK, ReceiveSearch, tasks, streams
<1>2. ASSUME NEW f \in File, ReportMatch(p, f)
      PROVE  TypeOK'
  <2>1. FileSearchResult(p, f) \in Command
    BY DEF Command
  <2>2. commands' \in Seq(Command) /\ Len(commands') <= MaxCommands
    BY <1>2, <2>1, CommandSent DEF ReportMatch, TypeOK
  <2> QED  BY <1>2, <2>2 DEF TypeOK, ReportMatch, loop, tasks, streams
<1> QED  BY <1>1, <1>2 DEF AnswerPeer

-----------------------------------------------------------------------------
(* Sessions and senders.                                                   *)

SessionInv ==
  /\ SessionHasTask /\ QueuedHasTask /\ BlockedHasSession
  /\ SenderKept /\ AbortsTheGone

LEMMA SenderIsQueued ==
  ASSUME NEW s
  PROVE  HasSender(s) <=> FileSearch(s) \in Items(commands) \/ sessions[ValueOf[s]] = s
  BY DEF HasSender, Items

Running == {"select", "send", "abort"}

(* A step that leaves the sessions and the commands about them alone. *)
LEMMA SessionsStay ==
  ASSUME TypeOK, SessionInv, UNCHANGED <<sessions, refused>>, gone \subseteq gone',
         \A s \in Search : FileSearch(s) \in Items(commands') <=> FileSearch(s) \in Items(commands),
         \A v \in Value :
           FileSearchAbort(v) \in Items(commands') => FileSearchAbort(v) \in Items(commands),
         \A s \in Search :
           \/ task'[s] = task[s]
           \/ /\ task[s] \in Running /\ task'[s] \in Running
              /\ task'[s] = "abort" => s \in gone,
         blocked' # None => sessions[blocked'.value] # None
  PROVE  SessionInv'
<1>1. \A s \in Search :
        /\ task'[s] = "idle" <=> task[s] = "idle"
        /\ task'[s] = "ended" <=> task[s] = "ended"
        /\ task'[s] = "abort" => s \in gone
  BY DEF SessionInv, AbortsTheGone, Running
<1>2. \A s \in Search : HasRival(s) => HasRival(s)'
  BY <1>1 DEF HasRival
<1>3. SessionHasTask'
  BY <1>1 DEF SessionInv, SessionHasTask, TypeOK
<1>4. QueuedHasTask'
  BY <1>1 DEF SessionInv, QueuedHasTask
<1>5. BlockedHasSession'
  BY DEF BlockedHasSession
<1>6. SenderKept'
  <2>1. ASSUME NEW s \in Search, task'[s] # "idle", s \notin (gone \cup refused)'
        PROVE  HasSender(s)' \/ HasRival(s)'
    <3>1. task[s] # "idle" /\ s \notin gone \cup refused
      BY <1>1, <2>1
    <3>2. HasSender(s) \/ HasRival(s)
      BY <3>1 DEF SessionInv, SenderKept
    <3>3. HasSender(s) => HasSender(s)'
      BY DEF HasSender, Items
    <3> QED  BY <1>2, <3>2, <3>3
  <2> QED  BY <2>1 DEF SenderKept
<1>7. AbortsTheGone'
  <2>1. ASSUME NEW s \in Search, FileSearchAbort(ValueOf[s]) \in Items(commands')
        PROVE  s \in gone' \/ HasRival(s)'
    <3>1. FileSearchAbort(ValueOf[s]) \in Items(commands)
      BY <2>1, ConstantsAssumption
    <3> QED  BY <1>2, <3>1 DEF SessionInv, AbortsTheGone
  <2>2. Items(commands)' = Items(commands')
    BY DEF Items
  <2> QED  BY <1>1, <2>1, <2>2 DEF AbortsTheGone
<1> QED  BY <1>3, <1>4, <1>5, <1>6, <1>7 DEF SessionInv

(* A step that neither sends nor takes a command. *)
LEMMA QuietSession ==
  ASSUME TypeOK, SessionInv, UNCHANGED <<commands, sessions, refused>>, gone \subseteq gone',
         \A s \in Search :
           \/ task'[s] = task[s]
           \/ /\ task[s] \in Running /\ task'[s] \in Running
              /\ task'[s] = "abort" => s \in gone,
         blocked' # None => sessions[blocked'.value] # None
  PROVE  SessionInv'
  BY SessionsStay

LEMMA ClientSession ==
  ASSUME TypeOK, SessionInv, NEW s \in Search, ClientReads(s) \/ ClientLeaves(s)
  PROVE  SessionInv'
<1>1. /\ UNCHANGED <<commands, sessions, refused, task, blocked>> /\ gone \subseteq gone'
  BY DEF ClientReads, ClientLeaves, loop, tasks
<1> QED  BY <1>1, QuietSession DEF SessionInv, BlockedHasSession

LEMMA ReceiveSession ==
  ASSUME TypeOK, SessionInv,
         \/ \E v \in Value : \E f \in ResultsOf[v] : ReceiveResult(v, f)
         \/ Unblock
         \/ \E p \in PeerSearch : ReceiveSearch(p)
  PROVE  SessionInv'
<1>1. /\ UNCHANGED <<commands, sessions, refused, task, gone>>
      /\ blocked' # None => sessions[blocked'.value] # None
  BY DEF SessionInv, BlockedHasSession, ReceiveResult, Unblock, ReceiveSearch, tasks, streams
<1> QED  BY <1>1, QuietSession

(* The steps of a task between a result and the stream. *)
LEMMA TaskSession ==
  ASSUME TypeOK, SessionInv, NEW s \in Search,
         \/ Recv(s) \/ Send(s) \/ SendFails(s) \/ Tick(s) \/ \E f \in File : Evict(s, f)
  PROVE  SessionInv'
<1>1. UNCHANGED <<commands, sessions, refused, blocked, gone>>
  BY DEF Recv, Send, SendFails, Tick, TickThen, Evict, loop, streams
<1>2. \/ UNCHANGED task
      \/ /\ task[s] \in Running
         /\ \E next \in Running : Goto(s, next) /\ (next = "abort" => s \in gone)
  BY DEF Recv, Send, SendFails, Tick, TickThen, Evict, Running
<1>3. \A t \in Search :
        \/ task'[t] = task[t]
        \/ /\ task[t] \in Running /\ task'[t] \in Running
           /\ task'[t] = "abort" => t \in gone
  BY <1>2 DEF Goto, TypeOK
<1> QED  BY <1>1, <1>3, QuietSession DEF SessionInv, BlockedHasSession

(* A match is reported, or its command taken: no command about a session. *)
LEMMA ReportSession ==
  ASSUME TypeOK, SessionInv, NEW p \in PeerSearch, NEW f \in File,
         ReportMatch(p, f) \/ HandleResult(p, f)
  PROVE  SessionInv'
<1>1. UNCHANGED <<sessions, refused, task, gone, blocked>>
  BY DEF ReportMatch, HandleResult, HandleCommand, loop, tasks, streams
<1>2. \/ Items(commands') \cup {FileSearchResult(p, f)} = Items(commands) \cup {FileSearchResult(p, f)}
      \/ Items(commands') = Items(commands)
  <2>1. CASE UNCHANGED commands
    BY <2>1
  <2>2. CASE Len(commands) < MaxCommands /\ commands' = Append(commands, FileSearchResult(p, f))
    <3>1. FileSearchResult(p, f) \in Command
      BY DEF Command
    <3> QED  BY <2>2, <3>1, CommandSent
  <2>3. CASE HandleResult(p, f)
    BY <2>3, CommandTaken DEF HandleResult
  <2> QED  BY <2>1, <2>2, <2>3 DEF ReportMatch
<1>3. \A c : c # FileSearchResult(p, f) => (c \in Items(commands') <=> c \in Items(commands))
  BY <1>2
<1>4. \A s \in Search : FileSearch(s) \in Items(commands') <=> FileSearch(s) \in Items(commands)
  BY <1>3, CommandsDiffer
<1>5. \A v \in Value :
        FileSearchAbort(v) \in Items(commands') => FileSearchAbort(v) \in Items(commands)
  BY <1>3, CommandsDiffer
<1>6. blocked' # None => sessions[blocked'.value] # None
  BY <1>1 DEF SessionInv, BlockedHasSession
<1> QED  BY <1>1, <1>4, <1>5, <1>6, SessionsStay

(* search: the command and the task start together. *)
LEMMA StartSearchSession ==
  ASSUME TypeOK, SessionInv, NEW s \in Search, StartSearch(s)
  PROVE  SessionInv'
<1>1. /\ task[s] = "idle" /\ task' = [task EXCEPT ![s] = "select"]
      /\ UNCHANGED <<sessions, refused, gone, blocked>>
  BY DEF StartSearch, Goto, loop, streams
<1>2. Items(commands') = Items(commands) \cup {FileSearch(s)}
  <2>1. FileSearch(s) \in Command
    BY DEF Command
  <2> QED  BY <2>1, CommandSent DEF StartSearch
<1>3. \A t \in Search : task'[t] = IF t = s THEN "select" ELSE task[t]
  BY <1>1 DEF TypeOK
<1>4. \A t \in Search : FileSearch(t) \in Items(commands') => t = s \/ FileSearch(t) \in Items(commands)
  BY <1>2, CommandsDiffer
<1>5. \A v \in Value :
        FileSearchAbort(v) \in Items(commands') => FileSearchAbort(v) \in Items(commands)
  BY <1>2, CommandsDiffer
<1>6. \A t \in Search : HasRival(t) => HasRival(t)'
  BY <1>3 DEF HasRival
<1>7. SessionHasTask'
  BY <1>1, <1>3 DEF SessionInv, SessionHasTask, TypeOK
<1>8. QueuedHasTask'
  BY <1>3, <1>4 DEF SessionInv, QueuedHasTask, Items
<1>9. BlockedHasSession'
  BY <1>1 DEF SessionInv, BlockedHasSession
<1>10. SenderKept'
  <2>1. ASSUME NEW t \in Search, task'[t] # "idle", t \notin (gone \cup refused)'
        PROVE  HasSender(t)' \/ HasRival(t)'
    <3>1. FileSearch(t) \in Items(commands') \/ sessions'[ValueOf[t]] = t => HasSender(t)'
      BY DEF HasSender, Items
    <3>2. CASE t = s
      BY <1>2, <3>1, <3>2
    <3>3. CASE t # s
      <4>1. HasSender(t) \/ HasRival(t)
        BY <1>1, <1>3, <2>1, <3>3 DEF SessionInv, SenderKept
      <4> QED  BY <1>1, <1>2, <1>6, <3>1, <4>1, SenderIsQueued
    <3> QED  BY <3>2, <3>3
  <2> QED  BY <2>1 DEF SenderKept
<1>11. AbortsTheGone'
  <2>1. ASSUME NEW t \in Search, FileSearchAbort(ValueOf[t]) \in Items(commands')
        PROVE  t \in gone' \/ HasRival(t)'
    <3>1. FileSearchAbort(ValueOf[t]) \in Items(commands)
      BY <1>5, <2>1, ConstantsAssumption
    <3> QED  BY <1>1, <1>6, <3>1 DEF SessionInv, AbortsTheGone
  <2>2. Items(commands)' = Items(commands')
    BY DEF Items
  <2> QED  BY <1>1, <1>3, <2>1, <2>2 DEF SessionInv, AbortsTheGone
<1> QED  BY <1>7, <1>8, <1>9, <1>10, <1>11 DEF SessionInv

(* FileSearch: the session is the search's, and a rival's sender is dropped, or the
   search is refused. *)
LEMMA HandleSearchSession ==
  ASSUME TypeOK, SessionInv, NEW s \in Search, HandleSearch(s)
  PROVE  SessionInv'
<1>1. /\ FileSearch(s) \in Items(commands)
      /\ Items(commands) = Items(commands') \cup {FileSearch(s)}
  BY CommandTaken DEF HandleSearch
<1>2. /\ UNCHANGED <<task, gone, blocked>> /\ blocked = None /\ refused \subseteq refused'
      /\ \/ sessions' = [sessions EXCEPT ![ValueOf[s]] = s]
         \/ UNCHANGED sessions /\ s \in refused'
  BY DEF HandleSearch, HandleCommand, Serving, tasks, streams
<1>3. task[s] \notin {"idle", "ended"} /\ ValueOf[s] \in Value
  BY <1>1, ConstantsAssumption DEF SessionInv, QueuedHasTask
<1>4. \A t \in Search : HasRival(t) => HasRival(t)'
  BY <1>2 DEF HasRival
<1>5. SessionHasTask'
  <2>1. \A v \in Value : sessions'[v] \in {sessions[v], s} /\ (sessions'[v] = s => ValueOf[s] = v)
    BY <1>2, <1>3, ConstantsAssumption DEF SessionInv, SessionHasTask, TypeOK
  <2> QED  BY <1>2, <1>3, <2>1 DEF SessionInv, SessionHasTask
<1>6. QueuedHasTask'
  BY <1>1, <1>2 DEF SessionInv, QueuedHasTask, Items
<1>7. BlockedHasSession'
  BY <1>2 DEF BlockedHasSession
<1>8. SenderKept'
  <2>1. ASSUME NEW t \in Search, task'[t] # "idle", t \notin (gone \cup refused)'
        PROVE  HasSender(t)' \/ HasRival(t)'
    <3>1. FileSearch(t) \in Items(commands') \/ sessions'[ValueOf[t]] = t => HasSender(t)'
      BY DEF HasSender, Items
    <3>2. CASE t = s
      BY <1>2, <1>3, <2>1, <3>1, <3>2 DEF TypeOK
    <3>3. CASE t # s /\ ValueOf[t] = ValueOf[s]
      BY <1>2, <1>3, <3>3 DEF HasRival
    <3>4. CASE ValueOf[t] # ValueOf[s]
      <4>1. HasSender(t) \/ HasRival(t)
        BY <1>2, <2>1 DEF SessionInv, SenderKept
      <4>2. FileSearch(t) \in Items(commands) => FileSearch(t) \in Items(commands')
        BY <1>1, <3>4, CommandsDiffer
      <4>3. sessions'[ValueOf[t]] = sessions[ValueOf[t]]
        BY <1>2, <3>4, ConstantsAssumption DEF TypeOK
      <4> QED  BY <1>4, <3>1, <4>1, <4>2, <4>3, SenderIsQueued
    <3> QED  BY <3>2, <3>3, <3>4
  <2> QED  BY <2>1 DEF SenderKept
<1>9. AbortsTheGone'
  BY <1>1, <1>2, <1>4 DEF SessionInv, AbortsTheGone, Items
<1> QED  BY <1>5, <1>6, <1>7, <1>8, <1>9 DEF SessionInv

(* FileSearchAbort: the session of that value is dropped, whoever owns it now. *)
LEMMA HandleAbortSession ==
  ASSUME TypeOK, SessionInv, NEW v \in Value, HandleAbort(v)
  PROVE  SessionInv'
<1>1. /\ FileSearchAbort(v) \in Items(commands)
      /\ Items(commands) = Items(commands') \cup {FileSearchAbort(v)}
  BY CommandTaken DEF HandleAbort
<1>2. /\ UNCHANGED <<task, gone, blocked, refused>> /\ blocked = None
      /\ sessions' = [sessions EXCEPT ![v] = None]
  BY DEF HandleAbort, HandleCommand, Serving, tasks, streams
<1>3. \A t \in Search : HasRival(t) => HasRival(t)'
  BY <1>2 DEF HasRival
<1>4. SessionHasTask'
  BY <1>2 DEF SessionInv, SessionHasTask, TypeOK
<1>5. QueuedHasTask'
  BY <1>1, <1>2 DEF SessionInv, QueuedHasTask, Items
<1>6. BlockedHasSession'
  BY <1>2 DEF BlockedHasSession
<1>7. SenderKept'
  <2>1. ASSUME NEW t \in Search, task'[t] # "idle", t \notin (gone \cup refused)'
        PROVE  HasSender(t)' \/ HasRival(t)'
    <3>1. FileSearch(t) \in Items(commands') \/ sessions'[ValueOf[t]] = t => HasSender(t)'
      BY DEF HasSender, Items
    <3>2. CASE ValueOf[t] = v
      BY <1>1, <1>2, <1>3, <2>1, <3>2 DEF SessionInv, AbortsTheGone
    <3>3. CASE ValueOf[t] # v
      <4>1. HasSender(t) \/ HasRival(t)
        BY <1>2, <2>1 DEF SessionInv, SenderKept
      <4>2. FileSearch(t) \in Items(commands) => FileSearch(t) \in Items(commands')
        BY <1>1, CommandsDiffer
      <4>3. sessions'[ValueOf[t]] = sessions[ValueOf[t]]
        BY <1>2, <3>3, ConstantsAssumption DEF TypeOK
      <4> QED  BY <1>3, <3>1, <4>1, <4>2, <4>3, SenderIsQueued
    <3> QED  BY <3>2, <3>3
  <2> QED  BY <2>1 DEF SenderKept
<1>8. AbortsTheGone'
  BY <1>1, <1>2, <1>3 DEF SessionInv, AbortsTheGone, Items
<1> QED  BY <1>4, <1>5, <1>6, <1>7, <1>8 DEF SessionInv

(* A task whose client has left asks for the end of its session; a rival that owns
   the session by now loses it. *)
LEMMA AbortSession ==
  ASSUME TypeOK, SessionInv, NEW s \in Search, Abort(s)
  PROVE  SessionInv'
<1>1. /\ task[s] = "abort" /\ task' = [task EXCEPT ![s] = "select"]
      /\ UNCHANGED <<sessions, refused, gone, blocked>>
  BY DEF Abort, Goto, loop, streams
<1>2. Items(commands') = Items(commands) \cup {FileSearchAbort(ValueOf[s])}
  <2>1. FileSearchAbort(ValueOf[s]) \in Command
    BY ConstantsAssumption DEF Command
  <2> QED  BY <2>1, CommandSent DEF Abort
<1>3. \A t \in Search : task'[t] = IF t = s THEN "select" ELSE task[t]
  BY <1>1 DEF TypeOK
<1>4. \A t \in Search : FileSearch(t) \in Items(commands') <=> FileSearch(t) \in Items(commands)
  BY <1>2, CommandsDiffer
<1>5. \A t \in Search : FileSearchAbort(ValueOf[t]) \in Items(commands') =>
        ValueOf[t] = ValueOf[s] \/ FileSearchAbort(ValueOf[t]) \in Items(commands)
  BY <1>2, CommandsDiffer
<1>6. \A t \in Search : HasRival(t) => HasRival(t)'
  BY <1>3 DEF HasRival
<1>7. SessionHasTask'
  BY <1>1, <1>3 DEF SessionInv, SessionHasTask, TypeOK
<1>8. QueuedHasTask'
  BY <1>3, <1>4 DEF SessionInv, QueuedHasTask, Items
<1>9. BlockedHasSession'
  BY <1>1 DEF SessionInv, BlockedHasSession
<1>10. SenderKept'
  <2>1. ASSUME NEW t \in Search, task'[t] # "idle", t \notin (gone \cup refused)'
        PROVE  HasSender(t)' \/ HasRival(t)'
    <3>1. FileSearch(t) \in Items(commands') \/ sessions'[ValueOf[t]] = t => HasSender(t)'
      BY DEF HasSender, Items
    <3>2. HasSender(t) \/ HasRival(t)
      BY <1>1, <1>3, <2>1 DEF SessionInv, SenderKept
    <3> QED  BY <1>1, <1>4, <1>6, <3>1, <3>2, SenderIsQueued
  <2> QED  BY <2>1 DEF SenderKept
<1>11. AbortsTheGone'
  <2>1. ASSUME NEW t \in Search, FileSearchAbort(ValueOf[t]) \in Items(commands')
        PROVE  t \in gone' \/ HasRival(t)'
    <3>1. CASE t = s
      BY <1>1, <3>1 DEF SessionInv, AbortsTheGone
    <3>2. CASE t # s /\ ValueOf[t] = ValueOf[s]
      BY <1>3, <3>2 DEF HasRival
    <3>3. CASE FileSearchAbort(ValueOf[t]) \in Items(commands)
      BY <1>1, <1>6, <3>3 DEF SessionInv, AbortsTheGone
    <3> QED  BY <1>5, <2>1, <3>1, <3>2, <3>3
  <2>2. Items(commands)' = Items(commands')
    BY DEF Items
  <2> QED  BY <1>1, <1>3, <2>1, <2>2 DEF SessionInv, AbortsTheGone
<1> QED  BY <1>7, <1>8, <1>9, <1>10, <1>11 DEF SessionInv

(* The channel is closed, so its sender is neither queued nor in the table. *)
LEMMA RecvNoneSession ==
  ASSUME TypeOK, SessionInv, NEW s \in Search, RecvNone(s)
  PROVE  SessionInv'
<1>1. /\ task[s] = "select" /\ ~ HasSender(s) /\ task' = [task EXCEPT ![s] = "ended"]
      /\ UNCHANGED <<commands, sessions, refused, gone, blocked>>
  BY DEF RecvNone, Goto, loop, streams
<1>2. \A t \in Search : task'[t] = IF t = s THEN "ended" ELSE task[t]
  BY <1>1 DEF TypeOK
<1>3. FileSearch(s) \notin Items(commands) /\ sessions[ValueOf[s]] # s
  BY <1>1, SenderIsQueued
<1>4. \A t \in Search : HasRival(t) => HasRival(t)'
  BY <1>1, <1>2 DEF HasRival
<1>5. SessionHasTask'
  BY <1>1, <1>2, <1>3 DEF SessionInv, SessionHasTask, TypeOK
<1>6. QueuedHasTask'
  BY <1>1, <1>2, <1>3 DEF SessionInv, QueuedHasTask, Items
<1>7. BlockedHasSession'
  BY <1>1 DEF SessionInv, BlockedHasSession
<1>8. SenderKept'
  <2>1. ASSUME NEW t \in Search, task'[t] # "idle", t \notin (gone \cup refused)'
        PROVE  HasSender(t)' \/ HasRival(t)'
    <3>1. HasSender(t) => HasSender(t)'
      BY <1>1 DEF HasSender
    <3>2. HasSender(t) \/ HasRival(t)
      BY <1>1, <1>2, <2>1 DEF SessionInv, SenderKept
    <3> QED  BY <1>4, <3>1, <3>2
  <2> QED  BY <2>1 DEF SenderKept
<1>9. AbortsTheGone'
  BY <1>1, <1>2, <1>4 DEF SessionInv, AbortsTheGone, Items
<1> QED  BY <1>5, <1>6, <1>7, <1>8, <1>9 DEF SessionInv

-----------------------------------------------------------------------------
(* What a task sends and remembers.                                        *)

CacheInv == HandIsNew /\ CacheHoldsSent

(* A step after which no task is nearer to sending. *)
LEMMA CacheStays ==
  ASSUME CacheInv, UNCHANGED <<cache, delivered, evictions>>,
         \A s \in Search : task'[s] = "send" => task[s] = "send" /\ hand'[s] = hand[s]
  PROVE  CacheInv'
  BY DEF CacheInv, HandIsNew, CacheHoldsSent, Items

LEMMA SentAreFinite ==
  ASSUME TypeOK, CacheHoldsSent, NEW s \in Search
  PROVE  /\ IsFiniteSet(Items(delivered[s])) /\ IsFiniteSet(cache[s])
         /\ Cardinality(cache[s]) <= Cardinality(Items(delivered[s]))
         /\ Cardinality(cache[s]) \in Nat /\ Cardinality(Items(delivered[s])) \in Nat
<1>1. delivered[s] \in Seq(File)
  BY DEF TypeOK
<1>2. IsFiniteSet(1 .. Len(delivered[s])) /\ DOMAIN delivered[s] = 1 .. Len(delivered[s])
  BY <1>1, LenProperties, FS_Interval
<1>3. delivered[s] \in Surjection(1 .. Len(delivered[s]), Items(delivered[s]))
  <2>1. delivered[s] \in [1 .. Len(delivered[s]) -> Items(delivered[s])]
    BY <1>1, <1>2, LenProperties DEF Items
  <2> QED  BY <1>2, <2>1 DEF Surjection, Items
<1>4. IsFiniteSet(Items(delivered[s]))
  BY <1>2, <1>3, FS_Surjection
<1>5. /\ IsFiniteSet(cache[s])
      /\ Cardinality(cache[s]) <= Cardinality(Items(delivered[s]))
  BY <1>4, FS_Subset DEF CacheHoldsSent
<1> QED  BY <1>4, <1>5, FS_CardinalityType

LEMMA RecvCache ==
  ASSUME TypeOK, CacheInv, NEW s \in Search, Recv(s)
  PROVE  CacheInv'
<1> DEFINE f == Head(found[s])
<1>1. f \in File
  <2>1. found[s] \in Seq(File) /\ found[s] # <<>>
    BY DEF TypeOK, Recv
  <2> QED  BY <2>1, ItemsTail
<1>2. UNCHANGED <<cache, delivered, evictions>>
  BY DEF Recv, streams
<1>3. \A t \in Search : task'[t] = "send" =>
        \/ t = s /\ f \notin cache[s] /\ hand'[s] = f
        \/ t # s /\ task[t] = "send" /\ hand'[t] = hand[t]
  BY DEF Recv, Goto, TypeOK
<1> HIDE DEF f
<1>4. HandIsNew'
  BY <1>1, <1>2, <1>3 DEF CacheInv, HandIsNew
<1>5. CacheHoldsSent'
  BY <1>2 DEF CacheInv, CacheHoldsSent, Items
<1> QED  BY <1>4, <1>5 DEF CacheInv

LEMMA SendCache ==
  ASSUME TypeOK, CacheInv, NEW s \in Search, Send(s)
  PROVE  CacheInv'
<1>1. /\ hand[s] \in File /\ hand[s] \notin cache[s]
      /\ UNCHANGED evictions
  BY DEF Send, CacheInv, HandIsNew
<1>2. /\ \A t \in Search : task'[t] = "send" => t # s /\ task[t] = "send" /\ hand'[t] = hand[t]
      /\ \A t \in Search : t # s => cache'[t] = cache[t] /\ delivered'[t] = delivered[t]
      /\ cache'[s] = cache[s] \cup {hand[s]}
      /\ delivered'[s] = Append(delivered[s], hand[s])
  BY DEF Send, Goto, TypeOK
<1>3. HandIsNew'
  BY <1>2 DEF CacheInv, HandIsNew
<1>4. CacheHoldsSent'
  <2>1. delivered[s] \in Seq(File) /\ Len(delivered[s]) \in Nat /\ evictions \in Nat
    BY LenProperties DEF TypeOK
  <2>2. /\ Len(delivered'[s]) = Len(delivered[s]) + 1
        /\ Items(delivered'[s]) = Items(delivered[s]) \cup {hand[s]}
    BY <1>1, <1>2, <2>1, ItemsAppend
  <2>3. Cardinality(cache'[s]) = Cardinality(cache[s]) + 1 /\ Cardinality(cache[s]) \in Nat
    BY <1>1, <1>2, SentAreFinite, FS_AddElement DEF CacheInv
  <2>4. /\ cache[s] \subseteq Items(delivered[s])
        /\ Len(delivered[s]) <= Cardinality(cache[s]) + evictions
    BY DEF CacheInv, CacheHoldsSent
  <2>5. /\ cache'[s] \subseteq Items(delivered'[s])
        /\ Len(delivered'[s]) <= Cardinality(cache'[s]) + evictions
    <3>1. cache'[s] \subseteq Items(delivered'[s])
      BY <1>2, <2>2, <2>4
    <3>2. Len(delivered'[s]) <= Cardinality(cache'[s]) + evictions
      BY <2>1, <2>2, <2>3, <2>4
    <3> QED  BY <3>1, <3>2
  <2>6. \A t \in Search : t # s =>
          /\ cache'[t] \subseteq Items(delivered'[t])
          /\ Len(delivered'[t]) <= Cardinality(cache'[t]) + evictions
    BY <1>2 DEF CacheInv, CacheHoldsSent
  <2>7. ASSUME NEW t \in Search
        PROVE  /\ cache'[t] \subseteq Items(delivered'[t])
               /\ Len(delivered'[t]) <= Cardinality(cache'[t]) + evictions'
    BY <1>1, <2>5, <2>6
  <2> QED  BY <2>7 DEF CacheHoldsSent, Items
<1> QED  BY <1>3, <1>4 DEF CacheInv

LEMMA EvictCache ==
  ASSUME TypeOK, CacheInv, NEW s \in Search, NEW f \in File, Evict(s, f)
  PROVE  CacheInv'
<1>1. /\ f \in cache[s] /\ evictions' = evictions + 1
      /\ UNCHANGED <<task, hand, delivered>>
      /\ cache'[s] = cache[s] \ {f}
      /\ \A t \in Search : t # s => cache'[t] = cache[t]
  BY DEF Evict, TypeOK, streams
<1>2. HandIsNew'
  BY <1>1 DEF CacheInv, HandIsNew
<1>3. CacheHoldsSent'
  <2>1. evictions \in Nat /\ \A t \in Search : Len(delivered[t]) \in Nat
    BY LenProperties DEF TypeOK
  <2>2. Cardinality(cache'[s]) = Cardinality(cache[s]) - 1
    BY <1>1, SentAreFinite, FS_RemoveElement DEF CacheInv
  <2>3. \A t \in Search : Cardinality(cache[t]) \in Nat
    BY SentAreFinite DEF CacheInv
  <2>4. ASSUME NEW t \in Search
        PROVE  /\ cache'[t] \subseteq Items(delivered[t])
               /\ Len(delivered[t]) <= Cardinality(cache'[t]) + evictions'
    <3>1. /\ cache[t] \subseteq Items(delivered[t])
          /\ Len(delivered[t]) <= Cardinality(cache[t]) + evictions
      BY DEF CacheInv, CacheHoldsSent
    <3>2. /\ cache'[t] \subseteq cache[t]
          /\ Cardinality(cache'[t]) \in {Cardinality(cache[t]), Cardinality(cache[t]) - 1}
      BY <1>1, <2>2
    <3>3. Len(delivered[t]) <= Cardinality(cache'[t]) + evictions'
      BY <1>1, <2>1, <2>3, <3>1, <3>2
    <3> QED  BY <3>1, <3>2, <3>3
  <2> QED  BY <1>1, <2>4 DEF CacheHoldsSent, Items
<1> QED  BY <1>2, <1>3 DEF CacheInv

-----------------------------------------------------------------------------
(* What peers are told.                                                    *)

(* A step that leaves the commands with matches alone. *)
LEMMA ReportsStay ==
  ASSUME ReportsFit, UNCHANGED <<unread, answered>>,
         \A p \in PeerSearch, f \in File :
           FileSearchResult(p, f) \in Items(commands')
             <=> FileSearchResult(p, f) \in Items(commands)
  PROVE  ReportsFit'
<1>1. ASSUME NEW p \in PeerSearch
      PROVE  Reportable(p) \subseteq File
  BY ConstantsAssumption DEF Reportable
<1>2. Items(commands)' = Items(commands')
  BY DEF Items
<1> QED  BY <1>1, <1>2 DEF ReportsFit, Reportable

(* A command about a session comes or goes. *)
LEMMA SessionCommandReports ==
  ASSUME ReportsFit, UNCHANGED <<unread, answered>>,
         NEW c, \A p \in PeerSearch, f \in File : c # FileSearchResult(p, f),
         \/ Items(commands') = Items(commands)
         \/ Items(commands') = Items(commands) \cup {c}
         \/ Items(commands) = Items(commands') \cup {c}
  PROVE  ReportsFit'
<1>1. \A p \in PeerSearch, f \in File :
        FileSearchResult(p, f) \in Items(commands')
          <=> FileSearchResult(p, f) \in Items(commands)
  OBVIOUS
<1> QED  BY <1>1, ReportsStay

LEMMA ReceiveSearchReports ==
  ASSUME ReportsFit, TypeOK, NEW p \in PeerSearch, ReceiveSearch(p)
  PROVE  ReportsFit'
<1>1. /\ UNCHANGED <<commands, answered>>
      /\ unread' = [unread EXCEPT ![p] = Published]
  BY DEF ReceiveSearch
<1>2. \A q \in PeerSearch : unread'[q] = IF q = p THEN Published ELSE unread[q]
  BY <1>1 DEF TypeOK
<1>3. \A q \in PeerSearch : Reportable(q) \subseteq Published
  BY ConstantsAssumption DEF Reportable
<1> QED  BY <1>1, <1>2, <1>3 DEF ReportsFit, Reportable, Items

LEMMA ReportMatchReports ==
  ASSUME ReportsFit, TypeOK, NEW p \in PeerSearch, NEW f \in File, ReportMatch(p, f)
  PROVE  ReportsFit'
<1>1. /\ UNCHANGED answered
      /\ unread[p] # None /\ f \in unread[p] /\ unread'[p] = unread[p] \ {f}
      /\ \A q \in PeerSearch : q # p => unread'[q] = unread[q]
  BY DEF ReportMatch, TypeOK
<1>2. IF f \in Reportable(p)
      THEN Items(commands') = Items(commands) \cup {FileSearchResult(p, f)}
      ELSE UNCHANGED commands
  <2>1. FileSearchResult(p, f) \in Command
    BY DEF Command
  <2> QED  BY <2>1, CommandSent DEF ReportMatch, Reportable
<1>3. \A q \in PeerSearch, g \in File : FileSearchResult(q, g) \in Items(commands') <=>
        \/ FileSearchResult(q, g) \in Items(commands)
        \/ q = p /\ g = f /\ f \in Reportable(p)
  BY <1>2, CommandsDiffer
<1>4. \A q \in PeerSearch : Reportable(q) \subseteq File
  BY ConstantsAssumption DEF Reportable
<1>5. ASSUME NEW q \in PeerSearch
      PROVE  /\ answered'[q] \subseteq Reportable(q)
             /\ \A g \in File : FileSearchResult(q, g) \in Items(commands') => g \in Reportable(q)
             /\ \A g \in Reportable(q) : unread'[q] # None =>
                  g \in unread'[q] \cup answered'[q] \/ FileSearchResult(q, g) \in Items(commands')
  <2>1. /\ answered[q] \subseteq Reportable(q)
        /\ \A g \in File : FileSearchResult(q, g) \in Items(commands) => g \in Reportable(q)
        /\ \A g \in Reportable(q) : unread[q] # None =>
             g \in unread[q] \cup answered[q] \/ FileSearchResult(q, g) \in Items(commands)
    BY DEF ReportsFit
  <2> QED  BY <1>1, <1>3, <1>4, <2>1
<1>6. Items(commands)' = Items(commands') /\ \A q \in PeerSearch : Reportable(q)' = Reportable(q)
  BY DEF Items, Reportable
<1> QED  BY <1>5, <1>6 DEF ReportsFit

LEMMA HandleResultReports ==
  ASSUME ReportsFit, TypeOK, NEW p \in PeerSearch, NEW f \in File, HandleResult(p, f)
  PROVE  ReportsFit'
<1>1. /\ FileSearchResult(p, f) \in Items(commands)
      /\ Items(commands) = Items(commands') \cup {FileSearchResult(p, f)}
  BY CommandTaken DEF HandleResult
<1>2. /\ UNCHANGED unread /\ answered'[p] = answered[p] \cup {f}
      /\ \A q \in PeerSearch : q # p => answered'[q] = answered[q]
  BY DEF HandleResult, TypeOK
<1>3. \A q \in PeerSearch, g \in File : FileSearchResult(q, g) \in Items(commands) <=>
        \/ FileSearchResult(q, g) \in Items(commands')
        \/ q = p /\ g = f
  BY <1>1, CommandsDiffer
<1>4. \A q \in PeerSearch : Reportable(q) \subseteq File
  BY ConstantsAssumption DEF Reportable
<1>5. ASSUME NEW q \in PeerSearch
      PROVE  /\ answered'[q] \subseteq Reportable(q)
             /\ \A g \in File : FileSearchResult(q, g) \in Items(commands') => g \in Reportable(q)
             /\ \A g \in Reportable(q) : unread'[q] # None =>
                  g \in unread'[q] \cup answered'[q] \/ FileSearchResult(q, g) \in Items(commands')
  <2>1. /\ answered[q] \subseteq Reportable(q)
        /\ \A g \in File : FileSearchResult(q, g) \in Items(commands) => g \in Reportable(q)
        /\ \A g \in Reportable(q) : unread[q] # None =>
             g \in unread[q] \cup answered[q] \/ FileSearchResult(q, g) \in Items(commands)
    BY DEF ReportsFit
  <2> QED  BY <1>2, <1>3, <1>4, <2>1
<1>6. Items(commands)' = Items(commands') /\ \A q \in PeerSearch : Reportable(q)' = Reportable(q)
  BY DEF Items, Reportable
<1> QED  BY <1>5, <1>6 DEF ReportsFit

-----------------------------------------------------------------------------
(* The inductive invariant holds.                                          *)

LEMMA InitInv == Init => IInv
<1> SUFFICES ASSUME Init PROVE IInv
  OBVIOUS
<1>1. Items(commands) = {} /\ \A s \in Search : Items(delivered[s]) = {} /\ Len(delivered[s]) = 0
  BY DEF Init, Items
<1>2. SessionHasTask /\ BlockedHasSession /\ HandIsNew
  BY DEF Init, SessionHasTask, BlockedHasSession, HandIsNew
<1>3. QueuedHasTask /\ SenderKept /\ AbortsTheGone
  BY <1>1 DEF Init, QueuedHasTask, SenderKept, AbortsTheGone
<1>4. CacheHoldsSent
  BY <1>1, FS_EmptySet DEF Init, CacheHoldsSent
<1>5. ReportsFit
  BY <1>1 DEF Init, ReportsFit
<1> QED  BY InitType, <1>2, <1>3, <1>4, <1>5 DEF IInv

(* The steps of a search, its client and its commands. *)
LEMMA SearchKeeps ==
  ASSUME IInv, NEW s \in Search,
         \/ StartSearch(s) \/ ClientReads(s) \/ ClientLeaves(s) \/ HandleSearch(s)
         \/ Recv(s) \/ Send(s) \/ SendFails(s) \/ Tick(s) \/ Abort(s) \/ RecvNone(s)
         \/ \E f \in File : Evict(s, f)
  PROVE  IInv'
<1>1. TypeOK /\ SessionInv /\ CacheInv /\ ReportsFit /\ HandIsNew
  BY DEF IInv, SessionInv, CacheInv
<1>2. TypeOK'
  BY <1>1, ClientType, CommandType, TaskType
<1>3. SessionInv'
  BY <1>1, StartSearchSession, ClientSession, HandleSearchSession, TaskSession,
     AbortSession, RecvNoneSession
<1>4. CacheInv'
  <2>1. CASE Recv(s) \/ Send(s) \/ \E f \in File : Evict(s, f)
    BY <1>1, <2>1, RecvCache, SendCache, EvictCache
  <2>2. CASE ClientReads(s) \/ ClientLeaves(s) \/ HandleSearch(s)
    <3>1. UNCHANGED <<cache, delivered, evictions, task, hand>>
      BY <2>2 DEF ClientReads, ClientLeaves, HandleSearch, tasks, streams
    <3> QED  BY <1>1, <3>1, CacheStays
  <2>3. CASE StartSearch(s) \/ Tick(s) \/ Abort(s) \/ RecvNone(s) \/ SendFails(s)
    <3>1. UNCHANGED <<cache, delivered, evictions>>
      BY <2>3 DEF StartSearch, Tick, TickThen, Abort, RecvNone, SendFails, streams
    <3>2. \A t \in Search : task'[t] = "send" => task[t] = "send" /\ hand'[t] = hand[t]
      BY <1>1, <2>3 DEF StartSearch, Tick, TickThen, Abort, RecvNone, SendFails, Goto, TypeOK
    <3> QED  BY <1>1, <3>1, <3>2, CacheStays
  <2> QED  BY <2>1, <2>2, <2>3
<1>5. ReportsFit'
  <2>1. UNCHANGED <<unread, answered>>
    BY DEF StartSearch, ClientReads, ClientLeaves, HandleSearch, Recv, Send, SendFails,
           Tick, TickThen, Abort, RecvNone, Evict, peers
  <2>2. CASE StartSearch(s) \/ HandleSearch(s)
    <3>1. FileSearch(s) \in Command
      BY DEF Command
    <3>2. \/ Items(commands') = Items(commands) \cup {FileSearch(s)}
          \/ Items(commands) = Items(commands') \cup {FileSearch(s)}
      BY <1>1, <2>2, <3>1, CommandSent, CommandTaken DEF StartSearch, HandleSearch
    <3>3. \A p \in PeerSearch, f \in File : FileSearch(s) # FileSearchResult(p, f)
      BY CommandsDiffer
    <3> QED  BY <1>1, <2>1, <3>2, <3>3, SessionCommandReports
  <2>3. CASE Abort(s)
    <3>1. FileSearchAbort(ValueOf[s]) \in Command
      BY ConstantsAssumption DEF Command
    <3>2. Items(commands') = Items(commands) \cup {FileSearchAbort(ValueOf[s])}
      BY <1>1, <2>3, <3>1, CommandSent DEF Abort
    <3>3. \A p \in PeerSearch, f \in File : FileSearchAbort(ValueOf[s]) # FileSearchResult(p, f)
      BY CommandsDiffer
    <3> QED  BY <1>1, <2>1, <3>2, <3>3, SessionCommandReports
  <2>4. CASE UNCHANGED commands
    BY <1>1, <2>1, <2>4, ReportsStay
  <2> QED
    BY <2>2, <2>3, <2>4 DEF ClientReads, ClientLeaves, Recv, Send, SendFails, Tick, TickThen,
                            RecvNone, Evict
<1> QED  BY <1>2, <1>3, <1>4, <1>5 DEF IInv, SessionInv, CacheInv

(* The steps of the loop and of the searches of peers. *)
LEMMA LoopKeeps ==
  ASSUME IInv,
         \/ \E v \in Value : HandleAbort(v) \/ \E f \in ResultsOf[v] : ReceiveResult(v, f)
         \/ Unblock
         \/ \E p \in PeerSearch :
              \/ ReceiveSearch(p) \/ AnswerPeer(p) \/ \E f \in File : HandleResult(p, f)
  PROVE  IInv'
<1>1. TypeOK /\ SessionInv /\ CacheInv /\ ReportsFit /\ BlockedHasSession
  BY DEF IInv, SessionInv, CacheInv
<1>2. TypeOK'
  BY <1>1, CommandType, ReceiveType, PeerType
<1>3. SessionInv'
  BY <1>1, HandleAbortSession, ReceiveSession, ReportSession DEF AnswerPeer
<1>4. CacheInv'
  <2>1. UNCHANGED <<cache, delivered, evictions, task, hand>>
    BY DEF HandleAbort, ReceiveResult, Unblock, ReceiveSearch, AnswerPeer, ReportMatch,
           HandleResult, tasks, streams
  <2> QED  BY <1>1, <2>1, CacheStays
<1>5. ReportsFit'
  <2>1. ASSUME NEW v \in Value, HandleAbort(v)
        PROVE  ReportsFit'
    <3>1. Items(commands) = Items(commands') \cup {FileSearchAbort(v)}
      BY <1>1, <2>1, CommandTaken DEF HandleAbort
    <3>2. \A p \in PeerSearch, f \in File : FileSearchAbort(v) # FileSearchResult(p, f)
      BY CommandsDiffer
    <3>3. UNCHANGED <<unread, answered>>
      BY <2>1 DEF HandleAbort, peers
    <3> QED  BY <1>1, <3>1, <3>2, <3>3, SessionCommandReports
  <2>2. CASE UNCHANGED <<commands, unread, answered>>
    BY <1>1, <2>2, ReportsStay
  <2> QED
    BY <1>1, <2>1, <2>2, ReceiveSearchReports, ReportMatchReports, HandleResultReports
       DEF ReceiveResult, Unblock, AnswerPeer, peers
<1> QED  BY <1>2, <1>3, <1>4, <1>5 DEF IInv, SessionInv, CacheInv

LEMMA StutterKeeps == IInv /\ UNCHANGED vars => IInv'
<1> SUFFICES ASSUME IInv, UNCHANGED vars PROVE IInv'
  OBVIOUS
<1>1. TypeOK'
  BY DEF IInv, TypeOK, vars, loop, tasks, streams, peers
<1>2. SessionInv'
  BY QuietSession DEF IInv, SessionInv, BlockedHasSession, vars, loop, tasks, streams
<1>3. CacheInv'
  BY CacheStays DEF IInv, CacheInv, vars, tasks, streams
<1>4. ReportsFit'
  BY ReportsStay DEF IInv, vars, peers
<1> QED  BY <1>1, <1>2, <1>3, <1>4 DEF IInv, SessionInv, CacheInv

LEMMA StepInv == IInv /\ [Next]_vars => IInv'
  BY SearchKeeps, LoopKeeps, StutterKeeps DEF Next

THEOREM IInvHolds == Spec => []IInv
  BY InitInv, StepInv, PTL DEF Spec

-----------------------------------------------------------------------------
(* The theorems.                                                           *)

(* Every variable has its type; no channel holds more than its capacity
   (server.rs:183-184, service.rs:178-180). *)
THEOREM TypeCorrect == Spec => []TypeOK
  BY IInvHolds, PTL DEF IInv

(* A session leads to a running task that searches for its value, so a result never
   meets a closed channel (events.rs:336-342). *)
THEOREM SessionsLead == Spec => []SessionHasTask
  BY IInvHolds, PTL DEF IInv

(* A file is reported again only if the cache has forgotten it, wherever the task
   was between the check, the send and the insert (server.rs:223-243). *)
THEOREM RepeatsForgotten == Spec => []RepeatsOnlyForgotten
<1>1. ASSUME TypeOK, CacheHoldsSent PROVE RepeatsOnlyForgotten
  <2>1. ASSUME NEW s \in Search
        PROVE  Len(delivered[s]) <= Cardinality(Items(delivered[s])) + evictions
    <3>1. Len(delivered[s]) \in Nat /\ evictions \in Nat
      BY <1>1, LenProperties DEF TypeOK
    <3>2. Len(delivered[s]) <= Cardinality(cache[s]) + evictions
      BY <1>1 DEF CacheHoldsSent
    <3> QED  BY <1>1, <3>1, <3>2, SentAreFinite
  <2> QED  BY <2>1 DEF RepeatsOnlyForgotten, Items
<1> QED  BY <1>1, IInvHolds, PTL DEF IInv

(* The stream of a client that listens ends for two reasons alone: its search could
   not be gossiped, or another call searches for the same value, which is the key of
   the session table (server.rs:204-259, events.rs:300-330). *)
OnlyRivalsClose ==
  \A s \in Search :
    task[s] = "ended" /\ s \notin gone => s \in refused \/ HasRival(s)

THEOREM RivalsClose == Spec => []OnlyRivalsClose
<1>1. ASSUME SessionHasTask, QueuedHasTask, SenderKept, TypeOK PROVE OnlyRivalsClose
  <2>1. ASSUME NEW s \in Search, task[s] = "ended", s \notin gone, s \notin refused
        PROVE  HasRival(s)
    <3>1. FileSearch(s) \notin Items(commands)
      BY <1>1, <2>1 DEF QueuedHasTask
    <3>2. sessions[ValueOf[s]] # s
      <4>1. s # None /\ ValueOf[s] \in Value
        BY ConstantsAssumption
      <4> QED  BY <1>1, <2>1, <4>1 DEF SessionHasTask
    <3>3. ~ HasSender(s)
      BY <3>1, <3>2, SenderIsQueued
    <3> QED  BY <1>1, <2>1, <3>3 DEF SenderKept
  <2> QED  BY <2>1 DEF OnlyRivalsClose
<1> QED  BY <1>1, IInvHolds, PTL DEF IInv

(* Without two calls for one value, a listening client's stream stays open unless
   its search could not be gossiped (README.md:163; server.rs:204-259). *)
DistinctValues == \A s, t \in Search : ValueOf[s] = ValueOf[t] => s = t

THEOREM StreamsStayOpen == ASSUME DistinctValues PROVE Spec => []StreamStaysOpen
<1>1. OnlyRivalsClose => StreamStaysOpen
  BY DEF OnlyRivalsClose, StreamStaysOpen, HasRival, DistinctValues
<1> QED  BY <1>1, RivalsClose, PTL

(* What the liveness of PeersAreAnswered rests on: no peer is sent a private file or
   one that does not match, and once the records are looked through and the commands
   with its matches handled, it has been sent all of them (events.rs:706-785). *)
MatchesAccounted ==
  \A p \in PeerSearch :
    /\ answered[p] \subseteq Public \cap MatchesOf[p]
    /\ unread[p] = {} /\ (\A f \in File : FileSearchResult(p, f) \notin Items(commands)) =>
         answered[p] = Public \cap MatchesOf[p]

THEOREM PeersTold == Spec => []MatchesAccounted
<1>1. {} # None
  BY ConstantsAssumption
<1>2. ReportsFit => MatchesAccounted
  <2>1. \A p \in PeerSearch : Reportable(p) \subseteq File
    BY ConstantsAssumption DEF Reportable
  <2> QED  BY <1>1, <2>1 DEF ReportsFit, MatchesAccounted, Reportable
<1> QED  BY <1>2, IInvHolds, PTL DEF IInv

(* Once the loop and a search task await one another nobody frees them: neither a
   client, nor another task, nor a peer (events.rs:334; server.rs:234, 249). *)
LEMMA CircleStays == IInv /\ Circle /\ [Next]_vars => Circle'
<1> SUFFICES ASSUME IInv, Circle, [Next]_vars PROVE Circle'
  OBVIOUS
<1> DEFINE s == sessions[blocked.value]
<1>1. /\ ~Serving /\ Len(commands) = MaxCommands
      /\ task[s] = "abort" /\ Len(found[s]) = MaxFound
  BY DEF Circle
<1>2. s \in Search /\ MaxCommands \in Nat /\ MaxFound \in Nat \ {0} /\ Len(<<>>) = 0
  BY <1>1, ConstantsAssumption DEF IInv, TypeOK, BlockedHasSession, Serving
<1>3. SUFFICES UNCHANGED <<blocked, sessions, commands>> /\ task'[s] = "abort" /\ found'[s] = found[s]
  BY <1>1 DEF Circle, Serving
<1>4. task \in [Search -> {"idle", "select", "send", "abort", "ended"}] /\ found \in [Search -> Seq(File)]
  BY DEF IInv, TypeOK
<1> HIDE DEF s
<1>5. ASSUME NEW t \in Search,
             \/ StartSearch(t) \/ ClientReads(t) \/ ClientLeaves(t) \/ HandleSearch(t)
             \/ Recv(t) \/ Send(t) \/ SendFails(t) \/ Tick(t) \/ Abort(t) \/ RecvNone(t)
             \/ \E f \in File : Evict(t, f)
      PROVE  UNCHANGED <<blocked, sessions, commands>> /\ task'[s] = "abort" /\ found'[s] = found[s]
  <2>1. CASE StartSearch(t) \/ Abort(t) \/ HandleSearch(t)
    BY <1>1, <1>2, <2>1 DEF StartSearch, Abort, HandleSearch, HandleCommand
  <2>2. CASE Recv(t)
    BY <1>1, <1>2, <1>4, <2>2 DEF Recv, Goto, loop
  <2>3. CASE Send(t) \/ SendFails(t) \/ Tick(t) \/ RecvNone(t)
    BY <1>1, <1>2, <1>4, <2>3 DEF Send, SendFails, Tick, TickThen, RecvNone, Goto, loop
  <2>4. CASE ClientReads(t) \/ ClientLeaves(t) \/ \E f \in File : Evict(t, f)
    BY <1>1, <2>4 DEF ClientReads, ClientLeaves, Evict, loop, tasks
  <2> QED  BY <1>5, <2>1, <2>2, <2>3, <2>4
<1>6. ASSUME NEW p \in PeerSearch,
             \/ ReceiveSearch(p) \/ AnswerPeer(p) \/ \E f \in File : HandleResult(p, f)
      PROVE  UNCHANGED <<blocked, sessions, commands>> /\ task'[s] = "abort" /\ found'[s] = found[s]
  BY <1>1, <1>2, <1>6 DEF ReceiveSearch, AnswerPeer, ReportMatch, HandleResult, HandleCommand, loop, tasks
<1>7. ASSUME \/ \E v \in Value : HandleAbort(v) \/ \E f \in ResultsOf[v] : ReceiveResult(v, f)
             \/ Unblock
      PROVE  FALSE
  BY <1>1, <1>2, <1>7 DEF HandleAbort, HandleCommand, ReceiveResult, Unblock, s
<1>8. CASE UNCHANGED vars
  BY <1>1, <1>8 DEF vars, loop, tasks
<1> QED  BY <1>5, <1>6, <1>7, <1>8 DEF Next

(* The circle, once closed, is for good (the run search_deadlock reaches it). *)
THEOREM CircleForGood == Spec => CircleIsForGood
<1>1. IInv /\ [Next]_vars => [Circle => Circle']_vars
  BY CircleStays
<1> QED  BY <1>1, IInvHolds, PTL DEF Spec, CircleIsForGood
=============================================================================
