-------------------------- MODULE ProviderRequests --------------------------
(***************************************************************************)
(* The tables of EventService that carry a request from the command that   *)
(* asks for it to the oneshot channel that answers it: a Kademlia query    *)
(* for the providers of a key, then a request to one of them.  Kademlia    *)
(* and the two request_response behaviours are external: they number their *)
(* queries and requests and report on them in any order.                   *)
(***************************************************************************)
EXTENDS Naturals, FiniteSets

CONSTANTS
  Request,      \* the RequestMetadata and RequestFileChunk commands
  KindOf,       \* which of the two each is
  Peer,
  MaxFailures,  \* bound: how many requests the network loses
  None

Kind == {"metadata", "chunk"}
Id == 1 .. Cardinality(Request)

\* ProvidersRequestData: a request and the providers found for it so far.
Data == [request : Request, found : SUBSET Peer]

ASSUME ConstantsAssumption ==
  /\ IsFiniteSet(Request)
  /\ KindOf \in [Request -> Kind]
  /\ MaxFailures \in Nat
  /\ None \notin Request /\ None \notin Data

VARIABLES
  oneshot,      \* the channel of each request, as its caller sees it
  about,        \* the request whose response was sent into it
  providers,    \* <kind>_providers_requests: Data by query id
  downloads,    \* <kind>_download_requests: the channel's request by request id
  queries,      \* Kademlia: the queries under way
  nextQuery,
  outbound,     \* request_response: the requests under way, in each behaviour
  nextRequest,  \* each behaviour numbers its own
  failures

tables == <<providers, downloads>>
network == <<queries, nextQuery, outbound, nextRequest, failures>>
vars == <<oneshot, about, tables, network>>

Message == [kind : Kind, id : Id, to : Peer, request : Request]

TypeOK ==
  /\ oneshot \in [Request -> {"idle", "open", "some", "none", "gone"}]
  /\ about \in [Request -> Request \cup {None}]
  /\ providers \in [Kind -> [Id -> Data \cup {None}]]
  /\ downloads \in [Kind -> [Id -> Request \cup {None}]]
  /\ queries \subseteq Id
  /\ nextQuery \in Nat \ {0}
  /\ outbound \subseteq Message
  /\ nextRequest \in [Kind -> Nat \ {0}]
  /\ failures \in Nat

Init ==
  /\ oneshot = [r \in Request |-> "idle"]
  /\ about = [r \in Request |-> None]
  /\ providers = [k \in Kind |-> [i \in Id |-> None]]
  /\ downloads = [k \in Kind |-> [i \in Id |-> None]]
  /\ queries = {} /\ nextQuery = 1
  /\ outbound = {} /\ nextRequest = [k \in Kind |-> 1]
  /\ failures = 0

\* Sending into the channel has an effect only while its receiver waits.
Send(r, answer, of) ==
  IF oneshot[r] = "open"
  THEN /\ oneshot' = [oneshot EXCEPT ![r] = answer]
       /\ about' = [about EXCEPT ![r] = of]
  ELSE UNCHANGED <<oneshot, about>>

-----------------------------------------------------------------------------
\* handle_command: start a query and remember who asked.
HandleRequest(r) ==
  /\ oneshot[r] = "idle"
  /\ oneshot' = [oneshot EXCEPT ![r] = "open"]
  /\ providers' = [providers EXCEPT ![KindOf[r]][nextQuery] = [request |-> r, found |-> {}]]
  /\ queries' = queries \cup {nextQuery}
  /\ nextQuery' = nextQuery + 1
  /\ UNCHANGED <<about, downloads, outbound, nextRequest, failures>>

\* The gRPC client of a metadata request hangs up.
CallerGone(r) ==
  /\ KindOf[r] = "metadata" /\ oneshot[r] = "open"
  /\ oneshot' = [oneshot EXCEPT ![r] = "gone"]
  /\ UNCHANGED <<about, tables, network>>

\* The table the loop finds a query in: metadata is looked up first.
TableOf(q) == IF providers["metadata"][q] # None THEN "metadata" ELSE "chunk"

\* FoundProviders: a query reports peers, at once or one by one.
FoundProviders(q, peers) ==
  LET k == TableOf(q) IN
  /\ q \in queries
  /\ providers' = IF providers[k][q] = None THEN providers
                  ELSE [providers EXCEPT ![k][q].found = @ \cup peers]
  /\ UNCHANGED <<oneshot, about, downloads, network>>

\* Mutant of RemoveData: the entry is read, not removed.
ReadData(k, q) == UNCHANGED providers

\* HashMap::remove of the query's data.
RemoveData(k, q) == providers' = [providers EXCEPT ![k][q] = None]

\* handle_all_possible_providers_found: ask one of the peers found, or
\* answer None.
AllProvidersFound(k, q) ==
  LET data == providers[k][q]
      id == nextRequest[k]
  IN
  /\ RemoveData(k, q)
  /\ \/ /\ data.found = {}
        /\ Send(data.request, "none", data.request)
        /\ UNCHANGED <<downloads, outbound, nextRequest>>
     \/ /\ \E p \in data.found : outbound' = outbound \cup
             {[kind |-> k, id |-> id, to |-> p, request |-> data.request]}
        /\ downloads' = [downloads EXCEPT ![k][id] = data.request]
        /\ nextRequest' = [nextRequest EXCEPT ![k] = @ + 1]
        /\ UNCHANGED <<oneshot, about>>

\* Mutant of QueryEnds: the error of a query that timed out is only logged.
QueryEndsUnhandled(q) ==
  /\ q \in queries /\ providers[TableOf(q)][q] # None
  /\ queries' = queries \ {q}
  /\ \/ AllProvidersFound(TableOf(q), q)
     \/ UNCHANGED <<oneshot, about, tables, outbound, nextRequest>>
  /\ UNCHANGED <<nextQuery, failures>>

\* The last event of a query, a success or a timeout.
QueryEnds(q) ==
  /\ q \in queries /\ providers[TableOf(q)][q] # None
  /\ queries' = queries \ {q}
  /\ AllProvidersFound(TableOf(q), q)
  /\ UNCHANGED <<nextQuery, failures>>

\* Mutant of HandleResponse: one table for both behaviours' request ids.
HandleResponseAnyKind(m, answer) ==
  LET r == IF downloads["metadata"][m.id] # None THEN downloads["metadata"][m.id]
                                                  ELSE downloads["chunk"][m.id] IN
  /\ m \in outbound
  /\ outbound' = outbound \ {m}
  /\ downloads' = [downloads EXCEPT !["metadata"][m.id] = None, !["chunk"][m.id] = None]
  /\ IF r # None THEN Send(r, answer, m.request) ELSE UNCHANGED <<oneshot, about>>
  /\ UNCHANGED <<providers, queries, nextQuery, nextRequest, failures>>

\* Mutant of HandleResponse: NotFound and Error are passed on as they are.
HandleResponseRaw(m, answer) ==
  LET r == downloads[m.kind][m.id] IN
  /\ m \in outbound
  /\ m.kind = "chunk" => answer = "some"
  /\ outbound' = outbound \ {m}
  /\ downloads' = [downloads EXCEPT ![m.kind][m.id] = None]
  /\ IF r # None THEN Send(r, IF answer = "none" THEN "error" ELSE answer, m.request)
                 ELSE UNCHANGED <<oneshot, about>>
  /\ UNCHANGED <<providers, queries, nextQuery, nextRequest, failures>>

\* A response: a chunk's is passed on as it is; metadata that is NotFound, an
\* error or does not parse becomes None.
HandleResponse(m, answer) ==
  LET r == downloads[m.kind][m.id] IN
  /\ m \in outbound
  /\ m.kind = "chunk" => answer = "some"
  /\ outbound' = outbound \ {m}
  /\ downloads' = [downloads EXCEPT ![m.kind][m.id] = None]
  /\ IF r # None THEN Send(r, answer, m.request) ELSE UNCHANGED <<oneshot, about>>
  /\ UNCHANGED <<providers, queries, nextQuery, nextRequest, failures>>

\* OutboundFailure is logged and its channel stays in the table.
OutboundFailure(m) ==
  /\ m \in outbound
  /\ failures < MaxFailures
  /\ failures' = failures + 1
  /\ outbound' = outbound \ {m}
  /\ UNCHANGED <<oneshot, about, tables, queries, nextQuery, nextRequest>>

Next ==
  \/ \E r \in Request : HandleRequest(r) \/ CallerGone(r)
  \/ \E q \in queries : \/ \E peers \in (SUBSET Peer) \ {{}} : FoundProviders(q, peers)
                        \/ QueryEnds(q)
  \/ \E m \in outbound : \/ \E answer \in {"some", "none"} : HandleResponse(m, answer)
                         \/ OutboundFailure(m)

Spec == Init /\ [][Next]_vars

(* A query ends by its own timeout; a request that is not lost is answered. *)
QueryOf(r) == {q \in queries : providers[TableOf(q)][q] # None
                                 /\ providers[TableOf(q)][q].request = r}

FairSpec ==
  /\ Spec
  /\ \A r \in Request :
       /\ WF_vars(\E q \in QueryOf(r) : QueryEnds(q))
       /\ WF_vars(\E m \in outbound : m.request = r
                    /\ \E answer \in {"some", "none"} : HandleResponse(m, answer))

-----------------------------------------------------------------------------
(* Properties.                                                             *)

\* Where the sending half of a request's channel is kept.
Kept(r) ==
  {<<"query", x[1], x[2]>> : x \in {x \in Kind \X Id :
      providers[x[1]][x[2]] # None /\ providers[x[1]][x[2]].request = r}}
  \cup {<<"download", x[1], x[2]>> : x \in {x \in Kind \X Id : downloads[x[1]][x[2]] = r}}

\* A channel that waits is kept in exactly one table, of its own kind, until it
\* is answered; an answered one is in none.  Moving it between the tables never
\* drops or copies it (events.rs:72-105, 407-436, 483-485, 600-602).
KeptOnce ==
  \A r \in Request :
    /\ oneshot[r] = "open" => Cardinality(Kept(r)) = 1
    /\ oneshot[r] \in {"idle", "some", "none"} => Kept(r) = {}
    /\ \A x \in Kept(r) : x[2] = KindOf[r]

\* A response reaches the channel of the request it answers, although the two
\* behaviours use the same request ids (events.rs:483, 600).
AnswersOwnRequest ==
  \A r \in Request : about[r] \in {None, r}

\* A query or a request to a peer is under way that leads to the channel of r.
QueryHolds(r, k, q) == providers[k][q] # None /\ providers[k][q].request = r

UnderWay(r) ==
  \/ \E k \in Kind, q \in queries : QueryHolds(r, k, q)
  \/ \E m \in outbound : downloads[m.kind][m.id] = r

\* How a request stands, by the tables and the network: nobody but its caller
\* sees whether an open channel will be answered.
Standing(r) ==
  CASE oneshot[r] = "open" -> IF UnderWay(r) THEN "waiting" ELSE "stranded"
    [] oneshot[r] \in {"some", "none"} /\ about[r] # r -> "crossed"
    [] OTHER -> oneshot[r]

Promise == INSTANCE Oneshot WITH
  channel <- [r \in Request |-> Standing(r)], losses <- failures, MaxLosses <- MaxFailures

\* The tables implement Oneshot: whatever the order of queries, responses and
\* failures, a channel is stranded by the loss of its own request alone, is never
\* answered after that, and is answered about its own request otherwise
\* (events.rs:72-105, 407-436, 480-530, 596-620).
KeepsPromise == Promise!Spec

Lost(r) ==
  \E k \in Kind, i \in Id :
    downloads[k][i] = r /\ \A m \in outbound : m.kind = k => m.id # i

\* A caller, which waits without a timeout (file_download_service.rs:202,
\* server.rs:112), is answered in the end unless its request to a peer failed.
AnsweredUnlessLost ==
  \A r \in Request : oneshot[r] = "open" ~> (oneshot[r] # "open" \/ Lost(r))
=============================================================================
