----------------------- MODULE ProviderRequests_proofs -----------------------
(***************************************************************************)
(* Theorems about ProviderRequests, for every set of requests and peers    *)
(* and every number of failures: the sending half of a channel is in one   *)
(* place, what is sent into it answers its request, and the tables keep    *)
(* the promise of Oneshot.                                                 *)
(***************************************************************************)
EXTENDS ProviderRequests, FiniteSetTheorems, TLAPS

-----------------------------------------------------------------------------
(* The inductive invariant.                                                *)

Waiting == {"open", "gone"}

(* An entry of a providers table belongs to a query that was started, and to a
   request of the table's kind that has not been answered. *)
QueriesKept ==
  \A k \in Kind, i \in Id : providers[k][i] # None =>
    /\ i < nextQuery
    /\ KindOf[providers[k][i].request] = k
    /\ oneshot[providers[k][i].request] \in Waiting

(* The same for the tables of the requests sent to a peer. *)
DownloadsKept ==
  \A k \in Kind, i \in Id : downloads[k][i] # None =>
    /\ i < nextRequest[k]
    /\ KindOf[downloads[k][i]] = k
    /\ oneshot[downloads[k][i]] \in Waiting

(* No request is in two entries. *)
KeptApart ==
  \A k \in Kind, i \in Id, j \in Id :
    /\ providers[k][i] # None /\ providers[k][j] # None /\ i # j =>
         providers[k][i].request # providers[k][j].request
    /\ downloads[k][i] # None /\ i # j => downloads[k][i] # downloads[k][j]
    /\ providers[k][i] # None => downloads[k][j] # providers[k][i].request

(* A channel whose receiver waits is in an entry. *)
WaitingIsKept ==
  \A r \in Request : oneshot[r] = "open" =>
    \E i \in Id : QueryHolds(r, KindOf[r], i) \/ downloads[KindOf[r]][i] = r

(* Numbers are used up by requests: a query is started once for each, a request to
   a peer is sent once for each that has left its query. *)
Asked == {r \in Request : oneshot[r] # "idle"}
Sent == {r \in Asked : \A k \in Kind, i \in Id : ~QueryHolds(r, k, i)}

NumbersSuffice ==
  /\ nextQuery <= Cardinality(Asked) + 1
  /\ \A k \in Kind : nextRequest[k] <= Cardinality(Sent) + 1

(* A request under way has its channel under its own number. *)
MessagesOwn ==
  /\ \A m \in outbound : downloads[m.kind][m.id] = m.request
  /\ \A m \in outbound, n \in outbound : m.kind = n.kind /\ m.id = n.id => m = n

IInv ==
  /\ TypeOK /\ QueriesKept /\ DownloadsKept /\ KeptApart /\ WaitingIsKept
  /\ NumbersSuffice /\ MessagesOwn /\ AnswersOwnRequest

-----------------------------------------------------------------------------
(* Lemmas about the numbers.                                               *)

(* While a request is idle there is a number for its query. *)
LEMMA QueryNumber ==
  ASSUME IInv, NEW r \in Request, r \notin Asked
  PROVE  nextQuery \in Id
<1>1. Asked \in SUBSET (Request \ {r}) /\ IsFiniteSet(Request \ {r})
  BY FS_RemoveElement, ConstantsAssumption DEF Asked
<1>2. Cardinality(Asked) <= Cardinality(Request \ {r}) /\ IsFiniteSet(Asked)
  BY <1>1, FS_Subset
<1>3. Cardinality(Request \ {r}) = Cardinality(Request) - 1
  BY FS_RemoveElement, ConstantsAssumption
<1>4. Cardinality(Asked) \in Nat /\ Cardinality(Request) \in Nat
  BY <1>2, FS_CardinalityType, ConstantsAssumption
<1> QED  BY <1>2, <1>3, <1>4 DEF IInv, NumbersSuffice, TypeOK, Id

(* While a request is in its query there is a number for its message. *)
LEMMA MessageNumber ==
  ASSUME IInv, NEW r \in Request, r \notin Sent, NEW k \in Kind
  PROVE  nextRequest[k] \in Id
<1>1. Sent \in SUBSET (Request \ {r}) /\ IsFiniteSet(Request \ {r})
  BY FS_RemoveElement, ConstantsAssumption DEF Sent, Asked
<1>2. Cardinality(Sent) <= Cardinality(Request \ {r}) /\ IsFiniteSet(Sent)
  BY <1>1, FS_Subset
<1>3. Cardinality(Request \ {r}) = Cardinality(Request) - 1
  BY FS_RemoveElement, ConstantsAssumption
<1>4. Cardinality(Sent) \in Nat /\ Cardinality(Request) \in Nat
  BY <1>2, FS_CardinalityType, ConstantsAssumption
<1> QED  BY <1>2, <1>3, <1>4 DEF IInv, NumbersSuffice, TypeOK, Id

(* One more request among the asked, or the sent, is one more number. *)
LEMMA OneMore ==
  ASSUME NEW A \in SUBSET Request, NEW r \in Request \ A
  PROVE  Cardinality(A) \in Nat /\ Cardinality(A \cup {r}) = Cardinality(A) + 1
<1>1. IsFiniteSet(A)
  BY FS_Subset, ConstantsAssumption
<1> QED  BY <1>1, FS_CardinalityType, FS_AddElement

(* An action that starts no query and ends none leaves the counts alone. *)
LEMMA NumbersStay ==
  ASSUME IInv, UNCHANGED <<nextQuery, nextRequest>>,
         Asked' = Asked, Sent' = Sent
  PROVE  NumbersSuffice'
  BY DEF IInv, NumbersSuffice

-----------------------------------------------------------------------------
(* The initial state and the actions.                                      *)

LEMMA InitIInv == Init => IInv
<1> SUFFICES ASSUME Init PROVE IInv
  OBVIOUS
<1>1. TypeOK
  BY ConstantsAssumption DEF Init, TypeOK
<1>2. QueriesKept /\ DownloadsKept /\ KeptApart /\ MessagesOwn /\ AnswersOwnRequest
  BY DEF Init, QueriesKept, DownloadsKept, KeptApart, MessagesOwn, AnswersOwnRequest
<1>3. WaitingIsKept
  BY DEF Init, WaitingIsKept
<1>4. Asked = {} /\ Sent = {}
  BY DEF Init, Asked, Sent
<1>5. NumbersSuffice
  BY <1>4, FS_EmptySet DEF NumbersSuffice, Init
<1> QED  BY <1>1, <1>2, <1>3, <1>5 DEF IInv

LEMMA HandleRequestKeeps ==
  ASSUME IInv, NEW r \in Request, HandleRequest(r)
  PROVE  IInv'
<1> DEFINE data == [request |-> r, found |-> {}]
<1>1. /\ r \notin Asked /\ oneshot[r] = "idle"
      /\ KindOf[r] \in Kind
      /\ data \in Data /\ data # None /\ data.request = r
  BY ConstantsAssumption DEF HandleRequest, Asked, Data
<1>2. nextQuery \in Id /\ nextQuery \in Nat
  BY <1>1, QueryNumber DEF IInv, TypeOK
<1>3. providers' = [providers EXCEPT ![KindOf[r]][nextQuery] = data]
  BY DEF HandleRequest
<1> HIDE DEF data
<1>4. \A k \in Kind, i \in Id :
        providers'[k][i] = IF k = KindOf[r] /\ i = nextQuery THEN data ELSE providers[k][i]
  BY <1>1, <1>2, <1>3 DEF IInv, TypeOK
<1>5. /\ oneshot' = [oneshot EXCEPT ![r] = "open"] /\ nextQuery' = nextQuery + 1
      /\ queries' = queries \cup {nextQuery}
      /\ UNCHANGED <<about, downloads, outbound, nextRequest, failures>>
  BY DEF HandleRequest
<1>6. \A k \in Kind : providers[k][nextQuery] = None
  BY <1>2 DEF IInv, QueriesKept
<1>7. \A k \in Kind, i \in Id :
        /\ providers[k][i] # None => providers[k][i].request # r
        /\ downloads[k][i] # r
  BY <1>1, ConstantsAssumption DEF IInv, QueriesKept, DownloadsKept, Waiting
<1>8. TypeOK'
  <2>1. providers' \in [Kind -> [Id -> Data \cup {None}]]
    BY <1>1, <1>3 DEF IInv, TypeOK
  <2> QED  BY <1>2, <1>5, <2>1 DEF IInv, TypeOK
<1>9. QueriesKept'
  <2>1. ASSUME NEW k \in Kind, NEW i \in Id, providers'[k][i] # None
        PROVE  /\ i < nextQuery' /\ KindOf[providers'[k][i].request] = k
               /\ oneshot'[providers'[k][i].request] \in Waiting
    <3>1. CASE k = KindOf[r] /\ i = nextQuery
      BY <3>1, <1>1, <1>2, <1>4, <1>5 DEF IInv, TypeOK, Waiting
    <3>2. CASE ~(k = KindOf[r] /\ i = nextQuery)
      <4>1. providers'[k][i] = providers[k][i] /\ providers[k][i].request \in Request
        BY <2>1, <3>2, <1>4 DEF IInv, TypeOK, Data
      <4>2. i < nextQuery /\ i \in Nat
        BY <2>1, <4>1 DEF IInv, QueriesKept, Id
      <4> QED  BY <2>1, <4>1, <4>2, <1>2, <1>5 DEF IInv, TypeOK, QueriesKept, Waiting
    <3> QED  BY <3>1, <3>2
  <2> QED  BY <2>1 DEF QueriesKept
<1>10. DownloadsKept'
  BY <1>1, <1>5 DEF IInv, TypeOK, DownloadsKept, Waiting
<1>11. KeptApart'
  BY <1>1, <1>4, <1>5, <1>7 DEF IInv, KeptApart
<1>12. WaitingIsKept'
  <2>1. ASSUME NEW x \in Request, oneshot'[x] = "open"
        PROVE  \E i \in Id : QueryHolds(x, KindOf[x], i)' \/ downloads'[KindOf[x]][i] = x
    <3>1. CASE x = r
      BY <3>1, <1>1, <1>2, <1>4 DEF QueryHolds
    <3>2. CASE x # r
      <4>1. KindOf[x] \in Kind /\ oneshot[x] = "open"
        BY <2>1, <3>2, <1>5, ConstantsAssumption DEF IInv, TypeOK
      <4>2. PICK i \in Id : QueryHolds(x, KindOf[x], i) \/ downloads[KindOf[x]][i] = x
        BY <4>1 DEF IInv, WaitingIsKept
      <4>3. QueryHolds(x, KindOf[x], i) => QueryHolds(x, KindOf[x], i)'
        BY <4>1, <1>1, <1>4, <1>6, <3>2 DEF QueryHolds
      <4> QED  BY <4>2, <4>3, <1>5
    <3> QED  BY <3>1, <3>2
  <2> QED  BY <2>1 DEF WaitingIsKept
<1>13. NumbersSuffice'
  <2>1. Asked' = Asked \cup {r}
    BY <1>5 DEF Asked, IInv, TypeOK
  <2>2. Sent' = Sent
    <3>1. \A x \in Request, k \in Kind, i \in Id :
            x # r => (QueryHolds(x, k, i)' <=> QueryHolds(x, k, i))
      BY <1>1, <1>4, <1>6 DEF QueryHolds
    <3>2. \E i \in Id : QueryHolds(r, KindOf[r], i)'
      BY <1>1, <1>2, <1>4 DEF QueryHolds
    <3>3. r \notin Sent /\ r \notin Sent'
      BY <1>1, <1>2, <3>2 DEF Sent
    <3> QED  BY <2>1, <3>1, <3>3 DEF Sent, Asked
  <2>3. Cardinality(Asked') = Cardinality(Asked) + 1 /\ Cardinality(Asked) \in Nat
    BY <2>1, <1>1, OneMore DEF Asked
  <2> QED  BY <2>2, <2>3, <1>2, <1>5 DEF IInv, NumbersSuffice
<1>14. MessagesOwn' /\ AnswersOwnRequest'
  BY <1>5 DEF IInv, MessagesOwn, AnswersOwnRequest
<1> QED  BY <1>8, <1>9, <1>10, <1>11, <1>12, <1>13, <1>14 DEF IInv

LEMMA CallerGoneKeeps ==
  ASSUME IInv, NEW r \in Request, CallerGone(r)
  PROVE  IInv'
<1>1. /\ oneshot[r] = "open" /\ oneshot' = [oneshot EXCEPT ![r] = "gone"]
      /\ UNCHANGED <<about, providers, downloads, queries, nextQuery, outbound,
                     nextRequest, failures>>
  BY DEF CallerGone, tables, network
<1>2. TypeOK'
  BY <1>1 DEF IInv, TypeOK
<1>3. QueriesKept' /\ DownloadsKept' /\ KeptApart'
  BY <1>1 DEF IInv, TypeOK, QueriesKept, DownloadsKept, KeptApart, Waiting
<1>4. WaitingIsKept'
  BY <1>1 DEF IInv, TypeOK, WaitingIsKept, QueryHolds
<1>5. Asked' = Asked /\ Sent' = Sent
  BY <1>1 DEF IInv, TypeOK, Asked, Sent, QueryHolds
<1>6. NumbersSuffice'
  BY <1>1, <1>5, NumbersStay
<1>7. MessagesOwn' /\ AnswersOwnRequest'
  BY <1>1 DEF IInv, MessagesOwn, AnswersOwnRequest
<1> QED  BY <1>2, <1>3, <1>4, <1>6, <1>7 DEF IInv

LEMMA FoundProvidersKeeps ==
  ASSUME IInv, NEW q \in queries, NEW peers \in SUBSET Peer, FoundProviders(q, peers)
  PROVE  IInv'
<1> DEFINE k == TableOf(q)
<1>1. k \in Kind /\ q \in Id
  BY DEF TableOf, Kind, IInv, TypeOK
<1>2. UNCHANGED <<oneshot, about, downloads, queries, nextQuery, outbound, nextRequest,
                  failures>>
  BY DEF FoundProviders, network
<1>3. CASE providers[k][q] = None
  <2>1. providers' = providers
    BY <1>3 DEF FoundProviders
  <2>2. Asked' = Asked /\ Sent' = Sent
    BY <2>1, <1>2 DEF Asked, Sent, QueryHolds
  <2> QED
    BY <2>1, <2>2, <1>2, NumbersStay
       DEF IInv, TypeOK, QueriesKept, DownloadsKept, KeptApart, WaitingIsKept, QueryHolds,
           MessagesOwn, AnswersOwnRequest
<1>4. CASE providers[k][q] # None
  <2> DEFINE data == [providers[k][q] EXCEPT !.found = @ \cup peers]
  <2>1. providers[k][q] \in Data
    BY <1>1, <1>4 DEF IInv, TypeOK
  <2>2. data \in Data /\ data # None /\ data.request = providers[k][q].request
    BY <2>1, ConstantsAssumption DEF Data
  <2>3. providers' = [providers EXCEPT ![k][q] = data]
    BY <1>4 DEF FoundProviders
  <2> HIDE DEF data, k
  <2>4. \A l \in Kind, i \in Id :
          /\ providers'[l][i] # None <=> providers[l][i] # None
          /\ providers[l][i] # None => providers'[l][i].request = providers[l][i].request
    BY <2>2, <2>3, <1>1, <1>4 DEF IInv, TypeOK
  <2>5. TypeOK'
    BY <2>2, <2>3, <1>1, <1>2 DEF IInv, TypeOK
  <2>6. QueriesKept' /\ DownloadsKept'
    BY <2>4, <1>2 DEF IInv, QueriesKept, DownloadsKept
  <2>7. KeptApart'
    BY <2>4, <1>2 DEF IInv, KeptApart
  <2>8. \A r \in Request, l \in Kind, i \in Id :
          QueryHolds(r, l, i)' <=> QueryHolds(r, l, i)
    BY <2>4 DEF QueryHolds
  <2>9. WaitingIsKept'
    BY <2>8, <1>2, ConstantsAssumption DEF IInv, WaitingIsKept
  <2>10. Asked' = Asked /\ Sent' = Sent
    BY <2>8, <1>2 DEF Asked, Sent
  <2>11. NumbersSuffice'
    BY <2>10, <1>2, NumbersStay
  <2>12. MessagesOwn' /\ AnswersOwnRequest'
    BY <1>2 DEF IInv, MessagesOwn, AnswersOwnRequest
  <2> QED  BY <2>5, <2>6, <2>7, <2>9, <2>11, <2>12 DEF IInv
<1> QED  BY <1>3, <1>4

(* Sending an answer moves the channel that waits and nothing else. *)
LEMMA SendMoves ==
  ASSUME IInv, NEW r \in Request, NEW answer \in {"some", "none"},
         Send(r, answer, r), oneshot[r] \in Waiting
  PROVE  /\ oneshot' \in [Request -> {"idle", "open", "some", "none", "gone"}]
         /\ oneshot'[r] # "idle" /\ oneshot'[r] # "open"
         /\ \A x \in Request : x # r => oneshot'[x] = oneshot[x]
         /\ about' \in [Request -> Request \cup {None}]
         /\ \A x \in Request : about'[x] \in {about[x], x}
<1>1. /\ oneshot \in [Request -> {"idle", "open", "some", "none", "gone"}]
      /\ about \in [Request -> Request \cup {None}]
  BY DEF IInv, TypeOK
<1>2. CASE oneshot[r] = "open"
  <2>1. oneshot' = [oneshot EXCEPT ![r] = answer] /\ about' = [about EXCEPT ![r] = r]
    BY <1>2 DEF Send
  <2> QED  BY <1>1, <2>1
<1>3. CASE oneshot[r] = "gone"
  <2>1. oneshot' = oneshot /\ about' = about
    BY <1>3 DEF Send
  <2> QED  BY <1>1, <1>3, <2>1
<1> QED  BY <1>2, <1>3 DEF Waiting

(* What QueryEnds does to the tables of queries: the entry's request has left
   them, and was in no other entry. *)
LEMMA EntryRemoved ==
  ASSUME IInv, NEW k \in Kind, NEW q \in Id, NEW r \in Request,
         QueryHolds(r, k, q), RemoveData(k, q), oneshot'[r] # "idle",
         \A x \in Request : x # r => oneshot'[x] = oneshot[x]
  PROVE  /\ providers' \in [Kind -> [Id -> Data \cup {None}]]
         /\ \A l \in Kind, i \in Id :
              providers'[l][i] = IF l = k /\ i = q THEN None ELSE providers[l][i]
         /\ \A l \in Kind, i \in Id :
              /\ providers'[l][i] # None => providers'[l][i].request # r
              /\ downloads[l][i] # r
         /\ r \notin Sent
         /\ Asked' = Asked
         /\ Sent' = Sent \cup {r}
<1>1. KindOf[r] = k /\ oneshot[r] \in Waiting
  BY DEF IInv, QueriesKept, QueryHolds
<1>2. \A l \in Kind, i \in Id :
        providers'[l][i] = IF l = k /\ i = q THEN None ELSE providers[l][i]
  BY DEF IInv, TypeOK, RemoveData
<1>3. providers' \in [Kind -> [Id -> Data \cup {None}]]
  BY DEF IInv, TypeOK, RemoveData
<1>4. \A l \in Kind, i \in Id : QueryHolds(r, l, i) => l = k /\ i = q
  BY <1>1 DEF IInv, QueriesKept, KeptApart, QueryHolds
<1>5. \A l \in Kind, i \in Id : downloads[l][i] # r
  <2>1. \A l \in Kind, i \in Id : downloads[l][i] = r => l = k
    BY <1>1, ConstantsAssumption DEF IInv, DownloadsKept
  <2> QED  BY <2>1 DEF IInv, KeptApart, QueryHolds
<1>6. \A l \in Kind, i \in Id : providers'[l][i] # None => providers'[l][i].request # r
  BY <1>2, <1>4 DEF QueryHolds
<1>7. r \in Asked /\ r \notin Sent
  BY <1>1 DEF Asked, Sent, Waiting
<1>8. Asked' = Asked
  BY <1>1 DEF Asked, Waiting
<1>9. Sent' = Sent \cup {r}
  <2>1. \A x \in Request, l \in Kind, i \in Id :
          x # r => (QueryHolds(x, l, i)' <=> QueryHolds(x, l, i))
    BY <1>2 DEF QueryHolds
  <2>2. \A l \in Kind, i \in Id : ~ QueryHolds(r, l, i)'
    BY <1>6 DEF QueryHolds
  <2>3. \A x \in Asked : x \in Sent' <=> x \in Sent \cup {r}
    <3>1. ASSUME NEW x \in Asked, x = r  PROVE x \in Sent'
      BY <3>1, <2>2, <1>7, <1>8 DEF Sent
    <3>2. ASSUME NEW x \in Asked, x # r  PROVE x \in Sent' <=> x \in Sent
      BY <3>2, <2>1, <1>8 DEF Sent, Asked
    <3> QED  BY <3>1, <3>2
  <2> QED  BY <2>3, <1>7, <1>8 DEF Sent
<1> QED  BY <1>2, <1>3, <1>5, <1>6, <1>7, <1>8, <1>9

(* A query without a provider answers None. *)
LEMMA NoProviderKeeps ==
  ASSUME IInv, NEW k \in Kind, NEW q \in Id, NEW r \in Request,
         QueryHolds(r, k, q), RemoveData(k, q), Send(r, "none", r),
         queries' = queries \ {q},
         UNCHANGED <<downloads, nextQuery, outbound, nextRequest, failures>>
  PROVE  IInv'
<1>1. /\ oneshot' \in [Request -> {"idle", "open", "some", "none", "gone"}]
      /\ oneshot'[r] # "idle" /\ oneshot'[r] # "open"
      /\ \A x \in Request : x # r => oneshot'[x] = oneshot[x]
      /\ about' \in [Request -> Request \cup {None}]
      /\ \A x \in Request : about'[x] \in {about[x], x}
  <2>1. oneshot[r] \in Waiting
    BY DEF IInv, QueriesKept, QueryHolds
  <2> QED  BY <2>1, SendMoves
<1>2. /\ providers' \in [Kind -> [Id -> Data \cup {None}]]
      /\ \A l \in Kind, i \in Id :
           providers'[l][i] = IF l = k /\ i = q THEN None ELSE providers[l][i]
      /\ \A l \in Kind, i \in Id :
           /\ providers'[l][i] # None => providers'[l][i].request # r
           /\ downloads[l][i] # r
      /\ r \notin Sent /\ Asked' = Asked /\ Sent' = Sent \cup {r}
  BY <1>1, EntryRemoved
<1>3. TypeOK'
  BY <1>1, <1>2 DEF IInv, TypeOK
<1>4. QueriesKept'
  <2>1. ASSUME NEW l \in Kind, NEW i \in Id, providers'[l][i] # None
        PROVE  /\ providers[l][i] # None /\ providers'[l][i] = providers[l][i]
               /\ providers[l][i].request \in Request \ {r}
    BY <2>1, <1>2 DEF IInv, TypeOK, Data
  <2> QED  BY <2>1, <1>1 DEF IInv, QueriesKept
<1>5. DownloadsKept'
  <2>1. ASSUME NEW l \in Kind, NEW i \in Id, downloads[l][i] # None
        PROVE  downloads[l][i] \in Request \ {r}
    BY <2>1, <1>2 DEF IInv, TypeOK
  <2> QED  BY <2>1, <1>1 DEF IInv, DownloadsKept
<1>6. KeptApart'
  BY <1>2 DEF IInv, KeptApart
<1>7. WaitingIsKept'
  <2>1. ASSUME NEW x \in Request, oneshot'[x] = "open"
        PROVE  \E i \in Id : QueryHolds(x, KindOf[x], i)' \/ downloads'[KindOf[x]][i] = x
    <3>1. x # r /\ oneshot[x] = "open" /\ KindOf[x] \in Kind
      BY <2>1, <1>1, ConstantsAssumption
    <3>2. PICK i \in Id : QueryHolds(x, KindOf[x], i) \/ downloads[KindOf[x]][i] = x
      BY <3>1 DEF IInv, WaitingIsKept
    <3>3. QueryHolds(x, KindOf[x], i) => QueryHolds(x, KindOf[x], i)'
      BY <3>1, <1>2 DEF QueryHolds
    <3> QED  BY <3>2, <3>3
  <2> QED  BY <2>1 DEF WaitingIsKept
<1>8. NumbersSuffice'
  <2>1. Cardinality(Sent') = Cardinality(Sent) + 1 /\ Cardinality(Sent) \in Nat
    BY <1>2, OneMore DEF Sent, Asked
  <2> QED  BY <2>1, <1>2 DEF IInv, TypeOK, NumbersSuffice
<1>9. MessagesOwn' /\ AnswersOwnRequest'
  BY <1>1 DEF IInv, MessagesOwn, AnswersOwnRequest
<1> QED  BY <1>3, <1>4, <1>5, <1>6, <1>7, <1>8, <1>9 DEF IInv

(* A query with providers sends the request to one of them, under a new number. *)
LEMMA ProviderAskedKeeps ==
  ASSUME IInv, NEW k \in Kind, NEW q \in Id, NEW r \in Request, NEW p \in Peer,
         QueryHolds(r, k, q), RemoveData(k, q),
         outbound' = outbound \cup
           {[kind |-> k, id |-> nextRequest[k], to |-> p, request |-> r]},
         downloads' = [downloads EXCEPT ![k][nextRequest[k]] = r],
         nextRequest' = [nextRequest EXCEPT ![k] = @ + 1],
         queries' = queries \ {q},
         UNCHANGED <<oneshot, about, nextQuery, failures>>
  PROVE  IInv'
<1>1. oneshot[r] \in Waiting /\ KindOf[r] = k /\ r # None
  BY ConstantsAssumption DEF IInv, QueriesKept, QueryHolds
<1>2. /\ providers' \in [Kind -> [Id -> Data \cup {None}]]
      /\ \A l \in Kind, i \in Id :
           providers'[l][i] = IF l = k /\ i = q THEN None ELSE providers[l][i]
      /\ \A l \in Kind, i \in Id :
           /\ providers'[l][i] # None => providers'[l][i].request # r
           /\ downloads[l][i] # r
      /\ r \notin Sent /\ Asked' = Asked /\ Sent' = Sent \cup {r}
  BY <1>1, EntryRemoved DEF Waiting
<1>3. PICK id \in Id : id = nextRequest[k]
  BY <1>2, MessageNumber
<1> DEFINE new == [kind |-> k, id |-> id, to |-> p, request |-> r]
<1>4. new \in Message /\ outbound' = outbound \cup {new}
  BY <1>3 DEF Message
<1>5. /\ downloads' \in [Kind -> [Id -> Request \cup {None}]]
      /\ \A l \in Kind, i \in Id :
           downloads'[l][i] = IF l = k /\ i = id THEN r ELSE downloads[l][i]
  BY <1>3 DEF IInv, TypeOK
<1>6. /\ nextRequest' \in [Kind -> Nat \ {0}]
      /\ \A l \in Kind : nextRequest'[l] = IF l = k THEN id + 1 ELSE nextRequest[l]
  BY <1>3 DEF IInv, TypeOK
<1>7. TypeOK'
  BY <1>2, <1>4, <1>5, <1>6 DEF IInv, TypeOK
<1>8. QueriesKept'
  BY <1>2 DEF IInv, QueriesKept
<1>9. DownloadsKept'
  <2>1. ASSUME NEW l \in Kind, NEW i \in Id, downloads'[l][i] # None
        PROVE  /\ i < nextRequest'[l] /\ KindOf[downloads'[l][i]] = l
               /\ oneshot[downloads'[l][i]] \in Waiting
    <3>1. CASE l = k /\ i = id
      BY <3>1, <1>1, <1>5, <1>6 DEF Id
    <3>2. CASE ~(l = k /\ i = id)
      <4>1. downloads'[l][i] = downloads[l][i] /\ i \in Nat /\ id \in Nat
        BY <3>2, <1>5 DEF Id
      <4>2. i < nextRequest[l]
        BY <2>1, <4>1 DEF IInv, DownloadsKept
      <4>3. i < nextRequest'[l]
        BY <4>1, <4>2, <1>3, <1>6
      <4> QED  BY <2>1, <4>1, <4>3 DEF IInv, DownloadsKept
    <3> QED  BY <3>1, <3>2
  <2> QED  BY <2>1 DEF DownloadsKept
<1>10. KeptApart'
  <2> SUFFICES ASSUME NEW l \in Kind, NEW i \in Id, NEW j \in Id
               PROVE  /\ providers'[l][i] # None /\ providers'[l][j] # None /\ i # j =>
                           providers'[l][i].request # providers'[l][j].request
                      /\ downloads'[l][i] # None /\ i # j =>
                           downloads'[l][i] # downloads'[l][j]
                      /\ providers'[l][i] # None =>
                           downloads'[l][j] # providers'[l][i].request
    BY DEF KeptApart
  <2>1. /\ providers'[l][i] # None => providers'[l][i] = providers[l][i]
        /\ providers'[l][j] # None => providers'[l][j] = providers[l][j]
    BY <1>2
  <2>2. downloads'[l][i] # downloads[l][i] => downloads'[l][i] = r /\ i = id
    BY <1>5
  <2>3. downloads'[l][j] # downloads[l][j] => downloads'[l][j] = r /\ j = id
    BY <1>5
  <2> QED  BY <2>1, <2>2, <2>3, <1>2 DEF IInv, KeptApart
<1>11. WaitingIsKept'
  <2>1. ASSUME NEW x \in Request, oneshot[x] = "open"
        PROVE  \E i \in Id : QueryHolds(x, KindOf[x], i)' \/ downloads'[KindOf[x]][i] = x
    <3>1. CASE x = r
      BY <3>1, <1>1, <1>5
    <3>2. CASE x # r
      <4>1. KindOf[x] \in Kind /\ x # None
        BY ConstantsAssumption
      <4>2. PICK i \in Id : QueryHolds(x, KindOf[x], i) \/ downloads[KindOf[x]][i] = x
        BY <2>1 DEF IInv, WaitingIsKept
      <4>3. QueryHolds(x, KindOf[x], i) => QueryHolds(x, KindOf[x], i)'
        BY <3>2, <4>1, <1>2 DEF QueryHolds
      <4>4. downloads[KindOf[x]][i] = x => downloads'[KindOf[x]][i] = x
        <5>1. downloads[k][id] = None
          BY <1>3 DEF IInv, DownloadsKept, Id
        <5> QED  BY <4>1, <5>1, <1>5
      <4> QED  BY <4>2, <4>3, <4>4
    <3> QED  BY <3>1, <3>2
  <2> QED  BY <2>1 DEF WaitingIsKept
<1>12. NumbersSuffice'
  <2>1. Cardinality(Sent') = Cardinality(Sent) + 1 /\ Cardinality(Sent) \in Nat
    BY <1>2, OneMore DEF Sent, Asked
  <2>2. \A l \in Kind : nextRequest[l] \in Nat /\ nextRequest[l] <= Cardinality(Sent) + 1
    BY DEF IInv, TypeOK, NumbersSuffice
  <2>3. \A l \in Kind : nextRequest'[l] <= Cardinality(Sent') + 1
    BY <2>1, <2>2, <1>3, <1>6
  <2> QED  BY <2>3, <1>2 DEF IInv, NumbersSuffice
<1>13. MessagesOwn'
  <2>1. \A m \in outbound : m.kind \in Kind /\ m.id \in Id /\ m.request \in Request
    BY DEF IInv, TypeOK, Message
  <2>2. \A m \in outbound : ~(m.kind = k /\ m.id = id)
    <3>1. \A m \in outbound : downloads[m.kind][m.id] # None
      BY <2>1, ConstantsAssumption DEF IInv, MessagesOwn
    <3>2. downloads[k][id] = None
      BY <1>3 DEF IInv, DownloadsKept, Id
    <3> QED  BY <3>1, <3>2
  <2>3. \A m \in outbound' : downloads'[m.kind][m.id] = m.request
    BY <2>1, <2>2, <1>4, <1>5 DEF IInv, MessagesOwn
  <2>4. \A m \in outbound', n \in outbound' : m.kind = n.kind /\ m.id = n.id => m = n
    BY <2>1, <2>2, <1>4 DEF IInv, MessagesOwn
  <2> QED  BY <2>3, <2>4 DEF MessagesOwn
<1>14. AnswersOwnRequest'
  BY DEF IInv, AnswersOwnRequest
<1> QED  BY <1>7, <1>8, <1>9, <1>10, <1>11, <1>12, <1>13, <1>14 DEF IInv

LEMMA QueryEndsKeeps ==
  ASSUME IInv, NEW q \in queries, QueryEnds(q)
  PROVE  IInv'
<1>1. TableOf(q) \in Kind /\ q \in Id
  BY DEF TableOf, Kind, IInv, TypeOK
<1>2. PICK k \in Kind : k = TableOf(q)
  BY <1>1
<1>3. providers[k][q] \in Data
  BY <1>1, <1>2 DEF QueryEnds, IInv, TypeOK
<1>4. PICK r \in Request : r = providers[k][q].request
  BY <1>3 DEF Data
<1>5. QueryHolds(r, k, q) /\ RemoveData(k, q)
  BY <1>2, <1>4 DEF QueryEnds, AllProvidersFound, QueryHolds
<1>6. queries' = queries \ {q} /\ UNCHANGED <<nextQuery, failures>>
  BY DEF QueryEnds
<1>7. CASE Send(r, "none", r) /\ UNCHANGED <<downloads, outbound, nextRequest>>
  BY <1>1, <1>5, <1>6, <1>7, NoProviderKeeps
<1>8. CASE /\ \E p \in Peer : outbound' = outbound \cup
                 {[kind |-> k, id |-> nextRequest[k], to |-> p, request |-> r]}
           /\ downloads' = [downloads EXCEPT ![k][nextRequest[k]] = r]
           /\ nextRequest' = [nextRequest EXCEPT ![k] = @ + 1]
           /\ UNCHANGED <<oneshot, about>>
  BY <1>1, <1>5, <1>6, <1>8, ProviderAskedKeeps
<1> QED
  BY <1>2, <1>3, <1>4, <1>7, <1>8 DEF QueryEnds, AllProvidersFound, Data

LEMMA HandleResponseKeeps ==
  ASSUME IInv, NEW m \in outbound, NEW answer \in {"some", "none"},
         HandleResponse(m, answer)
  PROVE  IInv'
<1>1. m \in Message
  BY DEF IInv, TypeOK
<1>2. PICK k \in Kind, id \in Id, r \in Request : k = m.kind /\ id = m.id /\ r = m.request
  BY <1>1 DEF Message
<1>3. downloads[k][id] = r /\ r # None
  BY <1>2, ConstantsAssumption DEF IInv, MessagesOwn
<1>4. KindOf[r] = k /\ oneshot[r] \in Waiting
  BY <1>3 DEF IInv, DownloadsKept
<1>5. /\ Send(r, answer, r)
      /\ downloads' = [downloads EXCEPT ![k][id] = None]
      /\ outbound' = outbound \ {m}
      /\ UNCHANGED <<providers, queries, nextQuery, nextRequest, failures>>
  BY <1>2, <1>3 DEF HandleResponse
<1>6. /\ oneshot' \in [Request -> {"idle", "open", "some", "none", "gone"}]
      /\ oneshot'[r] # "idle" /\ oneshot'[r] # "open"
      /\ \A x \in Request : x # r => oneshot'[x] = oneshot[x]
      /\ about' \in [Request -> Request \cup {None}]
      /\ \A x \in Request : about'[x] \in {about[x], x}
  BY <1>4, <1>5, SendMoves
<1>7. /\ downloads' \in [Kind -> [Id -> Request \cup {None}]]
      /\ \A l \in Kind, i \in Id :
           downloads'[l][i] = IF l = k /\ i = id THEN None ELSE downloads[l][i]
  BY <1>5 DEF IInv, TypeOK
<1>8. \A l \in Kind, i \in Id : downloads'[l][i] # r
  <2>1. \A l \in Kind, i \in Id : downloads[l][i] = r => l = k /\ i = id
    BY <1>3, <1>4 DEF IInv, DownloadsKept, KeptApart
  <2> QED  BY <2>1, <1>3, <1>7
<1>9. \A l \in Kind, i \in Id : providers[l][i] # None => providers[l][i].request # r
  <2>1. \A l \in Kind, i \in Id : providers[l][i] # None /\ providers[l][i].request = r => l = k
    BY <1>4 DEF IInv, QueriesKept
  <2> QED  BY <2>1, <1>3 DEF IInv, KeptApart
<1>10. TypeOK'
  BY <1>5, <1>6, <1>7 DEF IInv, TypeOK
<1>11. QueriesKept'
  <2>1. ASSUME NEW l \in Kind, NEW i \in Id, providers[l][i] # None
        PROVE  providers[l][i].request \in Request \ {r}
    BY <2>1, <1>9 DEF IInv, TypeOK, Data
  <2> QED  BY <2>1, <1>5, <1>6 DEF IInv, QueriesKept
<1>12. DownloadsKept'
  <2>1. ASSUME NEW l \in Kind, NEW i \in Id, downloads'[l][i] # None
        PROVE  downloads'[l][i] = downloads[l][i] /\ downloads[l][i] \in Request \ {r}
    BY <2>1, <1>7, <1>8 DEF IInv, TypeOK
  <2> QED  BY <2>1, <1>5, <1>6 DEF IInv, DownloadsKept
<1>13. KeptApart'
  <2> SUFFICES ASSUME NEW l \in Kind, NEW i \in Id, NEW j \in Id
               PROVE  /\ providers[l][i] # None /\ providers[l][j] # None /\ i # j =>
                           providers[l][i].request # providers[l][j].request
                      /\ downloads'[l][i] # None /\ i # j =>
                           downloads'[l][i] # downloads'[l][j]
                      /\ providers[l][i] # None =>
                           downloads'[l][j] # providers[l][i].request
    BY <1>5 DEF KeptApart
  <2>1. downloads'[l][i] \in {downloads[l][i], None} /\ downloads'[l][j] \in {downloads[l][j], None}
    BY <1>7
  <2>2. providers[l][i] # None => providers[l][i].request # None
    BY ConstantsAssumption DEF IInv, TypeOK, Data
  <2> QED  BY <2>1, <2>2 DEF IInv, KeptApart
<1>14. WaitingIsKept'
  <2>1. ASSUME NEW x \in Request, oneshot'[x] = "open"
        PROVE  \E i \in Id : QueryHolds(x, KindOf[x], i)' \/ downloads'[KindOf[x]][i] = x
    <3>1. x # r /\ oneshot[x] = "open" /\ KindOf[x] \in Kind
      BY <2>1, <1>6, ConstantsAssumption
    <3>2. PICK i \in Id : QueryHolds(x, KindOf[x], i) \/ downloads[KindOf[x]][i] = x
      BY <3>1 DEF IInv, WaitingIsKept
    <3>3. downloads[KindOf[x]][i] = x => downloads'[KindOf[x]][i] = x
      BY <3>1, <1>3, <1>7
    <3> QED  BY <3>2, <3>3, <1>5 DEF QueryHolds
  <2> QED  BY <2>1 DEF WaitingIsKept
<1>15. NumbersSuffice'
  <2>1. Asked' = Asked
    BY <1>4, <1>6 DEF Asked, Waiting
  <2>2. Sent' = Sent
    BY <2>1, <1>5 DEF Sent, QueryHolds
  <2> QED  BY <2>1, <2>2, <1>5, NumbersStay
<1>16. MessagesOwn'
  <2>1. ASSUME NEW n \in outbound, n # m
        PROVE  downloads'[n.kind][n.id] = n.request
    <3>1. n.kind \in Kind /\ n.id \in Id /\ ~(n.kind = k /\ n.id = id)
      BY <2>1, <1>2 DEF IInv, TypeOK, Message, MessagesOwn
    <3> QED  BY <3>1, <1>7 DEF IInv, MessagesOwn
  <2> QED  BY <2>1, <1>5 DEF IInv, MessagesOwn
<1>17. AnswersOwnRequest'
  BY <1>6 DEF IInv, AnswersOwnRequest
<1> QED
  BY <1>10, <1>11, <1>12, <1>13, <1>14, <1>15, <1>16, <1>17 DEF IInv

(* The channel of a request that failed stays where it is. *)
LEMMA OutboundFailureKeeps ==
  ASSUME IInv, NEW m \in outbound, OutboundFailure(m)
  PROVE  IInv'
<1>1. /\ outbound' = outbound \ {m} /\ failures' = failures + 1
      /\ UNCHANGED <<oneshot, about, providers, downloads, queries, nextQuery, nextRequest>>
  BY DEF OutboundFailure, tables
<1>2. TypeOK' /\ MessagesOwn'
  <2>1. TypeOK'
    BY <1>1 DEF IInv, TypeOK
  <2>2. MessagesOwn'
    BY <1>1 DEF IInv, MessagesOwn
  <2> QED  BY <2>1, <2>2
<1>3. Asked' = Asked /\ Sent' = Sent
  BY <1>1 DEF Asked, Sent, QueryHolds
<1>4. NumbersSuffice'
  BY <1>1, <1>3, NumbersStay
<1>5. QueriesKept' /\ DownloadsKept' /\ KeptApart'
  BY <1>1 DEF IInv, QueriesKept, DownloadsKept, KeptApart
<1>6. WaitingIsKept' /\ AnswersOwnRequest'
  BY <1>1 DEF IInv, WaitingIsKept, QueryHolds, AnswersOwnRequest
<1> QED  BY <1>2, <1>4, <1>5, <1>6 DEF IInv

LEMMA StutterKeeps == IInv /\ UNCHANGED vars => IInv'
<1> SUFFICES ASSUME IInv, UNCHANGED vars PROVE IInv'
  OBVIOUS
<1>1. Asked' = Asked /\ Sent' = Sent
  BY DEF Asked, Sent, QueryHolds, vars, tables
<1>2. NumbersSuffice'
  BY <1>1, NumbersStay DEF vars, network
<1>3. TypeOK' /\ QueriesKept' /\ DownloadsKept' /\ KeptApart'
  BY DEF IInv, TypeOK, QueriesKept, DownloadsKept, KeptApart, vars, tables, network
<1>4. WaitingIsKept' /\ MessagesOwn' /\ AnswersOwnRequest'
  BY DEF IInv, WaitingIsKept, QueryHolds, MessagesOwn, AnswersOwnRequest, vars, tables, network
<1> QED  BY <1>2, <1>3, <1>4 DEF IInv

LEMMA IInvHolds == Spec => []IInv
<1>1. IInv /\ [Next]_vars => IInv'
  BY HandleRequestKeeps, CallerGoneKeeps, FoundProvidersKeeps, QueryEndsKeeps,
     HandleResponseKeeps, OutboundFailureKeeps, StutterKeeps DEF Next
<1> QED  BY InitIInv, <1>1, PTL DEF Spec

-----------------------------------------------------------------------------
(* Theorems.                                                               *)

(* The tables and the network keep their types, whatever is lost. *)
THEOREM TypeCorrect == Spec => []TypeOK
  BY IInvHolds, PTL DEF IInv

(* For every set of requests and whatever the network loses, the sending half of a
   channel that waits is in exactly one table, of its own kind, and that of an
   answered one in none (events.rs:72-105, 407-436, 483-485, 600-602). *)
THEOREM ChannelsKeptOnce == Spec => []KeptOnce
<1>1. ASSUME IInv, NEW r \in Request
      PROVE  /\ oneshot[r] = "open" => Cardinality(Kept(r)) = 1
             /\ oneshot[r] \in {"idle", "some", "none"} => Kept(r) = {}
             /\ \A x \in Kept(r) : x[2] = KindOf[r]
  <2>1. \A x \in Kept(r) : \E i \in Id :
          \/ x = <<"query", KindOf[r], i>> /\ QueryHolds(r, KindOf[r], i)
          \/ x = <<"download", KindOf[r], i>> /\ downloads[KindOf[r]][i] = r
    <3>1. \A k \in Kind, i \in Id : QueryHolds(r, k, i) => k = KindOf[r]
      BY <1>1 DEF IInv, QueriesKept, QueryHolds
    <3>2. \A k \in Kind, i \in Id : downloads[k][i] = r => k = KindOf[r]
      BY <1>1, ConstantsAssumption DEF IInv, DownloadsKept
    <3> QED  BY <3>1, <3>2 DEF Kept, QueryHolds
  <2>2. oneshot[r] \in {"idle", "some", "none"} => Kept(r) = {}
    <3>1. \A i \in Id : QueryHolds(r, KindOf[r], i) => oneshot[r] \in Waiting
      BY <1>1, ConstantsAssumption DEF IInv, QueriesKept, QueryHolds
    <3>2. \A i \in Id : downloads[KindOf[r]][i] = r => oneshot[r] \in Waiting
      BY <1>1, ConstantsAssumption DEF IInv, DownloadsKept
    <3> QED  BY <2>1, <3>1, <3>2 DEF Waiting
  <2>3. ASSUME oneshot[r] = "open"
        PROVE  Cardinality(Kept(r)) = 1
    <3>1. PICK i \in Id : QueryHolds(r, KindOf[r], i) \/ downloads[KindOf[r]][i] = r
      BY <1>1, <2>3 DEF IInv, WaitingIsKept
    <3>2. KindOf[r] \in Kind /\ r # None
      BY ConstantsAssumption
    <3>3. CASE QueryHolds(r, KindOf[r], i)
      <4>1. <<"query", KindOf[r], i>> \in Kept(r)
        <5> DEFINE place == <<KindOf[r], i>>
        <5>1. place \in Kind \X Id /\ place[1] = KindOf[r] /\ place[2] = i
          BY <3>2
        <5> QED  BY <5>1, <3>3 DEF Kept, QueryHolds
      <4>2. \A j \in Id : QueryHolds(r, KindOf[r], j) => j = i
        BY <1>1, <3>2, <3>3 DEF IInv, KeptApart, QueryHolds
      <4>3. \A j \in Id : downloads[KindOf[r]][j] # r
        BY <1>1, <3>2, <3>3 DEF IInv, KeptApart, QueryHolds
      <4>4. Kept(r) = {<<"query", KindOf[r], i>>}
        BY <2>1, <4>1, <4>2, <4>3
      <4> QED  BY <4>4, FS_Singleton
    <3>4. CASE downloads[KindOf[r]][i] = r
      <4>1. <<"download", KindOf[r], i>> \in Kept(r)
        <5> DEFINE place == <<KindOf[r], i>>
        <5>1. place \in Kind \X Id /\ place[1] = KindOf[r] /\ place[2] = i
          BY <3>2
        <5> QED  BY <5>1, <3>4 DEF Kept
      <4>2. \A j \in Id : downloads[KindOf[r]][j] = r => j = i
        BY <1>1, <3>2, <3>4 DEF IInv, KeptApart
      <4>3. \A j \in Id : ~ QueryHolds(r, KindOf[r], j)
        BY <1>1, <3>2, <3>4 DEF IInv, KeptApart, QueryHolds
      <4>4. Kept(r) = {<<"download", KindOf[r], i>>}
        BY <2>1, <4>1, <4>2, <4>3
      <4> QED  BY <4>4, FS_Singleton
    <3> QED  BY <3>1, <3>3, <3>4
  <2>4. \A x \in Kept(r) : x[2] = KindOf[r]
    BY <2>1
  <2> QED  BY <2>2, <2>3, <2>4
<1>2. IInv => KeptOnce
  BY <1>1 DEF KeptOnce
<1> QED  BY <1>2, IInvHolds, PTL

(* A response goes to the request it answers, although both behaviours number
   their requests from one (events.rs:483, 600). *)
THEOREM AnswersOwn == Spec => []AnswersOwnRequest
  BY IInvHolds, PTL DEF IInv

-----------------------------------------------------------------------------
(* The refinement of Oneshot.                                              *)

(* The query of an entry is under way, and no other table has one under its number. *)
QueriesRun ==
  \A k \in Kind, i \in Id : providers[k][i] # None =>
    /\ i \in queries
    /\ \A l \in Kind : providers[l][i] # None => l = k

LEMMA QueriesRunKept == IInv /\ QueriesRun /\ [Next]_vars => QueriesRun'
<1> SUFFICES ASSUME IInv, QueriesRun, [Next]_vars PROVE QueriesRun'
  OBVIOUS
<1>1. ASSUME NEW r \in Request, HandleRequest(r)
      PROVE  QueriesRun'
  <2>1. KindOf[r] \in Kind /\ nextQuery \in Id /\ nextQuery \in Nat
    <3>1. r \notin Asked
      BY <1>1 DEF HandleRequest, Asked
    <3> QED  BY <3>1, QueryNumber, ConstantsAssumption DEF IInv, TypeOK
  <2>2. \A k \in Kind : providers[k][nextQuery] = None
    BY <2>1 DEF IInv, QueriesKept
  <2>3. \A k \in Kind, i \in Id :
          ~(k = KindOf[r] /\ i = nextQuery) => providers'[k][i] = providers[k][i]
    BY <1>1, <2>1 DEF HandleRequest, IInv, TypeOK
  <2>4. queries' = queries \cup {nextQuery}
    BY <1>1 DEF HandleRequest
  <2> QED  BY <2>1, <2>2, <2>3, <2>4 DEF QueriesRun
<1>2. ASSUME NEW q \in queries, NEW peers \in SUBSET Peer, FoundProviders(q, peers)
      PROVE  QueriesRun'
  <2>1. TableOf(q) \in Kind /\ q \in Id
    BY DEF TableOf, Kind, IInv, TypeOK
  <2>2. \A k \in Kind, i \in Id : providers'[k][i] # None => providers[k][i] # None
    <3>1. CASE providers[TableOf(q)][q] = None
      BY <3>1, <1>2 DEF FoundProviders
    <3>2. CASE providers[TableOf(q)][q] # None
      <4> DEFINE data == [providers[TableOf(q)][q] EXCEPT !.found = @ \cup peers]
      <4>1. providers' = [providers EXCEPT ![TableOf(q)][q] = data]
        BY <3>2, <1>2 DEF FoundProviders
      <4> HIDE DEF data
      <4> QED  BY <2>1, <3>2, <4>1 DEF IInv, TypeOK
    <3> QED  BY <3>1, <3>2
  <2> QED  BY <1>2, <2>2 DEF FoundProviders, QueriesRun, network
<1>3. ASSUME NEW q \in queries, QueryEnds(q)
      PROVE  QueriesRun'
  <2>1. TableOf(q) \in Kind /\ q \in Id
    BY DEF TableOf, Kind, IInv, TypeOK
  <2>2. providers' = [providers EXCEPT ![TableOf(q)][q] = None] /\ queries' = queries \ {q}
    BY <1>3 DEF QueryEnds, AllProvidersFound, RemoveData
  <2>3. \A k \in Kind, i \in Id :
          providers'[k][i] = IF k = TableOf(q) /\ i = q THEN None ELSE providers[k][i]
    BY <2>1, <2>2 DEF IInv, TypeOK
  <2>4. providers[TableOf(q)][q] # None
    BY <1>3 DEF QueryEnds
  <2> HIDE DEF TableOf
  <2> QED  BY <2>1, <2>2, <2>3, <2>4 DEF QueriesRun
<1>4. CASE UNCHANGED <<providers, queries>>
  BY <1>4 DEF QueriesRun
<1> QED
  BY <1>1, <1>2, <1>3, <1>4
     DEF Next, CallerGone, HandleResponse, OutboundFailure, vars, tables, network

(* A request is under way in an entry of a query or in a message. *)
Carried(r) ==
  \/ \E k \in Kind, i \in Id : QueryHolds(r, k, i)
  \/ \E m \in outbound : m.request = r

UnderWayCarried == \A r \in Request : UnderWay(r) <=> Carried(r)

LEMMA UnderWayIs == IInv /\ QueriesRun => UnderWayCarried
<1> SUFFICES ASSUME IInv, QueriesRun, NEW r \in Request
             PROVE  UnderWay(r) <=> Carried(r)
  BY DEF UnderWayCarried
<1>1. \A m \in outbound : downloads[m.kind][m.id] = m.request
  BY DEF IInv, MessagesOwn
<1>2. queries \subseteq Id
  BY DEF IInv, TypeOK
<1>3. \A k \in Kind, i \in Id : QueryHolds(r, k, i) => i \in queries
  BY DEF QueriesRun, QueryHolds
<1> QED  BY <1>1, <1>2, <1>3 DEF UnderWay, Carried

LEMMA RefinementInv == Spec => [](IInv /\ QueriesRun /\ UnderWayCarried)
<1>1. Init => QueriesRun
  BY DEF Init, QueriesRun
<1> QED  BY <1>1, QueriesRunKept, UnderWayIs, IInvHolds, PTL DEF Spec

(* A caller is asked for one thing at a time: a request that has its message under
   way, or has been lost, is in no query and in no other message. *)
LEMMA OnePlace ==
  ASSUME IInv, NEW m \in outbound
  PROVE  /\ m.request \in Request /\ oneshot[m.request] \in Waiting
         /\ \A k \in Kind, i \in Id : ~QueryHolds(m.request, k, i)
         /\ \A n \in outbound : n.request = m.request => n = m
<1>1. /\ m.kind \in Kind /\ m.id \in Id /\ m.request \in Request /\ m.request # None
      /\ downloads[m.kind][m.id] = m.request
  BY ConstantsAssumption DEF IInv, TypeOK, Message, MessagesOwn
<1>2. KindOf[m.request] = m.kind /\ oneshot[m.request] \in Waiting
  BY <1>1 DEF IInv, DownloadsKept
<1>3. ASSUME NEW k \in Kind, NEW i \in Id
      PROVE  ~QueryHolds(m.request, k, i)
  BY <1>1, <1>2, <1>3 DEF IInv, QueriesKept, KeptApart, QueryHolds
<1>4. ASSUME NEW n \in outbound, n.request = m.request
      PROVE  n = m
  <2>1. n.kind \in Kind /\ n.id \in Id /\ downloads[n.kind][n.id] = m.request
    BY <1>4 DEF IInv, TypeOK, Message, MessagesOwn
  <2>2. n.kind = m.kind
    BY <1>1, <1>2, <2>1 DEF IInv, DownloadsKept
  <2>3. n.id = m.id
    BY <1>1, <2>1, <2>2 DEF IInv, KeptApart
  <2> QED  BY <2>2, <2>3 DEF IInv, MessagesOwn
<1> QED  BY <1>1, <1>2, <1>3, <1>4

(* A step that concerns one request moves its channel alone. *)
LEMMA ChannelMoves ==
  ASSUME NEW r \in Request,
         \A x \in Request : UnderWay(x) <=> Carried(x),
         \A x \in Request : UnderWay(x)' <=> Carried(x)',
         \A x \in Request : x # r =>
           oneshot'[x] = oneshot[x] /\ about'[x] = about[x] /\ (Carried(x)' <=> Carried(x))
  PROVE  [x \in Request |-> Standing(x)]'
           = [[x \in Request |-> Standing(x)] EXCEPT ![r] = Standing(r)']
<1>1. ASSUME NEW x \in Request, x # r
      PROVE  Standing(x)' = Standing(x)
  <2>1. /\ oneshot'[x] = oneshot[x] /\ about'[x] = about[x]
        /\ UnderWay(x)' <=> UnderWay(x)
    BY <1>1
  <2> QED  BY <2>1 DEF Standing
<1> QED  BY <1>1

(* Nobody's standing changes when no channel and no place does. *)
LEMMA ChannelStays ==
  ASSUME \A x \in Request : UnderWay(x) <=> Carried(x),
         \A x \in Request : UnderWay(x)' <=> Carried(x)',
         UNCHANGED <<oneshot, about>>,
         \A x \in Request : Carried(x)' <=> Carried(x)
  PROVE  [x \in Request |-> Standing(x)]' = [x \in Request |-> Standing(x)]
<1>1. ASSUME NEW x \in Request
      PROVE  Standing(x)' = Standing(x)
  <2>1. UnderWay(x)' <=> UnderWay(x)
    OBVIOUS
  <2> QED  BY <2>1 DEF Standing
<1> QED  BY <1>1

(* Sending an answer to a request that was under way answers its channel, unless
   the caller has gone. *)
LEMMA SendAnswers ==
  ASSUME IInv, IInv', NEW r \in Request, NEW answer \in {"some", "none"},
         Send(r, answer, r), oneshot[r] \in Waiting, UnderWay(r),
         UNCHANGED failures,
         \A x \in Request : UnderWay(x) <=> Carried(x),
         \A x \in Request : UnderWay(x)' <=> Carried(x)',
         \A x \in Request : x # r => (Carried(x)' <=> Carried(x))
  PROVE  [Promise!Next]_<<[x \in Request |-> Standing(x)], failures>>
<1> DEFINE Channel == [x \in Request |-> Standing(x)]
<1>1. /\ oneshot \in [Request -> {"idle", "open", "some", "none", "gone"}]
      /\ about \in [Request -> Request \cup {None}]
  BY DEF IInv, TypeOK
<1>2. \A x \in Request : x # r => oneshot'[x] = oneshot[x] /\ about'[x] = about[x]
  BY <1>1 DEF Send
<1>3. Channel' = [Channel EXCEPT ![r] = Standing(r)']
  BY <1>2, ChannelMoves
<1>4. CASE oneshot[r] = "open"
  <2>1. oneshot'[r] = answer /\ about'[r] = r
    BY <1>1, <1>4 DEF Send
  <2>2. Standing(r) = "waiting" /\ Standing(r)' = answer
    BY <1>4, <2>1 DEF Standing
  <2>3. Promise!Answer(r)
    BY <1>3, <2>2 DEF Promise!Answer, Promise!Moves
  <2> QED  BY <2>3 DEF Promise!Next
<1>5. CASE oneshot[r] = "gone"
  <2>1. UNCHANGED <<oneshot, about>>
    BY <1>5 DEF Send
  <2>2. Standing(r) = "gone" /\ Standing(r)' = "gone"
    BY <1>5, <2>1 DEF Standing
  <2>3. Channel' = Channel
    BY <1>3, <2>2
  <2> QED  BY <2>3
<1> QED  BY <1>4, <1>5 DEF Waiting

(* Each step of the tables and the network is one of Oneshot. *)
LEMMA StepPromise ==
  ASSUME IInv, UnderWayCarried, UnderWayCarried', IInv', [Next]_vars
  PROVE  [Promise!Next]_<<[x \in Request |-> Standing(x)], failures>>
<1> DEFINE Channel == [x \in Request |-> Standing(x)]
<1>1. \A x \in Request : UnderWay(x) <=> Carried(x)
  BY DEF UnderWayCarried
<1>2. \A x \in Request : UnderWay(x)' <=> Carried(x)'
  BY DEF UnderWayCarried
<1>3. /\ oneshot \in [Request -> {"idle", "open", "some", "none", "gone"}]
      /\ outbound \subseteq Message /\ failures \in Nat
  BY DEF IInv, TypeOK
<1>4. ASSUME NEW r \in Request, HandleRequest(r)
      PROVE  Promise!Next
  <2>1. KindOf[r] \in Kind /\ nextQuery \in Id /\ oneshot[r] = "idle"
    <3>1. r \notin Asked
      BY <1>4 DEF HandleRequest, Asked
    <3> QED  BY <1>4, <3>1, QueryNumber, ConstantsAssumption DEF HandleRequest
  <2>2. /\ oneshot' = [oneshot EXCEPT ![r] = "open"]
        /\ UNCHANGED <<about, downloads, outbound, failures>>
    BY <1>4 DEF HandleRequest
  <2>3. \A k \in Kind : providers[k][nextQuery] = None
    BY <2>1 DEF IInv, TypeOK, QueriesKept, Id
  <2> DEFINE data == [request |-> r, found |-> {}]
  <2>4. data # None /\ data.request = r
    BY ConstantsAssumption DEF Data
  <2>5. \A k \in Kind, i \in Id :
          providers'[k][i] = IF k = KindOf[r] /\ i = nextQuery THEN data ELSE providers[k][i]
    BY <1>4, <2>1 DEF HandleRequest, IInv, TypeOK
  <2> HIDE DEF data
  <2>6. \A x \in Request : x # r => (Carried(x)' <=> Carried(x))
    <3>1. \A x \in Request, k \in Kind, i \in Id :
            x # r => (QueryHolds(x, k, i)' <=> QueryHolds(x, k, i))
      BY <2>3, <2>4, <2>5 DEF QueryHolds
    <3> QED  BY <2>2, <3>1 DEF Carried
  <2>7. Carried(r)'
    BY <2>1, <2>4, <2>5 DEF Carried, QueryHolds
  <2>8. Standing(r) = "idle" /\ Standing(r)' = "waiting"
    <3>1. oneshot'[r] = "open" /\ UnderWay(r)'
      BY <1>2, <1>3, <2>2, <2>7
    <3> QED  BY <2>1, <3>1 DEF Standing
  <2>9. Channel' = [Channel EXCEPT ![r] = Standing(r)']
    BY <1>1, <1>2, <1>3, <2>2, <2>6, ChannelMoves
  <2>10. Promise!Ask(r)
    BY <2>2, <2>8, <2>9 DEF Promise!Ask, Promise!Moves
  <2> QED  BY <2>10 DEF Promise!Next
<1>5. ASSUME NEW r \in Request, CallerGone(r)
      PROVE  Promise!Next
  <2>1. /\ oneshot[r] = "open" /\ oneshot' = [oneshot EXCEPT ![r] = "gone"]
        /\ UNCHANGED <<about, providers, downloads, queries, outbound, failures>>
    BY <1>5 DEF CallerGone, tables, network
  <2>2. \A x \in Request : Carried(x)' <=> Carried(x)
    BY <2>1 DEF Carried, QueryHolds
  <2>3. Standing(r) \in {"waiting", "stranded"} /\ Standing(r)' = "gone"
    BY <1>3, <2>1 DEF Standing
  <2>4. Channel' = [Channel EXCEPT ![r] = Standing(r)']
    BY <1>1, <1>2, <1>3, <2>1, <2>2, ChannelMoves
  <2>5. Promise!GiveUp(r)
    BY <2>1, <2>3, <2>4 DEF Promise!GiveUp, Promise!Moves
  <2> QED  BY <2>5 DEF Promise!Next
<1>6. ASSUME NEW q \in queries, NEW peers \in SUBSET Peer, FoundProviders(q, peers)
      PROVE  UNCHANGED <<Channel, failures>>
  <2>1. TableOf(q) \in Kind /\ q \in Id
    BY DEF TableOf, Kind, IInv, TypeOK
  <2>2. \A x \in Request, k \in Kind, i \in Id : QueryHolds(x, k, i)' <=> QueryHolds(x, k, i)
    <3>1. CASE providers[TableOf(q)][q] = None
      BY <3>1, <1>6 DEF FoundProviders, QueryHolds
    <3>2. CASE providers[TableOf(q)][q] # None
      <4> DEFINE data == [providers[TableOf(q)][q] EXCEPT !.found = @ \cup peers]
      <4>1. providers[TableOf(q)][q] \in Data
        BY <2>1, <3>2 DEF IInv, TypeOK
      <4>2. data.request = providers[TableOf(q)][q].request
        BY <4>1 DEF Data
      <4>3. providers' = [providers EXCEPT ![TableOf(q)][q] = data]
        BY <3>2, <1>6 DEF FoundProviders
      <4>4. data \in Data /\ data # None
        BY <4>1, ConstantsAssumption DEF Data
      <4> HIDE DEF data
      <4>5. \A k \in Kind, i \in Id :
              providers'[k][i] = IF k = TableOf(q) /\ i = q THEN data ELSE providers[k][i]
        BY <2>1, <4>3 DEF IInv, TypeOK
      <4> QED  BY <2>1, <3>2, <4>2, <4>4, <4>5 DEF QueryHolds
    <3> QED  BY <3>1, <3>2
  <2>3. UNCHANGED <<oneshot, about, outbound, failures>>
    BY <1>6 DEF FoundProviders, network
  <2>4. \A x \in Request : Carried(x)' <=> Carried(x)
    BY <2>2, <2>3 DEF Carried
  <2> QED  BY <1>1, <1>2, <2>3, <2>4, ChannelStays
<1>7. ASSUME NEW q \in queries, QueryEnds(q)
      PROVE  [Promise!Next]_<<Channel, failures>>
  <2>1. TableOf(q) \in Kind /\ q \in Id
    BY DEF TableOf, Kind, IInv, TypeOK
  <2>2. PICK k \in Kind : k = TableOf(q)
    BY <2>1
  <2>3. providers[k][q] \in Data
    BY <1>7, <2>1, <2>2 DEF QueryEnds, IInv, TypeOK
  <2>4. PICK r \in Request : r = providers[k][q].request
    BY <2>3 DEF Data
  <2>5. QueryHolds(r, k, q) /\ RemoveData(k, q) /\ UNCHANGED failures
    BY <1>7, <2>2, <2>4 DEF QueryEnds, AllProvidersFound, QueryHolds
  <2>6. oneshot[r] \in Waiting /\ KindOf[r] = k
    BY <2>1, <2>5 DEF IInv, QueriesKept, QueryHolds
  <2>7. UnderWay(r)
    BY <1>1, <2>1, <2>5 DEF Carried
  <2>8. \A l \in Kind, i \in Id :
          providers'[l][i] = IF l = k /\ i = q THEN None ELSE providers[l][i]
    BY <2>1, <2>5 DEF IInv, TypeOK, RemoveData
  <2>9. \A x \in Request, l \in Kind, i \in Id :
          x # r => (QueryHolds(x, l, i)' <=> QueryHolds(x, l, i))
    BY <2>5, <2>8 DEF QueryHolds
  <2>10. CASE Send(r, "none", r) /\ UNCHANGED <<downloads, outbound, nextRequest>>
    <3>1. \A x \in Request : x # r => (Carried(x)' <=> Carried(x))
      BY <2>9, <2>10 DEF Carried
    <3> QED  BY <1>1, <1>2, <2>5, <2>6, <2>7, <2>10, <3>1, SendAnswers
  <2>11. CASE /\ \E p \in Peer : outbound' = outbound \cup
                   {[kind |-> k, id |-> nextRequest[k], to |-> p, request |-> r]}
              /\ UNCHANGED <<oneshot, about>>
    <3>1. PICK p \in Peer : outbound' = outbound \cup
            {[kind |-> k, id |-> nextRequest[k], to |-> p, request |-> r]}
      BY <2>11
    <3>2. Carried(r)' /\ Carried(r)
      <4> DEFINE m == [kind |-> k, id |-> nextRequest[k], to |-> p, request |-> r]
      <4>1. m.request = r /\ m \in outbound'
        BY <3>1
      <4> QED  BY <2>1, <2>5, <4>1 DEF Carried
    <3>3. \A x \in Request : x # r => (Carried(x)' <=> Carried(x))
      BY <2>9, <3>1 DEF Carried
    <3>4. Channel' = Channel
      BY <1>1, <1>2, <2>11, <3>2, <3>3, ChannelStays
    <3> QED  BY <2>5, <3>4
  <2> QED
    BY <1>7, <2>2, <2>3, <2>4, <2>10, <2>11 DEF QueryEnds, AllProvidersFound, Data
<1>8. ASSUME NEW m \in outbound, NEW answer \in {"some", "none"}, HandleResponse(m, answer)
      PROVE  [Promise!Next]_<<Channel, failures>>
  <2>1. PICK r \in Request : r = m.request
    BY OnePlace
  <2>2. /\ oneshot[r] \in Waiting
        /\ \A k \in Kind, i \in Id : ~QueryHolds(r, k, i)
        /\ \A n \in outbound : n.request = r => n = m
    BY <2>1, OnePlace
  <2>3. downloads[m.kind][m.id] = r /\ r # None
    BY <2>1, ConstantsAssumption DEF IInv, MessagesOwn
  <2>4. /\ Send(r, answer, r) /\ outbound' = outbound \ {m}
        /\ UNCHANGED <<providers, failures>>
    BY <1>8, <2>1, <2>3 DEF HandleResponse
  <2>5. \A x \in Request : x # r => (Carried(x)' <=> Carried(x))
    BY <2>1, <2>4 DEF Carried, QueryHolds
  <2>6. UnderWay(r)
    BY <1>1, <2>1 DEF Carried
  <2> QED  BY <1>1, <1>2, <2>2, <2>4, <2>5, <2>6, SendAnswers
<1>9. ASSUME NEW m \in outbound, OutboundFailure(m)
      PROVE  Promise!Next
  <2>1. PICK r \in Request : r = m.request
    BY OnePlace
  <2>2. /\ oneshot[r] \in Waiting
        /\ \A k \in Kind, i \in Id : ~QueryHolds(r, k, i)
        /\ \A n \in outbound : n.request = r => n = m
    BY <2>1, OnePlace
  <2>3. /\ failures < MaxFailures /\ failures' = failures + 1 /\ outbound' = outbound \ {m}
        /\ UNCHANGED <<oneshot, about, providers, downloads>>
    BY <1>9 DEF OutboundFailure, tables
  <2>4. \A x \in Request : x # r => (Carried(x)' <=> Carried(x))
    BY <2>1, <2>3 DEF Carried, QueryHolds
  <2>5. Carried(r) /\ ~Carried(r)'
    BY <2>1, <2>2, <2>3 DEF Carried, QueryHolds
  <2>6. Channel' = [Channel EXCEPT ![r] = Standing(r)']
    BY <1>1, <1>2, <2>3, <2>4, ChannelMoves
  <2>7. CASE oneshot[r] = "open"
    <3>1. Standing(r) = "waiting" /\ Standing(r)' = "stranded"
      BY <1>1, <1>2, <2>3, <2>5, <2>7 DEF Standing
    <3> QED  BY <2>3, <2>6, <3>1 DEF Promise!Next, Promise!Lose, Promise!Moves
  <2>8. CASE oneshot[r] = "gone"
    <3>1. Standing(r) = "gone" /\ Standing(r)' = "gone"
      BY <2>3, <2>8 DEF Standing
    <3>2. Channel' = Channel /\ Channel[r] = "gone"
      BY <2>6, <3>1
    <3> QED  BY <2>3, <3>2 DEF Promise!Next, Promise!Lose
  <2> QED  BY <2>2, <2>7, <2>8 DEF Waiting
<1>10. CASE UNCHANGED vars
  <2>1. \A x \in Request : Carried(x)' <=> Carried(x)
    BY <1>10 DEF Carried, QueryHolds, vars, tables, network
  <2> QED  BY <1>1, <1>2, <1>10, <2>1, ChannelStays DEF vars, network
<1> QED  BY <1>4, <1>5, <1>6, <1>7, <1>8, <1>9, <1>10 DEF Next

(* The tables implement Oneshot: a channel is stranded by the loss of its own request
   alone, one at most by each, is not answered after that, and is answered about its
   own request otherwise (events.rs:72-105, 407-436, 480-530, 596-620). *)
THEOREM PromiseKept == Spec => KeepsPromise
<1>1. Init => Promise!Init
  BY DEF Init, Promise!Init, Standing
<1>2. IInv /\ UnderWayCarried /\ IInv' /\ UnderWayCarried' /\ [Next]_vars
        => [Promise!Next]_(Promise!vars)
  BY StepPromise DEF Promise!vars
<1> QED
  BY <1>1, <1>2, RefinementInv, PTL DEF Spec, KeepsPromise, Promise!Spec
=============================================================================
