----------------------------- MODULE PeerExchange -----------------------------
(***************************************************************************)
(* Peer exchange (discovery/src/peer-exchange): a peer that speaks the      *)
(* protocol is asked for other peers when it is identified, and again when  *)
(* its record has expired. A query awaits the peer store and the peer, and  *)
(* goes on when the discovery is stopped.                                   *)
(***************************************************************************)
EXTENDS Naturals, FiniteSets

CONSTANTS
    Servers,    \* connected peers that speak peer exchange
    Answers,    \* what a server may answer: sets of [peer, shards]
    QueryIds,   \* queries under way at once (a bound)
    MaxStops,   \* bound on the calls of stop
    NoShards    \* no shardInfo

\* An answer names a peer once; what it says of a peer without an ENR, or of an ENR
\* without peerInfo, is passed over and left out here.
ASSUME AnswersAssumption ==
    /\ IsFiniteSet(QueryIds)
    /\ \A answer \in Answers : \A x, y \in answer : x.peer = y.peer => x = y

Discovered == {found.peer : found \in UNION Answers}

VARIABLES
    pxStarted,  \* isStarted
    querying,   \* queryingPeers
    fresh,      \* peers whose record in peerExpirationRecords has not expired
    checks,     \* peers of handlePeriodicDiscovery that await the peer store
    queries,    \* [QueryIds -> a call of runQuery]
    shardInfo,  \* the peer store: [peer -> its shardInfo]
    stops       \* how many times it was stopped

exchangeVars == <<pxStarted, querying, fresh, checks, queries, shardInfo, stops>>

\* left: found peers still to look at; at: the one that is looked at; prev:
\* hasPrevShardInfo.
NoQuery == [doing |-> "nothing", server |-> NoShards, left |-> {}, at |-> {}, prev |-> FALSE]
Running(server) == {q \in QueryIds : queries[q] # NoQuery /\ queries[q].server = server}

ExchangeInit ==
    /\ pxStarted = FALSE /\ querying = {} /\ fresh = {} /\ checks = {}
    /\ queries = [q \in QueryIds |-> NoQuery]
    /\ shardInfo = [p \in Discovered |-> NoShards]
    /\ stops = 0

-----------------------------------------------------------------------------
StartExchange ==
    /\ ~pxStarted /\ stops < MaxStops
    /\ pxStarted' = TRUE
    /\ UNCHANGED <<querying, fresh, checks, queries, shardInfo, stops>>

\* The queries under way lose their marks.
StopExchange ==
    /\ pxStarted
    /\ pxStarted' = FALSE /\ querying' = {} /\ fresh' = {}
    /\ stops' = stops + 1
    /\ UNCHANGED <<checks, queries, shardInfo>>

-----------------------------------------------------------------------------
\* The peers whose queries under way are marked, once one more begins.
NoMark(server) == querying
Marked(server) == querying \cup {server}

\* runQuery, up to its first await: a server is not asked while it is marked.
runQuery(server) ==
    IF server \in querying THEN UNCHANGED <<querying, queries>>
    ELSE \E q \in QueryIds :
            /\ queries[q] = NoQuery
            /\ queries' = [queries EXCEPT ![q] = [NoQuery EXCEPT !.doing = "ask", !.server = server]]
            /\ querying' = Marked(server)

\* handleDiscoveredPeer
IdentifyServer(server) ==
    /\ pxStarted
    /\ runQuery(server)
    /\ UNCHANGED <<pxStarted, fresh, checks, shardInfo, stops>>

\* A record gets as old as the TTL.
ExpireRecord(server) ==
    /\ server \in fresh
    /\ fresh' = fresh \ {server}
    /\ UNCHANGED <<pxStarted, querying, checks, queries, shardInfo, stops>>

\* handlePeriodicDiscovery, and what follows its await for one connection: the
\* peer store has the peer, or not.
Periodic(connected) ==
    /\ pxStarted
    /\ checks' = checks \cup (connected \ fresh)
    /\ UNCHANGED <<pxStarted, querying, fresh, queries, shardInfo, stops>>

Checked(server) ==
    /\ server \in checks
    /\ checks' = checks \ {server}
    /\ runQuery(server) \/ UNCHANGED <<querying, queries>>
    /\ UNCHANGED <<pxStarted, fresh, shardInfo, stops>>

-----------------------------------------------------------------------------
\* The end of runQuery, after an error too.
EndQuery(q) ==
    /\ queries' = [queries EXCEPT ![q] = NoQuery]
    /\ fresh' = fresh \cup {queries[q].server}
    /\ querying' = querying \ {queries[q].server}
    /\ UNCHANGED <<pxStarted, checks, shardInfo, stops>>

\* PeerExchange.query: without a peer, a stream or an answer that can be decoded
\* there is an error, and nothing more.
AnswerQuery(q) ==
    /\ queries[q].doing = "ask"
    /\ \/ EndQuery(q)
       \/ \E answer \in Answers :
             /\ queries' = [queries EXCEPT ![q].doing = "found", ![q].left = answer]
             /\ UNCHANGED <<pxStarted, querying, fresh, checks, shardInfo, stops>>

\* Each found peer: hasShardInfo reads the peer store, merge tells it. merge may
\* throw, and a query ends with the last of them.
HasShardInfo(q) ==
    /\ queries[q].doing = "found"
    /\ \E found \in queries[q].left :
          queries' = [queries EXCEPT ![q].doing = "merge", ![q].left = @ \ {found},
                        ![q].at = {found}, ![q].prev = shardInfo[found.peer] # NoShards]
    /\ UNCHANGED <<pxStarted, querying, fresh, checks, shardInfo, stops>>

MergeFound(q) ==
    /\ queries[q].doing = "merge"
    /\ \/ EndQuery(q)
       \/ \E found \in queries[q].at :
             /\ shardInfo' = IF queries[q].prev \/ found.shards = NoShards THEN shardInfo
                             ELSE [shardInfo EXCEPT ![found.peer] = found.shards]
             /\ queries' = [queries EXCEPT ![q].doing = "found", ![q].at = {}]
             /\ UNCHANGED <<pxStarted, querying, fresh, checks, stops>>

LastFound(q) == queries[q].doing = "found" /\ queries[q].left = {} /\ EndQuery(q)

ExchangeNext ==
    \/ StartExchange \/ StopExchange
    \/ \E server \in Servers : IdentifyServer(server) \/ ExpireRecord(server) \/ Checked(server)
    \/ \E connected \in SUBSET Servers : Periodic(connected)
    \/ \E q \in QueryIds : AnswerQuery(q) \/ HasShardInfo(q) \/ MergeFound(q) \/ LastFound(q)

ExchangeSpec == ExchangeInit /\ [][ExchangeNext]_exchangeVars

-----------------------------------------------------------------------------
\* A server has at most one query under way, and one more for every time the
\* discovery was stopped: what ends takes away the mark of what began after it,
\* but no interleaving of events, timers and answers adds to them (runQuery).
QueriesBounded == \A server \in Servers : Cardinality(Running(server)) <= 1 + stops

\* A peer keeps the shardInfo it has. Two queries that both find it without one
\* do not: each reads before the other has told the peer store.
ShardInfoKept == [][\A p \in Discovered : shardInfo[p] # NoShards => shardInfo'[p] = shardInfo[p]]_shardInfo
=============================================================================
