----------------------------- MODULE StreamManager -----------------------------
(***************************************************************************)
(* StreamManager (core/src/lib/stream_manager): the streams of one protocol *)
(* to one peer. A stream is created ahead when the peer becomes known, or   *)
(* when a request needs one, and is locked for the request that takes it.   *)
(***************************************************************************)
EXTENDS Naturals, Sequences, FiniteSets, FiniteSetsExt

CONSTANTS
    StreamUsers,   \* requests that may run at a time
    MaxStreams,    \* bound: streams created altogether
    MaxConnections \* bound: connections opened altogether

VARIABLES
    connections, \* the open connections to the peer, by their number
    streams,     \* every stream, in the order of creation
    opened,      \* connections opened so far
    streamPool,  \* NoStream, or what the scheduled promise waits for (Settled: nothing)
    ongoing,     \* the stream of ongoingCreation, or NoStream
    users        \* what each request does, and with which stream

streamVars == <<connections, streams, opened, streamPool, ongoing, users>>

NoStream == 0
Settled  == MaxStreams + 1

StreamsInit ==
    /\ connections = {} /\ opened = 0
    /\ streams = <<>>
    /\ streamPool = NoStream /\ ongoing = NoStream
    /\ users = [u \in StreamUsers |-> [does |-> "nothing", stream |-> NoStream]]

-----------------------------------------------------------------------------
\* The newest of the open connections.
selectOpenConnection == Max(connections)

\* The first stream of the protocol counts, and only if it can be used.
getOpenStreamForCodec ==
    LET found == {i \in DOMAIN streams : /\ connections # {}
                                         /\ streams[i].connection = selectOpenConnection
                                         /\ streams[i].status \in {"open", "closing"}}
        usable == {i \in found : /\ \A j \in found : i <= j
                                 /\ streams[i].status = "open" /\ ~streams[i].locked}
    IN  IF usable = {} THEN NoStream ELSE CHOOSE i \in usable : TRUE

LeftUnlocked(i) == streams
lockStream(i) == [streams EXCEPT ![i].locked = TRUE]

createStream(by) ==
    /\ Len(streams) < MaxStreams
    /\ streams' = Append(streams, [connection |-> selectOpenConnection, by |-> by,
                                   status |-> "negotiating", locked |-> FALSE])

Does(u, what, stream) == users' = [users EXCEPT ![u] = [does |-> what, stream |-> stream]]

\* getStream, after what was scheduled has ended.
TakeStream(u) ==
    LET open == getOpenStreamForCodec
    IN  \/ /\ open # NoStream
           /\ streams' = lockStream(open)
           /\ Does(u, "uses", open)
        \/ /\ open = NoStream /\ connections = {}
           /\ Does(u, "nothing", NoStream)
           /\ UNCHANGED streams
        \/ /\ open = NoStream /\ connections # {}
           /\ createStream(u)
           /\ Does(u, "creates", Len(streams) + 1)

\* getStream: it takes the scheduled promise out of the pool and awaits it.
GetStream(u) ==
    /\ users[u].does = "nothing"
    /\ \/ streamPool = NoStream /\ TakeStream(u) /\ UNCHANGED streamPool
       \/ /\ streamPool # NoStream
          /\ streamPool' = NoStream
          /\ Does(u, "awaits", streamPool)
          /\ UNCHANGED streams
    /\ UNCHANGED <<connections, opened, ongoing>>

GetAwaited(u) ==
    /\ users[u].does = "awaits" /\ users[u].stream # ongoing
    /\ TakeStream(u)
    /\ UNCHANGED <<connections, opened, streamPool, ongoing>>

\* newStream of the connection ends: the stream can be found before the one that
\* awaits it goes on.
NewStream(i) ==
    /\ streams[i].status = "negotiating"
    /\ \E s \in {"open", "failed"} : streams' = [streams EXCEPT ![i].status = s]
    /\ UNCHANGED <<connections, opened, streamPool, ongoing, users>>

GetCreated(u) ==
    LET i == users[u].stream
    IN  /\ users[u].does = "creates" /\ streams[i].status # "negotiating"
        /\ IF streams[i].status = "failed"
           THEN Does(u, "nothing", NoStream) /\ UNCHANGED streams
           ELSE Does(u, "uses", i) /\ streams' = lockStream(i)
    /\ UNCHANGED <<connections, opened, streamPool, ongoing>>

\* handlePeerUpdateStreamPool, with scheduleNewStream and createStreamWithLock
PeerUpdate ==
    /\ getOpenStreamForCodec = NoStream
    /\ IF ongoing # NoStream \/ connections = {}
       THEN streamPool' = Settled /\ UNCHANGED <<streams, ongoing>>
       ELSE /\ createStream("pool")
            /\ streamPool' = Len(streams) + 1 /\ ongoing' = Len(streams) + 1
    /\ UNCHANGED <<connections, opened, users>>

\* The end of createStreamWithLock
PoolCreated ==
    /\ ongoing # NoStream /\ streams[ongoing].status # "negotiating"
    /\ ongoing' = NoStream
    /\ UNCHANGED <<connections, opened, streams, streamPool, users>>

-----------------------------------------------------------------------------
\* The request has its answer, and its stream closes.
StreamUsed(u) ==
    LET i == users[u].stream
    IN  /\ users[u].does = "uses"
        /\ streams' = IF streams[i].status = "open"
                      THEN [streams EXCEPT ![i].status = "closing"] ELSE streams
        /\ Does(u, "nothing", NoStream)
        /\ UNCHANGED <<connections, opened, streamPool, ongoing>>

StreamGone(i) ==
    /\ streams[i].status = "closing"
    /\ streams' = [streams EXCEPT ![i].status = "gone"]
    /\ UNCHANGED <<connections, opened, streamPool, ongoing, users>>

OpenConnection ==
    /\ opened < MaxConnections
    /\ opened' = opened + 1
    /\ connections' = connections \cup {opened + 1}
    /\ UNCHANGED <<streams, streamPool, ongoing, users>>

CloseConnection(k) ==
    /\ connections' = connections \ {k}
    /\ streams' = [i \in DOMAIN streams |->
          IF streams[i].connection # k THEN streams[i]
          ELSE [streams[i] EXCEPT !.status = IF @ \in {"negotiating", "failed"}
                                             THEN "failed" ELSE "gone"]]
    /\ UNCHANGED <<opened, streamPool, ongoing, users>>

StreamsNext ==
    \/ \E u \in StreamUsers : GetStream(u) \/ GetAwaited(u) \/ GetCreated(u) \/ StreamUsed(u)
    \/ \E i \in DOMAIN streams : NewStream(i) \/ StreamGone(i)
    \/ \E k \in connections : CloseConnection(k)
    \/ PeerUpdate \/ PoolCreated \/ OpenConnection

StreamsSpec == StreamsInit /\ [][StreamsNext]_streamVars

-----------------------------------------------------------------------------
\* Two requests have the same stream only in the time between its creation for one
\* of them and its lock: then the other found it open. A stream created ahead for
\* the pool, and one that was locked, is never given to two (getStream,
\* getOpenStreamForCodec and lockStream, with the awaits between them).
SharedOnlyWithCreator ==
    \A u, v \in StreamUsers :
        u # v /\ users[u].does = "uses" /\ users[v].does = "uses"
              /\ users[u].stream = users[v].stream =>
            /\ streams[users[u].stream].by \in {u, v}
            /\ \A w \in StreamUsers \ {u, v} :
                  users[w].does = "uses" => users[w].stream # users[u].stream
=============================================================================
