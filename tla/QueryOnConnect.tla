---------------------------- MODULE QueryOnConnect ----------------------------
(***************************************************************************)
(* Queries for what was missed (sdk/src/query_on_connect): when a store     *)
(* peer connects, and the node was offline since the last query or that is  *)
(* long ago, the store is asked for what it has got since. The health       *)
(* indicator, of a module of its own, may tell at any time that the node is *)
(* offline, and a store peer may go at any time; the queries are those of   *)
(* StoreQueries.                                                           *)
(***************************************************************************)
EXTENDS StoreQueries

CONSTANTS
    Peers,               \* store nodes
    None,
    MaxTimeRange,        \* MAX_TIME_RANGE_QUERY_MS
    ForceQueryThreshold, \* forceQueryThresholdMs
    MaxTime, MaxMessages, MaxConnects, MaxStops \* bounds

\* The longest time looked back is some time.
ASSUME RangeAssumption == MaxTimeRange \in Nat

VARIABLES
    now,
    archive,      \* what the store nodes have: records of time and causal
    lastSuccessfulQuery, lastTimeOffline,
    phase,        \* "stopped", "started" or "stopping"
    queries,      \* [Peers -> the query that runs to the peer, or None]
    activeQuery,  \* the peer of activeQueryPromise, or None
    dispatched,   \* positions in archive of the messages that were dispatched
    asked,        \* the latest timeEnd of a query that succeeded
    unasked,      \* times a query that succeeded has left out
    connects, stops

vars == <<now, archive, lastSuccessfulQuery, lastTimeOffline, phase, queries,
          activeQuery, dispatched, asked, unasked, connects, stops>>

Init ==
    /\ now = 1 /\ archive = <<>>
    /\ lastSuccessfulQuery = 0 /\ lastTimeOffline = 0
    /\ phase = "started"
    /\ queries = [p \in Peers |-> None] /\ activeQuery = None
    /\ dispatched = {} /\ asked = 0 /\ unasked = {}
    /\ connects = 0 /\ stops = 0

Tick ==
    /\ now < MaxTime
    /\ now' = now + 1
    /\ UNCHANGED <<archive, lastSuccessfulQuery, lastTimeOffline, phase, queries,
                   activeQuery, dispatched, asked, unasked, connects, stops>>

\* A message of this time reaches the store nodes, one that has a causal history
\* or not.
Archive(causal) ==
    /\ Len(archive) < MaxMessages
    /\ archive' = Append(archive, [time |-> now, causal |-> causal])
    /\ UNCHANGED <<now, lastSuccessfulQuery, lastTimeOffline, phase, queries,
                   activeQuery, dispatched, asked, unasked, connects, stops>>

-----------------------------------------------------------------------------
\* calculateTimeRange
calculateTimeRange ==
    LET past  == now - lastSuccessfulQuery
        range == IF past < MaxTimeRange THEN past ELSE MaxTimeRange
    IN  [timeStart |-> now - range, timeEnd |-> now]

\* A query, of the ranges that are left to ask for; left holds the times that are
\* left out of it.
Query ==
    LET range  == calculateTimeRange
        ranges == buildQueryParams(range.timeStart, range.timeEnd)
    IN  [timeEnd |-> range.timeEnd, ranges |-> ranges, cursor |-> 0,
         abortable |-> phase = "started", aborted |-> FALSE,
         left |-> (lastSuccessfulQuery..(range.timeEnd - 1)) \ Covered(ranges)]

\* maybeQuery
MustQuery ==
    \/ lastSuccessfulQuery = 0
    \/ lastTimeOffline > lastSuccessfulQuery
    \/ now - lastSuccessfulQuery > ForceQueryThreshold

Connect(p) ==
    /\ connects < MaxConnects
    /\ connects' = connects + 1
    /\ IF phase # "stopped" /\ MustQuery
       THEN /\ queries[p] = None
            /\ queries' = [queries EXCEPT ![p] = Query]
            /\ activeQuery' = p
       ELSE UNCHANGED <<queries, activeQuery>>
    /\ UNCHANGED <<now, archive, lastSuccessfulQuery, lastTimeOffline, phase, dispatched,
                   asked, unasked, stops>>

\* updateLastOfflineDate
Offline ==
    /\ phase # "stopped" /\ lastTimeOffline # now
    /\ lastTimeOffline' = now
    /\ UNCHANGED <<now, archive, lastSuccessfulQuery, phase, queries, activeQuery,
                   dispatched, asked, unasked, connects, stops>>

-----------------------------------------------------------------------------
\* The query q to p ends, with success or not: activeQueryPromise is forgotten,
\* even when it is that of another query.
End(p) ==
    /\ queries' = [queries EXCEPT ![p] = None]
    /\ activeQuery' = None

Succeed(p, q, left) ==
    /\ End(p)
    /\ lastSuccessfulQuery' = now
    /\ asked' = IF q.timeEnd > asked THEN q.timeEnd ELSE asked
    /\ unasked' = unasked \cup left \cup (q.timeEnd..(now - 1))

\* FailAsSuccess records the time of a query that has thrown.
FailAsSuccess(p) ==
    /\ End(p)
    /\ lastSuccessfulQuery' = now
    /\ asked' = IF queries[p].timeEnd > asked THEN queries[p].timeEnd ELSE asked
    /\ UNCHANGED unasked

Fail(p) ==
    /\ End(p)
    /\ UNCHANGED <<lastSuccessfulQuery, asked, unasked>>

RangeOf(q) == Head(q.ranges)[1]..(Head(q.ranges)[2] - 1)

\* The query goes on with its next range, or has succeeded with its last.
NextRange(p, q) ==
    IF Len(q.ranges) = 1 THEN Succeed(p, q, q.left)
    ELSE /\ queries' = [queries EXCEPT ![p] = [q EXCEPT !.ranges = Tail(@), !.cursor = 0]]
         /\ UNCHANGED <<lastSuccessfulQuery, activeQuery, asked, unasked>>

QueryStep(p) == queries[p] # None /\ UNCHANGED <<now, archive, lastTimeOffline, phase, connects, stops>>

\* A page was answered: its messages are dispatched. After one that has a causal
\* history nothing more is asked for.
Answer(p) ==
    LET q    == queries[p]
        page == Page(archive, Head(q.ranges), q.cursor)
    IN
    /\ QueryStep(p) /\ ~q.aborted
    /\ page # {}
    /\ dispatched' = dispatched \cup page
    /\ IF \E i \in page : archive[i].causal
       THEN Succeed(p, q, q.left \cup archive[NextCursor(page)].time..(Last(q.ranges)[2] - 1))
       ELSE /\ queries' = [queries EXCEPT ![p].cursor = NextCursor(page)]
            /\ UNCHANGED <<lastSuccessfulQuery, activeQuery, asked, unasked>>

\* An empty page ends the range.
AnswerEmpty(p) ==
    LET q == queries[p] IN
    /\ QueryStep(p) /\ ~q.aborted
    /\ Page(archive, Head(q.ranges), q.cursor) = {}
    /\ NextRange(p, q)
    /\ UNCHANGED dispatched

\* So do an abort, and a stream that cannot be had as the peer may have gone at
\* any time; neither throws.
Unanswered(p) ==
    LET q == queries[p] IN
    /\ QueryStep(p)
    /\ NextRange(p, [q EXCEPT !.left = @ \cup RangeOf(q)])
    /\ UNCHANGED dispatched

\* The stream breaks, or the store node answers with an error.
Error(p) ==
    /\ QueryStep(p)
    /\ Fail(p)
    /\ UNCHANGED dispatched

-----------------------------------------------------------------------------
\* stop aborts the queries and awaits the one that is active; until then the
\* listeners are there. The application awaits it before it starts again.
Stop ==
    /\ phase = "started" /\ stops < MaxStops
    /\ stops' = stops + 1
    /\ phase' = IF activeQuery = None THEN "stopped" ELSE "stopping"
    /\ queries' = [p \in Peers |->
          IF queries[p] # None /\ queries[p].abortable THEN [queries[p] EXCEPT !.aborted = TRUE]
          ELSE queries[p]]
    /\ UNCHANGED <<now, archive, lastSuccessfulQuery, lastTimeOffline, activeQuery,
                   dispatched, asked, unasked, connects>>

Stopped ==
    /\ phase = "stopping" /\ activeQuery = None
    /\ phase' = "stopped"
    /\ UNCHANGED <<now, archive, lastSuccessfulQuery, lastTimeOffline, queries,
                   activeQuery, dispatched, asked, unasked, connects, stops>>

Start ==
    /\ phase = "stopped"
    /\ phase' = "started"
    /\ UNCHANGED <<now, archive, lastSuccessfulQuery, lastTimeOffline, queries,
                   activeQuery, dispatched, asked, unasked, connects, stops>>

Next ==
    \/ Tick
    \/ \E causal \in BOOLEAN : Archive(causal)
    \/ \E p \in Peers : Connect(p)
    \/ Offline
    \/ \E p \in Peers : Answer(p) \/ AnswerEmpty(p) \/ Unanswered(p) \/ Error(p)
    \/ Stop \/ Stopped \/ Start

Spec == Init /\ [][Next]_vars

-----------------------------------------------------------------------------
\* A message that reached the store before the last query that succeeded was
\* dispatched, whatever queries failed, were stopped or overlapped, and however it
\* was paged; or it came at a time that such a query left out, which can only be
\* because it found no stream, was aborted or ended early, or because the message
\* came while a query ran, is too old, or falls in the rest of a split range
\* (maybeQuery, query, calculateTimeRange, buildQueryParams, queryPerPage).
NoneMissed ==
    \A i \in DOMAIN archive :
        archive[i].time < asked /\ archive[i].time \notin unasked => i \in dispatched

\* The sub-ranges of a query cover its range (store.spec.ts:175, "Should create 3
\* chunks: [0-24h], [24h-48h], [48h-72h+1ms]"; query_on_connect.ts:20, "30 days
\* (queries are split)"). The rest that is not longer than a part is left out.
RangesCover ==
    \A p \in Peers : queries[p] # None /\ queries[p].ranges # <<>> =>
        Last(queries[p].ranges)[2] = queries[p].timeEnd
=============================================================================
