-------------------------- MODULE ConnectionManager --------------------------
(***************************************************************************)
(* The connection manager of a node (core/src/lib/connection_manager): the *)
(* network monitor, the discovery dialer, the connection limiter and the   *)
(* keep-alive timers, over the dialer of Dialer.tla and libp2p's           *)
(* connections.  The handlers of "peer:connect" and "peer:disconnect" run  *)
(* in the step of the connection that causes them.                         *)
(***************************************************************************)
EXTENDS Dialer

CONSTANTS
  Bootstrap,          \* peers tagged as bootstrap peers
  Priority,           \* a peer's place in the list of getPrioritizedPeers
  MaxConnections,
  MaxBootstrapPeers,
  AutoRecovery,       \* options.enableAutoRecovery
  MaxReads,           \* bound: calls of dialPeersFromStore waiting for the store
  MaxUpsets,          \* bound: events of the environment
  Reachable           \* peers that answer one of infinitely many dials

ASSUME ConnectionManagerAssumption ==
  /\ Bootstrap \subseteq Peers /\ IsFiniteSet(Peers)
  /\ Priority \in [Peers -> Nat]
  /\ \A p, q \in Peers : p \in Bootstrap /\ q \notin Bootstrap => Priority[p] < Priority[q]
  /\ MaxConnections \in Nat \ {0} /\ MaxBootstrapPeers \in Nat
  /\ Reachable \subseteq Peers /\ AutoRecovery \in BOOLEAN /\ MaxReads \in Nat \ {0} /\ MaxUpsets \in Nat

VARIABLES
  started,
  online,              \* navigator.onLine
  locked,              \* peers whose connection the peer manager has locked
  isNetworkConnected,
  pingKeepAliveTimers,
  known,               \* peers of the peer store with an address we can dial
  storeReads,          \* calls of dialPeersFromStore waiting for the store
  rounds,              \* calls of maintainConnections
  upsets               \* events of the environment so far

managerVars == <<started, online, known, storeReads, rounds>>
connectionVars == <<connected, locked, isNetworkConnected, pingKeepAliveTimers>>
vars == <<managerVars, connectionVars, dialerVars, upsets>>

Round(phase, room, peers) == [phase |-> phase, room |-> room, peers |-> peers]
Idle == Round("idle", 0, {})

\* getBootstrapPeers: the connections are read now, their peers awaited.
TrimLater(c) == Round("reading", 0, c \intersect Bootstrap)

Init ==
  /\ DialerInit
  /\ connected = {} /\ locked = {} /\ pingKeepAliveTimers = {}
  /\ known \in SUBSET Peers
  /\ started = FALSE /\ online = TRUE /\ isNetworkConnected = FALSE
  /\ storeReads = 0
  /\ rounds = [r \in Rounds |-> Idle] /\ upsets = 0

\* dialPeersFromStore is called n times.
ReadLater(n) ==
  storeReads' = IF storeReads + n < MaxReads THEN storeReads + n ELSE MaxReads

-----------------------------------------------------------------------------
\* Connections and their events.

\* "peer:connect": the monitor reports a first connection, which makes the
\* limiter dial every known peer, and the peer gets its ping timer.
Opened(p) ==
  /\ connected' = connected \union {p}
  /\ IF started /\ p \notin connected
       THEN /\ isNetworkConnected' = TRUE
            /\ pingKeepAliveTimers' = pingKeepAliveTimers \union {p}
            /\ ReadLater(IF ~isNetworkConnected /\ online /\ AutoRecovery THEN 1 ELSE 0)
       ELSE UNCHANGED <<isNetworkConnected, pingKeepAliveTimers, storeReads>>
  /\ UNCHANGED locked

\* "peer:disconnect": without a connection the monitor reports that the network
\* is lost and the limiter dials the known peers, once for the report and once
\* for the event.
Closed(p) ==
  LET last == connected = {p} IN
  /\ p \in connected
  /\ connected' = connected \ {p}
  /\ locked' = locked \ {p}
  /\ IF started
       THEN /\ isNetworkConnected' = (isNetworkConnected /\ ~last)
            /\ pingKeepAliveTimers' = pingKeepAliveTimers \ {p}
            /\ ReadLater(IF ~last THEN 0
                         ELSE IF isNetworkConnected /\ online /\ AutoRecovery
                                THEN 2 ELSE 1)
       ELSE UNCHANGED <<isNetworkConnected, pingKeepAliveTimers, storeReads>>

\* A remote peer opens or closes a connection, or libp2p loses it.
Connect(p) ==
  /\ p \notin connected /\ online
  /\ Opened(p)
  /\ UNCHANGED <<dialerVars, started, online, known, rounds>>

Disconnect(p) ==
  /\ Closed(p)
  /\ UNCHANGED <<dialerVars, started, online, known, rounds>>

\* The peer manager locks and unlocks a connection.
Lock(p) ==
  /\ p \in connected \ locked
  /\ locked' = locked \union {p}
  /\ UNCHANGED <<managerVars, dialerVars, connected, isNetworkConnected,
                 pingKeepAliveTimers>>

Unlock(p) ==
  /\ p \in locked
  /\ locked' = locked \ {p}
  /\ UNCHANGED <<managerVars, dialerVars, connected, isNetworkConnected,
                 pingKeepAliveTimers>>

\* "online" and "offline": going online dials the known peers.
GoOnline ==
  /\ ~online /\ online' = TRUE
  /\ ReadLater(IF started /\ AutoRecovery THEN 1 ELSE 0)
  /\ UNCHANGED <<dialerVars, connectionVars, started, known, rounds>>

GoOffline ==
  /\ online /\ online' = FALSE
  /\ UNCHANGED <<dialerVars, connectionVars, started, known,
                 rounds, storeReads>>

-----------------------------------------------------------------------------
\* start and stop, in the order of the node: libp2p and its bootstrap discovery
\* start before the manager and stop after it.

Start ==
  /\ ~started /\ started' = TRUE
  /\ ClearHistory
  /\ ReadLater(1)
  /\ UNCHANGED <<connectionVars, online, known, rounds>>

\* The timers go, but not the rounds, the dials and the queue, nor what the
\* monitor believes.
Stop ==
  /\ started /\ started' = FALSE
  /\ ClearHistory
  /\ pingKeepAliveTimers' = {}
  /\ UNCHANGED <<connected, locked, isNetworkConnected, online, known,
                 rounds, storeReads>>

-----------------------------------------------------------------------------
\* Discovery.

\* libp2p reports a peer: onPeerDiscovery writes it to the store, or fails to,
\* and dials it.  A restart of the bootstrap discovery asks for such reports.
Discover(p) ==
  /\ started
  /\ known' \in {known, known \union {p}}
  /\ CallDial(Others, {p})
  /\ UNCHANGED <<connectionVars, started, online, storeReads, rounds>>

-----------------------------------------------------------------------------
\* The connection limiter.

\* getPrioritizedPeers, when the store has answered.
Candidates == known \ connected

\* The first n peers of the list.
First(n) ==
  {S \in SUBSET Candidates :
     /\ Cardinality(S) =< n
     /\ Cardinality(S) < n => S = Candidates
     /\ \A p \in S, q \in Candidates \ S : Priority[p] =< Priority[q]}

\* dialPeersFromStore: every known peer, whatever maxConnections is, or a
\* restart of the bootstrap discovery.
DialFromStore ==
  /\ storeReads > 0
  /\ storeReads' = storeReads - 1
  /\ IF Candidates = {}
       THEN UNCHANGED dialerVars
       ELSE CallDial(Others, Candidates)
  /\ UNCHANGED <<connectionVars, started, online, known, rounds>>

SetRound(r, round) == rounds' = [rounds EXCEPT ![r] = round]

\* The interval calls maintainConnections: the connections are counted before
\* the store is read, or those above the limit are chosen to be closed.
BeginRound(r) ==
  /\ started /\ AutoRecovery /\ rounds[r] = Idle
  /\ IF Cardinality(connected) =< MaxConnections
       THEN SetRound(r, Round("counted", MaxConnections - Cardinality(connected), {}))
       ELSE IF Cardinality(connected \ locked) =< MaxConnections
         THEN SetRound(r, TrimLater(connected))
         ELSE \E drop \in SUBSET (connected \ locked) :
                /\ Cardinality(drop) = Cardinality(connected \ locked) - MaxConnections
                /\ SetRound(r, Round("dropping", 0, drop))
  /\ UNCHANGED <<dialerVars, connectionVars, started, online, known,
                 storeReads>>

\* The store has answered: as many peers as there was room for are dialed.
DialMore(r) ==
  /\ rounds[r].phase = "counted"
  /\ IF Candidates = {}
       THEN /\ SetRound(r, TrimLater(connected))
            /\ UNCHANGED dialerVars
       ELSE /\ \E S \in First(rounds[r].room) : CallDial(r, S)
            /\ SetRound(r, Round("dialing", 0, {}))
  /\ UNCHANGED <<connectionVars, started, online, known, storeReads>>

\* All calls of dial have returned, dialed, queued or skipped.
EndCalls(r) ==
  /\ rounds[r].phase = "dialing"
  /\ \A p \in Peers : calls[r][p] = 0
  /\ \A d \in dialing : d.caller # r
  /\ SetRound(r, TrimLater(connected))
  /\ UNCHANGED <<dialerVars, connectionVars, started, online, known,
                 storeReads>>

\* maintainBootstrapConnections: bootstrap peers above their limit are closed,
\* locked or not.
Trim(r) ==
  LET excess == Cardinality(rounds[r].peers) - MaxBootstrapPeers IN
  /\ rounds[r].phase = "reading"
  /\ IF excess =< 0
       THEN SetRound(r, Idle)
       ELSE \E drop \in SUBSET rounds[r].peers :
              /\ Cardinality(drop) = excess
              /\ SetRound(r, Round("trimming", 0, drop))
  /\ UNCHANGED <<dialerVars, connectionVars, started, online, known,
                 storeReads>>

\* hangUp of one of the chosen peers, which closes it or finds it gone.  The
\* round goes on after the last one, or after one fails: the others then close
\* later, as connections do (Disconnect).
HangUp(r, p) ==
  /\ p \in rounds[r].peers /\ rounds[r].phase \in {"dropping", "trimming"}
  /\ Closed(p) \/ UNCHANGED <<connectionVars, storeReads>>
  /\ \E left \in {rounds[r].peers \ {p}, {}} :
       /\ left = {} => connected' = connected \/ rounds[r].peers = {p}
       /\ SetRound(r, IF left # {} THEN [rounds[r] EXCEPT !.peers = left]
                      ELSE IF rounds[r].phase = "dropping" THEN TrimLater(connected')
                      ELSE Idle)
  /\ UNCHANGED <<dialerVars, started, online, known>>

-----------------------------------------------------------------------------
\* The dialer's steps.

Check(c, p) ==
  /\ Checked(c, p) \/ Skipped(c, p)
  /\ UNCHANGED <<managerVars, connectionVars>>

ToDial(c, p) == Checked(c, p) /\ UNCHANGED <<managerVars, connectionVars>>

DialQueued ==
  /\ started /\ ProcessQueue
  /\ UNCHANGED <<managerVars, connectionVars>>

DialSucceeds(d) ==
  /\ online /\ EndDial(d) /\ Opened(d.peer)
  /\ UNCHANGED <<started, online, known, rounds>>

\* libp2p reports an error, or dialTimeout passes.
DialFails(d) == EndDial(d) /\ UNCHANGED <<managerVars, connectionVars>>

CooledDown(p) == Cool(p) /\ UNCHANGED <<managerVars, connectionVars>>

RoundStep(r) ==
  \/ BeginRound(r) \/ DialMore(r) \/ EndCalls(r) \/ Trim(r)
  \/ \E p \in Peers : HangUp(r, p)

NodeStep ==
  \/ Start \/ GoOnline \/ DialFromStore \/ DialQueued
  \/ \E p \in Peers : Unlock(p) \/ CooledDown(p)
  \/ \E p \in Peers, c \in Callers : Check(c, p)
  \/ \E d \in dialing : DialSucceeds(d) \/ DialFails(d)
  \/ \E r \in Rounds : RoundStep(r)

\* What the network, the application and the peer manager do to the node.
Upset ==
  \/ Stop \/ GoOffline
  \/ \E p \in Peers : Connect(p) \/ Disconnect(p) \/ Lock(p) \/ Discover(p)

Next ==
  \/ NodeStep /\ UNCHANGED upsets
  \/ Upset /\ upsets < MaxUpsets /\ upsets' = upsets + 1

Spec == Init /\ [][Next]_vars

-----------------------------------------------------------------------------
\* Timers fire, the store answers, a dial ends within dialTimeout, a record of
\* a dial expires.  A peer of Reachable that is asked for again and again is
\* dialed once, because its shard info can be read and names our cluster, and
\* answers once when it is dialed again and again.
Alone == UNCHANGED upsets

DialEnds(d) == d \in dialing /\ (DialSucceeds(d) \/ DialFails(d))

Fairness ==
  /\ WF_vars(DialFromStore /\ Alone)
  /\ WF_vars(DialQueued /\ Alone)
  /\ \A p \in Peers :
       /\ WF_vars(CooledDown(p) /\ Alone)
       /\ WF_vars((\E c \in Callers : Check(c, p)) /\ Alone)
  /\ WF_vars((\E d \in QueueDials : DialEnds(d)) /\ Alone)
  /\ WF_vars((\E d \in dialing \ QueueDials : DialEnds(d)) /\ Alone)
  /\ \A r \in Rounds : WF_vars(RoundStep(r) /\ Alone)
  /\ \A p \in Reachable :
       /\ SF_vars((\E c \in Callers : ToDial(c, p)) /\ Alone)
       /\ SF_vars((\E d \in dialing : d.peer = p /\ DialSucceeds(d)) /\ Alone)

FairSpec == Spec /\ Fairness

-----------------------------------------------------------------------------
ConnectionManagerTypeOK ==
  /\ DialerTypeOK
  /\ started \in BOOLEAN /\ online \in BOOLEAN /\ isNetworkConnected \in BOOLEAN
  /\ known \subseteq Peers /\ locked \subseteq connected
  /\ pingKeepAliveTimers \subseteq Peers
  /\ storeReads \in 0 .. MaxReads
  /\ rounds \in [Rounds ->
       [phase : {"idle", "counted", "dialing", "dropping", "reading", "trimming"},
        room : 0 .. MaxConnections, peers : SUBSET Peers]]

\* Pings go to connected peers only, and a stopped manager pings nobody,
\* whatever connections open and close around start and stop
\* (KeepAliveManager, onPeerConnect, onPeerDisconnect, stop).
PingsFollowConnections ==
  /\ pingKeepAliveTimers \subseteq connected
  /\ ~started => pingKeepAliveTimers = {}

\* A queued peer is dialed, as long as the manager runs: no overlap of calls,
\* batches and restarts leaves the queue behind a lock nobody releases
\* (processQueue).
QueuedAreDialed ==
  \A p \in Peers : p \in Queued ~> p \notin Queued \/ ~started

\* p has a place among the first maxConnections peers of the store.
Preferred(p) ==
  p \in known /\ Cardinality({q \in known : Priority[q] < Priority[p]}) < MaxConnections

\* A running node without a connection gets one when a peer that answers has a
\* preferred place in the store.  Without that condition it need not: the
\* limiter takes the first peers of its list in every round, those that cool
\* down after a failure included (maintainConnectionsCount, enableAutoRecovery).
NodeReconnects ==
  started /\ online /\ connected = {} /\ (\E p \in Reachable : Preferred(p)) ~>
    connected # {} \/ ~started \/ ~online
=============================================================================
