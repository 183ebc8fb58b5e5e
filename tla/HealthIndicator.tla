--------------------------- MODULE HealthIndicator ----------------------------
(***************************************************************************)
(* The health of a node (sdk/src/health_indicator): some time after a peer  *)
(* was identified or went, the connections are read, the peer of each is    *)
(* looked up in the peer store, and the health is computed of what was      *)
(* found. The lookups are awaited, so that another assessment may begin and *)
(* end meanwhile.                                                          *)
(***************************************************************************)
EXTENDS Naturals, FiniteSets

CONSTANTS
    Links,                       \* connections: a peer, and a number of it
    FilterPeers, LightPushPeers, \* peers whose protocols may be found to name these
    Assessments,                 \* bound: assessments under way at once
    None

ASSUME NoneIsNoSet == \A links \in SUBSET Links : None # links
ASSUME NoneIsNoAssessment == None \notin Assessments

VARIABLES
    connected,     \* getConnections
    health,        \* value
    healthStarted, \* isStarted
    debounced,     \* whether an assessment is to come
    assessed,      \* each assessment: the connections it has read, None if not under way
    newest,        \* the one under way that no other was begun after, or None
    overtaken      \* whether the value was written after that of a newer assessment

healthVars == <<connected, health, healthStarted, debounced, assessed, newest, overtaken>>

HealthInit ==
    /\ connected = {}
    /\ health = "Unhealthy"
    /\ healthStarted = FALSE /\ debounced = FALSE
    /\ assessed = [s \in Assessments |-> None]
    /\ newest = None /\ overtaken = FALSE

StartHealth ==
    /\ healthStarted' = TRUE
    /\ debounced' = (debounced \/ ~healthStarted)
    /\ UNCHANGED <<connected, health, assessed, newest, overtaken>>

\* The lookups of an assessment go on.
StopHealth ==
    /\ healthStarted' = FALSE
    /\ debounced' = (debounced /\ ~healthStarted)
    /\ UNCHANGED <<connected, health, assessed, newest, overtaken>>

-----------------------------------------------------------------------------
\* A connection opens, which is no event for the indicator: its peer is identified
\* later, or was before.
OpenLink(c) ==
    /\ c \notin connected
    /\ connected' = connected \cup {c}
    /\ UNCHANGED <<health, healthStarted, debounced, assessed, newest, overtaken>>

\* onPeerIdentify
PeerIdentified(c) ==
    /\ c \in connected
    /\ healthStarted /\ debounced' = TRUE
    /\ UNCHANGED <<connected, health, healthStarted, assessed, newest, overtaken>>

CloseUnnoticed(c) ==
    /\ c \in connected
    /\ connected' = connected \ {c}
    /\ UNCHANGED <<health, healthStarted, debounced, assessed, newest, overtaken>>

\* A connection closes; the last one of its peer with onPeerDisconnected.
CloseLink(c) ==
    /\ c \in connected
    /\ connected' = connected \ {c}
    /\ debounced' = (debounced \/ (healthStarted /\ \A other \in connected' : other[1] # c[1]))
    /\ UNCHANGED <<health, healthStarted, assessed, newest, overtaken>>

-----------------------------------------------------------------------------
\* The health with these connections, which need not be of different peers; with one
\* of a kind and more of the other it stays as it is.
HealthOf(links, value) ==
    LET filter    == Cardinality({c \in links : c[1] \in FilterPeers})
        lightPush == Cardinality({c \in links : c[1] \in LightPushPeers})
    IN  CASE filter = 0 \/ lightPush = 0   -> "Unhealthy"
          [] filter >= 2 /\ lightPush >= 2 -> "SufficientlyHealthy"
          [] filter = 1 /\ lightPush = 1   -> "MinimallyHealthy"
          [] OTHER                         -> value

\* assessHealth, when 100 ms have passed without an event, up to its await; without
\* a connection there is none.
AssessHealth(s) ==
    /\ debounced /\ assessed[s] = None
    /\ debounced' = FALSE
    /\ IF connected = {}
       THEN /\ health' = "Unhealthy"
            /\ newest' = None /\ overtaken' = FALSE
            /\ UNCHANGED assessed
       ELSE /\ assessed' = [assessed EXCEPT ![s] = connected]
            /\ newest' = s
            /\ UNCHANGED <<health, overtaken>>
    /\ UNCHANGED <<connected, healthStarted>>

\* The lookups have ended. One that failed, and a peer that has not told its
\* protocols yet, count as no peer. The value kept is that of now.
UpdateHealth(s) ==
    /\ assessed[s] # None
    /\ \E found \in SUBSET assessed[s] : health' = HealthOf(found, health)
    /\ assessed' = [assessed EXCEPT ![s] = None]
    /\ newest' = IF s = newest THEN None ELSE newest
    /\ overtaken' = (s # newest)
    /\ UNCHANGED <<connected, healthStarted, debounced>>

HealthNext ==
    \/ StartHealth \/ StopHealth
    \/ \E c \in Links : OpenLink(c) \/ PeerIdentified(c) \/ CloseLink(c)
    \/ \E s \in Assessments : AssessHealth(s) \/ UpdateHealth(s)

HealthSpec == HealthInit /\ [][HealthNext]_healthVars

-----------------------------------------------------------------------------
\* A started indicator that shows a healthy node, with no assessment to come or under
\* way, has a connected peer for filter and one for light push, though each
\* assessment uses connections that an await has made old and peers go at any time
\* between (assessHealth and the listeners, each of which schedules another). Not so
\* when the value was written by an assessment that a newer one had overtaken at its
\* lookups: what it read may be long gone.
HealthyHasPeers ==
    /\ healthStarted /\ ~debounced /\ ~overtaken
    /\ \A s \in Assessments : assessed[s] = None
    /\ health # "Unhealthy"
    => /\ \E c \in connected : c[1] \in FilterPeers
       /\ \E c \in connected : c[1] \in LightPushPeers
=============================================================================
