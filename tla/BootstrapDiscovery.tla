-------------------------- MODULE BootstrapDiscovery --------------------------
(***************************************************************************)
(* The first peers of a node (discovery/src/dns and peer-cache):            *)
(* PeerDiscoveryDns walks trees of DNS records, PeerCacheDiscovery reads a  *)
(* cache of former peers, and both tag what they find in one peer store.    *)
(* The connection limiter stops and starts both whenever it knows no peer:  *)
(* what an earlier start began may still be under way.                      *)
(***************************************************************************)
EXTENDS Naturals, FiniteSets

CONSTANTS
    Trees,       \* domains of enrUrls
    TxtRecords,  \* [subdomain -> its record], see below
    FormerPeers, \* peers of the cache at the beginning
    Walks,       \* walks under way at once (a bound)
    MaxGet, MaxErrors, \* maxGet, maxErrors of fetchNodes
    MaxTriggers, \* bound on the starts
    Nobody       \* no peer

\* A record is [type: "root", "branch", "record" or "other", next: the subdomains
\* it names, node, waku2, dialable]. A root whose signature is wrong, or a record
\* that cannot be decoded, is one of another type. A record is dialable when it has
\* a peerInfo: a peer id and addresses.
Subdomains == DOMAIN TxtRecords
EnrPeers   == {TxtRecords[s].node : s \in Subdomains} \ {Nobody}

ASSUME WalksAssumption ==
    /\ Trees \subseteq Subdomains
    /\ \A s \in Subdomains : TxtRecords[s].next \subseteq Subdomains
    \* Roots that name each other would be descended without end.
    /\ \A s \in Subdomains : TxtRecords[s].type = "root" =>
          \A t \in TxtRecords[s].next : TxtRecords[t].type # "root"
    /\ MaxGet \in Nat \ {0} /\ MaxErrors \in Nat \ {0}

VARIABLES
    dnsStarted,   \* _started
    resolved,     \* _DNSTreeCache: subdomains whose record is known
    walks,        \* [Walks -> a call of findPeers]
    cacheStarted, \* isStarted of the peer cache
    hearing,      \* whether it listens to peer:identify
    formerPeers,  \* the cache
    loads,        \* calls of discoverPeers: sets of what each has still to look at
    tags,         \* the peer store: [peer -> tags], {} for a peer it has not
    triggers      \* how many starts

bootstrapVars == <<dnsStarted, resolved, walks, cacheStarted, hearing, formerPeers, loads,
                   tags, triggers>>

\* visits: subdomains of this tree that were resolved; seen: nodes it has given.
Walk(doing, tree, left, at, visits, searches, errors, seen, peer) ==
    [doing |-> doing, tree |-> tree, left |-> left, at |-> at, visits |-> visits,
     searches |-> searches, errors |-> errors, seen |-> seen, peer |-> peer]
NoWalk == Walk("nothing", Nobody, {}, Nobody, {}, 0, 0, {}, Nobody)

BootstrapInit ==
    /\ dnsStarted = FALSE /\ resolved = {}
    /\ walks = [w \in Walks |-> NoWalk]
    /\ cacheStarted = FALSE /\ hearing = FALSE /\ formerPeers = FormerPeers
    /\ loads = {}
    /\ tags = [p \in EnrPeers \cup FormerPeers |-> {}]
    /\ triggers = 0

-----------------------------------------------------------------------------
\* getNextPeer takes the trees in any order, each with a context of its own.
NextTree(left) ==
    IF left = {} THEN {NoWalk}
    ELSE {Walk("search", t, left \ {t}, t, {}, 1, 0, {}, Nobody) : t \in left}

\* fetchNodes begins another search, or ends with this tree.
NextSearch(walk) ==
    IF walk.searches < MaxGet /\ walk.errors < MaxErrors
    THEN {[walk EXCEPT !.doing = "search", !.at = walk.tree, !.searches = @ + 1, !.peer = Nobody]}
    ELSE NextTree(walk.left)
FailedSearch(walk) == NextSearch([walk EXCEPT !.errors = @ + 1])

\* selectRandomPath: none that was resolved in this walk. AnyPath takes them all.
AnyPath(walk, branches) == branches
selectRandomPath(walk, branches) == branches \ walk.visits

\* A node: fetchNodes gives it once, and findPeers ends when it is stopped.
Found(walk, record) ==
    LET given == [walk EXCEPT !.seen = @ \cup {record.node}]
    IN  IF record.node \in walk.seen \/ ~record.waku2 THEN NextSearch(given)
        ELSE IF ~dnsStarted THEN {NoWalk}
        ELSE IF ~record.dialable THEN NextSearch(given)
        ELSE {[given EXCEPT !.doing = "has", !.peer = record.node]}

\* _search goes on with the record of a subdomain.
Searched(walk, record) ==
    CASE record.type = "root"   -> {[walk EXCEPT !.at = s] : s \in record.next}
      [] record.type = "branch" ->
             IF selectRandomPath(walk, record.next) = {} THEN FailedSearch(walk)
             ELSE {[walk EXCEPT !.at = s] : s \in selectRandomPath(walk, record.next)}
      [] record.type = "record" -> Found(walk, record)
      [] record.type = "other"  -> FailedSearch(walk)

\* _getTXTRecord: a record that is known does not fail.
ResolveRecord(w) ==
    LET walk == walks[w] IN
    /\ walk.doing = "search"
    /\ \/ /\ walk.at \notin resolved
          /\ \E next \in FailedSearch(walk) : walks' = [walks EXCEPT ![w] = next]
          /\ UNCHANGED resolved
       \/ /\ resolved' = resolved \cup {walk.at}
          /\ \E next \in Searched([walk EXCEPT !.visits = @ \cup {walk.at}], TxtRecords[walk.at]) :
                walks' = [walks EXCEPT ![w] = next]
    /\ UNCHANGED <<dnsStarted, cacheStarted, hearing, formerPeers, loads, tags, triggers>>

-----------------------------------------------------------------------------
\* findPeers with a peer: the peer store is asked whether it has the peer, then
\* for its tags, and told.
HasPeer(w) ==
    /\ walks[w].doing = "has"
    /\ walks' = [walks EXCEPT ![w].doing = IF tags[walks[w].peer] = {} THEN "save" ELSE "get"]
    /\ UNCHANGED <<dnsStarted, resolved, cacheStarted, hearing, formerPeers, loads, tags, triggers>>

GetPeer(w) ==
    LET walk == walks[w] IN
    /\ walk.doing = "get"
    /\ \E next \in IF "bootstrap" \in tags[walk.peer] THEN NextSearch(walk)
                   ELSE {[walk EXCEPT !.doing = "merge"]} :
          walks' = [walks EXCEPT ![w] = next]
    /\ UNCHANGED <<dnsStarted, resolved, cacheStarted, hearing, formerPeers, loads, tags, triggers>>

\* merge adds the tag, save replaces what the peer store has.
TellPeer(w) ==
    LET walk == walks[w] IN
    /\ walk.doing \in {"merge", "save"}
    /\ tags' = [tags EXCEPT ![walk.peer] =
                  IF walk.doing = "merge" THEN @ \cup {"bootstrap"} ELSE {"bootstrap"}]
    /\ \E next \in NextSearch(walk) : walks' = [walks EXCEPT ![w] = next]
    /\ UNCHANGED <<dnsStarted, resolved, cacheStarted, hearing, formerPeers, loads, triggers>>

WalkSteps == \E w \in Walks : ResolveRecord(w) \/ HasPeer(w) \/ GetPeer(w) \/ TellPeer(w)

-----------------------------------------------------------------------------
\* triggerBootstrap, and the start of the node: each is stopped and started. A
\* walk under way goes on as if it had not been stopped; the peer cache is not
\* stopped while its own start is under way.
StartDns(w) ==
    /\ triggers < MaxTriggers /\ walks[w] = NoWalk
    /\ dnsStarted' = TRUE
    /\ \E next \in NextTree(Trees) : walks' = [walks EXCEPT ![w] = next]
    /\ triggers' = triggers + 1
    /\ UNCHANGED <<resolved, cacheStarted, hearing, formerPeers, loads, tags>>

StopDns ==
    /\ dnsStarted
    /\ dnsStarted' = FALSE
    /\ UNCHANGED <<resolved, walks, cacheStarted, hearing, formerPeers, loads, tags, triggers>>

StartCache ==
    /\ triggers < MaxTriggers /\ ~cacheStarted
    /\ hearing' = TRUE
    /\ loads' = loads \cup {[id |-> triggers, left |-> formerPeers, unknown |-> {}]}
    /\ triggers' = triggers + 1
    /\ UNCHANGED <<dnsStarted, resolved, walks, cacheStarted, formerPeers, tags>>

StopCache ==
    /\ cacheStarted
    /\ cacheStarted' = FALSE /\ hearing' = FALSE
    /\ UNCHANGED <<dnsStarted, resolved, walks, formerPeers, loads, tags, triggers>>

\* discoverPeers: a peer that the peer store had not when it was asked is saved.
Load(load) ==
    /\ load \in loads
    /\ \/ \E p \in load.left :
             /\ load.unknown = {}
             /\ loads' = (loads \ {load}) \cup
                   {[load EXCEPT !.left = @ \ {p}, !.unknown = IF tags[p] = {} THEN {p} ELSE {}]}
             /\ UNCHANGED <<tags, cacheStarted>>
       \/ \E p \in load.unknown :
             /\ loads' = (loads \ {load}) \cup {[load EXCEPT !.unknown = {}]}
             /\ tags' = [tags EXCEPT ![p] = {"peer-cache"}]
             /\ UNCHANGED cacheStarted
       \/ /\ load.left = {} /\ load.unknown = {}
          /\ loads' = loads \ {load}
          /\ cacheStarted' = TRUE
          /\ UNCHANGED tags
    /\ UNCHANGED <<dnsStarted, resolved, walks, hearing, formerPeers, triggers>>

\* handleDiscoveredPeer
Identified(p) ==
    /\ hearing
    /\ formerPeers' = formerPeers \cup {p}
    /\ UNCHANGED <<dnsStarted, resolved, walks, cacheStarted, hearing, loads, tags, triggers>>

BootstrapNext ==
    \/ WalkSteps
    \/ \E w \in Walks : StartDns(w)
    \/ StopDns \/ StartCache \/ StopCache
    \/ \E load \in loads : Load(load)
    \/ \E p \in EnrPeers : Identified(p)

BootstrapSpec == BootstrapInit /\ [][BootstrapNext]_bootstrapVars
                   /\ WF_bootstrapVars(WalkSteps)

-----------------------------------------------------------------------------
\* All walks end when no more are begun (MaxTriggers bounds the starts), whatever cycles the branches of a tree
\* make, which records cannot be resolved, and whatever other walks have resolved
\* before (fetchNodes, _search, selectRandomPath).
WalksEnd == (\E w \in Walks : walks[w] # NoWalk) ~> (\A w \in Walks : walks[w] = NoWalk)

\* What a walk has tagged keeps its tag. The peer cache, which asks the peer store
\* before and saves after, takes it away.
BootstrapTagKept ==
    [][\A p \in EnrPeers : "bootstrap" \in tags[p] => "bootstrap" \in tags'[p]]_tags
=============================================================================
