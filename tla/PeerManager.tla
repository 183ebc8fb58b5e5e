------------------------------ MODULE PeerManager ------------------------------
(***************************************************************************)
(* The PeerManager (sdk/src/peer_manager), which light push, filter and    *)
(* store ask for peers.  getPeers takes its snapshot of the connections,   *)
(* then awaits what is known of each peer, one after the other; peers      *)
(* connect, go, and are locked or unlocked by other calls meanwhile.       *)
(*                                                                         *)
(* Peers are those that speak the protocol and are on the shard: the others *)
(* never qualify.  The order of the snapshot (by ping) is left open.       *)
(***************************************************************************)
EXTENDS Naturals, FiniteSets

CONSTANTS
  Peers,
  Requesters,   \* the callers; each has one call at a time
  NumPeersToUse \* numPeersToUse

ASSUME NumAssumption == NumPeersToUse \in Nat \ {0}

VARIABLES
  connected, \* peers with a connection (libp2p)
  locked,    \* lockedPeers
  resting,   \* unlockedPeers, as long as their 10 seconds last
  lookups    \* [r -> the call of r]

peerVars == <<connected, locked, resting, lookups>>

Lookup(phase, unchecked, usable, renewed) ==
  [phase |-> phase, unchecked |-> unchecked, usable |-> usable,
   renewed |-> renewed]
NoLookup == Lookup("idle", {}, {}, {})

PeerInit ==
  /\ connected = {} /\ locked = {} /\ resting = {}
  /\ lookups = [r \in Requesters |-> NoLookup]

\* getPeers, up to its first await: the snapshot of the connections.
Looking == Lookup("checking", connected, {}, {})

\* renewPeer of p, up to its first await.
Renewing(p) == Lookup("renewing", {}, {}, {p} \intersect connected)

-----------------------------------------------------------------------------
\* The steps of a call.

\* isPeerAvailableForUse, after isPeerOnPubsub has been awaited.
Check(r) ==
  /\ lookups[r].phase = "checking"
  /\ \E p \in lookups[r].unchecked :
       lookups' = [lookups EXCEPT ![r] =
         Lookup("checking", @.unchecked \ {p}, @.usable \union ({p} \ resting), {})]
  /\ UNCHANGED <<connected, locked, resting>>

\* lockPeer. LockKeepingTime forgets to delete the time of the unlocking.
LockKeepingTime(chosen) == locked' = locked \union chosen /\ UNCHANGED resting
Lock(chosen) == locked' = locked \union chosen /\ resting' = resting \ chosen

\* Of the usable peers those that are locked by now come first.
Select(r) ==
  LET usable == lookups[r].usable
      held == usable \intersect locked
      Answer(chosen) ==
        lookups' = [lookups EXCEPT ![r] = Lookup("answered", {}, chosen, {})]
  IN
  /\ lookups[r].phase = "checking" /\ lookups[r].unchecked = {}
  /\ \/ /\ Cardinality(held) >= NumPeersToUse
        /\ \E chosen \in SUBSET held :
             Cardinality(chosen) = NumPeersToUse /\ Answer(chosen)
        /\ UNCHANGED <<locked, resting>>
     \/ /\ Cardinality(held) < NumPeersToUse
        /\ \E chosen \in SUBSET usable :
             /\ held \subseteq chosen /\ Cardinality(chosen) =< NumPeersToUse
             /\ Cardinality(chosen) < NumPeersToUse => chosen = usable
             /\ Answer(chosen) /\ Lock(chosen)
  /\ UNCHANGED connected

\* The rest of renewPeer: unlockPeer and getPeers, or nothing for a peer that
\* was not connected.
Renew(r) ==
  /\ lookups[r].phase = "renewing"
  /\ LET p == lookups[r].renewed IN
     /\ locked' = locked \ p
     /\ resting' = resting \union p
     /\ lookups' = [lookups EXCEPT ![r] =
                      IF p = {} THEN Lookup("answered", {}, {}, {}) ELSE Looking]
  /\ UNCHANGED connected

LookupStep(r) == Check(r) \/ Select(r) \/ Renew(r)

-----------------------------------------------------------------------------
\* Connections and time.

Connect(p) ==
  /\ p \notin connected
  /\ connected' = connected \union {p}
  /\ UNCHANGED <<locked, resting, lookups>>

\* A peer that goes stays locked.
Disconnect(p) ==
  /\ p \in connected
  /\ connected' = connected \ {p}
  /\ UNCHANGED <<locked, resting, lookups>>

\* Ten seconds have passed since p was unlocked.
Rested(p) ==
  /\ p \in resting
  /\ resting' = resting \ {p}
  /\ UNCHANGED <<connected, locked, lookups>>

PeerTypeOK ==
  /\ connected \subseteq Peers /\ locked \subseteq Peers /\ resting \subseteq Peers
  /\ lookups \in [Requesters ->
       [phase: {"idle", "checking", "renewing", "answered"},
        unchecked: SUBSET Peers, usable: SUBSET Peers, renewed: SUBSET Peers]]

\* A peer that is locked for use is never taken for one that was unlocked a
\* moment ago, whatever calls of getPeers and renewPeer run at once: every
\* locked peer that is connected can be used (lockPeer, unlockPeer).
LockedAvailable == locked \intersect resting = {}
=============================================================================
