------------------------------ MODULE RemotePeers ------------------------------
(***************************************************************************)
(* waitForRemotePeer (sdk/src/waku/wait_for_remote_peer.ts): a node waits    *)
(* until it has peers for its protocols. It listens to the peers that are   *)
(* identified from then on and, when it has connections already and does    *)
(* not wait for relay, looks through these; whichever ends first. Peers are *)
(* confirmed by a handshake of the metadata service, of which it matters    *)
(* here that it was confirmed (Metadata has what it keeps).                 *)
(***************************************************************************)
EXTENDS Naturals, FiniteSets

CONSTANTS
    Nodes,    \* remote peers
    Unset,    \* undefined
    CodecsOf, \* the codecs that each node speaks
    Mounted,  \* protocols of the node that waits
    Waits     \* the sets of protocols it may wait for

ASSUME UnsetIsNoSet == \A nodes \in SUBSET Nodes : nodes # Unset

VARIABLES
    confirmed,    \* peers with an entry in handshakesConfirmed
    peers,        \* each node: "away", "connected" or "identified"
    protocolsOf,  \* nodes whose protocols have come to the peer store
    waiting,      \* the call: "no", "yes", "thrown", "resolved" or "rejected"
    wanted,       \* its protocols
    listening,    \* codecs with a listener to identify events
    fulfilled,    \* codecs and "relay" whose promise has been resolved
    handshaking,  \* calls of confirmOrAttemptHandshake under way
    unchecked,    \* peers waitForMetadata has yet to look at, Unset without it
    enabledCodes, \* codecs it has confirmed
    identified    \* codecs of the nodes identified since the wait began

remotePeersVars == <<confirmed, peers, protocolsOf, waiting, wanted, listening, fulfilled,
                     handshaking, unchecked, enabledCodes, identified>>

\* protocolToCodec; relay has no codec here, and waits for its mesh.
Codecs(protocol) ==
    CASE protocol = "store"     -> {"store"}
      [] protocol = "filter"    -> {"filter"}
      [] protocol = "lightPush" -> {"lightPush", "lightPushV2"}
      [] OTHER                  -> {}
mapProtocolsToCodecs(protocols) == UNION {Codecs(q) : q \in protocols}

RemotePeersInit ==
    /\ confirmed = {}
    /\ peers = [p \in Nodes |-> "away"] /\ protocolsOf = {}
    /\ waiting = "no" /\ wanted = {}
    /\ listening = {} /\ fulfilled = {} /\ handshaking = {}
    /\ unchecked = Unset /\ enabledCodes = {}
    /\ identified = {}

-----------------------------------------------------------------------------
waitForRemotePeer(protocols) ==
    LET asked == IF protocols = {} THEN Mounted ELSE protocols
        found == {p \in Nodes : peers[p] # "away"}
    IN  /\ waiting = "no"
        /\ IF asked \subseteq Mounted
           THEN /\ waiting' = "yes" /\ wanted' = asked
                /\ listening' = mapProtocolsToCodecs(asked)
                /\ unchecked' = IF found # {} /\ "relay" \notin asked THEN found ELSE Unset
           ELSE waiting' = "thrown" /\ UNCHANGED <<wanted, listening, unchecked>>
        /\ UNCHANGED <<confirmed, peers, protocolsOf, fulfilled, handshaking, enabledCodes,
                       identified>>

Fulfils(protocol) == IF protocol = "relay" THEN "relay" \in fulfilled
                     ELSE Codecs(protocol) \cap fulfilled # {}

\* waitForProtocols
AnyFulfilled == \E q \in wanted : Fulfils(q)
AllFulfilled == \A q \in wanted : Fulfils(q)

\* waitForMetadata has looked at every peer, or confirmed every codec.
MetadataDone ==
    /\ unchecked # Unset
    /\ \A h \in handshaking : h.for # "metadata"
    /\ unchecked = {} \/ mapProtocolsToCodecs(wanted) \subseteq enabledCodes

Resolve ==
    /\ waiting = "yes"
    /\ AllFulfilled \/ MetadataDone
    /\ waiting' = "resolved"
    /\ UNCHANGED <<confirmed, peers, protocolsOf, wanted, listening, fulfilled, handshaking,
                   unchecked, enabledCodes, identified>>

\* rejectOnTimeout: what was begun goes on.
RejectOnTimeout ==
    /\ waiting = "yes"
    /\ waiting' = "rejected"
    /\ UNCHANGED <<confirmed, peers, protocolsOf, wanted, listening, fulfilled, handshaking,
                   unchecked, enabledCodes, identified>>

-----------------------------------------------------------------------------
Handshake(for, p) == [for |-> for, peer |-> p, known |-> p \in confirmed]

NodeConnected(p) ==
    /\ peers[p] = "away"
    /\ peers' = [peers EXCEPT ![p] = "connected"]
    /\ UNCHANGED <<confirmed, protocolsOf, waiting, wanted, listening, fulfilled,
                   handshaking, unchecked, enabledCodes, identified>>

NodeGone(p) ==
    /\ peers[p] # "away"
    /\ peers' = [peers EXCEPT ![p] = "away"]
    /\ UNCHANGED <<confirmed, protocolsOf, waiting, wanted, listening, fulfilled,
                   handshaking, unchecked, enabledCodes, identified>>

\* peer:identify, with the listeners of waitForConnectedPeer
NodeIdentified(p) ==
    /\ peers[p] = "connected"
    /\ peers' = [peers EXCEPT ![p] = "identified"]
    /\ protocolsOf' = protocolsOf \cup {p}
    /\ handshaking' = handshaking \cup {Handshake(c, p) : c \in listening \cap CodecsOf[p]}
    /\ identified' = IF waiting = "no" THEN {} ELSE identified \cup CodecsOf[p]
    /\ UNCHANGED <<confirmed, waiting, wanted, listening, fulfilled, unchecked, enabledCodes>>

\* waitForMetadata goes on to a peer, unless it has none of the codecs, or the peer
\* store has lost it: a discovery may save it anew, without its protocols.
CheckPeer(p) ==
    /\ unchecked # Unset /\ ~MetadataDone
    /\ p \in unchecked /\ \A h \in handshaking : h.for # "metadata"
    /\ unchecked' = unchecked \ {p}
    /\ \/ UNCHANGED handshaking
       \/ /\ p \in protocolsOf /\ CodecsOf[p] \cap mapProtocolsToCodecs(wanted) # {}
          /\ handshaking' = handshaking \cup {Handshake("metadata", p)}
    /\ UNCHANGED <<confirmed, peers, protocolsOf, waiting, wanted, listening, fulfilled,
                   enabledCodes, identified>>

\* A handshake returns, with an error or without one. The listener does not look at
\* the error.
Returned(h, error) ==
    /\ handshaking' = handshaking \ {h}
    /\ IF h.for = "metadata"
       THEN /\ enabledCodes' = IF error THEN enabledCodes ELSE enabledCodes \cup CodecsOf[h.peer]
            /\ UNCHANGED <<listening, fulfilled>>
       ELSE /\ listening' = listening \ {h.for}
            /\ fulfilled' = fulfilled \cup {h.for}
            /\ UNCHANGED enabledCodes

Threw(h) == handshaking' = handshaking \ {h} /\ UNCHANGED <<listening, fulfilled, enabledCodes>>

\* confirmOrAttemptHandshake ends: with what is known, with an answer of the peer that
\* was kept, without a stream, or with the error of a connection that closes or of an
\* answer that cannot be kept.
HandshakeEnds(h) ==
    /\ \/ h.known /\ Returned(h, FALSE) /\ UNCHANGED confirmed
       \/ ~h.known /\ Returned(h, FALSE) /\ confirmed' = confirmed \cup {h.peer}
       \/ ~h.known /\ Returned(h, TRUE) /\ UNCHANGED confirmed
       \/ ~h.known /\ Threw(h) /\ UNCHANGED confirmed
    /\ UNCHANGED <<peers, protocolsOf, waiting, wanted, unchecked, identified>>

\* A peer has asked, and what it told was kept.
PeerAsked(p) ==
    /\ peers[p] # "away"
    /\ confirmed' = confirmed \cup {p}
    /\ UNCHANGED <<peers, protocolsOf, waiting, wanted, listening, fulfilled, handshaking,
                   unchecked, enabledCodes, identified>>

\* waitForPeers of relay: a peer is in the mesh.
MeshReady ==
    /\ waiting # "no" /\ "relay" \in wanted
    /\ fulfilled' = fulfilled \cup {"relay"}
    /\ UNCHANGED <<confirmed, peers, protocolsOf, waiting, wanted, listening, handshaking,
                   unchecked, enabledCodes, identified>>

RemotePeersNext ==
    \/ \E protocols \in Waits : waitForRemotePeer(protocols)
    \/ Resolve \/ RejectOnTimeout \/ MeshReady
    \/ \E p \in Nodes : NodeConnected(p) \/ NodeGone(p) \/ NodeIdentified(p) \/ CheckPeer(p)
                            \/ PeerAsked(p)
    \/ \E h \in handshaking : HandshakeEnds(h)

RemotePeersSpec == RemotePeersInit /\ [][RemotePeersNext]_remotePeersVars

-----------------------------------------------------------------------------
Served(protocol, codecs) == protocol = "relay" \/ Codecs(protocol) \cap codecs # {}

\* A wait that cannot look through connections ends only when every one of its
\* protocols has been served: by a node that was identified since it began and whose
\* handshake returned, or by the mesh (waitForProtocols, waitForConnectedPeer).
ResolvedByEvents ==
    waiting = "resolved" /\ unchecked = Unset =>
        /\ \A q \in wanted : Served(q, identified)
        /\ "relay" \in wanted => "relay" \in fulfilled

\* What the documentation promises: "A promise that **resolves** if all desired
\* protocols are fulfilled by remote nodes" (wait_for_remote_peer.ts:30). The look
\* through the connections ends without an error when it has found nothing.
ResolvedMeansServed ==
    waiting = "resolved" =>
        \A q \in wanted : Served(q, UNION {CodecsOf[p] : p \in protocolsOf})
=============================================================================
