------------------------------- MODULE Metadata -------------------------------
(***************************************************************************)
(* The metadata service (core/src/lib/metadata): peers tell each other their *)
(* cluster and shards. What a peer told is kept as bytes in the peer store  *)
(* (utils/src/common/relay_shard_codec.ts), then in a map. The discoveries  *)
(* (discovery/src/dns, discovery/src/peer-exchange) keep what the record of *)
(* a peer says in the same place of the peer store, which the shard reader  *)
(* of the connection manager decodes.                                      *)
(***************************************************************************)
EXTENDS Naturals, Sequences, FiniteSets, SequencesExt

CONSTANTS
    ShardPeers, \* remote peers
    ShardInfos, \* what each may tell: a cluster, or NoInfo, and a sequence of shards
    RecordInfos, \* what its record may say
    NoInfo,     \* undefined
    Words,      \* 2^16
    ListLimit,  \* 64: so many shards are written as a bit vector
    VectorBits  \* 1024

ASSUME ShardsAssumption ==
    /\ Words \in Nat \ {0} /\ VectorBits \in Nat /\ VectorBits =< Words
    /\ NoInfo \notin Nat
    /\ \A p \in ShardPeers : \A info \in ShardInfos[p] \cup RecordInfos[p] :
          info # NoInfo /\ info.clusterId \in Nat \cup {NoInfo} /\ info.shards \in Seq(Nat)

VARIABLES
    handshakesConfirmed, \* handshakesConfirmed, NoInfo for a peer without an entry
    shardInfoBytes,      \* the metadata "shardInfo" of the peer store, or NoInfo
    saving,              \* answers in the peer store, and not in the map yet: <<peer, info>>
    looking,             \* discoveries that found no shards of a peer: <<discovery, peer>>
    written,             \* the info that was written to the peer store last, or NoInfo
    told                 \* infos of each peer that savePeerShardInfo has written to it

metadataVars == <<handshakesConfirmed, shardInfoBytes, saving, looking, written, told>>

MetadataInit ==
    /\ handshakesConfirmed = [p \in ShardPeers |-> NoInfo]
    /\ shardInfoBytes = [p \in ShardPeers |-> NoInfo]
    /\ saving = {} /\ looking = {}
    /\ written = [p \in ShardPeers |-> NoInfo]
    /\ told = [p \in ShardPeers |-> {}]

-----------------------------------------------------------------------------
\* setUint16
Word(n) == IF n = NoInfo THEN 0 ELSE n % Words

InVector(info) == Len(info.shards) >= ListLimit

\* setUint8 throws for a bit that is not in the vector.
EncodeThrows(info) == InVector(info) /\ \E s \in Range(info.shards) : s >= VectorBits

\* The length of the bytes tells the formats apart: a list has an odd number.
encodeRelayShard(info) ==
    IF InVector(info)
    THEN [format |-> "rsv", cluster |-> Word(info.clusterId), bits |-> Range(info.shards)]
    ELSE [format |-> "rs", cluster |-> Word(info.clusterId),
          indices |-> [i \in DOMAIN info.shards |-> Word(info.shards[i])]]

\* That bytes are kept is not undefined.
ASSUME BytesAssumption ==
    \A p \in ShardPeers : \A info \in ShardInfos[p] \cup RecordInfos[p] :
        encodeRelayShard(info) # NoInfo

\* The loop over the bits of the vector, up to a bit. Whoever reads the shards asks
\* whether one is among them, so that they are a set here.
BitsBelow(bytes, bound) == {b \in bytes.bits : b < bound}

DecodeShort(bytes) ==
    [clusterId |-> bytes.cluster,
     shards |-> IF bytes.format = "rs" THEN Range(bytes.indices)
                ELSE BitsBelow(bytes, VectorBits - 1)]

decodeRelayShard(bytes) ==
    [clusterId |-> bytes.cluster,
     shards |-> IF bytes.format = "rs" THEN Range(bytes.indices)
                ELSE BitsBelow(bytes, VectorBits)]

-----------------------------------------------------------------------------
PutShardInfo(p, info) ==
    /\ shardInfoBytes' = [shardInfoBytes EXCEPT ![p] = IF info = NoInfo THEN NoInfo
                                                      ELSE encodeRelayShard(info)]
    /\ written' = [written EXCEPT ![p] = info]

ConfirmedFirst(p, info) ==
    /\ ~EncodeThrows(info)
    /\ handshakesConfirmed' = [handshakesConfirmed EXCEPT ![p] = info]
    /\ UNCHANGED <<shardInfoBytes, saving, looking, written, told>>

\* query and onRequest, when the other has told, up to the await of savePeerShardInfo.
\* An error of the encoding or of the peer store comes before anything is kept.
savePeerShardInfo(p, info) ==
    /\ ~EncodeThrows(info)
    /\ PutShardInfo(p, info)
    /\ told' = [told EXCEPT ![p] = @ \cup {info}]
    /\ saving' = saving \cup {<<p, info>>}
    /\ UNCHANGED <<handshakesConfirmed, looking>>

\* The rest of it. Another answer of the peer may have been saved meanwhile.
ConfirmHandshake(s) ==
    /\ handshakesConfirmed' = [handshakesConfirmed EXCEPT ![s[1]] = s[2]]
    /\ saving' = saving \ {s}
    /\ UNCHANGED <<shardInfoBytes, looking, written, told>>

-----------------------------------------------------------------------------
\* A discovery looks for a peer: DNS whether it is in the peer store at all, and peer
\* exchange whether its shards are.
LookUp(discovery, p) ==
    /\ shardInfoBytes[p] = NoInfo
    /\ looking' = looking \cup {<<discovery, p>>}
    /\ UNCHANGED <<handshakesConfirmed, shardInfoBytes, saving, written, told>>

\* Both write what they have not found, whatever was written since. The save of DNS
\* replaces all of the peer, with a record that names no shards too; peer exchange
\* merges, and then leaves them.
WriteRecord(l, info) ==
    /\ l \in looking
    /\ looking' = looking \ {l}
    /\ IF IF info = NoInfo THEN l[1] = "dns" ELSE ~EncodeThrows(info)
       THEN PutShardInfo(l[2], info)
       ELSE UNCHANGED <<shardInfoBytes, written>>
    /\ UNCHANGED <<handshakesConfirmed, saving, told>>

MetadataNext ==
    \/ \E p \in ShardPeers : \E info \in ShardInfos[p] : savePeerShardInfo(p, info)
    \/ \E s \in saving : ConfirmHandshake(s)
    \/ \E p \in ShardPeers, discovery \in {"dns", "exchange"} : LookUp(discovery, p)
    \/ \E p \in ShardPeers, discovery \in {"dns", "exchange"} :
          \E info \in RecordInfos[p] \cup {NoInfo} : WriteRecord(<<discovery, p>>, info)

MetadataSpec == MetadataInit /\ [][MetadataNext]_metadataVars

-----------------------------------------------------------------------------
\* getRelayShards, isPeerOnCluster and isPeerOnShard of the shard reader
isPeerOnShard(p, clusterId, shard) ==
    /\ shardInfoBytes[p] # NoInfo
    /\ LET info == decodeRelayShard(shardInfoBytes[p])
       IN  info.clusterId = clusterId /\ shard \in info.shards

-----------------------------------------------------------------------------
\* The shard reader finds a peer on exactly the shards that were written to the peer
\* store last, in their cluster, in whichever of the two formats, whoever wrote them
\* (savePeerShardInfo, the discoveries, encodeRelayShard, decodeRelayShard): a cluster
\* that was left out is taken for cluster 0, and only the low bits of a number are
\* kept. And a handshake is confirmed only with an answer that the peer store was
\* given before, which a failing peer store does not get; of two answers that are
\* saved at once, or of an answer and a record, the store may keep the other.
OnStoredShards ==
    \A p \in ShardPeers :
        /\ \A clusterId \in 0..Words, shard \in 0..Words :
              isPeerOnShard(p, clusterId, shard) <=>
                LET info == written[p]
                IN  /\ info # NoInfo
                    /\ clusterId = IF info.clusterId = NoInfo THEN 0 ELSE info.clusterId % Words
                    /\ \E i \in DOMAIN info.shards : info.shards[i] % Words = shard
        /\ handshakesConfirmed[p] # NoInfo => handshakesConfirmed[p] \in told[p]
=============================================================================
