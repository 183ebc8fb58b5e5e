------------------------------ MODULE ProtoWire ------------------------------
(***************************************************************************)
(* The messages of the protocols as they are on the wire: the encoders     *)
(* and decoders generated into packages/proto/src/generated. Every        *)
(* namespace of those files is the same code over another list of fields,  *)
(* so a message type is a SCHEMA here, the sequence of its fields in the   *)
(* order they are written, and Encode and Decode are written once.         *)
(*                                                                         *)
(* An object is a function on the names of the fields it has: a field that *)
(* is undefined is not in its domain. A wire is the sequence of <<number,   *)
(* value>> pairs; bytes, varints and tags are left out, but everything that *)
(* depends on a field being present, absent, empty, repeated or unknown is *)
(* kept.                                                                   *)
(***************************************************************************)
EXTENDS Arrays, Integers, SequencesExt

\* The value that protobuf does not tell from an absent one: the empty string,
\* no bytes, false, 0 and the enumeration value 0.
CONSTANT Zero

\* A field: "plain" is left out when it has the value Zero and decoded to Zero
\* when it is absent, "optional" is left out when it is undefined, "repeated" is
\* written once per element. of is <<>> for a scalar, else the embedded schema.
Plain(no, name)        == [no |-> no, name |-> name, rule |-> "plain", of |-> <<>>]
Optional(no, name)     == [no |-> no, name |-> name, rule |-> "optional", of |-> <<>>]
Repeated(no, name)     == [no |-> no, name |-> name, rule |-> "repeated", of |-> <<>>]
Embedded(no, name, of) == [no |-> no, name |-> name, rule |-> "optional", of |-> of]
Embeddeds(no, name, of) == [no |-> no, name |-> name, rule |-> "repeated", of |-> of]

-----------------------------------------------------------------------------
(* A message whose embedded messages are values.                           *)

\* The names of the fields of a schema.
FieldNames(schema) == {schema[i].name : i \in DOMAIN schema}

\* The field of a schema with a name.
FieldOf(schema, name) == schema[CHOOSE i \in DOMAIN schema : schema[i].name = name]

EncodeFieldUnlessEmpty(f, obj) ==
    IF f.name \notin DOMAIN obj \/ obj[f.name] = Zero THEN <<>>
    ELSE IF f.rule = "repeated"
    THEN [i \in DOMAIN obj[f.name] |-> <<f.no, obj[f.name][i]>>]
    ELSE <<<<f.no, obj[f.name]>>>>

\* The entries of field f of obj, which may lack fields (encode takes a Partial).
EncodeField(f, obj) ==
    IF f.name \notin DOMAIN obj \/ (f.rule = "plain" /\ obj[f.name] = Zero) THEN <<>>
    ELSE IF f.rule = "repeated"
    THEN [i \in DOMAIN obj[f.name] |-> <<f.no, obj[f.name][i]>>]
    ELSE <<<<f.no, obj[f.name]>>>>

EncodeFields(schema, obj) ==
    LET wire[n \in 0..Len(schema)] ==
          IF n = 0 THEN <<>> ELSE wire[n - 1] \o EncodeField(schema[n], obj)
    IN  wire[Len(schema)]

EntriesOf(wire, f) == At(wire, {i \in DOMAIN wire : wire[i][1] = f.no})

\* A plain field that is absent has its default and a repeated one no element, of
\* several entries of a field the last counts, and an entry with an unknown number
\* is skipped.
DecodeFields(schema, wire) ==
    LET set == {i \in DOMAIN schema : \/ schema[i].rule # "optional"
                                      \/ EntriesOf(wire, schema[i]) # <<>>}
    IN  [n \in {schema[i].name : i \in set} |->
            LET f  == FieldOf(schema, n)
                es == EntriesOf(wire, f)
            IN  IF f.rule = "repeated" THEN [j \in DOMAIN es |-> es[j][2]]
                ELSE IF es = <<>> THEN Zero ELSE es[Len(es)][2]]

\* What obj leaves out has its default.
WithDefaults(schema, obj) ==
    LET always == {schema[i].name : i \in {j \in DOMAIN schema : schema[j].rule # "optional"}}
    IN  [n \in always \cup DOMAIN obj |->
            IF n \in DOMAIN obj THEN obj[n]
            ELSE IF FieldOf(schema, n).rule = "plain" THEN Zero ELSE <<>>]

-----------------------------------------------------------------------------
(* Messages embed messages, four deep at most: Encode1 is encode of a type *)
(* that embeds none, Encode2 of one that embeds such types, and so on.     *)

\* The fields of obj that the schema has, with Of(schema, v) in the place of each
\* embedded v.
WithEmbedded(schema, obj, Of(_, _)) ==
    [n \in DOMAIN obj \cap FieldNames(schema) |->
        LET f == FieldOf(schema, n)
        IN  IF f.of = <<>> THEN obj[n]
            ELSE IF f.rule = "repeated" THEN [i \in DOMAIN obj[n] |-> Of(f.of, obj[n][i])]
            ELSE Of(f.of, obj[n])]

Encode1(schema, obj) == EncodeFields(schema, obj)
Encode2(schema, obj) == EncodeFields(schema, WithEmbedded(schema, obj, Encode1))
Encode3(schema, obj) == EncodeFields(schema, WithEmbedded(schema, obj, Encode2))
Encode(schema, obj)  == EncodeFields(schema, WithEmbedded(schema, obj, Encode3))

Decode1(schema, wire) == DecodeFields(schema, wire)
Decode2(schema, wire) == WithEmbedded(schema, DecodeFields(schema, wire), Decode1)
Decode3(schema, wire) == WithEmbedded(schema, DecodeFields(schema, wire), Decode2)
Decode(schema, wire)  == WithEmbedded(schema, DecodeFields(schema, wire), Decode3)

\* The object obj stands for.
Completed1(schema, obj) == WithDefaults(schema, obj)
Completed2(schema, obj) == WithEmbedded(schema, WithDefaults(schema, obj), Completed1)
Completed3(schema, obj) == WithEmbedded(schema, WithDefaults(schema, obj), Completed2)
Completed(schema, obj)  == WithEmbedded(schema, WithDefaults(schema, obj), Completed3)

-----------------------------------------------------------------------------
(* message.ts, the message of the network; the other files carry a copy.   *)

RateLimitProof ==
    << Plain(1, "proof"), Plain(2, "merkleRoot"), Plain(3, "epoch"), Plain(4, "shareX"),
       Plain(5, "shareY"), Plain(6, "nullifier"), Plain(7, "rlnIdentifier") >>

WakuMessage ==
    << Plain(1, "payload"), Plain(2, "contentTopic"), Optional(3, "version"),
       Optional(10, "timestamp"), Optional(11, "meta"),
       Embedded(21, "rateLimitProof", RateLimitProof), Optional(31, "ephemeral") >>

\* topic_only_message.ts: a WakuMessage of which only one field is read.
TopicOnlyMessage == << Plain(2, "contentTopic") >>

-----------------------------------------------------------------------------
(* light_push.ts *)

PushRateLimitProof ==
    << Plain(1, "proof"), Plain(2, "merkleRoot"), Plain(3, "epoch"), Plain(4, "shareX"),
       Plain(5, "shareY"), Plain(6, "nullifier"), Plain(7, "rlnIdentifier") >>

PushWakuMessage ==
    << Plain(1, "payload"), Plain(2, "contentTopic"), Optional(3, "version"),
       Optional(10, "timestamp"), Optional(11, "meta"),
       Embedded(21, "rateLimitProof", PushRateLimitProof), Optional(31, "ephemeral") >>

PushRequest == << Plain(1, "pubsubTopic"), Embedded(2, "message", PushWakuMessage) >>

PushResponse ==
    << Plain(1, "isSuccess"), Optional(2, "info"), Optional(10, "statusCode"),
       Optional(11, "statusDesc"), Optional(12, "relayPeerCount") >>

PushRpc ==
    << Plain(1, "requestId"), Embedded(2, "request", PushRequest),
       Embedded(3, "response", PushResponse) >>

LightPushRequestV3 ==
    << Plain(1, "requestId"), Optional(20, "pubsubTopic"),
       Embedded(21, "message", PushWakuMessage) >>

LightPushResponseV3 ==
    << Plain(1, "requestId"), Plain(10, "statusCode"), Optional(11, "statusDesc"),
       Optional(12, "relayPeerCount") >>

-----------------------------------------------------------------------------
(* filter_v2.ts, and filter.ts of the protocol's first version *)

FilterRateLimitProof ==
    << Plain(1, "proof"), Plain(2, "merkleRoot"), Plain(3, "epoch"), Plain(4, "shareX"),
       Plain(5, "shareY"), Plain(6, "nullifier"), Plain(7, "rlnIdentifier") >>

FilterWakuMessageWithoutMeta ==
    << Plain(1, "payload"), Plain(2, "contentTopic"), Optional(3, "version"),
       Optional(10, "timestamp"),
       Embedded(21, "rateLimitProof", FilterRateLimitProof), Optional(31, "ephemeral") >>

FilterWakuMessage ==
    << Plain(1, "payload"), Plain(2, "contentTopic"), Optional(3, "version"),
       Optional(10, "timestamp"), Optional(11, "meta"),
       Embedded(21, "rateLimitProof", FilterRateLimitProof), Optional(31, "ephemeral") >>

FilterSubscribeRequest ==
    << Plain(1, "requestId"), Plain(2, "filterSubscribeType"), Optional(10, "pubsubTopic"),
       Repeated(11, "contentTopics") >>

FilterSubscribeResponse ==
    << Plain(1, "requestId"), Plain(10, "statusCode"), Optional(11, "statusDesc") >>

MessagePush ==
    << Embedded(1, "wakuMessage", FilterWakuMessage), Optional(2, "pubsubTopic") >>

FilterRequest ==
    << Plain(1, "subscribe"), Plain(2, "topic"),
       Embeddeds(3, "contentFilters", << Plain(1, "contentTopic") >>) >>

RateLimitProofV1 ==
    << Plain(1, "proof"), Plain(2, "merkleRoot"), Plain(3, "epoch"), Plain(4, "shareX"),
       Plain(5, "shareY"), Plain(6, "nullifier"), Plain(7, "rlnIdentifier") >>

WakuMessageV1 ==
    << Plain(1, "payload"), Plain(2, "contentTopic"), Optional(3, "version"),
       Optional(10, "timestamp"), Optional(11, "meta"),
       Embedded(21, "rateLimitProof", RateLimitProofV1), Optional(31, "ephemeral") >>

MessagePushV1 == << Embeddeds(1, "messages", WakuMessageV1) >>

FilterRpc ==
    << Plain(1, "requestId"), Embedded(2, "request", FilterRequest),
       Embedded(3, "push", MessagePushV1) >>

-----------------------------------------------------------------------------
(* store_v3.ts *)

StoreRateLimitProof ==
    << Plain(1, "proof"), Plain(2, "merkleRoot"), Plain(3, "epoch"), Plain(4, "shareX"),
       Plain(5, "shareY"), Plain(6, "nullifier"), Plain(7, "rlnIdentifier") >>

StoreWakuMessage ==
    << Plain(1, "payload"), Plain(2, "contentTopic"), Optional(3, "version"),
       Optional(10, "timestamp"), Optional(11, "meta"),
       Embedded(21, "rateLimitProof", StoreRateLimitProof), Optional(31, "ephemeral") >>

WakuMessageKeyValue ==
    << Optional(1, "messageHash"), Embedded(2, "message", StoreWakuMessage),
       Optional(3, "pubsubTopic") >>

StoreQueryRequest ==
    << Plain(1, "requestId"), Plain(2, "includeData"), Optional(10, "pubsubTopic"),
       Repeated(11, "contentTopics"), Optional(12, "timeStart"), Optional(13, "timeEnd"),
       Repeated(20, "messageHashes"), Optional(51, "paginationCursor"),
       Plain(52, "paginationForward"), Optional(53, "paginationLimit") >>

StoreQueryResponse ==
    << Plain(1, "requestId"), Optional(10, "statusCode"), Optional(11, "statusDesc"),
       Embeddeds(20, "messages", WakuMessageKeyValue), Optional(51, "paginationCursor") >>

-----------------------------------------------------------------------------
(* metadata.ts, peer_exchange.ts, sds_message.ts *)

WakuMetadataRequest  == << Optional(1, "clusterId"), Repeated(2, "shards") >>
WakuMetadataResponse == << Optional(1, "clusterId"), Repeated(2, "shards") >>

PeerInfo             == << Optional(1, "enr") >>
PeerExchangeQuery    == << Optional(1, "numPeers") >>
PeerExchangeResponse == << Embeddeds(1, "peerInfos", PeerInfo) >>
PeerExchangeRPC ==
    << Embedded(1, "query", PeerExchangeQuery), Embedded(2, "response", PeerExchangeResponse) >>

HistoryEntry ==
    << Plain(1, "messageId"), Optional(2, "retrievalHint"), Optional(3, "senderId") >>

SdsMessage ==
    << Plain(1, "senderId"), Plain(2, "messageId"), Plain(3, "channelId"),
       Optional(10, "lamportTimestamp"), Embeddeds(11, "causalHistory", HistoryEntry),
       Optional(12, "bloomFilter"), Embeddeds(13, "repairRequest", HistoryEntry),
       Optional(20, "content") >>
=============================================================================
