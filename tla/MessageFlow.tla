----------------------------- MODULE MessageFlow ------------------------------
(***************************************************************************)
(* A message on its way through the layers: wrapped by SDS, encoded and     *)
(* perhaps encrypted, pushed to a service node over light push or published *)
(* by relay, and read from a filter push, a store answer or relay.          *)
(*                                                                         *)
(* The service node is not part of this repository: it decodes a request,   *)
(* relays its message unchanged or refuses it, and answers.                *)
(***************************************************************************)
EXTENDS WakuMessages

CONSTANTS
    SdsMessages,  \* messages of the application, as SDS messages with their size
    Encoders,     \* records of scheme, key, signer, meta, topics and ephemeral
    Decoders,     \* records of scheme, key and contentTopic
    SUCCESS,      \* LightPushStatusCode.SUCCESS
    REJECTED,     \* another status code
    RlnErrors,    \* answers that tell of a failed proof
    MaxMessages, MaxEncodings, MaxClock

\* The encoders of version 0 sign nothing.
ASSUME SchemesAssumption ==
    /\ \A e \in Encoders : /\ e.scheme \in {"none", "symmetric", "ecies"}
                           /\ e.scheme = "none" => e.signer = Undefined
    /\ \A d \in Decoders : d.scheme \in {"none", "symmetric", "ecies"}

ASSUME ValuesAssumption ==
    /\ Version1 # Zero /\ SUCCESS \notin {REJECTED, Zero}
    /\ Undefined \notin {"empty payload", "size too big"}

\* An SDS message is of one kind. What a channel pushes has a content that is not
\* empty, as pushOutgoingMessage refuses an empty one, or is a sync message with a
\* Lamport timestamp. (An ephemeral message with an empty content would be of no
\* kind, and its reader drops it.)
IsObject(schema, obj) ==
    /\ obj = [n \in DOMAIN obj |-> obj[n]]
    /\ DOMAIN obj \subseteq {schema[i].name : i \in DOMAIN schema}

ASSUME SdsMessagesAssumption ==
    \A m \in SdsMessages :
        /\ m.size \in Nat
        /\ IsObject(SdsMessage, m.sds)
        /\ \A n \in {"causalHistory", "repairRequest"} \cap DOMAIN m.sds :
              /\ Len(m.sds[n]) \in Nat
              /\ m.sds[n] = [i \in 1..Len(m.sds[n]) |-> m.sds[n][i]]
              /\ \A i \in 1..Len(m.sds[n]) : IsObject(HistoryEntry, m.sds[n][i])
        /\ IF HasField(m.sds, "content") THEN m.sds.content # Zero
           ELSE HasField(m.sds, "lamportTimestamp")

VARIABLES
    clock,        \* the clock, in milliseconds
    encodings,    \* how often toProtoObj was called: each takes fresh randomness
    handed,       \* messages handed to be sent, with the hint that was recorded
    network,      \* messages that were relayed, each with what its sender encoded
    seen          \* what was last reported of a push, or read by a receiver

flowVars == <<clock, encodings, handed, network, seen>>

-----------------------------------------------------------------------------
FlowInit ==
    /\ clock = 1 /\ encodings = 0
    /\ handed = <<>> /\ network = <<>>
    /\ seen = Undefined

ClockTick ==
    /\ clock < MaxClock
    /\ clock' = clock + 1
    /\ UNCHANGED <<encodings, handed, network, seen>>

\* The payload of an SDS message.
Wrapped(m) == [payload |-> [data |-> Encode(SdsMessage, m.sds), size |-> m.size]]

\* Encoding adds to a payload, and never takes from it.
ASSUME EncodedSizeAssumption ==
    \A m \in SdsMessages, e \in Encoders :
        EncodedSize(e, m.size) \in Nat /\ EncodedSize(e, m.size) >= m.size

\* Undefined is neither an envelope nor what a decoder makes of one.
ASSUME UndefinedAssumption ==
    \A m \in SdsMessages, e \in Encoders :
        /\ preCipher(Wrapped(m).payload, e.signer) # Undefined
        /\ [payload |-> Wrapped(m).payload, signer |-> e.signer] # Undefined

\* _wrapAndSend of the reliable channel: the message is encoded to compute its
\* hash, the retrieval hint, and handed without a timestamp to be sent.
WrapAndSend(m, encoder) ==
    /\ Len(handed) < MaxMessages
    /\ encodings' = encodings + 1
    /\ LET proto == toProtoObj(encoder, Wrapped(m), clock, encodings)
       IN  handed' = Append(handed,
             [sds |-> m.sds, message |-> Wrapped(m), encoder |-> encoder,
              hint |-> messageHash(encoder.pubsubTopic, proto)])
    /\ UNCHANGED <<clock, network, seen>>

\* An application sends a message with a timestamp of its own.
SendWithTimestamp(m, encoder, timestamp) ==
    /\ Len(handed) < MaxMessages
    /\ handed' = Append(handed,
          [sds |-> m.sds, message |-> With(Wrapped(m), [timestamp |-> timestamp]),
           encoder |-> encoder, hint |-> Undefined])
    /\ UNCHANGED <<clock, encodings, network, seen>>

-----------------------------------------------------------------------------
\* What a service node may answer to a request that it accepted or refused; the
\* answer may be lost.
AnswersV2(accepted) ==
    {<<>>, Encode(PushRpc, [requestId |-> "id"])} \cup
    (IF accepted THEN {Encode(PushRpc, [requestId |-> "id", response |-> [isSuccess |-> "true"]])}
     ELSE {Encode(PushRpc, [requestId |-> "id", response |-> [isSuccess |-> Zero, info |-> i]]) :
              i \in RlnErrors \cup {"other"}})
AnswersV3(accepted) ==
    {<<>>} \cup
    (IF accepted THEN {Encode(LightPushResponseV3, [statusCode |-> SUCCESS, relayPeerCount |-> Zero])}
     ELSE {Encode(LightPushResponseV3, [statusCode |-> c, statusDesc |-> "refused"]) :
              c \in {REJECTED, Zero}})

\* The pubsub topic and the message of a request, as the service node reads it.
ServedRequest(wire, codec) ==
    LET v2 == Decode(PushRpc, wire).request
        v3 == Decode(LightPushRequestV3, wire)
    IN  IF codec = "v2" THEN [pubsubTopic |-> v2.pubsubTopic, message |-> v2.message]
        ELSE [pubsubTopic |-> v3.pubsubTopic, message |-> v3.message]

Reported(accepted, reported) == [via |-> "push", accepted |-> accepted, reported |-> reported]

\* The size is checked on an encoding of its own, the message is then encoded.
PushMessage(i, codec, accepted) ==
    /\ encodings + 2 <= MaxEncodings
    /\ encodings' = encodings + 2
    /\ LET o    == handed[i]
           prep == preparePushMessage(o.encoder, o.message, codec, "id", clock, encodings + 1)
       IN  IF prep.error # Undefined
           THEN /\ ~accepted
                /\ seen' = Reported(FALSE, prep.error)
                /\ UNCHANGED network
           ELSE LET served == ServedRequest(prep.wire, codec)
                IN  /\ network' = IF ~accepted THEN network
                          ELSE Append(network,
                                 [pubsubTopic |-> served.pubsubTopic, of |-> i,
                                  proto |-> prep.proto,
                                  wire |-> Encode(WakuMessage, served.message)])
                    /\ \E a \in IF codec = "v2" THEN AnswersV2(accepted) ELSE AnswersV3(accepted) :
                          seen' = Reported(accepted, handleResponse(a, codec, SUCCESS, RlnErrors))
    /\ UNCHANGED <<clock, handed>>

\* Relay.send, of a message that is not too big and that the validators of the
\* other nodes accept.
messageValidator(wire) ==
    LET proto == Decode(WakuMessage, wire)
    IN  NonEmpty(proto, "contentTopic") /\ NonEmpty(proto, "payload")

Publish(i) ==
    /\ encodings + 1 <= MaxEncodings
    /\ encodings' = encodings + 1
    /\ LET o    == handed[i]
           wire == toWire(o.encoder, o.message, clock, encodings)
       IN  /\ isMessageSizeUnderCap(o.encoder, o.message)
           /\ messageValidator(wire)
           /\ network' = Append(network,
                 [pubsubTopic |-> o.encoder.pubsubTopic, of |-> i, wire |-> wire,
                  proto |-> toProtoObj(o.encoder, o.message, clock, encodings)])
    /\ UNCHANGED <<clock, handed, seen>>

-----------------------------------------------------------------------------
\* The SDS message in what a decoder returned.
Unwrapped(decoded) == IF decoded = Undefined THEN Undefined ELSE SdsDecode(decoded.payload.data)
Signer(decoded)    == IF decoded = Undefined THEN Undefined ELSE decoded.signer

Observed(via, k, decoder, decoded, hash) ==
    [via |-> via, k |-> k, decoder |-> decoder, sds |-> Unwrapped(decoded),
     signer |-> Signer(decoded), hash |-> hash]

\* A filter push: the callback is called with whatever the decoder returns. The
\* hash is the one that tells messages already received.
ReceiveByFilter(k, decoder) ==
    LET push  == Decode(MessagePush, Encode(MessagePush,
                    [wakuMessage |-> Decode(WakuMessage, network[k].wire),
                     pubsubTopic |-> network[k].pubsubTopic]))
        proto == push.wakuMessage
    IN  /\ HasField(push, "wakuMessage") /\ NonEmpty(push, "pubsubTopic")
        /\ proto.contentTopic = decoder.contentTopic
        /\ seen' = Observed("filter", k, decoder, fromProtoObj(decoder, proto),
                            messageHash(push.pubsubTopic, proto))

\* An answer of a store: a message without a decoder for its topic is left out,
\* and so is what the decoder cannot decode.
ReceiveByStore(k, decoder) ==
    LET response == Decode(StoreQueryResponse, Encode(StoreQueryResponse,
                       [statusCode |-> SUCCESS,
                        messages |-> <<[messageHash |-> "hash",
                                        pubsubTopic |-> network[k].pubsubTopic,
                                        message |-> Decode(WakuMessage, network[k].wire)]>>]))
        proto    == response.messages[1].message
        decoded  == fromProtoObj(decoder, proto)
    IN  /\ proto.contentTopic = decoder.contentTopic
        /\ decoded # Undefined
        /\ seen' = Observed("store", k, decoder, decoded,
                            messageHash(response.messages[1].pubsubTopic, proto))

\* processIncomingMessage of relay: the topic is read first, alone.
ReceiveByRelay(k, decoder) ==
    LET proto   == fromWireToProtoObj(network[k].wire)
        decoded == fromProtoObj(decoder, proto)
    IN  /\ Decode(TopicOnlyMessage, network[k].wire).contentTopic = decoder.contentTopic
        /\ decoded # Undefined
        /\ seen' = Observed("relay", k, decoder, decoded,
                            messageHash(network[k].pubsubTopic, proto))

Receive ==
    /\ \E k \in DOMAIN network, decoder \in Decoders :
          \/ ReceiveByFilter(k, decoder)
          \/ ReceiveByStore(k, decoder)
          \/ ReceiveByRelay(k, decoder)
    /\ UNCHANGED <<clock, encodings, handed, network>>

FlowNext ==
    \/ ClockTick
    \/ \E m \in SdsMessages, encoder \in Encoders :
          \/ WrapAndSend(m, encoder)
          \/ SendWithTimestamp(m, encoder, Zero)
    \/ \E i \in DOMAIN handed :
          \/ \E codec \in {"v2", "v3"}, accepted \in BOOLEAN : PushMessage(i, codec, accepted)
          \/ Publish(i)
    \/ Receive

FlowSpec == FlowInit /\ [][FlowNext]_flowVars

-----------------------------------------------------------------------------
\* The kind of SDS message that has the fields of sds: what its sender made.
KindOf(sds) ==
    IF ~HasField(sds, "content") THEN "sync"
    ELSE IF HasField(sds, "lamportTimestamp") THEN "content" ELSE "ephemeral"

Fits(decoder, encoder) ==
    /\ decoder.scheme = encoder.scheme
    /\ decoder.scheme # "none" => decoder.key = encoder.key

\* A decoder that fits the encoder of a message gives the SDS message that was
\* sent, as the kind it was, with its signer; any other decoder gives nothing:
\* neither the version of another scheme nor another key is mistaken for its own,
\* over light push of both versions, relay, filter and store (Message.decode,
\* toProtoObj and fromProtoObj of the three encoders and decoders).
WhatIsSentIsReceived ==
    seen # Undefined /\ seen.via # "push" =>
        LET o == handed[network[seen.k].of]
        IN  IF Fits(seen.decoder, o.encoder)
            THEN /\ seen.sds = [kind |-> KindOf(o.sds), message |-> Completed(SdsMessage, o.sds)]
                 /\ seen.signer = o.encoder.signer
            ELSE seen.sds = Undefined

\* The hash of a message is the same wherever it is computed: for the sender's
\* object, for the filter's set of received messages, for the message of a store
\* and of relay. So duplicates are found, and what is asked by hash is found
\* (messageHash, over what each of the codecs keeps of a message).
HashesAgree ==
    seen # Undefined /\ seen.via # "push" =>
        seen.hash = messageHash(network[seen.k].pubsubTopic, network[seen.k].proto)

\* A push is reported a success only when the service node accepted it, however
\* its answer was encoded, shortened or lost (handleV2Response and
\* handleV3Response).
SuccessMeansAccepted ==
    seen # Undefined /\ seen.via = "push" /\ seen.reported = "success" => seen.accepted

\* The retrieval hint of a message is the hash of a message that was sent for it
\* (reliable_channel.ts:384-385, "Encoding now to fail early, used later to get
\* message hash"). The code computes it of an encoding that is not the one sent.
HintIsHash ==
    \A i \in DOMAIN handed :
        LET sent == {k \in DOMAIN network : network[k].of = i}
        IN  handed[i].hint # Undefined /\ sent # {} =>
                \E k \in sent :
                    handed[i].hint = messageHash(network[k].pubsubTopic, network[k].proto)
=============================================================================
