----------------------------- MODULE WakuMessages -----------------------------
(***************************************************************************)
(* What the layers above the wire make of a message: the kinds of SDS      *)
(* messages, the encoders and decoders of Waku messages, with and without   *)
(* encryption, the hash of a message, and the requests and answers of light *)
(* push. Cryptography is symbolic: a ciphertext is a record of the key, the *)
(* randomness and the clear text, which only the key opens; a hash is the   *)
(* sequence of what is hashed; a signature is the key that made it.         *)
(***************************************************************************)
EXTENDS ProtoWire

CONSTANTS
    Undefined,     \* what a decoder returns for what it cannot decode
    Version1,      \* the version of encrypted messages
    EncodedSize(_, _) \* bytes of what an encoder makes of a payload of that size

\* The version of messages without encryption is 0.
Version0 == Zero

-----------------------------------------------------------------------------
(* SDS messages: packages/sds/src/message_channel/message.ts               *)

HasField(obj, field)      == field \in DOMAIN obj
NonEmpty(obj, field) == HasField(obj, field) /\ obj[field] # Zero

HasTimestamp(obj)         == HasField(obj, "lamportTimestamp")
testContentMessage(obj)   == HasField(obj, "lamportTimestamp") /\ NonEmpty(obj, "content")
testEphemeralMessage(obj) == ~HasField(obj, "lamportTimestamp") /\ NonEmpty(obj, "content")
testSyncMessage(obj)      == HasField(obj, "lamportTimestamp") /\ ~NonEmpty(obj, "content")

Without(obj, fields) == [n \in DOMAIN obj \ fields |-> obj[n]]

\* obj, with these fields in the place of its own or beside them.
With(obj, fields) ==
    [n \in DOMAIN obj \cup DOMAIN fields |->
        IF n \in DOMAIN fields THEN fields[n] ELSE obj[n]]

\* Message.decode: the first kind that fits; a message of none is dropped.
SdsDecode(wire) ==
    LET obj == Decode(SdsMessage, wire)
    IN  CASE testContentMessage(obj)   -> [kind |-> "content", message |-> obj]
          [] testEphemeralMessage(obj) -> [kind |-> "ephemeral",
                                           message |-> Without(obj, {"lamportTimestamp"})]
          [] testSyncMessage(obj)      -> [kind |-> "sync",
                                           message |-> Without(obj, {"content"})]
          [] OTHER                     -> Undefined

-----------------------------------------------------------------------------
(* The envelope of an encrypted payload: packages/message-encryption       *)
(* A payload is a record of its bytes and their number.                    *)

\* computeSizeOfPayloadSizeField: the bytes the size of a payload takes.
SizeFieldLength(size) ==
    CASE size < 256 -> 1 [] size < 256 * 256 -> 2 [] size < 256 * 256 * 256 -> 3 [] OTHER -> 4

\* addPayloadSizeField: the flags hold the length of the size field; preCipher adds
\* whether the envelope is signed, in the third bit, and a padding that is not kept.
addPayloadSizeField(payload) == SizeFieldLength(payload.size)
preCipher(payload, signer) ==
    LET flags == addPayloadSizeField(payload)
    IN  [flags   |-> IF signer # Undefined /\ flags < 4 THEN flags + 4 ELSE flags,
         payload |-> payload, signature |-> signer]

\* postCipher: an envelope whose size field has no length, in the two bits there
\* are for it, is not decoded.
getSizeOfPayloadSizeField(envelope) == envelope.flags % 4
isMessageSigned(envelope) == envelope.flags \div 4 = 1
postCipher(envelope) ==
    IF getSizeOfPayloadSizeField(envelope) = 0 THEN Undefined
    ELSE [payload |-> envelope.payload,
          signer  |-> IF isMessageSigned(envelope) THEN envelope.signature ELSE Undefined]

\* Each encryption takes an initialisation vector or an ephemeral key of its own;
\* the tag of a ciphertext does not fit another key.
Encrypt(scheme, text, key, randomness) ==
    [data |-> [scheme |-> scheme, key |-> key, randomness |-> randomness, text |-> text],
     size |-> text.payload.size]
Decrypt(scheme, cipher, key) ==
    IF cipher.data.scheme = scheme /\ cipher.data.key = key THEN cipher.data.text ELSE Undefined

encryptSymmetric(text, key, randomness)  == Encrypt("symmetric", text, key, randomness)
decryptSymmetric(cipher, key)            == Decrypt("symmetric", cipher, key)
encryptAsymmetric(text, key, randomness) == Encrypt("ecies", text, key, randomness)
decryptAsymmetric(cipher, key)           == Decrypt("ecies", cipher, key)

-----------------------------------------------------------------------------
(* Encoders: version_0.ts, symmetric.ts, ecies.ts                          *)

\* A message without a timestamp gets the time of this call.
protoMessage(encoder, message, payload, version, now) ==
    With([payload      |-> payload,
          version      |-> version,
          contentTopic |-> encoder.contentTopic,
          timestamp    |-> IF HasField(message, "timestamp") THEN message.timestamp ELSE now,
          ephemeral    |-> encoder.ephemeral],
         IF encoder.meta = Undefined THEN <<>> ELSE [meta |-> encoder.meta])

plainToProtoObj(encoder, message, now) ==
    protoMessage(encoder, message, message.payload, Version0, now)

symmetricToProtoObj(encoder, message, now, randomness) ==
    LET prepared == preCipher(message.payload, encoder.signer)
    IN  protoMessage(encoder, message, encryptSymmetric(prepared, encoder.key, randomness),
                     Version1, now)

eciesToProtoObj(encoder, message, now, randomness) ==
    LET prepared == preCipher(message.payload, encoder.signer)
    IN  protoMessage(encoder, message, encryptAsymmetric(prepared, encoder.key, randomness),
                     Version1, now)

toProtoObj(encoder, message, now, randomness) ==
    CASE encoder.scheme = "none"      -> plainToProtoObj(encoder, message, now)
      [] encoder.scheme = "symmetric" -> symmetricToProtoObj(encoder, message, now, randomness)
      [] encoder.scheme = "ecies"     -> eciesToProtoObj(encoder, message, now, randomness)

toWire(encoder, message, now, randomness) ==
    Encode(WakuMessage, toProtoObj(encoder, message, now, randomness))

-----------------------------------------------------------------------------
(* Decoders: what they read of a message, or Undefined                     *)

fromWireToProtoObj(wire) == With([ephemeral |-> Zero], Decode(WakuMessage, wire))

\* Any version but 0 and none is refused.
plainFromProtoObj(proto) ==
    IF NonEmpty(proto, "version") THEN Undefined
    ELSE [payload |-> proto.payload, signer |-> Undefined]

HasVersion1(proto) == HasField(proto, "version") /\ proto.version = Version1

symmetricFromProtoObj(decoder, proto) ==
    LET envelope == decryptSymmetric(proto.payload, decoder.key)
    IN  IF ~HasVersion1(proto) \/ envelope = Undefined THEN Undefined ELSE postCipher(envelope)

eciesFromProtoObj(decoder, proto) ==
    LET envelope == decryptAsymmetric(proto.payload, decoder.key)
    IN  IF ~HasVersion1(proto) \/ envelope = Undefined THEN Undefined ELSE postCipher(envelope)

fromProtoObj(decoder, proto) ==
    CASE decoder.scheme = "none"      -> plainFromProtoObj(proto)
      [] decoder.scheme = "symmetric" -> symmetricFromProtoObj(decoder, proto)
      [] decoder.scheme = "ecies"     -> eciesFromProtoObj(decoder, proto)

\* messageHash: the concatenation of what is not empty. A timestamp of 0 is taken
\* for none.
messageHash(pubsubTopic, proto) ==
    LET field(n) == IF NonEmpty(proto, n) THEN <<proto[n]>> ELSE <<>>
    IN  SelectSeq(<<pubsubTopic>>, LAMBDA t : t # Zero) \o field("payload")
            \o field("contentTopic") \o field("meta") \o field("timestamp")

-----------------------------------------------------------------------------
(* Light push: packages/core/src/lib/light_push                            *)

\* isMessageSizeUnderCap: the size of the message encoded once more, with the other
\* fields and what encryption adds.
MegaByte == 1024 * 1024
isMessageSizeUnderCap(encoder, message) ==
    EncodedSize(encoder, message.payload.size) <= MegaByte

\* createV2Rpc and createV3Rpc; only version 3 gives a message of time 0 a time.
createV2Rpc(id, proto, pubsubTopic) ==
    [requestId |-> id, request |-> [message |-> proto, pubsubTopic |-> pubsubTopic]]
createV3Rpc(id, proto, pubsubTopic, now) ==
    [requestId |-> id, pubsubTopic |-> pubsubTopic,
     message |-> IF NonEmpty(proto, "timestamp") THEN proto
                 ELSE With(proto, [timestamp |-> now])]

\* preparePushMessage: the request on the wire, or the error that is returned.
preparePushMessage(encoder, message, codec, id, now, randomness) ==
    IF message.payload.size = 0 THEN [error |-> "empty payload"]
    ELSE IF ~isMessageSizeUnderCap(encoder, message) THEN [error |-> "size too big"]
    ELSE LET proto == toProtoObj(encoder, message, now, randomness)
         IN  [error |-> Undefined,
              proto |-> IF codec = "v2" THEN proto
                        ELSE createV3Rpc(id, proto, encoder.pubsubTopic, now).message,
              wire  |-> IF codec = "v2"
                        THEN Encode(PushRpc, createV2Rpc(id, proto, encoder.pubsubTopic))
                        ELSE Encode(LightPushRequestV3,
                                    createV3Rpc(id, proto, encoder.pubsubTopic, now))]

AnyV2Response(wire, RlnErrors) ==
    LET rpc == Decode(PushRpc, wire)
    IN  CASE ~HasField(rpc, "response")                       -> "no response"
          [] /\ NonEmpty(rpc.response, "info")
             /\ rpc.response.info \in RlnErrors          -> "rln proof generation"
          [] OTHER                                       -> "success"

\* handleV2Response: an answer may lack its response, or tell of a failed proof.
handleV2Response(wire, RlnErrors) ==
    LET rpc == Decode(PushRpc, wire)
    IN  CASE ~HasField(rpc, "response")                       -> "no response"
          [] /\ NonEmpty(rpc.response, "info")
             /\ rpc.response.info \in RlnErrors          -> "rln proof generation"
          [] rpc.response.isSuccess = Zero               -> "remote peer rejected"
          [] OTHER                                       -> "success"

\* handleV3Response
handleV3Response(wire, SUCCESS) ==
    IF Decode(LightPushResponseV3, wire).statusCode = SUCCESS
    THEN "success" ELSE "remote peer rejected"

\* LightPushCore.send after the stream: no bytes are no response.
handleResponse(wire, codec, SUCCESS, RlnErrors) ==
    IF wire = <<>> THEN "no response"
    ELSE IF codec = "v3" THEN handleV3Response(wire, SUCCESS)
    ELSE handleV2Response(wire, RlnErrors)
=============================================================================
