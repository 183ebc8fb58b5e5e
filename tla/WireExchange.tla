----------------------------- MODULE WireExchange -----------------------------
(***************************************************************************)
(* One message of any type of packages/proto goes from one node to another *)
(* that reads it as the same type, as one of its copies in another file,   *)
(* or as a TopicOnlyMessage. The sender may be newer and have fields this   *)
(* version does not know, and other implementations write the fields of a  *)
(* message in another order.                                               *)
(***************************************************************************)
EXTENDS ProtoWire

CONSTANTS
    Scalars,    \* the values of a scalar field, Zero among them
    MaxFields,  \* at most so many fields of a message have a value
    Unknown     \* the number of a field that no schema has

VARIABLES exType, exObject, exWire, exReader, exRead
exVars == <<exType, exObject, exWire, exReader, exRead>>

-----------------------------------------------------------------------------
\* The types of the generated files, by the name of their namespace.
MessageTypes ==
    [WakuMessage |-> WakuMessage, PushWakuMessage |-> PushWakuMessage,
     FilterWakuMessage |-> FilterWakuMessage, StoreWakuMessage |-> StoreWakuMessage,
     WakuMessageV1 |-> WakuMessageV1, RateLimitProof |-> RateLimitProof,
     PushRpc |-> PushRpc, LightPushRequestV3 |-> LightPushRequestV3,
     LightPushResponseV3 |-> LightPushResponseV3,
     FilterSubscribeRequest |-> FilterSubscribeRequest,
     FilterSubscribeResponse |-> FilterSubscribeResponse, MessagePush |-> MessagePush,
     FilterRpc |-> FilterRpc, StoreQueryRequest |-> StoreQueryRequest,
     StoreQueryResponse |-> StoreQueryResponse,
     WakuMetadataRequest |-> WakuMetadataRequest,
     WakuMetadataResponse |-> WakuMetadataResponse, PeerExchangeRPC |-> PeerExchangeRPC,
     HistoryEntry |-> HistoryEntry, SdsMessage |-> SdsMessage]

ASSUME UnknownAssumption ==
    \A t \in DOMAIN MessageTypes : \A i \in DOMAIN MessageTypes[t] :
        MessageTypes[t][i].no # Unknown

Copies == {"WakuMessage", "PushWakuMessage", "FilterWakuMessage", "StoreWakuMessage",
           "WakuMessageV1"}

\* How a message of type t is read by the code that receives it.
Readers(t) ==
    {MessageTypes[t]} \cup
    (IF t \in Copies THEN {MessageTypes[c] : c \in Copies} \cup {TopicOnlyMessage} ELSE {})

\* An embedded message is one with every field or with none.
Filled(schema) ==
    LET value == CHOOSE v \in Scalars \ {Zero} : TRUE
    IN  [n \in {schema[i].name : i \in DOMAIN schema} |->
            IF FieldOf(schema, n).rule = "repeated" THEN <<value>> ELSE value]

Full1(schema, value) == Filled(schema)
Full2(schema, value) == WithEmbedded(schema, Filled(schema), Full1)
Full(schema, value)  == WithEmbedded(schema, Filled(schema), Full2)

FieldValues(f) ==
    LET one == IF f.of = <<>> THEN Scalars ELSE {Full(f.of, Zero), [n \in {} |-> Zero]}
    IN  IF f.rule = "repeated" THEN {<<v, w>> : v, w \in one} ELSE one

Objects(schema) ==
    UNION {{obj \in [{schema[i].name : i \in is} -> UNION {FieldValues(schema[i]) : i \in is}] :
                \A i \in is : obj[schema[i].name] \in FieldValues(schema[i])} :
           is \in {s \in SUBSET (DOMAIN schema) : Cardinality(s) <= MaxFields}}

-----------------------------------------------------------------------------
ExInit ==
    /\ exType = Zero
    /\ exObject = Zero
    /\ exWire = Zero
    /\ exReader = <<>>
    /\ exRead = Zero

\* The sender encodes a message.
Write ==
    /\ exWire = Zero
    /\ \E t \in DOMAIN MessageTypes : \E obj \in Objects(MessageTypes[t]) :
          /\ exType' = t
          /\ exObject' = obj
          /\ exWire' = Encode(MessageTypes[t], obj)
    /\ UNCHANGED <<exReader, exRead>>

\* A newer sender has one more field, anywhere.
WriteUnknown ==
    /\ exWire # Zero /\ exRead = Zero
    /\ \A i \in DOMAIN exWire : exWire[i][1] # Unknown
    /\ \E i \in 1..Len(exWire) + 1 : exWire' = InsertAt(exWire, i, <<Unknown, Zero>>)
    /\ UNCHANGED <<exType, exObject, exReader, exRead>>

\* Another implementation writes its fields from the last to the first.
WriteReversed ==
    /\ exWire # Zero /\ exRead = Zero
    /\ \A i, j \in DOMAIN exWire : i # j => exWire[i][1] # exWire[j][1]
    /\ exWire' = Reverse(exWire)
    /\ UNCHANGED <<exType, exObject, exReader, exRead>>

\* The receiver decodes it, as a type that reads it.
Read ==
    /\ exWire # Zero /\ exRead = Zero
    /\ \E r \in Readers(exType) :
          /\ exReader' = r
          /\ exRead' = Decode(r, exWire)
    /\ UNCHANGED <<exType, exObject, exWire>>

ExNext == Write \/ WriteUnknown \/ WriteReversed \/ Read

ExSpec == ExInit /\ [][ExNext]_exVars

-----------------------------------------------------------------------------
\* Whoever reads a message has every field it knows with the value the sender
\* gave it, the ones the sender left out with their default, and no other
\* field: a field that is absent, one that is empty and one that is unknown are
\* never taken for each other, whichever of the copies of WakuMessage wrote the
\* message and whichever reads it (the encode and decode of every namespace of
\* packages/proto/src/generated).
NothingLost ==
    exRead # Zero =>
        LET known == {exReader[i].name : i \in DOMAIN exReader}
            sent  == Completed(MessageTypes[exType], exObject)
        IN  /\ DOMAIN exRead = DOMAIN sent \cap known
            /\ \A n \in DOMAIN exRead : exRead[n] = sent[n]
=============================================================================
