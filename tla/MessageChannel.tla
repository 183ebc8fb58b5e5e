---------------------------- MODULE MessageChannel ----------------------------
(***************************************************************************)
(* The Scalable Data Sync channel (sds/src/message_channel): participants  *)
(* of one channel, each a MessageChannel object, exchanging content, sync  *)
(* and ephemeral messages over a transport that may lose, duplicate, delay *)
(* and reorder them.                                                       *)
(*                                                                         *)
(* A payload stands for its own message id (the id is the payload's hash), *)
(* the bloom filter for the set of ids inserted in it (FalsePositives are  *)
(* the ids every lookup hits), and the local history, an array kept sorted *)
(* by (timestamp, id) without repeated ids, for the set of its messages.   *)
(* Messages of another channel leave no trace and are not represented.     *)
(***************************************************************************)
EXTENDS RepairBuffers

CONSTANTS
  Participants,
  Payloads,              \* payloads of content messages = their ids
  EphemeralPayloads,     \* payloads of ephemeral messages = their ids
  Authors,               \* [Payloads -> participants whose user may send it]
  IdRank,                \* [Payloads -> Nat], the string order of the ids
  CausalHistorySize,     \* options.causalHistorySize
  PossibleAcksThreshold, \* options.possibleAcksThreshold
  LostTimeout,           \* options.timeoutForLostMessagesMs, 0 when disabled
  EnableRepair,          \* options.enableRepair
  FalsePositives,        \* ids the bloom filters report without insertion
  Outcomes,              \* how a send callback may end: "success", "failure"
  Lossy,                 \* may the transport lose messages
  MaxCalls,              \* bound: sends asked for, by users and by sync timers
  MaxTasks,              \* bound: length of a task queue
  MaxSending,            \* bound: concurrent send callbacks per participant
  MaxTime                \* bound: the clock

ASSUME PayloadAssumption ==
  /\ IdRank \in [Payloads -> Nat]
  /\ \A x, y \in Payloads : IdRank[x] = IdRank[y] => x = y
  /\ Authors \in [Payloads -> SUBSET Participants]
  /\ FalsePositives \subseteq Payloads

\* The random id of a sync message: fresh, so named by its sender and the
\* sender's timestamp, which no other message of the sender carries.
SyncId(p, t) == <<p, t>>

ASSUME SyncIdAssumption == \A x \in Payloads : x \notin Participants \X Nat

ASSUME OptionAssumption ==
  /\ CausalHistorySize \in Nat \ {0}
  /\ PossibleAcksThreshold \in Nat \ {0}
  /\ LostTimeout \in Nat
  /\ EnableRepair \in BOOLEAN
  /\ \A p, q \in Participants, x \in Payloads :
       ReqDelay(p, x) \in Nat /\ RespDelay(p, q, x) \in Nat
  /\ Lossy \in BOOLEAN
  /\ Outcomes \subseteq {"success", "failure"}

VARIABLES
  lamport,        \* [p -> Nat]           lamportTimestamp
  filter,         \* [p -> set of ids]    filter
  outgoingBuffer, \* [p -> set of content messages] outgoingBuffer
  possibleAcks,   \* [p -> [Payloads -> Nat]] possibleAcks, 0 for no entry
  incomingBuffer, \* [p -> set of messages] incomingBuffer
  localHistory,   \* [p -> set of content messages] localHistory
  timeReceived,   \* [p -> function from ids to times] timeReceived
  repair,         \* [p -> repair buffers] repairManager
  tasks,          \* [p -> sequence]      tasks
  sending,        \* [p -> messages whose send callback is awaited]
  announcedLost,  \* [p -> ids announced by InMessageLost]
  sent,           \* messages ever handed to the transport
  inTransit,      \* those the transport can still deliver
  now,            \* Date.now()
  calls           \* the sends asked for so far, for MaxCalls

channelVars == <<lamport, filter, outgoingBuffer, possibleAcks, incomingBuffer,
                 localHistory, timeReceived, repair, announcedLost>>
vars == <<channelVars, tasks, sending, sent, inTransit, now, calls>>

Init ==
  /\ lamport = [p \in Participants |-> 0]
  /\ filter = [p \in Participants |-> {}]
  /\ outgoingBuffer = [p \in Participants |-> {}]
  /\ possibleAcks = [p \in Participants |-> [x \in Payloads |-> 0]]
  /\ incomingBuffer = [p \in Participants |-> {}]
  /\ localHistory = [p \in Participants |-> {}]
  /\ timeReceived = [p \in Participants |-> [i \in {} |-> 0]]
  /\ repair = [p \in Participants |-> EmptyRepair]
  /\ tasks = [p \in Participants |-> <<>>]
  /\ sending = [p \in Participants |-> {}]
  /\ announcedLost = [p \in Participants |-> {}]
  /\ sent = {}
  /\ inTransit = {}
  /\ now = 0
  /\ calls = 0

-----------------------------------------------------------------------------
\* Helpers.

Ids(entries) == {e.id : e \in entries}

IncrementedOnlyByClock(t) == IF now > t THEN now ELSE t

\* lamportTimestampIncrement
Incremented(t) == IF now > t + 1 THEN now ELSE t + 1

\* The order of the local history: timestamp, then message id.
Before(m, n) == \/ m.lamport < n.lamport
                \/ m.lamport = n.lamport /\ IdRank[m.id] < IdRank[n.id]

\* MemLocalHistory.push of one message: of two messages with one id the one
\* that sorts first stays.
Push(history, m) ==
  IF \E h \in history : h.id = m.id
  THEN {IF h.id = m.id /\ Before(m, h) THEN m ELSE h : h \in history}
  ELSE history \cup {m}

\* localHistory.slice(-causalHistorySize), as history entries
CausalHistory(p) ==
  {[id |-> m.id, sender |-> m.sender] :
     m \in {h \in localHistory[p] :
              Cardinality({n \in localHistory[p] : Before(h, n)}) < CausalHistorySize}}

AvailableWhileBuffered(p, id) == \E m \in incomingBuffer[p] : m.id = id

\* isMessageAvailable: delivered, or waiting in the incoming buffer
IsMessageAvailable(p, id) ==
  \E m \in localHistory[p] \cup incomingBuffer[p] : m.id = id

MissingDependencies(p, m) ==
  {d \in m.causalHistory : ~IsMessageAvailable(p, d.id)}

RepairRequests(p) ==
  IF EnableRepair THEN GetRepairRequests(repair[p], now) ELSE <<>>

DeliverKeepingClock(p, messages) ==
  /\ UNCHANGED lamport
  /\ localHistory' = [localHistory EXCEPT ![p] =
       @ \cup {m \in messages : m.kind = "content" /\ m.id \notin Ids(@)}]

\* deliverMessage for every content message of `messages`, none of which
\* changes what is available to another.
Deliver(p, messages) ==
  LET content == {m \in messages : m.kind = "content"}
  IN  /\ \E t \in {lamport[p]} \cup {m.lamport : m \in content} :
           /\ t >= lamport[p]
           /\ \A m \in content : t >= m.lamport
           /\ lamport' = [lamport EXCEPT ![p] = t]
      /\ localHistory' = [localHistory EXCEPT ![p] =
           @ \cup {m \in content : m.id \notin Ids(@)}]

\* reviewAckStatus: what the causal history and the bloom filter of `m` say of
\* the messages in the outgoing buffer.  An acknowledgement by causal history
\* leaves the count of possible acknowledgements as it is.
AckedByHistory(p, m) ==
  {o \in outgoingBuffer[p] : o.id \in Ids(m.causalHistory)}

PossiblyAcked(p, m) ==
  {o \in outgoingBuffer[p] \ AckedByHistory(p, m) :
     o.id \in m.bloom \cup FalsePositives}

AckedByBloom(p, m) ==
  {o \in PossiblyAcked(p, m) : possibleAcks[p][o.id] + 1 >= PossibleAcksThreshold}

ReviewAckStatus(p, m) ==
  /\ outgoingBuffer' = [outgoingBuffer EXCEPT ![p] =
       @ \ (AckedByHistory(p, m) \cup AckedByBloom(p, m))]
  /\ possibleAcks' = [possibleAcks EXCEPT ![p] =
       [x \in Payloads |->
          IF x \in Ids(AckedByBloom(p, m)) THEN 0
          ELSE IF x \in Ids(PossiblyAcked(p, m)) THEN @[x] + 1
          ELSE @[x]]]

SetTime(p, id) == [i \in DOMAIN timeReceived[p] \cup {id} |->
                     IF i = id THEN now ELSE timeReceived[p][i]]

-----------------------------------------------------------------------------
\* Calls of the user and of the transport: they only queue tasks.

Queue(p, task) ==
  /\ Len(tasks[p]) < MaxTasks
  /\ tasks' = [tasks EXCEPT ![p] = Append(@, task)]

Count ==
  /\ calls < MaxCalls
  /\ calls' = calls + 1

\* pushOutgoingMessage: also how a payload is retried, acknowledged or not.
PushOutgoingMessage(p, x) ==
  /\ p \in Authors[x]
  /\ Count
  /\ Queue(p, [command |-> "Send", payload |-> x])
  /\ UNCHANGED <<channelVars, sending, sent, inTransit, now>>

PushOutgoingEphemeralMessage(p, x) ==
  /\ Count
  /\ Queue(p, [command |-> "SendEphemeral", payload |-> x])
  /\ UNCHANGED <<channelVars, sending, sent, inTransit, now>>

\* pushIncomingMessage: the transport may hand over a message again and again,
\* and a participant may hear its own messages.
PushIncomingMessage(p, m) ==
  /\ m \in inTransit
  /\ Queue(p, [command |-> "Receive", message |-> m])
  /\ UNCHANGED <<channelVars, sending, sent, inTransit, now, calls>>

Lose(m) ==
  /\ Lossy
  /\ inTransit' = inTransit \ {m}
  /\ UNCHANGED <<channelVars, tasks, sending, sent, now, calls>>

Transmit(messages) ==
  /\ sent' = sent \cup messages
  /\ inTransit' = inTransit \cup messages

-----------------------------------------------------------------------------
\* processTasks: takes the first task and runs its handler.  A send handler
\* awaits its callback, and other calls of processTasks go on meanwhile.

NextTask(p, command) ==
  /\ tasks[p] # <<>>
  /\ Head(tasks[p]).command = command
  /\ tasks' = [tasks EXCEPT ![p] = Tail(@)]

NewContentMessage(p, x) ==
  [kind |-> "content", id |-> x, sender |-> p,
   causalHistory |-> CausalHistory(p), lamport |-> Incremented(lamport[p]),
   bloom |-> filter[p], repairRequest |-> RepairRequests(p)]

\* _pushOutgoingMessage up to the callback: a payload found in the outgoing
\* buffer is a retry and its message is sent again as it was.
BeginSend(p) ==
  /\ NextTask(p, "Send")
  /\ Cardinality(sending[p]) < MaxSending
  /\ lamport' = [lamport EXCEPT ![p] = Incremented(@)]
  /\ LET x == Head(tasks[p]).payload
         retried == {o \in outgoingBuffer[p] : o.id = x}
         messages == IF retried # {} THEN retried ELSE {NewContentMessage(p, x)}
     IN  /\ outgoingBuffer' = [outgoingBuffer EXCEPT ![p] = @ \cup messages]
         /\ sending' = [sending EXCEPT ![p] = @ \cup messages]
         /\ repair' = IF retried = {} /\ EnableRepair
                      THEN [repair EXCEPT ![p] = MarkRequested(@, now)]
                      ELSE repair
         /\ Transmit(messages)
  /\ UNCHANGED <<filter, possibleAcks, incomingBuffer, localHistory,
                 timeReceived, announcedLost, now, calls>>

\* _pushOutgoingMessage after the callback: a message sent with success joins
\* the filter and the local history, whatever happened to it meanwhile; a
\* failure, returned or thrown, leaves it in the outgoing buffer.
EndSend(p, m, outcome) ==
  /\ m \in sending[p]
  /\ sending' = [sending EXCEPT ![p] = @ \ {m}]
  /\ IF outcome = "success"
     THEN /\ filter' = [filter EXCEPT ![p] = @ \cup {m.id}]
          /\ localHistory' = [localHistory EXCEPT ![p] = Push(@, m)]
          /\ timeReceived' = [timeReceived EXCEPT ![p] = SetTime(p, m.id)]
     ELSE UNCHANGED <<filter, localHistory, timeReceived>>
  /\ UNCHANGED <<lamport, outgoingBuffer, possibleAcks, incomingBuffer, repair,
                 announcedLost, tasks, sent, inTransit, now, calls>>

\* _pushOutgoingEphemeralMessage
SendEphemeral(p) ==
  /\ NextTask(p, "SendEphemeral")
  /\ Transmit({[kind |-> "ephemeral", id |-> Head(tasks[p]).payload, sender |-> p,
                causalHistory |-> {}, lamport |-> 0, bloom |-> {},
                repairRequest |-> <<>>]})
  /\ UNCHANGED <<channelVars, sending, now, calls>>

\* A duplicate is only recognised when its first copy was buffered or sent by
\* this participant: a message delivered at once leaves no timeReceived.
IsDuplicate(p, m) == m.kind # "sync" /\ m.id \in DOMAIN timeReceived[p]

IgnoredButOwn(p, m) == IsDuplicate(p, m) \/ m.kind = "ephemeral"

Ignored(p, m) == IsDuplicate(p, m) \/ m.sender = p \/ m.kind = "ephemeral"

RepairAfterRequests(p, m, missing) ==
  IF ~EnableRepair THEN repair[p]
  ELSE MarkDependenciesMissing(
         ProcessIncomingRepairRequests(repair[p], m.repairRequest,
           Ids(localHistory[p]), p, now),
         missing, p, now)

\* The repair manager's part in the reception of `m`, of whose dependencies those
\* in the sequence `missing` are not available.
RepairAfter(p, m, missing) ==
  IF ~EnableRepair THEN repair[p]
  ELSE LET received == MarkMessageReceived(repair[p], m.id)
           asked == ProcessIncomingRepairRequests(received, m.repairRequest,
                      Ids(localHistory[p]), p, now)
       IN  MarkDependenciesMissing(asked, missing, p, now)

\* _pushIncomingMessage
Receive(p) ==
  /\ NextTask(p, "Receive")
  /\ LET m == Head(tasks[p]).message
         missing == MissingDependencies(p, m)
     IN  IF Ignored(p, m) THEN UNCHANGED channelVars
         ELSE /\ \E order \in SetToSeqs(missing) :
                   repair' = [repair EXCEPT ![p] = RepairAfter(p, m, order)]
              /\ ReviewAckStatus(p, m)
              /\ filter' = [filter EXCEPT ![p] =
                   @ \cup (IF m.kind = "content" THEN {m.id} ELSE {})]
              /\ IF missing # {}
                 THEN /\ incomingBuffer' = [incomingBuffer EXCEPT ![p] = @ \cup {m}]
                      /\ timeReceived' = [timeReceived EXCEPT ![p] = SetTime(p, m.id)]
                      /\ UNCHANGED <<lamport, localHistory>>
                 ELSE /\ Deliver(p, {m})
                      /\ UNCHANGED <<incomingBuffer, timeReceived>>
              /\ UNCHANGED announcedLost
  /\ UNCHANGED <<sending, sent, inTransit, now, calls>>

-----------------------------------------------------------------------------
\* The periodic calls.

SweepSilently(p) ==
  LET ready == {m \in incomingBuffer[p] :
                  \/ MissingDependencies(p, m) = {}
                  \/ /\ LostTimeout # 0
                     /\ m.id \in DOMAIN timeReceived[p]
                     /\ now - timeReceived[p][m.id] > LostTimeout}
  IN  /\ Deliver(p, ready)
      /\ incomingBuffer' = [incomingBuffer EXCEPT ![p] = @ \ ready]
      /\ UNCHANGED <<announcedLost, filter, outgoingBuffer, possibleAcks,
                     timeReceived, repair, tasks, sending, sent, inTransit,
                     now, calls>>

\* sweepIncomingBuffer: the buffer is replaced at the end of the sweep, so its
\* messages count as available to each other all along.
SweepIncomingBuffer(p) ==
  LET buffer == incomingBuffer[p]
      ready == {m \in buffer : MissingDependencies(p, m) = {}}
      expired == {m \in buffer \ ready :
                    /\ LostTimeout # 0
                    /\ m.id \in DOMAIN timeReceived[p]
                    /\ now - timeReceived[p][m.id] > LostTimeout}
  IN  /\ Deliver(p, ready \cup expired)
      /\ incomingBuffer' = [incomingBuffer EXCEPT ![p] = @ \ (ready \cup expired)]
      /\ announcedLost' = [announcedLost EXCEPT ![p] =
           @ \cup UNION {Ids(MissingDependencies(p, m)) : m \in expired}]
      /\ UNCHANGED <<filter, outgoingBuffer, possibleAcks, timeReceived, repair,
                     tasks, sending, sent, inTransit, now, calls>>

\* sweepRepairIncomingBuffer: the messages due are sent again as they are held.
SweepRepairIncomingBuffer(p) ==
  /\ EnableRepair
  /\ Transmit({m \in localHistory[p] : m.id \in ReadyIds(repair[p], now)})
  /\ repair' = [repair EXCEPT ![p] = AfterSweep(@, now)]
  /\ UNCHANGED <<lamport, filter, outgoingBuffer, possibleAcks, incomingBuffer,
                 localHistory, timeReceived, announcedLost, tasks, sending,
                 now, calls>>

\* pushOutgoingSyncMessage: the timestamp advances even when there is nothing
\* to say; the repair requests count as made whether or not the send works.
PushOutgoingSyncMessage(p) ==
  /\ Count
  /\ lamport' = [lamport EXCEPT ![p] = Incremented(@)]
  /\ IF CausalHistory(p) = {} /\ RepairRequests(p) = <<>>
     THEN UNCHANGED <<sent, inTransit>>
     ELSE Transmit({[kind |-> "sync", id |-> SyncId(p, Incremented(lamport[p])),
                     sender |-> p, causalHistory |-> CausalHistory(p),
                     lamport |-> Incremented(lamport[p]), bloom |-> filter[p],
                     repairRequest |-> RepairRequests(p)]})
  /\ repair' = IF EnableRepair
               THEN [repair EXCEPT ![p] = MarkRequested(@, now)] ELSE repair
  /\ UNCHANGED <<filter, outgoingBuffer, possibleAcks, incomingBuffer,
                 localHistory, timeReceived, announcedLost, tasks, sending, now>>

Tick ==
  /\ now < MaxTime
  /\ now' = now + 1
  /\ UNCHANGED <<channelVars, tasks, sending, sent, inTransit, calls>>

ProcessTask(p) == BeginSend(p) \/ SendEphemeral(p) \/ Receive(p)

Next ==
  \/ \E p \in Participants :
       \/ \E x \in Payloads : PushOutgoingMessage(p, x)
       \/ \E x \in EphemeralPayloads : PushOutgoingEphemeralMessage(p, x)
       \/ \E m \in inTransit : PushIncomingMessage(p, m)
       \/ ProcessTask(p)
       \/ \E m \in sending[p], outcome \in Outcomes : EndSend(p, m, outcome)
       \/ SweepIncomingBuffer(p)
       \/ SweepRepairIncomingBuffer(p)
       \/ PushOutgoingSyncMessage(p)
  \/ \E m \in inTransit : Lose(m)
  \/ Tick

Spec == Init /\ [][Next]_vars

\* Tasks are processed and buffers swept periodically, callbacks return, and
\* the transport hands over each message it keeps (a message it hands over when
\* the queue is full is handed over again).
Fairness ==
  \A p \in Participants :
    /\ WF_vars(ProcessTask(p))
    /\ WF_vars(SweepIncomingBuffer(p))
    /\ \A x \in Payloads :
         /\ WF_vars(\E m \in sending[p] : m.id = x /\ EndSend(p, m, "success"))
         /\ SF_vars(\E m \in inTransit : m.id = x /\ PushIncomingMessage(p, m))

FairSpec == Spec /\ Fairness

-----------------------------------------------------------------------------
\* Properties.

Entries == [id : Payloads, sender : Participants]

WellFormed(m) ==
  /\ m.kind \in {"content", "sync", "ephemeral"}
  /\ m.kind = "content" => m.id \in Payloads
  /\ m.kind = "sync" => m.id = SyncId(m.sender, m.lamport)
  /\ m.sender \in Participants
  /\ m.causalHistory \subseteq Entries
  /\ m.lamport \in Nat
  /\ m.bloom \subseteq Payloads

Tasks == [command : {"Send"}, payload : Payloads]
         \cup [command : {"SendEphemeral"}, payload : EphemeralPayloads]
         \cup [command : {"Receive"}, message : sent]

Content(messages) == {m \in messages : m.kind = "content"}

\* Every variable has its type: only what was sent is held or queued, a
\* participant awaits and confirms messages of its own, and no count of
\* possible acknowledgements reaches the threshold.
TypeOK ==
  /\ lamport \in [Participants -> Nat]
  /\ filter \in [Participants -> SUBSET Payloads]
  /\ possibleAcks \in [Participants -> [Payloads -> 0..(PossibleAcksThreshold - 1)]]
  /\ outgoingBuffer \in [Participants -> SUBSET Content(sent)]
  /\ sending \in [Participants -> SUBSET Content(sent)]
  /\ \A p \in Participants : \A m \in outgoingBuffer[p] \cup sending[p] : m.sender = p
  /\ incomingBuffer \in [Participants -> SUBSET {m \in sent : m.kind # "ephemeral"}]
  /\ localHistory \in [Participants -> SUBSET Content(sent)]
  /\ announcedLost \in [Participants -> SUBSET Payloads]
  /\ tasks \in [Participants -> Seq(Tasks)]
  /\ timeReceived = [p \in Participants |-> timeReceived[p]]
  /\ \A p \in Participants : \A i \in DOMAIN timeReceived[p] :
       timeReceived[p][i] \in 0..now
  /\ \A m \in sent : WellFormed(m)
  /\ inTransit \subseteq sent
  /\ now \in Nat
  /\ calls \in Nat

\* A message is delivered only when each of its dependencies is delivered, or
\* received and waiting for dependencies of its own, or was announced as lost:
\* retries, late callbacks, timeouts and sweeps leave no hole that is not announced.
\* The local history is unbounded here, so nothing is said of dependencies that
\* MemLocalHistory has evicted.
HistoryJustified ==
  \A p \in Participants : \A m \in localHistory[p] : \A d \in m.causalHistory :
    IsMessageAvailable(p, d.id) \/ d.id \in announcedLost[p]

\* The Lamport timestamps respect causality across participants: whatever a
\* message names in its causal history was sent before with a smaller stamp.
DependenciesPrecede ==
  \A m \in sent : \A d \in m.causalHistory :
    \E x \in sent : x.id = d.id /\ x.lamport < m.lamport

\* A participant never stamps two messages alike, retries and interleaved
\* sends included: a retried message is the very message sent before.
UniqueTimestamps ==
  \A m, n \in sent :
    /\ m.kind # "ephemeral" /\ n.kind # "ephemeral"
    /\ m.sender = n.sender /\ m.lamport = n.lamport
    => m = n

\* A message leaves the outgoing buffer (is acknowledged) only when another
\* participant has it: the user is never told of a reception that did not occur.
AckedWasReceived ==
  [][\A p \in Participants : \A o \in outgoingBuffer[p] \ outgoingBuffer'[p] :
       \E q \in Participants \ {p} : o.id \in filter[q]]_vars

\* The channel implements the broadcast it promises: what a participant holds
\* is what its filter has, what is pending is its outgoing buffer.
Broadcast == INSTANCE ReliableBroadcast WITH
  published <- {m.id : m \in {n \in sent : n.kind = "content"}},
  pending <- [p \in Participants |-> Ids(outgoingBuffer[p])],
  held <- filter

ImplementsBroadcast == Broadcast!Spec

\* A participant asks for the repair of no message that it has received from
\* another, but of one that names itself among its dependencies (see
\* NoCyclicDependency): however sweeps, retries, late callbacks and the requests of
\* others come between, what is asked for is still missing.
RepairsNotReceived ==
  \A p \in Participants : \A i \in DOMAIN repair[p].out :
    \A m \in localHistory[p] \cup incomingBuffer[p] :
      m.id = repair[p].out[i].entry.id => m.sender = p \/ m.id \in Ids(m.causalHistory)

\* Every published message reaches the local history of every participant.
Dissemination ==
  \A p \in Participants, x \in Payloads :
    (\E m \in sent : m.id = x) ~> (\E m \in localHistory[p] : m.id = x)

-----------------------------------------------------------------------------
\* What a comment of the repository says and the code does not do.

\* "we need to resend the same message to ensure we do not create a cyclic
\* dependency of any sort" (message_channel.ts:658-660): no message depends on
\* itself.
NoCyclicDependency ==
  \A m \in sent : m.id \notin Ids(m.causalHistory)
=============================================================================
