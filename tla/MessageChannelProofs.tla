------------------------ MODULE MessageChannelProofs ------------------------
(***************************************************************************)
(* Theorems about MessageChannel, for every set of participants and        *)
(* payloads, every option and every bound: requests are for what is        *)
(* missing, Lamport timestamps respect causality and are not reused, every *)
(* delivery is justified, and the channel implements ReliableBroadcast.    *)
(***************************************************************************)
EXTENDS MessageChannel, DataProofs

-----------------------------------------------------------------------------
(* Type correctness. *)

\* What was queued stays a task when more messages have been sent.
LEMMA MoreTasks ==
  ASSUME NEW S, NEW T, S \subseteq T, NEW q \in Seq(S)
  PROVE  q \in Seq(T)
  OBVIOUS

LEMMA TypeInit == Init => TypeOK
  BY OptionAssumption DEF Init, TypeOK, Content, Tasks

\* The causal history of a new message names messages of the local history.
LEMMA CausalHistoryFacts ==
  ASSUME TypeOK, NEW p \in Participants
  PROVE  /\ CausalHistory(p) \subseteq Entries
         /\ \A d \in CausalHistory(p) : \E m \in localHistory[p] : d.id = m.id
<1> DEFINE recent == {h \in localHistory[p] :
              Cardinality({n \in localHistory[p] : Before(h, n)}) < CausalHistorySize}
<1>1. CausalHistory(p) = {[id |-> m.id, sender |-> m.sender] : m \in recent}
  BY DEF CausalHistory
<1>2. \A m \in recent : m \in localHistory[p] /\ m.id \in Payloads /\ m.sender \in Participants
  BY DEF TypeOK, Content, WellFormed
<1> HIDE DEF recent
<1> QED
  BY <1>1, <1>2 DEF Entries

LEMMA IncrementedFacts ==
  ASSUME now \in Nat, NEW t \in Nat
  PROVE  Incremented(t) \in Nat /\ Incremented(t) > t
  BY DEF Incremented

LEMMA DeliverFacts ==
  ASSUME TypeOK, NEW p \in Participants, NEW messages \in SUBSET sent,
         Deliver(p, messages)
  PROVE  /\ lamport' \in [Participants -> Nat]
         /\ \A q \in Participants : lamport'[q] >= lamport[q]
         /\ \A m \in Content(messages) : lamport'[p] >= m.lamport
         /\ localHistory' \in [Participants -> SUBSET Content(sent)]
         /\ \A q \in Participants \ {p} : localHistory'[q] = localHistory[q]
         /\ localHistory[p] \subseteq localHistory'[p]
         /\ localHistory'[p] \subseteq localHistory[p] \cup Content(messages)
         /\ \A m \in Content(messages) : m.id \in Ids(localHistory'[p])
<1>1. PICK t \in {lamport[p]} \cup {m.lamport : m \in Content(messages)} :
        /\ t >= lamport[p]
        /\ \A m \in Content(messages) : t >= m.lamport
        /\ lamport' = [lamport EXCEPT ![p] = t]
  BY DEF Deliver, Content
<1>2. t \in Nat
  BY DEF TypeOK, Content, WellFormed
<1>3. localHistory' = [localHistory EXCEPT ![p] =
        @ \cup {m \in Content(messages) : m.id \notin Ids(@)}]
  BY DEF Deliver, Content
<1>4. localHistory'[p] = localHistory[p] \cup
        {m \in Content(messages) : m.id \notin Ids(localHistory[p])}
  BY <1>3 DEF TypeOK
<1>5. \A m \in Content(messages) : m.id \in Ids(localHistory'[p])
  BY <1>4 DEF Ids
<1>6. /\ lamport' \in [Participants -> Nat]
      /\ \A q \in Participants : lamport'[q] >= lamport[q]
      /\ \A m \in Content(messages) : lamport'[p] >= m.lamport
  BY <1>1, <1>2 DEF TypeOK
<1>7. localHistory' \in [Participants -> SUBSET Content(sent)]
  BY <1>3, <1>4 DEF TypeOK, Content
<1> QED
  BY <1>3, <1>4, <1>5, <1>6, <1>7 DEF TypeOK

LEMMA ReviewAckStatusType ==
  ASSUME TypeOK, NEW p \in Participants, NEW m \in sent, ReviewAckStatus(p, m)
  PROVE  /\ outgoingBuffer' \in [Participants -> SUBSET Content(sent)]
         /\ \A q \in Participants : outgoingBuffer'[q] \subseteq outgoingBuffer[q]
         /\ possibleAcks' \in
              [Participants -> [Payloads -> 0..(PossibleAcksThreshold - 1)]]
<1>1. /\ outgoingBuffer' \in [Participants -> SUBSET Content(sent)]
      /\ \A q \in Participants : outgoingBuffer'[q] \subseteq outgoingBuffer[q]
  BY DEF ReviewAckStatus, TypeOK
<1> DEFINE new == [x \in Payloads |->
          IF x \in Ids(AckedByBloom(p, m)) THEN 0
          ELSE IF x \in Ids(PossiblyAcked(p, m)) THEN possibleAcks[p][x] + 1
          ELSE possibleAcks[p][x]]
<1>2. ASSUME NEW x \in Payloads
      PROVE  new[x] \in 0..(PossibleAcksThreshold - 1)
  <2>1. possibleAcks[p][x] \in 0..(PossibleAcksThreshold - 1)
    BY DEF TypeOK
  <2>2. CASE x \in Ids(AckedByBloom(p, m))
    BY <2>2, OptionAssumption
  <2>3. CASE x \notin Ids(AckedByBloom(p, m)) /\ x \in Ids(PossiblyAcked(p, m))
    <3>1. ~(possibleAcks[p][x] + 1 >= PossibleAcksThreshold)
      BY <2>3 DEF AckedByBloom, Ids
    <3> QED
      BY <2>1, <2>3, <3>1, OptionAssumption
  <2>4. CASE x \notin Ids(AckedByBloom(p, m)) /\ x \notin Ids(PossiblyAcked(p, m))
    BY <2>1, <2>4
  <2> QED
    BY <2>2, <2>3, <2>4
<1>3. new \in [Payloads -> 0..(PossibleAcksThreshold - 1)]
  BY <1>2
<1>4. possibleAcks' = [possibleAcks EXCEPT ![p] = new]
  BY DEF ReviewAckStatus, TypeOK
<1> HIDE DEF new
<1>5. possibleAcks' \in [Participants -> [Payloads -> 0..(PossibleAcksThreshold - 1)]]
  BY <1>3, <1>4 DEF TypeOK
<1> QED
  BY <1>1, <1>5

LEMMA SetTimeType ==
  ASSUME TypeOK, NEW p \in Participants, NEW id,
         timeReceived' = [timeReceived EXCEPT ![p] = SetTime(p, id)]
  PROVE  /\ timeReceived' = [q \in Participants |-> timeReceived'[q]]
         /\ \A q \in Participants : \A i \in DOMAIN timeReceived'[q] :
              timeReceived'[q][i] \in 0..now
<1>1. \A i \in DOMAIN SetTime(p, id) : SetTime(p, id)[i] \in 0..now
  BY DEF TypeOK, SetTime
<1>2. timeReceived = [q \in Participants |-> timeReceived[q]]
  BY DEF TypeOK
<1> QED
  BY <1>1, <1>2 DEF TypeOK

\* One lemma per kind of step.

LEMMA TypeQueue ==
  ASSUME TypeOK, NEW p \in Participants, NEW task \in Tasks, Queue(p, task),
         UNCHANGED <<channelVars, sending, sent, inTransit, now>>, calls' \in Nat
  PROVE  TypeOK'
<1>1. tasks' \in [Participants -> Seq(Tasks)]
  BY DEF TypeOK, Queue
<1>2. Tasks' = Tasks
  BY DEF Tasks
<1> QED
  BY <1>1, <1>2 DEF TypeOK, channelVars, Content, WellFormed

\* The task queue after its first task was taken, in a step that may send.
LEMMA TypeNextTask ==
  ASSUME TypeOK, NEW p \in Participants, NEW command, NextTask(p, command),
         sent \subseteq sent'
  PROVE  /\ tasks' \in [Participants -> Seq(Tasks')]
         /\ Head(tasks[p]) \in Tasks
         /\ Head(tasks[p]).command = command
<1>1. tasks' \in [Participants -> Seq(Tasks)] /\ Head(tasks[p]) \in Tasks
  BY DEF TypeOK, NextTask
<1>2. Tasks \subseteq Tasks'
  BY DEF Tasks
<1>3. tasks' \in [Participants -> Seq(Tasks')]
  BY <1>1, <1>2, MoreTasks
<1> QED
  BY <1>1, <1>3 DEF NextTask

LEMMA NewContentMessageFacts ==
  ASSUME TypeOK, NEW p \in Participants, NEW x \in Payloads
  PROVE  LET m == NewContentMessage(p, x)
         IN  /\ WellFormed(m)
             /\ m.kind = "content"
             /\ m.sender = p
             /\ m.id = x
             /\ m.lamport = Incremented(lamport[p])
             /\ m.causalHistory = CausalHistory(p)
             /\ m.bloom = filter[p]
<1>1. Incremented(lamport[p]) \in Nat
  BY IncrementedFacts DEF TypeOK
<1> QED
  BY <1>1, CausalHistoryFacts DEF NewContentMessage, WellFormed, TypeOK

\* What BeginSend hands to the transport: the retried message or a new one.
Outgoing(p, x) == {o \in outgoingBuffer[p] : o.id = x}

MessagesToSend(p, x) ==
  IF Outgoing(p, x) # {} THEN Outgoing(p, x) ELSE {NewContentMessage(p, x)}

LEMMA BeginSendFacts ==
  ASSUME TypeOK, NEW p \in Participants, BeginSend(p)
  PROVE  \E x \in Payloads :
           LET messages == MessagesToSend(p, x)
           IN  /\ lamport' = [lamport EXCEPT ![p] = Incremented(@)]
               /\ outgoingBuffer' = [outgoingBuffer EXCEPT ![p] = @ \cup messages]
               /\ sending' = [sending EXCEPT ![p] = @ \cup messages]
               /\ sent' = sent \cup messages
               /\ inTransit' = inTransit \cup messages
               /\ \A m \in messages : /\ WellFormed(m)
                                      /\ m.kind = "content"
                                      /\ m.sender = p
                                      /\ m.id = x
<1> DEFINE x == Head(tasks[p]).payload
<1>1. x \in Payloads
  <2>1. /\ tasks[p] \in Seq(Tasks)
        /\ tasks[p] # <<>>
        /\ Head(tasks[p]).command = "Send"
    BY DEF TypeOK, BeginSend, NextTask
  <2>2. Head(tasks[p]) \in Tasks
    BY <2>1
  <2> QED
    BY <2>1, <2>2 DEF Tasks
<1>2. /\ lamport' = [lamport EXCEPT ![p] = Incremented(@)]
      /\ outgoingBuffer' = [outgoingBuffer EXCEPT ![p] = @ \cup MessagesToSend(p, x)]
      /\ sending' = [sending EXCEPT ![p] = @ \cup MessagesToSend(p, x)]
      /\ sent' = sent \cup MessagesToSend(p, x)
      /\ inTransit' = inTransit \cup MessagesToSend(p, x)
  BY DEF BeginSend, Transmit, MessagesToSend, Outgoing
<1>3. ASSUME NEW m \in MessagesToSend(p, x)
      PROVE  WellFormed(m) /\ m.kind = "content" /\ m.sender = p /\ m.id = x
  <2>1. CASE Outgoing(p, x) # {}
    BY <1>3, <2>1 DEF MessagesToSend, Outgoing, TypeOK, Content
  <2>2. CASE Outgoing(p, x) = {}
    BY <1>1, <1>3, <2>2, NewContentMessageFacts DEF MessagesToSend
  <2> QED
    BY <2>1, <2>2
<1> QED
  BY <1>1, <1>2, <1>3

LEMMA TypeBeginSend ==
  ASSUME TypeOK, NEW p \in Participants, BeginSend(p)
  PROVE  TypeOK'
<1>1. PICK x \in Payloads :
           LET messages == MessagesToSend(p, x)
           IN  /\ lamport' = [lamport EXCEPT ![p] = Incremented(@)]
               /\ outgoingBuffer' = [outgoingBuffer EXCEPT ![p] = @ \cup messages]
               /\ sending' = [sending EXCEPT ![p] = @ \cup messages]
               /\ sent' = sent \cup messages
               /\ inTransit' = inTransit \cup messages
               /\ \A m \in messages : /\ WellFormed(m)
                                      /\ m.kind = "content"
                                      /\ m.sender = p
                                      /\ m.id = x
  BY BeginSendFacts
<1> DEFINE messages == MessagesToSend(p, x)
<1>2. messages \subseteq Content(sent')
  BY <1>1 DEF Content
<1>3. tasks' \in [Participants -> Seq(Tasks')]
  BY <1>1, TypeNextTask DEF BeginSend
<1>4. Content(sent) \subseteq Content(sent')
  BY <1>1 DEF Content
<1> HIDE DEF messages
<1>5. /\ outgoingBuffer' \in [Participants -> SUBSET Content(sent')]
      /\ sending' \in [Participants -> SUBSET Content(sent')]
      /\ \A q \in Participants : \A m \in outgoingBuffer'[q] \cup sending'[q] : m.sender = q
  BY <1>1, <1>2, <1>4 DEF TypeOK, messages
<1>6. lamport' \in [Participants -> Nat]
  BY <1>1, IncrementedFacts DEF TypeOK
<1>7. /\ filter' = filter /\ possibleAcks' = possibleAcks
      /\ incomingBuffer' = incomingBuffer /\ localHistory' = localHistory
      /\ timeReceived' = timeReceived /\ announcedLost' = announcedLost
      /\ now' = now /\ calls' = calls
  BY DEF BeginSend
<1>8. /\ incomingBuffer' \in [Participants -> SUBSET {m \in sent' : m.kind # "ephemeral"}]
      /\ localHistory' \in [Participants -> SUBSET Content(sent')]
  BY <1>1, <1>4, <1>7 DEF TypeOK
<1>9. /\ \A m \in sent' : WellFormed(m)
      /\ inTransit' \subseteq sent'
  BY <1>1 DEF TypeOK
<1>10. Content(sent)' = Content(sent')
  BY DEF Content
<1>11. \A m : WellFormed(m)' <=> WellFormed(m)
  BY DEF WellFormed
<1> QED
  BY <1>3, <1>5, <1>6, <1>7, <1>8, <1>9, <1>10 DEF TypeOK

\* The steps that send something without touching the local buffers.
LEMMA TypeTransmit ==
  ASSUME TypeOK, NEW p \in Participants, NEW messages, Transmit(messages),
         \A m \in messages : WellFormed(m),
         tasks' \in [Participants -> Seq(Tasks')],
         lamport' \in [Participants -> Nat], calls' \in Nat,
         UNCHANGED <<filter, outgoingBuffer, possibleAcks, incomingBuffer,
                     localHistory, timeReceived, announcedLost, sending, now>>
  PROVE  TypeOK'
<1>1. sent \subseteq sent' /\ inTransit' \subseteq sent'
  BY DEF Transmit, TypeOK
<1>2. \A m \in sent' : WellFormed(m)
  BY DEF Transmit, TypeOK
<1>3. Content(sent) \subseteq Content(sent)'
  BY <1>1 DEF Content
<1>4. /\ outgoingBuffer' \in [Participants -> SUBSET Content(sent)']
      /\ sending' \in [Participants -> SUBSET Content(sent)']
      /\ localHistory' \in [Participants -> SUBSET Content(sent)']
      /\ incomingBuffer' \in [Participants -> SUBSET {m \in sent' : m.kind # "ephemeral"}]
  BY <1>1, <1>3 DEF TypeOK
<1> QED
  BY <1>1, <1>2, <1>4 DEF TypeOK

LEMMA TypeSendEphemeral ==
  ASSUME TypeOK, NEW p \in Participants, SendEphemeral(p)
  PROVE  TypeOK'
<1> DEFINE m == [kind |-> "ephemeral", id |-> Head(tasks[p]).payload, sender |-> p,
                 causalHistory |-> {}, lamport |-> 0, bloom |-> {},
                 repairRequest |-> <<>>]
<1>1. WellFormed(m)
  BY DEF WellFormed
<1>2. Transmit({m})
  BY DEF SendEphemeral
<1> HIDE DEF m
<1>3. tasks' \in [Participants -> Seq(Tasks')]
  BY <1>2, TypeNextTask DEF SendEphemeral, Transmit
<1>4. UNCHANGED <<channelVars, sending, now, calls>>
  BY DEF SendEphemeral
<1>5. lamport' \in [Participants -> Nat] /\ calls' \in Nat
  BY <1>4 DEF TypeOK, channelVars
<1> QED
  BY <1>1, <1>2, <1>3, <1>4, <1>5, TypeTransmit DEF channelVars

\* A sync message, when there is one to send.
SyncMessage(p) ==
  [kind |-> "sync", id |-> SyncId(p, Incremented(lamport[p])),
   sender |-> p, causalHistory |-> CausalHistory(p),
   lamport |-> Incremented(lamport[p]), bloom |-> filter[p],
   repairRequest |-> RepairRequests(p)]

LEMMA SyncMessageFacts ==
  ASSUME TypeOK, NEW p \in Participants
  PROVE  /\ WellFormed(SyncMessage(p))
         /\ SyncMessage(p).kind = "sync"
         /\ SyncMessage(p).sender = p
         /\ SyncMessage(p).lamport = Incremented(lamport[p])
         /\ SyncMessage(p).causalHistory = CausalHistory(p)
         /\ SyncMessage(p).bloom = filter[p]
<1>1. Incremented(lamport[p]) \in Nat
  BY IncrementedFacts DEF TypeOK
<1> QED
  BY <1>1, CausalHistoryFacts DEF SyncMessage, WellFormed, TypeOK

LEMMA SyncFacts ==
  ASSUME TypeOK, NEW p \in Participants, PushOutgoingSyncMessage(p)
  PROVE  /\ Transmit({}) \/ Transmit({SyncMessage(p)})
         /\ lamport' = [lamport EXCEPT ![p] = Incremented(@)]
         /\ UNCHANGED <<filter, outgoingBuffer, possibleAcks, incomingBuffer,
                        localHistory, timeReceived, announcedLost, tasks,
                        sending, now>>
  BY DEF PushOutgoingSyncMessage, SyncMessage, Transmit

LEMMA TypeSync ==
  ASSUME TypeOK, NEW p \in Participants, PushOutgoingSyncMessage(p)
  PROVE  TypeOK'
<1>1. PICK messages \in {{}, {SyncMessage(p)}} : Transmit(messages)
  BY SyncFacts
<1>2. \A m \in messages : WellFormed(m)
  BY <1>1, SyncMessageFacts
<1>3. lamport' \in [Participants -> Nat]
  <2>1. lamport' = [lamport EXCEPT ![p] = Incremented(@)]
    BY SyncFacts
  <2>2. Incremented(lamport[p]) \in Nat
    BY IncrementedFacts DEF TypeOK
  <2> QED
    BY <2>1, <2>2 DEF TypeOK
<1>4. calls' \in Nat
  BY DEF PushOutgoingSyncMessage, Count, TypeOK
<1>5. Tasks \subseteq Tasks'
  BY <1>1 DEF Tasks, Transmit
<1>6. tasks' \in [Participants -> Seq(Tasks')]
  BY <1>5, SyncFacts, MoreTasks DEF TypeOK
<1> QED
  BY <1>1, <1>2, <1>3, <1>4, <1>6, SyncFacts, TypeTransmit

LEMMA TypeSweepRepair ==
  ASSUME TypeOK, NEW p \in Participants, SweepRepairIncomingBuffer(p)
  PROVE  TypeOK'
<1> DEFINE messages == {m \in localHistory[p] : m.id \in ReadyIds(repair[p], now)}
<1>1. Transmit(messages) /\ messages \subseteq sent
  BY DEF SweepRepairIncomingBuffer, TypeOK, Content
<1>2. \A m \in messages : WellFormed(m)
  BY <1>1 DEF TypeOK
<1> HIDE DEF messages
<1>3. UNCHANGED <<lamport, filter, outgoingBuffer, possibleAcks, incomingBuffer,
                 localHistory, timeReceived, announcedLost, tasks, sending,
                 now, calls>>
  BY DEF SweepRepairIncomingBuffer
<1>4. Tasks' = Tasks
  BY <1>1 DEF Tasks, Transmit
<1>5. tasks' \in [Participants -> Seq(Tasks')] /\ lamport' \in [Participants -> Nat]
      /\ calls' \in Nat
  BY <1>3, <1>4 DEF TypeOK
<1> QED
  BY <1>1, <1>2, <1>3, <1>5, TypeTransmit

\* The steps that change the local history: sent and inTransit stay.
LEMMA TypeEndSend ==
  ASSUME TypeOK, NEW p \in Participants, NEW m \in sending[p], NEW outcome \in Outcomes,
         EndSend(p, m, outcome)
  PROVE  TypeOK'
<1>1. m \in Content(sent) /\ m.id \in Payloads
  BY DEF TypeOK, Content, WellFormed
<1>2. Push(localHistory[p], m) \subseteq localHistory[p] \cup {m}
  BY DEF Push
<1>3. /\ filter' \in [Participants -> SUBSET Payloads]
      /\ localHistory' \in [Participants -> SUBSET Content(sent)]
      /\ timeReceived' = [q \in Participants |-> timeReceived'[q]]
      /\ \A q \in Participants : \A i \in DOMAIN timeReceived'[q] :
           timeReceived'[q][i] \in 0..now
  <2>1. CASE outcome = "success"
    <3>1. /\ filter' = [filter EXCEPT ![p] = @ \cup {m.id}]
          /\ localHistory' = [localHistory EXCEPT ![p] = Push(@, m)]
      BY <2>1 DEF EndSend
    <3>2. /\ timeReceived' = [q \in Participants |-> timeReceived'[q]]
          /\ \A q \in Participants : \A i \in DOMAIN timeReceived'[q] :
               timeReceived'[q][i] \in 0..now
      BY <2>1, SetTimeType DEF EndSend
    <3> QED
      BY <1>1, <1>2, <3>1, <3>2 DEF TypeOK
  <2>2. CASE outcome # "success"
    BY <2>2 DEF EndSend, TypeOK
  <2> QED
    BY <2>1, <2>2
<1>4. /\ sending' = [sending EXCEPT ![p] = @ \ {m}]
      /\ UNCHANGED <<lamport, outgoingBuffer, possibleAcks, incomingBuffer,
                     announcedLost, tasks, sent, inTransit, now, calls>>
  BY DEF EndSend
<1>5. Tasks' = Tasks /\ Content(sent)' = Content(sent)
  BY <1>4 DEF Tasks, Content
<1>6. /\ sending' \in [Participants -> SUBSET Content(sent)]
      /\ \A q \in Participants : sending'[q] \subseteq sending[q]
  BY <1>4 DEF TypeOK
<1> QED
  BY <1>3, <1>4, <1>5, <1>6 DEF TypeOK

LEMMA TypeSweep ==
  ASSUME TypeOK, NEW p \in Participants, SweepIncomingBuffer(p)
  PROVE  TypeOK'
<1>1. PICK gone \in SUBSET incomingBuffer[p], lost \in SUBSET incomingBuffer[p] :
        /\ Deliver(p, gone)
        /\ incomingBuffer' = [incomingBuffer EXCEPT ![p] = @ \ gone]
        /\ announcedLost' = [announcedLost EXCEPT ![p] =
             @ \cup UNION {Ids(MissingDependencies(p, m)) : m \in lost}]
  BY DEF SweepIncomingBuffer
<1>2. incomingBuffer[p] \subseteq {m \in sent : m.kind # "ephemeral"}
  BY DEF TypeOK
<1>3. gone \subseteq sent
  BY <1>2
<1>4. UNION {Ids(MissingDependencies(p, m)) : m \in lost} \subseteq Payloads
  BY <1>2 DEF Ids, MissingDependencies, TypeOK, WellFormed, Entries
<1>5. /\ lamport' \in [Participants -> Nat]
      /\ localHistory' \in [Participants -> SUBSET Content(sent)]
  BY <1>1, <1>3, DeliverFacts
<1>6. /\ incomingBuffer' \in [Participants -> SUBSET {m \in sent : m.kind # "ephemeral"}]
      /\ announcedLost' \in [Participants -> SUBSET Payloads]
  BY <1>1, <1>2, <1>4 DEF TypeOK
<1>7. UNCHANGED <<filter, outgoingBuffer, possibleAcks, timeReceived, repair,
                  tasks, sending, sent, inTransit, now, calls>>
  BY DEF SweepIncomingBuffer
<1>8. Tasks' = Tasks /\ Content(sent)' = Content(sent)
  BY <1>7 DEF Tasks, Content
<1> QED
  BY <1>5, <1>6, <1>7, <1>8 DEF TypeOK

\* A reception that is not ignored, split as the handler is.
Accepted(p, m) ==
  LET missing == MissingDependencies(p, m)
  IN  /\ ~Ignored(p, m)
      /\ ReviewAckStatus(p, m)
      /\ filter' = [filter EXCEPT ![p] =
           @ \cup (IF m.kind = "content" THEN {m.id} ELSE {})]
      /\ IF missing # {}
         THEN /\ incomingBuffer' = [incomingBuffer EXCEPT ![p] = @ \cup {m}]
              /\ timeReceived' = [timeReceived EXCEPT ![p] = SetTime(p, m.id)]
              /\ UNCHANGED <<lamport, localHistory>>
         ELSE /\ Deliver(p, {m})
              /\ UNCHANGED <<incomingBuffer, timeReceived>>
      /\ UNCHANGED announcedLost

LEMMA ReceiveFacts ==
  ASSUME TypeOK, NEW p \in Participants, Receive(p)
  PROVE  /\ tasks' \in [Participants -> Seq(Tasks)]
         /\ UNCHANGED <<sending, sent, inTransit, now, calls>>
         /\ \/ UNCHANGED channelVars
            \/ \E m \in sent : Accepted(p, m)
<1>1. UNCHANGED <<sending, sent, inTransit, now, calls>>
  BY DEF Receive
<1>2. Tasks' = Tasks
  BY <1>1 DEF Tasks
<1>3. /\ tasks' \in [Participants -> Seq(Tasks)]
      /\ Head(tasks[p]) \in Tasks
      /\ Head(tasks[p]).command = "Receive"
  BY <1>1, <1>2, TypeNextTask DEF Receive
<1>4. Head(tasks[p]).message \in sent
  BY <1>3 DEF Tasks
<1>5. \/ UNCHANGED channelVars
      \/ Accepted(p, Head(tasks[p]).message)
  BY DEF Receive, Accepted
<1> QED
  BY <1>1, <1>3, <1>4, <1>5

LEMMA TypeReceive ==
  ASSUME TypeOK, NEW p \in Participants, Receive(p)
  PROVE  TypeOK'
<1>1. /\ tasks' \in [Participants -> Seq(Tasks)]
      /\ UNCHANGED <<sending, sent, inTransit, now, calls>>
  BY ReceiveFacts
<1>2. Tasks' = Tasks /\ Content(sent)' = Content(sent)
  BY <1>1 DEF Tasks, Content
<1>3. CASE UNCHANGED channelVars
  BY <1>1, <1>2, <1>3 DEF TypeOK, channelVars
<1>4. ASSUME NEW m \in sent, Accepted(p, m)
      PROVE  TypeOK'
  <2>1. ReviewAckStatus(p, m)
    BY <1>4 DEF Accepted
  <2>2. /\ outgoingBuffer' \in [Participants -> SUBSET Content(sent)]
        /\ \A q \in Participants : outgoingBuffer'[q] \subseteq outgoingBuffer[q]
        /\ possibleAcks' \in
             [Participants -> [Payloads -> 0..(PossibleAcksThreshold - 1)]]
    BY <2>1, ReviewAckStatusType
  <2>3. filter' \in [Participants -> SUBSET Payloads]
    BY <1>4 DEF Accepted, TypeOK, WellFormed
  <2>4. /\ incomingBuffer' \in [Participants -> SUBSET {n \in sent : n.kind # "ephemeral"}]
        /\ timeReceived' = [q \in Participants |-> timeReceived'[q]]
        /\ \A q \in Participants : \A i \in DOMAIN timeReceived'[q] :
             timeReceived'[q][i] \in 0..now
    <3>1. m.kind # "ephemeral"
      BY <1>4 DEF Accepted, Ignored
    <3>2. CASE MissingDependencies(p, m) # {}
      <4>1. /\ incomingBuffer' = [incomingBuffer EXCEPT ![p] = @ \cup {m}]
            /\ timeReceived' = [timeReceived EXCEPT ![p] = SetTime(p, m.id)]
        BY <1>4, <3>2 DEF Accepted
      <4> QED
        BY <3>1, <4>1, SetTimeType DEF TypeOK
    <3>3. CASE MissingDependencies(p, m) = {}
      BY <1>4, <3>3 DEF Accepted, TypeOK
    <3> QED
      BY <3>2, <3>3
  <2>5. /\ lamport' \in [Participants -> Nat]
        /\ localHistory' \in [Participants -> SUBSET Content(sent)]
    <3>1. CASE MissingDependencies(p, m) # {}
      BY <1>4, <3>1 DEF Accepted, TypeOK
    <3>2. CASE MissingDependencies(p, m) = {}
      BY <1>4, <3>2, DeliverFacts DEF Accepted
    <3> QED
      BY <3>1, <3>2
  <2>6. announcedLost' = announcedLost
    BY <1>4 DEF Accepted
  <2> QED
    BY <1>1, <1>2, <2>2, <2>3, <2>4, <2>5, <2>6 DEF TypeOK
<1> QED
  BY <1>3, <1>4, ReceiveFacts

LEMMA TypeStep == TypeOK /\ [Next]_vars => TypeOK'
<1> SUFFICES ASSUME TypeOK, [Next]_vars PROVE TypeOK'
  OBVIOUS
<1>1. ASSUME NEW p \in Participants, NEW x \in Payloads, PushOutgoingMessage(p, x)
      PROVE  TypeOK'
  <2>1. [command |-> "Send", payload |-> x] \in Tasks
    BY DEF Tasks
  <2>2. calls' \in Nat
    BY <1>1 DEF PushOutgoingMessage, Count, TypeOK
  <2> QED
    BY <1>1, <2>1, <2>2, TypeQueue DEF PushOutgoingMessage
<1>2. ASSUME NEW p \in Participants, NEW x \in EphemeralPayloads,
             PushOutgoingEphemeralMessage(p, x)
      PROVE  TypeOK'
  <2>1. [command |-> "SendEphemeral", payload |-> x] \in Tasks
    BY DEF Tasks
  <2>2. calls' \in Nat
    BY <1>2 DEF PushOutgoingEphemeralMessage, Count, TypeOK
  <2> QED
    BY <1>2, <2>1, <2>2, TypeQueue DEF PushOutgoingEphemeralMessage
<1>3. ASSUME NEW p \in Participants, NEW m \in inTransit, PushIncomingMessage(p, m)
      PROVE  TypeOK'
  <2>1. [command |-> "Receive", message |-> m] \in Tasks
    BY <1>3 DEF Tasks, TypeOK
  <2>2. calls' \in Nat
    BY <1>3 DEF PushIncomingMessage, TypeOK
  <2> QED
    BY <1>3, <2>1, <2>2, TypeQueue DEF PushIncomingMessage
<1>4. ASSUME NEW p \in Participants, ProcessTask(p)
      PROVE  TypeOK'
  BY <1>4, TypeBeginSend, TypeSendEphemeral, TypeReceive DEF ProcessTask
<1>5. ASSUME NEW p \in Participants, NEW m \in sending[p], NEW outcome \in Outcomes,
             EndSend(p, m, outcome)
      PROVE  TypeOK'
  BY <1>5, TypeEndSend
<1>6. ASSUME NEW p \in Participants, SweepIncomingBuffer(p)
      PROVE  TypeOK'
  BY <1>6, TypeSweep
<1>7. ASSUME NEW p \in Participants, SweepRepairIncomingBuffer(p)
      PROVE  TypeOK'
  BY <1>7, TypeSweepRepair
<1>8. ASSUME NEW p \in Participants, PushOutgoingSyncMessage(p)
      PROVE  TypeOK'
  BY <1>8, TypeSync
<1>9. ASSUME NEW m \in inTransit, Lose(m)
      PROVE  TypeOK'
  BY <1>9 DEF Lose, TypeOK, channelVars, Content, Tasks, WellFormed
<1>10. CASE Tick
  BY <1>10 DEF Tick, TypeOK, channelVars, Content, Tasks, WellFormed
<1>11. CASE UNCHANGED vars
  BY <1>11 DEF vars, TypeOK, channelVars, Content, Tasks, WellFormed
<1> QED
  BY <1>1, <1>2, <1>3, <1>4, <1>5, <1>6, <1>7, <1>8, <1>9, <1>10, <1>11 DEF Next

\* Every variable keeps its type, in every run of the channel.
THEOREM TypeCorrect == Spec => []TypeOK
  BY TypeInit, TypeStep, PTL DEF Spec

-----------------------------------------------------------------------------
(* What is asked for is missing. *)

\* Both buffers of each participant have their types.
RepairType == repair \in [Participants -> Buffers(OutgoingItems(Entries), Entries)]

\* Without repair nothing is asked for.
RepairDisabled == ~EnableRepair => \A p \in Participants : repair[p].out = <<>>

\* What was sent is finite, and so is what each message names.
SentFinite ==
  /\ IsFiniteSet(sent)
  /\ \A m \in sent : IsFiniteSet(m.causalHistory) /\ m.repairRequest \in Seq(Entries)

\* The inductive invariant, next to TypeOK.
RepairInv == RepairType /\ RepairDisabled /\ SentFinite /\ RepairsNotReceived

\* What a participant has delivered or keeps until its dependencies come.
Received(p) == localHistory[p] \cup incomingBuffer[p]

\* Nothing is asked for at the start.
LEMMA RepairInit == Init => RepairInv
<1> SUFFICES ASSUME Init PROVE RepairInv
  OBVIOUS
<1>1. EmptyRepair \in Buffers(OutgoingItems(Entries), Entries) /\ EmptyRepair.out = <<>>
  BY DEF EmptyRepair, Buffers
<1>2. RepairType /\ RepairDisabled
  BY <1>1 DEF Init, RepairType, RepairDisabled
<1>3. SentFinite
  BY FS_EmptySet DEF Init, SentFinite
<1>4. RepairsNotReceived
  BY DEF Init, RepairsNotReceived
<1> QED
  BY <1>2, <1>3, <1>4 DEF RepairInv

\* A causal history names finitely many messages.
LEMMA CausalHistoryFinite ==
  ASSUME TypeOK, SentFinite, NEW p \in Participants
  PROVE  IsFiniteSet(CausalHistory(p))
<1> DEFINE recent == {h \in localHistory[p] :
              Cardinality({n \in localHistory[p] : Before(h, n)}) < CausalHistorySize}
           named == [m \in recent |-> [id |-> m.id, sender |-> m.sender]]
<1>1. CausalHistory(p) = {[id |-> m.id, sender |-> m.sender] : m \in recent}
  BY DEF CausalHistory
<1>2. recent \in SUBSET sent
  BY DEF TypeOK, Content
<1> HIDE DEF recent
<1>3. IsFiniteSet(recent)
  BY <1>2, FS_Subset DEF SentFinite
<1>4. named \in Surjection(recent, CausalHistory(p))
  BY <1>1 DEF Surjection
<1> HIDE DEF named
<1> QED
  BY <1>3, <1>4, FS_Surjection

\* A message carries history entries as its repair requests.
LEMMA RepairRequestsType ==
  ASSUME RepairType, NEW p \in Participants
  PROVE  RepairRequests(p) \in Seq(Entries)
<1>1. repair[p] \in Buffers(OutgoingItems(Entries), Entries)
  BY DEF RepairType
<1>2. GetRepairRequests(repair[p], now) \in Seq(Entries)
  BY <1>1, RequestsFacts
<1> QED
  BY <1>2 DEF RepairRequests

\* What is sent is either something sent before or one new message.
LEMMA SentFiniteAfter ==
  ASSUME SentFinite, NEW messages, sent' = sent \cup messages,
         \/ messages \subseteq sent
         \/ \E m : /\ messages = {m}
                   /\ IsFiniteSet(m.causalHistory) /\ m.repairRequest \in Seq(Entries)
  PROVE  SentFinite'
<1>0. Entries' = Entries
  BY DEF Entries
<1>1. CASE messages \subseteq sent
  <2>1. sent' = sent
    BY <1>1
  <2> QED
    BY <1>0, <2>1 DEF SentFinite
<1>2. ASSUME NEW m, messages = {m},
             IsFiniteSet(m.causalHistory), m.repairRequest \in Seq(Entries)
      PROVE  SentFinite'
  <2>1. IsFiniteSet(sent \cup {m})
    BY FS_AddElement DEF SentFinite
  <2>2. IsFiniteSet(sent')
    BY <1>2, <2>1
  <2> QED
    BY <1>0, <1>2, <2>2 DEF SentFinite
<1> QED
  BY <1>1, <1>2

\* A participant that asks for nothing new and receives nothing but messages of
\* its own asks for nothing it received.
LEMMA NotReceivedStays ==
  ASSUME RepairsNotReceived,
         \A p \in Participants :
           /\ \A i \in DOMAIN repair'[p].out : \E j \in DOMAIN repair[p].out :
                repair'[p].out[i].entry = repair[p].out[j].entry
           /\ \A m \in Received(p)' : m \in Received(p) \/ m.sender = p
  PROVE  RepairsNotReceived'
  BY DEF RepairsNotReceived, Received, Ids

\* The steps that neither send nor touch the repair buffers.
LEMMA RepairUnchanged ==
  ASSUME TypeOK, RepairInv, UNCHANGED <<repair, sent>>,
         \A p \in Participants : \A m \in Received(p)' : m \in Received(p) \/ m.sender = p
  PROVE  RepairInv'
<1>1. RepairType' /\ RepairDisabled' 
  BY DEF RepairInv, RepairType, RepairDisabled, Buffers, OutgoingItems, IncomingItems, Entries
<1>2. SentFinite'
  BY DEF RepairInv, SentFinite, Entries
<1>3. RepairsNotReceived'
  BY NotReceivedStays DEF RepairInv
<1> QED
  BY <1>1, <1>2, <1>3 DEF RepairInv

\* Steps that send, and may mark requests or sweep the offers.
LEMMA RepairMarked ==
  ASSUME RepairInv, SentFinite', UNCHANGED <<localHistory, incomingBuffer>>,
         NEW p \in Participants,
         NEW r \in Buffers(OutgoingItems(Entries), Entries), DOMAIN r.out = DOMAIN repair[p].out,
         \A i \in DOMAIN r.out : r.out[i].entry = repair[p].out[i].entry,
         repair' = repair \/ (EnableRepair /\ repair' = [repair EXCEPT ![p] = r])
  PROVE  RepairInv'
<1>1. RepairType'
  BY DEF RepairInv, RepairType
<1>2. RepairDisabled'
  BY DEF RepairInv, RepairDisabled
<1>3. \A q \in Participants : \A i \in DOMAIN repair'[q].out : \E j \in DOMAIN repair[q].out :
                repair'[q].out[i].entry = repair[q].out[j].entry
  BY DEF RepairInv, RepairType
<1>4. RepairsNotReceived'
  BY <1>3, NotReceivedStays DEF RepairInv, Received
<1> QED
  BY <1>1, <1>2, <1>4 DEF RepairInv

\* One lemma per step that sends.
LEMMA RepairBeginSend ==
  ASSUME TypeOK, RepairInv, NEW p \in Participants, BeginSend(p)
  PROVE  RepairInv'
<1> DEFINE x == Head(tasks[p]).payload
           retried == {o \in outgoingBuffer[p] : o.id = x}
           messages == IF retried # {} THEN retried ELSE {NewContentMessage(p, x)}
<1>1. sent' = sent \cup messages
  BY DEF BeginSend, Transmit
<1>2. retried \subseteq sent
  BY DEF TypeOK, Content
<1>3. /\ IsFiniteSet(NewContentMessage(p, x).causalHistory)
      /\ NewContentMessage(p, x).repairRequest \in Seq(Entries)
  BY CausalHistoryFinite, RepairRequestsType DEF RepairInv, NewContentMessage
<1>4. SentFinite'
  <2> DEFINE m == NewContentMessage(p, x)
  <2>1. IsFiniteSet(m.causalHistory) /\ m.repairRequest \in Seq(Entries)
    BY <1>3
  <2>2. messages \subseteq sent \/ messages = {m}
    BY <1>2
  <2> HIDE DEF m, messages
  <2> QED
    BY <1>1, <2>1, <2>2, SentFiniteAfter DEF RepairInv
<1>5. repair[p] \in Buffers(OutgoingItems(Entries), Entries)
  BY DEF RepairInv, RepairType
<1>6. PICK r : r = MarkRequested(repair[p], now)
  OBVIOUS
<1>7. repair' = repair \/ (EnableRepair /\ repair' = [repair EXCEPT ![p] = r])
  BY <1>6 DEF BeginSend
<1>8. UNCHANGED <<localHistory, incomingBuffer>>
  BY DEF BeginSend
<1>9. /\ r \in Buffers(OutgoingItems(Entries), Entries) /\ DOMAIN r.out = DOMAIN repair[p].out
      /\ \A i \in DOMAIN r.out : r.out[i].entry = repair[p].out[i].entry
  BY <1>5, <1>6, RequestsFacts
<1> QED
  BY <1>4, <1>7, <1>8, <1>9, RepairMarked

LEMMA RepairSync ==
  ASSUME TypeOK, RepairInv, NEW p \in Participants, PushOutgoingSyncMessage(p)
  PROVE  RepairInv'
<1>1. Transmit({}) \/ Transmit({SyncMessage(p)})
  BY SyncFacts
<1>2. IsFiniteSet(SyncMessage(p).causalHistory) /\ SyncMessage(p).repairRequest \in Seq(Entries)
  BY CausalHistoryFinite, RepairRequestsType DEF RepairInv, SyncMessage
<1>3. SentFinite'
  BY <1>1, <1>2, SentFiniteAfter DEF RepairInv, Transmit
<1>4. repair[p] \in Buffers(OutgoingItems(Entries), Entries)
  BY DEF RepairInv, RepairType
<1>5. PICK r : r = MarkRequested(repair[p], now)
  OBVIOUS
<1>6. repair' = repair \/ (EnableRepair /\ repair' = [repair EXCEPT ![p] = r])
  BY <1>5 DEF PushOutgoingSyncMessage
<1>7. UNCHANGED <<localHistory, incomingBuffer>>
  BY DEF PushOutgoingSyncMessage
<1>8. /\ r \in Buffers(OutgoingItems(Entries), Entries) /\ DOMAIN r.out = DOMAIN repair[p].out
      /\ \A i \in DOMAIN r.out : r.out[i].entry = repair[p].out[i].entry
  BY <1>4, <1>5, RequestsFacts
<1> QED
  BY <1>3, <1>6, <1>7, <1>8, RepairMarked

LEMMA RepairSweepRepair ==
  ASSUME TypeOK, RepairInv, NEW p \in Participants, SweepRepairIncomingBuffer(p)
  PROVE  RepairInv'
<1> DEFINE messages == {m \in localHistory[p] : m.id \in ReadyIds(repair[p], now)}
<1>1. sent' = sent \cup messages /\ messages \subseteq sent
  BY DEF SweepRepairIncomingBuffer, Transmit, TypeOK, Content
<1> HIDE DEF messages
<1>2. SentFinite'
  BY <1>1, SentFiniteAfter DEF RepairInv
<1>3. repair[p] \in Buffers(OutgoingItems(Entries), Entries)
  BY DEF RepairInv, RepairType
<1>4. /\ AfterSweep(repair[p], now) \in Buffers(OutgoingItems(Entries), Entries)
      /\ AfterSweep(repair[p], now).out = repair[p].out
  BY <1>3, AfterSweepFacts
<1>5. EnableRepair /\ repair' = [repair EXCEPT ![p] = AfterSweep(@, now)]
  BY DEF SweepRepairIncomingBuffer
<1>6. UNCHANGED <<localHistory, incomingBuffer>>
  BY DEF SweepRepairIncomingBuffer
<1> QED
  BY <1>2, <1>4, <1>5, <1>6, RepairMarked

LEMMA RepairSendEphemeral ==
  ASSUME TypeOK, RepairInv, NEW p \in Participants, SendEphemeral(p)
  PROVE  RepairInv'
<1> DEFINE m == [kind |-> "ephemeral", id |-> Head(tasks[p]).payload, sender |-> p,
                 causalHistory |-> {}, lamport |-> 0, bloom |-> {},
                 repairRequest |-> <<>>]
<1>1. sent' = sent \cup {m}
  BY DEF SendEphemeral, Transmit
<1>2. IsFiniteSet(m.causalHistory) /\ m.repairRequest \in Seq(Entries)
  BY FS_EmptySet
<1> HIDE DEF m
<1>3. SentFinite'
  BY <1>1, <1>2, SentFiniteAfter DEF RepairInv
<1>4. UNCHANGED <<repair, localHistory, incomingBuffer>>
  BY DEF SendEphemeral, channelVars
<1>5. PICK r : r = repair[p]
  OBVIOUS
<1>6. r \in Buffers(OutgoingItems(Entries), Entries)
  BY <1>5 DEF RepairInv, RepairType
<1> QED
  BY <1>3, <1>4, <1>5, <1>6, RepairMarked

\* After a reception what is asked for was asked for before, and is not the message
\* received, or is missing.
LEMMA RepairAfterFacts ==
  ASSUME TypeOK, RepairInv, EnableRepair, NEW p \in Participants, NEW m \in sent,
         NEW order \in SetToSeqs(MissingDependencies(p, m))
  PROVE  /\ RepairAfter(p, m, order) \in Buffers(OutgoingItems(Entries), Entries)
         /\ \A i \in DOMAIN RepairAfter(p, m, order).out :
              LET e == RepairAfter(p, m, order).out[i].entry
              IN  \/ /\ e.id # m.id
                     /\ \E j \in DOMAIN repair[p].out : e = repair[p].out[j].entry
                  \/ e \in MissingDependencies(p, m)
<1> DEFINE missing == MissingDependencies(p, m)
           asked == {item \in OutgoingItems(Entries) :
                       \E j \in DOMAIN repair[p].out : item.entry = repair[p].out[j].entry}
           next == {item \in OutgoingItems(Entries) : \/ item \in asked /\ item.entry.id # m.id
                                             \/ item.entry \in missing}
           r == repair[p]
<1>1. r.out \in Seq(OutgoingItems(Entries)) /\ r.in \in Seq(IncomingItems(Entries))
  BY DEF RepairInv, RepairType, Buffers
<1>2. r.out \in Seq(asked)
  <2>1. /\ DOMAIN r.out = 1..Len(r.out) /\ Len(r.out) \in Nat
        /\ \A i \in DOMAIN r.out : r.out[i] \in OutgoingItems(Entries)
    BY <1>1, LenProperties, ElementOfSeq
  <2>2. r.out = [i \in 1..Len(r.out) |-> r.out[i]]
    BY <1>1, <2>1
  <2>3. \A i \in 1..Len(r.out) : r.out[i] \in asked
    BY <2>1
  <2> HIDE DEF asked
  <2>4. r.out \in [1..Len(r.out) -> asked]
    BY <2>2, <2>3
  <2> QED
    BY <2>1, <2>4
<1>3. missing \subseteq Entries /\ IsFiniteSet(missing)
  <2>1. missing \subseteq m.causalHistory /\ m.causalHistory \subseteq Entries
    BY DEF MissingDependencies, TypeOK, WellFormed
  <2>2. IsFiniteSet(m.causalHistory)
    BY DEF RepairInv, SentFinite
  <2> HIDE DEF missing
  <2> QED
    BY <2>1, <2>2, FS_Subset
<1>4. order \in Seq(missing)
  <2> HIDE DEF missing
  <2>1. Cardinality(missing) \in Nat
    BY <1>3, FS_CardinalityType
  <2>2. order \in [1..Cardinality(missing) -> missing]
    BY DEF SetToSeqs, missing
  <2> QED
    BY <2>1, <2>2
<1>5. MarkMessageReceived(r, m.id) \in Buffers(next, Entries)
  <2> DEFINE kept == {item \in asked : item.entry.id # m.id}
  <2>1. kept \subseteq next
    OBVIOUS
  <2> HIDE DEF asked
  <2>2. Drop(r.out, m.id) \in Seq(kept)
    BY <1>2, DropFacts
  <2> HIDE DEF kept, next
  <2>3. Drop(r.out, m.id) \in Seq(next)
    BY <2>1, <2>2, SeqMonotonic
  <2>4. Drop(r.in, m.id) \in Seq(IncomingItems(Entries))
    BY <1>1, DropFacts
  <2> QED
    BY <2>3, <2>4 DEF MarkMessageReceived, Buffers
<1> DEFINE after == ProcessIncomingRepairRequests(MarkMessageReceived(r, m.id),
             m.repairRequest, Ids(localHistory[p]), p, now)
<1>6. after \in Buffers(next, Entries)
  <2>1. m.repairRequest \in Seq(Entries) /\ now \in Nat
    BY DEF RepairInv, SentFinite, TypeOK
  <2>2. \A e \in Entries : e.sender # NoSender => RespDelay(p, e.sender, e.id) \in Nat
    BY OptionAssumption DEF Entries
  <2> HIDE DEF next
  <2> QED
    BY <1>5, <2>1, <2>2, ProcessRequestsFacts
<1>7. \A e \in missing : OutgoingItem(e, now + ReqDelay(p, e.id)) \in next
  <2> SUFFICES ASSUME NEW e \in missing
               PROVE  OutgoingItem(e, now + ReqDelay(p, e.id)) \in next
    OBVIOUS
  <2>1. e \in Entries /\ e.id \in Payloads
    BY <1>3 DEF Entries
  <2>2. now \in Nat /\ ReqDelay(p, e.id) \in Nat
    BY <2>1, OptionAssumption DEF TypeOK
  <2>3. now + ReqDelay(p, e.id) \in Nat
    BY <2>2
  <2>4. OutgoingItem(e, now + ReqDelay(p, e.id)) \in OutgoingItems(Entries)
    BY <2>1, <2>3 DEF OutgoingItem, OutgoingItems
  <2>5. OutgoingItem(e, now + ReqDelay(p, e.id)).entry = e
    BY DEF OutgoingItem
  <2> HIDE DEF missing, asked
  <2> QED
    BY <2>4, <2>5
<1>8. RepairAfter(p, m, order) \in Buffers(next, Entries)
  <2> HIDE DEF next, missing, after
  <2>1. MarkDependenciesMissing(after, order, p, now) \in Buffers(next, Entries)
    BY <1>4, <1>6, <1>7, MarkMissingFacts
  <2> QED
    BY <2>1 DEF RepairAfter, after
<1> DEFINE result == RepairAfter(p, m, order)
<1>9. result.out \in Seq(next) /\ result.in \in Seq(IncomingItems(Entries))
  <2> HIDE DEF next, result
  <2> QED
    BY <1>8 DEF Buffers, result
<1>10. \A i \in DOMAIN result.out : result.out[i] \in next
  <2> HIDE DEF next, result
  <2> QED
    BY <1>9, LenProperties, ElementOfSeq
<1>11. result \in Buffers(OutgoingItems(Entries), Entries)
  <2>1. next \subseteq OutgoingItems(Entries)
    OBVIOUS
  <2> HIDE DEF next, result
  <2>2. result.out \in Seq(OutgoingItems(Entries))
    BY <1>9, <2>1, SeqMonotonic
  <2> QED
    BY <1>8, <1>9, <2>2 DEF Buffers, result
<1>12. ASSUME NEW i \in DOMAIN result.out
       PROVE  \/ /\ result.out[i].entry.id # m.id
                 /\ \E j \in DOMAIN repair[p].out :
                      result.out[i].entry = repair[p].out[j].entry
              \/ result.out[i].entry \in missing
  <2> HIDE DEF result, missing
  <2> QED
    BY <1>10
<1> HIDE DEF next, asked
<1> QED
  BY <1>11, <1>12

\* The reception: the message that comes in is dropped from what is asked for before
\* its missing dependencies are added.
LEMMA RepairReceive ==
  ASSUME TypeOK, RepairInv, NEW p \in Participants, Receive(p)
  PROVE  RepairInv'
<1>1. UNCHANGED sent
  BY DEF Receive
<1>2. CASE UNCHANGED channelVars
  BY <1>1, <1>2, RepairUnchanged DEF channelVars, Received
<1>3. ASSUME NEW m \in sent, Accepted(p, m),
             NEW order \in SetToSeqs(MissingDependencies(p, m)),
             repair' = [repair EXCEPT ![p] = RepairAfter(p, m, order)]
      PROVE  RepairInv'
  <2>1. /\ \A q \in Participants \ {p} : Received(q)' = Received(q)
        /\ Received(p)' \subseteq Received(p) \cup {m}
    <3>1. CASE MissingDependencies(p, m) # {}
      <4>1. /\ incomingBuffer' = [incomingBuffer EXCEPT ![p] = @ \cup {m}]
            /\ localHistory' = localHistory
        BY <1>3, <3>1 DEF Accepted
      <4> QED
        BY <4>1 DEF Received, TypeOK
    <3>2. CASE MissingDependencies(p, m) = {}
      <4>1. Deliver(p, {m}) /\ incomingBuffer' = incomingBuffer
        BY <1>3, <3>2 DEF Accepted
      <4>2. /\ \A q \in Participants \ {p} : localHistory'[q] = localHistory[q]
            /\ localHistory'[p] \subseteq localHistory[p] \cup Content({m})
        BY <4>1, DeliverFacts
      <4> QED
        BY <4>1, <4>2 DEF Received, Content
    <3> QED
      BY <3>1, <3>2
  <2>2. CASE ~EnableRepair
    <3>1. repair' = repair
      BY <1>3, <2>2 DEF RepairAfter, RepairInv, RepairType
    <3>2. \A q \in Participants : repair[q].out = <<>>
      BY <2>2 DEF RepairInv, RepairDisabled
    <3>3. RepairType' /\ RepairDisabled' /\ SentFinite'
      BY <1>1, <3>1 DEF RepairInv, RepairType, RepairDisabled, SentFinite, Buffers,
         OutgoingItems, IncomingItems, Entries
    <3>4. RepairsNotReceived'
      BY <3>1, <3>2 DEF RepairsNotReceived
    <3> QED
      BY <3>3, <3>4 DEF RepairInv
  <2>3. CASE EnableRepair
    <3> DEFINE r == RepairAfter(p, m, order)
    <3>1. /\ r \in Buffers(OutgoingItems(Entries), Entries)
          /\ \A i \in DOMAIN r.out :
               \/ /\ r.out[i].entry.id # m.id
                  /\ \E j \in DOMAIN repair[p].out : r.out[i].entry = repair[p].out[j].entry
               \/ r.out[i].entry \in MissingDependencies(p, m)
      BY <1>3, <2>3, RepairAfterFacts
    <3> HIDE DEF r
    <3>2. repair' = [repair EXCEPT ![p] = r]
      BY <1>3 DEF r
    <3>3. RepairType'
      BY <3>1, <3>2 DEF RepairInv, RepairType
    <3>4. RepairDisabled'
      BY <2>3 DEF RepairDisabled
    <3>5. SentFinite'
      BY <1>1 DEF RepairInv, SentFinite, Entries
    <3>6. ASSUME NEW q \in Participants, NEW i \in DOMAIN repair'[q].out,
                 NEW n \in Received(q)', n.id = repair'[q].out[i].entry.id
          PROVE  n.sender = q \/ n.id \in Ids(n.causalHistory)
      <4>1. CASE q # p
        <5>1. repair'[q] = repair[q]
          BY <3>2, <4>1 DEF RepairInv, RepairType
        <5>2. n \in Received(q)
          BY <2>1, <3>6, <4>1
        <5> QED
          BY <3>6, <5>1, <5>2 DEF RepairInv, RepairsNotReceived, Received
      <4>2. CASE q = p
        <5>1. repair'[p] = r
          BY <3>2 DEF RepairInv, RepairType
        <5>2. i \in DOMAIN r.out /\ n.id = r.out[i].entry.id /\ n \in Received(p) \cup {m}
          BY <2>1, <3>6, <4>2, <5>1
        <5>3. CASE r.out[i].entry \in MissingDependencies(p, m)
          <6>1. n \notin Received(p)
            BY <5>2, <5>3 DEF MissingDependencies, IsMessageAvailable, Received
          <6>2. n = m
            BY <5>2, <6>1
          <6> QED
            BY <5>2, <5>3, <6>2 DEF MissingDependencies, Ids
        <5>4. ASSUME r.out[i].entry.id # m.id,
                     NEW j \in DOMAIN repair[p].out, r.out[i].entry = repair[p].out[j].entry
              PROVE  n.sender = q \/ n.id \in Ids(n.causalHistory)
          <6>1. n \in Received(p)
            BY <5>2, <5>4
          <6> QED
            BY <4>2, <5>2, <5>4, <6>1 DEF RepairInv, RepairsNotReceived, Received
        <5> QED
          BY <3>1, <5>2, <5>3, <5>4
      <4> QED
        BY <4>1, <4>2
    <3>7. RepairsNotReceived'
      BY <3>6 DEF RepairsNotReceived, Received, Ids
    <3> QED
      BY <3>3, <3>4, <3>5, <3>7 DEF RepairInv
  <2> QED
    BY <2>2, <2>3
<1> DEFINE m == Head(tasks[p]).message
<1>4. m \in sent
  <2>1. Head(tasks[p]) \in Tasks /\ Head(tasks[p]).command = "Receive"
    BY <1>1, TypeNextTask DEF Receive
  <2> QED
    BY <2>1 DEF Tasks
<1>5. \/ UNCHANGED channelVars
      \/ /\ Accepted(p, m)
         /\ \E order \in SetToSeqs(MissingDependencies(p, m)) :
              repair' = [repair EXCEPT ![p] = RepairAfter(p, m, order)]
  BY DEF Receive, Accepted
<1> QED
  BY <1>2, <1>3, <1>4, <1>5

\* No step makes a participant ask for what it has.
LEMMA RepairStep == TypeOK /\ RepairInv /\ [Next]_vars => RepairInv'
<1> SUFFICES ASSUME TypeOK, RepairInv, [Next]_vars PROVE RepairInv'
  OBVIOUS
<1>1. ASSUME NEW p \in Participants, NEW x \in Payloads, PushOutgoingMessage(p, x)
      PROVE  RepairInv'
  BY <1>1, RepairUnchanged DEF PushOutgoingMessage, channelVars, Received
<1>2. ASSUME NEW p \in Participants, NEW x \in EphemeralPayloads,
             PushOutgoingEphemeralMessage(p, x)
      PROVE  RepairInv'
  BY <1>2, RepairUnchanged DEF PushOutgoingEphemeralMessage, channelVars, Received
<1>3. ASSUME NEW p \in Participants, NEW m \in inTransit, PushIncomingMessage(p, m)
      PROVE  RepairInv'
  BY <1>3, RepairUnchanged DEF PushIncomingMessage, channelVars, Received
<1>4. ASSUME NEW p \in Participants, ProcessTask(p)
      PROVE  RepairInv'
  BY <1>4, RepairBeginSend, RepairSendEphemeral, RepairReceive DEF ProcessTask
<1>5. ASSUME NEW p \in Participants, NEW m \in sending[p], NEW outcome \in Outcomes,
             EndSend(p, m, outcome)
      PROVE  RepairInv'
  <2>1. Push(localHistory[p], m) \subseteq localHistory[p] \cup {m} /\ m.sender = p
    BY <1>5 DEF Push, TypeOK
  <2>2. /\ localHistory' = localHistory
           \/ localHistory' = [localHistory EXCEPT ![p] = Push(@, m)]
        /\ UNCHANGED <<repair, sent, incomingBuffer>>
    BY <1>5 DEF EndSend
  <2>3. \A q \in Participants : \A n \in Received(q)' : n \in Received(q) \/ n.sender = q
    <3>1. /\ \A q \in Participants \ {p} : localHistory'[q] = localHistory[q]
          /\ localHistory'[p] \subseteq localHistory[p] \cup {m}
      BY <2>1, <2>2 DEF TypeOK
    <3> QED
      BY <2>1, <2>2, <3>1 DEF Received
  <2> QED
    BY <2>2, <2>3, RepairUnchanged
<1>6. ASSUME NEW p \in Participants, SweepIncomingBuffer(p)
      PROVE  RepairInv'
  <2>1. PICK gone \in SUBSET incomingBuffer[p] :
          /\ Deliver(p, gone)
          /\ incomingBuffer' = [incomingBuffer EXCEPT ![p] = @ \ gone]
    BY <1>6 DEF SweepIncomingBuffer
  <2>2. gone \in SUBSET sent
    BY DEF TypeOK
  <2>3. /\ \A q \in Participants \ {p} : localHistory'[q] = localHistory[q]
        /\ localHistory'[p] \subseteq localHistory[p] \cup Content(gone)
    BY <2>1, <2>2, DeliverFacts
  <2>4. \A q \in Participants : Received(q)' \subseteq Received(q)
    BY <2>1, <2>3 DEF Received, Content, TypeOK
  <2>5. UNCHANGED <<repair, sent>>
    BY <1>6 DEF SweepIncomingBuffer
  <2> QED
    BY <2>4, <2>5, RepairUnchanged
<1>7. ASSUME NEW p \in Participants, SweepRepairIncomingBuffer(p)
      PROVE  RepairInv'
  BY <1>7, RepairSweepRepair
<1>8. ASSUME NEW p \in Participants, PushOutgoingSyncMessage(p)
      PROVE  RepairInv'
  BY <1>8, RepairSync
<1>9. ASSUME NEW m \in inTransit, Lose(m)
      PROVE  RepairInv'
  BY <1>9, RepairUnchanged DEF Lose, channelVars, Received
<1>10. CASE Tick
  BY <1>10, RepairUnchanged DEF Tick, channelVars, Received
<1>11. CASE UNCHANGED vars
  BY <1>11, RepairUnchanged DEF vars, channelVars, Received
<1> QED
  BY <1>1, <1>2, <1>3, <1>4, <1>5, <1>6, <1>7, <1>8, <1>9, <1>10, <1>11 DEF Next

\* No participant asks for the repair of a message that it received from another and
\* that does not name itself (markMessageReceived, markDependenciesMissing).
THEOREM RequestsAreForMissing == Spec => []RepairsNotReceived
<1>1. Spec => []TypeOK
  BY TypeCorrect
<1>2. RepairInv => RepairsNotReceived
  BY DEF RepairInv
<1> QED
  BY <1>1, <1>2, RepairInit, RepairStep, PTL DEF Spec

-----------------------------------------------------------------------------
(* Timestamps. *)

\* A participant's clock is not behind what it delivered or what it sent.
ClockInv ==
  /\ \A p \in Participants : \A m \in localHistory[p] : m.lamport =< lamport[p]
  /\ \A m \in sent : m.kind # "ephemeral" => m.lamport =< lamport[m.sender]

\* A message sent for the first time, in the state before the step.
Fresh(m) ==
  \/ m.kind = "ephemeral" /\ m.causalHistory = {} /\ m.bloom = {}
  \/ /\ m.sender \in Participants
     /\ m.lamport > lamport[m.sender]
     /\ m.lamport =< lamport'[m.sender]
     /\ m.causalHistory = CausalHistory(m.sender)
     /\ m.bloom = filter[m.sender]
     /\ \A n \in sent' \ sent : n = m

\* What every step does to the clocks and to what is sent.
ClockStep ==
  /\ \A q \in Participants : lamport'[q] >= lamport[q]
  /\ sent \subseteq sent'
  /\ \A m \in sent' \ sent : Fresh(m)
  /\ \A q \in Participants : \A m \in localHistory'[q] :
       m \in localHistory[q] \/ (m \in sent /\ m.lamport =< lamport'[q])

LEMMA StillClock ==
  ASSUME TypeOK, UNCHANGED <<lamport, sent, localHistory>>
  PROVE  ClockStep
  BY DEF TypeOK, ClockStep

LEMMA BeginSendClock ==
  ASSUME TypeOK, NEW p \in Participants, BeginSend(p)
  PROVE  ClockStep
<1>1. PICK x \in Payloads :
        /\ lamport' = [lamport EXCEPT ![p] = Incremented(@)]
        /\ sent' = sent \cup MessagesToSend(p, x)
  BY BeginSendFacts
<1>2. Incremented(lamport[p]) \in Nat /\ Incremented(lamport[p]) > lamport[p]
  BY IncrementedFacts DEF TypeOK
<1>3. \A q \in Participants : lamport'[q] >= lamport[q]
  BY <1>1, <1>2 DEF TypeOK
<1>4. ASSUME NEW m \in sent' \ sent
      PROVE  Fresh(m)
  <2>1. Outgoing(p, x) \subseteq sent
    BY DEF Outgoing, TypeOK, Content
  <2>2. m \in MessagesToSend(p, x) /\ Outgoing(p, x) = {}
    BY <1>1, <1>4, <2>1 DEF MessagesToSend
  <2>3. m = NewContentMessage(p, x) /\ \A n \in sent' \ sent : n = m
    BY <1>1, <2>2 DEF MessagesToSend
  <2>4. /\ m.sender = p
        /\ m.lamport = Incremented(lamport[p])
        /\ m.causalHistory = CausalHistory(p)
        /\ m.bloom = filter[p]
    BY <2>3, NewContentMessageFacts
  <2>5. lamport'[p] = Incremented(lamport[p])
    BY <1>1 DEF TypeOK
  <2> QED
    BY <1>2, <2>3, <2>4, <2>5 DEF Fresh
<1>5. localHistory' = localHistory
  BY DEF BeginSend
<1> QED
  BY <1>1, <1>3, <1>4, <1>5 DEF ClockStep

LEMMA SyncClock ==
  ASSUME TypeOK, NEW p \in Participants, PushOutgoingSyncMessage(p)
  PROVE  ClockStep
<1>1. /\ sent' = sent \/ sent' = sent \cup {SyncMessage(p)}
      /\ lamport' = [lamport EXCEPT ![p] = Incremented(@)]
      /\ localHistory' = localHistory
  BY SyncFacts DEF Transmit
<1>2. Incremented(lamport[p]) \in Nat /\ Incremented(lamport[p]) > lamport[p]
  BY IncrementedFacts DEF TypeOK
<1>3. \A q \in Participants : lamport'[q] >= lamport[q]
  BY <1>1, <1>2 DEF TypeOK
<1>4. lamport'[p] = Incremented(lamport[p])
  BY <1>1 DEF TypeOK
<1>5. ASSUME NEW m \in sent' \ sent
      PROVE  Fresh(m)
  <2>1. m = SyncMessage(p) /\ \A n \in sent' \ sent : n = m
    BY <1>1, <1>5
  <2> QED
    BY <1>2, <1>4, <2>1, SyncMessageFacts DEF Fresh
<1> QED
  BY <1>1, <1>3, <1>5 DEF ClockStep

LEMMA SendEphemeralClock ==
  ASSUME TypeOK, NEW p \in Participants, SendEphemeral(p)
  PROVE  ClockStep
<1> DEFINE m == [kind |-> "ephemeral", id |-> Head(tasks[p]).payload, sender |-> p,
                 causalHistory |-> {}, lamport |-> 0, bloom |-> {},
                 repairRequest |-> <<>>]
<1>1. /\ sent' = sent \cup {m}
      /\ m.kind = "ephemeral" /\ m.causalHistory = {} /\ m.bloom = {}
  BY DEF SendEphemeral, Transmit
<1> HIDE DEF m
<1>2. lamport' = lamport /\ localHistory' = localHistory
  BY DEF SendEphemeral, channelVars
<1> QED
  BY <1>1, <1>2 DEF ClockStep, Fresh, TypeOK

LEMMA SweepRepairClock ==
  ASSUME TypeOK, NEW p \in Participants, SweepRepairIncomingBuffer(p)
  PROVE  ClockStep
<1>1. sent' = sent
  BY DEF SweepRepairIncomingBuffer, Transmit, TypeOK, Content
<1>2. lamport' = lamport /\ localHistory' = localHistory
  BY DEF SweepRepairIncomingBuffer
<1> QED
  BY <1>1, <1>2, StillClock

LEMMA EndSendClock ==
  ASSUME TypeOK, ClockInv, NEW p \in Participants, NEW m \in sending[p],
         NEW outcome \in Outcomes, EndSend(p, m, outcome)
  PROVE  ClockStep
<1>1. sent' = sent /\ lamport' = lamport
  BY DEF EndSend
<1>2. m \in sent /\ m.kind = "content" /\ m.sender = p
  BY DEF TypeOK, Content
<1>3. m.lamport =< lamport[p]
  BY <1>2 DEF ClockInv
<1>4. \/ localHistory' = [localHistory EXCEPT ![p] = Push(@, m)]
      \/ localHistory' = localHistory
  BY DEF EndSend
<1>5. Push(localHistory[p], m) \subseteq localHistory[p] \cup {m}
  BY DEF Push
<1>6. \A q \in Participants : \A n \in localHistory'[q] :
        n \in localHistory[q] \/ (n = m /\ q = p)
  BY <1>4, <1>5 DEF TypeOK
<1> QED
  BY <1>1, <1>2, <1>3, <1>6 DEF ClockStep, TypeOK

LEMMA DeliverClock ==
  ASSUME TypeOK, NEW p \in Participants, NEW messages \in SUBSET sent,
         Deliver(p, messages), sent' = sent
  PROVE  ClockStep
<1>1. /\ \A q \in Participants : lamport'[q] >= lamport[q]
      /\ \A m \in Content(messages) : lamport'[p] >= m.lamport
      /\ \A q \in Participants \ {p} : localHistory'[q] = localHistory[q]
      /\ localHistory'[p] \subseteq localHistory[p] \cup Content(messages)
  BY DeliverFacts
<1>2. \A q \in Participants : \A m \in localHistory'[q] :
        m \in localHistory[q] \/ (m \in sent /\ m.lamport =< lamport'[q])
  BY <1>1 DEF Content
<1> QED
  BY <1>1, <1>2 DEF ClockStep

LEMMA ReceiveClock ==
  ASSUME TypeOK, NEW p \in Participants, Receive(p)
  PROVE  ClockStep
<1>1. sent' = sent
  BY ReceiveFacts
<1>2. CASE UNCHANGED channelVars
  BY <1>1, <1>2, StillClock DEF channelVars
<1>3. ASSUME NEW m \in sent, Accepted(p, m)
      PROVE  ClockStep
  <2>1. CASE MissingDependencies(p, m) # {}
    BY <1>1, <1>3, <2>1, StillClock DEF Accepted
  <2>2. CASE MissingDependencies(p, m) = {}
    <3>1. Deliver(p, {m}) /\ {m} \in SUBSET sent
      BY <1>3, <2>2 DEF Accepted
    <3> QED
      BY <1>1, <3>1, DeliverClock
  <2> QED
    BY <2>1, <2>2
<1> QED
  BY <1>2, <1>3, ReceiveFacts

LEMMA SweepClock ==
  ASSUME TypeOK, NEW p \in Participants, SweepIncomingBuffer(p)
  PROVE  ClockStep
<1>1. PICK gone \in SUBSET incomingBuffer[p] : Deliver(p, gone)
  BY DEF SweepIncomingBuffer
<1>2. gone \in SUBSET sent
  BY <1>1 DEF TypeOK
<1>3. sent' = sent
  BY DEF SweepIncomingBuffer
<1> QED
  BY <1>1, <1>2, <1>3, DeliverClock

LEMMA NextClock ==
  ASSUME TypeOK, ClockInv, [Next]_vars
  PROVE  ClockStep
<1>1. ASSUME NEW p \in Participants, NEW x, \/ PushOutgoingMessage(p, x)
                                            \/ PushOutgoingEphemeralMessage(p, x)
                                            \/ PushIncomingMessage(p, x)
                                            \/ Lose(x)
      PROVE  ClockStep
  BY <1>1, StillClock DEF PushOutgoingMessage, PushOutgoingEphemeralMessage,
     PushIncomingMessage, Lose, channelVars
<1>2. ASSUME NEW p \in Participants, ProcessTask(p)
      PROVE  ClockStep
  BY <1>2, BeginSendClock, SendEphemeralClock, ReceiveClock DEF ProcessTask
<1>3. ASSUME NEW p \in Participants, NEW m \in sending[p], NEW outcome \in Outcomes,
             EndSend(p, m, outcome)
      PROVE  ClockStep
  BY <1>3, EndSendClock
<1>4. ASSUME NEW p \in Participants, \/ SweepIncomingBuffer(p)
                                     \/ SweepRepairIncomingBuffer(p)
                                     \/ PushOutgoingSyncMessage(p)
      PROVE  ClockStep
  BY <1>4, SweepClock, SweepRepairClock, SyncClock
<1>5. CASE Tick \/ UNCHANGED vars
  BY <1>5, StillClock DEF Tick, vars, channelVars
<1>6. ASSUME NEW m \in inTransit, Lose(m)
      PROVE  ClockStep
  BY <1>6, StillClock DEF Lose, channelVars
<1> QED
  BY <1>1, <1>2, <1>3, <1>4, <1>5, <1>6 DEF Next

\* The timestamps' inductive invariant.
TimestampInv == TypeOK /\ ClockInv /\ DependenciesPrecede /\ UniqueTimestamps

LEMMA TimestampInit == Init => TimestampInv
<1>1. Init => TypeOK
  BY TypeInit
<1>2. Init => ClockInv /\ DependenciesPrecede /\ UniqueTimestamps
  BY DEF Init, ClockInv, DependenciesPrecede, UniqueTimestamps
<1> QED
  BY <1>1, <1>2 DEF TimestampInv

LEMMA TimestampStep == TimestampInv /\ [Next]_vars => TimestampInv'
<1> SUFFICES ASSUME TimestampInv, [Next]_vars PROVE TimestampInv'
  OBVIOUS
<1>1. TypeOK /\ ClockInv /\ DependenciesPrecede /\ UniqueTimestamps
  BY DEF TimestampInv
<1>2. TypeOK' /\ ClockStep
  BY <1>1, TypeStep, NextClock
<1>3. ClockInv'
  <2>1. \A p \in Participants : \A m \in localHistory'[p] : m.lamport =< lamport'[p]
    <3>1. ASSUME NEW p \in Participants, NEW m \in localHistory'[p], m \in localHistory[p]
          PROVE  m.lamport =< lamport'[p]
      <4>1. m.lamport =< lamport[p] /\ lamport[p] =< lamport'[p]
        BY <1>1, <1>2, <3>1 DEF ClockInv, ClockStep
      <4>2. m.lamport \in Nat /\ lamport[p] \in Nat /\ lamport'[p] \in Nat
        BY <1>1, <1>2, <3>1 DEF TypeOK, Content, WellFormed
      <4> QED
        BY <4>1, <4>2
    <3> QED
      BY <1>2, <3>1 DEF ClockStep
  <2>2. ASSUME NEW m \in sent', m.kind # "ephemeral"
        PROVE  m.lamport =< lamport'[m.sender]
    <3>1. CASE m \in sent
      <4>1. m.sender \in Participants /\ m.lamport \in Nat
        BY <1>1, <3>1 DEF TypeOK, WellFormed
      <4>2. m.lamport =< lamport[m.sender] /\ lamport[m.sender] =< lamport'[m.sender]
        BY <1>1, <1>2, <2>2, <3>1, <4>1 DEF ClockInv, ClockStep
      <4>3. lamport[m.sender] \in Nat /\ lamport'[m.sender] \in Nat
        BY <1>1, <1>2, <4>1 DEF TypeOK
      <4> QED
        BY <4>1, <4>2, <4>3
    <3>2. CASE m \notin sent
      BY <1>2, <2>2, <3>2 DEF ClockStep, Fresh
    <3> QED
      BY <3>1, <3>2
  <2> QED
    BY <2>1, <2>2 DEF ClockInv
<1>4. DependenciesPrecede'
  <2>1. ASSUME NEW m \in sent', NEW d \in m.causalHistory
        PROVE  \E x \in sent' : x.id = d.id /\ x.lamport < m.lamport
    <3>1. CASE m \in sent
      BY <1>1, <1>2, <2>1, <3>1 DEF DependenciesPrecede, ClockStep
    <3>2. CASE m \notin sent
      <4>1. Fresh(m)
        BY <1>2, <2>1, <3>2 DEF ClockStep
      <4>2. /\ m.sender \in Participants
            /\ m.lamport > lamport[m.sender]
            /\ d \in CausalHistory(m.sender)
        BY <2>1, <4>1 DEF Fresh
      <4>3. PICK x \in localHistory[m.sender] : d.id = x.id
        BY <1>1, <4>2, CausalHistoryFacts
      <4>4. x \in sent /\ x.lamport \in Nat /\ x.lamport =< lamport[m.sender]
        BY <1>1, <4>2, <4>3 DEF TypeOK, Content, WellFormed, ClockInv
      <4>5. m.lamport \in Nat /\ lamport[m.sender] \in Nat /\ x \in sent'
        BY <1>1, <1>2, <2>1, <4>2, <4>4 DEF TypeOK, WellFormed, ClockStep
      <4> QED
        BY <4>2, <4>3, <4>4, <4>5
    <3> QED
      BY <3>1, <3>2
  <2> QED
    BY <2>1 DEF DependenciesPrecede
<1>5. UniqueTimestamps'
  <2>1. ASSUME NEW m \in sent', NEW n \in sent', m \in sent, n \notin sent,
               m.kind # "ephemeral", n.kind # "ephemeral",
               m.sender = n.sender, m.lamport = n.lamport
        PROVE  FALSE
    <3>1. n.sender \in Participants /\ n.lamport > lamport[n.sender]
      BY <1>2, <2>1 DEF ClockStep, Fresh
    <3>2. m.lamport =< lamport[n.sender]
      BY <1>1, <2>1 DEF ClockInv
    <3>3. m.lamport \in Nat /\ lamport[n.sender] \in Nat
      BY <1>1, <2>1, <3>1 DEF TypeOK, WellFormed
    <3> QED
      BY <2>1, <3>1, <3>2, <3>3
  <2>2. ASSUME NEW m \in sent', NEW n \in sent', m \notin sent, n \notin sent,
               m.kind # "ephemeral"
        PROVE  m = n
    BY <1>2, <2>2 DEF ClockStep, Fresh
  <2>3. ASSUME NEW m \in sent', NEW n \in sent', m \in sent, n \in sent,
               m.kind # "ephemeral", n.kind # "ephemeral",
               m.sender = n.sender, m.lamport = n.lamport
        PROVE  m = n
    BY <1>1, <2>3 DEF UniqueTimestamps
  <2> QED
    BY <2>1, <2>2, <2>3 DEF UniqueTimestamps
<1> QED
  BY <1>2, <1>3, <1>4, <1>5 DEF TimestampInv

LEMMA TimestampInvariance == Spec => []TimestampInv
  BY TimestampInit, TimestampStep, PTL DEF Spec

\* Whatever a message depends on was sent before it with a smaller timestamp:
\* the order of the local history extends the causal order at every participant.
THEOREM CausalTimestamps == Spec => []DependenciesPrecede
<1>1. TimestampInv => DependenciesPrecede
  BY DEF TimestampInv
<1> QED
  BY <1>1, TimestampInvariance, PTL

\* No two messages of a participant carry one timestamp, so that a retried
\* message is the very message that was sent before.
THEOREM TimestampsAreUnique == Spec => []UniqueTimestamps
<1>1. TimestampInv => UniqueTimestamps
  BY DEF TimestampInv
<1> QED
  BY <1>1, TimestampInvariance, PTL

-----------------------------------------------------------------------------
(* Justified deliveries. *)

Available(p, id) == IsMessageAvailable(p, id) \/ id \in announcedLost[p]

\* What a participant awaits confirmation for, or is sending, is as justified
\* as what it delivered: it enters the local history when its callback returns.
JustifiedInv ==
  \A p \in Participants :
    \A m \in localHistory[p] \cup outgoingBuffer[p] \cup sending[p] :
      \A d \in m.causalHistory : Available(p, d.id)

\* No message becomes unavailable.
AvailabilityStep ==
  \A p \in Participants, id \in Payloads : Available(p, id) => Available(p, id)'

LEMMA AvailableIfKept ==
  ASSUME NEW p \in Participants, NEW id \in Payloads, Available(p, id),
         \A m \in localHistory[p] : m.id \in Ids(localHistory'[p]),
         \A m \in incomingBuffer[p] :
           m.id = id => m \in incomingBuffer'[p] \/ m.id \in Ids(localHistory'[p]),
         announcedLost[p] \subseteq announcedLost'[p]
  PROVE  Available(p, id)'
  BY DEF Available, IsMessageAvailable, Ids

\* A buffered message with the id of a payload is a content message.
LEMMA BufferedPayload ==
  ASSUME TypeOK, NEW p \in Participants, NEW m \in incomingBuffer[p],
         m.id \in Payloads
  PROVE  m \in Content(incomingBuffer[p])
<1>1. m \in sent /\ m.kind # "ephemeral"
  BY DEF TypeOK
<1>2. WellFormed(m)
  BY <1>1 DEF TypeOK
<1>3. m.kind # "sync"
  <2> SUFFICES ASSUME m.kind = "sync" PROVE FALSE
    OBVIOUS
  <2>1. m.id = <<m.sender, m.lamport>> /\ m.sender \in Participants /\ m.lamport \in Nat
    BY <1>2 DEF WellFormed, SyncId
  <2>2. m.id \in Participants \X Nat
    BY <2>1
  <2> QED
    BY <2>2, SyncIdAssumption
<1> QED
  BY <1>1, <1>2, <1>3 DEF Content, WellFormed

\* The invariant is kept by a step that adds to the local history, to the
\* outgoing buffer and to `sending` only messages that are justified.
LEMMA JustifiedIfNew ==
  ASSUME TypeOK, JustifiedInv, AvailabilityStep,
         \A p \in Participants :
           \A m \in localHistory'[p] \cup outgoingBuffer'[p] \cup sending'[p] :
             \/ m \in localHistory[p] \cup outgoingBuffer[p] \cup sending[p]
             \/ \A d \in m.causalHistory : Available(p, d.id)'
  PROVE  JustifiedInv'
<1> SUFFICES ASSUME NEW p \in Participants,
                    NEW m \in localHistory'[p] \cup outgoingBuffer'[p] \cup sending'[p],
                    NEW d \in m.causalHistory,
                    m \in localHistory[p] \cup outgoingBuffer[p] \cup sending[p]
             PROVE  Available(p, d.id)'
  BY DEF JustifiedInv
<1>1. m \in sent
  BY DEF TypeOK, Content
<1>2. d.id \in Payloads
  BY <1>1 DEF TypeOK, WellFormed, Entries
<1> QED
  BY <1>2 DEF JustifiedInv, AvailabilityStep

LEMMA StillAvailable ==
  ASSUME UNCHANGED <<localHistory, incomingBuffer, announcedLost>>
  PROVE  /\ AvailabilityStep
         /\ \A p, id : Available(p, id)' <=> Available(p, id)
  BY DEF AvailabilityStep, Available, IsMessageAvailable

LEMMA StillJustified ==
  ASSUME TypeOK, JustifiedInv,
         UNCHANGED <<localHistory, incomingBuffer, announcedLost, outgoingBuffer,
                     sending>>
  PROVE  JustifiedInv'
  BY StillAvailable, JustifiedIfNew

LEMMA BeginSendJustified ==
  ASSUME TypeOK, JustifiedInv, NEW p \in Participants, BeginSend(p)
  PROVE  JustifiedInv'
<1>1. PICK x \in Payloads :
        /\ outgoingBuffer' = [outgoingBuffer EXCEPT ![p] = @ \cup MessagesToSend(p, x)]
        /\ sending' = [sending EXCEPT ![p] = @ \cup MessagesToSend(p, x)]
  BY BeginSendFacts
<1>2. UNCHANGED <<localHistory, incomingBuffer, announcedLost>>
  BY DEF BeginSend
<1>3. ASSUME NEW m \in MessagesToSend(p, x), m \notin outgoingBuffer[p],
             NEW d \in m.causalHistory
      PROVE  Available(p, d.id)
  <2>1. m = NewContentMessage(p, x)
    BY <1>3 DEF MessagesToSend, Outgoing
  <2>2. d \in CausalHistory(p)
    BY <1>3, <2>1, NewContentMessageFacts
  <2>3. PICK h \in localHistory[p] : d.id = h.id
    BY <2>2, CausalHistoryFacts
  <2> QED
    BY <2>3 DEF Available, IsMessageAvailable
<1>4. \A q \in Participants :
        \A m \in localHistory'[q] \cup outgoingBuffer'[q] \cup sending'[q] :
          \/ m \in localHistory[q] \cup outgoingBuffer[q] \cup sending[q]
          \/ q = p /\ m \in MessagesToSend(p, x) /\ m \notin outgoingBuffer[p]
  BY <1>1, <1>2 DEF TypeOK
<1> QED
  BY <1>2, <1>3, <1>4, StillAvailable, JustifiedIfNew

LEMMA EndSendJustified ==
  ASSUME TypeOK, JustifiedInv, NEW p \in Participants, NEW m \in sending[p],
         NEW outcome \in Outcomes, EndSend(p, m, outcome)
  PROVE  JustifiedInv'
<1>1. /\ sending' = [sending EXCEPT ![p] = @ \ {m}]
      /\ UNCHANGED <<outgoingBuffer, incomingBuffer, announcedLost>>
      /\ \/ localHistory' = [localHistory EXCEPT ![p] = Push(@, m)]
         \/ localHistory' = localHistory
  BY DEF EndSend
<1>2. /\ Push(localHistory[p], m) \subseteq localHistory[p] \cup {m}
      /\ \A h \in localHistory[p] : h.id \in Ids(Push(localHistory[p], m))
  BY DEF Push, Ids
<1>3. /\ \A q \in Participants : localHistory'[q] \subseteq
            localHistory[q] \cup (IF q = p THEN {m} ELSE {})
      /\ \A q \in Participants : \A h \in localHistory[q] : h.id \in Ids(localHistory'[q])
  <2>1. CASE localHistory' = localHistory
    BY <2>1 DEF Ids
  <2>2. CASE localHistory' = [localHistory EXCEPT ![p] = Push(@, m)]
    <3>1. localHistory'[p] = Push(localHistory[p], m)
      BY <2>2 DEF TypeOK
    <3>2. \A q \in Participants \ {p} : localHistory'[q] = localHistory[q]
      BY <2>2 DEF TypeOK
    <3> QED
      BY <1>2, <3>1, <3>2 DEF Ids
  <2> QED
    BY <1>1, <2>1, <2>2
<1>4. AvailabilityStep
  BY <1>1, <1>3, AvailableIfKept DEF AvailabilityStep
<1>5. \A q \in Participants :
        \A n \in localHistory'[q] \cup outgoingBuffer'[q] \cup sending'[q] :
          n \in localHistory[q] \cup outgoingBuffer[q] \cup sending[q]
  BY <1>1, <1>3 DEF TypeOK
<1> QED
  BY <1>4, <1>5, JustifiedIfNew

LEMMA ReceiveJustified ==
  ASSUME TypeOK, JustifiedInv, NEW p \in Participants, Receive(p)
  PROVE  JustifiedInv'
<1>1. sending' = sending
  BY ReceiveFacts
<1>2. CASE UNCHANGED channelVars
  BY <1>1, <1>2, StillJustified DEF channelVars
<1>3. ASSUME NEW m \in sent, Accepted(p, m)
      PROVE  JustifiedInv'
  <2>1. /\ \A q \in Participants : outgoingBuffer'[q] \subseteq outgoingBuffer[q]
        /\ announcedLost' = announcedLost
    BY <1>3, ReviewAckStatusType DEF Accepted
  <2>2. CASE MissingDependencies(p, m) # {}
    <3>1. /\ incomingBuffer' = [incomingBuffer EXCEPT ![p] = @ \cup {m}]
          /\ localHistory' = localHistory
      BY <1>3, <2>2 DEF Accepted
    <3>2. \A q \in Participants : incomingBuffer[q] \subseteq incomingBuffer'[q]
      BY <3>1 DEF TypeOK
    <3>3. AvailabilityStep
      BY <2>1, <3>1, <3>2 DEF AvailabilityStep, Available, IsMessageAvailable
    <3> QED
      BY <1>1, <2>1, <3>1, <3>3, JustifiedIfNew
  <2>3. CASE MissingDependencies(p, m) = {}
    <3>1. Deliver(p, {m}) /\ incomingBuffer' = incomingBuffer /\ {m} \in SUBSET sent
      BY <1>3, <2>3 DEF Accepted
    <3>2. /\ \A q \in Participants \ {p} : localHistory'[q] = localHistory[q]
          /\ localHistory[p] \subseteq localHistory'[p]
          /\ localHistory'[p] \subseteq localHistory[p] \cup {m}
      BY <3>1, DeliverFacts DEF Content
    <3>3. AvailabilityStep
      BY <2>1, <3>1, <3>2 DEF AvailabilityStep, Available, IsMessageAvailable
    <3>4. \A d \in m.causalHistory : Available(p, d.id)
      BY <2>3 DEF MissingDependencies, Available
    <3>5. \A d \in m.causalHistory : d.id \in Payloads
      BY DEF TypeOK, WellFormed, Entries
    <3>6. \A d \in m.causalHistory : Available(p, d.id)'
      BY <3>3, <3>4, <3>5 DEF AvailabilityStep
    <3>7. \A q \in Participants :
            \A n \in localHistory'[q] \cup outgoingBuffer'[q] \cup sending'[q] :
              \/ n \in localHistory[q] \cup outgoingBuffer[q] \cup sending[q]
              \/ q = p /\ n = m
      BY <1>1, <2>1, <3>2
    <3> QED
      BY <3>3, <3>6, <3>7, JustifiedIfNew
  <2> QED
    BY <2>2, <2>3
<1> QED
  BY <1>2, <1>3, ReceiveFacts

LEMMA SweepJustified ==
  ASSUME TypeOK, JustifiedInv, NEW p \in Participants, SweepIncomingBuffer(p)
  PROVE  JustifiedInv'
<1> DEFINE buffer == incomingBuffer[p]
           ready == {m \in buffer : MissingDependencies(p, m) = {}}
           expired == {m \in buffer \ ready :
                         /\ LostTimeout # 0
                         /\ m.id \in DOMAIN timeReceived[p]
                         /\ now - timeReceived[p][m.id] > LostTimeout}
           gone == ready \cup expired
           announced == UNION {Ids(MissingDependencies(p, m)) : m \in expired}
<1>1. /\ Deliver(p, gone)
      /\ incomingBuffer' = [incomingBuffer EXCEPT ![p] = @ \ gone]
      /\ announcedLost' = [announcedLost EXCEPT ![p] = @ \cup announced]
      /\ UNCHANGED <<outgoingBuffer, sending>>
  BY DEF SweepIncomingBuffer
<1>2. gone \subseteq incomingBuffer[p]
  OBVIOUS
<1>3. \A m \in gone : MissingDependencies(p, m) = {}
                      \/ Ids(MissingDependencies(p, m)) \subseteq announced
  OBVIOUS
<1> HIDE DEF ready, expired, gone, announced
<1>4. gone \in SUBSET sent
  BY <1>2 DEF TypeOK
<1>5. /\ \A q \in Participants \ {p} : localHistory'[q] = localHistory[q]
      /\ localHistory[p] \subseteq localHistory'[p]
      /\ localHistory'[p] \subseteq localHistory[p] \cup Content(gone)
      /\ \A m \in Content(gone) : m.id \in Ids(localHistory'[p])
  BY <1>1, <1>4, DeliverFacts
<1>6. /\ \A q \in Participants \ {p} : incomingBuffer'[q] = incomingBuffer[q]
      /\ incomingBuffer'[p] = incomingBuffer[p] \ gone
      /\ \A q \in Participants : announcedLost[q] \subseteq announcedLost'[q]
      /\ announced \subseteq announcedLost'[p]
  BY <1>1 DEF TypeOK
<1>7. AvailabilityStep
  <2> SUFFICES ASSUME NEW q \in Participants, NEW id \in Payloads, Available(q, id)
               PROVE  Available(q, id)'
    BY DEF AvailabilityStep
  <2>1. CASE q # p
    BY <1>5, <1>6, <2>1 DEF Available, IsMessageAvailable
  <2>2. CASE q = p
    <3>1. ASSUME NEW m \in incomingBuffer[p], m.id = id
          PROVE  m \in incomingBuffer'[p] \/ m.id \in Ids(localHistory'[p])
      <4>1. m \in Content(incomingBuffer[p])
        BY <3>1, BufferedPayload
      <4>2. m \in gone => m \in Content(gone)
        BY <4>1 DEF Content
      <4> QED
        BY <1>5, <1>6, <3>1, <4>2
    <3>2. \A m \in localHistory[p] : m.id \in Ids(localHistory'[p])
      BY <1>5 DEF Ids
    <3> QED
      BY <1>6, <2>2, <3>1, <3>2, AvailableIfKept
  <2> QED
    BY <2>1, <2>2
<1>8. ASSUME NEW m \in Content(gone), NEW d \in m.causalHistory
      PROVE  Available(p, d.id)'
  <2>1. m \in gone /\ m \in sent
    BY <1>4, <1>8 DEF Content
  <2>2. d.id \in Payloads
    BY <1>8, <2>1 DEF TypeOK, WellFormed, Entries
  <2>3. CASE d \notin MissingDependencies(p, m)
    BY <1>7, <1>8, <2>2, <2>3 DEF MissingDependencies, Available, AvailabilityStep
  <2>4. CASE d \in MissingDependencies(p, m)
    <3>1. d.id \in announced
      BY <1>3, <2>1, <2>4 DEF Ids
    <3> QED
      BY <1>6, <3>1 DEF Available
  <2> QED
    BY <2>3, <2>4
<1>9. \A q \in Participants :
        \A n \in localHistory'[q] \cup outgoingBuffer'[q] \cup sending'[q] :
          \/ n \in localHistory[q] \cup outgoingBuffer[q] \cup sending[q]
          \/ q = p /\ n \in Content(gone)
  BY <1>1, <1>5
<1> QED
  BY <1>7, <1>8, <1>9, JustifiedIfNew

LEMMA JustifiedStep == TypeOK /\ JustifiedInv /\ [Next]_vars => JustifiedInv'
<1> SUFFICES ASSUME TypeOK, JustifiedInv, [Next]_vars PROVE JustifiedInv'
  OBVIOUS
<1>1. ASSUME NEW p \in Participants, NEW x, \/ PushOutgoingMessage(p, x)
                                            \/ PushOutgoingEphemeralMessage(p, x)
                                            \/ PushIncomingMessage(p, x)
      PROVE  JustifiedInv'
  BY <1>1, StillJustified DEF PushOutgoingMessage, PushOutgoingEphemeralMessage,
     PushIncomingMessage, channelVars
<1>2. ASSUME NEW p \in Participants, ProcessTask(p)
      PROVE  JustifiedInv'
  <2>1. CASE SendEphemeral(p)
    BY <2>1, StillJustified DEF SendEphemeral, channelVars
  <2> QED
    BY <1>2, <2>1, BeginSendJustified, ReceiveJustified DEF ProcessTask
<1>3. ASSUME NEW p \in Participants, NEW m \in sending[p], NEW outcome \in Outcomes,
             EndSend(p, m, outcome)
      PROVE  JustifiedInv'
  BY <1>3, EndSendJustified
<1>4. ASSUME NEW p \in Participants, SweepIncomingBuffer(p)
      PROVE  JustifiedInv'
  BY <1>4, SweepJustified
<1>5. ASSUME NEW p \in Participants,
             SweepRepairIncomingBuffer(p) \/ PushOutgoingSyncMessage(p)
      PROVE  JustifiedInv'
  BY <1>5, StillJustified DEF SweepRepairIncomingBuffer, PushOutgoingSyncMessage
<1>6. ASSUME NEW m \in inTransit, Lose(m)
      PROVE  JustifiedInv'
  BY <1>6, StillJustified DEF Lose, channelVars
<1>7. CASE Tick \/ UNCHANGED vars
  BY <1>7, StillJustified DEF Tick, vars, channelVars
<1> QED
  BY <1>1, <1>2, <1>3, <1>4, <1>5, <1>6, <1>7 DEF Next

\* Every dependency of a delivered message was delivered, or received and
\* buffered, or announced as lost, however sends, receptions and sweeps
\* interleave.
THEOREM DeliveriesJustified == Spec => []HistoryJustified
<1>1. Init => JustifiedInv
  BY DEF Init, JustifiedInv
<1>2. TypeOK /\ JustifiedInv => HistoryJustified
  BY DEF JustifiedInv, HistoryJustified, Available
<1> QED
  BY <1>1, <1>2, TypeCorrect, JustifiedStep, PTL DEF Spec

-----------------------------------------------------------------------------
(* Acknowledgements, and the broadcast, when no bloom filter reports an id it
   does not hold. *)

\* A participant's filter has the id of whatever it holds, and whatever one of
\* its messages tells the others about it.
HeldInv ==
  /\ \A p \in Participants :
       /\ Ids(localHistory[p]) \subseteq filter[p]
       /\ Ids(Content(incomingBuffer[p])) \subseteq filter[p]
  /\ \A m \in sent : Ids(m.causalHistory) \cup m.bloom \subseteq filter[m.sender]

\* What every step does to the filters and to what is held.
HeldStep ==
  \A q \in Participants :
    /\ filter[q] \subseteq filter'[q]
    /\ Ids(localHistory'[q]) \subseteq
         Ids(localHistory[q]) \cup Ids(Content(incomingBuffer[q])) \cup filter'[q]
    /\ Ids(Content(incomingBuffer'[q])) \subseteq
         Ids(Content(incomingBuffer[q])) \cup filter'[q]

\* A step that leaves filters, histories and incoming buffers as they are.
LEMMA StillHeld ==
  ASSUME UNCHANGED <<filter, localHistory, incomingBuffer>>
  PROVE  HeldStep
  BY DEF HeldStep

\* A message sent with success joins the local history and the filter.
LEMMA EndSendHeld ==
  ASSUME TypeOK, NEW p \in Participants, NEW m \in sending[p],
         NEW outcome \in Outcomes, EndSend(p, m, outcome)
  PROVE  HeldStep
<1>1. incomingBuffer' = incomingBuffer
  BY DEF EndSend
<1>2. CASE UNCHANGED <<filter, localHistory>>
  BY <1>1, <1>2, StillHeld
<1>3. CASE /\ filter' = [filter EXCEPT ![p] = @ \cup {m.id}]
           /\ localHistory' = [localHistory EXCEPT ![p] = Push(@, m)]
  <2>1. Ids(Push(localHistory[p], m)) \subseteq Ids(localHistory[p]) \cup {m.id}
    BY DEF Push, Ids
  <2>2. /\ filter'[p] = filter[p] \cup {m.id}
        /\ localHistory'[p] = Push(localHistory[p], m)
        /\ \A q \in Participants \ {p} :
             filter'[q] = filter[q] /\ localHistory'[q] = localHistory[q]
    BY <1>3 DEF TypeOK
  <2> QED
    BY <1>1, <2>1, <2>2 DEF HeldStep
<1> QED
  BY <1>2, <1>3 DEF EndSend

\* An accepted message joins the filter before it is buffered or delivered.
LEMMA AcceptedHeld ==
  ASSUME TypeOK, NEW p \in Participants, NEW m \in sent, Accepted(p, m)
  PROVE  HeldStep
<1>1. /\ filter[p] \subseteq filter'[p]
      /\ m.kind = "content" => m.id \in filter'[p]
      /\ \A q \in Participants \ {p} : filter'[q] = filter[q]
  BY DEF Accepted, TypeOK
<1>2. CASE MissingDependencies(p, m) # {}
  <2>1. /\ incomingBuffer' = [incomingBuffer EXCEPT ![p] = @ \cup {m}]
        /\ localHistory' = localHistory
    BY <1>2 DEF Accepted
  <2>2. /\ incomingBuffer'[p] = incomingBuffer[p] \cup {m}
        /\ \A q \in Participants \ {p} : incomingBuffer'[q] = incomingBuffer[q]
    BY <2>1 DEF TypeOK
  <2>3. Ids(Content(incomingBuffer'[p])) \subseteq
          Ids(Content(incomingBuffer[p])) \cup filter'[p]
    BY <1>1, <2>2 DEF Ids, Content
  <2> QED
    BY <1>1, <2>1, <2>2, <2>3 DEF HeldStep
<1>3. CASE MissingDependencies(p, m) = {}
  <2>1. Deliver(p, {m}) /\ incomingBuffer' = incomingBuffer /\ {m} \in SUBSET sent
    BY <1>3 DEF Accepted
  <2>2. /\ \A q \in Participants \ {p} : localHistory'[q] = localHistory[q]
        /\ localHistory'[p] \subseteq localHistory[p] \cup Content({m})
    BY <2>1, DeliverFacts
  <2>3. Ids(localHistory'[p]) \subseteq Ids(localHistory[p]) \cup filter'[p]
    BY <1>1, <2>2 DEF Ids, Content
  <2> QED
    BY <1>1, <2>1, <2>2, <2>3 DEF HeldStep
<1> QED
  BY <1>2, <1>3

\* A sweep delivers what the incoming buffer held, hence what the filter has.
LEMMA SweepHeld ==
  ASSUME TypeOK, NEW p \in Participants, SweepIncomingBuffer(p)
  PROVE  HeldStep
<1>1. PICK gone \in SUBSET incomingBuffer[p] :
        /\ Deliver(p, gone)
        /\ incomingBuffer' = [incomingBuffer EXCEPT ![p] = @ \ gone]
  BY DEF SweepIncomingBuffer
<1>2. filter' = filter /\ gone \in SUBSET sent
  BY DEF SweepIncomingBuffer, TypeOK
<1>3. /\ \A q \in Participants \ {p} : localHistory'[q] = localHistory[q]
      /\ localHistory'[p] \subseteq localHistory[p] \cup Content(gone)
  BY <1>1, <1>2, DeliverFacts
<1>4. /\ incomingBuffer'[p] = incomingBuffer[p] \ gone
      /\ \A q \in Participants \ {p} : incomingBuffer'[q] = incomingBuffer[q]
  BY <1>1 DEF TypeOK
<1>5. /\ Ids(localHistory'[p]) \subseteq
           Ids(localHistory[p]) \cup Ids(Content(incomingBuffer[p]))
      /\ Ids(Content(incomingBuffer'[p])) \subseteq Ids(Content(incomingBuffer[p]))
  BY <1>1, <1>3, <1>4 DEF Ids, Content
<1> QED
  BY <1>2, <1>3, <1>4, <1>5 DEF HeldStep

\* Every step of the channel is a HeldStep.
LEMMA NextHeld == TypeOK /\ [Next]_vars => HeldStep
<1> SUFFICES ASSUME TypeOK, [Next]_vars PROVE HeldStep
  OBVIOUS
<1>1. ASSUME NEW p \in Participants, NEW x, \/ PushOutgoingMessage(p, x)
                                            \/ PushOutgoingEphemeralMessage(p, x)
                                            \/ PushIncomingMessage(p, x)
      PROVE  HeldStep
  BY <1>1, StillHeld DEF PushOutgoingMessage, PushOutgoingEphemeralMessage,
     PushIncomingMessage, channelVars
<1>2. ASSUME NEW p \in Participants, Receive(p)
      PROVE  HeldStep
  <2>1. CASE UNCHANGED channelVars
    BY <2>1, StillHeld DEF channelVars
  <2> QED
    BY <1>2, <2>1, ReceiveFacts, AcceptedHeld
<1>3. ASSUME NEW p \in Participants, BeginSend(p) \/ SendEphemeral(p)
      PROVE  HeldStep
  BY <1>3, StillHeld DEF BeginSend, SendEphemeral, channelVars
<1>4. ASSUME NEW p \in Participants, NEW m \in sending[p], NEW outcome \in Outcomes,
             EndSend(p, m, outcome)
      PROVE  HeldStep
  BY <1>4, EndSendHeld
<1>5. ASSUME NEW p \in Participants, SweepIncomingBuffer(p)
      PROVE  HeldStep
  BY <1>5, SweepHeld
<1>6. ASSUME NEW p \in Participants,
             SweepRepairIncomingBuffer(p) \/ PushOutgoingSyncMessage(p)
      PROVE  HeldStep
  BY <1>6, StillHeld DEF SweepRepairIncomingBuffer, PushOutgoingSyncMessage
<1>7. ASSUME NEW m, Lose(m)
      PROVE  HeldStep
  BY <1>7, StillHeld DEF Lose, channelVars
<1>8. CASE Tick \/ UNCHANGED vars
  BY <1>8, StillHeld DEF Tick, vars, channelVars
<1> QED
  BY <1>1, <1>2, <1>3, <1>4, <1>5, <1>6, <1>7, <1>8 DEF Next, ProcessTask

\* A fresh message speaks of its sender's filter and local history.
LEMMA FreshSpeaksTruly ==
  ASSUME TypeOK, TypeOK', HeldInv, HeldStep, ClockStep, NEW m \in sent' \ sent
  PROVE  Ids(m.causalHistory) \cup m.bloom \subseteq filter'[m.sender]
<1>1. Fresh(m) /\ m.sender \in Participants
  BY DEF ClockStep, TypeOK, WellFormed
<1>2. CASE m.causalHistory = {} /\ m.bloom = {}
  BY <1>2 DEF Ids
<1>3. CASE m.causalHistory = CausalHistory(m.sender) /\ m.bloom = filter[m.sender]
  <2>1. \A d \in m.causalHistory : \E h \in localHistory[m.sender] : d.id = h.id
    BY <1>1, <1>3, CausalHistoryFacts
  <2>2. Ids(m.causalHistory) \subseteq Ids(localHistory[m.sender])
    BY <2>1 DEF Ids
  <2> QED
    BY <1>1, <1>3, <2>2 DEF HeldInv, HeldStep
<1> QED
  BY <1>1, <1>2, <1>3 DEF Fresh

\* HeldInv is inductive, relative to the timestamps' invariant.
LEMMA HeldInvStep == TimestampInv /\ TimestampInv' /\ HeldInv /\ [Next]_vars => HeldInv'
<1> SUFFICES ASSUME TimestampInv, TimestampInv', HeldInv, [Next]_vars PROVE HeldInv'
  OBVIOUS
<1>1. TypeOK /\ TypeOK' /\ HeldStep /\ ClockStep
  BY NextHeld, NextClock DEF TimestampInv
<1>2. ASSUME NEW p \in Participants
      PROVE  /\ Ids(localHistory'[p]) \subseteq filter'[p]
             /\ Ids(Content(incomingBuffer'[p])) \subseteq filter'[p]
  BY <1>1 DEF HeldInv, HeldStep
<1>3. ASSUME NEW m \in sent'
      PROVE  Ids(m.causalHistory) \cup m.bloom \subseteq filter'[m.sender]
  <2>1. CASE m \in sent
    <3>1. m.sender \in Participants
      BY <1>1, <2>1 DEF TypeOK, WellFormed
    <3> QED
      BY <1>1, <2>1, <3>1 DEF HeldInv, HeldStep
  <2> QED
    BY <1>1, <1>3, <2>1, FreshSpeaksTruly
<1>4. (\A p \in Participants :
         /\ Ids(localHistory[p]) \subseteq filter[p]
         /\ Ids(Content(incomingBuffer[p])) \subseteq filter[p])'
  BY <1>2 DEF Ids, Content
<1> QED
  BY <1>3, <1>4 DEF HeldInv, Ids

\* The invariant of the acknowledgements.
TruthInv == TimestampInv /\ HeldInv

LEMMA TruthInvariance == Spec => []TruthInv
<1>1. Init => HeldInv
  BY DEF Init, HeldInv, Ids, Content
<1> QED
  BY <1>1, TimestampInit, TimestampStep, HeldInvStep, PTL DEF Spec, TruthInv

-----------------------------------------------------------------------------
(* Acknowledgements. *)

\* What reviewAckStatus removes from the outgoing buffer is held by the sender
\* of the message it reviews.
LEMMA AckedByHolder ==
  ASSUME TypeOK, HeldInv, FalsePositives = {}, NEW p \in Participants,
         NEW m \in sent, NEW o \in AckedByHistory(p, m) \cup AckedByBloom(p, m)
  PROVE  o.id \in filter[m.sender]
<1>1. CASE o \in AckedByHistory(p, m)
  BY <1>1 DEF AckedByHistory, HeldInv
<1>2. CASE o \in AckedByBloom(p, m)
  BY <1>2 DEF AckedByBloom, PossiblyAcked, HeldInv
<1> QED
  BY <1>1, <1>2

\* Only the reception of a message of another participant shrinks an outgoing
\* buffer, and what it removes is held by that participant.
LEMMA ReceiveAcks ==
  ASSUME TypeOK, HeldInv, FalsePositives = {}, NEW p \in Participants,
         NEW m \in sent, Accepted(p, m)
  PROVE  /\ m.sender \in Participants \ {p}
         /\ \A q \in Participants \ {p} : outgoingBuffer'[q] = outgoingBuffer[q]
         /\ outgoingBuffer'[p] \subseteq outgoingBuffer[p]
         /\ \A o \in outgoingBuffer[p] \ outgoingBuffer'[p] : o.id \in filter[m.sender]
<1>1. m.sender \in Participants \ {p}
  BY DEF Accepted, Ignored, TypeOK, WellFormed
<1> DEFINE acked == AckedByHistory(p, m) \cup AckedByBloom(p, m)
<1>2. outgoingBuffer' = [outgoingBuffer EXCEPT ![p] = @ \ acked]
  BY DEF Accepted, ReviewAckStatus
<1>3. \A o \in acked : o.id \in filter[m.sender]
  BY AckedByHolder
<1> HIDE DEF acked
<1> QED
  BY <1>1, <1>2, <1>3 DEF TypeOK

\* Every step but a reception keeps what the outgoing buffers hold.
LEMMA OthersKeepOutgoing ==
  ASSUME TypeOK, [Next]_vars, \A p \in Participants : ~Receive(p)
  PROVE  \A p \in Participants : outgoingBuffer[p] \subseteq outgoingBuffer'[p]
<1>1. ASSUME NEW p \in Participants, BeginSend(p)
      PROVE  \A q \in Participants : outgoingBuffer[q] \subseteq outgoingBuffer'[q]
  <2>1. PICK messages :
          outgoingBuffer' = [outgoingBuffer EXCEPT ![p] = @ \cup messages]
    BY <1>1, BeginSendFacts
  <2> QED
    BY <2>1 DEF TypeOK
<1>2. CASE outgoingBuffer' = outgoingBuffer
  BY <1>2
<1>3. ASSUME NEW p \in Participants, NEW x, \/ PushOutgoingMessage(p, x)
                                            \/ PushOutgoingEphemeralMessage(p, x)
                                            \/ PushIncomingMessage(p, x)
                                            \/ Lose(x)
      PROVE  outgoingBuffer' = outgoingBuffer
  BY <1>3 DEF PushOutgoingMessage, PushOutgoingEphemeralMessage,
     PushIncomingMessage, Lose, channelVars
<1>4. ASSUME NEW p \in Participants, \/ SendEphemeral(p)
                                     \/ SweepIncomingBuffer(p)
                                     \/ SweepRepairIncomingBuffer(p)
                                     \/ PushOutgoingSyncMessage(p)
      PROVE  outgoingBuffer' = outgoingBuffer
  BY <1>4 DEF SendEphemeral, SweepIncomingBuffer, SweepRepairIncomingBuffer,
     PushOutgoingSyncMessage, channelVars
<1>5. ASSUME NEW p \in Participants, NEW m, NEW outcome, EndSend(p, m, outcome)
      PROVE  outgoingBuffer' = outgoingBuffer
  BY <1>5 DEF EndSend
<1>6. ASSUME Tick \/ UNCHANGED vars
      PROVE  outgoingBuffer' = outgoingBuffer
  BY <1>6 DEF Tick, vars, channelVars
<1>7. ASSUME NEW m, Lose(m)
      PROVE  outgoingBuffer' = outgoingBuffer
  BY <1>7 DEF Lose, channelVars
<1> QED
  BY <1>1, <1>2, <1>3, <1>4, <1>5, <1>6, <1>7 DEF Next, ProcessTask

\* An acknowledged message is held by another participant.
LEMMA AcksTrue ==
  ASSUME TypeOK, HeldInv, FalsePositives = {}, [Next]_vars, NEW p \in Participants,
         NEW o \in outgoingBuffer[p] \ outgoingBuffer'[p]
  PROVE  \E q \in Participants \ {p} : o.id \in filter[q]
<1>1. PICK r \in Participants : Receive(r)
  BY OthersKeepOutgoing
<1>2. ~UNCHANGED channelVars
  BY DEF channelVars
<1>3. PICK m \in sent : Accepted(r, m)
  BY <1>1, <1>2, ReceiveFacts
<1> QED
  BY <1>3, ReceiveAcks

\* A message leaves its sender's outgoing buffer, and its user is told of the
\* acknowledgement, only when another participant received it.
THEOREM AcknowledgementsTrue ==
  ASSUME FalsePositives = {}
  PROVE  Spec => AckedWasReceived
<1>1. TruthInv /\ [Next]_vars =>
        [\A p \in Participants : \A o \in outgoingBuffer[p] \ outgoingBuffer'[p] :
           \E q \in Participants \ {p} : o.id \in filter[q]]_vars
  BY AcksTrue DEF TruthInv, TimestampInv
<1> QED
  BY <1>1, TruthInvariance, PTL DEF Spec, AckedWasReceived

-----------------------------------------------------------------------------
(* Refinement. *)

published == Ids({n \in sent : n.kind = "content"})
pendingIds == [p \in Participants |-> Ids(outgoingBuffer[p])]

\* A step that sends no content and changes neither filters nor outgoing
\* buffers is a stutter of the broadcast.
LEMMA StillBroadcast ==
  ASSUME UNCHANGED <<filter, outgoingBuffer>>, Content(sent)' = Content(sent)
  PROVE  UNCHANGED Broadcast!vars
  BY DEF Broadcast!vars, Content, Ids

\* The first part of a send publishes its payload.
LEMMA BeginSendPublishes ==
  ASSUME TypeOK, NEW p \in Participants, BeginSend(p)
  PROVE  \E x \in Payloads : Broadcast!Publish(p, x)
<1>1. PICK x \in Payloads :
        /\ outgoingBuffer' = [outgoingBuffer EXCEPT ![p] = @ \cup MessagesToSend(p, x)]
        /\ sent' = sent \cup MessagesToSend(p, x)
  BY BeginSendFacts
<1>2. filter' = filter
  BY DEF BeginSend
<1>3. /\ MessagesToSend(p, x) # {}
      /\ \A m \in MessagesToSend(p, x) : m.id = x /\ m.kind = "content"
  BY NewContentMessageFacts DEF MessagesToSend, Outgoing, TypeOK, Content
<1>4. published' = published \cup {x}
  BY <1>1, <1>3 DEF published, Ids
<1>5. pendingIds' = [pendingIds EXCEPT ![p] = @ \cup {x}]
  <2>1. /\ outgoingBuffer'[p] = outgoingBuffer[p] \cup MessagesToSend(p, x)
        /\ \A q \in Participants \ {p} : outgoingBuffer'[q] = outgoingBuffer[q]
    BY <1>1 DEF TypeOK
  <2>2. Ids(MessagesToSend(p, x)) = {x}
    BY <1>3 DEF Ids
  <2>3. Ids(outgoingBuffer'[p]) = Ids(outgoingBuffer[p]) \cup {x}
    BY <2>1, <2>2 DEF Ids
  <2> QED
    BY <2>1, <2>3 DEF pendingIds, Ids
<1> QED
  BY <1>2, <1>4, <1>5 DEF Broadcast!Publish, published, pendingIds, Ids

\* The success of a send takes the message into its sender's filter.
LEMMA EndSendTakesIn ==
  ASSUME TypeOK, NEW p \in Participants, NEW m \in sending[p],
         NEW outcome \in Outcomes, EndSend(p, m, outcome)
  PROVE  Broadcast!Next \/ UNCHANGED Broadcast!vars
<1>1. UNCHANGED <<outgoingBuffer, sent>>
  BY DEF EndSend
<1>2. m \in Content(sent) /\ m.id \in Payloads
  BY DEF TypeOK, Content, WellFormed
<1>3. CASE filter' = filter
  BY <1>1, <1>3, StillBroadcast DEF Content
<1>4. CASE filter' = [filter EXCEPT ![p] = @ \cup {m.id}]
  <2>1. Broadcast!TakeIn(p, {m.id}, {})
    BY <1>1, <1>2, <1>4 DEF Broadcast!TakeIn, Ids, Content
  <2>2. {m.id} \in SUBSET Payloads /\ {} \in SUBSET Payloads
    BY <1>2
  <2> QED
    BY <2>1, <2>2 DEF Broadcast!Next
<1> QED
  BY <1>3, <1>4 DEF EndSend

\* The reception of a message takes it in and confirms what it acknowledges.
LEMMA AcceptedTakesIn ==
  ASSUME TypeOK, HeldInv, FalsePositives = {}, NEW p \in Participants,
         NEW m \in sent, Accepted(p, m), sent' = sent
  PROVE  Broadcast!Next
<1> DEFINE taken == IF m.kind = "content" THEN {m.id} ELSE {}
           confirmed == Ids(outgoingBuffer[p] \ outgoingBuffer'[p])
                        \ Ids(outgoingBuffer'[p])
<1>1. filter' = [filter EXCEPT ![p] = @ \cup taken]
  BY DEF Accepted
<1>2. taken \subseteq published /\ taken \in SUBSET Payloads
  BY DEF published, Ids, TypeOK, WellFormed
<1>3. /\ m.sender \in Participants \ {p}
      /\ \A q \in Participants \ {p} : outgoingBuffer'[q] = outgoingBuffer[q]
      /\ outgoingBuffer'[p] \subseteq outgoingBuffer[p]
      /\ \A o \in outgoingBuffer[p] \ outgoingBuffer'[p] : o.id \in filter[m.sender]
  BY ReceiveAcks
<1>4. \A x \in confirmed : \E q \in Participants \ {p} : x \in filter[q]
  BY <1>3 DEF Ids
<1>5. confirmed \in SUBSET Payloads
  BY DEF TypeOK, Content, WellFormed, Ids
<1>6. pendingIds' = [pendingIds EXCEPT ![p] = @ \ confirmed]
  <2>1. Ids(outgoingBuffer'[p]) = Ids(outgoingBuffer[p]) \ confirmed
    BY <1>3 DEF Ids
  <2> HIDE DEF confirmed
  <2>2. \A q \in Participants : Ids(outgoingBuffer'[q]) =
          IF q = p THEN Ids(outgoingBuffer[q]) \ confirmed ELSE Ids(outgoingBuffer[q])
    BY <1>3, <2>1
  <2> QED
    BY <2>2 DEF pendingIds, Ids
<1> HIDE DEF taken, confirmed
<1>7. Broadcast!TakeIn(p, taken, confirmed)
  BY <1>1, <1>2, <1>4, <1>6 DEF Broadcast!TakeIn, published, pendingIds, Ids
<1> QED
  BY <1>2, <1>5, <1>7 DEF Broadcast!Next

\* Every step of the channel is a step or a stutter of the broadcast.
LEMMA StepSimulation ==
  ASSUME TypeOK, HeldInv, FalsePositives = {}, [Next]_vars
  PROVE  [Broadcast!Next]_(Broadcast!vars)
<1>1. ASSUME NEW p \in Participants, NEW x, \/ PushOutgoingMessage(p, x)
                                            \/ PushOutgoingEphemeralMessage(p, x)
                                            \/ PushIncomingMessage(p, x)
      PROVE  UNCHANGED Broadcast!vars
  BY <1>1, StillBroadcast DEF PushOutgoingMessage, PushOutgoingEphemeralMessage,
     PushIncomingMessage, channelVars, Content
<1>2. ASSUME NEW p \in Participants, BeginSend(p)
      PROVE  Broadcast!Next
  BY <1>2, BeginSendPublishes DEF Broadcast!Next
<1>3. ASSUME NEW p \in Participants, SendEphemeral(p)
      PROVE  UNCHANGED Broadcast!vars
  <2>1. Content(sent)' = Content(sent)
    BY <1>3 DEF SendEphemeral, Transmit, Content
  <2> QED
    BY <1>3, <2>1, StillBroadcast DEF SendEphemeral, channelVars
<1>4. ASSUME NEW p \in Participants, Receive(p)
      PROVE  Broadcast!Next \/ UNCHANGED Broadcast!vars
  <2>1. CASE UNCHANGED channelVars
    BY <1>4, <2>1, ReceiveFacts, StillBroadcast DEF channelVars, Content
  <2> QED
    BY <1>4, <2>1, ReceiveFacts, AcceptedTakesIn
<1>5. ASSUME NEW p \in Participants, NEW m \in sending[p], NEW outcome \in Outcomes,
             EndSend(p, m, outcome)
      PROVE  Broadcast!Next \/ UNCHANGED Broadcast!vars
  BY <1>5, EndSendTakesIn
<1>6. ASSUME NEW p \in Participants, SweepIncomingBuffer(p)
      PROVE  UNCHANGED Broadcast!vars
  BY <1>6, StillBroadcast DEF SweepIncomingBuffer, Content
<1>7. ASSUME NEW p \in Participants, SweepRepairIncomingBuffer(p)
      PROVE  UNCHANGED Broadcast!vars
  <2>1. sent' = sent
    BY <1>7 DEF SweepRepairIncomingBuffer, Transmit, TypeOK, Content
  <2> QED
    BY <1>7, <2>1, StillBroadcast DEF SweepRepairIncomingBuffer, Content
<1>8. ASSUME NEW p \in Participants, PushOutgoingSyncMessage(p)
      PROVE  UNCHANGED Broadcast!vars
  <2>1. Content(sent)' = Content(sent)
    BY <1>8, SyncFacts, SyncMessageFacts DEF Transmit, Content
  <2> QED
    BY <1>8, <2>1, SyncFacts, StillBroadcast
<1>9. ASSUME NEW m, Lose(m)
      PROVE  UNCHANGED Broadcast!vars
  BY <1>9, StillBroadcast DEF Lose, channelVars, Content
<1>10. CASE Tick \/ UNCHANGED vars
  BY <1>10, StillBroadcast DEF Tick, vars, channelVars, Content
<1> QED
  BY <1>1, <1>2, <1>3, <1>4, <1>5, <1>6, <1>7, <1>8, <1>9, <1>10
     DEF Next, ProcessTask

\* The channel is a reliable broadcast: participants hold only what was
\* published, for good, and a sender's message is confirmed only when another
\* participant holds it.
THEOREM ChannelIsBroadcast ==
  ASSUME FalsePositives = {}
  PROVE  Spec => ImplementsBroadcast
<1>1. Init => Broadcast!Init
  BY DEF Init, Broadcast!Init, Ids
<1>2. TruthInv /\ [Next]_vars => [Broadcast!Next]_(Broadcast!vars)
  BY StepSimulation DEF TruthInv, TimestampInv
<1> QED
  BY <1>1, <1>2, TruthInvariance, PTL DEF Spec, ImplementsBroadcast, Broadcast!Spec
=============================================================================
