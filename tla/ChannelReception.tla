---------------------------- MODULE ChannelReception ----------------------------
(***************************************************************************)
(* The receiving half of a ReliableChannel (sdk/src/reliable_channel): how *)
(* messages reach the SDS channel, the timer that processes them, what its *)
(* SyncStatus tells the application and what its MissingMessageRetriever   *)
(* asks the store for.  The SDS channel itself is MessageChannel.tla; here *)
(* it is the set of messages it has delivered or buffers.                  *)
(***************************************************************************)
EXTENDS Naturals, Sequences, FiniteSets, SequencesExt

CONSTANTS
  Contents,   \* content messages of the other participants
  DependsOn,  \* for each message, its causal history
  Hinted,     \* messages that histories name with a retrieval hint
  Stored,     \* messages that the store can return
  MayTimeOut, \* timeoutForLostMessagesMs is set
  MaxQueries, \* bound: store queries at the same time
  MaxTasks,   \* bound: the queue of SDS tasks, one place kept for the store
  MaxSessions \* bound: calls of start

ASSUME DependsAssumption == DependsOn \in [Contents -> SUBSET Contents]

VARIABLES
  listening, \* _started, and whether the channel listens to its MessageChannel
  closing,   \* what stop() waits for
  inbox,     \* received messages queued in the MessageChannel
  processTimer, \* processTaskTimeout is set
  draining,  \* processTasks is about to continue
  sds,       \* the MessageChannel: delivered, buffered, and with a time received
  status,    \* SyncStatus
  wanted,    \* missingMessages of the retriever
  interval,  \* its timer runs
  queries,   \* its queries: open, and what they still return
  active,    \* its activeQueryPromise, 0 without
  awaited,   \* the query stop() awaits, 0 without
  sessions   \* calls of start

receiving == <<inbox, processTimer>>
retriever == <<wanted, interval, queries, active, awaited>>
receptionVars == <<listening, closing, receiving, draining, sds, status, retriever, sessions>>

Closed == [open |-> FALSE, left |-> {}]

ReceptionInit ==
  /\ listening = FALSE /\ closing = "no"
  /\ inbox = <<>> /\ processTimer = FALSE /\ draining = FALSE
  /\ sds = [history |-> {}, buffer |-> {}, timed |-> {}]
  /\ status = [received |-> {}, missing |-> {}, lost |-> {},
               scheduled |-> FALSE, cleaned |-> FALSE, last |-> "none"]
  /\ wanted = {} /\ interval = FALSE
  /\ queries = [n \in 1..MaxQueries |-> Closed]
  /\ active = 0 /\ awaited = 0
  /\ sessions = 0

\* No microtask is left: a timer or an answer of the network may run.
Idle == ~draining /\ ~status.scheduled

(***************************************************************************)
(* SyncStatus.                                                             *)
(***************************************************************************)
OnReceived(s, m) ==
  [s EXCEPT !.missing = @ \ {m}, !.lost = @ \ {m}, !.received = @ \union {m},
            !.scheduled = TRUE]

\* OnMissingAgain does not look at what was received or lost.
OnMissingAgain(s, ms) ==
  [s EXCEPT !.missing = @ \union ms, !.scheduled = TRUE]
OnMissing(s, ms) ==
  [s EXCEPT !.missing = @ \union (ms \ (s.received \union s.lost)),
            !.scheduled = TRUE]

OnLost(s, ms) ==
  [s EXCEPT !.missing = @ \ ms, !.lost = @ \union ms, !.scheduled = TRUE]

\* SyncedByReceipt takes any received message for a synced channel.
SyncedByReceipt(s) == IF s.received = {} THEN "syncing" ELSE "synced"
Current(s) == IF s.missing = {} THEN "synced" ELSE "syncing"

\* The microtask of scheduleSend.
SendStatus ==
  /\ status.scheduled
  /\ status' = [status EXCEPT !.scheduled = FALSE,
                  !.last = IF status.cleaned THEN @ ELSE Current(status)]
  /\ UNCHANGED <<listening, closing, receiving, draining, sds, retriever, sessions>>

(***************************************************************************)
(* Messages on their way into the MessageChannel.                          *)
(***************************************************************************)
\* StillWanted forgets removeMissingMessage; NoneWanted clears the whole map.
NoneWanted(m) == {}
StillWanted(m) == wanted
Unwanted(m) == wanted \ {m}

ProcessIncomingMessage(m) ==
  /\ Len(inbox) < MaxTasks
  /\ inbox' = Append(inbox, m)
  /\ wanted' = Unwanted(m)
  /\ processTimer' = (processTimer \/ listening)

\* The callback of the filter subscription.
Arrive(m) ==
  /\ Idle /\ listening /\ Len(inbox) < MaxTasks - 1
  /\ ProcessIncomingMessage(m)
  /\ UNCHANGED <<listening, closing, draining, sds, status, interval, queries,
                 active, awaited, sessions>>

ProcessTimerFires ==
  /\ Idle /\ processTimer
  /\ processTimer' = FALSE
  /\ draining' = TRUE
  /\ UNCHANGED <<listening, closing, inbox, sds, status, retriever, sessions>>

\* A send or a sync message processes the queue too.
ProcessTasks ==
  /\ Idle /\ inbox # <<>>
  /\ draining' = TRUE
  /\ UNCHANGED <<listening, closing, receiving, sds, status, retriever, sessions>>

Missing(m) == DependsOn[m] \ (sds.history \union sds.buffer)

\* onMissing of the channel: of the missing messages, the retriever wants
\* those with a hint.
Want(ms) == wanted \union (ms \intersect Hinted)

Ignored == sds.timed

\* _pushIncomingMessage, and the channel's listeners for what it emits. One's
\* own messages leave no trace here (MessageChannel.tla).
Receive(m) ==
  IF m \in Ignored
  THEN UNCHANGED <<sds, status, wanted>>
  ELSE LET missing == Missing(m) IN
       /\ sds' = IF missing = {}
                 THEN [sds EXCEPT !.history = @ \union {m}]
                 ELSE [sds EXCEPT !.buffer = @ \union {m},
                                  !.timed = @ \union {m}]
       /\ wanted' = IF listening THEN Want(missing) ELSE wanted
       /\ status' = IF ~listening THEN status
                    ELSE IF missing = {} THEN OnReceived(status, m)
                    ELSE OnMissing(OnReceived(status, m), missing)

Drain ==
  /\ draining
  /\ \/ /\ inbox = <<>>
        /\ draining' = FALSE
        /\ UNCHANGED <<inbox, sds, status, wanted>>
     \/ /\ inbox # <<>>
        /\ inbox' = Tail(inbox)
        /\ Receive(Head(inbox))
        /\ UNCHANGED draining
  /\ UNCHANGED <<listening, closing, processTimer, interval, queries,
                 active, awaited, sessions>>

\* sweepIncomingBuffer, when the messages late have waited too long. The timer
\* of a second start outlives the channel (ReliableChannel.tla).
Sweep(late) ==
  LET ready == {m \in sds.buffer : Missing(m) = {}}
      given == {m \in late \intersect sds.buffer : Missing(m) # {}}
      kept == sds.buffer \ (ready \union given)
      lost == UNION {Missing(m) : m \in given}
      missing == UNION {Missing(m) : m \in kept}
  IN
  /\ Idle /\ (listening \/ sessions > 1)
  /\ late # {} => MayTimeOut
  /\ sds' = [sds EXCEPT !.buffer = kept, !.history = @ \union ready \union given]
  /\ wanted' = IF listening THEN Want(missing) ELSE wanted
  /\ status' = IF ~listening THEN status
               ELSE OnMissing(IF given = {} THEN status ELSE OnLost(status, lost),
                              missing)
  /\ UNCHANGED <<listening, closing, receiving, draining, interval, queries,
                 active, awaited, sessions>>

(***************************************************************************)
(* The retriever.                                                          *)
(***************************************************************************)
RetrieveMissingMessage ==
  /\ Idle /\ interval /\ wanted # {}
  /\ \E n \in 1..MaxQueries :
       /\ ~queries[n].open
       /\ \A k \in 1..(n - 1) : queries[k].open
       /\ queries' = [queries EXCEPT ![n] = [open |-> TRUE,
                                             left |-> wanted \intersect Stored]]
       /\ active' = n
  /\ UNCHANGED <<listening, closing, receiving, draining, sds, status, wanted,
                 interval, awaited, sessions>>

\* A page of query n has m. An aborted query still returns the page it has.
Retrieved(n, m) ==
  /\ Idle /\ queries[n].open /\ m \in queries[n].left
  /\ queries' = [queries EXCEPT ![n].left = @ \ {m}]
  /\ ProcessIncomingMessage(m)
  /\ UNCHANGED <<listening, closing, draining, sds, status, interval, active,
                 awaited, sessions>>

\* Complete, aborted or failed.
EndQuery(n) ==
  /\ Idle /\ queries[n].open
  /\ queries' = [queries EXCEPT ![n] = Closed]
  /\ active' = 0
  /\ UNCHANGED <<listening, closing, receiving, draining, sds, status, wanted,
                 interval, awaited, sessions>>

(***************************************************************************)
(* start and stop.                                                         *)
(***************************************************************************)
StartReception ==
  /\ Idle /\ ~listening /\ closing = "no" /\ sessions < MaxSessions
  /\ listening' = TRUE /\ interval' = TRUE
  /\ sessions' = sessions + 1
  /\ UNCHANGED <<closing, receiving, draining, sds, status, wanted, queries,
                 active, awaited>>

StopReception ==
  /\ listening
  /\ listening' = FALSE
  /\ processTimer' = FALSE
  /\ closing' = "tasks"
  /\ UNCHANGED <<inbox, draining, sds, status, retriever, sessions>>

StopRetriever ==
  /\ closing = "tasks" /\ ~draining
  /\ closing' = "query"
  /\ interval' = FALSE
  /\ awaited' = active
  /\ UNCHANGED <<listening, receiving, draining, sds, status, wanted, queries,
                 active, sessions>>

EndStop ==
  /\ closing = "query"
  /\ awaited # 0 => ~queries[awaited].open
  /\ closing' = "no"
  /\ wanted' = {}
  /\ awaited' = 0
  /\ status' = [status EXCEPT !.cleaned = TRUE, !.received = {},
                              !.missing = {}, !.lost = {}, !.last = "none"]
  /\ UNCHANGED <<listening, receiving, draining, sds, interval, queries, active,
                 sessions>>

ReceptionNext ==
  \/ StartReception \/ StopReception \/ StopRetriever \/ EndStop
  \/ ProcessTimerFires \/ ProcessTasks \/ Drain \/ SendStatus
  \/ RetrieveMissingMessage
  \/ \E m \in Contents : Arrive(m)
  \/ \E late \in SUBSET Contents : Sweep(late)
  \/ \E n \in 1..MaxQueries :
       EndQuery(n) \/ \E m \in Contents : Retrieved(n, m)

ReceptionSpec == ReceptionInit /\ [][ReceptionNext]_receptionVars

(***************************************************************************)
(* Properties.                                                             *)
(***************************************************************************)
\* A message is counted once in the details of a status event, as received,
\* missing or lost, though SDS reports it again in each sweep and may have
\* given it up before it came (SyncStatus).
CountedOnce ==
  /\ status.missing \intersect (status.received \union status.lost) = {}
  /\ status.received \intersect status.lost = {}

\* What the application is told to be missing is asked of the store until it
\* arrives: no order of arrivals, sweeps, stops and starts loses the request
\* (the listeners for InMessageMissing; addMissingMessage,
\* removeMissingMessage).
MissingIsWanted ==
  listening =>
    status.missing \intersect Hinted \subseteq wanted \union ToSet(inbox)

\* Until the first stop, the last status event the application got is true as
\* soon as the microtasks are done (scheduleSend, safeSend).
FirstSessionReported ==
  sessions = 1 /\ listening /\ ~status.scheduled =>
    /\ status.missing # {} => status.last = "syncing"
    /\ status.missing = {} => status.last # "syncing"

\* A message the store has is retrieved, whatever queries fail on the way
\* (retrieveMissingMessage).
WantedRetrieved ==
  \A m \in Stored :
    listening /\ m \in wanted ~> (~listening \/ m \notin wanted)
=============================================================================
