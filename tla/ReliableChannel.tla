---------------------------- MODULE ReliableChannel ----------------------------
(***************************************************************************)
(* The sending half of a ReliableChannel (sdk/src/reliable_channel): send, *)
(* the retry timers of its RetryManager, the queue of SDS tasks that timers*)
(* and calls process, the acknowledgements that come back, and the timers  *)
(* that start() and stop() create and clear.                               *)
(*                                                                         *)
(* One action is one synchronous run of JavaScript: a call or a timer's    *)
(* callback executes processTasks up to its first await, hence the first   *)
(* queued task; the rest of the queue follows in microtasks, before any    *)
(* other timer.                                                            *)
(***************************************************************************)
EXTENDS Naturals, Sequences, SequencesExt

CONSTANTS
  Messages,         \* payloads, each with its message id
  MaxRetryAttempts, \* maxRetryAttempts
  MaxCalls,         \* bound: calls of send for one message
  MaxAcks,          \* bound: acknowledgements received
  MaxStarts,        \* bound: calls of start
  MaxSyncing        \* bound: sync messages being sent

ASSUME RetryAssumption == MaxRetryAttempts \in Nat \ {0}

VARIABLES
  started,  \* _started, and whether the channel listens to its MessageChannel
  stopping, \* stop() waits, its timers cleared
  timers,   \* the timers that run, and the handles kept of them
  tasks,    \* the queue of SDS tasks
  loops,    \* calls of processTasks about to continue
  outgoing, \* unacknowledged messages (SDS outgoing buffer)
  sending,  \* for each message, its copies handed to the node, unanswered
  syncing,  \* sync messages being sent
  retry,    \* for each message, the attempt its timer is set for, 0 without
  wire,     \* messages that another participant may have
  acks,     \* acknowledgements received
  calls,    \* for each message, calls of send
  pushes,   \* for each message, calls of _wrapAndSend
  told,     \* events emitted for a message since its last send
  starts    \* calls of start

work == <<tasks, loops, outgoing, sending, retry, told>>
vars == <<started, stopping, timers, work, syncing, wire, acks, calls, pushes,
          starts>>

NoTimers == [sync |-> FALSE, process |-> FALSE,
             sweeps |-> 0, sweepHandle |-> FALSE,
             repairs |-> 0, repairHandle |-> "none"]

Init ==
  /\ started = FALSE /\ stopping = FALSE
  /\ timers = NoTimers
  /\ tasks = <<>> /\ loops = 0 /\ syncing = 0
  /\ outgoing = {} /\ wire = {} /\ told = {}
  /\ sending = [x \in Messages |-> 0]
  /\ retry = [x \in Messages |-> 0]
  /\ calls = [x \in Messages |-> 0]
  /\ pushes = [x \in Messages |-> 0]
  /\ acks = 0 /\ starts = 0

(***************************************************************************)
(* Tasks.                                                                  *)
(***************************************************************************)
Pushed(x) == [pushes EXCEPT ![x] = @ + 1]
SendTask(x) == [kind |-> "send", id |-> x]
AckTask(x) == [kind |-> "ack", id |-> x]

\* A received message acknowledges what the outgoing buffer still holds.
Acknowledges(t) == t.kind = "ack" /\ t.id \in outgoing
Heard(t) == Acknowledges(t) /\ started

\* The queue without the task that is taken from it. Unshifted leaves it there
\* while the task runs.
Unshifted(queue) == queue
Shifted(queue) == Tail(queue)

\* processTasks over queue, up to its first await. The channel has emitted
\* events; idle other calls of processTasks are about to continue.
Process(queue, idle, events) ==
  IF queue = <<>>
  THEN /\ tasks' = queue /\ loops' = idle /\ told' = events
       /\ UNCHANGED <<outgoing, sending>>
  ELSE LET t == Head(queue) IN
       /\ tasks' = Shifted(queue)
       /\ told' = events
            \union (IF Heard(t) THEN {<<"acknowledged", t.id>>} ELSE {})
       /\ \/ /\ t.kind = "ack"
             /\ outgoing' = outgoing \ {t.id}
             /\ loops' = idle + 1
             /\ UNCHANGED sending
          \/ /\ t.kind = "send"
             /\ outgoing' = outgoing \union {t.id}
             /\ sending' = [sending EXCEPT ![t.id] = @ + 1]
             /\ loops' = idle

\* The retry timers once the first task of queue has run: an acknowledgement
\* that is heard stops the timer of its message.
StopRetries(timeouts, queue) ==
  [x \in Messages |->
     IF queue # <<>> /\ Heard(Head(queue)) /\ Head(queue).id = x
     THEN 0 ELSE timeouts[x]]

\* A timer for the next attempt, after n of them. ArmedOnceMore counts one
\* attempt too many.
ArmedOnceMore(n) == IF n =< MaxRetryAttempts THEN n + 1 ELSE 0
Armed(n) == IF n < MaxRetryAttempts THEN n + 1 ELSE 0

(***************************************************************************)
(* Calls of the application.                                               *)
(***************************************************************************)
Send(x) ==
  LET queue == Append(tasks, SendTask(x)) IN
  /\ calls[x] < MaxCalls
  /\ calls' = [calls EXCEPT ![x] = @ + 1]
  /\ pushes' = Pushed(x)
  /\ Process(queue, loops,
             {e \in told : e[2] # x}
               \union (IF started THEN {} ELSE {<<"not started", x>>}))
  /\ retry' = StopRetries([retry EXCEPT ![x] = Armed(0)], queue)
  /\ UNCHANGED <<started, stopping, timers, syncing, wire, acks, starts>>

\* startRepairSweepLoop clears the previous repair timer through its handle,
\* which stopRepairSweepLoop never forgets, and forgets the handle of the
\* sweep timer instead.
StartSweeps(t) ==
  LET swept == [t EXCEPT !.sweeps = @ + 1 - (IF t.sweepHandle THEN 1 ELSE 0),
                         !.sweepHandle = TRUE]
  IN [swept EXCEPT !.sweepHandle = (t.repairHandle = "none"),
                   !.repairs = @ + 1 - (IF t.repairHandle = "live" THEN 1 ELSE 0),
                   !.repairHandle = "live"]

StopSweeps(t) ==
  [t EXCEPT !.sweeps = @ - (IF t.sweepHandle THEN 1 ELSE 0),
            !.sweepHandle = FALSE,
            !.repairs = @ - (IF t.repairHandle = "live" THEN 1 ELSE 0),
            !.repairHandle = IF @ = "live" THEN "dead" ELSE @]

StartedTimers(t) == [StartSweeps(t) EXCEPT !.sync = TRUE]

Start ==
  /\ ~started /\ ~stopping /\ starts < MaxStarts
  /\ started' = TRUE
  /\ starts' = starts + 1
  /\ timers' = StartedTimers(timers)
  /\ UNCHANGED <<stopping, work, syncing, wire, acks, calls, pushes>>

\* stop() up to its first await. StoppedKeepingProcess forgets the timer that
\* processes received messages.
StoppedKeepingProcess(t) == [StopSweeps(t) EXCEPT !.sync = FALSE]
StoppedTimers(t) == [StopSweeps(t) EXCEPT !.sync = FALSE, !.process = FALSE]

Stop ==
  /\ started
  /\ started' = FALSE /\ stopping' = TRUE
  /\ timers' = StoppedTimers(timers)
  /\ UNCHANGED <<work, syncing, wire, acks, calls, pushes, starts>>

\* The rest of stop(): however long it waited, it clears the retry timers.
Stopped ==
  /\ stopping
  /\ stopping' = FALSE
  /\ retry' = [x \in Messages |-> 0]
  /\ UNCHANGED <<started, timers, tasks, loops, outgoing, sending, told,
                 syncing, wire, acks, calls, pushes, starts>>

(***************************************************************************)
(* Timers and microtasks.                                                  *)
(***************************************************************************)
RunLoop ==
  /\ loops > 0
  /\ Process(tasks, loops - 1, told)
  /\ retry' = StopRetries(retry, tasks)
  /\ UNCHANGED <<started, stopping, timers, syncing, wire, acks, calls, pushes,
                 starts>>

\* The timer's callback sends the message, which runs the first queued task,
\* and then sets the next timer.
RetryFires(x) ==
  LET queue == Append(tasks, SendTask(x)) IN
  /\ loops = 0 /\ retry[x] > 0
  /\ pushes' = Pushed(x)
  /\ Process(queue, 0, told)
  /\ retry' = [StopRetries(retry, queue) EXCEPT ![x] = Armed(retry[x])]
  /\ UNCHANGED <<started, stopping, timers, syncing, wire, acks, calls, starts>>

ProcessFires ==
  /\ loops = 0 /\ timers.process
  /\ timers' = [timers EXCEPT !.process = FALSE]
  /\ Process(tasks, 0, told)
  /\ retry' = StopRetries(retry, tasks)
  /\ UNCHANGED <<started, stopping, syncing, wire, acks, calls, pushes, starts>>

\* sendSyncMessage rejects unless the channel is started; RandomTimeout sets
\* the timer again in both cases.
SyncFires ==
  /\ loops = 0 /\ timers.sync /\ syncing < MaxSyncing
  /\ syncing' = IF started THEN syncing + 1 ELSE syncing
  /\ UNCHANGED <<started, stopping, timers, work, wire, acks, calls, pushes,
                 starts>>

\* The sync message is sent, or not: the queue is processed.
EndSync ==
  /\ syncing > 0
  /\ syncing' = syncing - 1
  /\ Process(tasks, loops, told)
  /\ retry' = StopRetries(retry, tasks)
  /\ UNCHANGED <<started, stopping, timers, wire, acks, calls, pushes, starts>>

(***************************************************************************)
(* The node.                                                               *)
(***************************************************************************)
Reach(x) ==
  /\ sending[x] > 0 /\ x \notin wire
  /\ wire' = wire \union {x}
  /\ UNCHANGED <<started, stopping, timers, work, syncing, acks, calls, pushes,
                 starts>>

\* "failed": every push failed, each with an error worth a retry, which counts
\* as a success for the MessageChannel. "rejected": some error is not worth a
\* retry, the message cannot be encoded, or the node throws.
Outcomes == {"sent", "failed", "rejected"}

\* The listener of a message sent restarts the sync timer.
EndSend(x, outcome) ==
  /\ sending[x] > 0
  /\ wire' = IF outcome = "sent" THEN wire \union {x} ELSE wire
  /\ sending' = [sending EXCEPT ![x] = @ - 1]
  /\ loops' = loops + 1
  /\ timers' = [timers EXCEPT !.sync = @ \/ (started /\ outcome # "rejected")]
  /\ UNCHANGED <<started, stopping, tasks, outgoing, retry, told, syncing, acks,
                 calls, pushes, starts>>

\* A message of another participant arrives that has x in its causal history.
Acknowledged(x) ==
  /\ started /\ x \in wire /\ acks < MaxAcks
  /\ acks' = acks + 1
  /\ tasks' = Append(tasks, AckTask(x))
  /\ timers' = [timers EXCEPT !.process = TRUE]
  /\ UNCHANGED <<started, stopping, loops, outgoing, sending, told, retry,
                 syncing, wire, calls, pushes, starts>>

Next ==
  \/ \E x \in Messages :
       \/ Send(x) \/ RetryFires(x) \/ Reach(x) \/ Acknowledged(x)
       \/ \E outcome \in Outcomes : EndSend(x, outcome)
  \/ Start \/ Stop \/ Stopped
  \/ RunLoop \/ ProcessFires \/ SyncFires \/ EndSync

Spec == Init /\ [][Next]_vars

(***************************************************************************)
(* Properties.                                                             *)
(***************************************************************************)
\* The retries still to come count against the limit: a message is pushed at
\* most once, and then maxRetryAttempts times, for each call of send (send,
\* RetryManager.retry).
RetriesBounded ==
  \A x \in Messages :
    pushes[x] + (IF retry[x] > 0 THEN MaxRetryAttempts + 1 - retry[x] ELSE 0)
      =< calls[x] * (1 + MaxRetryAttempts)

Copies(queue, t) == Cardinality({i \in DOMAIN queue : queue[i] = t})

\* Each copy of a message handed to the node, and each one queued, is one
\* push: concurrent calls of processTasks take no task twice (processTasks).
NoTaskTwice ==
  \A x \in Messages : sending[x] + Copies(tasks, SendTask(x)) =< pushes[x]

\* Once stop() is done, whatever was being sent or received when it was
\* called, nothing is left that would send: no timer but those of messages
\* sent after the stop (stop, removeAllEventListeners).
QuietAfterStop ==
  ~started =>
    /\ ~timers.sync /\ ~timers.process /\ timers.repairs = 0
    /\ \A x \in Messages :
         ~stopping /\ <<"not started", x>> \notin told => retry[x] = 0


(***************************************************************************)
(* What the source says and the code does not do.                          *)
(***************************************************************************)
\* "Stopping retries as the message was acknowledged"
\* (reliable_channel.ts:769).
AcknowledgedNotRetried ==
  \A x \in Messages : <<"acknowledged", x>> \in told => retry[x] = 0
=============================================================================
