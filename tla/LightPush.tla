------------------------------- MODULE LightPush -------------------------------
(***************************************************************************)
(* Light push (sdk/src/light_push): sending a message to the peers that the *)
(* PeerManager chooses, and the RetryManager, which tries again the sends   *)
(* that reached no peer.  All the calls are on one pubsub topic, with       *)
(* autoRetry; other protocols use the same PeerManager meanwhile.           *)
(***************************************************************************)
EXTENDS PeerManager

CONSTANTS
  Messages,      \* messages sent, each once; the requesters of their lookups
  Others,        \* other users of the PeerManager
  MaxAttempts,   \* options.maxAttempts
  MaxConcurrent, \* MAX_CONCURRENT_TASKS
  MaxStarts      \* bound: calls of start

ASSUME LightPushAssumption ==
  /\ Requesters = Messages \union Others /\ Messages \intersect Others = {}
  /\ IsFiniteSet(Messages)
  /\ MaxAttempts \in Nat \ {0} /\ MaxConcurrent \in Nat \ {0}
  /\ MaxStarts \in Nat

VARIABLES
  running,    \* the interval of the RetryManager is set
  starts,     \* calls of start
  stage,      \* [m -> where the send of m is]
  task,       \* [m -> its retry task: where it is, attempts left, its peer]
  inProgress, \* inProgress
  tries,      \* [m -> executions of its callback]
  delivered   \* messages that a peer answered with success

retryVars == <<task, inProgress, tries>>
vars == <<peerVars, running, starts, stage, retryVars, delivered>>

Task(at, left, peer) == [at |-> at, left |-> left, peer |-> peer]
NoTask == Task("none", 0, {})

Init ==
  /\ PeerInit
  /\ running = FALSE /\ starts = 0
  /\ stage = [m \in Messages |-> "unsent"]
  /\ task = [m \in Messages |-> NoTask]
  /\ inProgress = 0
  /\ tries = [m \in Messages |-> 0]
  /\ delivered = {}

GetPeers(r) == lookups' = [lookups EXCEPT ![r] = Looking]
RenewPeer(r, p) == lookups' = [lookups EXCEPT ![r] = Renewing(p)]
Answered(r) == lookups[r].phase = "answered"
TakeAnswer(r) == lookups' = [lookups EXCEPT ![r] = NoLookup]

-----------------------------------------------------------------------------
\* LightPush.

Start ==
  /\ ~running /\ starts < MaxStarts
  /\ running' = TRUE /\ starts' = starts + 1
  /\ UNCHANGED <<peerVars, stage, retryVars, delivered>>

\* Tasks scheduled or running go on; the queue waits for the next start.
Stop ==
  /\ running
  /\ running' = FALSE
  /\ UNCHANGED <<peerVars, starts, stage, retryVars, delivered>>

Send(m) ==
  /\ stage[m] = "unsent"
  /\ stage' = [stage EXCEPT ![m] = "asking"]
  /\ GetPeers(m)
  /\ UNCHANGED <<connected, locked, resting, running, starts, retryVars, delivered>>

RetryUnlessSuccess(m, success) ==
  task' = IF success THEN task
          ELSE [task EXCEPT ![m] = Task("queued", MaxAttempts, {})]

\* Without peers the send has failed already.
PushToPeers(m) ==
  /\ stage[m] = "asking" /\ Answered(m)
  /\ TakeAnswer(m)
  /\ IF lookups[m].usable = {}
     THEN /\ stage' = [stage EXCEPT ![m] = "done"]
          /\ RetryUnlessSuccess(m, FALSE)
     ELSE /\ stage' = [stage EXCEPT ![m] = "pushing"]
          /\ UNCHANGED task
  /\ UNCHANGED <<connected, locked, resting, running, starts, inProgress, tries,
                 delivered>>

\* All the peers have answered, or failed to.
EndSend(m, success) ==
  /\ stage[m] = "pushing"
  /\ stage' = [stage EXCEPT ![m] = "done"]
  /\ RetryUnlessSuccess(m, success)
  /\ delivered' = IF success THEN delivered \union {m} ELSE delivered
  /\ UNCHANGED <<peerVars, running, starts, inProgress, tries>>

-----------------------------------------------------------------------------
\* RetryManager.

\* processQueue: the limit is looked at before any of the tasks it lets pass
\* counts as in progress.
ProcessQueue ==
  /\ running /\ inProgress < MaxConcurrent
  /\ \E m \in Messages : task[m].at = "queued"
  /\ task' = [m \in Messages |-> IF task[m].at = "queued"
                                 THEN Task("scheduled", task[m].left, {})
                                 ELSE task[m]]
  /\ UNCHANGED <<peerVars, running, starts, stage, inProgress, tries, delivered>>

\* The timeout of scheduleTask: taskExecutor, up to its first await.
Fire(m) ==
  /\ task[m].at = "scheduled"
  /\ IF task[m].left = 0
     THEN task' = [task EXCEPT ![m] = NoTask] /\ UNCHANGED lookups
     ELSE task' = [task EXCEPT ![m] = Task("asking", @.left, {})] /\ GetPeers(m)
  /\ UNCHANGED <<connected, locked, resting, running, starts, stage, inProgress,
                 tries, delivered>>

\* RequeuedAsIs does not count the attempt.
RequeuedAsIs(left) == Task("queued", left, {})
Requeued(left) == Task("queued", left - 1, {})

\* A round without a peer counts as an attempt.
Execute(m) ==
  /\ task[m].at = "asking" /\ Answered(m)
  /\ TakeAnswer(m)
  /\ \/ /\ lookups[m].usable = {}
        /\ task' = [task EXCEPT ![m] = Requeued(task[m].left)]
        /\ UNCHANGED <<inProgress, tries>>
     \/ \E p \in lookups[m].usable :
          /\ task' = [task EXCEPT ![m] = Task("running", task[m].left, {p})]
          /\ inProgress' = inProgress + 1
          /\ tries' = [tries EXCEPT ![m] = @ + 1]
  /\ UNCHANGED <<connected, locked, resting, running, starts, stage, delivered>>

\* The finally block. KeepsCount runs for answered tasks only.
KeepsCount == UNCHANGED inProgress
CountsDown == inProgress' = inProgress - 1

\* The callback answers, with success or not, throws, or is late. After a
\* success the task is put back just as after a failure.
EndTry(m, success) ==
  /\ task[m].at = "running"
  /\ task' = [task EXCEPT ![m] = Requeued(task[m].left)]
  /\ CountsDown
  /\ delivered' = IF success THEN delivered \union {m} ELSE delivered
  /\ UNCHANGED <<peerVars, running, starts, stage, tries>>

\* shouldPeerBeChanged: the peer is renewed before the task is put back.
Rejected(m) ==
  /\ task[m].at = "running"
  /\ task' = [task EXCEPT ![m] = Task("renewing", @.left, @.peer)]
  /\ \E p \in task[m].peer : RenewPeer(m, p)
  /\ UNCHANGED <<connected, locked, resting, running, starts, stage, inProgress,
                 tries, delivered>>

EndRejected(m) ==
  /\ task[m].at = "renewing" /\ Answered(m)
  /\ TakeAnswer(m)
  /\ task' = [task EXCEPT ![m] = Requeued(task[m].left)]
  /\ CountsDown
  /\ UNCHANGED <<connected, locked, resting, running, starts, stage, tries,
                 delivered>>

-----------------------------------------------------------------------------
\* The peers, and other protocols.

OtherAsks(r) ==
  /\ lookups[r].phase = "idle"
  /\ GetPeers(r) \/ \E p \in Peers : RenewPeer(r, p)
  /\ UNCHANGED <<connected, locked, resting, running, starts, stage, retryVars,
                 delivered>>

OtherTakes(r) ==
  /\ Answered(r)
  /\ TakeAnswer(r)
  /\ UNCHANGED <<connected, locked, resting, running, starts, stage, retryVars,
                 delivered>>

PeersMove ==
  /\ \/ \E r \in Requesters : LookupStep(r)
     \/ \E p \in Peers : Connect(p) \/ Disconnect(p) \/ Rested(p)
  /\ UNCHANGED <<running, starts, stage, retryVars, delivered>>

Next ==
  \/ Start \/ Stop \/ ProcessQueue
  \/ \E m \in Messages :
       \/ Send(m) \/ PushToPeers(m)
       \/ Fire(m) \/ Execute(m) \/ Rejected(m) \/ EndRejected(m)
       \/ \E success \in BOOLEAN : EndSend(m, success) \/ EndTry(m, success)
  \/ \E r \in Others : OtherAsks(r) \/ OtherTakes(r)
  \/ PeersMove

Spec == Init /\ [][Next]_vars

\* Timers fire and awaited calls return, or time out.
Fairness ==
  /\ WF_vars(ProcessQueue)
  /\ \A r \in Requesters : WF_vars(LookupStep(r) /\ PeersMove)
  /\ \A m \in Messages :
       /\ WF_vars(PushToPeers(m)) /\ WF_vars(Fire(m)) /\ WF_vars(Execute(m))
       /\ WF_vars(EndRejected(m)) /\ WF_vars(EndSend(m, FALSE))
       /\ WF_vars(Rejected(m) \/ \E success \in BOOLEAN : EndTry(m, success))

FairSpec == Spec /\ Fairness

-----------------------------------------------------------------------------
\* Properties.

\* The shape of the state, the attempts left among it: a task without any is
\* not tried. A task has a lookup of its own only between two of
\* its steps, never while the send of its message still has one.
TypeOK ==
  /\ PeerTypeOK
  /\ running \in BOOLEAN /\ starts \in 0..MaxStarts
  /\ stage \in [Messages -> {"unsent", "asking", "pushing", "done"}]
  /\ task \in [Messages -> [at: {"none", "queued", "scheduled", "asking", "running",
                                 "renewing"},
                            left: 0..MaxAttempts, peer: SUBSET Peers]]
  /\ tries \in [Messages -> Nat]
  /\ delivered \subseteq Messages
  /\ \A m \in Messages :
       lookups[m].phase # "idle" <=> stage[m] = "asking"
                                     \/ task[m].at \in {"asking", "renewing"}

Trying == {m \in Messages : task[m].at \in {"running", "renewing"}}

\* inProgress is the number of tasks whose attempt has not ended, its renewal
\* included, however attempts end: the limit never closes the queue for good.
InProgressCounted == inProgress = Cardinality(Trying)

\* The attempts made and those left never exceed the limit, over rounds without
\* peers, renewals, and stops and starts of the manager.
AttemptsBounded ==
  \A m \in Messages : tries[m] + task[m].left
                        =< MaxAttempts + (IF m \in Trying THEN 1 ELSE 0)

\* A message that the send delivered is never retried, and a retry never runs
\* beside the send of its message.
RetriedAfterFailure ==
  \A m \in Messages :
    task[m].at # "none" => stage[m] = "done" /\ (m \in delivered => tries[m] > 0)

\* Each retry task is dropped in the end while the manager runs: tasks that
\* wait for peers, for the limit, or for a renewal do not stay for ever.
TasksEnd ==
  \A m \in Messages : task[m].at # "none" ~> (task[m].at = "none" \/ ~running)

-----------------------------------------------------------------------------
\* What a test says and the code does not do.

\* "should not retry if at least one success" (retry_manager.spec.ts:196).
NotRetriedAfterSuccess ==
  [][\A m \in delivered : tries'[m] = tries[m]]_vars
=============================================================================
