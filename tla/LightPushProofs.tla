---------------------------- MODULE LightPushProofs ----------------------------
(***************************************************************************)
(* Theorems about LightPush, for every finite set of messages, every set   *)
(* of peers and of other users of the PeerManager, and every limit.        *)
(***************************************************************************)
EXTENDS LightPush, FiniteSetTheorems, TLAPS

\* A task under way has an attempt left, one that is tried has been counted as
\* tried, and before the send of a message has ended there is no task for it.
Accounts ==
  /\ \A m \in Messages :
       task[m].at \in {"asking", "running", "renewing"} => task[m].left > 0
  /\ \A m \in Messages : task[m].at \in {"running", "renewing"} => tries[m] > 0
  /\ \A m \in Messages :
       stage[m] # "done" => task[m] = NoTask /\ tries[m] = 0 /\ m \notin delivered

\* The inductive invariant.
IInv ==
  TypeOK /\ Accounts /\ AttemptsBounded /\ RetriedAfterFailure /\ InProgressCounted

-----------------------------------------------------------------------------
(* Steps of lookups. *)

\* A step of a call leaves it a call, and every other call as it is.
LEMMA LookupStepFacts ==
  ASSUME PeerTypeOK, NEW r \in Requesters, LookupStep(r)
  PROVE  /\ PeerTypeOK'
         /\ \A s \in Requesters : lookups'[s].phase = "idle" <=> lookups[s].phase = "idle"
<1>1. CASE Check(r)
  <2>1. PICK p \in lookups[r].unchecked :
          lookups' = [lookups EXCEPT ![r] =
            Lookup("checking", @.unchecked \ {p}, @.usable \union ({p} \ resting), {})]
    BY <1>1 DEF Check
  <2>2. /\ lookups[r].unchecked \subseteq Peers /\ lookups[r].usable \subseteq Peers
        /\ lookups[r].phase # "idle"
    BY <1>1 DEF PeerTypeOK, Check
  <2>3. lookups' \in [Requesters ->
          [phase: {"idle", "checking", "renewing", "answered"},
           unchecked: SUBSET Peers, usable: SUBSET Peers, renewed: SUBSET Peers]]
    BY <2>1, <2>2 DEF PeerTypeOK, Lookup
  <2> QED
    BY <2>1, <2>2, <2>3, <1>1 DEF PeerTypeOK, Lookup, Check
<1>2. CASE Select(r)
  <2>1. PICK chosen \in SUBSET lookups[r].usable :
          lookups' = [lookups EXCEPT ![r] = Lookup("answered", {}, chosen, {})]
    BY <1>2 DEF Select
  <2>2. /\ locked' \subseteq locked \union lookups[r].usable
        /\ resting' \subseteq resting /\ connected' = connected
    BY <1>2 DEF Select, Lock
  <2>3. lookups[r].usable \subseteq Peers
    BY DEF PeerTypeOK
  <2> QED
    BY <2>1, <2>2, <2>3, <1>2 DEF PeerTypeOK, Lookup, Select
<1>3. CASE Renew(r)
  <2>1. lookups[r].renewed \subseteq Peers
    BY DEF PeerTypeOK
  <2> QED
    BY <1>3, <2>1 DEF Renew, PeerTypeOK, Lookup, Looking
<1> QED
  BY <1>1, <1>2, <1>3 DEF LookupStep

\* A call that begins, and an answer that is taken.
LEMMA CallFacts ==
  ASSUME PeerTypeOK, NEW r \in Requesters,
         UNCHANGED <<connected, locked, resting>>,
         GetPeers(r) \/ (\E p \in Peers : RenewPeer(r, p)) \/ TakeAnswer(r)
  PROVE  /\ PeerTypeOK'
         /\ lookups'[r].phase = "idle" <=> TakeAnswer(r)
         /\ \A s \in Requesters \ {r} : lookups'[s] = lookups[s]
  BY DEF PeerTypeOK, GetPeers, RenewPeer, TakeAnswer, NoLookup, Looking,
         Renewing, Lookup

-----------------------------------------------------------------------------
(* Initial states. *)

\* Nothing has been sent at first.
LEMMA Initially == Init => IInv
<1> SUFFICES ASSUME Init PROVE IInv
  OBVIOUS
<1>1. PeerTypeOK
  BY DEF Init, PeerInit, PeerTypeOK, NoLookup, Lookup
<1>2. TypeOK
  <2>1. NoTask \in [at: {"none", "queued", "scheduled", "asking", "running",
                         "renewing"}, left: 0..MaxAttempts, peer: SUBSET Peers]
    BY LightPushAssumption DEF NoTask, Task
  <2>2. \A m \in Messages : /\ lookups[m].phase = "idle"
                            /\ stage[m] = "unsent" /\ task[m].at = "none"
    BY LightPushAssumption DEF Init, PeerInit, NoTask, Task, NoLookup, Lookup
  <2>3. starts \in 0..MaxStarts
    BY LightPushAssumption DEF Init
  <2> QED
    BY <1>1, <2>1, <2>2, <2>3 DEF Init, TypeOK
<1>3. Accounts /\ AttemptsBounded /\ RetriedAfterFailure
  BY LightPushAssumption
  DEF Init, Accounts, AttemptsBounded, RetriedAfterFailure, NoTask, Task
<1>4. Trying = {}
  BY DEF Init, Trying, NoTask, Task
<1>5. InProgressCounted
  BY <1>4, FS_EmptySet DEF Init, InProgressCounted
<1> QED
  BY <1>2, <1>3, <1>5 DEF IInv

-----------------------------------------------------------------------------
(* Steps. *)

Accounted == Accounts /\ AttemptsBounded /\ RetriedAfterFailure

\* A step that leaves the tasks and the sends alone.
LEMMA OthersOnly ==
  ASSUME IInv, UNCHANGED <<stage, retryVars, delivered>>
  PROVE  Accounted' /\ InProgressCounted'
  BY DEF IInv, Accounted, Accounts, AttemptsBounded, RetriedAfterFailure,
         InProgressCounted, Trying, retryVars, NoTask, Task

\* Of tasks that are tried, one more or one less.
LEMMA TryingFacts ==
  /\ IsFiniteSet(Trying)
  /\ \A m \in Messages \ Trying : Cardinality(Trying \union {m}) = Cardinality(Trying) + 1
  /\ \A m \in Trying : Cardinality(Trying \ {m}) = Cardinality(Trying) - 1
<1>1. IsFiniteSet(Trying)
  <2>1. Trying \subseteq Messages
    BY DEF Trying
  <2> QED
    BY <2>1, LightPushAssumption, FS_Subset
<1>2. \A m \in Messages \ Trying : Cardinality(Trying \union {m}) = Cardinality(Trying) + 1
  BY <1>1, FS_AddElement
<1>3. \A m \in Trying : Cardinality(Trying \ {m}) = Cardinality(Trying) - 1
  BY <1>1, FS_RemoveElement
<1> QED
  BY <1>1, <1>2, <1>3

\* A task moves on: one that is not tried before or after leaves the count, one
\* that begins or ends a try changes it by one.
LEMMA CountFacts ==
  ASSUME IInv, NEW m \in Messages, NEW t, task' = [task EXCEPT ![m] = t],
         \/ /\ m \in Trying <=> t.at \in {"running", "renewing"}
            /\ inProgress' = inProgress
         \/ /\ m \notin Trying /\ t.at \in {"running", "renewing"}
            /\ inProgress' = inProgress + 1
         \/ /\ m \in Trying /\ t.at \notin {"running", "renewing"}
            /\ inProgress' = inProgress - 1
  PROVE  InProgressCounted'
<1>1. task'[m] = t /\ \A n \in Messages \ {m} : task'[n] = task[n]
  BY DEF IInv, TypeOK
<1>2. CASE m \in Trying <=> t.at \in {"running", "renewing"}
  <2>1. Trying' = Trying
    BY <1>1, <1>2 DEF Trying
  <2>2. inProgress' = inProgress
    BY <1>2
  <2> QED
    BY <2>1, <2>2 DEF IInv, InProgressCounted
<1>3. CASE m \notin Trying /\ t.at \in {"running", "renewing"}
  <2>1. Trying' = Trying \union {m}
    BY <1>1, <1>3 DEF Trying
  <2>2. inProgress' = inProgress + 1
    BY <1>3
  <2> QED
    BY <2>1, <2>2, <1>3, TryingFacts DEF IInv, InProgressCounted
<1>4. CASE m \in Trying /\ t.at \notin {"running", "renewing"}
  <2>1. Trying' = Trying \ {m}
    BY <1>1, <1>4 DEF Trying
  <2>2. inProgress' = inProgress - 1
    BY <1>4
  <2> QED
    BY <2>1, <2>2, <1>4, TryingFacts DEF IInv, InProgressCounted
<1> QED
  BY <1>2, <1>3, <1>4

\* What a task may be.
Tasks == [at: {"none", "queued", "scheduled", "asking", "running", "renewing"},
          left: 0..MaxAttempts, peer: SUBSET Peers]

\* The task of m becomes t, which is accounted for and agrees with the call of m.
MovesTo(m, t) ==
  /\ task[m].at # "none" /\ t \in Tasks
  /\ task' = [task EXCEPT ![m] = t]
  /\ UNCHANGED <<running, starts, stage>>
  /\ delivered' \subseteq delivered \union {m}
  /\ tries' \in [Messages -> Nat]
  /\ \A n \in Messages \ {m} : tries'[n] = tries[n]
  /\ t.at # "none" /\ m \in delivered' => tries'[m] > 0
  /\ t.at \in {"asking", "running", "renewing"} => t.left > 0
  /\ t.at \in {"running", "renewing"} => tries'[m] > 0
  /\ tries'[m] + t.left
       =< MaxAttempts + (IF t.at \in {"running", "renewing"} THEN 1 ELSE 0)
  /\ PeerTypeOK'
  /\ \A n \in Messages \ {m} : lookups'[n].phase = "idle" <=> lookups[n].phase = "idle"
  /\ lookups'[m].phase # "idle" <=> t.at \in {"asking", "renewing"}

\* Such a move keeps the invariant, but for the count of the tasks in progress.
LEMMA TaskMoves ==
  ASSUME IInv, NEW m \in Messages, NEW t, MovesTo(m, t)
  PROVE  TypeOK' /\ Accounted'
<1> USE DEF MovesTo
<1>0. stage[m] = "done"
  BY DEF IInv, RetriedAfterFailure
<1>1. task'[m] = t /\ \A n \in Messages \ {m} : task'[n] = task[n]
  BY DEF IInv, TypeOK
<1>2. TypeOK'
  <2>1. task' \in [Messages -> Tasks]
    BY DEF IInv, TypeOK, Tasks
  <2>2. \A n \in Messages :
          lookups'[n].phase # "idle" <=> stage'[n] = "asking"
                                         \/ task'[n].at \in {"asking", "renewing"}
    BY <1>0, <1>1 DEF IInv, TypeOK
  <2> QED
    BY <2>1, <2>2 DEF IInv, TypeOK, Tasks
<1>3. Accounts'
  BY <1>0, <1>1 DEF IInv, Accounts, NoTask, Task
<1>4. \A n \in Messages \ {m} : n \in Trying' <=> n \in Trying
  BY <1>1 DEF Trying
<1>5. m \in Trying' <=> t.at \in {"running", "renewing"}
  BY <1>1 DEF Trying
<1>6. AttemptsBounded'
  <2>1. tries'[m] + task'[m].left =< MaxAttempts + (IF m \in Trying' THEN 1 ELSE 0)
    BY <1>1, <1>5
  <2>2. ASSUME NEW n \in Messages \ {m}
        PROVE  tries'[n] + task'[n].left
                 =< MaxAttempts + (IF n \in Trying' THEN 1 ELSE 0)
    BY <1>1, <1>4, <2>2 DEF IInv, AttemptsBounded
  <2> QED
    BY <2>1, <2>2 DEF AttemptsBounded
<1>7. RetriedAfterFailure'
  <2>1. \A n \in Messages : task'[n].at # "none" => stage'[n] = "done"
    BY <1>0, <1>1 DEF IInv, RetriedAfterFailure
  <2>2. ASSUME NEW n \in Messages, task'[n].at # "none", n \in delivered'
        PROVE  tries'[n] > 0
    <3>1. CASE n = m
      BY <3>1, <2>2, <1>1
    <3> QED
      BY <3>1, <2>2, <1>1 DEF IInv, RetriedAfterFailure
  <2> QED
    BY <2>1, <2>2 DEF RetriedAfterFailure
<1> QED
  BY <1>2, <1>3, <1>6, <1>7 DEF Accounted

-----------------------------------------------------------------------------
(* Actions. *)

\* Starting and stopping the manager leave the tasks alone.
LEMMA StartStep == IInv /\ (Start \/ Stop) => TypeOK' /\ Accounted' /\ InProgressCounted'
<1> SUFFICES ASSUME IInv, Start \/ Stop
             PROVE  TypeOK' /\ Accounted' /\ InProgressCounted'
  OBVIOUS
<1>1. TypeOK'
  <2>1. running' \in BOOLEAN /\ starts' \in 0..MaxStarts
    <3>1. MaxStarts \in Nat /\ running \in BOOLEAN /\ starts \in 0..MaxStarts
      BY LightPushAssumption DEF IInv, TypeOK
    <3>2. CASE Start
      BY <3>1, <3>2 DEF Start
    <3>3. CASE Stop
      BY <3>1, <3>3 DEF Stop
    <3> QED
      BY <3>2, <3>3
  <2>2. UNCHANGED <<connected, locked, resting, lookups, stage, task, tries, delivered>>
    BY DEF Start, Stop, peerVars, retryVars
  <2>3. PeerTypeOK'
    BY <2>2 DEF IInv, TypeOK, PeerTypeOK
  <2> QED
    BY <2>1, <2>2, <2>3 DEF IInv, TypeOK
<1>2. Accounted' /\ InProgressCounted'
  BY OthersOnly DEF Start, Stop
<1> QED
  BY <1>1, <1>2

\* Calls of getPeers and renewPeer by others, and moves of the peers.
LEMMA PeersStep ==
  ASSUME IInv, PeersMove \/ \E r \in Others : OtherAsks(r) \/ OtherTakes(r)
  PROVE  TypeOK' /\ Accounted' /\ InProgressCounted'
<1>1. UNCHANGED <<running, starts, stage, retryVars, delivered>>
  BY DEF PeersMove, OtherAsks, OtherTakes
<1>2. /\ PeerTypeOK'
      /\ \A m \in Messages : lookups'[m].phase = "idle" <=> lookups[m].phase = "idle"
  <2>1. PeerTypeOK /\ Messages \subseteq Requesters
    BY LightPushAssumption DEF IInv, TypeOK
  <2>2. CASE \E r \in Requesters : LookupStep(r)
    BY <2>1, <2>2, LookupStepFacts
  <2>3. CASE \E p \in Peers : Connect(p) \/ Disconnect(p) \/ Rested(p)
    BY <2>1, <2>3 DEF Connect, Disconnect, Rested, PeerTypeOK
  <2>4. ASSUME NEW r \in Others, OtherAsks(r) \/ OtherTakes(r)
        PROVE  /\ PeerTypeOK'
               /\ \A m \in Messages :
                    lookups'[m].phase = "idle" <=> lookups[m].phase = "idle"
    <3>1. r \in Requesters /\ r \notin Messages
      BY LightPushAssumption
    <3>2. /\ UNCHANGED <<connected, locked, resting>>
          /\ GetPeers(r) \/ (\E p \in Peers : RenewPeer(r, p)) \/ TakeAnswer(r)
      BY <2>4 DEF OtherAsks, OtherTakes
    <3> QED
      BY <2>1, <3>1, <3>2, CallFacts
  <2> QED
    BY <2>2, <2>3, <2>4 DEF PeersMove
<1>3. TypeOK'
  BY <1>1, <1>2 DEF IInv, TypeOK, retryVars
<1>4. Accounted' /\ InProgressCounted'
  BY <1>1, OthersOnly
<1> QED
  BY <1>3, <1>4

\* A message that is sent asks for peers.
LEMMA SendStep ==
  ASSUME IInv, NEW m \in Messages, Send(m)
  PROVE  TypeOK' /\ Accounted' /\ InProgressCounted'
<1>1. PeerTypeOK' /\ lookups'[m].phase # "idle"
      /\ \A s \in Requesters \ {m} : lookups'[s] = lookups[s]
  <2>1. lookups'[m] = Looking
    BY LightPushAssumption DEF Send, GetPeers, IInv, TypeOK, PeerTypeOK
  <2> QED
    BY <2>1, CallFacts, LightPushAssumption
    DEF Send, IInv, TypeOK, Looking, Lookup
<1>2. /\ stage' = [stage EXCEPT ![m] = "asking"] /\ stage[m] = "unsent"
      /\ UNCHANGED <<running, starts, task, inProgress, tries, delivered>>
  BY DEF Send, retryVars
<1>3. task[m] = NoTask /\ tries[m] = 0 /\ m \notin delivered
  BY <1>2 DEF IInv, Accounts
<1>4. TypeOK'
  <2>1. \A n \in Messages :
          lookups'[n].phase # "idle" <=> stage'[n] = "asking"
                                         \/ task'[n].at \in {"asking", "renewing"}
    BY <1>1, <1>2, LightPushAssumption DEF IInv, TypeOK
  <2> QED
    BY <1>1, <1>2, <2>1 DEF IInv, TypeOK
<1>5. Accounted' /\ InProgressCounted'
  <2>1. Trying' = Trying
    BY <1>2 DEF Trying
  <2> QED
    BY <1>2, <1>3, <2>1
    DEF IInv, TypeOK, Accounted, Accounts, AttemptsBounded, RetriedAfterFailure,
        InProgressCounted, NoTask, Task
<1> QED
  BY <1>4, <1>5

\* The queue is scheduled: no task begins or ends a try.
LEMMA ProcessQueueStep ==
  ASSUME IInv, ProcessQueue
  PROVE  TypeOK' /\ Accounted' /\ InProgressCounted'
<1>1. /\ \A m \in Messages :
           \/ task'[m] = task[m]
           \/ task[m].at = "queued" /\ task'[m] = Task("scheduled", task[m].left, {})
      /\ UNCHANGED <<connected, locked, resting, lookups, running, starts, stage,
                     inProgress, tries, delivered>>
  BY DEF ProcessQueue, peerVars
<1>2. \A m \in Messages : /\ task[m].left \in 0..MaxAttempts
                          /\ task'[m].left = task[m].left
                          /\ task[m].at = "queued" \/ task'[m] = task[m]
                          /\ task'[m].at = "scheduled" \/ task'[m] = task[m]
                          /\ task'[m] \in Tasks
  <2>1. ASSUME NEW m \in Messages PROVE task[m] \in Tasks
    BY DEF IInv, TypeOK, Tasks
  <2>2. ASSUME NEW t \in Tasks
        PROVE  LET u == Task("scheduled", t.left, {})
               IN  /\ t.left \in 0..MaxAttempts /\ u \in Tasks
                   /\ u.left = t.left /\ u.at = "scheduled"
    BY DEF Task, Tasks
  <2> QED
    BY <1>1, <2>1, <2>2
<1>3. TypeOK'
  <2>1. task' \in [Messages -> Tasks]
    BY <1>2 DEF ProcessQueue
  <2>2. PeerTypeOK'
    BY <1>1 DEF IInv, TypeOK, PeerTypeOK
  <2>3. \A n \in Messages :
          lookups'[n].phase # "idle" <=> stage'[n] = "asking"
                                         \/ task'[n].at \in {"asking", "renewing"}
    BY <1>1, <1>2 DEF IInv, TypeOK
  <2> QED
    BY <1>1, <2>1, <2>2, <2>3 DEF IInv, TypeOK, Tasks
<1>4. Trying' = Trying
  BY <1>2 DEF Trying
<1>5. InProgressCounted'
  BY <1>1, <1>4 DEF IInv, InProgressCounted
<1>6. AttemptsBounded'
  <2>1. ASSUME NEW m \in Messages
        PROVE  tries'[m] + task'[m].left
                 =< MaxAttempts + (IF m \in Trying' THEN 1 ELSE 0)
    BY <1>1, <1>2, <1>4, <2>1 DEF IInv, AttemptsBounded
  <2> QED
    BY <2>1 DEF AttemptsBounded
<1>7. Accounts'
  <2>1. \A m \in Messages :
          stage[m] # "done" => task[m] = NoTask /\ task[m].at = "none"
    BY DEF IInv, Accounts, NoTask, Task
  <2> QED
    BY <1>1, <1>2, <2>1 DEF IInv, Accounts
<1>8. RetriedAfterFailure'
  BY <1>1, <1>2 DEF IInv, RetriedAfterFailure
<1> QED
  BY <1>3, <1>5, <1>6, <1>7, <1>8 DEF Accounted

\* A send ends, or finds no peers; its message may be queued for retries.
LEMMA SendEnds ==
  ASSUME IInv, NEW m \in Messages, stage[m] \in {"asking", "pushing"},
         stage' = [stage EXCEPT ![m] = "done"],
         NEW success \in BOOLEAN, RetryUnlessSuccess(m, success),
         delivered' = IF success THEN delivered \union {m} ELSE delivered,
         UNCHANGED <<running, starts, inProgress, tries>>,
         PeerTypeOK', lookups'[m].phase = "idle",
         \A n \in Messages \ {m} : lookups'[n].phase = "idle" <=> lookups[n].phase = "idle"
  PROVE  TypeOK' /\ Accounted' /\ InProgressCounted'
<1>1. /\ task[m] = NoTask /\ tries[m] = 0 /\ m \notin delivered
      /\ task[m].at = "none" /\ task[m].left = 0
  BY DEF IInv, Accounts, NoTask, Task
<1>2. /\ stage'[m] = "done"
      /\ \A n \in Messages \ {m} : stage'[n] = stage[n] /\ task'[n] = task[n]
  BY DEF IInv, TypeOK, RetryUnlessSuccess
<1>3. \/ success /\ task' = task
      \/ ~success /\ task' = [task EXCEPT ![m] = Task("queued", MaxAttempts, {})]
  BY DEF RetryUnlessSuccess
<1>4. /\ task' \in [Messages -> Tasks]
      /\ success => task'[m].at = "none" /\ task'[m].left = 0
      /\ ~success => task'[m].at = "queued" /\ task'[m].left = MaxAttempts
  <2>1. Task("queued", MaxAttempts, {}) \in Tasks
    BY LightPushAssumption DEF Task, Tasks
  <2> QED
    BY <2>1, <1>1, <1>3 DEF IInv, TypeOK, Tasks, Task
<1>5. Trying' = Trying
  BY <1>1, <1>2, <1>4 DEF Trying
<1>6. TypeOK'
  <2>1. \A n \in Messages :
          lookups'[n].phase # "idle" <=> stage'[n] = "asking"
                                         \/ task'[n].at \in {"asking", "renewing"}
    BY <1>2, <1>4 DEF IInv, TypeOK
  <2>2. stage' \in [Messages -> {"unsent", "asking", "pushing", "done"}]
        /\ delivered' \subseteq Messages
    BY DEF IInv, TypeOK
  <2> QED
    BY <1>4, <2>1, <2>2 DEF IInv, TypeOK, Tasks
<1>7. Accounts'
  BY <1>2, <1>4 DEF IInv, Accounts, NoTask, Task
<1>8. AttemptsBounded'
  <2>1. ASSUME NEW n \in Messages
        PROVE  tries'[n] + task'[n].left
                 =< MaxAttempts + (IF n \in Trying' THEN 1 ELSE 0)
    <3>1. CASE n = m
      BY <1>1, <1>4, <1>5, <3>1, LightPushAssumption DEF Trying
    <3>2. CASE n # m
      BY <1>2, <1>5, <3>2 DEF IInv, AttemptsBounded
    <3> QED
      BY <3>1, <3>2
  <2> QED
    BY <2>1 DEF AttemptsBounded
<1>9. RetriedAfterFailure'
  BY <1>1, <1>2, <1>4 DEF IInv, RetriedAfterFailure
<1>10. InProgressCounted'
  BY <1>5 DEF IInv, InProgressCounted
<1> QED
  BY <1>6, <1>7, <1>8, <1>9, <1>10 DEF Accounted

\* The send of LightPush: without peers it has failed, otherwise it pushes.
LEMMA PushStep ==
  ASSUME IInv, NEW m \in Messages,
         PushToPeers(m) \/ \E success \in BOOLEAN : EndSend(m, success)
  PROVE  TypeOK' /\ Accounted' /\ InProgressCounted'
<1>1. CASE PushToPeers(m)
  <2>1. /\ PeerTypeOK' /\ lookups'[m].phase = "idle"
        /\ \A s \in Requesters \ {m} : lookups'[s] = lookups[s]
    BY <1>1, CallFacts, LightPushAssumption DEF PushToPeers, IInv, TypeOK
  <2>2. CASE lookups[m].usable = {}
    BY <1>1, <2>1, <2>2, SendEnds, LightPushAssumption DEF PushToPeers
  <2>3. CASE lookups[m].usable # {}
    <3>1. /\ stage' = [stage EXCEPT ![m] = "pushing"] /\ stage[m] = "asking"
          /\ UNCHANGED <<running, starts, task, inProgress, tries, delivered>>
      BY <1>1, <2>3 DEF PushToPeers
    <3>2. task[m] = NoTask /\ task[m].at = "none"
      BY <3>1 DEF IInv, Accounts, NoTask, Task
    <3>3. TypeOK'
      <4>1. \A n \in Messages :
              lookups'[n].phase # "idle" <=> stage'[n] = "asking"
                                             \/ task'[n].at \in {"asking", "renewing"}
        BY <2>1, <3>1, <3>2, LightPushAssumption DEF IInv, TypeOK
      <4> QED
        BY <2>1, <3>1, <4>1 DEF IInv, TypeOK
    <3>4. Accounted' /\ InProgressCounted'
      <4>1. Trying' = Trying
        BY <3>1 DEF Trying
      <4> QED
        BY <3>1, <3>2, <4>1
        DEF IInv, TypeOK, Accounted, Accounts, AttemptsBounded,
            RetriedAfterFailure, InProgressCounted, NoTask, Task
    <3> QED
      BY <3>3, <3>4
  <2> QED
    BY <2>2, <2>3
<1>2. ASSUME NEW success \in BOOLEAN, EndSend(m, success)
      PROVE  TypeOK' /\ Accounted' /\ InProgressCounted'
  <2>1. /\ stage[m] = "pushing" /\ task[m].at = "none"
        /\ UNCHANGED <<connected, locked, resting, lookups>>
    BY <1>2 DEF EndSend, peerVars, IInv, Accounts, NoTask, Task
  <2>2. PeerTypeOK' /\ lookups'[m].phase = "idle"
    BY <2>1 DEF IInv, TypeOK, PeerTypeOK
  <2> QED
    BY <1>2, <2>1, <2>2, SendEnds DEF EndSend
<1> QED
  BY <1>1, <1>2

\* What is known of a task that is not "none".
LEMMA TaskHere ==
  ASSUME IInv, NEW m \in Messages, task[m].at # "none"
  PROVE  /\ stage[m] = "done" /\ m \in Requesters /\ PeerTypeOK
         /\ task[m].left \in Nat /\ task[m].left =< MaxAttempts
         /\ task[m].peer \in SUBSET Peers
         /\ tries \in [Messages -> Nat] /\ tries[m] \in Nat
         /\ MaxAttempts \in Nat
         /\ m \in Trying <=> task[m].at \in {"running", "renewing"}
         /\ tries[m] + task[m].left =< MaxAttempts + (IF m \in Trying THEN 1 ELSE 0)
         /\ m \in delivered => tries[m] > 0
         /\ task[m].at \in {"asking", "running", "renewing"} => task[m].left > 0
         /\ task[m].at \in {"running", "renewing"} => tries[m] > 0
         /\ lookups[m].phase # "idle" <=> task[m].at \in {"asking", "renewing"}
<1>1. stage[m] = "done"
  BY DEF IInv, RetriedAfterFailure
<1>2. /\ m \in Requesters /\ PeerTypeOK /\ MaxAttempts \in Nat
      /\ task[m] \in Tasks /\ tries \in [Messages -> Nat]
      /\ lookups[m].phase # "idle" <=> task[m].at \in {"asking", "renewing"}
  BY <1>1, LightPushAssumption DEF IInv, TypeOK, Tasks
<1>3. /\ task[m].left \in Nat /\ task[m].left =< MaxAttempts
      /\ task[m].peer \in SUBSET Peers
  BY <1>2 DEF Tasks
<1>4. /\ m \in Trying <=> task[m].at \in {"running", "renewing"}
      /\ tries[m] + task[m].left =< MaxAttempts + (IF m \in Trying THEN 1 ELSE 0)
      /\ m \in delivered => tries[m] > 0
      /\ task[m].at \in {"asking", "running", "renewing"} => task[m].left > 0
      /\ task[m].at \in {"running", "renewing"} => tries[m] > 0
  BY DEF IInv, Accounts, AttemptsBounded, RetriedAfterFailure, Trying
<1> QED
  BY <1>1, <1>2, <1>3, <1>4

\* A task fires: without attempts left it is dropped, otherwise it asks for a peer.
LEMMA FireStep ==
  ASSUME IInv, NEW m \in Messages, Fire(m)
  PROVE  TypeOK' /\ Accounted' /\ InProgressCounted'
<1>1. /\ task[m].at = "scheduled"
      /\ UNCHANGED <<connected, locked, resting, running, starts, stage, inProgress,
                     tries, delivered>>
  BY DEF Fire
<1>2. m \notin Trying /\ tries[m] + task[m].left =< MaxAttempts
  BY <1>1, TaskHere
<1>3. CASE task[m].left = 0
  <2>1. task' = [task EXCEPT ![m] = NoTask] /\ UNCHANGED lookups
    BY <1>3 DEF Fire
  <2>2. NoTask \in Tasks /\ NoTask.at = "none" /\ NoTask.left = 0
    BY <1>1, TaskHere DEF NoTask, Task, Tasks
  <2>3. PeerTypeOK'
    BY <1>1, <2>1, TaskHere DEF PeerTypeOK
  <2>4. MovesTo(m, NoTask)
    BY <1>1, <1>2, <2>1, <2>2, <2>3, TaskHere DEF MovesTo
  <2>5. TypeOK' /\ Accounted'
    BY <2>4, TaskMoves
  <2> QED
    BY <1>1, <1>2, <2>1, <2>2, <2>5, CountFacts
<1>4. CASE task[m].left # 0
  <2> DEFINE t == Task("asking", task[m].left, {})
  <2>1. task' = [task EXCEPT ![m] = t] /\ GetPeers(m)
    BY <1>4 DEF Fire
  <2>2. t \in Tasks /\ t.at = "asking" /\ t.left = task[m].left /\ t.left > 0
    BY <1>1, <1>4, TaskHere DEF Task, Tasks
  <2>3. lookups'[m].phase # "idle"
    BY <1>1, <2>1, TaskHere DEF PeerTypeOK, GetPeers, Looking, Lookup
  <2>4. /\ PeerTypeOK'
        /\ \A s \in Requesters \ {m} : lookups'[s] = lookups[s]
    BY <1>1, <2>1, TaskHere, CallFacts
  <2>5. Messages \subseteq Requesters
    BY LightPushAssumption
  <2> HIDE DEF t
  <2>6. MovesTo(m, t)
    BY <1>1, <1>2, <2>1, <2>2, <2>3, <2>4, <2>5, TaskHere DEF MovesTo
  <2>7. TypeOK' /\ Accounted'
    BY <2>6, TaskMoves
  <2> QED
    BY <1>1, <1>2, <2>1, <2>2, <2>7, CountFacts
<1> QED
  BY <1>3, <1>4

\* What a task put back is: one attempt less, in the queue.
LEMMA RequeuedFacts ==
  ASSUME NEW left \in 1..MaxAttempts
  PROVE  /\ Requeued(left) \in Tasks
         /\ Requeued(left).at = "queued" /\ Requeued(left).left = left - 1
<1>1. left - 1 \in 0..MaxAttempts
  BY LightPushAssumption
<1> QED
  BY <1>1 DEF Requeued, Task, Tasks

\* A task whose peers are known runs with one of them, or, without any, is put
\* back.
LEMMA ExecuteStep ==
  ASSUME IInv, NEW m \in Messages, Execute(m)
  PROVE  TypeOK' /\ Accounted' /\ InProgressCounted'
<1>1. /\ task[m].at = "asking" /\ TakeAnswer(m)
      /\ UNCHANGED <<connected, locked, resting, running, starts, stage, delivered>>
      /\ Messages \subseteq Requesters
  BY LightPushAssumption DEF Execute
<1>2. /\ m \notin Trying /\ tries[m] + task[m].left =< MaxAttempts
      /\ task[m].left \in 1..MaxAttempts
  BY <1>1, TaskHere
<1>3. /\ PeerTypeOK' /\ lookups'[m].phase = "idle"
      /\ \A s \in Requesters \ {m} : lookups'[s] = lookups[s]
  BY <1>1, TaskHere, CallFacts
<1>4. CASE /\ task' = [task EXCEPT ![m] = Requeued(task[m].left)]
           /\ UNCHANGED <<inProgress, tries>>
  <2> DEFINE t == Requeued(task[m].left)
  <2>1. t \in Tasks /\ t.at = "queued" /\ t.left = task[m].left - 1
    BY <1>2, RequeuedFacts
  <2> HIDE DEF t
  <2>2. task' = [task EXCEPT ![m] = t] /\ UNCHANGED <<inProgress, tries>>
    BY <1>4 DEF t
  <2>3. MovesTo(m, t)
    BY <1>1, <1>2, <1>3, <2>1, <2>2, TaskHere DEF MovesTo
  <2> QED
    BY <1>2, <2>1, <2>2, <2>3, TaskMoves, CountFacts
<1>5. ASSUME NEW p \in lookups[m].usable,
             task' = [task EXCEPT ![m] = Task("running", task[m].left, {p})],
             inProgress' = inProgress + 1,
             tries' = [tries EXCEPT ![m] = @ + 1]
      PROVE  TypeOK' /\ Accounted' /\ InProgressCounted'
  <2> DEFINE t == Task("running", task[m].left, {p})
  <2>1. p \in Peers
    BY <1>1, TaskHere DEF PeerTypeOK
  <2>2. t \in Tasks /\ t.at = "running" /\ t.left = task[m].left
    BY <1>1, <2>1, TaskHere DEF Task, Tasks
  <2> HIDE DEF t
  <2>3. task' = [task EXCEPT ![m] = t]
    BY <1>5 DEF t
  <2>4. /\ tries' \in [Messages -> Nat] /\ tries'[m] = tries[m] + 1
        /\ \A n \in Messages \ {m} : tries'[n] = tries[n]
    BY <1>1, <1>5, TaskHere
  <2>5. MovesTo(m, t)
    BY <1>1, <1>2, <1>3, <2>2, <2>3, <2>4, TaskHere DEF MovesTo
  <2> QED
    BY <1>2, <1>5, <2>2, <2>3, <2>5, TaskMoves, CountFacts
<1> QED
  BY <1>4, <1>5 DEF Execute

\* The peer of a running task is renewed.
LEMMA RejectedStep ==
  ASSUME IInv, NEW m \in Messages, Rejected(m)
  PROVE  TypeOK' /\ Accounted' /\ InProgressCounted'
<1> DEFINE t == Task("renewing", task[m].left, task[m].peer)
<1>1. /\ task[m].at = "running" /\ task' = [task EXCEPT ![m] = t]
      /\ UNCHANGED <<connected, locked, resting, running, starts, stage, inProgress,
                     tries, delivered>>
      /\ Messages \subseteq Requesters
  BY LightPushAssumption DEF Rejected
<1>2. PICK p \in task[m].peer : RenewPeer(m, p)
  BY DEF Rejected
<1>3. p \in Peers /\ m \in Trying
  BY <1>1, TaskHere
<1>4. t \in Tasks /\ t.at = "renewing" /\ t.left = task[m].left
  BY <1>1, TaskHere DEF Task, Tasks
<1>5. lookups'[m].phase # "idle"
  BY <1>1, <1>2, TaskHere DEF PeerTypeOK, RenewPeer, Renewing, Lookup
<1>6. PeerTypeOK' /\ \A s \in Requesters \ {m} : lookups'[s] = lookups[s]
  BY <1>1, <1>2, <1>3, TaskHere, CallFacts
<1> HIDE DEF t
<1>7. MovesTo(m, t)
  BY <1>1, <1>3, <1>4, <1>5, <1>6, TaskHere DEF MovesTo
<1> QED
  BY <1>1, <1>3, <1>4, <1>7, TaskMoves, CountFacts

\* A try ends, with its renewal if it has one: the task is put back and no
\* longer counts.
LEMMA TryEnds ==
  ASSUME IInv, NEW m \in Messages,
         EndRejected(m) \/ \E success \in BOOLEAN : EndTry(m, success)
  PROVE  TypeOK' /\ Accounted' /\ InProgressCounted'
<1> DEFINE t == Requeued(task[m].left)
<1>1. /\ task[m].at \in {"running", "renewing"} /\ task' = [task EXCEPT ![m] = t]
      /\ inProgress' = inProgress - 1
      /\ UNCHANGED <<connected, locked, resting, running, starts, stage, tries>>
      /\ Messages \subseteq Requesters
  BY LightPushAssumption DEF EndRejected, EndTry, CountsDown, peerVars
<1>2. /\ m \in Trying /\ tries[m] + task[m].left =< MaxAttempts + 1
      /\ task[m].left \in 1..MaxAttempts
  BY <1>1, TaskHere
<1>3. t \in Tasks /\ t.at = "queued" /\ t.left = task[m].left - 1
  BY <1>2, RequeuedFacts
<1>4. tries[m] > 0
  BY <1>1 DEF IInv, Accounts
<1>5. delivered' \subseteq delivered \union {m}
  BY DEF EndRejected, EndTry
<1>6. /\ PeerTypeOK' /\ lookups'[m].phase = "idle"
      /\ \A s \in Requesters \ {m} : lookups'[s] = lookups[s]
  <2>1. CASE EndRejected(m)
    BY <1>1, <2>1, TaskHere, CallFacts DEF EndRejected
  <2>2. CASE \E success \in BOOLEAN : EndTry(m, success)
    BY <1>1, <2>2, TaskHere DEF EndTry, peerVars, PeerTypeOK
  <2> QED
    BY <2>1, <2>2
<1> HIDE DEF t
<1>7. MovesTo(m, t)
  BY <1>1, <1>2, <1>3, <1>4, <1>5, <1>6, TaskHere DEF MovesTo
<1> QED
  BY <1>1, <1>2, <1>3, <1>7, TaskMoves, CountFacts

-----------------------------------------------------------------------------
(* Theorems. *)

\* Every step of LightPush, and of the peers and others beside it, keeps the
\* invariant.
LEMMA Inductive == IInv /\ [Next]_vars => IInv'
<1> SUFFICES ASSUME IInv, [Next]_vars PROVE TypeOK' /\ Accounted' /\ InProgressCounted'
  BY DEF IInv, Accounted
<1>1. CASE UNCHANGED vars
  <2>1. UNCHANGED <<connected, locked, resting, lookups, running, starts, stage, task,
                    inProgress, tries, delivered>>
    BY <1>1 DEF vars, peerVars, retryVars
  <2>2. TypeOK'
    BY <2>1 DEF IInv, TypeOK, PeerTypeOK
  <2> QED
    BY <2>1, <2>2, OthersOnly DEF retryVars
<1>2. CASE Start \/ Stop
  BY <1>2, StartStep
<1>3. CASE ProcessQueue
  BY <1>3, ProcessQueueStep
<1>4. ASSUME NEW m \in Messages,
             \/ Send(m) \/ PushToPeers(m)
             \/ Fire(m) \/ Execute(m) \/ Rejected(m) \/ EndRejected(m)
             \/ \E success \in BOOLEAN : EndSend(m, success) \/ EndTry(m, success)
      PROVE  TypeOK' /\ Accounted' /\ InProgressCounted'
  BY <1>4, SendStep, PushStep, FireStep, ExecuteStep, RejectedStep, TryEnds
<1>5. CASE PeersMove \/ \E r \in Others : OtherAsks(r) \/ OtherTakes(r)
  BY <1>5, PeersStep
<1> QED
  BY <1>1, <1>2, <1>3, <1>4, <1>5 DEF Next

\* The state of LightPush, its RetryManager and the PeerManager keeps its shape;
\* a call is under way exactly for the tasks and sends that await one.
THEOREM TypeCorrect == Spec => []TypeOK
<1>1. IInv => TypeOK
  BY DEF IInv
<1> QED
  BY Initially, Inductive, <1>1, PTL DEF Spec

\* processQueue's limit cannot be lost: inProgress is the number of attempts that
\* have not ended, however they end.
THEOREM InProgressIsCounted == Spec => []InProgressCounted
<1>1. IInv => InProgressCounted
  BY DEF IInv
<1> QED
  BY Initially, Inductive, <1>1, PTL DEF Spec

\* However start and stop, renewals and rounds without peers alternate, a message
\* is never tried more often than maxAttempts.
THEOREM AttemptsAreBounded ==
  Spec => [](AttemptsBounded /\ \A m \in Messages : tries[m] =< MaxAttempts)
<1>1. IInv => AttemptsBounded /\ \A m \in Messages : tries[m] =< MaxAttempts
  <2> SUFFICES ASSUME IInv, NEW m \in Messages PROVE tries[m] =< MaxAttempts
    BY DEF IInv
  <2>1. /\ tries[m] \in Nat /\ task[m].left \in 0..MaxAttempts
        /\ tries[m] + task[m].left =< MaxAttempts + (IF m \in Trying THEN 1 ELSE 0)
    BY DEF IInv, TypeOK, AttemptsBounded
  <2>2. m \in Trying => task[m].left > 0
    BY DEF IInv, Accounts, Trying
  <2> QED
    BY <2>1, <2>2, LightPushAssumption
<1> QED
  BY Initially, Inductive, <1>1, PTL DEF Spec

\* The retries of a message begin when its send has failed, and never after a
\* send that a peer answered with success.
THEOREM RetriesFollowFailure == Spec => []RetriedAfterFailure
<1>1. IInv => RetriedAfterFailure
  BY DEF IInv
<1> QED
  BY Initially, Inductive, <1>1, PTL DEF Spec
\* Steps that are not the PeerManager's leave the locks alone; lockPeer takes what
\* it locks out of the unlocked peers, and renewPeer unlocks what it puts there.
LEMMA LockStep == LockedAvailable /\ [Next]_vars => LockedAvailable'
<1> SUFFICES ASSUME LockedAvailable, [Next]_vars PROVE LockedAvailable'
  OBVIOUS
<1>1. CASE UNCHANGED <<locked, resting>>
  BY <1>1 DEF LockedAvailable
<1>2. ASSUME NEW r \in Requesters, LookupStep(r) PROVE LockedAvailable'
  <2>1. CASE Check(r)
    BY <2>1 DEF Check, LockedAvailable
  <2>2. CASE Select(r)
    <3>1. UNCHANGED <<locked, resting>> \/ \E chosen \in SUBSET lookups[r].usable : Lock(chosen)
      BY <2>2 DEF Select
    <3> QED
      BY <1>1, <3>1 DEF Lock, LockedAvailable
  <2>3. CASE Renew(r)
    BY <2>3 DEF Renew, LockedAvailable
  <2> QED
    BY <1>2, <2>1, <2>2, <2>3 DEF LookupStep
<1>3. ASSUME NEW p \in Peers, Connect(p) \/ Disconnect(p) \/ Rested(p) PROVE LockedAvailable'
  BY <1>3 DEF Connect, Disconnect, Rested, LockedAvailable
<1>4. CASE PeersMove
  BY <1>2, <1>3, <1>4 DEF PeersMove
<1>5. CASE ~PeersMove
  <2>1. UNCHANGED <<locked, resting>>
    BY <1>5 DEF Next, vars, peerVars, Start, Stop, ProcessQueue, Send, PushToPeers, Fire,
         Execute, Rejected, EndRejected, EndSend, EndTry, OtherAsks, OtherTakes
  <2> QED
    BY <1>1, <2>1
<1> QED
  BY <1>4, <1>5

\* Whatever calls of getPeers and renewPeer run at once, those of light push and
\* of the other protocols, a locked peer is never one that was just unlocked.
THEOREM LockedPeersAreAvailable == Spec => []LockedAvailable
<1>1. Init => LockedAvailable
  BY DEF Init, PeerInit, LockedAvailable
<1> QED
  BY <1>1, LockStep, PTL DEF Spec
=============================================================================
