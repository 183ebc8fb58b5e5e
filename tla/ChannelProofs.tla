----------------------------- MODULE ChannelProofs -----------------------------
(***************************************************************************)
(* Theorems about the two halves of a reliable channel: sending, for every *)
(* set of messages and every limit of retries, and receiving, for every    *)
(* set of messages and every causal history.                               *)
(***************************************************************************)
EXTENDS ChannelHalves, FiniteSetTheorems, SequenceTheorems, TLAPS

Tasks == [kind: {"send", "ack"}, id: Messages]
Timers == [sync: BOOLEAN, process: BOOLEAN, sweeps: Int, sweepHandle: BOOLEAN,
           repairs: Int, repairHandle: {"none", "live", "dead"}]
Events == {"acknowledged", "not started"} \X Messages

\* The state of the sending half has its shape.
TypeOK ==
  /\ started \in BOOLEAN /\ stopping \in BOOLEAN
  /\ timers \in Timers
  /\ tasks \in Seq(Tasks)
  /\ loops \in Nat /\ syncing \in Nat /\ acks \in Nat /\ starts \in Nat
  /\ outgoing \subseteq Messages /\ wire \subseteq Messages
  /\ told \subseteq Events
  /\ sending \in [Messages -> Nat]
  /\ retry \in [Messages -> 0..MaxRetryAttempts]
  /\ calls \in [Messages -> Nat]
  /\ pushes \in [Messages -> Nat]

\* stop() waits only in a channel that is not started, and the handle of the
\* repair timer is live exactly when the one timer there is runs.
Handles ==
  /\ stopping => ~started
  /\ timers.repairs = IF timers.repairHandle = "live" THEN 1 ELSE 0
  /\ ~started => ~timers.sync /\ ~timers.process /\ timers.repairHandle # "live"

\* The retry timers of a stopped channel.
NoneRetries ==
  \A x \in Messages :
    ~started /\ ~stopping /\ <<"not started", x>> \notin told => retry[x] = 0

\* The inductive invariant of the sending half.
IInv == TypeOK /\ Handles /\ NoneRetries /\ RetriesBounded /\ NoTaskTwice

-----------------------------------------------------------------------------
(* The queue. *)

\* A queue has finitely many copies of a task, one more when it is appended and
\* one less when it is taken from the front.
LEMMA CopiesNat ==
  ASSUME NEW S, NEW queue \in Seq(S), NEW t
  PROVE  /\ IsFiniteSet({i \in DOMAIN queue : queue[i] = t})
         /\ Copies(queue, t) \in Nat
<1>1. IsFiniteSet(1..Len(queue))
  BY FS_Interval, LenProperties
<1>2. {i \in DOMAIN queue : queue[i] = t} \subseteq 1..Len(queue)
  BY LenProperties
<1> QED
  BY <1>1, <1>2, FS_Subset, FS_CardinalityType DEF Copies

LEMMA CopiesAppend ==
  ASSUME NEW S, NEW queue \in Seq(S), NEW u \in S, NEW t
  PROVE  Copies(Append(queue, u), t) = Copies(queue, t) + (IF u = t THEN 1 ELSE 0)
<1> DEFINE Here == {i \in DOMAIN queue : queue[i] = t}
           Longer == Append(queue, u)
           There == {i \in DOMAIN Longer : Longer[i] = t}
           n == Len(queue) + 1
<1>1. /\ Len(queue) \in Nat /\ DOMAIN queue = 1..Len(queue)
      /\ DOMAIN Longer = 1..n /\ Longer[n] = u
      /\ \A i \in 1..Len(queue) : Longer[i] = queue[i]
  BY AppendProperties, LenProperties
<1>2. n \notin Here
  BY <1>1
<1>3. /\ Copies(queue, t) = Cardinality(Here) /\ Copies(Longer, t) = Cardinality(There)
      /\ IsFiniteSet(Here) /\ Copies(queue, t) \in Nat
  BY CopiesNat DEF Copies
<1> HIDE DEF Here, There, Longer, n
<1>4. CASE u = t
  <2>1. There = Here \union {n}
    BY <1>1, <1>4 DEF Here, There, n
  <2> QED
    BY <1>2, <1>4, <1>3, <2>1, FS_AddElement DEF Longer
<1>5. CASE u # t
  <2>1. There = Here
    BY <1>1, <1>5 DEF Here, There, n
  <2> QED
    BY <1>5, <1>3, <2>1 DEF Longer
<1> QED
  BY <1>4, <1>5

LEMMA CopiesTail ==
  ASSUME NEW S, NEW queue \in Seq(S), queue # <<>>, NEW t
  PROVE  Copies(queue, t) = Copies(Tail(queue), t) + (IF Head(queue) = t THEN 1 ELSE 0)
<1> DEFINE Here == {i \in DOMAIN queue : queue[i] = t}
           Later == Here \ {1}
           Rest == Tail(queue)
           There == {i \in DOMAIN Rest : Rest[i] = t}
           Next1 == [i \in There |-> i + 1]
<1>1. /\ Len(queue) \in Nat \ {0} /\ DOMAIN queue = 1..Len(queue) /\ Head(queue) = queue[1]
      /\ Rest \in Seq(S) /\ DOMAIN Rest = 1..(Len(queue) - 1)
      /\ \A i \in 1..(Len(queue) - 1) : Rest[i] = queue[i + 1]
  BY HeadTailProperties, LenProperties, EmptySeq
<1>2. IsFiniteSet(There) /\ Cardinality(There) = Copies(Rest, t)
  BY <1>1, CopiesNat DEF Copies
<1>3. Next1 \in Bijection(There, Later)
  <2>1. Next1 \in [There -> Later]
    BY <1>1
  <2>2. \A i, j \in There : Next1[i] = Next1[j] => i = j
    BY <1>1
  <2>3. \A k \in Later : \E i \in There : Next1[i] = k
    <3> SUFFICES ASSUME NEW k \in Later PROVE \E i \in There : Next1[i] = k
      OBVIOUS
    <3>1. k - 1 \in There /\ k - 1 + 1 = k
      BY <1>1
    <3> QED
      BY <3>1
  <2> QED
    BY <2>1, <2>2, <2>3 
         DEF Bijection, Injection, Surjection, IsInjective
<1>4. IsFiniteSet(Later) /\ Cardinality(Later) = Copies(Rest, t)
  BY <1>2, <1>3, FS_Bijection DEF ExistsBijection
<1>5. Copies(queue, t) = Cardinality(Here) /\ Copies(Rest, t) \in Nat /\ 1 \notin Later
  BY <1>1, CopiesNat DEF Copies
<1>6. CASE Head(queue) = t
  <2>1. Here = Later \union {1}
    BY <1>1, <1>6
  <2> HIDE DEF Here, Later, Rest
  <2>2. Cardinality(Here) = Cardinality(Later) + 1
    BY <1>4, <1>5, <2>1, FS_AddElement
  <2> QED
    BY <1>4, <1>6, <1>5, <2>2 DEF Rest
<1>7. CASE Head(queue) # t
  <2>1. Here = Later
    BY <1>1, <1>7
  <2> HIDE DEF Here, Later, Rest
  <2> QED
    BY <1>4, <1>7, <1>5, <2>1 DEF Rest
<1> QED
  BY <1>6, <1>7

-----------------------------------------------------------------------------
(* Steps of the sending half. *)

\* processTasks, up to its first await, takes one task from the queue: a copy of
\* a message is handed to the node for each send task that leaves the queue.
LEMMA ProcessFacts ==
  ASSUME TypeOK, NEW queue \in Seq(Tasks), NEW idle \in Nat,
         NEW events \in SUBSET Events, Process(queue, idle, events)
  PROVE  /\ tasks' \in Seq(Tasks) /\ loops' \in Nat /\ outgoing' \subseteq Messages
         /\ events \subseteq told' /\ told' \subseteq Events
         /\ sending' \in [Messages -> Nat]
         /\ \A x \in Messages :
              sending'[x] + Copies(tasks', SendTask(x)) = sending[x] + Copies(queue, SendTask(x))
<1>1. CASE queue = <<>>
  BY <1>1 DEF Process, TypeOK
<1>2. CASE queue # <<>>
  <2> DEFINE t == Head(queue)
  <2>1. /\ t \in Tasks /\ t.kind \in {"send", "ack"} /\ t.id \in Messages
        /\ t.kind = "send" => t = SendTask(t.id)
        /\ Tail(queue) \in Seq(Tasks)
    <3>1. t \in Tasks /\ Tail(queue) \in Seq(Tasks)
      BY <1>2, HeadTailProperties
    <3> HIDE DEF t
    <3> QED
      BY <3>1 DEF Tasks, SendTask
  <2>2. \A x \in Messages :
          /\ Copies(queue, SendTask(x))
               = Copies(Tail(queue), SendTask(x)) + (IF t = SendTask(x) THEN 1 ELSE 0)
          /\ Copies(Tail(queue), SendTask(x)) \in Nat
    BY <1>2, <2>1, CopiesTail, CopiesNat
  <2>3. /\ tasks' = Tail(queue)
        /\ told' = events \union (IF Heard(t) THEN {<<"acknowledged", t.id>>} ELSE {})
        /\ \/ /\ t.kind = "ack" /\ outgoing' = outgoing \ {t.id}
              /\ loops' = idle + 1 /\ sending' = sending
           \/ /\ t.kind = "send" /\ outgoing' = outgoing \union {t.id}
              /\ sending' = [sending EXCEPT ![t.id] = @ + 1] /\ loops' = idle
    BY <1>2 DEF Process, Shifted
  <2> HIDE DEF t
  <2>4. \A x \in Messages : t = SendTask(x) <=> t.kind = "send" /\ t.id = x
    BY <2>1 DEF SendTask
  <2>7. /\ events \subseteq told' /\ told' \subseteq Events
    <3>1. Heard(t) => <<"acknowledged", t.id>> \in Events
      BY <2>1 DEF Events
    <3> QED
      BY <2>3, <3>1
  <2>5. CASE t.kind = "ack"
    <3>1. /\ sending' = sending /\ loops' \in Nat /\ outgoing' \subseteq Messages
      BY <2>3, <2>5 DEF TypeOK
    <3>2. \A x \in Messages :
            sending'[x] + Copies(tasks', SendTask(x)) = sending[x] + Copies(queue, SendTask(x))
      BY <2>2, <2>3, <2>4, <2>5, <3>1
    <3> QED
      BY <2>1, <2>3, <2>7, <3>1, <3>2 DEF TypeOK
  <2>6. CASE t.kind = "send"
    <3>1. /\ sending' = [sending EXCEPT ![t.id] = sending[t.id] + 1]
          /\ sending \in [Messages -> Nat]
      BY <2>3, <2>6 DEF TypeOK
    <3>2. \A x \in Messages : sending'[x] = sending[x] + (IF t.id = x THEN 1 ELSE 0)
      BY <3>1
    <3>3. sending' \in [Messages -> Nat]
      BY <2>1, <3>1
    <3>4. \A x \in Messages :
            sending'[x] + Copies(tasks', SendTask(x)) = sending[x] + Copies(queue, SendTask(x))
      BY <2>2, <2>3, <2>4, <2>6, <3>1, <3>2
    <3>5. loops' \in Nat /\ outgoing' \subseteq Messages
      BY <2>1, <2>3, <2>6 DEF TypeOK
    <3> QED
      BY <2>1, <2>3, <2>7, <3>3, <3>4, <3>5
  <2> QED
    BY <2>1, <2>5, <2>6
<1> QED
  BY <1>1, <1>2

\* An acknowledgement that is heard stops a timer; in a stopped channel none is.
LEMMA StopRetriesFacts ==
  ASSUME NEW timeouts \in [Messages -> 0..MaxRetryAttempts], NEW queue
  PROVE  /\ StopRetries(timeouts, queue) \in [Messages -> 0..MaxRetryAttempts]
         /\ \A x \in Messages : StopRetries(timeouts, queue)[x] \in {0, timeouts[x]}
         /\ ~started => StopRetries(timeouts, queue) = timeouts
  BY RetryAssumption DEF StopRetries, Heard

LEMMA ArmedFacts ==
  /\ Armed(0) = 1
  /\ \A n \in 0..MaxRetryAttempts : Armed(n) \in 0..MaxRetryAttempts
  /\ \A n \in 1..MaxRetryAttempts :
       Armed(n) = IF n = MaxRetryAttempts THEN 0 ELSE n + 1
  BY RetryAssumption DEF Armed

\* A limit for one call more.
LEMMA Distributes ==
  \A c \in Nat, n \in Nat : (c + 1) * (1 + n) = c * (1 + n) + 1 + n
  OBVIOUS

LEMMA Initially == Init => IInv
<1> SUFFICES ASSUME Init PROVE IInv
  OBVIOUS
<1>1. \A x \in Messages : Copies(<<>>, SendTask(x)) = 0
  <2>1. \A x : {i \in DOMAIN <<>> : <<>>[i] = SendTask(x)} = {}
    OBVIOUS
  <2> QED
    BY <2>1, FS_EmptySet DEF Copies
<1>2. TypeOK
  <2>1. tasks \in Seq(Tasks)
    BY EmptySeq DEF Init
  <2>2. timers \in Timers
    BY DEF Init, NoTimers, Timers
  <2>3. /\ started \in BOOLEAN /\ stopping \in BOOLEAN
        /\ loops \in Nat /\ syncing \in Nat /\ acks \in Nat /\ starts \in Nat
        /\ outgoing \subseteq Messages /\ wire \subseteq Messages /\ told \subseteq Events
    BY DEF Init
  <2>4. /\ sending \in [Messages -> Nat] /\ retry \in [Messages -> 0..MaxRetryAttempts]
        /\ calls \in [Messages -> Nat] /\ pushes \in [Messages -> Nat]
    BY RetryAssumption DEF Init
  <2> QED
    BY <2>1, <2>2, <2>3, <2>4 DEF TypeOK
<1>3. Handles /\ NoneRetries
  BY DEF Init, Handles, NoneRetries, NoTimers
<1>4. RetriesBounded
  BY RetryAssumption DEF Init, RetriesBounded
<1> QED
  BY <1>1, <1>2, <1>3, <1>4 DEF IInv, NoTaskTwice, Init

\* The queue with one more send task.
LEMMA SendQueued ==
  ASSUME TypeOK, NEW x \in Messages
  PROVE  /\ Append(tasks, SendTask(x)) \in Seq(Tasks)
         /\ \A y \in Messages :
              /\ Copies(Append(tasks, SendTask(x)), SendTask(y))
                   = Copies(tasks, SendTask(y)) + (IF x = y THEN 1 ELSE 0)
              /\ Copies(tasks, SendTask(y)) \in Nat
<1>1. tasks \in Seq(Tasks) /\ SendTask(x) \in Tasks
  BY DEF TypeOK, SendTask, Tasks
<1>2. \A y \in Messages : SendTask(x) = SendTask(y) <=> x = y
  BY DEF SendTask
<1>3. Append(tasks, SendTask(x)) \in Seq(Tasks)
  BY <1>1, AppendProperties
<1>4. ASSUME NEW y \in Messages
      PROVE  /\ Copies(Append(tasks, SendTask(x)), SendTask(y))
                  = Copies(tasks, SendTask(y)) + (IF x = y THEN 1 ELSE 0)
             /\ Copies(tasks, SendTask(y)) \in Nat
  <2>1. Copies(Append(tasks, SendTask(x)), SendTask(y))
          = Copies(tasks, SendTask(y)) + (IF SendTask(x) = SendTask(y) THEN 1 ELSE 0)
    BY <1>1, CopiesAppend
  <2>2. Copies(tasks, SendTask(y)) \in Nat
    BY <1>1, CopiesNat
  <2> QED
    BY <1>2, <2>1, <2>2
<1> QED
  BY <1>3, <1>4

\* A counter of each message.
LEMMA CountedUp ==
  ASSUME NEW f \in [Messages -> Nat], NEW x \in Messages
  PROVE  /\ [f EXCEPT ![x] = @ + 1] \in [Messages -> Nat]
         /\ \A y \in Messages :
              [f EXCEPT ![x] = @ + 1][y] = f[y] + (IF x = y THEN 1 ELSE 0)
  OBVIOUS

\* A call of send pushes its message once and sets the first of its timers, and
\* gives up the retries of an earlier call.
LEMMA SendStep ==
  ASSUME IInv, NEW x \in Messages, Send(x)
  PROVE  IInv'
<1> DEFINE queue == Append(tasks, SendTask(x))
           set == [retry EXCEPT ![x] = Armed(0)]
           events == {e \in told : e[2] # x}
                       \union (IF started THEN {} ELSE {<<"not started", x>>})
<1>1. TypeOK
  BY DEF IInv
<1>2. /\ Process(queue, loops, events) /\ retry' = StopRetries(set, queue)
      /\ calls' = [calls EXCEPT ![x] = @ + 1] /\ pushes' = [pushes EXCEPT ![x] = @ + 1]
      /\ UNCHANGED <<started, stopping, timers, syncing, wire, acks, starts>>
  BY DEF Send, Pushed
<1>3. events \in SUBSET Events
  <2>1. <<"not started", x>> \in Events
    BY DEF Events
  <2> QED
    BY <1>1, <2>1 DEF TypeOK
<1>4. queue \in Seq(Tasks) /\ loops \in Nat
  BY <1>1, SendQueued DEF TypeOK
<1>5. set \in [Messages -> 0..MaxRetryAttempts] /\ \A y \in Messages : y # x => set[y] = retry[y]
  BY <1>1, ArmedFacts, RetryAssumption DEF TypeOK
<1>6. set[x] = 1
  BY <1>1, ArmedFacts DEF TypeOK
<1> HIDE DEF set, queue
<1>7. /\ retry' \in [Messages -> 0..MaxRetryAttempts]
      /\ \A y \in Messages : retry'[y] \in {0, set[y]}
      /\ ~started => retry' = set
  BY <1>2, <1>5, StopRetriesFacts
<1>8. /\ calls' \in [Messages -> Nat] /\ pushes' \in [Messages -> Nat]
      /\ \A y \in Messages : /\ calls'[y] = calls[y] + (IF x = y THEN 1 ELSE 0)
                             /\ pushes'[y] = pushes[y] + (IF x = y THEN 1 ELSE 0)
  <2>1. calls \in [Messages -> Nat] /\ pushes \in [Messages -> Nat]
    BY <1>1 DEF TypeOK
  <2> QED
    BY <1>2, <2>1, CountedUp
<1>9. /\ tasks' \in Seq(Tasks) /\ loops' \in Nat /\ outgoing' \subseteq Messages
      /\ events \subseteq told' /\ told' \subseteq Events
      /\ sending' \in [Messages -> Nat]
      /\ \A y \in Messages :
           sending'[y] + Copies(tasks', SendTask(y)) = sending[y] + Copies(queue, SendTask(y))
  <2> HIDE DEF events
  <2> QED
    BY <1>1, <1>2, <1>3, <1>4, ProcessFacts
<1>10. TypeOK'
  BY <1>1, <1>2, <1>7, <1>8, <1>9 DEF TypeOK
<1>11. Handles'
  BY <1>2 DEF IInv, Handles
<1>12. NoneRetries'
  <2> SUFFICES ASSUME NEW y \in Messages, ~started, ~stopping, <<"not started", y>> \notin told'
               PROVE  retry'[y] = 0
    BY <1>2 DEF NoneRetries
  <2>1. y # x
    BY <1>9
  <2>2. <<"not started", y>> \notin told
    BY <1>9, <2>1
  <2> QED
    BY <1>5, <1>7, <2>1, <2>2 DEF IInv, NoneRetries
<1>13. RetriesBounded'
  <2> SUFFICES ASSUME NEW y \in Messages
               PROVE  pushes'[y] + (IF retry'[y] > 0 THEN MaxRetryAttempts + 1 - retry'[y] ELSE 0)
                        =< calls'[y] * (1 + MaxRetryAttempts)
    BY DEF RetriesBounded
  <2>1. /\ pushes[y] \in Nat /\ calls[y] \in Nat /\ retry[y] \in 0..MaxRetryAttempts
        /\ pushes[y] + (IF retry[y] > 0 THEN MaxRetryAttempts + 1 - retry[y] ELSE 0)
             =< calls[y] * (1 + MaxRetryAttempts)
    BY <1>1 DEF IInv, TypeOK, RetriesBounded
  <2>2. CASE y = x
    <3> DEFINE share == 1 + MaxRetryAttempts
               before == calls[y] * share
    <3>1. /\ (calls[y] + 1) * share = before + 1 + MaxRetryAttempts
          /\ before \in Nat
      BY <2>1, Distributes, RetryAssumption
    <3>2. retry'[y] \in {0, 1} /\ pushes'[y] = pushes[y] + 1 /\ calls'[y] = calls[y] + 1
      BY <1>6, <1>7, <1>8, <2>2
    <3>3. pushes[y] =< before
      BY <2>1, RetryAssumption
    <3> HIDE DEF before
    <3>4. pushes'[y] + (IF retry'[y] > 0 THEN MaxRetryAttempts + 1 - retry'[y] ELSE 0)
            =< before + 1 + MaxRetryAttempts
      BY <2>1, <3>1, <3>2, <3>3, RetryAssumption
    <3> QED
      BY <3>1, <3>2, <3>4
  <2>3. CASE y # x
    <3>1. retry'[y] \in {0, retry[y]} /\ pushes'[y] = pushes[y] /\ calls'[y] = calls[y]
      BY <1>5, <1>7, <1>8, <2>1, <2>3
    <3> QED
      BY <2>1, <3>1, RetryAssumption
  <2> QED
    BY <2>2, <2>3
<1>14. NoTaskTwice'
  <2> SUFFICES ASSUME NEW y \in Messages
               PROVE  sending'[y] + Copies(tasks', SendTask(y)) =< pushes'[y]
    BY DEF NoTaskTwice
  <2>1. /\ Copies(queue, SendTask(y)) = Copies(tasks, SendTask(y)) + (IF x = y THEN 1 ELSE 0)
        /\ Copies(tasks, SendTask(y)) \in Nat
    BY <1>1, SendQueued DEF queue
  <2>2. sending[y] + Copies(tasks, SendTask(y)) =< pushes[y] /\ sending[y] \in Nat /\ pushes[y] \in Nat
    BY <1>1 DEF IInv, NoTaskTwice, TypeOK
  <2>3. sending'[y] + Copies(tasks', SendTask(y))
          = sending[y] + Copies(tasks, SendTask(y)) + (IF x = y THEN 1 ELSE 0)
    <3>1. sending'[y] + Copies(tasks', SendTask(y)) = sending[y] + Copies(queue, SendTask(y))
      BY <1>9
    <3> QED
      BY <2>1, <2>2, <3>1
  <2>4. pushes'[y] = pushes[y] + (IF x = y THEN 1 ELSE 0)
    BY <1>8
  <2> QED
    BY <2>1, <2>2, <2>3, <2>4
<1> QED
  BY <1>10, <1>11, <1>12, <1>13, <1>14 DEF IInv

\* A retry timer that fires pushes its message once more, and its next timer has
\* one push less to come.
LEMMA RetryStep ==
  ASSUME IInv, NEW x \in Messages, RetryFires(x)
  PROVE  IInv'
<1> DEFINE queue == Append(tasks, SendTask(x))
<1>1. TypeOK
  BY DEF IInv
<1>2. /\ Process(queue, 0, told) /\ retry[x] > 0
      /\ retry' = [StopRetries(retry, queue) EXCEPT ![x] = Armed(retry[x])]
      /\ pushes' = [pushes EXCEPT ![x] = @ + 1]
      /\ UNCHANGED <<started, stopping, timers, syncing, wire, acks, calls, starts>>
  BY DEF RetryFires, Pushed
<1>3. queue \in Seq(Tasks) /\ told \in SUBSET Events /\ retry \in [Messages -> 0..MaxRetryAttempts]
  BY <1>1, SendQueued DEF TypeOK
<1> HIDE DEF queue
<1>4. retry[x] # 0 /\ retry[x] \in 1..MaxRetryAttempts /\ Armed(retry[x]) \in 0..MaxRetryAttempts
  BY <1>2, <1>3, ArmedFacts, RetryAssumption
<1>5. /\ retry' \in [Messages -> 0..MaxRetryAttempts]
      /\ retry'[x] = Armed(retry[x])
      /\ \A y \in Messages : y # x => retry'[y] \in {0, retry[y]}
  BY <1>2, <1>3, <1>4, StopRetriesFacts
<1>6. /\ pushes' \in [Messages -> Nat]
      /\ \A y \in Messages : pushes'[y] = pushes[y] + (IF x = y THEN 1 ELSE 0)
  <2>1. pushes \in [Messages -> Nat]
    BY <1>1 DEF TypeOK
  <2> QED
    BY <1>2, <2>1, CountedUp
<1>7. /\ tasks' \in Seq(Tasks) /\ loops' \in Nat /\ outgoing' \subseteq Messages
      /\ told \subseteq told' /\ told' \subseteq Events
      /\ sending' \in [Messages -> Nat]
      /\ \A y \in Messages :
           sending'[y] + Copies(tasks', SendTask(y)) = sending[y] + Copies(queue, SendTask(y))
  BY <1>1, <1>2, <1>3, ProcessFacts
<1>8. TypeOK'
  BY <1>1, <1>2, <1>5, <1>6, <1>7 DEF TypeOK
<1>9. Handles'
  BY <1>2 DEF IInv, Handles
<1>10. NoneRetries'
  <2> SUFFICES ASSUME NEW y \in Messages, ~started, ~stopping, <<"not started", y>> \notin told'
               PROVE  retry'[y] = 0
    BY <1>2 DEF NoneRetries
  <2>1. retry[y] = 0
    BY <1>7 DEF IInv, NoneRetries
  <2>2. y # x
    BY <1>4, <2>1
  <2> QED
    BY <1>5, <2>1, <2>2
<1>11. RetriesBounded'
  <2> SUFFICES ASSUME NEW y \in Messages
               PROVE  pushes'[y] + (IF retry'[y] > 0 THEN MaxRetryAttempts + 1 - retry'[y] ELSE 0)
                        =< calls[y] * (1 + MaxRetryAttempts)
    BY <1>2 DEF RetriesBounded
  <2> DEFINE most == calls[y] * (1 + MaxRetryAttempts)
  <2>1. /\ pushes[y] \in Nat /\ retry[y] \in 0..MaxRetryAttempts /\ calls[y] \in Nat
        /\ pushes[y] + (IF retry[y] > 0 THEN MaxRetryAttempts + 1 - retry[y] ELSE 0) =< most
    BY <1>1 DEF IInv, TypeOK, RetriesBounded
  <2>2. most \in Int
    BY <2>1, RetryAssumption
  <2> HIDE DEF most
  <2>3. CASE y = x
    <3>1. retry'[y] = (IF retry[y] = MaxRetryAttempts THEN 0 ELSE retry[y] + 1)
      BY <1>4, <1>5, <2>3, ArmedFacts
    <3>2. pushes'[y] = pushes[y] + 1 /\ retry[y] > 0
      BY <1>2, <1>6, <2>3
    <3>3. pushes'[y] + (IF retry'[y] > 0 THEN MaxRetryAttempts + 1 - retry'[y] ELSE 0) =< most
      BY <2>1, <2>2, <3>1, <3>2, RetryAssumption
    <3> QED
      BY <3>3 DEF most
  <2>4. CASE y # x
    <3>1. retry'[y] \in {0, retry[y]} /\ pushes'[y] = pushes[y]
      BY <1>5, <1>6, <2>1, <2>4
    <3>2. pushes'[y] + (IF retry'[y] > 0 THEN MaxRetryAttempts + 1 - retry'[y] ELSE 0) =< most
      BY <2>1, <2>2, <3>1, RetryAssumption
    <3> QED
      BY <3>2 DEF most
  <2> QED
    BY <2>3, <2>4
<1>12. NoTaskTwice'
  <2> SUFFICES ASSUME NEW y \in Messages
               PROVE  sending'[y] + Copies(tasks', SendTask(y)) =< pushes'[y]
    BY DEF NoTaskTwice
  <2>1. /\ Copies(queue, SendTask(y)) = Copies(tasks, SendTask(y)) + (IF x = y THEN 1 ELSE 0)
        /\ Copies(tasks, SendTask(y)) \in Nat
    BY <1>1, SendQueued DEF queue
  <2>2. sending[y] + Copies(tasks, SendTask(y)) =< pushes[y] /\ sending[y] \in Nat /\ pushes[y] \in Nat
    BY <1>1 DEF IInv, NoTaskTwice, TypeOK
  <2>3. sending'[y] + Copies(tasks', SendTask(y))
          = sending[y] + Copies(tasks, SendTask(y)) + (IF x = y THEN 1 ELSE 0)
    <3>1. sending'[y] + Copies(tasks', SendTask(y)) = sending[y] + Copies(queue, SendTask(y))
      BY <1>7
    <3> QED
      BY <2>1, <2>2, <3>1
  <2>4. pushes'[y] = pushes[y] + (IF x = y THEN 1 ELSE 0)
    BY <1>6
  <2> QED
    BY <2>1, <2>2, <2>3, <2>4
<1> QED
  BY <1>8, <1>9, <1>10, <1>11, <1>12 DEF IInv

\* Retry timers that are only stopped take nothing from the limits.
LEMMA FewerRetries ==
  ASSUME IInv, TypeOK', UNCHANGED <<pushes, calls>>,
         \A x \in Messages : retry'[x] \in {0, retry[x]}
  PROVE  RetriesBounded'
<1> SUFFICES ASSUME NEW y \in Messages
             PROVE  pushes[y] + (IF retry'[y] > 0 THEN MaxRetryAttempts + 1 - retry'[y] ELSE 0)
                      =< calls[y] * (1 + MaxRetryAttempts)
  BY DEF RetriesBounded
<1> DEFINE most == calls[y] * (1 + MaxRetryAttempts)
<1>1. /\ pushes[y] \in Nat /\ retry[y] \in 0..MaxRetryAttempts /\ calls[y] \in Nat
      /\ pushes[y] + (IF retry[y] > 0 THEN MaxRetryAttempts + 1 - retry[y] ELSE 0) =< most
  BY DEF IInv, TypeOK, RetriesBounded
<1>2. most \in Int
  BY <1>1, RetryAssumption
<1> HIDE DEF most
<1>3. retry'[y] \in {0, retry[y]}
  OBVIOUS
<1>4. pushes[y] + (IF retry'[y] > 0 THEN MaxRetryAttempts + 1 - retry'[y] ELSE 0) =< most
  BY <1>1, <1>2, <1>3, RetryAssumption
<1> QED
  BY <1>4 DEF most

\* A call of processTasks that continues, a timer of received messages that fires,
\* a sync message that is sent: the queue is processed and nothing is pushed.
LEMMA ProcessingStep ==
  ASSUME IInv, RunLoop \/ ProcessFires \/ EndSync
  PROVE  IInv'
<1>1. TypeOK
  BY DEF IInv
<1>2. /\ timers \in Timers /\ loops \in Nat /\ syncing \in Nat
      /\ tasks \in Seq(Tasks) /\ told \in SUBSET Events
      /\ retry \in [Messages -> 0..MaxRetryAttempts]
  BY <1>1 DEF TypeOK
<1>3. PICK idle \in Nat : Process(tasks, idle, told)
  BY <1>2 DEF RunLoop, ProcessFires, EndSync
<1>4. /\ retry' = StopRetries(retry, tasks) /\ syncing' \in Nat
      /\ timers' \in {timers, [timers EXCEPT !.process = FALSE]}
      /\ UNCHANGED <<started, stopping, wire, acks, calls, pushes, starts>>
  BY <1>2 DEF RunLoop, ProcessFires, EndSync
<1>5. /\ retry' \in [Messages -> 0..MaxRetryAttempts]
      /\ \A y \in Messages : retry'[y] \in {0, retry[y]}
  BY <1>2, <1>4, StopRetriesFacts
<1>6. /\ tasks' \in Seq(Tasks) /\ loops' \in Nat /\ outgoing' \subseteq Messages
      /\ told \subseteq told' /\ told' \subseteq Events
      /\ sending' \in [Messages -> Nat]
      /\ \A y \in Messages :
           sending'[y] + Copies(tasks', SendTask(y)) = sending[y] + Copies(tasks, SendTask(y))
  BY <1>1, <1>2, <1>3, ProcessFacts
<1>7. TypeOK'
  <2>1. timers' \in Timers
    BY <1>2, <1>4 DEF Timers
  <2> QED
    BY <1>1, <1>4, <1>5, <1>6, <2>1 DEF TypeOK
<1>8. Handles'
  BY <1>1, <1>4 DEF IInv, Handles, TypeOK, Timers
<1>9. NoneRetries'
  BY <1>4, <1>5, <1>6 DEF IInv, NoneRetries
<1>10. RetriesBounded'
  BY <1>4, <1>5, <1>7, FewerRetries
<1>11. NoTaskTwice'
  BY <1>4, <1>6 DEF IInv, NoTaskTwice
<1> QED
  BY <1>7, <1>8, <1>9, <1>10, <1>11 DEF IInv

\* New values of the sweeps' timers.
LEMMA SweepsSet ==
  ASSUME NEW t \in Timers, NEW n \in Int, NEW b \in BOOLEAN, NEW m \in Int,
         NEW h \in {"none", "live", "dead"}
  PROVE  [t EXCEPT !.sweeps = n, !.sweepHandle = b, !.repairs = m, !.repairHandle = h] \in Timers
  BY DEF Timers

LEMMA RepairsSet ==
  ASSUME NEW t \in Timers, NEW b \in BOOLEAN, NEW m \in Int,
         NEW h \in {"none", "live", "dead"}
  PROVE  [t EXCEPT !.sweepHandle = b, !.repairs = m, !.repairHandle = h] \in Timers
  BY DEF Timers

\* What start() and stop() make of the timers. They keep one repair timer at most.
LEMMA TimerFacts ==
  ASSUME NEW t \in Timers, t.repairs = IF t.repairHandle = "live" THEN 1 ELSE 0
  PROVE  /\ StartedTimers(t) \in Timers
         /\ StartedTimers(t).repairs = 1 /\ StartedTimers(t).repairHandle = "live"
         /\ StoppedTimers(t) \in Timers
         /\ StoppedTimers(t).repairs = 0 /\ StoppedTimers(t).repairHandle # "live"
         /\ ~StoppedTimers(t).sync /\ ~StoppedTimers(t).process
<1>1. /\ t.sync \in BOOLEAN /\ t.process \in BOOLEAN /\ t.sweepHandle \in BOOLEAN
      /\ t.sweeps \in Int /\ t.repairs \in Int /\ t.repairHandle \in {"none", "live", "dead"}
  BY DEF Timers
<1>2. PICK more \in Int : more = t.sweeps + 1 - (IF t.sweepHandle THEN 1 ELSE 0)
  BY <1>1
<1>3. PICK fewer \in Int : fewer = t.sweeps - (IF t.sweepHandle THEN 1 ELSE 0)
  BY <1>1
<1>4. PICK unset \in BOOLEAN : unset = (t.repairHandle = "none")
  OBVIOUS
<1>5. PICK handle \in {"none", "dead"} :
        handle = IF t.repairHandle = "live" THEN "dead" ELSE t.repairHandle
  BY <1>1
<1>6. /\ t.repairs + 1 - (IF t.repairHandle = "live" THEN 1 ELSE 0) = 1
      /\ t.repairs - (IF t.repairHandle = "live" THEN 1 ELSE 0) = 0
  BY <1>1
<1>7. StartSweeps(t) = [[t EXCEPT !.sweeps = more, !.sweepHandle = TRUE]
                          EXCEPT !.sweepHandle = unset, !.repairs = 1, !.repairHandle = "live"]
  BY <1>2, <1>4, <1>6 DEF StartSweeps, Timers
<1>8. StopSweeps(t) = [t EXCEPT !.sweeps = fewer, !.sweepHandle = FALSE, !.repairs = 0,
                                !.repairHandle = handle]
  BY <1>3, <1>5, <1>6 DEF StopSweeps
<1>9. /\ StartSweeps(t) \in Timers
      /\ StartSweeps(t).repairs = 1 /\ StartSweeps(t).repairHandle = "live"
  <2> DEFINE swept == [t EXCEPT !.sweeps = more, !.sweepHandle = TRUE]
  <2>1. swept \in Timers
    BY DEF Timers
  <2> HIDE DEF swept
  <2>2. [swept EXCEPT !.sweepHandle = unset, !.repairs = 1, !.repairHandle = "live"] \in Timers
    <3>1. 1 \in Int /\ "live" \in {"none", "live", "dead"}
      OBVIOUS
    <3> QED
      BY <2>1, <3>1, RepairsSet, Zenon
  <2>3. /\ [swept EXCEPT !.sweepHandle = unset, !.repairs = 1, !.repairHandle = "live"].repairs = 1
        /\ [swept EXCEPT !.sweepHandle = unset, !.repairs = 1,
                         !.repairHandle = "live"].repairHandle = "live"
    BY <2>1 DEF Timers
  <2> QED
    BY <1>7, <2>2, <2>3 DEF swept
<1>10. /\ StopSweeps(t) \in Timers
       /\ StopSweeps(t).repairs = 0 /\ StopSweeps(t).repairHandle = handle
  <2> DEFINE stopped == [t EXCEPT !.sweeps = fewer, !.sweepHandle = FALSE, !.repairs = 0,
                                  !.repairHandle = handle]
  <2>1. stopped \in Timers
    <3>1. 0 \in Int /\ handle \in {"none", "live", "dead"}
      OBVIOUS
    <3> QED
      BY <3>1, SweepsSet, Zenon
  <2>2. stopped.repairs = 0 /\ stopped.repairHandle = handle
    BY DEF Timers
  <2> QED
    BY <1>8, <2>1, <2>2
<1>11. /\ StartedTimers(t) \in Timers
       /\ StartedTimers(t).repairs = 1 /\ StartedTimers(t).repairHandle = "live"
  BY <1>9 DEF Timers, StartedTimers
<1>12. /\ StoppedTimers(t) \in Timers
       /\ StoppedTimers(t).repairs = 0 /\ StoppedTimers(t).repairHandle = handle
       /\ ~StoppedTimers(t).sync /\ ~StoppedTimers(t).process
  BY <1>10 DEF Timers, StoppedTimers
<1> QED
  BY <1>11, <1>12

\* start() clears the repair timer whose handle it has before it sets its own, and
\* stop() clears it; the retry timers go at the end of stop().
LEMMA StartStopStep ==
  ASSUME IInv, Start \/ Stop \/ Stopped
  PROVE  IInv'
<1>1. TypeOK /\ Handles
  BY DEF IInv
<1>2. UNCHANGED <<tasks, loops, outgoing, sending, told, syncing, wire, acks, calls, pushes>>
  BY DEF Start, Stop, Stopped, work
<1>3. /\ retry' \in [Messages -> 0..MaxRetryAttempts]
      /\ \A y \in Messages : retry'[y] \in {0, retry[y]}
      /\ starts' \in Nat /\ started' \in BOOLEAN /\ stopping' \in BOOLEAN
  <2>1. /\ retry \in [Messages -> 0..MaxRetryAttempts] /\ starts \in Nat
        /\ started \in BOOLEAN /\ stopping \in BOOLEAN
    BY <1>1 DEF TypeOK
  <2>2. retry' = retry \/ retry' = [x \in Messages |-> 0]
    BY DEF Start, Stop, Stopped, work
  <2>3. /\ starts' \in {starts, starts + 1} /\ started' \in BOOLEAN /\ stopping' \in BOOLEAN
    <3>1. CASE Start
      BY <2>1, <3>1 DEF Start
    <3>2. CASE Stop
      BY <2>1, <3>2 DEF Stop
    <3>3. CASE Stopped
      BY <2>1, <3>3 DEF Stopped
    <3> QED
      BY <3>1, <3>2, <3>3
  <2> QED
    BY <2>1, <2>2, <2>3, RetryAssumption
<1>4. timers' \in Timers
  <2>1. timers \in Timers
    BY <1>1 DEF TypeOK
  <2>2. StartedTimers(timers) \in Timers /\ StoppedTimers(timers) \in Timers
    BY <1>1, <2>1, TimerFacts DEF Handles
  <2> QED
    BY <2>1, <2>2 DEF Start, Stop, Stopped
<1>5. TypeOK'
  BY <1>1, <1>2, <1>3, <1>4 DEF TypeOK
<1>6. Handles'
  <2>1. CASE Start
    BY <1>1, <2>1, TimerFacts DEF Start, Handles, TypeOK
  <2>2. CASE Stop
    BY <1>1, <2>2, TimerFacts DEF Stop, Handles, TypeOK
  <2>3. CASE Stopped
    BY <1>1, <2>3 DEF Stopped, Handles
  <2> QED
    BY <2>1, <2>2, <2>3
<1>7. NoneRetries'
  BY <1>1 DEF Start, Stop, Stopped, work, IInv, NoneRetries
<1>8. RetriesBounded'
  BY <1>2, <1>3, <1>5, FewerRetries
<1>9. NoTaskTwice'
  BY <1>2 DEF IInv, NoTaskTwice
<1> QED
  BY <1>5, <1>6, <1>7, <1>8, <1>9 DEF IInv

\* What a step that neither pushes nor processes the queue leaves as it is.
LEMMA BesidesStep ==
  ASSUME IInv, TypeOK', Handles', UNCHANGED <<started, stopping, told, retry, pushes, calls>>,
         \A x \in Messages :
           sending'[x] + Copies(tasks', SendTask(x)) =< sending[x] + Copies(tasks, SendTask(x))
  PROVE  IInv'
<1>1. NoneRetries'
  BY DEF IInv, NoneRetries
<1>2. RetriesBounded'
  BY FewerRetries
<1>3. NoTaskTwice'
  <2> SUFFICES ASSUME NEW x \in Messages
               PROVE  sending'[x] + Copies(tasks', SendTask(x)) =< pushes'[x]
    BY DEF NoTaskTwice
  <2>1. /\ sending[x] + Copies(tasks, SendTask(x)) =< pushes[x]
        /\ sending[x] \in Nat /\ sending'[x] \in Nat /\ pushes[x] \in Nat
    BY DEF IInv, NoTaskTwice, TypeOK
  <2>2. Copies(tasks, SendTask(x)) \in Nat /\ Copies(tasks', SendTask(x)) \in Nat
    BY CopiesNat DEF IInv, TypeOK
  <2> QED
    BY <2>1, <2>2
<1> QED
  BY <1>1, <1>2, <1>3 DEF IInv

\* The node and the network: a message reaches others, a copy of it is answered,
\* a sync message begins, an acknowledgement arrives and is queued.
LEMMA NodeStep ==
  ASSUME IInv,
         \/ SyncFires
         \/ \E x \in Messages : \/ Reach(x) \/ Acknowledged(x)
                                \/ \E outcome \in Outcomes : EndSend(x, outcome)
  PROVE  IInv'
<1>1. TypeOK /\ Handles
  BY DEF IInv
<1>2. ASSUME NEW y \in Messages PROVE sending[y] + Copies(tasks, SendTask(y)) \in Int
  <2>1. sending[y] \in Nat /\ tasks \in Seq(Tasks)
    BY <1>1 DEF TypeOK
  <2>2. Copies(tasks, SendTask(y)) \in Nat
    BY <2>1, CopiesNat
  <2> QED
    BY <2>1, <2>2
<1>3. CASE SyncFires
  <2>1. TypeOK' /\ Handles'
    BY <1>1, <1>3 DEF SyncFires, work, TypeOK, Handles
  <2>2. UNCHANGED <<started, stopping, told, retry, pushes, calls, sending, tasks>>
    BY <1>3 DEF SyncFires, work
  <2>3. \A x \in Messages : sending[x] + Copies(tasks, SendTask(x)) \in Int
    BY <1>2
  <2> QED
    BY <2>1, <2>2, <2>3, BesidesStep
<1>4. ASSUME NEW x \in Messages, Reach(x) PROVE IInv'
  <2>1. TypeOK' /\ Handles'
    BY <1>1, <1>4 DEF Reach, work, TypeOK, Handles
  <2>2. UNCHANGED <<started, stopping, told, retry, pushes, calls, sending, tasks>>
    BY <1>4 DEF Reach, work
  <2>3. \A y \in Messages : sending[y] + Copies(tasks, SendTask(y)) \in Int
    BY <1>2
  <2> QED
    BY <2>1, <2>2, <2>3, BesidesStep
<1>5. ASSUME NEW x \in Messages, Acknowledged(x) PROVE IInv'
  <2>1. /\ started /\ tasks' = Append(tasks, AckTask(x)) /\ acks' = acks + 1
        /\ timers' = [timers EXCEPT !.process = TRUE]
        /\ UNCHANGED <<started, stopping, loops, outgoing, sending, told, retry,
                       syncing, wire, calls, pushes, starts>>
    BY <1>5 DEF Acknowledged
  <2>2. tasks \in Seq(Tasks) /\ AckTask(x) \in Tasks /\ timers \in Timers
    BY <1>1 DEF TypeOK, AckTask, Tasks
  <2>3. tasks' \in Seq(Tasks)
    BY <2>1, <2>2, AppendProperties
  <2>4. /\ timers' \in Timers
        /\ timers'.repairs = timers.repairs /\ timers'.repairHandle = timers.repairHandle
    BY <2>1, <2>2 DEF Timers
  <2>5. TypeOK'
    BY <1>1, <2>1, <2>3, <2>4 DEF TypeOK
  <2>6. Handles'
    BY <1>1, <2>1, <2>4 DEF Handles
  <2>7. ASSUME NEW y \in Messages
        PROVE  sending'[y] + Copies(tasks', SendTask(y)) =< sending[y] + Copies(tasks, SendTask(y))
    <3>1. AckTask(x) # SendTask(y)
      BY DEF AckTask, SendTask
    <3>2. Copies(tasks', SendTask(y)) = Copies(tasks, SendTask(y)) + 0
      BY <2>1, <2>2, <3>1, CopiesAppend
    <3>3. Copies(tasks, SendTask(y)) \in Nat /\ sending[y] \in Nat
      BY <1>1, <2>2, CopiesNat DEF TypeOK
    <3> QED
      BY <2>1, <3>2, <3>3
  <2> QED
    BY <2>1, <2>5, <2>6, <2>7, BesidesStep
<1>6. ASSUME NEW x \in Messages, NEW outcome \in Outcomes, EndSend(x, outcome) PROVE IInv'
  <2>1. PICK restarted \in BOOLEAN :
          /\ timers' = [timers EXCEPT !.sync = restarted]
          /\ restarted => timers.sync \/ started
    BY <1>1, <1>6 DEF EndSend, TypeOK, Timers
  <2>2. /\ sending[x] > 0 /\ sending' = [sending EXCEPT ![x] = @ - 1] /\ loops' = loops + 1
        /\ wire' \in {wire, wire \union {x}}
        /\ UNCHANGED <<started, stopping, tasks, outgoing, retry, told, syncing, acks,
                       calls, pushes, starts>>
    BY <1>6 DEF EndSend
  <2>3. timers \in Timers /\ sending \in [Messages -> Nat]
    BY <1>1 DEF TypeOK
  <2>4. /\ timers' \in Timers /\ timers'.sync = restarted
        /\ timers'.process = timers.process
        /\ timers'.repairs = timers.repairs /\ timers'.repairHandle = timers.repairHandle
    BY <2>1, <2>3 DEF Timers
  <2>5. /\ sending' \in [Messages -> Nat]
        /\ \A y \in Messages : sending'[y] =< sending[y]
    BY <2>2, <2>3
  <2>6. TypeOK'
    BY <1>1, <2>2, <2>4, <2>5 DEF TypeOK
  <2>7. Handles'
    BY <1>1, <2>1, <2>2, <2>4 DEF Handles
  <2>8. ASSUME NEW y \in Messages
        PROVE  sending'[y] + Copies(tasks', SendTask(y)) =< sending[y] + Copies(tasks, SendTask(y))
    <3>1. Copies(tasks, SendTask(y)) \in Nat /\ sending[y] \in Nat /\ sending'[y] \in Nat
      BY <1>1, <2>3, <2>5, CopiesNat DEF TypeOK
    <3> QED
      BY <2>2, <2>5, <3>1
  <2> QED
    BY <2>2, <2>6, <2>7, <2>8, BesidesStep
<1> QED
  BY <1>3, <1>4, <1>5, <1>6

\* Every step of the sending half keeps the invariant.
LEMMA Inductive == IInv /\ [Next]_vars => IInv'
<1> SUFFICES ASSUME IInv, [Next]_vars PROVE IInv'
  OBVIOUS
<1>1. CASE UNCHANGED vars
  BY <1>1 DEF vars, work, IInv, TypeOK, Handles, NoneRetries, RetriesBounded, NoTaskTwice
<1>2. CASE Next
  BY <1>2, SendStep, RetryStep, ProcessingStep, StartStopStep, NodeStep DEF Next
<1> QED
  BY <1>1, <1>2

\* However many calls of send, acknowledgements, stops and starts come between the
\* retries of a message, it is pushed once for each call of send and then
\* maxRetryAttempts times, the retries to come included.
THEOREM RetriesAreBounded == Spec => []RetriesBounded
<1>1. IInv => RetriesBounded
  BY DEF IInv
<1> QED
  BY Initially, Inductive, <1>1, PTL DEF Spec

\* Each push makes one copy of the message: however calls of processTasks interleave,
\* no task is processed twice.
THEOREM TasksTakenOnce == Spec => []NoTaskTwice
<1>1. IInv => NoTaskTwice
  BY DEF IInv
<1> QED
  BY Initially, Inductive, <1>1, PTL DEF Spec

\* After stop() has ended, no timer is left that would send, but those of messages
\* sent since.
THEOREM QuietOnceStopped == Spec => []QuietAfterStop
<1>1. IInv => QuietAfterStop
  BY DEF IInv, Handles, NoneRetries, QuietAfterStop, TypeOK
<1> QED
  BY Initially, Inductive, <1>1, PTL DEF Spec

-----------------------------------------------------------------------------
(* The receiving half. *)

Statuses == [received: SUBSET Contents, missing: SUBSET Contents, lost: SUBSET Contents,
             scheduled: BOOLEAN, cleaned: BOOLEAN, last: {"none", "synced", "syncing"}]
Channels == [history: SUBSET Contents, buffer: SUBSET Contents, timed: SUBSET Contents]

\* What the SDS channel has delivered or buffers.
Known == sds.history \union sds.buffer

\* What the properties read of the receiving half has its shape.
ReceptionTypeOK ==
  /\ listening \in BOOLEAN /\ closing \in {"no", "tasks", "query"}
  /\ inbox \in Seq(Contents) /\ wanted \subseteq Contents
  /\ sds \in Channels /\ status \in Statuses
  /\ sessions \in Nat

\* The SDS channel knows what was received, and what it ignores. While the channel
\* listens it knows nothing that is missing, and nothing is missing once stop() is
\* done.
KnownOrMissing ==
  /\ status.received \subseteq Known /\ sds.timed \subseteq Known
  /\ listening => closing = "no" /\ status.missing \intersect Known = {}
  /\ closing = "no" /\ ~listening => status.missing = {}

\* Before the first start nothing has been reported, and before the first stop
\* nothing is forgotten.
FirstSession ==
  /\ sessions = 0 => /\ ~listening /\ closing = "no"
                     /\ ~status.cleaned /\ ~status.scheduled /\ status.last = "none"
  /\ sessions = 1 /\ listening => ~status.cleaned

\* The inductive invariant of the receiving half.
ReceptionInv ==
  /\ ReceptionTypeOK /\ KnownOrMissing /\ FirstSession
  /\ CountedOnce /\ MissingIsWanted /\ FirstSessionReported

\* What the listeners make of the status.
LEMMA ReceivedStatus ==
  ASSUME NEW s \in Statuses, NEW m \in Contents
  PROVE  /\ OnReceived(s, m) \in Statuses
         /\ OnReceived(s, m).received = s.received \union {m}
         /\ OnReceived(s, m).missing = s.missing \ {m}
         /\ OnReceived(s, m).lost = s.lost \ {m}
         /\ OnReceived(s, m).scheduled = TRUE /\ OnReceived(s, m).cleaned = s.cleaned
  BY DEF Statuses, OnReceived

LEMMA MissingStatus ==
  ASSUME NEW s \in Statuses, NEW ms \in SUBSET Contents
  PROVE  /\ OnMissing(s, ms) \in Statuses
         /\ OnMissing(s, ms).received = s.received
         /\ OnMissing(s, ms).missing = s.missing \union (ms \ (s.received \union s.lost))
         /\ OnMissing(s, ms).lost = s.lost
         /\ OnMissing(s, ms).scheduled = TRUE /\ OnMissing(s, ms).cleaned = s.cleaned
  BY DEF Statuses, OnMissing

LEMMA LostStatus ==
  ASSUME NEW s \in Statuses, NEW ms \in SUBSET Contents
  PROVE  /\ OnLost(s, ms) \in Statuses
         /\ OnLost(s, ms).received = s.received
         /\ OnLost(s, ms).missing = s.missing \ ms
         /\ OnLost(s, ms).lost = s.lost \union ms
         /\ OnLost(s, ms).scheduled = TRUE /\ OnLost(s, ms).cleaned = s.cleaned
  BY DEF Statuses, OnLost

\* The messages of a queue.
LEMMA QueueFacts ==
  ASSUME NEW queue \in Seq(Contents)
  PROVE  /\ \A m \in Contents : /\ Append(queue, m) \in Seq(Contents)
                                /\ ToSet(Append(queue, m)) = ToSet(queue) \union {m}
         /\ queue # <<>> => /\ Head(queue) \in Contents /\ Tail(queue) \in Seq(Contents)
                            /\ ToSet(queue) = {Head(queue)} \union ToSet(Tail(queue))
<1>1. ASSUME NEW m \in Contents
      PROVE  /\ Append(queue, m) \in Seq(Contents)
             /\ ToSet(Append(queue, m)) = ToSet(queue) \union {m}
  <2> DEFINE longer == Append(queue, m)
  <2>1. /\ longer \in Seq(Contents) /\ DOMAIN longer = 1..(Len(queue) + 1)
        /\ longer[Len(queue) + 1] = m /\ Len(queue) \in Nat /\ DOMAIN queue = 1..Len(queue)
        /\ \A i \in 1..Len(queue) : longer[i] = queue[i]
    BY AppendProperties, LenProperties
  <2> HIDE DEF longer
  <2>2. 1..(Len(queue) + 1) = (1..Len(queue)) \union {Len(queue) + 1}
    BY <2>1
  <2>3. ToSet(longer) = ToSet(queue) \union {m}
    BY <2>1, <2>2 DEF ToSet
  <2> QED
    BY <2>1, <2>3 DEF longer
<1>2. ASSUME queue # <<>>
      PROVE  /\ Head(queue) \in Contents /\ Tail(queue) \in Seq(Contents)
             /\ ToSet(queue) = {Head(queue)} \union ToSet(Tail(queue))
  <2> DEFINE rest == Tail(queue)
             n == Len(queue)
  <2>1. /\ rest \in Seq(Contents) /\ n \in Nat \ {0} /\ DOMAIN rest = 1..(n - 1)
        /\ DOMAIN queue = 1..n /\ Head(queue) = queue[1] /\ Head(queue) \in Contents
        /\ \A i \in 1..(n - 1) : rest[i] = queue[i + 1]
    BY <1>2, HeadTailProperties, LenProperties, EmptySeq
  <2> HIDE DEF rest, n
  <2>2. ASSUME NEW x \in ToSet(queue) PROVE x \in {Head(queue)} \union ToSet(rest)
    <3>1. PICK i \in 1..n : x = queue[i]
      BY <2>1 DEF ToSet
    <3>2. CASE i = 1
      BY <2>1, <3>1, <3>2
    <3>3. CASE i # 1
      <4>1. i - 1 \in 1..(n - 1) /\ rest[i - 1] = x
        BY <2>1, <3>1, <3>3
      <4> QED
        BY <2>1, <4>1 DEF ToSet
    <3> QED
      BY <3>2, <3>3
  <2>3. ASSUME NEW x \in ToSet(rest) PROVE x \in ToSet(queue)
    <3>1. PICK i \in 1..(n - 1) : x = queue[i + 1]
      BY <2>1, <2>3 DEF ToSet
    <3>2. i + 1 \in 1..n
      BY <2>1
    <3> QED
      BY <2>1, <3>1, <3>2 DEF ToSet
  <2>4. Head(queue) \in ToSet(queue)
    BY <2>1 DEF ToSet
  <2> QED
    BY <2>1, <2>2, <2>3, <2>4 DEF rest
<1> QED
  BY <1>1, <1>2

\* Timers that fire and queries that begin or end change nothing that is reported.
LEMMA UnreportedStep ==
  ReceptionInv /\ UNCHANGED <<listening, closing, inbox, wanted, sds, status, sessions>>
    => ReceptionInv'
  BY DEF ReceptionInv, ReceptionTypeOK, KnownOrMissing, Known, FirstSession, CountedOnce,
       MissingIsWanted, FirstSessionReported

LEMMA ReceptionInitially == ReceptionInit => ReceptionInv
<1> SUFFICES ASSUME ReceptionInit PROVE ReceptionInv
  OBVIOUS
<1>1. /\ listening = FALSE /\ closing = "no" /\ inbox = <<>> /\ wanted = {} /\ sessions = 0
      /\ sds = [history |-> {}, buffer |-> {}, timed |-> {}]
      /\ status = [received |-> {}, missing |-> {}, lost |-> {},
                   scheduled |-> FALSE, cleaned |-> FALSE, last |-> "none"]
  BY DEF ReceptionInit
<1>2. inbox \in Seq(Contents)
  BY <1>1, EmptySeq
<1>3. ReceptionTypeOK
  BY <1>1, <1>2 DEF ReceptionTypeOK, Channels, Statuses
<1> QED
  BY <1>1, <1>3 DEF ReceptionInv, KnownOrMissing, Known, FirstSession, CountedOnce,
       MissingIsWanted, FirstSessionReported

\* A message that is queued is asked for no longer: it has come.
LEMMA IncomingStep ==
  ASSUME ReceptionInv, NEW m \in Contents, ProcessIncomingMessage(m),
         UNCHANGED <<listening, closing, sds, status, sessions>>
  PROVE  ReceptionInv'
<1>1. /\ inbox' = Append(inbox, m) /\ wanted' = wanted \ {m}
  BY DEF ProcessIncomingMessage, Unwanted
<1>2. inbox' \in Seq(Contents) /\ ToSet(inbox') = ToSet(inbox) \union {m}
  BY <1>1, QueueFacts DEF ReceptionInv, ReceptionTypeOK
<1>3. ReceptionTypeOK'
  BY <1>1, <1>2 DEF ReceptionInv, ReceptionTypeOK
<1>4. MissingIsWanted'
  BY <1>1, <1>2 DEF ReceptionInv, MissingIsWanted
<1>5. KnownOrMissing' /\ FirstSession' /\ CountedOnce' /\ FirstSessionReported'
  BY DEF ReceptionInv, KnownOrMissing, Known, FirstSession, CountedOnce, FirstSessionReported
<1> QED
  BY <1>3, <1>4, <1>5 DEF ReceptionInv

\* A status event tells what the status is by now.
LEMMA SendStatusStep ==
  ASSUME ReceptionInv, SendStatus
  PROVE  ReceptionInv'
<1>1. status \in Statuses
  BY DEF ReceptionInv, ReceptionTypeOK
<1>2. PICK last \in {"none", "synced", "syncing"} :
        last = IF status.cleaned THEN status.last ELSE Current(status)
  BY <1>1 DEF Statuses, Current
<1>3. /\ status.scheduled /\ status' = [status EXCEPT !.scheduled = FALSE, !.last = last]
      /\ UNCHANGED <<listening, closing, inbox, sds, wanted, sessions>>
  BY <1>2 DEF SendStatus, receiving, retriever
<1>4. /\ status' \in Statuses
      /\ status'.received = status.received /\ status'.missing = status.missing
      /\ status'.lost = status.lost /\ status'.cleaned = status.cleaned
      /\ status'.last = last
  BY <1>1, <1>3 DEF Statuses
<1>5. ReceptionTypeOK'
  BY <1>3, <1>4 DEF ReceptionInv, ReceptionTypeOK
<1>6. KnownOrMissing' /\ FirstSession' /\ CountedOnce' /\ MissingIsWanted'
  BY <1>3, <1>4 DEF ReceptionInv, KnownOrMissing, Known, FirstSession, CountedOnce,
       MissingIsWanted
<1>7. FirstSessionReported'
  BY <1>2, <1>3, <1>4 DEF ReceptionInv, FirstSession, FirstSessionReported, Current
<1> QED
  BY <1>5, <1>6, <1>7 DEF ReceptionInv

\* start() and the steps of stop(): at its end nothing is missing or wanted.
LEMMA SessionStep ==
  ASSUME ReceptionInv, StartReception \/ StopReception \/ StopRetriever \/ EndStop
  PROVE  ReceptionInv'
<1>1. ReceptionTypeOK /\ KnownOrMissing /\ FirstSession
  BY DEF ReceptionInv
<1>2. CASE StartReception
  <2>1. /\ ~listening /\ closing = "no" /\ listening' = TRUE /\ sessions' = sessions + 1
        /\ UNCHANGED <<closing, inbox, sds, status, wanted>>
    BY <1>2 DEF StartReception, receiving
  <2>2. ReceptionTypeOK'
    BY <1>1, <2>1 DEF ReceptionTypeOK
  <2>3. status'.missing = {} /\ sessions \in Nat /\ sessions' # 0
    BY <1>1, <2>1 DEF KnownOrMissing, ReceptionTypeOK
  <2>4. KnownOrMissing' /\ CountedOnce' /\ MissingIsWanted'
    BY <2>1, <2>3 DEF ReceptionInv, KnownOrMissing, Known, CountedOnce, MissingIsWanted
  <2>5. sessions' = 1 => sessions = 0
    BY <2>1, <2>3
  <2>6. FirstSession' /\ FirstSessionReported'
    BY <1>1, <2>1, <2>3, <2>5 DEF FirstSession, FirstSessionReported
  <2> QED
    BY <2>2, <2>4, <2>6 DEF ReceptionInv
<1>3. CASE StopReception
  <2>1. /\ listening /\ listening' = FALSE /\ closing' = "tasks"
        /\ UNCHANGED <<inbox, sds, status, wanted, sessions>>
    BY <1>3 DEF StopReception, retriever
  <2>2. ReceptionTypeOK'
    BY <1>1, <2>1 DEF ReceptionTypeOK
  <2> QED
    BY <2>1, <2>2 DEF ReceptionInv, KnownOrMissing, Known, FirstSession, CountedOnce,
         MissingIsWanted, FirstSessionReported
<1>4. CASE StopRetriever
  <2>1. /\ closing = "tasks" /\ closing' = "query"
        /\ UNCHANGED <<listening, inbox, sds, status, wanted, sessions>>
    BY <1>4 DEF StopRetriever, receiving
  <2>2. ReceptionTypeOK'
    BY <1>1, <2>1 DEF ReceptionTypeOK
  <2> QED
    BY <2>1, <2>2 DEF ReceptionInv, KnownOrMissing, Known, FirstSession, CountedOnce,
         MissingIsWanted, FirstSessionReported
<1>5. CASE EndStop
  <2>1. /\ closing = "query" /\ closing' = "no" /\ wanted' = {}
        /\ status' = [status EXCEPT !.cleaned = TRUE, !.received = {}, !.missing = {},
                                    !.lost = {}, !.last = "none"]
        /\ UNCHANGED <<listening, inbox, sds, sessions>>
    BY <1>5 DEF EndStop, receiving
  <2>2. status \in Statuses
    BY <1>1 DEF ReceptionTypeOK
  <2>3. /\ status' \in Statuses /\ status'.received = {} /\ status'.missing = {}
        /\ status'.lost = {}
    BY <2>1, <2>2 DEF Statuses
  <2>4. ReceptionTypeOK'
    BY <1>1, <2>1, <2>3 DEF ReceptionTypeOK
  <2>5. ~listening /\ ~listening' /\ sessions # 0 /\ sessions' # 0
    BY <1>1, <2>1 DEF KnownOrMissing, FirstSession
  <2> QED
    BY <2>1, <2>3, <2>4, <2>5 DEF ReceptionInv, KnownOrMissing, Known, FirstSession,
         CountedOnce, MissingIsWanted, FirstSessionReported
<1> QED
  BY <1>2, <1>3, <1>4, <1>5

\* What a message waits for is not known.
LEMMA MissingFacts ==
  ASSUME NEW m \in Contents
  PROVE  Missing(m) \subseteq Contents /\ Missing(m) \intersect Known = {}
  BY DependsAssumption DEF Missing, Known

\* A message taken from the queue is known and no longer missing, what it waits for
\* is missing and, with a hint, wanted. A message that is ignored was not missing.
LEMMA DrainStep ==
  ASSUME ReceptionInv, Drain
  PROVE  ReceptionInv'
<1>1. /\ ReceptionTypeOK /\ KnownOrMissing
      /\ UNCHANGED <<listening, closing, sessions>>
  BY DEF ReceptionInv, Drain
<1>2. CASE UNCHANGED <<inbox, sds, status, wanted>>
  BY <1>1, <1>2, UnreportedStep
<1>3. CASE inbox # <<>> /\ inbox' = Tail(inbox) /\ Receive(Head(inbox))
  <2> DEFINE m == Head(inbox)
  <2>1. /\ m \in Contents /\ inbox' \in Seq(Contents)
        /\ ToSet(inbox) = {m} \union ToSet(inbox')
    BY <1>1, <1>3, QueueFacts DEF ReceptionTypeOK
  <2>2. Receive(m)
    BY <1>3
  <2> HIDE DEF m
  <2>3. CASE m \in sds.timed
    <3>1. UNCHANGED <<sds, status, wanted>>
      BY <2>2, <2>3 DEF Receive, Ignored
    <3>2. ReceptionTypeOK' /\ KnownOrMissing'
      BY <1>1, <2>1, <3>1 DEF ReceptionTypeOK, KnownOrMissing, Known
    <3>3. listening => m \notin status.missing
      BY <1>1, <2>3 DEF KnownOrMissing
    <3>4. MissingIsWanted'
      BY <1>1, <2>1, <3>1, <3>3 DEF ReceptionInv, MissingIsWanted
    <3> QED
      BY <1>1, <3>1, <3>2, <3>4 DEF ReceptionInv, FirstSession, CountedOnce, FirstSessionReported
  <2>4. CASE m \notin sds.timed
    <3> DEFINE missing == Missing(m)
               received == OnReceived(status, m)
    <3>1. missing \subseteq Contents /\ missing \intersect Known = {}
      BY <2>1, MissingFacts
    <3>2. /\ sds' = IF missing = {}
                    THEN [sds EXCEPT !.history = @ \union {m}]
                    ELSE [sds EXCEPT !.buffer = @ \union {m}, !.timed = @ \union {m}]
          /\ wanted' = IF listening THEN wanted \union (missing \intersect Hinted) ELSE wanted
          /\ status' = IF ~listening THEN status
                       ELSE IF missing = {} THEN received
                       ELSE OnMissing(received, missing)
      BY <2>2, <2>4 DEF Receive, Ignored, Want
    <3>3. /\ sds' \in Channels /\ Known' = Known \union {m}
          /\ sds'.timed \subseteq sds.timed \union {m}
      <4>1. sds \in Channels
        BY <1>1 DEF ReceptionTypeOK
      <4>2. /\ [sds EXCEPT !.history = @ \union {m}] \in Channels
            /\ [sds EXCEPT !.buffer = @ \union {m}, !.timed = @ \union {m}] \in Channels
        BY <2>1, <4>1 DEF Channels
      <4> QED
        BY <3>2, <4>1, <4>2 DEF Channels, Known
    <3>4. status \in Statuses
      BY <1>1 DEF ReceptionTypeOK
    <3>5. /\ received \in Statuses
          /\ received.received = status.received \union {m}
          /\ received.missing = status.missing \ {m} /\ received.lost = status.lost \ {m}
          /\ received.scheduled = TRUE /\ received.cleaned = status.cleaned
      BY <2>1, <3>4, ReceivedStatus
    <3> HIDE DEF missing, received
    <3>6. listening =>
            /\ status' \in Statuses
            /\ status'.received = received.received
            /\ status'.missing
                 = received.missing \union (missing \ (received.received \union received.lost))
            /\ status'.lost = received.lost
            /\ status'.scheduled = TRUE /\ status'.cleaned = status.cleaned
      <4>1. CASE listening /\ missing = {}
        BY <3>2, <3>5, <4>1
      <4>2. CASE listening /\ missing # {}
        <5>1. status' = OnMissing(received, missing)
          BY <3>2, <4>2
        <5> QED
          BY <3>1, <3>5, <5>1, MissingStatus
      <4> QED
        BY <4>1, <4>2
    <3>7. wanted' \subseteq wanted \union missing
      BY <3>2
    <3>8. ReceptionTypeOK'
      BY <1>1, <2>1, <3>1, <3>2, <3>3, <3>4, <3>6, <3>7 DEF ReceptionTypeOK
    <3>9. CASE listening
      <4>1. KnownOrMissing'
        BY <1>1, <3>1, <3>3, <3>5, <3>6, <3>9 DEF KnownOrMissing
      <4>2. CountedOnce'
        BY <3>5, <3>6, <3>9 DEF ReceptionInv, CountedOnce
      <4>3. MissingIsWanted'
        BY <2>1, <3>2, <3>5, <3>6, <3>9 DEF ReceptionInv, MissingIsWanted
      <4>4. FirstSession' /\ FirstSessionReported'
        BY <1>1, <3>6, <3>9 DEF ReceptionInv, FirstSession, FirstSessionReported
      <4> QED
        BY <3>8, <4>1, <4>2, <4>3, <4>4 DEF ReceptionInv
    <3>10. CASE ~listening
      <4>1. status' = status
        BY <3>2, <3>10
      <4>2. KnownOrMissing'
        BY <1>1, <3>3, <3>10, <4>1 DEF KnownOrMissing
      <4> QED
        BY <1>1, <3>8, <3>10, <4>1, <4>2 DEF ReceptionInv, FirstSession, CountedOnce,
             MissingIsWanted, FirstSessionReported
    <3> QED
      BY <3>9, <3>10
  <2> QED
    BY <2>3, <2>4
<1> QED
  BY <1>2, <1>3 DEF Drain

\* A sweep knows as much as before; what it gives up is neither received nor known.
LEMMA SweepStep ==
  ASSUME ReceptionInv, NEW late \in SUBSET Contents, Sweep(late)
  PROVE  ReceptionInv'
<1> DEFINE ready == {m \in sds.buffer : Missing(m) = {}}
           given == {m \in late \intersect sds.buffer : Missing(m) # {}}
           kept == sds.buffer \ (ready \union given)
           lost == UNION {Missing(m) : m \in given}
           missing == UNION {Missing(m) : m \in kept}
           before == IF given = {} THEN status ELSE OnLost(status, lost)
<1>1. /\ ReceptionTypeOK /\ KnownOrMissing
      /\ UNCHANGED <<listening, closing, inbox, sessions>>
  BY DEF ReceptionInv, Sweep, receiving
<1>2. /\ sds' = [sds EXCEPT !.buffer = kept, !.history = @ \union ready \union given]
      /\ wanted' = IF listening THEN wanted \union (missing \intersect Hinted) ELSE wanted
      /\ status' = IF ~listening THEN status ELSE OnMissing(before, missing)
  BY DEF Sweep, Want
<1>3. sds \in Channels /\ status \in Statuses
  BY <1>1 DEF ReceptionTypeOK
<1>4. /\ sds.buffer \subseteq Contents
      /\ ready \subseteq sds.buffer /\ given \subseteq sds.buffer /\ kept \subseteq sds.buffer
      /\ sds.buffer \subseteq ready \union given \union kept
  BY <1>3 DEF Channels
<1>5. /\ lost \subseteq Contents /\ lost \intersect Known = {}
      /\ missing \subseteq Contents /\ missing \intersect Known = {}
  BY <1>4, MissingFacts
<1> HIDE DEF ready, given, kept, lost, missing
<1>6. sds' \in Channels /\ Known' = Known /\ sds'.timed = sds.timed
  <2>1. /\ [sds EXCEPT !.buffer = kept, !.history = @ \union ready \union given] \in Channels
        /\ sds'.timed = sds.timed
    BY <1>2, <1>3, <1>4 DEF Channels
  <2>2. sds'.buffer = kept /\ sds'.history = sds.history \union ready \union given
    BY <1>2, <1>3 DEF Channels
  <2> QED
    BY <1>2, <1>4, <2>1, <2>2 DEF Known
<1>7. CASE ~listening
  <2>1. UNCHANGED <<status, wanted>>
    BY <1>2, <1>7
  <2>2. ReceptionTypeOK'
    BY <1>1, <1>6, <2>1 DEF ReceptionTypeOK
  <2>3. KnownOrMissing'
    BY <1>1, <1>6, <1>7, <2>1 DEF KnownOrMissing
  <2> QED
    BY <1>1, <1>7, <2>1, <2>2, <2>3 DEF ReceptionInv, FirstSession, CountedOnce,
         MissingIsWanted, FirstSessionReported
<1>8. CASE listening
  <2>1. /\ before \in Statuses
        /\ before.received = status.received /\ before.cleaned = status.cleaned
        /\ \/ before.missing = status.missing /\ before.lost = status.lost
           \/ before.missing = status.missing \ lost /\ before.lost = status.lost \union lost
    <3>1. CASE given = {}
      BY <1>3, <3>1
    <3>2. CASE given # {}
      BY <1>3, <1>5, <3>2, LostStatus
    <3> QED
      BY <3>1, <3>2
  <2> HIDE DEF before
  <2>2. /\ status' \in Statuses
        /\ status'.received = before.received
        /\ status'.missing
             = before.missing \union (missing \ (before.received \union before.lost))
        /\ status'.lost = before.lost
        /\ status'.scheduled = TRUE /\ status'.cleaned = status.cleaned
    BY <1>2, <1>5, <1>8, <2>1, MissingStatus
  <2>3. wanted' = wanted \union (missing \intersect Hinted)
    BY <1>2, <1>8
  <2>4. ReceptionTypeOK'
    BY <1>1, <1>5, <1>6, <2>2, <2>3 DEF ReceptionTypeOK
  <2>5. KnownOrMissing'
    BY <1>1, <1>5, <1>6, <1>8, <2>1, <2>2 DEF KnownOrMissing
  <2>6. CountedOnce'
    BY <1>1, <1>5, <2>1, <2>2 DEF ReceptionInv, CountedOnce, KnownOrMissing
  <2>7. MissingIsWanted'
    BY <1>1, <1>8, <2>1, <2>2, <2>3 DEF ReceptionInv, MissingIsWanted
  <2>8. FirstSession' /\ FirstSessionReported'
    BY <1>1, <1>8, <2>2 DEF ReceptionInv, FirstSession, FirstSessionReported
  <2> QED
    BY <2>4, <2>5, <2>6, <2>7, <2>8 DEF ReceptionInv
<1> QED
  BY <1>7, <1>8

\* Every step of the receiving half keeps the invariant.
LEMMA ReceptionInductive == ReceptionInv /\ [ReceptionNext]_receptionVars => ReceptionInv'
<1> SUFFICES ASSUME ReceptionInv, [ReceptionNext]_receptionVars PROVE ReceptionInv'
  OBVIOUS
<1>1. CASE UNCHANGED receptionVars
  BY <1>1, UnreportedStep DEF receptionVars, receiving, retriever
<1>2. CASE ProcessTimerFires \/ ProcessTasks \/ RetrieveMissingMessage
  BY <1>2, UnreportedStep DEF ProcessTimerFires, ProcessTasks, RetrieveMissingMessage,
       receiving, retriever
<1>3. ASSUME NEW m \in Contents, Arrive(m) PROVE ReceptionInv'
  BY <1>3, IncomingStep DEF Arrive
<1>4. ASSUME NEW n \in 1..MaxQueries, EndQuery(n) \/ \E m \in Contents : Retrieved(n, m)
      PROVE  ReceptionInv'
  BY <1>4, IncomingStep, UnreportedStep DEF EndQuery, Retrieved, receiving
<1>5. ASSUME NEW late \in SUBSET Contents, Sweep(late) PROVE ReceptionInv'
  BY <1>5, SweepStep
<1> QED
  BY <1>1, <1>2, <1>3, <1>4, <1>5, SessionStep, DrainStep, SendStatusStep DEF ReceptionNext

\* Whatever order messages arrive in, are swept, given up and retrieved in, over any
\* number of stops and starts, a status event counts a message once: SDS knows what
\* was received, so a sweep never gives it up.
THEOREM EachCountedOnce == ReceptionSpec => []CountedOnce
<1>1. ReceptionInv => CountedOnce
  BY DEF ReceptionInv
<1> QED
  BY ReceptionInitially, ReceptionInductive, <1>1, PTL DEF ReceptionSpec

\* What the application is told to be missing, and can be asked for, is asked for or
\* waits in the queue: no message that SDS knows already is missing, so taking a
\* message from the queue that SDS ignores loses no request.
THEOREM MissingAreWanted == ReceptionSpec => []MissingIsWanted
<1>1. ReceptionInv => MissingIsWanted
  BY DEF ReceptionInv
<1> QED
  BY ReceptionInitially, ReceptionInductive, <1>1, PTL DEF ReceptionSpec

\* Until the first stop, the last status event is true once the microtasks are done.
THEOREM FirstSessionIsReported == ReceptionSpec => []FirstSessionReported
<1>1. ReceptionInv => FirstSessionReported
  BY DEF ReceptionInv
<1> QED
  BY ReceptionInitially, ReceptionInductive, <1>1, PTL DEF ReceptionSpec
=============================================================================
