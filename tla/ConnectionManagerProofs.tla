------------------------ MODULE ConnectionManagerProofs ------------------------
(***************************************************************************)
(* Theorems about ConnectionManager and its Dialer, for every finite set   *)
(* of peers, any number of overlapping rounds and every limit.             *)
(***************************************************************************)
EXTENDS ConnectionManager, FiniteSetTheorems, TLAPS

USE DEF Callers

\* No two immediate dials run, and a batch has at most MaxDialingPeers dials.
OneImmediate == \A d, e \in dialing \ QueueDials : d = e
BatchIsSmall ==
  IsFiniteSet(QueueDials) /\ Cardinality(QueueDials) =< MaxDialingPeers

\* The inductive invariant of the dialer.
DialerInv == DialerTypeOK /\ OneImmediate /\ BatchIsSmall /\ LocksAreHeld

\* The inductive invariant of the connection manager.
IInv == ConnectionManagerTypeOK /\ DialerInv /\ PingsFollowConnections

-----------------------------------------------------------------------------
(* Steps of the dialer. *)

\* A batch taken from the queue is as small as the code says.
LEMMA BatchBound ==
  ASSUME DialerTypeOK, NEW n \in Nat, n =< Len(dialingQueue)
  PROVE  LET B == {Dial(dialingQueue[i], Timer) : i \in 1 .. n} IN
           /\ IsFiniteSet(B) /\ Cardinality(B) =< n
           /\ B \subseteq [peer : Peers, caller : {Timer}]
<1> DEFINE B == {Dial(dialingQueue[i], Timer) : i \in 1 .. n}
           f == [i \in 1 .. n |-> Dial(dialingQueue[i], Timer)]
<1>1. IsFiniteSet(1 .. n) /\ Cardinality(1 .. n) = n
  BY FS_Interval, SMT
<1>2. f \in Surjection(1 .. n, B)
  BY DEF Surjection
<1>3. IsFiniteSet(B) /\ Cardinality(B) =< n
  BY <1>1, <1>2, FS_Surjection
<1>4. \A i \in 1 .. n : dialingQueue[i] \in Peers
  BY DEF DialerTypeOK
<1> QED
  BY <1>3, <1>4 DEF Dial

\* A call of dial only counts calls.
LEMMA CallDialKeeps ==
  ASSUME DialerInv, NEW c \in Callers, NEW S \in SUBSET Peers, CallDial(c, S),
         connected' \subseteq Peers
  PROVE  DialerInv'
<1>1. calls' \in [Callers -> [Peers -> Nat]]
  <2> DEFINE add(p) == IF p \in S \ (connected \union cooling) THEN 1 ELSE 0
  <2>1. \A p \in Peers : calls[c][p] + add(p) \in Nat
    BY DEF DialerInv, DialerTypeOK
  <2>2. [p \in Peers |-> calls[c][p] + add(p)] \in [Peers -> Nat]
    BY <2>1
  <2>3. calls' = [calls EXCEPT ![c] = [p \in Peers |-> calls[c][p] + add(p)]]
    BY DEF CallDial, DialerInv, DialerTypeOK
  <2> QED
    BY <2>2, <2>3 DEF DialerInv, DialerTypeOK
<1>2. UNCHANGED <<dialingQueue, dialing, isImmediateDialing, isProcessing, cooling>>
  BY DEF CallDial
<1> QED
  BY <1>1, <1>2 DEF DialerInv, DialerTypeOK, OneImmediate, BatchIsSmall,
       LocksAreHeld, QueueDials

\* What a call does once it has looked at the peer.
LEMMA CheckedKeeps ==
  ASSUME DialerInv, NEW c \in Callers, NEW p \in Peers, Checked(c, p),
         connected' \subseteq Peers, DialerAssumption
  PROVE  DialerInv'
<1>1. calls' \in [Callers -> [Peers -> Nat]]
  BY DEF Checked, DialerInv, DialerTypeOK
<1>2. cooling' = cooling /\ isProcessing' = isProcessing
  BY DEF Checked
<1>3. CASE UNCHANGED <<dialingQueue, dialing, isImmediateDialing>>
  BY <1>1, <1>2, <1>3 DEF DialerInv, DialerTypeOK, OneImmediate, BatchIsSmall,
       LocksAreHeld, QueueDials
<1>4. CASE /\ ~isImmediateDialing /\ isImmediateDialing' = TRUE
           /\ dialing' = dialing \union {Dial(p, c)}
           /\ UNCHANGED dialingQueue
  <2>1. c # Timer
    BY DEF DialerAssumption, Others, Timer
  <2>2. /\ QueueDials' = QueueDials
        /\ (dialing \ QueueDials)' = {Dial(p, c)}
    BY <1>4, <2>1 DEF QueueDials, Dial, DialerInv, LocksAreHeld
  <2>3. dialing' \subseteq [peer : Peers, caller : Callers \union {Timer}]
    BY <1>4 DEF Dial, DialerInv, DialerTypeOK
  <2> QED
    BY <1>1, <1>2, <1>4, <2>2, <2>3 DEF DialerInv, DialerTypeOK, OneImmediate,
         BatchIsSmall, LocksAreHeld
<1>5. CASE /\ dialingQueue' = IF p \in Queued THEN dialingQueue
                                             ELSE Append(dialingQueue, p)
           /\ UNCHANGED <<dialing, isImmediateDialing>>
  <2>1. dialingQueue' \in Seq(Peers)
    BY <1>5 DEF DialerInv, DialerTypeOK
  <2> QED
    BY <1>1, <1>2, <1>5, <2>1 DEF DialerInv, DialerTypeOK, OneImmediate,
         BatchIsSmall, LocksAreHeld, QueueDials
<1> QED
  BY <1>3, <1>4, <1>5 DEF Checked

\* A skipped peer only ends its call.
LEMMA SkippedKeeps ==
  ASSUME DialerInv, NEW c \in Callers, NEW p \in Peers, Skipped(c, p),
         connected' \subseteq Peers
  PROVE  DialerInv'
<1>1. calls' \in [Callers -> [Peers -> Nat]]
  BY DEF Skipped, DialerInv, DialerTypeOK
<1> QED
  BY <1>1 DEF Skipped, DialerInv, DialerTypeOK, OneImmediate, BatchIsSmall,
       LocksAreHeld, QueueDials

\* The timer starts a batch when no other batch runs.
LEMMA ProcessQueueKeeps ==
  ASSUME DialerInv, ProcessQueue, connected' \subseteq Peers, DialerAssumption
  PROVE  DialerInv'
<1> DEFINE n == IF Len(dialingQueue) < MaxDialingPeers THEN Len(dialingQueue)
                                                       ELSE MaxDialingPeers
           B == {Dial(dialingQueue[i], Timer) : i \in 1 .. n}
<1>1. /\ Len(dialingQueue) \in Nat /\ Len(dialingQueue) > 0 /\ dialingQueue \in Seq(Peers)
  BY DEF ProcessQueue, DialerInv, DialerTypeOK
<1>2. n \in Nat /\ n > 0 /\ n =< Len(dialingQueue) /\ n =< MaxDialingPeers
  BY <1>1 DEF DialerAssumption
<1>3. /\ IsFiniteSet(B) /\ Cardinality(B) =< n
      /\ B \subseteq [peer : Peers, caller : {Timer}]
  BY <1>2, BatchBound DEF DialerInv
<1>4. B # {}
  <2>1. Dial(dialingQueue[1], Timer) \in B
    BY <1>2
  <2> QED
    BY <2>1
<1>5. QueueDials = {}
  BY DEF ProcessQueue, DialerInv, LocksAreHeld
<1>6. dialing' = dialing \union B /\ isProcessing' = TRUE
  BY DEF ProcessQueue
<1>7. QueueDials' = B /\ (dialing \ QueueDials)' = dialing \ QueueDials
  <2> HIDE DEF n, B
  <2> QED
    BY <1>3, <1>5, <1>6 DEF QueueDials
<1>8. Cardinality(B) =< MaxDialingPeers
  <2> HIDE DEF B, n
  <2> QED
    BY <1>2, <1>3, FS_CardinalityType DEF DialerAssumption
<1>9. dialingQueue' \in Seq(Peers)
  BY <1>1, <1>2 DEF ProcessQueue
<1>10. UNCHANGED <<calls, isImmediateDialing, cooling>>
  BY DEF ProcessQueue
<1>11. dialing' \subseteq [peer : Peers, caller : Callers \union {Timer}]
  <2> HIDE DEF n, B
  <2> QED
    BY <1>3, <1>6 DEF DialerInv, DialerTypeOK
<1> QED
  <2> HIDE DEF n, B
  <2> QED
    BY <1>3, <1>4, <1>6, <1>7, <1>8, <1>9, <1>10, <1>11 DEF DialerInv, DialerTypeOK,
         OneImmediate, BatchIsSmall, LocksAreHeld

\* A dial that ends frees its own lock and no other.
LEMMA EndDialKeeps ==
  ASSUME DialerInv, NEW d \in dialing, EndDial(d), connected' \subseteq Peers,
         DialerAssumption
  PROVE  DialerInv'
<1>1. /\ dialing' = dialing \ {d} /\ cooling' = cooling \union {d.peer}
      /\ UNCHANGED <<calls, dialingQueue>>
  BY DEF EndDial
<1>2. d \in [peer : Peers, caller : Callers \union {Timer}]
  BY DEF DialerInv, DialerTypeOK
<1>3. QueueDials' = QueueDials \ {d}
  BY <1>1 DEF QueueDials
<1>4. BatchIsSmall'
  <2>1. QueueDials \ {d} \in SUBSET QueueDials
    OBVIOUS
  <2>2. /\ IsFiniteSet(QueueDials \ {d})
        /\ Cardinality(QueueDials \ {d}) =< Cardinality(QueueDials)
    BY <2>1, FS_Subset DEF DialerInv, BatchIsSmall
  <2>3. Cardinality(QueueDials) \in Nat /\ Cardinality(QueueDials \ {d}) \in Nat
    BY <2>2, FS_CardinalityType DEF DialerInv, BatchIsSmall
  <2> QED
    BY <1>3, <2>2, <2>3 DEF DialerInv, BatchIsSmall, DialerAssumption
<1>5. OneImmediate'
  BY <1>1, <1>3 DEF DialerInv, OneImmediate
<1>6. LocksAreHeld' /\ isImmediateDialing' \in BOOLEAN /\ isProcessing' \in BOOLEAN
  <2>1. CASE d.caller = Timer
    <3>1. d \in QueueDials
      BY <2>1 DEF QueueDials
    <3>2. isProcessing' = (QueueDials # {d}) /\ isImmediateDialing' = isImmediateDialing
      BY <2>1 DEF EndDial
    <3>3. (dialing \ QueueDials)' = dialing \ QueueDials
      BY <1>1, <1>3, <3>1
    <3>4. QueueDials' # {} <=> QueueDials # {d}
      BY <1>3, <3>1
    <3> QED
      BY <3>2, <3>3, <3>4 DEF LocksAreHeld, DialerInv, DialerTypeOK
  <2>2. CASE d.caller # Timer
    <3>1. d \in dialing \ QueueDials
      BY <2>2 DEF QueueDials
    <3>2. isImmediateDialing' = FALSE /\ isProcessing' = isProcessing
      BY <2>2 DEF EndDial
    <3>3. (dialing \ QueueDials)' = {}
      BY <1>1, <1>3, <3>1 DEF DialerInv, OneImmediate
    <3>4. QueueDials' = QueueDials
      BY <1>3, <3>1
    <3> QED
      BY <3>2, <3>3, <3>4 DEF LocksAreHeld, DialerInv, DialerTypeOK
  <2> QED
    BY <2>1, <2>2
<1> QED
  BY <1>1, <1>2, <1>4, <1>5, <1>6 DEF DialerInv, DialerTypeOK

\* Only the records of past dials change, or nothing.
LEMMA HistoryKeeps ==
  ASSUME DialerInv, connected' \subseteq Peers, cooling' \subseteq Peers,
         UNCHANGED <<calls, dialingQueue, dialing, isImmediateDialing, isProcessing>>
  PROVE  DialerInv'
BY DEF DialerInv, DialerTypeOK, OneImmediate, BatchIsSmall, LocksAreHeld, QueueDials

-----------------------------------------------------------------------------
(* Connections. *)

\* What is left of the invariant beside the dialer.
ManagerInv ==
  /\ started \in BOOLEAN /\ online \in BOOLEAN /\ isNetworkConnected \in BOOLEAN
  /\ connected \subseteq Peers /\ known \subseteq Peers /\ locked \subseteq connected
  /\ pingKeepAliveTimers \subseteq Peers
  /\ storeReads \in 0 .. MaxReads
  /\ PingsFollowConnections

RoundsOK ==
  rounds \in [Rounds ->
    [phase : {"idle", "counted", "dialing", "dropping", "reading", "trimming"},
     room : 0 .. MaxConnections, peers : SUBSET Peers]]

LEMMA InvParts ==
  /\ IInv <=> DialerInv /\ ManagerInv /\ RoundsOK
  /\ IInv' <=> DialerInv' /\ ManagerInv' /\ RoundsOK'
BY DEF IInv, ManagerInv, RoundsOK, ConnectionManagerTypeOK, DialerInv, DialerTypeOK

LEMMA ReadLaterType ==
  ASSUME storeReads \in 0 .. MaxReads, NEW n \in Nat, ReadLater(n),
         ConnectionManagerAssumption
  PROVE  storeReads' \in 0 .. MaxReads
BY DEF ReadLater, ConnectionManagerAssumption

LEMMA OpenedKeeps ==
  ASSUME ManagerInv, NEW p \in Peers, Opened(p), UNCHANGED <<started, online, known>>,
         ConnectionManagerAssumption
  PROVE  ManagerInv'
<1>1. storeReads' \in 0 .. MaxReads
  <2>1. CASE started /\ p \notin connected
    <3> DEFINE n == IF ~isNetworkConnected /\ online /\ AutoRecovery THEN 1 ELSE 0
    <3>1. ReadLater(n)
      BY <2>1 DEF Opened
    <3>2. n \in Nat
      OBVIOUS
    <3> HIDE DEF n
    <3> QED
      BY <3>1, <3>2, ReadLaterType DEF ManagerInv
  <2>2. CASE ~(started /\ p \notin connected)
    BY <2>2 DEF Opened, ManagerInv
  <2> QED
    BY <2>1, <2>2
<1> QED
  BY <1>1 DEF ManagerInv, Opened, PingsFollowConnections

LEMMA ClosedKeeps ==
  ASSUME ManagerInv, NEW p \in Peers, Closed(p), UNCHANGED <<started, online, known>>,
         ConnectionManagerAssumption
  PROVE  ManagerInv'
<1>1. storeReads' \in 0 .. MaxReads
  <2>1. CASE started
    <3> DEFINE n == IF connected # {p} THEN 0
                    ELSE IF isNetworkConnected /\ online /\ AutoRecovery THEN 2 ELSE 1
    <3>1. ReadLater(n)
      BY <2>1 DEF Closed
    <3>2. n \in Nat
      OBVIOUS
    <3> HIDE DEF n
    <3> QED
      BY <3>1, <3>2, ReadLaterType DEF ManagerInv
  <2>2. CASE ~started
    BY <2>2 DEF Closed, ManagerInv
  <2> QED
    BY <2>1, <2>2
<1>2. isNetworkConnected' \in BOOLEAN
  BY DEF Closed, ManagerInv
<1> QED
  BY <1>1, <1>2 DEF ManagerInv, Closed, PingsFollowConnections

-----------------------------------------------------------------------------
(* Rounds. *)

LEMMA SetRoundKeeps ==
  ASSUME RoundsOK, NEW r \in Rounds, NEW x, SetRound(r, x),
         x \in [phase : {"idle", "counted", "dialing", "dropping", "reading", "trimming"},
                room : 0 .. MaxConnections, peers : SUBSET Peers]
  PROVE  RoundsOK'
BY DEF RoundsOK, SetRound

LEMMA RoundTypes ==
  ASSUME ConnectionManagerAssumption, NEW S \in SUBSET Peers,
         NEW phase \in {"idle", "counted", "dialing", "dropping", "reading", "trimming"},
         NEW room \in 0 .. MaxConnections
  PROVE  /\ Round(phase, room, S) \in
              [phase : {"idle", "counted", "dialing", "dropping", "reading", "trimming"},
               room : 0 .. MaxConnections, peers : SUBSET Peers]
         /\ 0 \in 0 .. MaxConnections
BY DEF Round, ConnectionManagerAssumption

LEMMA TrimLaterType ==
  ASSUME ConnectionManagerAssumption, NEW S \in SUBSET Peers
  PROVE  /\ TrimLater(S) \in
              [phase : {"idle", "counted", "dialing", "dropping", "reading", "trimming"},
               room : 0 .. MaxConnections, peers : SUBSET Peers]
         /\ Idle \in
              [phase : {"idle", "counted", "dialing", "dropping", "reading", "trimming"},
               room : 0 .. MaxConnections, peers : SUBSET Peers]
BY DEF TrimLater, Idle, Round, ConnectionManagerAssumption

LEMMA BeginRoundKeeps ==
  ASSUME IInv, NEW r \in Rounds, BeginRound(r), ConnectionManagerAssumption
  PROVE  RoundsOK'
<1>1. connected \in SUBSET Peers /\ RoundsOK
  BY InvParts DEF ManagerInv
<1>2. Cardinality(connected) \in Nat
  BY <1>1, FS_Subset, FS_CardinalityType DEF ConnectionManagerAssumption
<1>3. CASE Cardinality(connected) =< MaxConnections
  <2>1. MaxConnections - Cardinality(connected) \in 0 .. MaxConnections
    BY <1>2, <1>3 DEF ConnectionManagerAssumption
  <2>2. SetRound(r, Round("counted", MaxConnections - Cardinality(connected), {}))
    BY <1>3 DEF BeginRound
  <2> QED
    BY <1>1, <2>1, <2>2, RoundTypes, SetRoundKeeps
<1>4. CASE ~(Cardinality(connected) =< MaxConnections)
  <2>1. CASE SetRound(r, TrimLater(connected))
    BY <1>1, <2>1, TrimLaterType, SetRoundKeeps
  <2>2. CASE \E drop \in SUBSET (connected \ locked) : SetRound(r, Round("dropping", 0, drop))
    <3>1. PICK drop \in SUBSET (connected \ locked) : SetRound(r, Round("dropping", 0, drop))
      BY <2>2
    <3>2. drop \in SUBSET Peers /\ 0 \in 0 .. MaxConnections
      BY <1>1 DEF ConnectionManagerAssumption
    <3> QED
      BY <1>1, <3>1, <3>2, RoundTypes, SetRoundKeeps
  <2> QED
    BY <1>4, <2>1, <2>2 DEF BeginRound
<1> QED
  BY <1>3, <1>4

LEMMA TrimKeeps ==
  ASSUME IInv, NEW r \in Rounds, Trim(r), ConnectionManagerAssumption
  PROVE  RoundsOK'
<1>1. rounds[r].peers \in SUBSET Peers /\ RoundsOK /\ 0 \in 0 .. MaxConnections
  BY InvParts DEF RoundsOK, ConnectionManagerAssumption
<1>2. CASE SetRound(r, Idle)
  BY <1>1, <1>2, TrimLaterType, SetRoundKeeps
<1>3. CASE \E drop \in SUBSET rounds[r].peers : SetRound(r, Round("trimming", 0, drop))
  <2>1. PICK drop \in SUBSET rounds[r].peers : SetRound(r, Round("trimming", 0, drop))
    BY <1>3
  <2> QED
    BY <1>1, <2>1, RoundTypes, SetRoundKeeps
<1> QED
  BY <1>2, <1>3 DEF Trim

LEMMA HangUpKeeps ==
  ASSUME IInv, NEW r \in Rounds, NEW p \in Peers, HangUp(r, p),
         ConnectionManagerAssumption
  PROVE  ManagerInv' /\ RoundsOK'
<1>1. ManagerInv /\ RoundsOK /\ UNCHANGED <<started, online, known>>
  BY InvParts DEF HangUp
<1>2. ManagerInv'
  <2>1. CASE Closed(p)
    BY <1>1, <2>1, ClosedKeeps
  <2>2. CASE UNCHANGED <<connectionVars, storeReads>>
    BY <1>1, <2>2 DEF ManagerInv, PingsFollowConnections, connectionVars
  <2> QED
    BY <2>1, <2>2 DEF HangUp
<1> DEFINE x(left) == IF left # {} THEN [rounds[r] EXCEPT !.peers = left]
                      ELSE IF rounds[r].phase = "dropping" THEN TrimLater(connected')
                      ELSE Idle
           Types == [phase : {"idle", "counted", "dialing", "dropping", "reading",
                              "trimming"},
                     room : 0 .. MaxConnections, peers : SUBSET Peers]
<1>3. PICK left \in {rounds[r].peers \ {p}, {}} : SetRound(r, x(left))
  BY DEF HangUp
<1>4. x(left) \in Types
  <2>1. [rounds[r] EXCEPT !.peers = left] \in Types
    BY <1>1, <1>3 DEF RoundsOK
  <2>2. connected' \in SUBSET Peers
    BY <1>2 DEF ManagerInv
  <2>3. TrimLater(connected') \in Types /\ Idle \in Types
    BY <2>2, TrimLaterType
  <2> HIDE DEF Types
  <2> QED
    BY <2>1, <2>3
<1> HIDE DEF x
<1> QED
  BY <1>1, <1>2, <1>3, <1>4, SetRoundKeeps

-----------------------------------------------------------------------------
(* The inductive invariant. *)

LEMMA InitInv ==
  ASSUME Init, ConnectionManagerAssumption, DialerAssumption
  PROVE  IInv
<1>1. QueueDials = {} /\ dialing \ QueueDials = {}
  BY DEF Init, DialerInit, QueueDials
<1>2. OneImmediate /\ BatchIsSmall /\ LocksAreHeld
  BY <1>1, FS_EmptySet DEF Init, DialerInit, OneImmediate, BatchIsSmall,
     LocksAreHeld, DialerAssumption
<1>3. DialerTypeOK
  <2>1. calls \in [Callers -> [Peers -> Nat]]
    <3>1. [p \in Peers |-> 0] \in [Peers -> Nat]
      OBVIOUS
    <3> QED
      BY <3>1 DEF Init, DialerInit
  <2>2. dialingQueue \in Seq(Peers)
    BY DEF Init, DialerInit
  <2> QED
    BY <2>1, <2>2 DEF Init, DialerInit, DialerTypeOK
<1>4. ManagerInv
  <2>1. 0 \in 0 .. MaxReads
    BY DEF ConnectionManagerAssumption
  <2>2. started \in BOOLEAN /\ online \in BOOLEAN /\ isNetworkConnected \in BOOLEAN
    BY DEF Init
  <2>3. PingsFollowConnections
    BY DEF Init, PingsFollowConnections
  <2> QED
    BY <2>1, <2>2, <2>3 DEF Init, ManagerInv
<1>5. RoundsOK
  BY TrimLaterType DEF Init, RoundsOK
<1> QED
  BY <1>2, <1>3, <1>4, <1>5, InvParts DEF DialerInv

LEMMA UpsetKeeps ==
  ASSUME IInv, Upset, ConnectionManagerAssumption, DialerAssumption
  PROVE  IInv'
<1>1. DialerInv /\ ManagerInv /\ RoundsOK
  BY InvParts
<1>2. CASE Stop
  <2>1. ManagerInv'
    BY <1>1, <1>2 DEF Stop, ManagerInv, PingsFollowConnections
  <2>2. DialerInv'
    BY <1>1, <1>2, <2>1, HistoryKeeps DEF Stop, ClearHistory, ManagerInv
  <2> QED
    BY <1>1, <1>2, <2>1, <2>2, InvParts DEF Stop, RoundsOK
<1>3. CASE GoOffline
  <2>1. ManagerInv'
    BY <1>1, <1>3 DEF GoOffline, ManagerInv, PingsFollowConnections, connectionVars
  <2>2. DialerInv'
    BY <1>1, <1>3, <2>1, HistoryKeeps DEF GoOffline, dialerVars, ManagerInv, DialerInv, DialerTypeOK
  <2> QED
    BY <1>1, <1>3, <2>1, <2>2, InvParts DEF GoOffline, RoundsOK
<1>4. ASSUME NEW p \in Peers, Connect(p) PROVE IInv'
  <2>1. ManagerInv'
    BY <1>1, <1>4, OpenedKeeps DEF Connect
  <2>2. DialerInv'
    BY <1>1, <1>4, <2>1, HistoryKeeps DEF Connect, dialerVars, ManagerInv, DialerInv, DialerTypeOK
  <2> QED
    BY <1>1, <1>4, <2>1, <2>2, InvParts DEF Connect, RoundsOK
<1>5. ASSUME NEW p \in Peers, Disconnect(p) PROVE IInv'
  <2>1. ManagerInv'
    BY <1>1, <1>5, ClosedKeeps DEF Disconnect
  <2>2. DialerInv'
    BY <1>1, <1>5, <2>1, HistoryKeeps DEF Disconnect, dialerVars, ManagerInv, DialerInv, DialerTypeOK
  <2> QED
    BY <1>1, <1>5, <2>1, <2>2, InvParts DEF Disconnect, RoundsOK
<1>6. ASSUME NEW p \in Peers, Lock(p) PROVE IInv'
  <2>1. ManagerInv' /\ RoundsOK'
    BY <1>1, <1>6 DEF Lock, ManagerInv, PingsFollowConnections, managerVars, RoundsOK
  <2>2. DialerInv'
    BY <1>1, <1>6, <2>1, HistoryKeeps DEF Lock, dialerVars, ManagerInv, DialerInv, DialerTypeOK
  <2> QED
    BY <2>1, <2>2, InvParts
<1>7. ASSUME NEW p \in Peers, Discover(p) PROVE IInv'
  <2>1. ManagerInv' /\ RoundsOK'
    BY <1>1, <1>7 DEF Discover, ManagerInv, PingsFollowConnections, connectionVars, RoundsOK
  <2>2. DialerInv'
    BY <1>1, <1>7, <2>1, CallDialKeeps DEF Discover, ManagerInv
  <2> QED
    BY <2>1, <2>2, InvParts
<1> QED
  BY <1>2, <1>3, <1>4, <1>5, <1>6, <1>7 DEF Upset

LEMMA RoundStepKeeps ==
  ASSUME IInv, NEW r \in Rounds, RoundStep(r), ConnectionManagerAssumption,
         DialerAssumption
  PROVE  IInv'
<1>1. DialerInv /\ ManagerInv /\ RoundsOK
  BY InvParts
<1>2. SUFFICES ManagerInv' /\ DialerInv' /\ RoundsOK'
  BY InvParts
<1>3. ASSUME UNCHANGED <<connectionVars, started, online, known, storeReads>>
      PROVE  ManagerInv'
  BY <1>1, <1>3 DEF ManagerInv, PingsFollowConnections, connectionVars
<1>4. ASSUME UNCHANGED dialerVars, ManagerInv' PROVE DialerInv'
  BY <1>1, <1>4, HistoryKeeps DEF dialerVars, ManagerInv, DialerInv, DialerTypeOK
<1>5. CASE BeginRound(r)
  BY <1>3, <1>4, <1>5, BeginRoundKeeps DEF BeginRound
<1>6. CASE DialMore(r)
  <2>1. ManagerInv'
    BY <1>3, <1>6 DEF DialMore
  <2>2. CASE /\ SetRound(r, TrimLater(connected)) /\ UNCHANGED dialerVars
    BY <1>1, <1>4, <2>1, <2>2, TrimLaterType, SetRoundKeeps DEF ManagerInv
  <2>3. CASE /\ \E S \in First(rounds[r].room) : CallDial(r, S)
             /\ SetRound(r, Round("dialing", 0, {}))
    <3>1. PICK S \in SUBSET Peers : CallDial(r, S)
      BY <1>1, <2>3 DEF First, Candidates, ManagerInv
    <3>2. DialerInv'
      BY <1>1, <2>1, <3>1, CallDialKeeps DEF ManagerInv
    <3>3. 0 \in 0 .. MaxConnections
      BY DEF ConnectionManagerAssumption
    <3> QED
      BY <1>1, <2>1, <2>3, <3>2, <3>3, RoundTypes, SetRoundKeeps
  <2> QED
    BY <1>6, <2>2, <2>3 DEF DialMore
<1>7. CASE EndCalls(r)
  <2>1. ManagerInv' /\ UNCHANGED dialerVars /\ SetRound(r, TrimLater(connected))
    BY <1>3, <1>7 DEF EndCalls
  <2> QED
    BY <1>1, <1>4, <2>1, TrimLaterType, SetRoundKeeps DEF ManagerInv
<1>8. CASE Trim(r)
  BY <1>3, <1>4, <1>8, TrimKeeps DEF Trim
<1>9. ASSUME NEW p \in Peers, HangUp(r, p) PROVE ManagerInv' /\ DialerInv' /\ RoundsOK'
  BY <1>4, <1>9, HangUpKeeps DEF HangUp
<1> QED
  BY <1>5, <1>6, <1>7, <1>8, <1>9 DEF RoundStep

LEMMA NodeStepKeeps ==
  ASSUME IInv, NodeStep, ConnectionManagerAssumption, DialerAssumption
  PROVE  IInv'
<1>1. DialerInv /\ ManagerInv /\ RoundsOK
  BY InvParts
<1>2. CASE Start
  <2>1. storeReads' \in 0 .. MaxReads
    BY <1>1, <1>2, ReadLaterType DEF Start, ManagerInv
  <2>2. ManagerInv' /\ RoundsOK'
    BY <1>1, <1>2, <2>1 DEF Start, ManagerInv, PingsFollowConnections, connectionVars, RoundsOK
  <2>3. DialerInv'
    BY <1>1, <1>2, <2>2, HistoryKeeps DEF Start, ClearHistory, ManagerInv
  <2> QED
    BY <2>2, <2>3, InvParts
<1>3. CASE GoOnline
  <2>1. storeReads' \in 0 .. MaxReads
    <3> DEFINE n == IF started /\ AutoRecovery THEN 1 ELSE 0
    <3>1. n \in Nat /\ ReadLater(n)
      BY <1>3 DEF GoOnline
    <3> HIDE DEF n
    <3> QED
      BY <1>1, <3>1, ReadLaterType DEF ManagerInv
  <2>2. ManagerInv' /\ RoundsOK'
    BY <1>1, <1>3, <2>1 DEF GoOnline, ManagerInv, PingsFollowConnections, connectionVars, RoundsOK
  <2>3. DialerInv'
    BY <1>1, <1>3, <2>2, HistoryKeeps DEF GoOnline, dialerVars, ManagerInv, DialerInv, DialerTypeOK
  <2> QED
    BY <2>2, <2>3, InvParts
<1>4. CASE DialFromStore
  <2>1. ManagerInv' /\ RoundsOK'
    BY <1>1, <1>4 DEF DialFromStore, ManagerInv, PingsFollowConnections, connectionVars, RoundsOK
  <2>2. CASE UNCHANGED dialerVars
    BY <1>1, <2>1, <2>2, InvParts, HistoryKeeps
       DEF dialerVars, ManagerInv, DialerInv, DialerTypeOK
  <2>3. CASE CallDial(Others, Candidates)
    <3>1. Candidates \in SUBSET Peers
      BY <1>1 DEF ManagerInv, Candidates
    <3> QED
      BY <1>1, <2>1, <2>3, <3>1, InvParts, CallDialKeeps DEF ManagerInv
  <2> QED
    BY <1>4, <2>2, <2>3 DEF DialFromStore
<1>5. ASSUME UNCHANGED <<managerVars, connectionVars>> PROVE ManagerInv' /\ RoundsOK'
  BY <1>1, <1>5 DEF managerVars, connectionVars, ManagerInv, PingsFollowConnections, RoundsOK
<1>6. CASE DialQueued
  BY <1>1, <1>5, <1>6, ProcessQueueKeeps, InvParts DEF DialQueued, ManagerInv
<1>7. ASSUME NEW p \in Peers, Unlock(p) PROVE IInv'
  <2>1. ManagerInv' /\ RoundsOK'
    BY <1>1, <1>7 DEF Unlock, ManagerInv, PingsFollowConnections, managerVars, RoundsOK
  <2>2. DialerInv'
    BY <1>1, <1>7, <2>1, HistoryKeeps DEF Unlock, dialerVars, ManagerInv, DialerInv, DialerTypeOK
  <2> QED
    BY <2>1, <2>2, InvParts
<1>8. ASSUME NEW p \in Peers, CooledDown(p) PROVE IInv'
  <2>1. ManagerInv' /\ RoundsOK'
    BY <1>5, <1>8 DEF CooledDown
  <2>2. DialerInv'
    BY <1>1, <1>8, <2>1, HistoryKeeps DEF CooledDown, Cool, ManagerInv, DialerInv, DialerTypeOK
  <2> QED
    BY <2>1, <2>2, InvParts
<1>9. ASSUME NEW p \in Peers, NEW c \in Callers, Check(c, p) PROVE IInv'
  BY <1>1, <1>5, <1>9, CheckedKeeps, SkippedKeeps, InvParts DEF Check, ManagerInv
<1>10. ASSUME NEW d \in dialing, DialSucceeds(d) PROVE IInv'
  <2>1. d.peer \in Peers
    BY <1>1 DEF DialerInv, DialerTypeOK
  <2>2. ManagerInv' /\ RoundsOK'
    BY <1>1, <1>10, <2>1, OpenedKeeps DEF DialSucceeds, RoundsOK
  <2> QED
    BY <1>1, <1>10, <2>2, EndDialKeeps, InvParts DEF DialSucceeds, ManagerInv
<1>11. ASSUME NEW d \in dialing, DialFails(d) PROVE IInv'
  BY <1>1, <1>5, <1>11, EndDialKeeps, InvParts DEF DialFails, ManagerInv
<1>12. ASSUME NEW r \in Rounds, RoundStep(r) PROVE IInv'
  BY <1>12, RoundStepKeeps
<1> QED
  BY <1>2, <1>3, <1>4, <1>6, <1>7, <1>8, <1>9, <1>10, <1>11, <1>12 DEF NodeStep

LEMMA StutterKeeps ==
  ASSUME IInv, UNCHANGED vars
  PROVE  IInv'
<1>1. DialerInv /\ ManagerInv /\ RoundsOK
  BY InvParts
<1>2. ManagerInv' /\ RoundsOK'
  BY <1>1 DEF vars, managerVars, connectionVars, ManagerInv, PingsFollowConnections, RoundsOK
<1>3. DialerInv'
  BY <1>1, <1>2, HistoryKeeps DEF vars, dialerVars, ManagerInv, DialerInv, DialerTypeOK
<1> QED
  BY <1>2, <1>3, InvParts

LEMMA Invariance == Spec => []IInv
<1>1. Init => IInv
  BY InitInv, ConnectionManagerAssumption, DialerAssumption
<1>2. IInv /\ [Next]_vars => IInv'
  BY NodeStepKeeps, UpsetKeeps, StutterKeeps, ConnectionManagerAssumption,
     DialerAssumption DEF Next
<1> QED
  BY <1>1, <1>2, PTL DEF Spec

-----------------------------------------------------------------------------

\* Type correctness of the connection manager, its dialer and its rounds.
THEOREM TypeCorrect == Spec => []ConnectionManagerTypeOK
<1>1. IInv => ConnectionManagerTypeOK
  BY DEF IInv
<1> QED
  BY <1>1, Invariance, PTL

\* However many calls of dial and rounds overlap, one immediate dial and one
\* batch of maxDialingPeers are all that runs (Dialer.dial, processQueue).
THEOREM DialsStayBounded == Spec => []DialsAreBounded
<1>1. IInv => DialsAreBounded
  <2> SUFFICES ASSUME IInv PROVE DialsAreBounded
    OBVIOUS
  <2>1. Cardinality(dialing \ QueueDials) =< 1
    <3>1. CASE dialing \ QueueDials = {}
      BY <3>1, FS_EmptySet
    <3>2. CASE dialing \ QueueDials # {}
      <4>1. PICK d \in dialing \ QueueDials : TRUE
        BY <3>2
      <4>2. dialing \ QueueDials = {d}
        BY <4>1 DEF IInv, DialerInv, OneImmediate
      <4> QED
        BY <4>2, FS_Singleton
    <3> QED
      BY <3>1, <3>2
  <2> QED
    BY <2>1 DEF DialsAreBounded, IInv, DialerInv, BatchIsSmall
<1> QED
  BY <1>1, Invariance, PTL

\* No lock of the dialer is left behind and none is released while a dial of
\* its own runs, across overlapping calls, failures and restarts (dialPeer).
THEOREM LocksMatchDials == Spec => []LocksAreHeld
<1>1. IInv => LocksAreHeld
  BY DEF IInv, DialerInv
<1> QED
  BY <1>1, Invariance, PTL

\* Only connected peers are pinged, and none by a stopped manager
\* (KeepAliveManager).
THEOREM PingsAreForConnected == Spec => []PingsFollowConnections
<1>1. IInv => PingsFollowConnections
  BY DEF IInv
<1> QED
  BY <1>1, Invariance, PTL
=============================================================================
