------------------------------- MODULE Dialer -------------------------------
(***************************************************************************)
(* The dialer of the connection manager                                    *)
(* (core/src/lib/connection_manager/dialer.ts): the one place where the    *)
(* connection limiter and the discovery dialer ask for a connection.       *)
(*                                                                         *)
(* A call of dial(peer) suspends in shouldSkipPeer, which reads the peer   *)
(* store, and then dials at once, or queues the peer when another dial     *)
(* runs.  A timer takes up to MaxDialingPeers peers from the queue.        *)
(***************************************************************************)
EXTENDS Integers, FiniteSets, Sequences

CONSTANTS
  Peers,
  Rounds,           \* callers that wait for the end of their calls
  MaxDialingPeers,
  MaxCalls          \* bound: suspended calls for one peer nobody waits for

\* The caller of every dial that nobody waits for, and the queue's timer.
Others == "others"
Timer == "timer"

Callers == Rounds \union {Others}

ASSUME DialerAssumption ==
  /\ Others \notin Rounds /\ Timer \notin Rounds
  /\ MaxDialingPeers \in Nat \ {0} /\ MaxCalls \in Nat \ {0}

VARIABLES
  connected,          \* libp2p.getPeers()
  calls,              \* calls of dial suspended in shouldSkipPeer
  dialingQueue,
  dialing,            \* calls of dialPeer in progress and who awaits them
  isImmediateDialing,
  isProcessing,
  cooling             \* peers in dialHistory or failedDials, not yet expired

dialerVars == <<calls, dialingQueue, dialing, isImmediateDialing, isProcessing,
                cooling>>

Dial(p, c) == [peer |-> p, caller |-> c]
Queued == {dialingQueue[i] : i \in DOMAIN dialingQueue}
QueueDials == {d \in dialing : d.caller = Timer}

DialerInit ==
  /\ calls = [c \in Callers |-> [p \in Peers |-> 0]]
  /\ dialingQueue = <<>>
  /\ dialing = {}
  /\ isImmediateDialing = FALSE
  /\ isProcessing = FALSE
  /\ cooling = {}

\* start and stop: only the records of past dials are cleared.  Calls, dials
\* and the queue outlive the timer.
ClearHistory ==
  /\ cooling' = {}
  /\ UNCHANGED <<calls, dialingQueue, dialing, isImmediateDialing, isProcessing>>

\* Caller c calls dial for each peer of S; a connected or a cooling peer is
\* skipped at once, the others wait for the peer store.
CallDial(c, S) ==
  /\ c = Others => \A p \in S : calls[c][p] < MaxCalls
  /\ calls' = [calls EXCEPT ![c] = [p \in Peers |->
                 @[p] + IF p \in S \ (connected \union cooling) THEN 1 ELSE 0]]
  /\ UNCHANGED <<dialingQueue, dialing, isImmediateDialing, isProcessing, cooling>>

\* shouldSkipPeer tells the caller to skip the peer: its shard info names
\* another cluster, or the peer store fails on the way to it.
Skipped(c, p) ==
  /\ calls[c][p] > 0
  /\ calls' = [calls EXCEPT ![c][p] = @ - 1]
  /\ UNCHANGED <<dialingQueue, dialing, isImmediateDialing, isProcessing, cooling>>

\* It does not, and the call dials the peer, or queues it behind the dials in
\* progress.
Checked(c, p) ==
  /\ calls[c][p] > 0
  /\ calls' = [calls EXCEPT ![c][p] = @ - 1]
  /\ IF dialingQueue = <<>> /\ ~isProcessing /\ ~isImmediateDialing
       THEN /\ isImmediateDialing' = TRUE
            /\ dialing' = dialing \union {Dial(p, c)}
            /\ UNCHANGED dialingQueue
       ELSE /\ dialingQueue' = IF p \in Queued THEN dialingQueue
                                              ELSE Append(dialingQueue, p)
            /\ UNCHANGED <<dialing, isImmediateDialing>>
  /\ UNCHANGED <<isProcessing, cooling>>

ProcessQueueAgain ==
  /\ dialingQueue # <<>>
  /\ isProcessing' = TRUE
  /\ dialing' = dialing \union {Dial(Head(dialingQueue), Timer)}
  /\ dialingQueue' = Tail(dialingQueue)
  /\ UNCHANGED <<calls, isImmediateDialing, cooling>>

\* processQueue, called by the timer.  The peers it takes are dialed whatever
\* has become of them since they were queued.
ProcessQueue ==
  LET n == IF Len(dialingQueue) < MaxDialingPeers THEN Len(dialingQueue)
                                                  ELSE MaxDialingPeers
  IN
  /\ dialingQueue # <<>> /\ ~isProcessing
  /\ isProcessing' = TRUE
  /\ dialing' = dialing \union {Dial(dialingQueue[i], Timer) : i \in 1 .. n}
  /\ dialingQueue' = SubSeq(dialingQueue, n + 1, Len(dialingQueue))
  /\ UNCHANGED <<calls, isImmediateDialing, cooling>>

EndDialStuck(d) ==
  /\ d \in dialing
  /\ dialing' = dialing \ {d}
  /\ cooling' = cooling \union {d.peer}
  /\ isImmediateDialing' = (isImmediateDialing /\ d.caller = Timer)
  /\ UNCHANGED <<calls, dialingQueue, isProcessing>>

\* dialPeer ends, with a connection or without one: the peer cools down.  The
\* last dial of a batch frees the queue, an immediate dial its own lock.
EndDial(d) ==
  /\ d \in dialing
  /\ dialing' = dialing \ {d}
  /\ cooling' = cooling \union {d.peer}
  /\ IF d.caller = Timer
       THEN /\ isProcessing' = (QueueDials # {d})
            /\ UNCHANGED isImmediateDialing
       ELSE /\ isImmediateDialing' = FALSE
            /\ UNCHANGED isProcessing
  /\ UNCHANGED <<calls, dialingQueue>>

\* dialCooldown or failedDialCooldown has passed for p.
Cool(p) ==
  /\ p \in cooling
  /\ cooling' = cooling \ {p}
  /\ UNCHANGED <<calls, dialingQueue, dialing, isImmediateDialing, isProcessing>>

DialerTypeOK ==
  /\ connected \subseteq Peers /\ cooling \subseteq Peers
  /\ calls \in [Callers -> [Peers -> Nat]]
  /\ dialingQueue \in Seq(Peers)
  /\ dialing \subseteq [peer : Peers, caller : Callers \union {Timer}]
  /\ isImmediateDialing \in BOOLEAN /\ isProcessing \in BOOLEAN

\* At most one immediate dial and one batch of maxDialingPeers run at a time,
\* however many calls of dial overlap in shouldSkipPeer and whenever the timer
\* fires (dial, processQueue).  The two may overlap: maxDialingPeers + 1 peers
\* are then dialed at once, one more than interfaces/src/connection_manager.ts,
\* lines 57-62, says the option allows.
DialsAreBounded ==
  /\ Cardinality(dialing \ QueueDials) =< 1
  /\ Cardinality(QueueDials) =< MaxDialingPeers

\* The two locks are held exactly while a dial of theirs runs: one left behind
\* would stop the dialer for good, one released early would start a second
\* batch (dial, processQueue, dialPeer).
LocksAreHeld ==
  /\ isImmediateDialing <=> dialing \ QueueDials # {}
  /\ isProcessing <=> QueueDials # {}
=============================================================================
