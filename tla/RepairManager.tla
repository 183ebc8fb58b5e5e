----------------------------- MODULE RepairManager -----------------------------
(***************************************************************************)
(* The RepairManager of one participant (repair/repair.ts) and the calls   *)
(* its message channel makes, in any order: what it asks the others to     *)
(* send again, and what it sends again for them, when their time comes.    *)
(***************************************************************************)
EXTENDS RepairBuffers

CONSTANTS
  Self,     \* participantId
  Entries,  \* history entries [id, sender] that messages may name
  MaxBatch, \* bound: entries of one call
  MaxTime   \* bound: the clock

ASSUME DelaysAssumption ==
  \A e \in Entries :
    /\ ReqDelay(Self, e.id) \in Nat
    /\ e.sender # NoSender => RespDelay(Self, e.sender, e.id) \in Nat

ASSUME BoundsAssumption == MaxBatch \in Nat /\ MaxTime \in Nat

Ids == {e.id : e \in Entries}

VARIABLES
  repair, \* the two buffers
  held,   \* ids of the messages in the local history
  now,    \* Date.now()
  last    \* the last call: what it was, the ids it returned or was given

repairVars == <<repair, held, now, last>>

RepairInit ==
  /\ repair = EmptyRepair
  /\ held = {}
  /\ now = 0
  /\ last = [call |-> "new", ids |-> {}]

Did(call, ids) == last' = [call |-> call, ids |-> ids]

IdsOf(entries) == {entries[i].id : i \in DOMAIN entries}

Missing(entries) ==
  /\ \A e \in Range(entries) : now + ReqDelay(Self, e.id) =< MaxTime
  /\ repair' = MarkDependenciesMissing(repair, entries, Self, now)
  /\ Did("missing", IdsOf(entries))
  /\ UNCHANGED <<held, now>>

Received(id) ==
  /\ repair' = MarkMessageReceived(repair, id)
  /\ Did("received", {id})
  /\ UNCHANGED <<held, now>>

Requested(requests) ==
  /\ \A e \in Range(requests) : e.sender # NoSender =>
       now + RespDelay(Self, e.sender, e.id) =< MaxTime
  /\ repair' = ProcessIncomingRepairRequests(repair, requests, held, Self, now)
  /\ Did("requested", IdsOf(requests))
  /\ UNCHANGED <<held, now>>

\* Called for each message and sync message sent.
Ask ==
  /\ repair' = MarkRequested(repair, now)
  /\ Did("asked", IdsOf(GetRepairRequests(repair, now)))
  /\ UNCHANGED <<held, now>>

Answer ==
  /\ repair' = AfterSweep(repair, now)
  /\ Did("answered", ReadyIds(repair, now) \cap held)
  /\ UNCHANGED <<held, now>>

\* The local history changes between calls: deliveries, and evictions.
Hold(id) ==
  /\ held' = held \cup {id}
  /\ Did("held", {id})
  /\ UNCHANGED <<repair, now>>

Evict(id) ==
  /\ held' = held \ {id}
  /\ Did("evicted", {id})
  /\ UNCHANGED <<repair, now>>

Tick ==
  /\ now < MaxTime
  /\ now' = now + 1
  /\ Did("tick", {})
  /\ UNCHANGED <<repair, held>>

RepairNext ==
  \/ \E entries \in SeqOf(Entries, MaxBatch) : Missing(entries) \/ Requested(entries)
  \/ \E id \in Ids : Received(id) \/ Hold(id) \/ Evict(id)
  \/ Ask \/ Answer \/ Tick

RepairSpec == RepairInit /\ [][RepairNext]_repairVars

-----------------------------------------------------------------------------
\* Properties.

\* A promise to send a message again is dropped only for a reason: it was kept,
\* the message was heard or lost meanwhile, or the buffer was full.
AnswersAccounted ==
  [][\A id \in Ids : Has(repair.in, id) /\ ~Has(repair'.in, id) =>
       \/ last'.call = "answered" /\ (id \in last'.ids \/ id \notin held)
       \/ last'.call = "received" /\ id \in last'.ids
       \/ last'.call = "requested" /\ Len(repair'.in) = BufferSize]_repairVars

\* Every wanted message is asked for, or is no longer wanted: requested items
\* that stay in the buffer never keep the others from their turn.
EventuallyAsked ==
  \A id \in Ids :
    Has(repair.out, id) ~>
      \A i \in DOMAIN repair.out :
        repair.out[i].entry.id = id => repair.out[i].requested

\* Every promise to send a message again is settled.
EventuallyAnswered ==
  \A id \in Ids : Has(repair.in, id) ~> ~Has(repair.in, id)
=============================================================================
