---------------------------- MODULE RepairBuffers ----------------------------
(***************************************************************************)
(* The two SDS-R repair buffers of a participant and the operations        *)
(* RepairManager performs on them (sds/src/message_channel/repair).        *)
(*                                                                         *)
(* A history entry is a record [id, sender]: the message it names and the  *)
(* participant that sent it.  Both buffers are sequences of items          *)
(*                                                                         *)
(*      outgoing:  [entry, t, requested]    messages this node needs       *)
(*      incoming:  [entry, t]               messages this node will resend *)
(*                                                                         *)
(* sorted by t, the time at which the item becomes due.  The delays the    *)
(* code derives from hashes of participant and message are constants.      *)
(***************************************************************************)
EXTENDS Arrays, SequencesExt

CONSTANTS
  BufferSize,        \* config.bufferSize, the limit of each repair buffer
  MaxRepairRequests, \* MAX_REPAIR_REQUESTS_PER_MESSAGE
  NoSender,          \* an entry whose senderId is absent on the wire
  ReqDelay(_, _),    \* T_req offset of (participant, message)
  RespDelay(_, _, _),\* T_resp offset of (participant, sender, message)
  SameGroup(_, _, _) \* is the participant in the sender's response group

ASSUME BufferSizeAssumption == BufferSize \in Nat \ {0}

EmptyRepair == [out |-> <<>>, in |-> <<>>]

Has(buffer, id) == \E i \in DOMAIN buffer : buffer[i].entry.id = id

\* Array sort by due time; the sort is stable, so a new item goes after the
\* items that are due at the same time.
Insert(buffer, item) ==
  InsertAt(buffer, Cardinality({i \in DOMAIN buffer : buffer[i].t =< item.t}) + 1, item)

\* A full buffer drops its last item before the new one is inserted.
Add(buffer, item) ==
  IF Has(buffer, item.entry.id)
  THEN buffer
  ELSE Insert(IF Len(buffer) >= BufferSize THEN Front(buffer) ELSE buffer, item)

Drop(buffer, id) == At(buffer, {i \in DOMAIN buffer : buffer[i].entry.id # id})

OutgoingItem(entry, t) == [entry |-> entry, t |-> t, requested |-> FALSE]
IncomingItem(entry, t) == [entry |-> entry, t |-> t]

-----------------------------------------------------------------------------
\* The outgoing side: what this participant asks the others for.

EligibleAmongFirst(buffer, time) ==
  {i \in DOMAIN buffer :
     buffer[i].t =< time /\ ~buffer[i].requested /\ i =< MaxRepairRequests}

\* The positions getEligible marks: the first MaxRepairRequests due items that
\* were not requested before.
EligibleAt(buffer, time) ==
  LET due == {i \in DOMAIN buffer : buffer[i].t =< time /\ ~buffer[i].requested}
  IN  {i \in due : Cardinality({j \in due : j < i}) < MaxRepairRequests}

GetRepairRequests(repair, time) ==
  LET eligible == At(repair.out, EligibleAt(repair.out, time))
  IN  [k \in DOMAIN eligible |-> eligible[k].entry]

\* getEligible marks what it returns and leaves it in the buffer.
MarkRequested(repair, time) ==
  [repair EXCEPT !.out =
     [i \in DOMAIN repair.out |->
        [repair.out[i] EXCEPT !.requested =
           @ \/ i \in EligibleAt(repair.out, time)]]]

MarkDependenciesMissing(repair, entries, p, time) ==
  LET added[n \in 0..Len(entries)] ==
        IF n = 0 THEN repair.out
        ELSE Add(added[n - 1],
                 OutgoingItem(entries[n], time + ReqDelay(p, entries[n].id)))
  IN  [repair EXCEPT !.out = added[Len(entries)]]

MarkMessageReceived(repair, id) ==
  [out |-> Drop(repair.out, id), in |-> Drop(repair.in, id)]

-----------------------------------------------------------------------------
\* The incoming side: what this participant offers to send again.

\* One request. `held` is the set of ids found in the local history.  A request is
\* dropped from the outgoing buffer even when it cannot be answered here.
AfterRequest(repair, request, held, p, time) ==
  [out |-> Drop(repair.out, request.id),
   in |-> IF /\ request.id \in held
             /\ request.sender # NoSender
             /\ SameGroup(p, request.sender, request.id)
          THEN Add(repair.in, IncomingItem(request,
                     time + RespDelay(p, request.sender, request.id)))
          ELSE repair.in]

ProcessIncomingRepairRequests(repair, requests, held, p, time) ==
  LET processed[n \in 0..Len(requests)] ==
        IF n = 0 THEN repair
        ELSE AfterRequest(processed[n - 1], requests[n], held, p, time)
  IN  processed[Len(requests)]

ReadyBefore(repair, time) ==
  {repair.in[i].entry.id : i \in {j \in DOMAIN repair.in : repair.in[j].t < time}}

\* The ids getReady returns, and the buffer it leaves behind.
ReadyIds(repair, time) ==
  {repair.in[i].entry.id : i \in {j \in DOMAIN repair.in : repair.in[j].t =< time}}

AfterSweepKeeping(repair, time) == repair

AfterSweep(repair, time) ==
  [repair EXCEPT !.in = At(@, {i \in DOMAIN @ : @[i].t > time})]
=============================================================================
