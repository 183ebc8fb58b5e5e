--------------------------- MODULE ReliableBroadcast ---------------------------
(***************************************************************************)
(* What a channel promises its users, without timestamps, buffers or       *)
(* tasks: every participant holds a growing set of the published messages, *)
(* and a message its sender still awaits confirmation for stops being      *)
(* pending only when some other participant holds it.                      *)
(***************************************************************************)
EXTENDS FiniteSets

CONSTANTS Participants, Payloads

VARIABLES
  published, \* messages any participant ever published
  pending,   \* [p -> its messages awaiting confirmation]
  held       \* [p -> the messages p has]

vars == <<published, pending, held>>

Init ==
  /\ published = {}
  /\ pending = [p \in Participants |-> {}]
  /\ held = [p \in Participants |-> {}]

Publish(p, x) ==
  /\ published' = published \cup {x}
  /\ pending' = [pending EXCEPT ![p] = @ \cup {x}]
  /\ UNCHANGED held

\* Taking in a message and learning from it what the others hold is one step.
TakeIn(p, taken, confirmed) ==
  /\ taken \subseteq published
  /\ \A x \in confirmed : \E q \in Participants \ {p} : x \in held[q]
  /\ held' = [held EXCEPT ![p] = @ \cup taken]
  /\ pending' = [pending EXCEPT ![p] = @ \ confirmed]
  /\ UNCHANGED published

Next ==
  \E p \in Participants :
    \/ \E x \in Payloads : Publish(p, x)
    \/ \E taken, confirmed \in SUBSET Payloads : TakeIn(p, taken, confirmed)

Spec == Init /\ [][Next]_vars
=============================================================================
