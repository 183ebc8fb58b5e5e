--------------------------- MODULE MCMessageChannel ---------------------------
(***************************************************************************)
(* Instances of MessageChannel for TLC.                                    *)
(***************************************************************************)
EXTENDS MessageChannel

CONSTANTS alice, bob, carol, first, second, third, hello

OneAuthor == [i \in Payloads |-> IF i = first THEN {alice} ELSE {bob}]
AliceOnly == [i \in Payloads |-> {alice}]
Rank == [i \in Payloads |-> CASE i = first -> 1 [] i = second -> 2 [] i = third -> 3]

\* Delays of the repair protocol: the others answer after the original sender.
RequestDelay(p, i) == 1
ResponseDelay(p, sender, i) == IF p = sender THEN 0 ELSE 1
SingleGroup(p, sender, i) == TRUE
=============================================================================
