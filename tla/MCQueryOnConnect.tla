--------------------------- MODULE MCQueryOnConnect ---------------------------
(* A small instance of QueryOnConnect.                                       *)
EXTENDS QueryOnConnect
CONSTANTS p1, p2
Symmetry == {[p \in Peers |-> p], [p \in Peers |-> IF p = p1 THEN p2 ELSE p1]}
=============================================================================
