------------------------------ MODULE MCFilter --------------------------------
(* A small instance of Filter: all decoders are of one content topic.        *)
EXTENDS Filter

CONSTANTS p1, p2, d1, topic
OneTopic == [d \in Decoders |-> topic]
=============================================================================
