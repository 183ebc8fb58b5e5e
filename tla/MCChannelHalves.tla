---------------------------- MODULE MCChannelHalves ----------------------------
(***************************************************************************)
(* A small instance of ChannelHalves. Two messages name a, which may come   *)
(* late, be given up, or be retrieved.                                      *)
(***************************************************************************)
EXTENDS ChannelHalves

CONSTANTS first, a, b, c

Dependencies == [m \in Contents |-> CASE m = a -> {} [] m = b -> {a, c} [] m = c -> {a}]
=============================================================================
