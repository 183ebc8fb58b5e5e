-------------------------------- MODULE Arrays --------------------------------
(***************************************************************************)
(* What the code does to arrays with filter, reduce and lodash, by the      *)
(* positions of the items that remain. No operator is recursive, so what it *)
(* does can be proved for every array (DataProofs).                        *)
(***************************************************************************)
EXTENDS Naturals, Sequences, FiniteSets

\* The items at some positions, in their order.
At(array, positions) ==
  [k \in 1..Cardinality(positions) |->
     array[CHOOSE i \in positions : Cardinality({j \in positions : j < i}) = k - 1]]
=============================================================================
