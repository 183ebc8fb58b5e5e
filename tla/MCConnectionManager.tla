------------------------ MODULE MCConnectionManager ------------------------
\* Two peers, both bootstrap peers, one connection allowed, one round.
EXTENDS ConnectionManager, TLC

CONSTANTS alive, dead

\* The peer that can be reached stands first, or last, in the store.
AliveFirst == (alive :> 1) @@ (dead :> 2)
AliveLast == (alive :> 2) @@ (dead :> 1)
=============================================================================
