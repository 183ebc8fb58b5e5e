------------------------------ MODULE MCLightPush ------------------------------
(***************************************************************************)
(* Instances of LightPush for TLC.                                         *)
(***************************************************************************)
EXTENDS LightPush

CONSTANTS near, far, first, filter
=============================================================================
