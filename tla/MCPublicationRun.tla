-------------------------- MODULE MCPublicationRun --------------------------
(***************************************************************************)
(* Two units, published together or one after the other.                   *)
(***************************************************************************)
EXTENDS PublicationRun

CONSTANTS u1, u2  \* the units
=============================================================================
