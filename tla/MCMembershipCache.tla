------------------------- MODULE MCMembershipCache -------------------------
(***************************************************************************)
(* MembershipCache for TLC: connections are interchangeable.               *)
(***************************************************************************)
EXTENDS MembershipCache, TLC

AnyConnection == Permutations(Connections)
=============================================================================
