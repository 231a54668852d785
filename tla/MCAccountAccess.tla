-------------------------- MODULE MCAccountAccess --------------------------
(***************************************************************************)
(* Instances of AccountAccess for TLC.                                     *)
(***************************************************************************)
EXTENDS AccountAccess

CONSTANTS a1, a2, d1, d2, d3, r1, r2, r3

T(account, parent, revision, device, signer, signedBy) ==
    [account |-> account, parent |-> parent, revision |-> revision,
     device |-> device, signer |-> signer, signedBy |-> signedBy]

\* Two accounts claimed by two devices, one claim not signed by its device; two
\* additions that race for one parent, others that follow one of them with a
\* new device, its device or its revision again, and one the wrong device signed.
RacingTransitions ==
    {T(a1, None, r1, d1, d1, d1), T(a2, None, r1, d2, d2, d2), T(a1, None, r2, d2, d2, d1),
     T(a1, r1, r2, d2, d1, d1), T(a1, r1, r3, d3, d1, d1), T(a1, r2, r3, d2, d1, d1),
     T(a1, r2, r1, d3, d1, d1), T(a1, r1, r2, d2, d1, d2)}

\* Two bootstraps and three other proofs a window.
FewProofs == [bootstrap |-> 2, account |-> 3]
=============================================================================
