------------------------- MODULE MCEpochActivation -------------------------
(***************************************************************************)
(* EpochActivation for TLC: the founders are interchangeable, and so are   *)
(* the newcomers.                                                          *)
(***************************************************************************)
EXTENDS EpochActivation, TLC

Newcomers == Devices \ Founders

Interchangeable == {f @@ g : f \in Permutations(Founders), g \in Permutations(Newcomers)}
=============================================================================
