------------------------ MODULE MCRemediationWorker ------------------------
(***************************************************************************)
(* A source with one vacancy that comes, goes, is edited and refuses its   *)
(* detail.                                                                 *)
(***************************************************************************)
EXTENDS RemediationWorker

CONSTANTS v1  \* the vacancy
=============================================================================
