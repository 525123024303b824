-------------------------- MODULE MCTransferTimeline --------------------------
(* Small programs for TransferTimeline. *)
EXTENDS TransferTimeline

CONSTANTS b1, b2, a1
=============================================================================
