----------------------------- MODULE MCExpertBank -----------------------------
(* Small banks for ExpertBank: generations are uuids, and alike. *)
EXTENDS ExpertBank, TLC

CONSTANTS w, x, r, f, g, h

Symmetric == Permutations(Generations)
=============================================================================
