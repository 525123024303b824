-------------------------- MODULE MCDeferredContext --------------------------
(* Small contexts for DeferredContext: buffers are alike, and so are the   *)
(* contents a dispatch or an upload leaves.                                *)
EXTENDS DeferredContext, TLC

CONSTANTS p1, p2, k1, s1, u1, v1

Symmetric == Permutations(Pairs) \cup Permutations(Pushed)
=============================================================================
