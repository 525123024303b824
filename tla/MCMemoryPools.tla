---------------------------- MODULE MCMemoryPools ----------------------------
(* A small context for MemoryPools: the middle pair of three serves a      *)
(* request of the smaller class; the heap takes a large buffer and a small *)
(* one and no more; the OS grants less than the heap, or reports nothing;  *)
(* pools that are on or off, and reuse larger pairs or only exact ones.    *)
EXTENDS MemoryPools

Reusing == [on |-> TRUE, larger |-> TRUE, max |-> 12, staging |-> TRUE,
            stagingMax |-> 16, fences |-> TRUE]
Exact == [Reusing EXCEPT !.larger = FALSE, !.max = 24]
Off == [Reusing EXCEPT !.on = FALSE, !.staging = FALSE, !.fences = FALSE]

MCSettings == {Reusing, Off}
MCExact == {Exact}
=============================================================================
