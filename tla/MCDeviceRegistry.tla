--------------------------- MODULE MCDeviceRegistry ---------------------------
(* Small programs for DeviceRegistry: threads are alike. *)
EXTENDS DeviceRegistry, TLC

CONSTANTS a, b

Symmetric == Permutations(Threads)
=============================================================================
