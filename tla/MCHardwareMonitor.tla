------------------------- MODULE MCHardwareMonitor -------------------------
(* The stall monitor with three servers that use its API in any order.      *)
EXTENDS HardwareMonitor, TLC

(* Servers and descriptors are interchangeable: no definition orders them.  *)
Symmetry == Permutations(Servers) \cup Permutations(Fds)
=============================================================================
