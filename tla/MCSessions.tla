---------------------------- MODULE MCSessions ----------------------------
(* Sessions for TLC: threads and devices are interchangeable. *)
EXTENDS Sessions, TLC

Symmetry == Permutations(Threads) \cup Permutations(Devices)
=============================================================================
