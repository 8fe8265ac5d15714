----------------------------- MODULE MCLinking -----------------------------
(* Linking for TLC: threads are interchangeable. *)
EXTENDS Linking, TLC

Symmetry == Permutations(Threads)
=============================================================================
