--------------------------- MODULE MCKeyBundles ---------------------------
(* KeyBundles for TLC: threads, identity keys and prekeys are interchangeable. *)
EXTENDS KeyBundles, TLC

Symmetry ==
  Permutations(Threads) \cup Permutations(Identities) \cup Permutations(Prekeys)
=============================================================================
