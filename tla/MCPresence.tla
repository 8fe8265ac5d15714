---------------------------- MODULE MCPresence ----------------------------
(* Presence for TLC: sessions are interchangeable, and watchers. *)
EXTENDS Presence, TLC

Symmetry == Permutations(Sessions) \cup Permutations(Watchers)
=============================================================================
