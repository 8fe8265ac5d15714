---------------------------- MODULE OneTimeKeys ----------------------------
(***************************************************************************)
(* What the key service promises about one-time prekeys: a batch of keys   *)
(* is published at once, replacing keys nobody took, and every key is      *)
(* handed out at most once.                                                *)
(***************************************************************************)
EXTENDS Naturals

CONSTANTS
  Batches,  (* the lists of keys devices publish                           *)
  Size      (* how many keys a list has                                    *)

VARIABLES
  pool,     (* keys that can be handed out, as <<batch, index>>            *)
  used      (* keys that were handed out                                   *)

Keys(b) == {b} \X (1..Size)

Init == pool = {} /\ used = {}

\* Batch b is published and the keys of gone leave.
Publish(b, gone) ==
  /\ Keys(b) \cap (pool \cup used) = {}
  /\ pool' = (pool \ gone) \cup Keys(b)
  /\ UNCHANGED used

Withdraw(gone) == pool' = pool \ gone /\ UNCHANGED used

HandOut(k) ==
  /\ k \in pool
  /\ pool' = pool \ {k} /\ used' = used \cup {k}

Next ==
  \/ \E gone \in SUBSET pool : Withdraw(gone) \/ \E b \in Batches : Publish(b, gone)
  \/ \E k \in pool : HandOut(k)

Spec == Init /\ [][Next]_<<pool, used>>

\* No key that was handed out can be handed out again.
NeverAgain == pool \cap used = {}
=============================================================================
