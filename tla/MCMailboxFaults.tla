-------------------------- MODULE MCMailboxFaults --------------------------
(* Mailbox for TLC with a bounded number of faults, so that what must happen *)
(* once they stop can be checked too.                                        *)
EXTENDS Mailbox

CONSTANT MaxFault   \* bound: how many calls fail and crashes happen

VARIABLE left       \* faults that may still happen

Calm == INSTANCE Mailbox WITH Faults <- FALSE

\* A step that the store takes only when something fails costs one.
Spend == left' = (IF Calm!Next THEN left ELSE left - 1) /\ left' \in 0..MaxFault

FaultInit == Init /\ left = MaxFault
FaultNext == Next /\ Spend
FaultSpec == FaultInit /\ [][FaultNext]_<<vars, left>> /\ Fairness

Confirming(m) == \E t \in Threads : pc[t] \in {"unlink", "erase"} /\ item[t] = m

\* A confirm that was admitted removes the message, unless something fails or
\* the server stops before it did.
ConfirmRemoves ==
  \A m \in Msgs, n \in 0..MaxFault :
    (Confirming(m) /\ left = n) ~> (row[m] = "none" \/ left < n)
=============================================================================
