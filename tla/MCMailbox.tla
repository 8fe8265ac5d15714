----------------------------- MODULE MCMailbox -----------------------------
(* Instances of Mailbox for TLC, with a history of overlapping requests. *)
EXTENDS Mailbox, TLC

VARIABLE overlapped   \* history: recipients whose requests overlapped

Symmetry == Permutations(Threads) \cup Permutations(Users)

\* The recipients whose messages a process holds: the one it sends, confirms
\* or purges, and those it listed.
Serves(p) == {rcpt[m] : m \in {k \in Msgs : k = item[p] \/ obj[p][k] # "none"}}

Overlapping ==
  {u \in Users : \E p \in Procs : u \in Serves(p) /\ \E q \in Procs \ {p} : u \in Serves(q)}

MCInit == Init /\ overlapped = {}
MCNext == Next /\ overlapped' = overlapped \cup Overlapping'
MCSpec == MCInit /\ [][MCNext]_<<vars, overlapped>>

\* When nothing fails, an inbox request drops or inlines a message only after
\* two requests (or a request and the expiry worker) overlapped on that inbox:
\* a recipient whose requests take turns loses nothing.
LossNeedsOverlap == Faults \/ \A m \in exposed : rcpt[m] \in overlapped
=============================================================================
