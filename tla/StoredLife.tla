---------------------------- MODULE StoredLife ----------------------------
(***************************************************************************)
(* What the server promises about what it stores, be it messages or        *)
(* attachments: each is stored once, one that the sender was told is       *)
(* stored stays whole until it is released, and none comes back.           *)
(***************************************************************************)
EXTENDS Naturals

CONSTANT Things

VARIABLES
  stage,     (* "new", then "whole", then "spoilt" when its row lost the   *)
             (* content, then "gone"                                       *)
  promised,  (* the senders of these were told that they are stored        *)
  released   (* these need not be kept any longer                          *)

Init == stage = [x \in Things |-> "new"] /\ promised = {} /\ released = {}

\* The sender may be told at once,
Store(x, told) ==
  /\ stage[x] = "new" /\ stage' = [stage EXCEPT ![x] = "whole"]
  /\ promised' = promised \cup told
  /\ UNCHANGED released

\* or later.
Promise(x) ==
  /\ stage[x] = "whole" \/ x \in released
  /\ promised' = promised \cup {x}
  /\ UNCHANGED <<stage, released>>

\* More is released, some of what is whole spoils and some leaves; of what was
\* promised only what is released does.
LetGo(more, spoilt, gone) ==
  /\ released' = released \cup more
  /\ \A x \in spoilt : stage[x] = "whole"
  /\ (spoilt \cup gone) \cap promised \subseteq released'
  /\ stage' = [x \in Things |-> IF x \in gone THEN "gone"
                                ELSE IF x \in spoilt THEN "spoilt" ELSE stage[x]]
  /\ UNCHANGED promised

Next ==
  \/ \E x \in Things : Promise(x) \/ \E told \in SUBSET {x} : Store(x, told)
  \/ \E more, spoilt, gone \in SUBSET Things : LetGo(more, spoilt, gone)

Spec == Init /\ [][Next]_<<stage, promised, released>>

\* What was promised is whole until it is released.
Kept == \A x \in promised : stage[x] = "whole" \/ x \in released
=============================================================================
