---------------------------- MODULE MCRecovery ----------------------------
(* Accounts and Recovery for TLC: threads are interchangeable, and so are *)
(* passwords.                                                             *)
EXTENDS Accounts, TLC

Form(capital, blanks) == [capital |-> capital, blanks |-> blanks]

MCOwn   == Form(FALSE, FALSE)
MCNames == {MCOwn, Form(TRUE, FALSE), Form(FALSE, TRUE)}

Symmetry == Permutations(Threads) \cup Permutations(Passwords)
=============================================================================
