---------------------------- MODULE MCOperations ----------------------------
(* Operations for TLC, on databases of every age. *)
EXTENDS Operations

\* A new one, those of the two revisions, and those that create_all made:
\* by today's code, by code before the migrations, by older code still.
MCDatabases ==
  {[rev |-> 0, parts |-> {}], [rev |-> 0, parts |-> Parts],
   [rev |-> 0, parts |-> {"accounts", "stamp", "mail"}],
   [rev |-> 0, parts |-> {"accounts", "mail"}],
   [rev |-> 1, parts |-> Foundation], [rev |-> 2, parts |-> Parts]}
=============================================================================
