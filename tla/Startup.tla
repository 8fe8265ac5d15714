------------------------------ MODULE Startup ------------------------------
(***************************************************************************)
(* How the server comes up on a database of any age: start.sh runs the     *)
(* Alembic migrations, then the lifespan of main.py creates the tables     *)
(* that are missing, adds the columns that are missing and creates the     *)
(* bucket.  Models start.sh, run.py, alembic/, database.py and main.py.    *)
(*                                                                         *)
(* Postgres runs DDL in transactions: every step happens whole or not at   *)
(* all.  A container that dies is started again until it is stopped; a     *)
(* server run by run.py skips the migrations and is not started again.     *)
(***************************************************************************)
EXTENDS Naturals

CONSTANTS
  Databases,  (* what the server may find: records of rev and parts        *)
  MaxFault    (* bound: how many calls fail or processes die               *)

\* The tables that the first revision creates, those that only create_all
\* creates, and the columns that came later, those of the second revision last.
\* "stamp" is the column updated_at of key_bundles.
Foundation == {"accounts", "sessions", "backupCode", "bundle", "stamp"}
Second     == {"versions"}
Parts      == Foundation \cup Second \cup {"mail"}
Revisions  == 0..2          \* 0: the database has no alembic_version

ASSUME StartupAssumption ==
  /\ Databases \subseteq [rev : Revisions, parts : SUBSET Parts]
  /\ MaxFault \in Nat

VARIABLES
  db,      (* the database exists                                          *)
  rev,     (* its revision                                                 *)
  parts,   (* what its schema has                                          *)
  boot,    (* how far the server is                                        *)
  want,    (* the container is to run                                      *)
  faults   (* how many faults happened                                     *)

schema == <<db, rev, parts>>
startup == <<db, rev, parts, boot, want, faults>>

Steps == {"down", "migrate", "create", "bundles", "users", "versions", "bucket", "serving"}

StartupInit ==
  /\ \E d \in Databases : rev = d.rev /\ parts = d.parts
  /\ db = TRUE /\ boot = "down" /\ want = FALSE /\ faults = 0

---------------------------------------------------------------------------
BootGoes(from, to) == boot = from /\ boot' = to
Fault == faults < MaxFault /\ faults' = faults + 1

\* docker compose up, and every start after a container died.
Start ==
  /\ want /\ BootGoes("down", "migrate")
  /\ UNCHANGED <<schema, want, faults>>

\* create_table and add_column do not look whether the thing is there.
Upgradable ==
  /\ rev = 0 => "accounts" \notin parts /\ "sessions" \notin parts
  /\ rev < 2 => Second \cap parts = {}

\* alembic upgrade head: every revision that is missing, in one transaction.
Upgrade ==
  /\ db /\ Upgradable
  /\ BootGoes("migrate", "create")
  /\ rev' = 2
  /\ parts' = parts \cup (IF rev = 0 THEN Foundation ELSE {})
                    \cup (IF rev < 2 THEN Second ELSE {})
  /\ UNCHANGED <<db, want, faults>>

\* It raises, and start.sh ends (set -e).
UpgradeFails ==
  /\ ~(db /\ Upgradable)
  /\ BootGoes("migrate", "down")
  /\ UNCHANGED <<schema, want, faults>>

\* python run.py by hand: uvicorn alone.
RunDirectly ==
  /\ db /\ ~want /\ BootGoes("down", "create")
  /\ UNCHANGED <<schema, want, faults>>

\* create_all makes the tables that are missing, each with all its columns.
\* Mutant: the tables are left to the migrations.
CreateNothing ==
  /\ BootGoes("create", "bundles")
  /\ UNCHANGED <<schema, want, faults>>
CreateAll ==
  /\ BootGoes("create", "bundles")
  /\ parts' = parts \cup {"sessions", "mail"} \cup (IF "accounts" \in parts THEN {} ELSE Parts)
  /\ UNCHANGED <<db, rev, want, faults>>

\* ensure_key_bundle_schema.  DateTime is no type of Postgres: a table without
\* updated_at stops every start.
EnsureBundles ==
  /\ BootGoes("bundles", IF "stamp" \in parts THEN "users" ELSE "down")
  /\ parts' = IF "stamp" \in parts THEN parts \cup {"bundle"} ELSE parts
  /\ UNCHANGED <<db, rev, want, faults>>

\* ensure_server_changes_schema: two transactions.
EnsureUsers ==
  /\ BootGoes("users", "versions") /\ parts' = parts \cup {"backupCode"}
  /\ UNCHANGED <<db, rev, want, faults>>

EnsureVersions ==
  /\ BootGoes("versions", "bucket") /\ parts' = parts \cup {"versions"}
  /\ UNCHANGED <<db, rev, want, faults>>

\* ensure_bucket_exists: a bucket that is there is fine.
EnsureBucket ==
  /\ BootGoes("bucket", "serving")
  /\ UNCHANGED <<schema, want, faults>>

Booting ==
  \/ Start \/ Upgrade \/ UpgradeFails \/ CreateAll
  \/ EnsureBundles \/ EnsureUsers \/ EnsureVersions \/ EnsureBucket

\* The server dies, or a call to the database or to S3 raises while it starts.
ServerDies ==
  /\ boot # "down" /\ boot' = "down" /\ Fault
  /\ UNCHANGED <<schema, want>>

---------------------------------------------------------------------------
(* Properties *)

\* The server and its schema are in one of the states named above.
StartupTypeOK ==
  /\ db \in BOOLEAN /\ rev \in Revisions /\ parts \subseteq Parts
  /\ boot \in Steps /\ want \in BOOLEAN /\ faults \in 0..MaxFault

\* A database that start.sh cannot serve: one that create_all made, or that
\* run.py served before its last migration, or one without updated_at.
Stuck ==
  \/ ~db
  \/ want /\ ~Upgradable
  \/ "accounts" \in parts /\ "stamp" \notin parts

Running == want \/ boot # "down"

\* A server that is started on an old database, a half-migrated or a new one
\* serves in the end, with every table and column the models name, however
\* often it died on the way; only a database that is stuck is never served.
Served == Running ~> ((boot = "serving" /\ parts = Parts) \/ ~Running \/ Stuck)
=============================================================================
