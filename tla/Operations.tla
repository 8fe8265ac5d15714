----------------------------- MODULE Operations -----------------------------
(***************************************************************************)
(* The stack in operation: the server of Startup over its database and its *)
(* object volume, and the scripts of ops/host that back both up, restore   *)
(* them from a snapshot and drain them.                                    *)
(*                                                                         *)
(* A backup dumps the database, then archives the volume object by object, *)
(* while the server goes on.  It is started by cron and may run beside a   *)
(* restore or a drain, of which the operator runs one at a time.  Every    *)
(* command of a script may fail and end it (set -e).                       *)
(***************************************************************************)
EXTENDS Startup, FiniteSets

CONSTANTS
  Messages,  (* messages, each with a row and an object                    *)
  MaxSnap    (* bound: how many snapshots are made                         *)

ASSUME OperationsAssumption == MaxSnap \in Nat

VARIABLES
  rows,      (* messages whose row is in the database                      *)
  objects,   (* messages whose object is in the volume                     *)
  saving,    (* uploads in progress: the object is stored, the row is not  *)
  undoing,   (* uploads whose commit raised: the object is to be deleted   *)
  erasing,   (* removals in progress: the object is gone, the row is not   *)
  backup,    (* the backup script: whether it runs, the objects its tar    *)
             (* has passed, what it dumped and archived                    *)
  snaps,     (* the restic repository                                      *)
  op,        (* the operator's script: where it is                         *)
  chosen,    (* the snapshot it restores                                   *)
  cut,       (* a drain: nothing served when it truncated                  *)
  used,      (* history: messages that were ever uploaded                  *)
  released,  (* history: messages the server was to remove or refused      *)
  sound,     (* history: the stack is not what a script left half-done     *)
  wiped      (* history: messages a completed drain removed                *)

data    == <<rows, objects>>
busy    == <<saving, undoing, erasing>>
script  == <<op, chosen, cut>>
history == <<used, released, sound, wiped>>
vars    == <<db, rev, parts, boot, want, faults, rows, objects, saving, undoing,
             erasing, backup, snaps, op, chosen, cut, used, released, sound, wiped>>

\* A dump and an archive, with the histories of the time.
NoSnapshot == [rows |-> {}, objects |-> {}, rev |-> 0, parts |-> {},
               gone |-> {}, sound |-> FALSE]
Snapshots == [rows : SUBSET Messages, objects : SUBSET Messages, rev : Revisions,
              parts : SUBSET Parts, gone : SUBSET Messages, sound : BOOLEAN]
NoBackup == [on |-> FALSE, seen |-> {}, snap |-> NoSnapshot]

Ops == {"idle", "stop", "drop", "load", "wipe", "untar", "up",       \* restore
        "cut", "truncate", "unlink", "verify", "upAgain"}            \* drain

Init ==
  /\ StartupInit
  /\ rows = {} /\ objects = {} /\ saving = {} /\ undoing = {} /\ erasing = {}
  /\ backup = NoBackup /\ snaps = {}
  /\ op = "idle" /\ chosen = NoSnapshot /\ cut = FALSE
  /\ used = {} /\ released = {} /\ sound = TRUE /\ wiped = {}

---------------------------------------------------------------------------
(* The server *)

Serving == boot = "serving"

Put(m) ==
  /\ Serving /\ m \notin used /\ used' = used \cup {m}
  /\ objects' = objects \cup {m} /\ saving' = saving \cup {m}
  /\ UNCHANGED <<startup, rows, undoing, erasing, backup, snaps, script, released, sound, wiped>>

Save(m) ==
  /\ m \in saving /\ saving' = saving \ {m} /\ rows' = rows \cup {m}
  /\ UNCHANGED <<startup, objects, undoing, erasing, backup, snaps, script, history>>

\* The commit raises: the row may have been written all the same.
SaveFails(m) ==
  /\ m \in saving /\ Fault
  /\ saving' = saving \ {m} /\ undoing' = undoing \cup {m}
  /\ rows' = rows \cup {m} \/ UNCHANGED rows
  /\ UNCHANGED <<schema, boot, want, objects, erasing, backup, snaps, script, history>>

\* The object is deleted, if that works; a row stays.
Undo(m) ==
  /\ m \in undoing /\ undoing' = undoing \ {m} /\ released' = released \cup {m}
  /\ objects' = objects \ {m} \/ UNCHANGED objects
  /\ UNCHANGED <<startup, rows, saving, erasing, backup, snaps, script, used, sound, wiped>>

\* A confirm, the expiry worker or the deletion of an account: the object
\* goes first.
Unlink(m) ==
  /\ Serving /\ m \in rows \ erasing /\ erasing' = erasing \cup {m}
  /\ objects' = objects \ {m} /\ released' = released \cup {m}
  /\ UNCHANGED <<startup, rows, saving, undoing, backup, snaps, script, used, sound, wiped>>

Erase(m) ==
  /\ m \in erasing /\ erasing' = erasing \ {m} /\ rows' = rows \ {m}
  /\ UNCHANGED <<startup, objects, saving, undoing, backup, snaps, script, history>>

\* The inbox drops a message whose object is missing.
Drop(m) ==
  /\ Serving /\ m \in rows \ (objects \cup erasing)
  /\ rows' = rows \ {m}
  /\ UNCHANGED <<startup, objects, busy, backup, snaps, script, history>>

\* What was in progress is left as it is when the server goes.
Interrupted == saving' = {} /\ undoing' = {} /\ erasing' = {}

ServerBoots ==
  /\ Booting
  /\ UNCHANGED <<data, busy, backup, snaps, script, history>>

ServerCrashes ==
  /\ ServerDies /\ Interrupted
  /\ UNCHANGED <<data, backup, snaps, script, history>>

\* docker compose stop: a server run by hand goes on.
Stopped ==
  /\ want' = FALSE
  /\ \/ want /\ boot' = "down" /\ Interrupted
     \/ ~want /\ UNCHANGED <<boot, busy>>

\* What an operator does by hand, between the scripts.
ByHand ==
  /\ op = "idle"
  /\ \/ boot = "down" /\ want' = TRUE /\ UNCHANGED <<schema, boot, faults, busy>>
     \/ want /\ Stopped /\ UNCHANGED <<schema, faults>>
     \/ RunDirectly /\ UNCHANGED busy
  /\ UNCHANGED <<data, backup, snaps, script, history>>

---------------------------------------------------------------------------
(* backup-stack.sh *)

\* Mutant: the rows are dumped after the archive is made.
DumpLate == [backup.snap EXCEPT !.rows = rows, !.gone = released]
Taken == [backup.snap EXCEPT !.gone = released]

BackupDump ==
  /\ ~backup.on /\ Cardinality(snaps) < MaxSnap /\ db
  /\ backup' = [NoBackup EXCEPT !.on = TRUE,
       !.snap = [NoSnapshot EXCEPT !.rows = rows, !.rev = rev, !.parts = parts,
                                   !.sound = sound]]
  /\ UNCHANGED <<startup, data, busy, snaps, script, history>>

\* tar comes to an object of the volume, or passes where it is not.
BackupArchive(m) ==
  /\ backup.on /\ m \notin backup.seen
  /\ backup' = [backup EXCEPT !.seen = @ \cup {m},
                              !.snap.objects = @ \cup ({m} \cap objects)]
  /\ UNCHANGED <<startup, data, busy, snaps, script, history>>

\* Each snapshot has a path of its own (mktemp), so that restic forget takes
\* none of the older ones for its predecessor: it removes nothing.
BackupSave ==
  /\ backup.on /\ backup.seen = Messages
  /\ snaps' = snaps \cup {Taken} /\ backup' = NoBackup
  /\ UNCHANGED <<startup, data, busy, script, history>>

\* Also when a file vanishes between the listing and the reading of tar.
BackupFails ==
  /\ backup.on /\ backup' = NoBackup
  /\ UNCHANGED <<startup, data, busy, snaps, script, history>>

\* A script that changes the data meanwhile: the snapshot is of no one state.
Mixed == backup' = [backup EXCEPT !.snap.sound = FALSE]

---------------------------------------------------------------------------
(* restore-stack.sh *)

OpGoes(from, to) == op = from /\ op' = to

RestoreBegin(s) ==
  /\ OpGoes("idle", "stop") /\ chosen' = s
  /\ UNCHANGED <<startup, data, busy, backup, snaps, cut, history>>

\* Both scripts go on when the server could not be stopped (|| true).
StopOrNot ==
  \/ Stopped /\ UNCHANGED faults
  \/ Fault /\ UNCHANGED <<want, boot, busy>>

RestoreStop ==
  /\ OpGoes("stop", "drop") /\ StopOrNot
  /\ UNCHANGED <<schema, data, backup, snaps, chosen, cut, history>>

\* dropdb refuses while a server is connected.
RestoreDrop ==
  /\ OpGoes("drop", "load") /\ boot = "down"
  /\ db' = FALSE /\ rev' = 0 /\ parts' = {} /\ rows' = {}
  /\ sound' = FALSE /\ wiped' = wiped \ (chosen.rows \cup chosen.objects)
  /\ Mixed
  /\ UNCHANGED <<boot, want, faults, objects, busy, snaps, chosen, cut, used, released>>

\* createdb and psql.
RestoreLoad ==
  /\ OpGoes("load", "wipe")
  /\ db' = TRUE /\ rev' = chosen.rev /\ parts' = chosen.parts /\ rows' = chosen.rows
  /\ Mixed
  /\ UNCHANGED <<boot, want, faults, objects, busy, snaps, chosen, cut, history>>

\* psql ends at the first error: part of the dump is in the database, which
\* nothing marks as incomplete.
RestoreLoadPartly ==
  /\ OpGoes("load", "idle") /\ Fault /\ db' = TRUE
  /\ rev' \in {0, chosen.rev} /\ parts' \in {{}, chosen.parts}
  /\ rows' \in SUBSET chosen.rows
  /\ chosen' = NoSnapshot /\ Mixed
  /\ UNCHANGED <<boot, want, objects, busy, snaps, cut, history>>

RestoreWipe ==
  /\ OpGoes("wipe", "untar") /\ objects' = {} /\ Mixed
  /\ UNCHANGED <<startup, rows, busy, snaps, chosen, cut, history>>

RestoreUntar ==
  /\ OpGoes("untar", "up") /\ objects' = chosen.objects /\ Mixed
  /\ UNCHANGED <<startup, rows, busy, snaps, chosen, cut, history>>

RestoreUp ==
  /\ OpGoes("up", "idle") /\ want' = TRUE
  /\ sound' = (chosen.sound /\ ~want) /\ released' = chosen.gone /\ chosen' = NoSnapshot
  /\ UNCHANGED <<schema, boot, faults, data, busy, backup, snaps, cut, used, wiped>>

---------------------------------------------------------------------------
(* drain-stack.sh *)

\* Its report counts the snapshots with a python3 that reads its program where
\* it should read the list: it ends the script, unless restic cannot read the
\* repository, which counts as no snapshots.
DrainBegin ==
  /\ db /\ {"accounts", "sessions", "mail"} \subseteq parts
  /\ OpGoes("idle", "cut")
  /\ UNCHANGED <<startup, data, busy, backup, snaps, chosen, cut, history>>

\* Mutant: only the ingress is stopped, the requests it let in go on.
DrainCutIngress ==
  /\ OpGoes("cut", "truncate") /\ cut' = TRUE
  /\ UNCHANGED <<startup, data, busy, backup, snaps, chosen, history>>
DrainCut ==
  /\ OpGoes("cut", "truncate") /\ StopOrNot /\ cut' = (boot' = "down" /\ ~want')
  /\ UNCHANGED <<schema, data, backup, snaps, chosen, history>>

\* Every table but attachments.
DrainTruncate ==
  /\ OpGoes("truncate", "unlink")
  /\ rows' = {} /\ Mixed
  /\ UNCHANGED <<startup, objects, busy, snaps, chosen, cut, history>>

\* The objects under messages/, not those of attachments.  A server that still
\* runs may yet save the row of one.
DrainUnlink ==
  /\ OpGoes("unlink", "verify")
  /\ objects' = {} /\ sound' = (sound /\ cut) /\ Mixed
  /\ UNCHANGED <<startup, rows, busy, snaps, chosen, cut, used, released, wiped>>

\* With the repository unreadable, no snapshot is forgotten and none counted.
DrainVerify ==
  /\ OpGoes("verify", "upAgain") /\ rows \cup objects = {}
  /\ wiped' = IF cut THEN used ELSE wiped
  /\ UNCHANGED <<startup, data, busy, backup, snaps, chosen, cut, used, released, sound>>

DrainUp ==
  /\ OpGoes("upAgain", "idle") /\ want' = TRUE /\ cut' = FALSE
  /\ UNCHANGED <<schema, boot, faults, data, busy, backup, snaps, chosen, history>>

---------------------------------------------------------------------------

\* A command fails and the script ends where it is.
Refused ==
  \/ op = "drop" /\ boot # "down"
  \/ op = "verify" /\ rows \cup objects # {}
ScriptEnds ==
  /\ op # "idle" /\ op' = "idle" /\ chosen' = NoSnapshot /\ cut' = FALSE
  /\ \/ Refused /\ UNCHANGED <<objects, faults>>
     \/ ~Refused /\ Fault
        /\ objects' \in IF op = "untar" THEN SUBSET chosen.objects ELSE {objects}
  /\ UNCHANGED <<schema, boot, want, rows, busy, backup, snaps, history>>

Next ==
  \/ \E m \in Messages :
       \/ Put(m) \/ Save(m) \/ SaveFails(m) \/ Undo(m)
       \/ Unlink(m) \/ Erase(m) \/ Drop(m) \/ BackupArchive(m)
  \/ ServerBoots \/ ServerCrashes \/ ByHand
  \/ BackupDump \/ BackupSave \/ BackupFails
  \/ \E s \in snaps : RestoreBegin(s)
  \/ RestoreStop \/ RestoreDrop \/ RestoreLoad \/ RestoreLoadPartly
  \/ RestoreWipe \/ RestoreUntar \/ RestoreUp
  \/ DrainBegin \/ DrainCut \/ DrainTruncate \/ DrainUnlink \/ DrainVerify \/ DrainUp
  \/ ScriptEnds

Spec == Init /\ [][Next]_vars

\* Docker starts the container and the container goes on; no operator has to
\* do anything.
FairSpec == Spec /\ WF_vars(ServerBoots)

---------------------------------------------------------------------------
(* Properties *)

\* What is stored, backed up and in progress is what may be.
TypeOK ==
  /\ StartupTypeOK
  /\ rows \subseteq Messages /\ objects \subseteq Messages
  /\ saving \subseteq Messages /\ undoing \subseteq Messages /\ erasing \subseteq Messages
  /\ backup \in [on : BOOLEAN, seen : SUBSET Messages, snap : Snapshots]
  /\ snaps \subseteq Snapshots /\ chosen \in Snapshots
  /\ op \in Ops /\ cut \in BOOLEAN /\ sound \in BOOLEAN
  /\ used \subseteq Messages /\ released \subseteq Messages /\ wiped \subseteq Messages

\* A snapshot can be restored and served whole: a row in it whose object is
\* missing from it is of a message the server was to remove anyway or had refused,
\* although the server went on between the dump and the archive.  The same is so
\* of the running stack, restored or not.  Only a snapshot taken while a restore
\* or a drain was at work, or after one that was left half-done, may lack an
\* object.
RestoreServes ==
  /\ sound => rows \ objects \subseteq released
  /\ \A s \in snaps : s.sound => s.rows \ s.objects \subseteq s.gone

\* No message that a drain removed comes back, by a request in progress or by
\* a server that starts again: only a snapshot that outlived the drain brings
\* it back, or a server that the drain could not stop.
DrainHolds == wiped \cap (rows \cup objects) = {}
=============================================================================
