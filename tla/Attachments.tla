---------------------------- MODULE Attachments ----------------------------
(***************************************************************************)
(* Attachments: a row in Postgres and an object in S3 for each.  Models    *)
(* services/attachment_service.py, the attachments of delete_account and   *)
(* the second half of the expiry worker's round in main.py.                *)
(*                                                                         *)
(* The chunks of an upload arrive while the event loop serves others, into *)
(* a temporary file nobody else sees; storing the object and saving the    *)
(* row hold the loop.  So does the worker.  The other handlers run on      *)
(* worker threads.  A DELETE by id that finds no row is only a warning of  *)
(* SQLAlchemy: two requests may delete one attachment.                     *)
(***************************************************************************)
EXTENDS Naturals

CONSTANTS
  Threads,   (* worker threads                                             *)
  Loop,      (* the event loop                                             *)
  Users,     (* recipients                                                 *)
  Nobody,
  MaxFile,   (* bound: how many attachments are uploaded                   *)
  MaxFault   (* bound: how many storage calls, database calls or server    *)
             (* processes fail                                             *)

ASSUME AttachmentsAssumption ==
  Loop \notin Threads /\ Nobody \notin Users /\ MaxFile \in Nat /\ MaxFault \in Nat

Files == 1..MaxFile
Procs == Threads \cup {Loop}

VARIABLES
  next,      (* the next attachment                                        *)
  rcpt,      (* recipient of each attachment                               *)
  expired,   (* attachments whose expires_at has passed                    *)
  live,      (* users whose account exists                                 *)
  rows,      (* attachments that have a row                                *)
  blobs,     (* attachments that have an object                            *)
  pc,        (* where each process is                                      *)
  held,      (* the attachments whose rows its session deletes at the end  *)
  todo,      (* those whose objects it has yet to delete                   *)
  user,      (* the account it deletes                                     *)
  faults,    (* how many faults happened                                   *)
  accepted,  (* history: attachments whose uploader was answered 201       *)
  acked,     (* history: attachments an ack or a delete was admitted for   *)
  doomed,    (* history: attachments a deletion of the account listed      *)
  late,      (* history: those whose row was saved after that              *)
  hurt       (* history: attachments that a fault hit                      *)

env     == <<expired, live>>
session == <<held, todo, user>>
history == <<accepted, acked, doomed, late, hurt>>
vars    == <<next, rcpt, expired, live, rows, blobs, pc, held, todo, user,
             faults, accepted, acked, doomed, late, hurt>>

Init ==
  /\ next = 1 /\ rcpt = [a \in Files |-> Nobody]
  /\ expired = {} /\ live = Users /\ rows = {} /\ blobs = {}
  /\ pc = [p \in Procs |-> "idle"] /\ user = [p \in Procs |-> Nobody]
  /\ held = [p \in Procs |-> {}] /\ todo = [p \in Procs |-> {}]
  /\ faults = 0
  /\ accepted = {} /\ acked = {} /\ doomed = {} /\ late = {} /\ hurt = {}

---------------------------------------------------------------------------
Goto(p, from, to) == pc[p] = from /\ pc' = [pc EXCEPT ![p] = to]

\* The session opens on the rows fs, with the objects to delete.
Open(p, fs) == held' = [held EXCEPT ![p] = fs] /\ todo' = [todo EXCEPT ![p] = fs]

Finish(p) ==
  /\ pc' = [pc EXCEPT ![p] = "idle"] /\ user' = [user EXCEPT ![p] = Nobody]
  /\ Open(p, {})

Fault(fs) ==
  /\ faults < MaxFault /\ faults' = faults + 1
  /\ hurt' = hurt \cup fs

NoFault == UNCHANGED <<faults, hurt>>

\* delete_blob; a failure never stops the deletion of the row.
DeleteBlob(a) == (blobs' = blobs \ {a} /\ NoFault) \/ (Fault({a}) /\ UNCHANGED blobs)

---------------------------------------------------------------------------
(* upload_attachment *)

\* upload_blob_file.  The recipient is not looked up.
UploadStore(u) ==
  /\ next \in Files /\ next' = next + 1
  /\ Goto(Loop, "idle", "save") /\ rcpt' = [rcpt EXCEPT ![next] = u]
  /\ held' = [held EXCEPT ![Loop] = {next}]
  /\ blobs' = blobs \cup {next}
  /\ UNCHANGED <<env, rows, todo, user, faults, history>>

\* It raises: the object may be there all the same.
UploadStoreFails(u) ==
  /\ next \in Files /\ next' = next + 1 /\ pc[Loop] = "idle"
  /\ rcpt' = [rcpt EXCEPT ![next] = u]
  /\ blobs' = blobs \cup {next} \/ UNCHANGED blobs
  /\ Fault({next})
  /\ UNCHANGED <<env, rows, pc, session, accepted, acked, doomed, late>>

\* The deletion of the recipient's account has listed its attachments.
Leaving == {u \in Users : u \notin live \/ \E t \in Threads : user[t] = u}

UploadSave ==
  /\ pc[Loop] = "save" /\ Finish(Loop)
  /\ rows' = rows \cup held[Loop]
  /\ accepted' = accepted \cup held[Loop]
  /\ late' = late \cup {a \in held[Loop] : rcpt[a] \in Leaving}
  /\ UNCHANGED <<next, rcpt, env, blobs, faults, acked, doomed, hurt>>

\* The commit raises, or the refresh after it: nothing deletes the object.
UploadSaveFails ==
  /\ pc[Loop] = "save" /\ Finish(Loop) /\ Fault(held[Loop])
  /\ \/ UNCHANGED <<rows, late>>
     \/ /\ rows' = rows \cup held[Loop]
        /\ late' = late \cup {a \in held[Loop] : rcpt[a] \in Leaving}
  /\ UNCHANGED <<next, rcpt, env, blobs, accepted, acked, doomed>>

---------------------------------------------------------------------------
(* stream_attachment_download: a live attachment changes nothing *)

\* Mutant: an attachment that has not expired is taken for an expired one.
DownloadAny(t, a) ==
  /\ a \in rows /\ rcpt[a] \in live
  /\ Goto(t, "idle", "unlink") /\ Open(t, {a})
  /\ UNCHANGED <<next, rcpt, env, rows, blobs, user, faults, history>>

DownloadExpired(t, a) ==
  /\ a \in rows /\ rcpt[a] \in live /\ a \in expired
  /\ Goto(t, "idle", "unlink") /\ Open(t, {a})
  /\ UNCHANGED <<next, rcpt, env, rows, blobs, user, faults, history>>

(* ack_attachment_download *)

Ack(t, a) ==
  /\ a \in rows /\ rcpt[a] \in live
  /\ Goto(t, "idle", "unlink") /\ Open(t, {a})
  /\ acked' = acked \cup {a}
  /\ UNCHANGED <<next, rcpt, env, rows, blobs, user, faults, accepted, doomed, late, hurt>>

(* purge_expired_attachments *)

\* Mutant: the worker skips what an ack has marked as downloaded.
OverdueUnread == (rows \cap expired) \ acked
Overdue == rows \cap expired

PurgeList ==
  /\ Overdue # {}
  /\ Goto(Loop, "idle", "unlink") /\ Open(Loop, Overdue)
  /\ UNCHANGED <<next, rcpt, env, rows, blobs, user, faults, history>>

(* delete_account, a request of the user *)

DeleteList(t, u) ==
  /\ u \in live
  /\ Goto(t, "idle", "unlink") /\ Open(t, {a \in rows : rcpt[a] = u})
  /\ user' = [user EXCEPT ![t] = u]
  /\ doomed' = doomed \cup {a \in rows : rcpt[a] = u}
  /\ UNCHANGED <<next, rcpt, env, rows, blobs, faults, accepted, acked, late, hurt>>

---------------------------------------------------------------------------
(* The end of all four: objects one by one, then one commit for the rows *)

\* Mutant: the object stays when its row was read as expired.
UnlinkFresh(p, a) ==
  /\ pc[p] = "unlink" /\ a \in todo[p]
  /\ todo' = [todo EXCEPT ![p] = @ \ {a}]
  /\ IF a \in expired THEN UNCHANGED <<blobs, faults, hurt>> ELSE DeleteBlob(a)
  /\ UNCHANGED <<next, rcpt, env, rows, pc, held, user, accepted, acked, doomed, late>>

Unlink(p, a) ==
  /\ pc[p] = "unlink" /\ a \in todo[p]
  /\ todo' = [todo EXCEPT ![p] = @ \ {a}]
  /\ DeleteBlob(a)
  /\ UNCHANGED <<next, rcpt, env, rows, pc, held, user, accepted, acked, doomed, late>>

\* Mutant: the account goes and its attachments are not deleted.
EraseOne(p) ==
  /\ pc[p] = "unlink" /\ todo[p] = {}
  /\ rows' = IF user[p] = Nobody THEN rows \ held[p] ELSE rows
  /\ live' = live \ {user[p]}
  /\ Finish(p)
  /\ UNCHANGED <<next, rcpt, expired, blobs, faults, history>>

Erase(p) ==
  /\ pc[p] = "unlink" /\ todo[p] = {}
  /\ rows' = rows \ held[p] /\ live' = live \ {user[p]}
  /\ Finish(p)
  /\ UNCHANGED <<next, rcpt, expired, blobs, faults, history>>

---------------------------------------------------------------------------
(* The rest of the system *)

Expire(a) ==
  /\ a < next /\ a \notin expired /\ expired' = expired \cup {a}
  /\ UNCHANGED <<next, rcpt, live, rows, blobs, pc, session, faults, history>>

\* A database call raises: nothing it held is written.
Abort(p) ==
  /\ pc[p] = "unlink" /\ Fault(held[p]) /\ Finish(p)
  /\ UNCHANGED <<next, rcpt, env, rows, blobs, accepted, acked, doomed, late>>

Crash ==
  /\ Fault(UNION {held[p] : p \in Procs})
  /\ pc' = [p \in Procs |-> "idle"] /\ user' = [p \in Procs |-> Nobody]
  /\ held' = [p \in Procs |-> {}] /\ todo' = [p \in Procs |-> {}]
  /\ UNCHANGED <<next, rcpt, env, rows, blobs, accepted, acked, doomed, late>>

Deleting(p) == Erase(p) \/ \E a \in Files : Unlink(p, a)

Next ==
  \/ \E u \in Users : UploadStore(u) \/ UploadStoreFails(u)
  \/ UploadSave \/ UploadSaveFails \/ PurgeList \/ Crash
  \/ \E t \in Threads :
       \/ \E a \in Files : DownloadExpired(t, a) \/ Ack(t, a)
       \/ \E u \in Users : DeleteList(t, u)
  \/ \E p \in Procs : Deleting(p) \/ Abort(p)
  \/ \E a \in Files : Expire(a)

\* What the loop runs goes on, and the worker's sleep of 60 s ends in rounds
\* that purge_expired_messages does not abort.
Spec ==
  /\ Init /\ [][Next]_vars
  /\ WF_vars(UploadSave \/ Deleting(Loop)) /\ WF_vars(PurgeList)

---------------------------------------------------------------------------
(* Properties *)

\* The tables, the store and the sessions hold what they may hold.
TypeOK ==
  /\ next \in 1..(MaxFile + 1) /\ rcpt \in [Files -> Users \cup {Nobody}]
  /\ expired \subseteq Files /\ live \subseteq Users /\ rows \subseteq Files /\ blobs \subseteq Files
  /\ pc \in [Procs -> {"idle", "save", "unlink"}] /\ user \in [Procs -> Users \cup {Nobody}]
  /\ held \in [Procs -> SUBSET Files] /\ todo \in [Procs -> SUBSET Files]
  /\ faults \in 0..MaxFault
  /\ accepted \subseteq Files /\ acked \subseteq Files /\ doomed \subseteq Files
  /\ late \subseteq Files /\ hurt \subseteq Files

\* An attachment whose upload was answered can be downloaded, until it is
\* acknowledged or expires or a deletion of its recipient's account begins:
\* no fault loses it otherwise.  (A deletion that fails at its commit has
\* deleted the objects of an account that goes on.)
Durable == \A a \in accepted : a \in rows \cap blobs \/ a \in acked \cup expired \cup doomed

\* An object outlives its row, or never gets one, only after a fault that hit
\* this very attachment.
LeaksNeedFault ==
  \A a \in blobs \ rows : (pc[Loop] = "save" /\ a \in held[Loop]) \/ a \in hurt

\* The deletion of an account leaves no attachment to it, but those saved
\* after it listed them: upload_attachment does not look at the recipient.
AccountLeavesNothing == \A a \in rows : rcpt[a] \notin live => a \in late

\* How far the life of an attachment has come, as StoredLife sees it.
Stage ==
  [a \in Files |-> IF a >= next \/ (pc[Loop] = "save" /\ a \in held[Loop]) THEN "new"
                   ELSE IF a \notin rows THEN "gone"
                   ELSE IF a \in blobs THEN "whole" ELSE "spoilt"]
Life == INSTANCE StoredLife WITH
  Things <- Files, stage <- Stage, promised <- accepted,
  released <- acked \cup expired \cup doomed

\* Whatever overlaps or fails, an attachment is stored once, is whole until it is
\* released when its uploader was told it is stored, and does not come back
\* once a download, an ack, the expiry worker or a deletion of the account took
\* its object or its row away.
LifeKept == Life!Spec

\* Expired attachments leave the table, whatever else deletes them and however
\* the rounds that would have deleted them ended.
ExpiredPurged == \A a \in Files : (a \in expired /\ a \in rows) ~> a \notin rows
=============================================================================
