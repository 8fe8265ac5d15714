------------------------------ MODULE Mailbox ------------------------------
(***************************************************************************)
(* The message store: a row per message in Postgres, whose sealed_blob     *)
(* column holds the key of an object in S3, and the object.  Models        *)
(* services/message_service.py with repositories/message_repo.py, the      *)
(* deletion of an account and the expiry worker of main.py.                *)
(*                                                                         *)
(* send_message and the expiry worker hold the event loop until their      *)
(* first await, so the loop is one process, Loop.  The inbox, confirm and  *)
(* account handlers run on worker threads, each with its own SQLAlchemy    *)
(* session.  Nothing makes a row and its object change together: every S3  *)
(* call and every commit is an action of its own.                          *)
(***************************************************************************)
EXTENDS Naturals

CONSTANTS
  Threads,   (* worker threads that serve the synchronous handlers         *)
  Loop,      (* the event loop                                             *)
  Users,     (* recipients                                                 *)
  Nobody,    (* the recipient of a message that was not sent yet           *)
  MaxMsg,    (* bound: how many sends happen                               *)
  Faults     (* TRUE: S3, database and Redis calls may fail and the server *)
             (* may crash                                                  *)

ASSUME MailboxAssumption ==
  Loop \notin Threads /\ Nobody \notin Users /\ MaxMsg \in Nat /\ Faults \in BOOLEAN

Msgs  == 1..MaxMsg            \* ids from the sequence: also created_at order
Procs == Threads \cup {Loop}

VARIABLES
  next,        (* the id the next message takes                            *)
  rcpt,        (* recipient of each message                                *)
  expired,     (* messages whose expires_at has passed                     *)
  live,        (* users whose account exists                               *)
  row,         (* row of each message: "none", "key" when sealed_blob is   *)
               (* the S3 key, "inline" when it holds the content itself    *)
  blobs,       (* messages whose object is in S3                           *)
  pc,          (* where each process is                                    *)
  item,        (* the message it works on, 0 for none                      *)
  todo,        (* the listed messages a loop over rows has yet to visit    *)
  obj,         (* its session: the object loaded for each row, see Seen    *)
  publishing,  (* sends waiting for Redis                                  *)
  accepted,    (* history: messages answered 201 to the sender             *)
  acked,       (* history: messages whose recipient's confirm was admitted *)
  exposed      (* history: messages an inbox request dropped or inlined    *)

sent    == <<next, rcpt>>
env     == <<expired, live>>
store   == <<row, blobs>>
procs   == <<pc, item, todo, obj>>
history == <<accepted, acked, exposed>>
vars    == <<next, rcpt, expired, live, row, blobs, pc, item, todo, obj,
             publishing, accepted, acked, exposed>>

\* What a session holds for a row: nothing, the loaded column, the expired
\* object it keeps across a commit, the content assigned over the column and
\* not flushed yet ("dirty"), or a row left out of the response ("dropped").
Seen == {"none", "key", "inline", "expired", "dirty", "dropped"}

PCs == {"idle", "save", "undo", "contacts",       \* Loop: send_message
        "purge", "purgeUnlink", "purgeErase",     \* Loop: expiry worker
        "fetch", "get", "drop",                   \* threads: fetch_inbox
        "unlink", "erase"}                        \* threads: confirm_delivery

NoObjects == [m \in Msgs |-> "none"]

Init ==
  /\ next = 1 /\ rcpt = [m \in Msgs |-> Nobody]
  /\ expired = {} /\ live = Users
  /\ row = [m \in Msgs |-> "none"] /\ blobs = {}
  /\ pc = [p \in Procs |-> "idle"] /\ item = [p \in Procs |-> 0]
  /\ todo = [p \in Procs |-> {}] /\ obj = [p \in Procs |-> NoObjects]
  /\ publishing = {}
  /\ accepted = {} /\ acked = {} /\ exposed = {}

---------------------------------------------------------------------------
(* Sessions and storage *)

Goto(p, from, to) == pc[p] = from /\ pc' = [pc EXCEPT ![p] = to]
Take(p, m) == item' = [item EXCEPT ![p] = m]

\* The request ends: its session closes, what it did not flush is lost.
Finish(p) ==
  /\ pc' = [pc EXCEPT ![p] = "idle"]
  /\ Take(p, 0)
  /\ todo' = [todo EXCEPT ![p] = {}]
  /\ obj' = [obj EXCEPT ![p] = NoObjects]

\* delete_object succeeds for a key without an object; a failure is swallowed.
DeleteBlobs(ms) == blobs' = blobs \ ms \/ (Faults /\ UNCHANGED blobs)

\* The query behind a loop over rows loads an object for each.
ListRows(p, ms) ==
  /\ todo' = [todo EXCEPT ![p] = ms]
  /\ obj' = [obj EXCEPT ![p] = [m \in Msgs |-> IF m \in ms THEN row[m] ELSE "none"]]

\* Going on to row m: reading its object loads it again when it expired.
Vanished(p, m) == obj[p][m] = "expired" /\ row[m] = "none"
VisitRow(p, m) ==
  /\ ~Vanished(p, m)
  /\ Take(p, m)
  /\ todo' = [todo EXCEPT ![p] = @ \ {m}]
  /\ obj' = [obj EXCEPT ![p][m] = IF @ = "expired" THEN row[m] ELSE @]

\* The commit in delete_message writes the pending column values of the whole
\* session and expires its objects.
\* Mutant: an assigned column does not mark the object.
DirtyLost(p) == {}
Dirty(p) == {m \in Msgs : obj[p][m] = "dirty"}
CommitDelete(p, d) ==
  /\ row' = [m \in Msgs |-> IF m = d THEN "none"
                            ELSE IF m \in Dirty(p) THEN "inline" ELSE row[m]]
  /\ obj' = [obj EXCEPT ![p] =
               [m \in Msgs |-> IF m = d THEN "dropped"
                               ELSE IF @[m] \in {"none", "dropped"} THEN @[m]
                               ELSE "expired"]]

---------------------------------------------------------------------------
(* send_message *)

\* Mutant: the row is saved although the object could not be stored.
SendUploadUnchecked(u) ==
  /\ next \in Msgs /\ u \in live
  /\ Goto(Loop, "idle", "save") /\ Take(Loop, next)
  /\ rcpt' = [rcpt EXCEPT ![next] = u] /\ next' = next + 1
  /\ UNCHANGED <<env, store, todo, obj, publishing, history>>

SendUpload(u) ==
  /\ next \in Msgs /\ u \in live
  /\ Goto(Loop, "idle", "save") /\ Take(Loop, next)
  /\ blobs' = blobs \cup {next}
  /\ rcpt' = [rcpt EXCEPT ![next] = u] /\ next' = next + 1
  /\ UNCHANGED <<env, row, todo, obj, publishing, history>>

\* put_object raises: nothing removes an object that was stored all the same.
SendUploadFails(u) ==
  /\ Faults /\ next \in Msgs /\ u \in live /\ pc[Loop] = "idle"
  /\ blobs' = blobs \cup {next} \/ UNCHANGED blobs
  /\ rcpt' = [rcpt EXCEPT ![next] = u] /\ next' = next + 1
  /\ UNCHANGED <<env, row, procs, publishing, history>>

SendSave ==
  /\ Goto(Loop, "save", "contacts")
  /\ row' = [row EXCEPT ![item[Loop]] = "key"]
  /\ UNCHANGED <<sent, env, blobs, item, todo, obj, publishing, history>>

\* The commit or the refresh after it raises: the row may be there or not.
SendSaveFails ==
  /\ Faults
  /\ Goto(Loop, "save", "undo")
  /\ row' = [row EXCEPT ![item[Loop]] = "key"] \/ UNCHANGED row
  /\ UNCHANGED <<sent, env, blobs, item, todo, obj, publishing, history>>

SendUndo ==
  /\ pc[Loop] = "undo"
  /\ DeleteBlobs({item[Loop]})
  /\ Finish(Loop)
  /\ UNCHANGED <<sent, env, row, publishing, history>>

\* ensure_bidirectional_contact, then the await on Redis frees the loop.
SendContacts ==
  /\ pc[Loop] = "contacts"
  /\ publishing' = publishing \cup {item[Loop]}
  /\ Finish(Loop)
  /\ UNCHANGED <<sent, env, store, history>>

\* A 201, or a 500 for a stored message when Redis is down outside local and
\* test deployments.
SendAnswer(m) ==
  /\ m \in publishing /\ publishing' = publishing \ {m}
  /\ accepted' = accepted \cup {m} \/ (Faults /\ UNCHANGED accepted)
  /\ UNCHANGED <<sent, env, store, procs, acked, exposed>>

---------------------------------------------------------------------------
(* fetch_inbox *)

\* get_message_for_user: the unexpired rows of u.
Inbox(u) == {m \in Msgs : row[m] # "none" /\ rcpt[m] = u /\ m \notin expired}

FetchList(t, u) ==
  /\ u \in live
  /\ Goto(t, "idle", "fetch") /\ ListRows(t, Inbox(u))
  /\ UNCHANGED <<sent, env, store, item, publishing, history>>

FetchNext(t, m) ==
  /\ m \in todo[t] /\ \A k \in todo[t] : m <= k
  /\ Goto(t, "fetch", "get") /\ VisitRow(t, m)
  /\ UNCHANGED <<sent, env, store, publishing, history>>

FetchGet(t) ==
  /\ Goto(t, "get", "fetch") /\ Take(t, 0)
  /\ obj[t][item[t]] = "key" /\ item[t] \in blobs
  /\ obj' = [obj EXCEPT ![t][item[t]] = "dirty"]
  /\ UNCHANGED <<sent, env, store, todo, publishing, history>>

\* download_blob raises; the content of an inlined row is no object's key.
FetchMiss(t) ==
  /\ Goto(t, "get", "drop")
  /\ obj[t][item[t]] = "inline" \/ item[t] \notin blobs \/ Faults
  /\ UNCHANGED <<sent, env, store, item, todo, obj, publishing, history>>

\* The flush updates no row that a concurrent request deleted: StaleDataError.
\* Mutant: the flush writes a missing row again.
CanFlushAlways(t) == TRUE
CanFlush(t) == \A m \in Dirty(t) : row[m] # "none"

FetchDrop(t) ==
  /\ Goto(t, "drop", "fetch") /\ Take(t, 0)
  /\ row[item[t]] # "none" /\ CanFlush(t)
  /\ CommitDelete(t, item[t])
  /\ exposed' = exposed \cup Dirty(t) \cup {item[t]}
  /\ UNCHANGED <<sent, env, blobs, todo, publishing, accepted, acked>>

\* delete_message finds no row and commits nothing.
FetchDropGone(t) ==
  /\ Goto(t, "drop", "fetch") /\ Take(t, 0)
  /\ row[item[t]] = "none"
  /\ obj' = [obj EXCEPT ![t][item[t]] = "dropped"]
  /\ UNCHANGED <<sent, env, store, todo, publishing, history>>

\* The response (a 500 when it reads an object whose row vanished), or the
\* 500 of StaleDataError or ObjectDeletedError.
FetchEnd(t) ==
  /\ \/ pc[t] = "fetch" /\ todo[t] = {}
     \/ pc[t] = "fetch" /\ \E m \in todo[t] : Vanished(t, m) /\ \A k \in todo[t] : m <= k
     \/ pc[t] = "drop" /\ row[item[t]] # "none" /\ ~CanFlush(t)
  /\ Finish(t)
  /\ UNCHANGED <<sent, env, store, publishing, history>>

---------------------------------------------------------------------------
(* confirm_delivery; a message without a row, or another user's, changes    *)
(* nothing *)

ConfirmRead(t, m) ==
  /\ row[m] # "none" /\ rcpt[m] \in live
  /\ Goto(t, "idle", "unlink") /\ Take(t, m)
  /\ obj' = [obj EXCEPT ![t][m] = row[m]]
  /\ acked' = acked \cup {m}
  /\ UNCHANGED <<sent, env, store, todo, publishing, accepted, exposed>>

\* sealed_blob is passed as the key, whatever the row held when it was read.
\* Mutant: the object is left to a later job.
UnlinkLater(p) == UNCHANGED blobs
Unlink(p) == DeleteBlobs(IF obj[p][item[p]] = "key" THEN {item[p]} ELSE {})

ConfirmUnlink(t) ==
  /\ Goto(t, "unlink", "erase") /\ Unlink(t)
  /\ UNCHANGED <<sent, env, row, item, todo, obj, publishing, history>>

\* Mutant: the deletion of the row is not committed.
ConfirmUncommitted(t) ==
  /\ pc[t] = "erase"
  /\ Finish(t)
  /\ UNCHANGED <<sent, env, store, publishing, history>>

ConfirmErase(t) ==
  /\ pc[t] = "erase"
  /\ row' = [row EXCEPT ![item[t]] = "none"]
  /\ Finish(t)
  /\ UNCHANGED <<sent, env, blobs, publishing, history>>

---------------------------------------------------------------------------
(* purge_expired_messages, by the worker on the event loop *)

\* Mutants: the filter on expires_at is lost; only rows that hold a key.
OverdueAll == {m \in Msgs : row[m] # "none"}
OverdueKeys == {m \in expired : row[m] = "key"}
Overdue == {m \in expired : row[m] # "none"}

PurgeList ==
  /\ Overdue # {}
  /\ Goto(Loop, "idle", "purge") /\ ListRows(Loop, Overdue)
  /\ UNCHANGED <<sent, env, store, item, publishing, history>>

PurgeNext(m) ==
  /\ m \in todo[Loop]
  /\ Goto(Loop, "purge", "purgeUnlink") /\ VisitRow(Loop, m)
  /\ UNCHANGED <<sent, env, store, publishing, history>>

PurgeUnlink ==
  /\ Goto(Loop, "purgeUnlink", "purgeErase") /\ Unlink(Loop)
  /\ UNCHANGED <<sent, env, row, item, todo, obj, publishing, history>>

PurgeErase ==
  /\ Goto(Loop, "purgeErase", "purge") /\ Take(Loop, 0)
  /\ \/ row[item[Loop]] # "none" /\ CommitDelete(Loop, item[Loop])
     \/ row[item[Loop]] = "none" /\ UNCHANGED <<row, obj>>
  /\ UNCHANGED <<sent, env, blobs, todo, publishing, history>>

\* The round is over, or msg.id raises outside the try and aborts it.
PurgeEnd ==
  /\ pc[Loop] = "purge"
  /\ todo[Loop] = {} \/ \E m \in todo[Loop] : Vanished(Loop, m)
  /\ Finish(Loop)
  /\ UNCHANGED <<sent, env, store, publishing, history>>

---------------------------------------------------------------------------
(* The rest of the system *)

\* delete_account drops the rows with the account and keeps their objects.
DeleteAccount(u) ==
  /\ u \in live /\ live' = live \ {u}
  /\ row' = [m \in Msgs |-> IF rcpt[m] = u THEN "none" ELSE row[m]]
  /\ UNCHANGED <<sent, expired, blobs, procs, publishing, history>>

\* A message sent without ttl_seconds is one this never happens to.
Expire(m) ==
  /\ m < next /\ m \notin expired /\ expired' = expired \cup {m}
  /\ UNCHANGED <<sent, live, store, procs, publishing, history>>

\* A database call raises: one request ends.
Abort(p) ==
  /\ Faults
  /\ pc[p] \notin {"idle", "save", "undo"} /\ Finish(p)
  /\ UNCHANGED <<sent, env, store, publishing, history>>

Crash ==
  /\ Faults
  /\ pc' = [p \in Procs |-> "idle"] /\ item' = [p \in Procs |-> 0]
  /\ todo' = [p \in Procs |-> {}] /\ obj' = [p \in Procs |-> NoObjects]
  /\ publishing' = {}
  /\ UNCHANGED <<sent, env, store, history>>

---------------------------------------------------------------------------

Fetching(t) ==
  \/ \E m \in Msgs : FetchNext(t, m)
  \/ FetchGet(t) \/ FetchMiss(t) \/ FetchDrop(t) \/ FetchDropGone(t) \/ FetchEnd(t)

Purging == PurgeUnlink \/ PurgeErase \/ PurgeEnd \/ \E m \in Msgs : PurgeNext(m)

Next ==
  \/ \E u \in Users : SendUpload(u) \/ SendUploadFails(u) \/ DeleteAccount(u)
  \/ SendSave \/ SendSaveFails \/ SendUndo \/ SendContacts
  \/ PurgeList \/ Purging
  \/ \E m \in Msgs : SendAnswer(m) \/ Expire(m)
  \/ \E t \in Threads :
       \/ \E u \in Users : FetchList(t, u)
       \/ \E m \in Msgs : ConfirmRead(t, m)
       \/ Fetching(t) \/ ConfirmUnlink(t) \/ ConfirmErase(t)
  \/ \E p \in Procs : Abort(p)
  \/ Crash

Spec == Init /\ [][Next]_vars

\* A running handler goes on (threads are scheduled, the loop runs what is
\* ready) and the worker's sleep of 60 s ends.
Fairness ==
  /\ \A t \in Threads :
       WF_vars(Fetching(t)) /\ WF_vars(ConfirmUnlink(t) \/ ConfirmErase(t))
  /\ WF_vars(SendSave \/ SendUndo \/ SendContacts \/ Purging) /\ WF_vars(PurgeList)

---------------------------------------------------------------------------
(* Properties *)

\* The tables, the object store and the sessions hold what they may hold.
TypeOK ==
  /\ next \in 1..(MaxMsg + 1) /\ rcpt \in [Msgs -> Users \cup {Nobody}]
  /\ expired \subseteq Msgs /\ live \subseteq Users
  /\ row \in [Msgs -> {"none", "key", "inline"}] /\ blobs \subseteq Msgs
  /\ pc \in [Procs -> PCs] /\ item \in [Procs -> 0..MaxMsg]
  /\ \A p \in Procs : pc[p] \notin {"idle", "fetch", "purge"} => item[p] \in Msgs
  /\ todo \in [Procs -> SUBSET Msgs] /\ obj \in [Procs -> [Msgs -> Seen]]
  /\ publishing \subseteq Msgs
  /\ accepted \subseteq Msgs /\ acked \subseteq Msgs /\ exposed \subseteq Msgs

Intact(m) == row[m] = "key" /\ m \in blobs

\* The reasons the server has for letting a message go.
Released(m) == m \in acked \cup expired \cup exposed \/ rcpt[m] \notin live

\* A message the sender was told is stored can be read, until its recipient
\* confirms it, its time runs out, the recipient's account goes, or an inbox
\* request exposes it (it could not read the message's object, or one listed
\* after it): message_service.py loses mail in no other way, whatever fails.
Durable == \A m \in accepted : Intact(m) \/ Released(m)

\* An inbox response carries the content of every message in it: no object
\* that fetch_inbox filled and a commit expired is read back as a blob key.
ServedIsContent ==
  \A t \in Threads, m \in Msgs :
    /\ pc[t] \in {"fetch", "get", "drop"} /\ obj[t][m] = "expired"
    /\ m \notin todo[t] \cup {item[t]}
    => row[m] \in {"inline", "none"}

\* fetch_inbox leaves a listed message out of its response only when the
\* message was released meanwhile.
DroppedOnlyReleased ==
  \A t \in Threads, m \in Msgs : obj[t][m] = "dropped" => Released(m)

\* While nothing fails, a row that names an object has it, or a confirm or the
\* expiry worker is between the deletion of the object and that of the row.
RowsBacked ==
  Faults \/ \A m \in Msgs : row[m] = "key" =>
    m \in blobs \/ \E p \in Procs : item[p] = m /\ pc[p] \in {"erase", "purgeErase"}

\* While nothing fails, the store leaks no object: each is named by a row or
\* belongs to the send in progress.  The exceptions are the messages an inbox
\* request exposed and those of a deleted account.
BlobsOwned ==
  Faults \/ \A m \in blobs :
    \/ row[m] = "key"
    \/ pc[Loop] = "save" /\ item[Loop] = m
    \/ m \in exposed
    \/ rcpt[m] \notin live

\* A deleted message never comes back: the flush of an inbox request that read
\* it before the deletion must not write the row again.
NoResurrection ==
  [][\A m \in Msgs : row[m] = "none" /\ row'[m] # "none" =>
       /\ item[Loop] = m /\ pc[Loop] = "save"
       /\ m \notin accepted \cup acked \cup exposed]_vars

\* How far the life of a message has come, as StoredLife sees it.
Stage ==
  [m \in Msgs |-> IF m >= next \/ (pc[Loop] = "save" /\ item[Loop] = m) THEN "new"
                  ELSE IF row[m] = "none" THEN "gone"
                  ELSE IF Intact(m) THEN "whole" ELSE "spoilt"]
ReleasedSent == {m \in Msgs : m < next /\ Released(m)}
Life == INSTANCE StoredLife WITH
  Things <- Msgs, stage <- Stage, promised <- accepted, released <- ReleasedSent

\* Whatever overlaps or fails, a message is stored once, is whole until it is
\* released when its sender was told it is stored, and neither its content nor
\* its row comes back once an inbox request, a confirm, the expiry worker or a
\* failed send took it away.
LifeKept == Life!Spec

\* An expired message leaves the database: deletions, failures and crashes that
\* abort the worker's rounds do not keep it there for ever.
ExpiredPurged == \A m \in Msgs : (m \in expired /\ row[m] # "none") ~> row[m] = "none"

\* The comment in confirm_delivery: it deletes the object of the message found.
ConfirmDeletesBlob ==
  Faults \/ \A t \in Threads : pc[t] = "erase" => item[t] \notin blobs
=============================================================================
