---------------------------- MODULE KeyBundles ----------------------------
(***************************************************************************)
(* The key bundles of one user: rows of key_bundles, one per device that   *)
(* uploaded and one per upload with a recovery token that found none.      *)
(* Models services/key_service.py and repositories/key_repo.py, with the   *)
(* deletions of services/device_service.py and account_service.py.         *)
(*                                                                         *)
(* Handlers run on threads, each with its own session.  An upload is let   *)
(* in, reads the row, and commits the columns it changed without a lock; a *)
(* fetch takes a one-time prekey off the row under SELECT ... FOR UPDATE;  *)
(* a revocation or deletion locks the rows of its DELETE until it commits. *)
(* Every statement that reads or commits is an action (Postgres, READ      *)
(* COMMITTED).                                                             *)
(***************************************************************************)
EXTENDS Naturals, FiniteSets

CONSTANTS
  Threads,      (* worker threads that serve uploads and fetches           *)
  Closers,      (* threads that revoke a device or delete the account      *)
  Devices,      (* the user's devices                                      *)
  Recovery,     (* the device_id None of an upload with a recovery token   *)
  Identities,   (* identity keys                                           *)
  Prekeys,      (* generations of prekeys: signed, Kyber and one-time ones *)
  Size,         (* one-time prekeys in an upload                           *)
  MaxUpload,    (* bound: how many uploads happen                          *)
  NoRow, NoKey, (* no row; no one-time prekey                              *)
  Faults        (* TRUE: a request may die at any step                     *)

ASSUME KeyBundlesAssumption ==
  Recovery \notin Devices /\ Size \in Nat \ {0} /\ MaxUpload \in Nat /\ Faults \in BOOLEAN

Uploads == 1..MaxUpload
Bundle  == [dev : Devices \cup {Recovery}, ident : Identities, pre : Prekeys]

\* one_time_prekeys: the last `left` keys of the list of upload `batch`, key i
\* being the one with i - 1 keys behind it.  by is a history: the upload that
\* wrote the row last.
Row == [dev : Devices \cup {Recovery}, ident : Identities, pre : Prekeys,
        batch : Uploads, left : 0..Size, iv : Nat, bv : Nat, by : Uploads]

ASSUME NoneAssumption == NoRow \notin Row \cup Bundle /\ NoKey \notin Uploads \X (1..Size)

VARIABLES
  next,      (* the next upload                                            *)
  given,     (* what each upload was given: device, identity, prekeys      *)
  ids,       (* the next id of key_bundles: also the order of updated_at   *)
  rows,      (* key_bundles                                                *)
  active,    (* devices that are not revoked                               *)
  live,      (* the account exists                                         *)
  pc,        (* where each thread is                                       *)
  up,        (* the upload a thread serves                                 *)
  cur,       (* the id of the row it works on                              *)
  seen,      (* the row as its session loaded it                           *)
  snap,      (* the ids a fetch's query found                              *)
  got,       (* the one-time prekey a fetch took                           *)
  phase,     (* where each closer is                                       *)
  closes,    (* the device_ids whose rows it deletes                       *)
  doomed,    (* the ids its DELETE found, then those it holds deleted      *)
  served,    (* history: one-time prekeys taken, as <<batch, index>>       *)
  met,       (* history: uploads that overlapped another one               *)
  late,      (* history: uploads let in that had no row yet when a DELETE  *)
             (* of the rows of their device began, or let in before it was *)
             (* committed                                                  *)
  mixed      (* history: threads whose fetch overlapped an upload          *)

user    == <<active, live>>
table   == <<ids, rows>>
session == <<up, cur, seen, snap, got>>
closing == <<phase, closes, doomed>>
history == <<served, met, late>>
vars    == <<next, given, ids, rows, active, live, pc, up, cur, seen,
             snap, got, phase, closes, doomed, served, met, late, mixed>>

Init ==
  /\ next = 1 /\ given = [u \in Uploads |-> NoRow] /\ ids = 1
  /\ rows = [r \in Uploads |-> NoRow]
  /\ active = Devices /\ live = TRUE
  /\ pc = [t \in Threads |-> "idle"] /\ up = [t \in Threads |-> 0]
  /\ cur = [t \in Threads |-> 0] /\ seen = [t \in Threads |-> NoRow]
  /\ snap = [t \in Threads |-> {}] /\ got = [t \in Threads |-> NoKey]
  /\ phase = [c \in Closers |-> "idle"] /\ closes = [c \in Closers |-> {}]
  /\ doomed = [c \in Closers |-> {}]
  /\ served = {} /\ met = {} /\ late = {} /\ mixed = {}

---------------------------------------------------------------------------
Exists == {r \in Uploads : rows[r] # NoRow}
Latest(r, S) == r \in S /\ \A q \in S : q <= r

\* get_bundle_by_user_id: with device_id None, the latest row of any device.
\* Mutant: the filter on device_id compares with None.
RowsOfNone(d) == {r \in Exists : rows[r].dev = Recovery}
RowsOf(d) == {r \in Exists : d = Recovery \/ rows[r].dev = d}

\* A fetch holds the lock of its row from its SELECT to its commit, a closer
\* those of the rows it deleted.
Locked(r) ==
  \/ \E t \in Threads : pc[t] = "locked" /\ cur[t] = r
  \/ \E c \in Closers : phase[c] = "commit" /\ r \in doomed[c]

\* The device_ids whose rows are being deleted.
Closing == UNION {closes[c] : c \in Closers}

Uploading == {t \in Threads : pc[t] \in {"update", "insert", "create", "user"}}
Fetching == {t \in Threads : pc[t] \in {"fetch", "locked", "answer"}}
InFlight == {up[t] : t \in Uploading}

Goto(t, from, to) == pc[t] = from /\ pc' = [pc EXCEPT ![t] = to]

Finish(t) ==
  /\ pc' = [pc EXCEPT ![t] = "idle"] /\ up' = [up EXCEPT ![t] = 0]
  /\ cur' = [cur EXCEPT ![t] = 0] /\ seen' = [seen EXCEPT ![t] = NoRow]
  /\ snap' = [snap EXCEPT ![t] = {}] /\ got' = [got EXCEPT ![t] = NoKey]
  /\ mixed' = mixed \ {t}

\* A commit expires the object a session has loaded.
Expire(t) == seen' = [seen EXCEPT ![t] = NoRow]

---------------------------------------------------------------------------
(* upload_key_bundle *)

\* The request of an active device, or of a holder of a recovery token.
MayUpload(b) == live /\ b.dev \in active \cup {Recovery}

\* The request is let in; the handler runs later, on a thread of its own.
UploadCheck(t, b) ==
  /\ Goto(t, "idle", "read") /\ next \in Uploads
  /\ MayUpload(b)
  /\ next' = next + 1 /\ given' = [given EXCEPT ![next] = b]
  /\ up' = [up EXCEPT ![t] = next]
  /\ late' = late \cup {u \in {next} : b.dev \in Closing}
  /\ UNCHANGED <<table, user, cur, seen, snap, got, closing, served, met, mixed>>

UploadRead(t) ==
  /\ pc[t] = "read"
  /\ LET found == RowsOf(given[up[t]].dev) IN
       \/ /\ found = {} /\ pc' = [pc EXCEPT ![t] = "insert"]
          /\ UNCHANGED <<cur, seen>>
       \/ /\ pc' = [pc EXCEPT ![t] = "update"]
          /\ \E r \in found : /\ Latest(r, found)
                              /\ cur' = [cur EXCEPT ![t] = r]
                              /\ seen' = [seen EXCEPT ![t] = rows[r]]
  /\ met' = met \cup InFlight \cup {u \in {up[t]} : InFlight # {}}
  /\ mixed' = mixed \cup Fetching
  /\ UNCHANGED <<next, given, table, user, up, snap, got, closing, served, late>>

\* The values update_bundle assigns, computed from the row that was loaded.
\* Mutant: the version of the identity counts every upload.
AssignedEager(s, u) ==
  [dev |-> given[u].dev, ident |-> given[u].ident, pre |-> given[u].pre,
   iv |-> s.iv + 1, bv |-> s.bv + 1]
Assigned(s, u) ==
  [dev |-> given[u].dev, ident |-> given[u].ident, pre |-> given[u].pre,
   iv |-> IF s.ident = given[u].ident THEN s.iv ELSE s.iv + 1, bv |-> s.bv + 1]

\* The list is a text column, equal to the one loaded only when that is the
\* whole list of an earlier upload of the same prekeys.
SameList(s, u) == s.left = Size /\ given[s.batch].pre = given[u].pre

\* The UPDATE writes the columns whose value differs from the loaded one, to
\* the row as it is now.
Column(now, old, new) == IF new = old THEN now ELSE new

\* Mutant: changed prekeys keep the old list of one-time prekeys.
WrittenOldList(r, s, u) ==
  LET a == Assigned(s, u) IN
  [dev |-> Column(r.dev, s.dev, a.dev), ident |-> Column(r.ident, s.ident, a.ident),
   pre |-> Column(r.pre, s.pre, a.pre), batch |-> r.batch, left |-> r.left,
   iv |-> Column(r.iv, s.iv, a.iv), bv |-> Column(r.bv, s.bv, a.bv), by |-> u]
Written(r, s, u) ==
  LET a == Assigned(s, u) IN
  [dev |-> Column(r.dev, s.dev, a.dev), ident |-> Column(r.ident, s.ident, a.ident),
   pre |-> Column(r.pre, s.pre, a.pre),
   batch |-> IF SameList(s, u) THEN r.batch ELSE u,
   left |-> IF SameList(s, u) THEN r.left ELSE Size,
   iv |-> Column(r.iv, s.iv, a.iv), bv |-> Column(r.bv, s.bv, a.bv), by |-> u]

UploadUpdate(t) ==
  /\ Goto(t, "update", "user")
  /\ rows[cur[t]] # NoRow /\ ~Locked(cur[t])
  /\ rows' = [rows EXCEPT ![cur[t]] = Written(@, seen[t], up[t])]
  /\ Expire(t)
  /\ UNCHANGED <<next, given, ids, user, up, cur, snap, got, closing, history, mixed>>

\* The UPDATE matches no row: StaleDataError.
UploadGone(t) ==
  /\ pc[t] = "update" /\ rows[cur[t]] = NoRow
  /\ Finish(t)
  /\ UNCHANGED <<next, given, table, user, closing, history>>

\* create_bundle: updated_at and the id are taken, then the row is committed.
UploadInsert(t) ==
  /\ Goto(t, "insert", "create") /\ ids \in Uploads
  /\ cur' = [cur EXCEPT ![t] = ids] /\ ids' = ids + 1
  /\ UNCHANGED <<next, given, rows, user, up, seen, snap, got, closing, history, mixed>>

Created(u) == [dev |-> given[u].dev, ident |-> given[u].ident, pre |-> given[u].pre,
               batch |-> u, left |-> Size, iv |-> 1, bv |-> 1, by |-> u]

UploadCreate(t) ==
  /\ Goto(t, "create", "user")
  /\ rows' = [rows EXCEPT ![cur[t]] = Created(up[t])]
  /\ UNCHANGED <<next, given, ids, user, session, closing, history, mixed>>

\* refresh() raises when the row went meanwhile.  The second commit writes
\* identity_public_key of the user, which nothing reads.
UploadUser(t) ==
  /\ pc[t] = "user"
  /\ Finish(t)
  /\ UNCHANGED <<next, given, table, user, closing, history>>

---------------------------------------------------------------------------
(* fetch_key_bundle *)

\* The snapshot of the query.  A user without a bundle is a 404.
FetchRead(t) ==
  /\ Exists # {}
  /\ Goto(t, "idle", "fetch")
  /\ snap' = [snap EXCEPT ![t] = Exists]
  /\ mixed' = IF Uploading = {} THEN mixed ELSE mixed \cup {t}
  /\ UNCHANGED <<next, given, table, user, up, cur, seen, got, closing, served, met, late>>

\* The lock is taken on the latest of those rows that still exists, in its
\* current version.
\* Mutant: a fetch does not wait for the lock of another one.
FetchLockAnyway(t) ==
  /\ Goto(t, "fetch", "locked")
  /\ \E r \in Uploads :
       /\ Latest(r, snap[t] \cap Exists)
       /\ \A c \in Closers : phase[c] = "commit" => r \notin doomed[c]
       /\ cur' = [cur EXCEPT ![t] = r] /\ seen' = [seen EXCEPT ![t] = rows[r]]
  /\ snap' = [snap EXCEPT ![t] = {}]
  /\ UNCHANGED <<next, given, table, user, up, got, closing, history, mixed>>

FetchLock(t) ==
  /\ Goto(t, "fetch", "locked")
  /\ \E r \in Uploads :
       /\ Latest(r, snap[t] \cap Exists) /\ ~Locked(r)
       /\ cur' = [cur EXCEPT ![t] = r] /\ seen' = [seen EXCEPT ![t] = rows[r]]
  /\ snap' = [snap EXCEPT ![t] = {}]
  /\ UNCHANGED <<next, given, table, user, up, got, closing, history, mixed>>

FetchNone(t) ==
  /\ pc[t] = "fetch" /\ snap[t] \cap Exists = {}
  /\ Finish(t)
  /\ UNCHANGED <<next, given, table, user, closing, history>>

\* The first key of the list is taken and the rest of it is written back.
Pop(t) ==
  /\ got' = [got EXCEPT ![t] = <<seen[t].batch, seen[t].left>>]
  /\ served' = served \cup {<<seen[t].batch, seen[t].left>>}
  /\ rows' = [rows EXCEPT ![cur[t]].batch = seen[t].batch,
                          ![cur[t]].left = seen[t].left - 1]

FetchCommit(t) ==
  /\ Goto(t, "locked", "answer")
  /\ \/ seen[t].left = 0 /\ UNCHANGED <<rows, got, served>>
     \/ seen[t].left > 0 /\ Pop(t)
  /\ Expire(t)
  /\ UNCHANGED <<next, given, ids, user, up, cur, snap, closing, met, late, mixed>>

\* The answer loads the committed object again (a 500 when it is gone).
FetchAnswer(t) ==
  /\ pc[t] = "answer"
  /\ Finish(t)
  /\ UNCHANGED <<next, given, table, user, closing, history>>

---------------------------------------------------------------------------
(* The rest of the system *)

\* revoke_device deletes the rows of one device, delete_account all of them.
Closable == {{d} : d \in Devices} \cup {Devices \cup {Recovery}}

\* The DELETE begins: it finds the rows that are there.
CloseStart(c, D) ==
  /\ live /\ phase[c] = "idle" /\ phase' = [phase EXCEPT ![c] = "delete"]
  /\ closes' = [closes EXCEPT ![c] = D]
  /\ doomed' = [doomed EXCEPT ![c] = {r \in Exists : rows[r].dev \in D}]
  /\ late' = late \cup {up[t] : t \in {q \in Threads :
                 pc[q] \in {"read", "insert", "create"} /\ given[up[q]].dev \in D}}
  /\ UNCHANGED <<next, given, table, user, pc, session, served, met, mixed>>

\* It has the locks of those that are still there and still match.
CloseDelete(c) ==
  /\ phase[c] = "delete" /\ phase' = [phase EXCEPT ![c] = "commit"]
  /\ LET mine == {r \in doomed[c] \cap Exists : rows[r].dev \in closes[c]} IN
       /\ \A r \in mine : ~Locked(r)
       /\ doomed' = [doomed EXCEPT ![c] = mine]
  /\ UNCHANGED <<next, given, table, user, pc, session, closes, history, mixed>>

CloseEnd(c) ==
  /\ phase' = [phase EXCEPT ![c] = "idle"]
  /\ closes' = [closes EXCEPT ![c] = {}] /\ doomed' = [doomed EXCEPT ![c] = {}]

\* Mutant: the rows of the revoked device stay.
DropNone(gone) == UNCHANGED rows
Drop(gone) == rows' = [r \in Uploads |-> IF r \in gone THEN NoRow ELSE rows[r]]

\* The commit marks the device as revoked, or deletes the devices and the user.
CloseCommit(c) ==
  /\ phase[c] = "commit" /\ CloseEnd(c)
  /\ live \/ Recovery \in closes[c]
  /\ Drop(doomed[c]) /\ active' = active \ closes[c]
  /\ live' = (live /\ Recovery \notin closes[c])
  /\ UNCHANGED <<next, given, ids, pc, session, history, mixed>>

\* It dies, or finds the device gone with the account: the rows are there again.
CloseFails(c) ==
  /\ phase[c] # "idle" /\ CloseEnd(c)
  /\ Faults \/ ~live
  /\ UNCHANGED <<next, given, table, user, pc, session, history, mixed>>

\* A login on the device makes it active again.
LoginDevice(d) ==
  /\ live /\ d \notin active /\ active' = active \cup {d}
  /\ UNCHANGED <<next, given, table, live, pc, session, closing, history, mixed>>

\* The request dies: the server stops or a database call raises.
Abort(t) ==
  /\ Faults /\ pc[t] # "idle"
  /\ Finish(t)
  /\ UNCHANGED <<next, given, table, user, closing, history>>

Next ==
  \/ \E t \in Threads :
       \/ \E b \in Bundle : UploadCheck(t, b)
       \/ UploadRead(t) \/ UploadUpdate(t) \/ UploadGone(t)
       \/ UploadInsert(t) \/ UploadCreate(t) \/ UploadUser(t)
       \/ FetchRead(t) \/ FetchLock(t) \/ FetchNone(t)
       \/ FetchCommit(t) \/ FetchAnswer(t) \/ Abort(t)
  \/ \E c \in Closers :
       \/ \E D \in Closable : CloseStart(c, D)
       \/ CloseDelete(c) \/ CloseCommit(c) \/ CloseFails(c)
  \/ \E d \in Devices : LoginDevice(d)

Spec == Init /\ [][Next]_vars

---------------------------------------------------------------------------
(* Properties *)

\* The rows, the sessions and the histories hold what they may hold.
TypeOK ==
  /\ next \in 1..(MaxUpload + 1) /\ given \in [Uploads -> Bundle \cup {NoRow}]
  /\ ids \in 1..(MaxUpload + 1) /\ rows \in [Uploads -> Row \cup {NoRow}]
  /\ active \subseteq Devices /\ live \in BOOLEAN
  /\ pc \in [Threads -> {"idle", "read", "update", "insert", "create", "user",
                     "fetch", "locked", "answer"}]
  /\ up \in [Threads -> 0..MaxUpload] /\ cur \in [Threads -> 0..MaxUpload]
  /\ seen \in [Threads -> Row \cup {NoRow}] /\ snap \in [Threads -> SUBSET Uploads]
  /\ got \in [Threads -> (Uploads \X (1..Size)) \cup {NoKey}]
  /\ phase \in [Closers -> {"idle", "delete", "commit"}]
  /\ closes \in [Closers -> Closable \cup {{}}] /\ doomed \in [Closers -> SUBSET Uploads]
  /\ served \subseteq Uploads \X (1..Size) /\ met \subseteq Uploads
  /\ late \subseteq Uploads /\ mixed \subseteq Threads

\* The keys of a list that can still be handed out.
Remaining(r) == {rows[r].batch} \X (1..rows[r].left)

\* Every key of a row's list is either still in it or was handed out: two
\* fetches of one bundle take different keys and lose none.
PoolAccounted ==
  \A r \in Exists :
    Remaining(r) = ({rows[r].batch} \X (1..Size)) \ served

\* The key service hands out one-time prekeys as OneTimeKeys says, whatever
\* uploads, fetches, revocations and failures overlap.
Pool == INSTANCE OneTimeKeys WITH
  Batches <- Uploads, pool <- UNION {Remaining(r) : r \in Exists}, used <- served
KeysOnce == Pool!Spec

\* The row holds the bundle that upload u was given, and a list of its keys.
Holds(r, u) ==
  /\ [dev |-> rows[r].dev, ident |-> rows[r].ident, pre |-> rows[r].pre] = given[u]
  /\ given[rows[r].batch].pre = given[u].pre

\* A row is the bundle of the upload that wrote it last, never a mix of the
\* columns of two, unless that upload overlapped another.
TornNeedsOverlap ==
  \A r \in Exists : Holds(r, rows[r].by) \/ rows[r].by \in met

\* The bundle of a revoked device or of a deleted account is gone, unless its
\* upload was let in before the commit and had no row yet when the DELETE began:
\* one that had found its row is undone by the DELETE or finds the row gone.
RevokedGone ==
  \A r \in Exists :
    (rows[r].dev \notin active \cup {Recovery} \/ ~live) => rows[r].by \in late

\* A device has one row, unless two uploads overlapped.
OneRowPerDevice ==
  \A r, q \in Exists :
    r # q /\ rows[r].dev = rows[q].dev /\ rows[r].dev # Recovery =>
      rows[r].by \in met \/ rows[q].by \in met

\* The response of a fetch loads the row again after it took the key: the key
\* belongs to the prekeys it is sent with unless an upload overlapped.
AnswerWhole ==
  \A t \in Threads :
    /\ pc[t] = "answer" /\ got[t] # NoKey /\ rows[cur[t]] # NoRow
    /\ t \notin mixed /\ rows[cur[t]].by \notin met
    => given[got[t][1]].pre = rows[cur[t]].pre

\* Every upload to a row that overlaps no other moves bundle_version on by one,
\* and identity_version exactly when the identity key changes.
VersionsCount ==
  [][\A r \in Exists :
       rows'[r] # NoRow /\ rows'[r].by # rows[r].by /\ rows'[r].by \notin met =>
         /\ rows'[r].bv = rows[r].bv + 1
         /\ rows'[r].iv = rows[r].iv + (IF rows'[r].ident = rows[r].ident THEN 0 ELSE 1)]_vars
=============================================================================
