# Fortrx-Server in TLA+

Fortrx-Server is the server of an end-to-end encrypted messenger: a FastAPI
application (`src/app`) over Postgres, Redis and an S3 store. This directory
holds TLA+ modules of its parts, TLC configurations that check them on small
instances, and TLAPS proofs, for every value of the constants, of the safety properties
of its message store, key service, sessions, device linking, accounts, events, presence,
attachments, double ratchet and backups.
`PROJECT.json` is the index: the components, the runs, the lines each definition
models, the hazards the properties are for, the findings and the theorems.

## 1. The system

One uvicorn process (`src/start.sh`) serves everything. A handler declared
`async def` runs on the event loop and keeps it until its first `await`; every
database and S3 call of such a handler is synchronous and therefore blocks the
loop. A handler declared `def` runs on a thread of a pool. Each request has a
SQLAlchemy session of its own (`get_db`, `autoflush=False`), Postgres runs READ
COMMITTED, and except for one `SELECT ... FOR UPDATE` nothing is locked between a
read and the write that depends on it. Postgres, Redis and S3 share no
transaction. These four facts are where most hazards come from; the rest come from
the scripts of `ops/host`, which cron and the operator run beside the server.

| component | state | operations | talks to | module |
|---|---|---|---|---|
| message store | `messages` rows, S3 objects `messages/...` | send, inbox, confirm, expiry worker, account deletion | Redis (publish), contacts | `Mailbox`, `StoredLife` |
| key bundles | `key_bundles` rows, `users.identity_public_key` | upload, fetch (takes a one-time prekey), login, device revocation, account deletion | devices | `KeyBundles`, `OneTimeKeys` |
| sessions and devices | `devices`, `refresh_tokens` | login, rotate, logout, logout-all, revoke device | every authenticated request | `Sessions` |
| device linking | `pairing_codes`, `action_tokens`, `devices` | link/start, link/complete, login, rotation, revocation, account deletion | sessions | `Linking` |
| account recovery | `users.backup_code_*`, `users.hashed_password` | register a code, try it, lock, unlock; reset the password; check it at a login | action tokens, login | `Recovery` |
| users, reauthentication | `users`, `action_tokens` | register, look up by name, reauthenticate, spend the token on logging out or deleting the account | account recovery | `Accounts` |
| events | a capped Redis stream per user, a cursor per WebSocket | publish, XREAD, send, sync hint | message store, presence | `EventStream`, `Delivery` |
| presence | a key with a time to live per session, a set of sessions per user | connect, heartbeat, disconnect, ask | WebSockets, events, contacts | `Presence` |
| attachments | `attachments` rows, S3 objects | upload, download, ack, delete, expiry worker, account deletion | the same expiry worker | `Attachments`, `StoredLife` |
| key agreement, ratchet | `RatchetState` of each party | X3DH, encrypt, decrypt, DH ratchet step | the message store carries its messages | `Ratchet` |
| start, schema | the schema and its Alembic revision | migrate, create tables, add columns, create the bucket; die and start again | every table | `Startup` |
| operations | the restic repository, the place of each script | backup, restore, drain | database, object volume, the server's container | `Operations` |

What is hard in this code:

- **interleaving**: handlers on threads read rows, decide, and commit later;
  every await of a presence handler lets others in;
- **stale state**: a SQLAlchemy session keeps what it loaded, expires it at a
  commit, writes back the columns that changed, and raises when a row it
  updates is gone;
- **partial failure and crashes**: an object is deleted before its row, or stored
  before it; a commit may fail after it took effect;
- **ordering and delivery**: a stream that is trimmed, a cursor that starts at
  `$`, a mailbox that hands a message out again;
- **something must happen**: expired rows must go, although one deleted row
  aborts a whole round of the expiry worker; a server whose start died must serve
  in the end;
- **operations beside a running system**: a backup copies the database and then the
  objects while requests go on, and nothing keeps it from overlapping a restore.

## 2. The modules

In every module a variable stands for a table, a Redis structure, an object
store or the local state of a handler; an action is a stretch of a handler that
nothing else can see the middle of: up to its next database statement, storage
call, commit or await. `pc[t]` names the point a handler has reached. `Faults`
(or `MaxFault`) turns on the steps in which calls fail, requests die and the
server stops. Variables marked "history" exist only to state properties; no
guard reads them. Definitions marked "Mutant" are plausible mistakes in
the definition that follows them; no specification uses them.

**Mailbox** (`message_service.py`, `message_repo.py`, the worker of `main.py`,
`delete_account`). `row[m]` is "key" while `sealed_blob` holds the key of an S3
object. `fetch_inbox` assigns the content it downloaded to that mapped column,
and a later commit of the same session (`delete_message` of another row, whose
object was missing) flushes it: the row is then "inline". The session is modelled
as it behaves: `obj[p][m]` says what process p holds of row m (loaded, filled,
expired by a commit, dropped from the response). `send_message` and the expiry
worker run on the event loop, one process `Loop`; everything else runs on
`Threads`. `MCMailbox` adds a history of overlapping requests. `MCMailboxFaults`
adds a budget: a step that `Mailbox` without faults would not take costs one. The
proofs need no budget, and the liveness properties need faults to end.

**StoredLife** is the abstract specification of what the server promises about what it
stores: a thing is stored once (`Store`), its sender is told so then or later (`Promise`),
and the store lets go of things (`LetGo`): some are released, some lose their content,
some go, and of those promised only released ones. `Mailbox` and `Attachments` implement
it (`LifeKept`) by one mapping: a thing is "new" until its row is saved, "whole" while it
has row and object, "spoilt" while it has the row only (or the row was inlined), then "gone";
promised are those whose sender has a success response. Released are, in `Mailbox`, messages
that were confirmed, expired, exposed or lost their account, and in `Attachments` those
acknowledged, expired, or of an account whose deletion began.

**KeyBundles** (`key_service.py`, `key_repo.py`). An upload is let in by the check of its
device (`UploadCheck`), and reads on a thread only later (`UploadRead`), without a lock; it
writes the columns that changed. Fetches lock the latest row. A revocation and the deletion
of the account run on threads of their own (`Closers`): the DELETE begins and finds the rows
that are there (`CloseStart`), has their locks (`CloseDelete`), and commits (`CloseCommit`) or
is undone (`CloseFails`); an upload let in before the commit may insert a row at any
of these points, and the history `late` names the uploads that do. A list of one-time
prekeys is an upload's number and how many are left. **OneTimeKeys** is the
abstract specification: lists are published, withdrawn, and each key is handed
out once. The mapping takes the keys left in all rows for the pool and the
keys fetches took for the used ones.

**Sessions** (`auth_service.py`, `device_service.py`). Reads and commits of
login, rotation, logout and revocation are separate; the two writes of
`revoke_device` before its commit hold their row locks.

**Linking** (`device_service.py`, `auth_service.py`). `link/start` has two transactions,
`link/complete` one that spends token and code and inserts the device, and a second
one that issues its tokens. A login that names the device (`LoginRead`) and a rotation of
its token (`RotateRead`) end in that second one too, `issue_login_tokens`, which makes a
device it saw as revoked active again. A revocation holds the rows of the tokens it
revoked until its commit (`hit`). The history `revoked` ends with a login that names the
device; `crossed` names the devices whose last revocation ran beside a request that was to
issue their tokens.

**Recovery** (`account_service.py`, `verify_user_password`). The code is compared
between the read of the user and the commit, so failures are counted from a value
that may be stale. The same goes for the password: a login that finds it right
under a hash of an old kind writes a fresh hash of it, whatever a reset has set
since. `row.pass` is the password the stored hash is of, `row.old` says that the hash
is of the old kind; accounts start with either.

**Accounts** (`register_user`, `user_repo.py`, `create_reauth_token`,
`consume_reauth_header`) extends `Recovery`: the same threads also register names,
issue reauthentication tokens to a request whose password passed, and spend them.
A name is a record: whether it has a capital, whether blanks surround it. These are
the two respects in which the lookup (`strip`, `lower`), the check before an
INSERT and the unique index differ.

**EventStream** (`pubsub.py`, `connection_manager.py`, `ws.py`). Each XREAD
resolves `$` anew until the first event was received; Redis may evict the stream.
**Delivery** extends it with the sends of `send_message` and the clients: a row is
saved, then its hint is published among the presence events or lost, and a client
fetches its inbox after it connected and after each hint.

**Presence** (`presence_service.py`). Every Redis call is a step; a key may time
out at any moment, of which no contact is told (`Lapse`, with the history `lapsed`); a
disconnect cancels the heartbeat it interrupts.

**Attachments** (`attachment_service.py`). Objects are stored before rows and
deleted before them; unlike in `Mailbox`, a deletion of a missing row is
only a warning of SQLAlchemy. Upload and worker hold the loop.

**Ratchet** (`x3dh.py`, `ratchet.py`). A key is a symbol: the sequence of
Diffie-Hellman results it was derived from. The mailbox between the parties loses,
repeats and reorders.

**Startup** (`start.sh`, `run.py`, `alembic/`, `database.py`, the lifespan of
`main.py`). The schema is a revision and a set of parts: the tables and columns by
which the two revisions, `create_all` and the `ensure_` functions differ. Postgres
runs DDL in transactions, so every step happens whole or not at all.

**Operations** (`ops/host/*.sh`) extends it with the data: rows and objects of
messages, the requests between an object and its row (a send whose commit raises, with or
without effect, deletes the object again: `SaveFails`, `Undo`), a backup that dumps and then
archives object by object, and a restore or a drain, command by command. Every
command may fail and end its script.

Modules that extend another share its variables: `Accounts` and `Recovery`,
`Delivery` and `EventStream`, `Operations` and `Startup`. The others meet in the
account and in the device row, and each has the deletion of the account and the
revocation of the device as its own actions.

## 3. The runs

Each run answers one question. The runs of modules with proofs
use the specification the proofs are about: as it is (`keys`, `sessions`, `linking`,
`recovery`, `presence`, `ratchet`), with fairness added (`operations`, `events`,
`attachments`), with a history variable added (`mailbox_safe`, `mailbox_confirm_comment`;
`LossOverlaps` is proved of that specification), or with a budget of faults and fairness
(`mailbox_faults`). Deadlock is checked in `events` and `operations`, where
connections, presence and the container can always go on; elsewhere, once the
bounded ids are used up and nothing is pending, the bounded system rests.

| run | instance | checks |
|---|---|---|
| `mailbox_faults` | 1 thread and the loop, 1 user, 2 messages, 1 fault, fairness | `Durable`, `ExpiredPurged`, `ConfirmRemoves` |
| `mailbox_safe` | 2 threads and the loop, 2 users, 2 messages, no faults | `ServedIsContent`, `RowsBacked`, `BlobsOwned`, `LossNeedsOverlap`, `LifeKept` |
| `mailbox_confirm_comment` | as `mailbox_safe` with 1 user | violates `ConfirmDeletesBlob` (see 5) |
| `keys` | 2 threads, 1 closer, 1 device and the recovery token, 2 identities, 2 prekeys, lists of 2, 2 uploads, requests die | `PoolAccounted`, `TornNeedsOverlap`, `RevokedGone`, `OneRowPerDevice`, `AnswerWhole`, `KeysOnce`, `VersionsCount` |
| `sessions` | 2 threads, 2 devices, 3 tokens | `RotatedOnce`, `ValidIsUsable` |
| `events` | `Delivery`: 1 connection that opens again and again, 2 messages, a stream of 2, reads of 2, 5 events, fairness | `InOrder`, `Learns`, `Delivered` |
| `presence` | 2 sessions, 1 request of a contact at a time | `ListedUnlessRaced`, `TruthTold`, `ClosedLeavesNothing` |
| `attachments` | 2 threads and the loop, 1 user, 2 files, 1 fault, fairness of the loop | `LifeKept`, `LeaksNeedFault`, `AccountLeavesNothing`, `ExpiredPurged` |
| `linking` | 2 threads, 2 links, 2 devices, requests die | `LinkedOnce`, `SpentForDevice`, `RevocationHolds` |
| `recovery` | `Accounts`: 2 threads, limit 2, 2 codes, 3 wrong tries, 2 passwords, 3 forms of a name, 1 reauthentication token | `TriesLimited`, `ResetHolds`, `FoundByName`, `ReauthOnce`, `TokenForCurrentCode` |
| `ratchet` | 5 messages, 11 key pairs | `FailsOnlyBehindLoss`, `KeysFresh` |
| `operations` | databases of 6 ages, 1 message, 1 snapshot, 2 faults, fairness of the start | `RestoreServes`, `DrainHolds`, `Served` |

What they show, in short:

- *Messages.* Whatever fails, an accepted message stays readable until it is
  confirmed, expires, its account goes, or an inbox request *exposes* it, that is,
  could not read its object or one listed after it. When nothing fails, exposure
  takes two requests (or a request and the worker) that overlap on one inbox.
  No inbox response contains a blob key in place of content, and neither a row nor its
  content comes back once it is gone: the store implements `StoredLife`.
- *Keys.* One-time prekeys are handed out once whatever overlaps. Rows that mix the
  columns of two uploads and second rows of a device come only from uploads that overlapped
  (`met`). A revocation or the deletion of the account leaves no bundle but those of uploads
  that were let in before it committed and had no row yet when its DELETE began (`late`);
  an upload that had found its row by then leaves none, whichever of the two comes first.
- *Sessions, linking, recovery.* A refresh token, a pairing token and a code are
  exchanged once, and at most `Limit` wrong codes are compared, except when
  requests overlap between one's read and its commit; the histories `twice`,
  `met`, `metCode` and `raced` record exactly those overlaps. A password that was
  reset stays, unless a login against an old hash was being checked when the reset
  committed: that login puts the old password back (`overtaken`). What is logged out
  stays so, except for requests that were running at the time. A device that is revoked
  stays revoked, without a token that works, until a login names it: this needs no
  overlap, for a password is enough to make it active again. Before that login only a request
  to issue its tokens that ran beside the revocation can leave it otherwise (`crossed`).
- *Users.* An account is found by its name, and only registrations that overlap make
  two accounts for one name. A name with blanks around it is stored with them and
  never found. A reauthentication token admits one request, or two that both held it
  as unused.
- *Events.* In order, never twice, nothing left out but what was trimmed or evicted.
  A connected client knows of every stored message or is about to; what keeps one from
  it is a hint that was not published, one that was trimmed or evicted, and the gap
  between two XREADs before the first event of a connection.
- *Presence.* While handlers take turns, contacts never hold a present user for offline,
  and hold an absent one for online only after a key timed out, of which nobody is told
  (until the next session comes or leaves). A session can only drop off the list by a race
  with another handler's cleanup, and a closed one leaves nothing in Redis.
- *Attachments.* No fault loses an attachment, and none comes back: the store implements
  `StoredLife`; leaks need a fault that hit that
  attachment; an upload saved after the deletion of the account listed its
  attachments can leave a row.
- *Ratchet.* There is no store of skipped keys: a message that never arrives costs
  the rest of its sending chain and nothing more. No encryption key is used twice within a
  conversation. Between conversations that is not so, and not modelled: the sending chain a
  receiver starts with is 32 zero bytes in each of them (`ratchet.py:61`).
- *Operations.* Dumping before archiving is the right order: a snapshot lacks only
  objects of messages the server was to remove or had refused. That fails for a backup that
  overlaps a restore or a drain. A drain is final unless a server went on through
  it, and a database that can be migrated is served however often its start dies.

A property of the form "unless they overlapped" is not weak: it fails as soon as
a sequential execution, or an overlap of other requests than the named
ones, breaks the rule. Each property of a passing run has a mutant in
`PROJECT.json` that breaks it.

**Bounds.** Two threads give every pairwise interleaving of handlers of one user;
the conflicts in this code are between two requests (a read, the other's commit, the
write), and the loop is a third process where it matters. Two messages or files are
needed, and suffice, for one row's commit to flush another's; `LossNeedsOverlap`
needs a second recipient to be a real claim. Two uploads make a torn row, a
second row of a device and a reused list possible; the closer of `keys` revokes and
deletes any number of times, beside both uploads. Two devices let one link's device be
revoked beside the other's, and logins and rotations bring it back. Three tokens let one be
rotated twice. In `events` a stream of 2 with reads of 2 and 5 events trims under a
slow reader, and two messages let hints overtake each other. In `recovery` 3 tries pass a limit of 2 (the code's 10 only repeats
the counting), and two passwords tell the one reset from the one a login brings. In `ratchet` 5 messages give each party two sending chains with a loss
in the middle of one. In `operations` one message meets a backup, a restore and a drain at every one of
its steps; `SnapshotsWhole` and `DrainFinal` (see 4) cover more of each. One fault in
`mailbox_faults` is enough to abort any handler at any step; `Durability` covers any number.
Three forms of a name (plain, with a capital, with blanks) are those that the two
comparisons tell apart. `sessions` was also run with dying requests; it passed and
is left out for its time. The type invariants of all modules hold of the same
instances; where a module has proofs its type invariant is proved, and the runs check
what can more easily be wrong. Symmetry
is used in runs without liveness, over sets whose members are interchangeable.

**Fairness.** `Mailbox`: weak fairness of each running inbox or confirm handler
(a thread that runs keeps running), of the loop's handlers, including the clean-up of
a send whose commit failed, and of the start of the expiry worker's rounds (its
60-second sleep ends). A round may be aborted by a row that vanished or by a fault,
and so may a request; nothing assumes that one succeeds. `Attachments`: weak
fairness of what runs on the loop and of the start of a round; that the message half of
a round does not raise in every round for ever is assumed here, for it runs first.
`Delivery`: weak fairness of reading and sending of an open connection, the tasks that
`ws.py` starts. `Operations`: weak fairness of the steps of a start, as
`restart: unless-stopped` has Docker repeat them; no operator has to do anything. No fairness
of clients anywhere.

## 4. The proofs

The theorems hold for any sets of threads, users, devices, keys, messages, names and
databases, any bounds, with and without faults. They assume only the `ASSUME`s of
the modules: special values differ from members of the sets they extend, bounds
are natural numbers, and the limit of wrong codes is not 0. TLC evaluates them
in every run.

`MailboxProofs`
- `TypeCorrect`: `Spec => []TypeOK`; `TypeOK` is inductive as it stands.
- `Durability`: `Durable` is not inductive, since a step that deletes an object or
  a row knows only from its own state that the message was released. `DurableInv`
  adds what the send in progress has stored (`Sending`), that confirms and the worker
  delete only what was confirmed or expired, and that the worker never has a column
  to flush (`Deleting`).
- `InboxContent`, `InboxComplete`, `RowsStayDeleted` rest on `SessionInv`: ids not
  given out yet are unknown to every session (`FreshIds`), a row that vanishes under
  a session was released (`KnownRows`), and what is loaded but not filled is still to
  be visited (`Visited`).
- `RowsHaveObjects` (`RowsBacked`) and `ObjectsHaveRows` (`BlobsOwned`) rest on `StoreInv`,
  which adds that a deletion in progress removed the object first, unless the row was
  inlined (`Unlinking`).
- `LossOverlaps`: `MCSpec => []LossNeedsOverlap`. `LossInv` adds that a session holds the
  messages of one inbox (`OneInbox`) and that a row about to be dropped has gone already
  or is of an inbox where requests overlapped (`Dropping`): its object is missing only
  while another request deletes the row, as `RowsBacked` says.
- `LifeRefines`: `Spec => LifeKept`, and `PromiseKept`: `StoredLife`'s own invariant holds of
  `Mailbox`. The stage of one message (`StageOf`) moves only forward, and what moves on was
  released or never promised (`Going`); a step in which every message stays or goes so is
  `LetGo` (`LetsGo`). It needs `SavedBlob`: the object of a send in progress is there when
  its row is saved.

`KeysProofs`, about `KeyBundles`
- `TypeCorrect`: `TypeInv` adds to the types that a handler has what it needs
  where it is (`Working`), that the row a fetch locked is as it read it and locked by no other
  (`Locks`), and that the row of a first upload is not there yet (`Fresh`).
- `KeysAccounted`, `NeverReused`: `KeyInv` adds that no two rows hold one list and
  that the list of an upload that has not written it is in no row and was never
  handed out from (`Lists`), and counts each key (`Counted`).
- `KeysRefine`: `Spec => KeysOnce`. Each action publishes (`Published`), withdraws
  (`Withdrawn`), hands out (`HandedOut`) or stutters (`Stutters`).
- `RowsWhole`, `RevokedRowsGone`, `DeviceHasOneRow`, `AnswersWhole`, `VersionsCounted`
  rest on `RowInv`. An upload that is not in `met` is the only one in flight (`Alone`)
  and finds the row it read, still the latest of its device (`Pending`), so it writes a
  whole bundle (`WrittenWhole`, `Intact`); of two rows of a device the older one is of an
  upload that overlapped (`Single`), since a first upload that was overtaken is in `met`
  as well as the one that overtook it; a fetch not in `mixed` runs while no upload does
  (`Answering`). For `RevokedGone`, `Late` says of every row that is being deleted without
  the DELETE having found it, or is there although its device was closed (`Spared`), that its
  upload is in `late` (`Swept`), and of every upload that is to write such a row that it is
  already (`Entering`, `Found`): what a DELETE found it holds until its commit, so only what
  it did not find can stay.

and about `Ratchet`
- `RatchetInvariant`, and from it `MessageKeysFresh` (`KeysFresh`) and `LossBounded`
  (`FailsOnlyBehindLoss`). `KeysOwned` says that a key pair is used by one party and names
  one sending chain, so no two messages share a key. That a message fails only behind a
  lost one needs `Numbered` (messages of a chain are numbered without gaps in the order they
  were sent, and the newest chain comes last) and, until the mailbox repeats or reorders
  something, `InOrder`: one party is always ahead, with the root the other one derives when
  its message arrives (`Ahead`), and a receiving chain stands at the first message not
  taken unless one was lost (`InStep`).

`OperationsProofs`
- `TypeCorrect`, `SnapshotsWhole`, `DrainFinal` rest on one invariant. `RestoreServes`
  is not inductive: the snapshot that a backup saves was dumped some steps ago, so
  `WholeBackup` says that the object of a dumped row is archived, released, or still
  there and ahead of tar; `Whole` says the same of the running stack and of uploads
  in progress; `Replacing` says how much of its snapshot a restore has put back.
  `DrainHolds` needs `Gone` (what was drained is in no request in progress and in no snapshot a
  restore has begun to load) and `Halted` (requests run only while the server
  serves, and a drain that stopped it keeps it stopped).

`SessionsProofs`
- `TypeCorrect`, `ExchangedOnce`, `ValidUsable` rest on one invariant. A token is
  exchanged once because a token that was replaced is not valid, and because whoever
  still holds it held it beside the one who replaced it (`Replaced`, with `Fresh` for
  the order in which tokens are issued). A valid token is usable because what a request
  read of its device is so still, or the device was closed under it (`Steady`), and
  because a revocation between its two writes has found every valid token but those
  issued meanwhile (`Found`).

`LinkingProofs`
- `TypeCorrect`, `OneDevice`, `UsedForDevice`, `StaysRevoked` rest on one invariant.
  `Working` says what a request has at each of its points, and that its device is its
  own; `Overlaps` carries `LinkedOnce` back to requests that have not made their
  device yet. `RevocationHolds` needs `Pending` (a revocation that ran beside no issuing
  request has left no valid token and nobody to issue one) and `Closed` (nor is there anybody
  after it, until a login names the device).

`AccountsProofs`, about `Recovery` and `Accounts`
- `TriesCounted` needs `Counting`: unless requests overlapped, the row counts the
  tries, is locked at the limit, and is as the only one who works on it loaded it.
  `ResetKept` needs `Setting` (a login checks against the password last set),
  `TokenCurrent` needs `Checking` (who compared a code did so with the one registered),
  `AdmitsOnce` needs `Spending` (who still holds a marked token held it beside the
  request it admitted), and `NameFound` needs `Naming` (the same of two accounts for
  one name as of the registrations still to commit).

`EventsProofs`, about `EventStream` and `Delivery`
- `EventsInOrder`: `InOrder` follows from what each step can preserve: a batch is events
  in a row up to the last event id (`Batches`), it follows what was sent (`Ordered`), and
  who is blocked has been given all there is (`Waiting`). `ClientsLearn` is inductive
  with these: `ComingKept` and `HintKept` follow one hint through the stream, the batch
  and the connection.

and about `Presence`
- `PresenceTypeCorrect`, `SessionsListed`, `SessionsCleared` rest on `PresenceInv`: what a
  handler keeps belongs to where it is (`Places`), a handler in `_active_sessions` holds every
  session that came up before it looked (`Held`), and a closing session takes its key and its
  entry away one after the other (`Leaving`).
- `ContactsTold` (`TruthTold`) needs `CalmInv`: while handlers take turns at most one is busy
  (`Turns`), what it found is what is there (`Found`), and what the contact believes fits, but
  for what that handler is about to tell (`News`).

`AttachmentsProofs`
- `Durability`, `LeaksAreFaults`, `AccountErased` rest on one invariant: only what was
  released is deleted, the object before the row (`Unlinking`), nobody deletes what is
  being saved (`Saving`), and a deletion of an account holds all rows of the user
  but those saved late (`Listed`).
- `LifeRefines`: `Spec => LifeKept`, argued as for `Mailbox`; besides the invariant it needs
  that the upload in progress is of one attachment nobody was told of (`Unanswered`).

Only model-checked: the liveness properties `ExpiredPurged` (of messages and of
attachments), `ConfirmRemoves`, `Delivered` and `Served`, for the prover has neither fairness
nor ENABLED. Every invariant and every action property of the passing runs is proved.

## 5. Findings

`mailbox_confirm_comment`: the comment in `confirm_delivery`
(`src/app/services/message_service.py:82`) says the blob of the message is deleted.
The model reaches a confirm that deletes none: an inbox request wrote the content
over the key in `sealed_blob`, because `fetch_inbox` assigns it to the mapped column and
another row's deletion commits the session. The object stays in S3. No storage
fault is needed, only an inbox request that overlaps a confirm.

Read in the code while modelling, and built into the models, but with no run of
their own:

- `ops/host/drain-stack.sh:163-217`: the program that counts snapshots comes to
  `python3` as a here-document, which replaces the piped list as its standard input.
  With a readable repository the report ends the drain; with an unreadable one it counts
  none. So no drain that completes has forgotten a snapshot (`DrainBegin`).
- The drain leaves the rows and objects of attachments, while
  `RESTART IDENTITY` lets their users' ids be given out again.
- `ops/host/backup-stack.sh`: the snapshots have paths of their own (`mktemp`), by which
  `restic forget` groups them, so it never removes one (`BackupSave`).
- `src/app/database.py:41` adds a column of type `DateTime`, which Postgres does not
  have: a `key_bundles` without `updated_at` keeps the server from starting
  (`EnsureBundles`, `Stuck`).
- A database that `run.py` served first cannot be migrated by `start.sh`, for
  the revisions create tables without looking (`Upgradable`).
- A restore whose `psql` fails leaves part of a database that nothing marks
  (`RestoreLoadPartly`), and no restore flushes Redis.

## 6. Not modelled

- *Contacts*: pairs of rows that a unique constraint guards; a send inserts them before it
  publishes, and an insert that raises is a fault of the send.
- *Safety numbers*, *sealed sender*, *key generation*, *hashing*: pure functions and
  stateless use of primitives.
- *Configuration*, *schemas*, *rate limits*, *headers*: values and formats checked before a
  handler runs. The limits that matter are constants.
- *Host setup* (cron, SSH, fail2ban, `launch.sh`): scripts run once; what cron starts and how
  `launch.sh` starts a server are in `Operations`.
- *The health tracker* and the tests: nothing of the server depends on them.
- Inside modelled components: the downgrades of Alembic, which no script calls;
  attachments and Redis in backups and drains; `last_seen`; the audit log;
  `users.identity_public_key`, which an upload writes in a second commit and nothing reads
  (`UploadUser` is that commit: the upload still runs until then); the
  SQLite branch of the key service; what a retried upload puts back after keys were
  fetched in `KeyBundles` (every upload has a fresh list: the clients are outside
  this repository).

## 7. Plan

All components that keep state are modelled, checked and proved about. Next:

1. Abstract specifications: single-use tokens, implemented by `Sessions`, `Linking` and
   `Accounts` when requests do not overlap.
2. Models: attachments and Redis in `Operations`.
3. Proofs: what a liveness property needs besides fairness, as invariants of their own (who
   still has to act on an expired message or an undelivered hint, at every point).
