---------------------------- MODULE KeysProofs ----------------------------
(***************************************************************************)
(* Proofs about keys.  KeyBundles, for any threads, devices, keys, list    *)
(* size and number of uploads, with and without faults: the one-time       *)
(* prekeys of the key service implement OneTimeKeys, and a row is whole,   *)
(* its device's only one and gone with it unless requests overlapped.      *)
(* Ratchet, for any number of messages and key pairs: no two messages are  *)
(* encrypted with one key, and a lost one costs its sending chain only.    *)
(***************************************************************************)
EXTENDS KeyBundles, Ratchet, FiniteSetTheorems, TLAPS

\* What the proofs use of the set of uploads.
LEMMA UploadFacts ==
  /\ 0 \in 0..MaxUpload /\ 0 \notin Uploads /\ 1 \in 1..(MaxUpload + 1)
  /\ \A u \in Uploads : u \in 0..MaxUpload /\ u \in Nat /\ u + 1 \in 1..(MaxUpload + 1)
BY KeyBundlesAssumption DEF Uploads

---------------------------------------------------------------------------
(* Type correctness.  TypeOK is not inductive: a row is only written with   *)
(* what the session of its thread holds, which depends on where it is.      *)

Working(t) ==
  /\ pc[t] \in {"update", "create", "user", "locked", "answer"} => cur[t] \in Uploads
  /\ pc[t] \in {"update", "locked"} => seen[t] \in Row
  /\ t \in Uploading \/ pc[t] = "read" =>
       up[t] \in Uploads /\ up[t] < next /\ given[up[t]] \in Bundle

\* The row a fetch locked is as it was read, and is locked by no other fetch and
\* no deletion.
Locks ==
  \A t \in Threads : pc[t] = "locked" =>
    /\ rows[cur[t]] = seen[t]
    /\ \A s \in Threads \ {t} : pc[s] = "locked" => cur[s] # cur[t]
    /\ \A c \in Closers : phase[c] = "commit" => cur[t] \notin doomed[c]

\* Ids are given out once, and the row of a first upload is not there yet.
Fresh ==
  /\ \A r \in Exists : r < ids
  /\ \A t \in Threads : pc[t] = "create" =>
       /\ cur[t] < ids /\ rows[cur[t]] = NoRow
       /\ \A s \in Threads \ {t} : pc[s] = "create" => cur[s] # cur[t]

Typed   == TypeOK /\ \A t \in Threads : Working(t)
TypeInv == Typed /\ Locks /\ Fresh

\* An update writes a row.
LEMMA WrittenType ==
  ASSUME NEW r \in Row, NEW s \in Row, NEW u \in Uploads, given[u] \in Bundle
  PROVE  Written(r, s, u) \in Row
<1>1. Assigned(s, u).dev \in Devices \cup {Recovery} /\ Assigned(s, u).ident \in Identities
      /\ Assigned(s, u).pre \in Prekeys /\ Assigned(s, u).iv \in Nat /\ Assigned(s,
           u).bv \in Nat
  BY DEF Assigned, Row, Bundle
<1>2. Size \in 0..Size
  BY KeyBundlesAssumption
<1> QED BY <1>1, <1>2 DEF Written, Column, Row

\* The row of a first upload is a row.
LEMMA CreatedType ==
  ASSUME NEW u \in Uploads, given[u] \in Bundle
  PROVE  Created(u) \in Row
BY KeyBundlesAssumption DEF Created, Row, Bundle

\* Taking a key leaves a row.
LEMMA Popped ==
  ASSUME TypeInv, NEW t \in Threads, pc[t] = "locked", seen[t].left > 0, Pop(t)
  PROVE  /\ cur[t] \in Uploads /\ rows[cur[t]] = seen[t] /\ seen[t] \in Row
         /\ rows' = [rows EXCEPT ![cur[t]] = [seen[t] EXCEPT !.left = seen[t].left - 1]]
         /\ [seen[t] EXCEPT !.left = seen[t].left - 1] \in Row
         /\ <<seen[t].batch, seen[t].left>> \in Uploads \X (1..Size)
<1>1. cur[t] \in Uploads /\ seen[t] \in Row /\ rows[cur[t]] = seen[t]
  BY DEF TypeInv, Typed, Working, Locks
<1>2. seen[t].batch \in Uploads /\ seen[t].left \in 1..Size /\ seen[t].left - 1 \in 0..Size
  BY <1>1, KeyBundlesAssumption DEF Row
<1>3. rows \in [Uploads -> Row \cup {NoRow}]
  BY DEF TypeInv, Typed, TypeOK
<1>4. rows' = [rows EXCEPT ![cur[t]] = [seen[t] EXCEPT !.left = seen[t].left - 1]]
  <2>1. [[seen[t] EXCEPT !.batch = seen[t].batch] EXCEPT !.left = seen[t].left - 1]
          = [seen[t] EXCEPT !.left = seen[t].left - 1]
    BY <1>1 DEF Row
  <2> QED BY <1>1, <1>3, <2>1 DEF Pop
<1> QED BY <1>1, <1>2, <1>4 DEF Row

\* The uploads in flight are uploads.
LEMMA InFlightType == TypeInv => InFlight \subseteq Uploads
BY DEF TypeInv, Typed, Working, InFlight, Uploading

LEMMA TypeUpload ==
  ASSUME TypeInv, NEW t \in Threads,
         \/ \E b \in Bundle : UploadCheck(t, b)
         \/ UploadRead(t) \/ UploadUpdate(t) \/ UploadGone(t)
         \/ UploadInsert(t) \/ UploadCreate(t) \/ UploadUser(t)
  PROVE  Typed'
<1> USE KeyBundlesAssumption, NoneAssumption, UploadFacts
    DEF TypeInv, Typed, TypeOK, Working, Uploading, Goto, user, table, session, closing, history
<1>1. ASSUME NEW b \in Bundle, UploadCheck(t, b) PROVE Typed'
  <2> USE <1>1 DEF UploadCheck
  <2>1. /\ next' \in 1..(MaxUpload + 1) /\ next' = next + 1 /\ next \in Nat
        /\ given' \in [Uploads -> Bundle \cup {NoRow}] /\ given'[next] = b
        /\ up' \in [Threads -> 0..MaxUpload] /\ up'[t] = next /\ next \in Uploads
    OBVIOUS
  <2>2. TypeOK'
    BY <2>1
  <2>3. ASSUME NEW s \in Threads PROVE Working(s)'
    <3>1. CASE s = t
      BY <3>1, <2>1
    <3>2. CASE s # t
      BY <3>2, <2>1
    <3> QED BY <3>1, <3>2
  <2> QED BY <2>2, <2>3
<1>7. CASE UploadRead(t)
  <2> USE <1>7 DEF UploadRead
  <2>1. met' \subseteq Uploads /\ mixed' \subseteq Threads
    BY InFlightType DEF Fetching
  <2>2. /\ cur' \in [Threads -> 0..MaxUpload] /\ seen' \in [Threads -> Row \cup {NoRow}]
        /\ pc'[t] = "update" => cur'[t] \in Uploads /\ seen'[t] \in Row
        /\ \A s \in Threads : s # t => cur'[s] = cur[s] /\ seen'[s] = seen[s]
    BY DEF RowsOf, Exists, Latest
  <2>3. TypeOK'
    BY <2>1, <2>2
  <2>4. ASSUME NEW s \in Threads PROVE Working(s)'
    <3>1. CASE s = t
      BY <3>1, <2>2
    <3>2. CASE s # t
      BY <3>2, <2>2
    <3> QED BY <3>1, <3>2
  <2> QED BY <2>3, <2>4
<1>2. CASE UploadUpdate(t)
  BY <1>2, WrittenType DEF UploadUpdate, Expire
<1>3. CASE UploadGone(t)
  BY <1>3 DEF UploadGone, Finish
<1>4. CASE UploadInsert(t)
  BY <1>4 DEF UploadInsert
<1>5. CASE UploadCreate(t)
  BY <1>5, CreatedType DEF UploadCreate
<1>6. CASE UploadUser(t)
  BY <1>6 DEF UploadUser, Finish, Bundle
<1> QED BY <1>1, <1>2, <1>3, <1>4, <1>5, <1>6, <1>7

LEMMA TypeFetch ==
  ASSUME TypeInv, NEW t \in Threads,
         FetchRead(t) \/ FetchLock(t) \/ FetchNone(t) \/ FetchCommit(t) \/ FetchAnswer(t) \/ Abort(t)
  PROVE  Typed'
<1> USE KeyBundlesAssumption, NoneAssumption, UploadFacts
    DEF TypeInv, Typed, TypeOK, Working, Uploading, Goto, user, table, session, closing, history
<1>1. CASE FetchRead(t)
  BY <1>1 DEF FetchRead, Exists
<1>2. CASE FetchLock(t)
  BY <1>2 DEF FetchLock, Exists, Latest
<1>3. CASE FetchNone(t) \/ FetchAnswer(t) \/ Abort(t)
  <2>1. Finish(t) /\ UNCHANGED <<next, given, table, user, closing, history>>
    BY <1>3 DEF FetchNone, FetchAnswer, Abort
  <2> QED BY <2>1 DEF Finish
<1>4. CASE FetchCommit(t)
  <2>1. CASE UNCHANGED <<rows, got, served>>
    BY <1>4, <2>1 DEF FetchCommit, Expire
  <2>2. CASE seen[t].left > 0 /\ Pop(t)
    <3>1. pc[t] = "locked" /\ cur' = cur
      BY <1>4 DEF FetchCommit
    <3>2. /\ cur[t] \in Uploads
          /\ rows' = [rows EXCEPT ![cur[t]] = [seen[t] EXCEPT !.left = seen[t].left - 1]]
          /\ [seen[t] EXCEPT !.left = seen[t].left - 1] \in Row
          /\ <<seen[t].batch, seen[t].left>> \in Uploads \X (1..Size)
      BY <2>2, <3>1, Popped
    <3>3. got' = [got EXCEPT ![t] = <<seen[t].batch, seen[t].left>>]
          /\ served' = served \cup {<<seen[t].batch, seen[t].left>>}
      BY <2>2 DEF Pop
    <3> HIDE <2>2
    <3> QED BY <1>4, <3>1, <3>2, <3>3 DEF FetchCommit, Expire
  <2> QED BY <1>4, <2>1, <2>2 DEF FetchCommit
<1> QED BY <1>1, <1>2, <1>3, <1>4

LEMMA TypeRest ==
  ASSUME TypeInv,
         \/ \E c \in Closers :
              \/ \E D \in Closable : CloseStart(c, D)
              \/ CloseDelete(c) \/ CloseCommit(c) \/ CloseFails(c)
         \/ \E d \in Devices : LoginDevice(d)
  PROVE  Typed'
<1> USE KeyBundlesAssumption, NoneAssumption, UploadFacts
    DEF TypeInv, Typed, TypeOK, Working, Uploading, user, table, session, closing, history
<1>1. ASSUME NEW c \in Closers, NEW D \in Closable, CloseStart(c, D) PROVE Typed'
  <2>1. late' \subseteq Uploads
    BY <1>1 DEF CloseStart
  <2> QED BY <1>1, <2>1 DEF CloseStart, Exists
<1>2. ASSUME NEW c \in Closers, CloseDelete(c) PROVE Typed'
  BY <1>2 DEF CloseDelete, Exists
<1>3. ASSUME NEW c \in Closers, CloseCommit(c) PROVE Typed'
  BY <1>3 DEF CloseCommit, CloseEnd, Drop
<1>4. ASSUME NEW c \in Closers, CloseFails(c) PROVE Typed'
  BY <1>4 DEF CloseFails, CloseEnd
<1>5. ASSUME NEW d \in Devices, LoginDevice(d) PROVE Typed'
  BY <1>5 DEF LoginDevice
<1> QED BY <1>1, <1>2, <1>3, <1>4, <1>5

(* The locks of fetches and the ids of first uploads. *)

LEMMA LockUpload ==
  ASSUME TypeInv, Typed', NEW t \in Threads,
         \/ \E b \in Bundle : UploadCheck(t, b)
         \/ UploadRead(t) \/ UploadUpdate(t) \/ UploadGone(t)
         \/ UploadInsert(t) \/ UploadCreate(t) \/ UploadUser(t)
  PROVE  (Locks /\ Fresh)'
<1> USE KeyBundlesAssumption, NoneAssumption, UploadFacts
    DEF TypeInv, Typed, TypeOK, Working, Locks, Fresh, Exists, Goto, user, table,
         session, closing, history
<1>1. ASSUME NEW b \in Bundle, UploadCheck(t, b) PROVE (Locks /\ Fresh)'
  BY <1>1 DEF UploadCheck
<1>6. CASE UploadRead(t)
  BY <1>6 DEF UploadRead
<1>2. CASE UploadUpdate(t)
  BY <1>2 DEF UploadUpdate, Locked, Expire
<1>3. CASE UploadGone(t) \/ UploadUser(t)
  BY <1>3 DEF UploadGone, UploadUser, Finish
<1>4. CASE UploadInsert(t)
  BY <1>4 DEF UploadInsert
<1>5. CASE UploadCreate(t)
  BY <1>5 DEF UploadCreate
<1> QED BY <1>1, <1>2, <1>3, <1>4, <1>5, <1>6

LEMMA LockFetch ==
  ASSUME TypeInv, Typed', NEW t \in Threads,
         FetchRead(t) \/ FetchLock(t) \/ FetchNone(t) \/ FetchCommit(t) \/ FetchAnswer(t) \/ Abort(t)
  PROVE  (Locks /\ Fresh)'
<1> USE KeyBundlesAssumption, NoneAssumption, UploadFacts
    DEF TypeInv, Typed, TypeOK, Working, Locks, Fresh, Exists, Goto, user, table,
         session, closing, history
<1>1. CASE FetchRead(t)
  BY <1>1 DEF FetchRead
<1>2. CASE FetchLock(t)
  BY <1>2 DEF FetchLock, Locked, Latest
<1>3. CASE FetchNone(t) \/ FetchAnswer(t) \/ Abort(t)
  BY <1>3, SMTT(30) DEF FetchNone, FetchAnswer, Abort, Finish
<1>4. CASE FetchCommit(t)
  <2>1. CASE UNCHANGED <<rows, got, served>>
    BY <1>4, <2>1 DEF FetchCommit, Expire
  <2>2. CASE seen[t].left > 0 /\ Pop(t)
    <3>1. pc[t] = "locked" /\ pc' = [pc EXCEPT ![t] = "answer"]
          /\ UNCHANGED <<cur, ids, phase, doomed>> /\ seen' = [seen EXCEPT ![t] = NoRow]
      BY <1>4 DEF FetchCommit, Expire
    <3>2. /\ cur[t] \in Uploads /\ rows[cur[t]] = seen[t] /\ seen[t] \in Row
          /\ rows' = [rows EXCEPT ![cur[t]] = [seen[t] EXCEPT !.left = seen[t].left - 1]]
          /\ [seen[t] EXCEPT !.left = seen[t].left - 1] \in Row
      BY <2>2, <3>1, Popped
    <3> HIDE <2>2
    <3> QED BY <3>1, <3>2
  <2> QED BY <1>4, <2>1, <2>2 DEF FetchCommit
<1> QED BY <1>1, <1>2, <1>3, <1>4

LEMMA LockRest ==
  ASSUME TypeInv, Typed',
         \/ \E c \in Closers :
              \/ \E D \in Closable : CloseStart(c, D)
              \/ CloseDelete(c) \/ CloseCommit(c) \/ CloseFails(c)
         \/ \E d \in Devices : LoginDevice(d)
  PROVE  (Locks /\ Fresh)'
<1> USE KeyBundlesAssumption, NoneAssumption, UploadFacts
    DEF TypeInv, Typed, TypeOK, Working, Locks, Fresh, Exists, user, table, session,
         closing, history
<1>1. ASSUME NEW c \in Closers, NEW D \in Closable, CloseStart(c, D) PROVE (Locks /\ Fresh)'
  BY <1>1 DEF CloseStart
<1>2. ASSUME NEW c \in Closers, CloseDelete(c) PROVE (Locks /\ Fresh)'
  BY <1>2 DEF CloseDelete, Locked
<1>3. ASSUME NEW c \in Closers, CloseCommit(c) PROVE (Locks /\ Fresh)'
  BY <1>3 DEF CloseCommit, CloseEnd, Drop
<1>4. ASSUME NEW c \in Closers, CloseFails(c) PROVE (Locks /\ Fresh)'
  BY <1>4 DEF CloseFails, CloseEnd
<1>5. ASSUME NEW d \in Devices, LoginDevice(d) PROVE (Locks /\ Fresh)'
  BY <1>5 DEF LoginDevice
<1> QED BY <1>1, <1>2, <1>3, <1>4, <1>5

LEMMA TypeInvariant == Spec => []TypeInv
<1>1. Init => TypeInv
  BY KeyBundlesAssumption, UploadFacts DEF Init, TypeInv, Typed, TypeOK, Working,
       Locks, Fresh, Exists, Uploading
<1>2. TypeInv /\ [Next]_vars => TypeInv'
  <2> SUFFICES ASSUME TypeInv, [Next]_vars PROVE TypeInv'
    OBVIOUS
  <2>1. CASE Next
    BY <2>1, TypeUpload, TypeFetch, TypeRest, LockUpload, LockFetch, LockRest
       DEF Next, TypeInv
  <2>2. CASE UNCHANGED vars
    BY <2>2 DEF vars, TypeInv, Typed, TypeOK, Working, Locks, Fresh, Exists, Uploading
  <2> QED BY <2>1, <2>2
<1> QED BY <1>1, <1>2, PTL DEF Spec

\* The types of KeyBundles hold in every reachable state.
THEOREM TypeCorrect == Spec => []TypeOK
BY TypeInvariant, PTL DEF TypeInv, Typed

---------------------------------------------------------------------------
(* The pool of one-time prekeys.  That a key leaves the pool when it is     *)
(* handed out takes that no two rows hold one list, and that the list an    *)
(* upload is about to write is in no row and was never handed out from.     *)

Unwritten == {t \in Threads : pc[t] \in {"read", "update", "insert", "create"}}

Lists ==
  /\ \A r \in Exists : /\ rows[r].batch < next
                        /\ \A q \in Exists \ {r} : rows[q].batch # rows[r].batch
  /\ \A k \in served : k[1] < next
  /\ \A t \in Unwritten :
       /\ \A r \in Exists : rows[r].batch # up[t]
       /\ \A k \in served : k[1] # up[t]
       /\ \A s \in Unwritten \ {t} : up[s] # up[t]

\* PoolAccounted, key by key.
Counted ==
  \A r \in Exists : \A i \in 1..Size : <<rows[r].batch, i>> \in served <=> i > rows[r].left

KeyInv == TypeInv /\ Lists /\ Counted

\* Steps that neither start an upload nor write a row keep the lists.
LEMMA ListsQuiet ==
  ASSUME KeyInv, TypeInv', UNCHANGED <<next, rows, served>>,
         \A s \in Unwritten' : s \in Unwritten /\ up'[s] = up[s]
  PROVE  (Lists /\ Counted)'
BY DEF KeyInv, Lists, Counted, Exists

\* An update replaces the list of its row by the list of the upload, or leaves
\* it as it is now.
LEMMA UpdatedRow ==
  ASSUME TypeInv, NEW t \in Threads, UploadUpdate(t)
  PROVE  /\ cur[t] \in Exists /\ Exists' = Exists /\ up[t] \in Uploads
         /\ \A q \in Uploads : q # cur[t] => rows'[q] = rows[q]
         /\ \/ /\ rows'[cur[t]].batch = rows[cur[t]].batch
               /\ rows'[cur[t]].left = rows[cur[t]].left
            \/ rows'[cur[t]].batch = up[t] /\ rows'[cur[t]].left = Size
<1> DEFINE r == cur[t]
<1>1. r \in Uploads /\ rows[r] \in Row /\ seen[t] \in Row
      /\ up[t] \in Uploads /\ given[up[t]] \in Bundle
  BY DEF UploadUpdate, Goto, TypeInv, Typed, TypeOK, Working, Uploading
<1>2. rows' = [rows EXCEPT ![r] = Written(rows[r], seen[t], up[t])]
  BY DEF UploadUpdate
<1>3. Written(rows[r], seen[t], up[t]) \in Row
  BY <1>1, WrittenType
<1>4. rows \in [Uploads -> Row \cup {NoRow}] /\ NoRow \notin Row
  BY NoneAssumption DEF TypeInv, Typed, TypeOK
<1>5. \/ /\ Written(rows[r], seen[t], up[t]).batch = rows[r].batch
         /\ Written(rows[r], seen[t], up[t]).left = rows[r].left
      \/ /\ Written(rows[r], seen[t], up[t]).batch = up[t]
         /\ Written(rows[r], seen[t], up[t]).left = Size
  BY DEF Written
<1> HIDE DEF r
<1>6. Exists' = Exists /\ r \in Exists
  BY <1>1, <1>2, <1>3, <1>4 DEF Exists
<1>7. /\ \A q \in Uploads : q # r => rows'[q] = rows[q]
      /\ rows'[r] = Written(rows[r], seen[t], up[t])
  BY <1>1, <1>2, <1>4
<1> QED BY <1>1, <1>5, <1>6, <1>7 DEF r

LEMMA CreatedRow ==
  ASSUME TypeInv, NEW t \in Threads, UploadCreate(t)
  PROVE  /\ cur[t] \in Uploads \ Exists /\ Exists' = Exists \cup {cur[t]} /\ up[t] \in Uploads
         /\ \A q \in Uploads : q # cur[t] => rows'[q] = rows[q]
         /\ rows'[cur[t]].batch = up[t] /\ rows'[cur[t]].left = Size
<1> DEFINE r == cur[t]
<1>1. r \in Uploads /\ rows[r] = NoRow /\ up[t] \in Uploads /\ given[up[t]] \in Bundle
  BY DEF UploadCreate, Goto, TypeInv, Typed, TypeOK, Working, Uploading, Fresh
<1>2. rows' = [rows EXCEPT ![r] = Created(up[t])]
  BY DEF UploadCreate
<1>3. Created(up[t]) \in Row
  BY <1>1, CreatedType
<1>4. rows \in [Uploads -> Row \cup {NoRow}] /\ NoRow \notin Row
  BY NoneAssumption DEF TypeInv, Typed, TypeOK
<1>5. Created(up[t]).batch = up[t] /\ Created(up[t]).left = Size
  BY DEF Created
<1> HIDE DEF r
<1>6. Exists' = Exists \cup {r} /\ r \notin Exists
  BY <1>1, <1>2, <1>3, <1>4 DEF Exists
<1>7. /\ \A q \in Uploads : q # r => rows'[q] = rows[q]
      /\ rows'[r] = Created(up[t])
  BY <1>1, <1>2, <1>4
<1> QED BY <1>1, <1>5, <1>6, <1>7 DEF r

\* A fetch takes the first key of the list its row holds.
LEMMA PoppedRow ==
  ASSUME TypeInv, NEW t \in Threads, pc[t] = "locked", seen[t].left > 0, Pop(t)
  PROVE  LET r == cur[t] IN
         /\ r \in Exists /\ Exists' = Exists
         /\ \A q \in Uploads : q # r => rows'[q] = rows[q]
         /\ rows'[r].batch = rows[r].batch /\ rows'[r].left = rows[r].left - 1
         /\ rows[r].left \in 1..Size /\ rows[r].batch \in Uploads
         /\ served' = served \cup {<<rows[r].batch, rows[r].left>>}
<1> DEFINE r == cur[t]
<1>1. /\ r \in Uploads /\ rows[r] = seen[t] /\ seen[t] \in Row
      /\ rows' = [rows EXCEPT ![r] = [seen[t] EXCEPT !.left = seen[t].left - 1]]
      /\ [seen[t] EXCEPT !.left = seen[t].left - 1] \in Row
  BY Popped
<1>2. rows \in [Uploads -> Row \cup {NoRow}] /\ NoRow \notin Row
  BY NoneAssumption DEF TypeInv, Typed, TypeOK
<1>3. served' = served \cup {<<rows[r].batch, rows[r].left>>}
  BY <1>1 DEF Pop
<1>4. seen[t].left \in 1..Size /\ seen[t].batch \in Uploads
  BY <1>1, KeyBundlesAssumption DEF Row
<1> HIDE DEF r
<1>5. Exists' = Exists /\ r \in Exists
  BY <1>1, <1>2 DEF Exists
<1>6. /\ \A q \in Uploads : q # r => rows'[q] = rows[q]
      /\ rows'[r] = [seen[t] EXCEPT !.left = seen[t].left - 1]
  BY <1>1, <1>2
<1>7. rows'[r].batch = rows[r].batch /\ rows'[r].left = rows[r].left - 1
  BY <1>1, <1>6 DEF Row
<1> QED BY <1>1, <1>3, <1>4, <1>5, <1>6, <1>7 DEF r

\* Deleted rows take nothing but their own lists away.
LEMMA DroppedRows ==
  ASSUME TypeInv, NEW gone \in SUBSET Uploads, Drop(gone)
  PROVE  Exists' = Exists \ gone /\ \A r \in Exists' : rows'[r] = rows[r]
BY DEF Drop, Exists

LEMMA KeysUpload ==
  ASSUME KeyInv, TypeInv', NEW t \in Threads,
         \/ \E b \in Bundle : UploadCheck(t, b)
         \/ UploadRead(t) \/ UploadUpdate(t) \/ UploadGone(t)
         \/ UploadInsert(t) \/ UploadCreate(t) \/ UploadUser(t)
  PROVE  (Lists /\ Counted)'
<1>1. ASSUME NEW b \in Bundle, UploadCheck(t, b) PROVE (Lists /\ Counted)'
  <2>1. /\ Exists' = Exists /\ rows' = rows /\ served' = served
        /\ next \in Nat /\ next' = next + 1
    BY <1>1, UploadFacts DEF UploadCheck, Exists, table
  <2>3. /\ \A r \in Exists : rows[r].batch \in Nat
        /\ \A k \in served : k[1] \in Nat
    BY UploadFacts DEF KeyInv, TypeInv, Typed, TypeOK, Exists, Row
  <2>4. \A s \in Unwritten : up[s] \in Nat /\ up[s] < next
    BY UploadFacts DEF KeyInv, TypeInv, Typed, Working, Uploading, Unwritten
  <2>2. /\ up'[t] = next
        /\ \A s \in Unwritten' : s # t => s \in Unwritten /\ up'[s] = up[s]
    BY <1>1 DEF UploadCheck, Goto, KeyInv, TypeInv, Typed, TypeOK, Unwritten
  <2> QED BY <2>1, <2>2, <2>3, <2>4 DEF KeyInv, Lists, Counted
<1>2. CASE UploadUpdate(t)
  <2>1. /\ t \in Unwritten /\ t \notin Unwritten' /\ up[t] < next
        /\ \A s \in Unwritten' : s \in Unwritten /\ up'[s] = up[s]
        /\ next' = next /\ served' = served
    BY <1>2 DEF UploadUpdate, Goto, KeyInv, TypeInv, Typed, TypeOK, Working, Uploading,
         Unwritten, session, history
  <2>2. \A i \in 1..Size : ~(i > Size)
    BY KeyBundlesAssumption
  <2>3. Exists' \subseteq Uploads /\ Exists \subseteq Uploads
    BY DEF Exists
  <2> QED BY <1>2, <2>1, <2>2, <2>3, UpdatedRow DEF KeyInv, Lists, Counted
<1>3. CASE UploadCreate(t)
  <2>1. /\ t \in Unwritten /\ t \notin Unwritten' /\ up[t] < next
        /\ \A s \in Unwritten' : s \in Unwritten /\ up'[s] = up[s]
        /\ next' = next /\ served' = served
    BY <1>3 DEF UploadCreate, Goto, KeyInv, TypeInv, Typed, TypeOK, Working, Uploading,
         Unwritten, session, history
  <2>2. \A i \in 1..Size : ~(i > Size)
    BY KeyBundlesAssumption
  <2>3. Exists' \subseteq Uploads /\ Exists \subseteq Uploads
    BY DEF Exists
  <2> QED BY <1>3, <2>1, <2>2, <2>3, CreatedRow DEF KeyInv, Lists, Counted
<1>4. CASE UploadInsert(t)
  BY <1>4, ListsQuiet
     DEF UploadInsert, Goto, KeyInv, TypeInv, Typed, TypeOK, Unwritten, table, history
<1>6. CASE UploadRead(t)
  BY <1>6, ListsQuiet
     DEF UploadRead, KeyInv, TypeInv, Typed, TypeOK, Unwritten, table
<1>5. CASE UploadGone(t) \/ UploadUser(t)
  BY <1>5, ListsQuiet
     DEF UploadGone, UploadUser, Finish, KeyInv, TypeInv, Typed, TypeOK, Unwritten,
          table, history
<1> QED BY <1>1, <1>2, <1>3, <1>4, <1>5, <1>6

LEMMA KeysFetch ==
  ASSUME KeyInv, TypeInv', NEW t \in Threads,
         FetchRead(t) \/ FetchLock(t) \/ FetchNone(t) \/ FetchCommit(t) \/ FetchAnswer(t) \/ Abort(t)
  PROVE  (Lists /\ Counted)'
<1>1. CASE FetchRead(t) \/ FetchLock(t)
  BY <1>1, ListsQuiet
     DEF FetchRead, FetchLock, Goto, KeyInv, TypeInv, Typed, TypeOK, Unwritten, table,
           history
<1>2. CASE FetchNone(t) \/ FetchAnswer(t) \/ Abort(t)
  BY <1>2, ListsQuiet
     DEF FetchNone, FetchAnswer, Abort, Finish, KeyInv, TypeInv, Typed, TypeOK,
          Unwritten, table, history
<1>3. CASE FetchCommit(t)
  <2>1. /\ pc[t] = "locked" /\ UNCHANGED <<next, up>>
        /\ \A s \in Unwritten' : s \in Unwritten /\ up'[s] = up[s]
    BY <1>3 DEF FetchCommit, Goto, KeyInv, TypeInv, Typed, TypeOK, Unwritten
  <2>2. CASE UNCHANGED <<rows, got, served>>
    BY <2>1, <2>2, ListsQuiet
  <2>3. CASE seen[t].left > 0 /\ Pop(t)
    <3> DEFINE r == cur[t]
    <3>1. /\ r \in Exists /\ Exists' = Exists
          /\ \A q \in Uploads : q # r => rows'[q] = rows[q]
          /\ rows'[r].batch = rows[r].batch /\ rows'[r].left = rows[r].left - 1
          /\ rows[r].left \in 1..Size /\ rows[r].batch \in Uploads
          /\ served' = served \cup {<<rows[r].batch, rows[r].left>>}
      BY <2>1, <2>3, PoppedRow DEF KeyInv
    <3> HIDE DEF r
    <3>2. \A q \in Exists : q \in Uploads /\ rows'[q].batch = rows[q].batch
      BY <3>1 DEF Exists
    <3>3. Lists'
      BY <2>1, <3>1, <3>2 DEF KeyInv, Lists
    <3>4. ASSUME NEW q \in Exists, NEW i \in 1..Size
          PROVE <<rows'[q].batch, i>> \in served' <=> i > rows'[q].left
      <4>1. CASE q # r
        BY <3>1, <3>2, <3>4, <4>1 DEF KeyInv, Lists, Counted
      <4>2. CASE q = r
        BY <3>1, <3>4, <4>2 DEF KeyInv, Counted
      <4> QED BY <4>1, <4>2
    <3> QED BY <3>1, <3>3, <3>4 DEF Counted
  <2> QED BY <1>3, <2>2, <2>3 DEF FetchCommit
<1> QED BY <1>1, <1>2, <1>3

LEMMA KeysRest ==
  ASSUME KeyInv, TypeInv',
         \/ \E c \in Closers :
              \/ \E D \in Closable : CloseStart(c, D)
              \/ CloseDelete(c) \/ CloseCommit(c) \/ CloseFails(c)
         \/ \E d \in Devices : LoginDevice(d)
  PROVE  (Lists /\ Counted)'
<1>1. ASSUME NEW c \in Closers, CloseCommit(c) PROVE (Lists /\ Counted)'
  <2>1. doomed[c] \in SUBSET Uploads
    BY DEF KeyInv, TypeInv, Typed, TypeOK
  <2>2. Drop(doomed[c]) /\ UNCHANGED <<next, served, pc, session>>
    BY <1>1 DEF CloseCommit, history
  <2> QED BY <2>1, <2>2, DroppedRows DEF KeyInv, Lists, Counted, Unwritten, session
<1>2. ASSUME NEW c \in Closers,
             (\E D \in Closable : CloseStart(c, D)) \/ CloseDelete(c) \/ CloseFails(c)
      PROVE (Lists /\ Counted)'
  BY <1>2, ListsQuiet
     DEF CloseStart, CloseDelete, CloseFails, table, session, history, Unwritten
<1>3. ASSUME NEW d \in Devices, LoginDevice(d) PROVE (Lists /\ Counted)'
  BY <1>3, ListsQuiet DEF LoginDevice, table, session, history, Unwritten
<1> QED BY <1>1, <1>2, <1>3

\* KeyInv is inductive: every list of one-time prekeys is in one row at most.
THEOREM KeyInvariant == Spec => []KeyInv
<1>1. Init => Lists /\ Counted
  BY DEF Init, Lists, Counted, Exists, Unwritten
<1>2. KeyInv /\ TypeInv' /\ [Next]_vars => (Lists /\ Counted)'
  <2> SUFFICES ASSUME KeyInv, TypeInv', [Next]_vars PROVE (Lists /\ Counted)'
    OBVIOUS
  <2>1. CASE Next
    BY <2>1, KeysUpload, KeysFetch, KeysRest DEF Next
  <2>2. CASE UNCHANGED vars
    BY <2>2, ListsQuiet DEF vars, Unwritten
  <2> QED BY <2>1, <2>2
<1> QED BY <1>1, <1>2, TypeInvariant, PTL DEF Spec, KeyInv

\* Two fetches of one bundle take different keys and lose none: the keys of a
\* row's list that are not in it any more are the ones that were handed out.
THEOREM KeysAccounted == Spec => []PoolAccounted
<1>1. KeyInv => PoolAccounted
  <2> SUFFICES ASSUME KeyInv, NEW r \in Exists, NEW b, NEW i
               PROVE <<b, i>> \in Remaining(r) <=> <<b,
                    i>> \in ({rows[r].batch} \X (1..Size)) \ served
    BY DEF PoolAccounted, Remaining
  <2>1. rows[r].left \in 0..Size
    BY DEF KeyInv, TypeInv, Typed, TypeOK, Exists, Row
  <2> QED BY <2>1, KeyBundlesAssumption DEF KeyInv, Counted, Remaining
<1> QED BY <1>1, KeyInvariant, PTL

---------------------------------------------------------------------------
(* The refinement: every step of KeyBundles publishes a list, withdraws     *)
(* keys, hands one out, or leaves the pool of OneTimeKeys as it is.         *)

KeyPool == UNION {Remaining(r) : r \in Exists}

LEMMA InPool ==
  ASSUME NEW k
  PROVE  k \in KeyPool <=> \E r \in Exists : \E i \in 1..rows[r].left : k = <<rows[r].batch, i>>
BY DEF KeyPool, Remaining

LEMMA InPoolNext ==
  ASSUME NEW k
  PROVE  k \in KeyPool' <=> \E r \in Exists' : \E i \in 1..rows'[r].left : k = <<rows'[r].batch, i>>
BY DEF KeyPool, Remaining

\* A list that no row holds and no key of which was handed out is published
\* when a row takes it, whatever leaves the pool at once.
LEMMA Published ==
  ASSUME KeyInv, NEW u \in Uploads, NEW r \in Exists',
         \A q \in Exists : rows[q].batch # u,
         \A k \in served : k[1] # u,
         served' = served, rows'[r].batch = u, rows'[r].left = Size,
         \A q \in Exists' \ {r} : q \in Exists /\ rows'[q] = rows[q]
  PROVE  Pool!Next
<1> DEFINE keys == {u} \X (1..Size)
           gone == KeyPool \ KeyPool'
<1>1. keys \cap (KeyPool \cup served) = {}
  BY InPool
<1>2. keys \subseteq KeyPool'
  BY InPoolNext
<1>3. KeyPool' \subseteq KeyPool \cup keys
  <2> SUFFICES ASSUME NEW q \in Exists', NEW i \in 1..rows'[q].left
               PROVE  <<rows'[q].batch, i>> \in KeyPool \cup keys
    BY InPoolNext
  <2>1. CASE q = r
    BY <2>1
  <2>2. CASE q # r
    BY <2>2, InPool
  <2> QED BY <2>1, <2>2
<1>4. KeyPool' = (KeyPool \ gone) \cup keys
  BY <1>2, <1>3
<1>5. Pool!Publish(u, gone)
  BY <1>1, <1>4 DEF Pool!Publish, Pool!Keys, KeyPool
<1> QED BY <1>5 DEF Pool!Next, KeyPool

\* Rows that go take keys out of the pool.
LEMMA Withdrawn ==
  ASSUME TypeInv, NEW gone \in SUBSET Uploads, Drop(gone), served' = served
  PROVE  Pool!Next
<1>1. KeyPool' \subseteq KeyPool
  BY DroppedRows, InPool, InPoolNext
<1>2. KeyPool' = KeyPool \ (KeyPool \ KeyPool')
  BY <1>1
<1>3. Pool!Withdraw(KeyPool \ KeyPool')
  BY <1>2 DEF Pool!Withdraw, KeyPool
<1> QED BY <1>3 DEF Pool!Next, KeyPool

\* A fetch that takes a key hands it out.
LEMMA HandedOut ==
  ASSUME KeyInv, KeyInv', NEW t \in Threads, pc[t] = "locked", seen[t].left > 0, Pop(t)
  PROVE  Pool!Next
<1> DEFINE r == cur[t]
           key == <<rows[r].batch, rows[r].left>>
<1>1. /\ r \in Exists /\ Exists' = Exists
      /\ \A q \in Uploads : q # r => rows'[q] = rows[q]
      /\ rows'[r].batch = rows[r].batch /\ rows'[r].left = rows[r].left - 1
      /\ rows[r].left \in 1..Size /\ rows[r].batch \in Uploads
      /\ served' = served \cup {key}
  BY PoppedRow DEF KeyInv
<1> HIDE DEF r
<1>2. key \in KeyPool
  BY <1>1, InPool, KeyBundlesAssumption
<1>3. \A q \in Exists \ {r} : q \in Uploads /\ rows'[q] = rows[q] /\ rows[q].batch # rows[r].batch
  BY <1>1 DEF Exists, KeyInv, Lists
<1>4. \A i \in Nat : i \in 1..(rows[r].left - 1) <=> i \in 1..rows[r].left /\ i # rows[r].left
  BY <1>1, KeyBundlesAssumption
<1>5. ASSUME NEW k PROVE k \in KeyPool' <=> k \in KeyPool \ {key}
  <2>1. k \in KeyPool' => k \in KeyPool \ {key}
    BY <1>1, <1>3, <1>4, InPool, InPoolNext
  <2>2. k \in KeyPool \ {key} => k \in KeyPool'
    BY <1>1, <1>3, <1>4, InPool, InPoolNext
  <2> QED BY <2>1, <2>2
<1>6. KeyPool' = KeyPool \ {key}
  BY <1>5
<1>7. Pool!HandOut(key)
  BY <1>1, <1>2, <1>6 DEF Pool!HandOut, KeyPool
<1> QED BY <1>2, <1>7 DEF Pool!Next, KeyPool

LEMMA Stutters ==
  ASSUME UNCHANGED <<rows, served>>
  PROVE  UNCHANGED <<KeyPool, served>>
BY DEF KeyPool, Remaining, Exists

LEMMA PoolStep ==
  ASSUME KeyInv, KeyInv', [Next]_vars
  PROVE  Pool!Next \/ UNCHANGED <<KeyPool, served>>
<1> USE DEF table, user, session, history, Goto
<1>1. ASSUME NEW t \in Threads, UploadUpdate(t) PROVE Pool!Next \/ UNCHANGED <<KeyPool, served>>
  <2>1. t \in Unwritten /\ served' = served
    BY <1>1 DEF UploadUpdate, Unwritten
  <2>2. \A q \in Exists' : q \in Uploads
    BY DEF Exists
  <2>3. CASE rows'[cur[t]].batch = up[t] /\ rows'[cur[t]].left = Size
    BY <1>1, <2>1, <2>2, <2>3, UpdatedRow, Published DEF KeyInv, Lists
  <2>4. CASE rows'[cur[t]].batch = rows[cur[t]].batch /\ rows'[cur[t]].left = rows[cur[t]].left
    <3>1. \A r \in Exists : rows'[r].batch = rows[r].batch /\ rows'[r].left = rows[r].left
      BY <1>1, <2>2, <2>4, UpdatedRow DEF KeyInv
    <3>2. Exists' = Exists
      BY <1>1, UpdatedRow DEF KeyInv
    <3>3. KeyPool' = KeyPool
      BY <3>1, <3>2, InPool, InPoolNext
    <3> QED BY <2>1, <3>3
  <2> QED BY <1>1, <2>3, <2>4, UpdatedRow DEF KeyInv
<1>2. ASSUME NEW t \in Threads, UploadCreate(t) PROVE Pool!Next
  <2>1. t \in Unwritten /\ served' = served
    BY <1>2 DEF UploadCreate, Unwritten
  <2>2. \A q \in Exists' : q \in Uploads
    BY DEF Exists
  <2> QED BY <1>2, <2>1, <2>2, CreatedRow, Published DEF KeyInv, Lists
<1>3. ASSUME NEW t \in Threads, FetchCommit(t) PROVE Pool!Next \/ UNCHANGED <<KeyPool, served>>
  BY <1>3, HandedOut, Stutters DEF FetchCommit
<1>4. ASSUME NEW c \in Closers, CloseCommit(c) PROVE Pool!Next
  BY <1>4, Withdrawn DEF CloseCommit, KeyInv, TypeInv, Typed, TypeOK
<1>5. ASSUME NEW c \in Closers,
             (\E D \in Closable : CloseStart(c, D)) \/ CloseDelete(c) \/ CloseFails(c)
      PROVE UNCHANGED <<KeyPool, served>>
  BY <1>5, Stutters DEF CloseStart, CloseDelete, CloseFails
<1>6. ASSUME NEW t \in Threads, UploadGone(t) \/ UploadInsert(t) \/ UploadUser(t)
                                \/ UploadRead(t) \/ \E b \in Bundle : UploadCheck(t, b)
      PROVE UNCHANGED <<KeyPool, served>>
  BY <1>6, Stutters DEF UploadGone, UploadInsert, UploadUser, UploadRead, UploadCheck
<1>7. ASSUME NEW t \in Threads, FetchRead(t) \/ FetchLock(t) \/ FetchNone(t)
                                \/ FetchAnswer(t) \/ Abort(t)
      PROVE UNCHANGED <<KeyPool, served>>
  BY <1>7, Stutters DEF FetchRead, FetchLock, FetchNone, FetchAnswer, Abort
<1>8. ASSUME NEW d \in Devices, LoginDevice(d) PROVE UNCHANGED <<KeyPool, served>>
  BY <1>8, Stutters DEF LoginDevice
<1>9. CASE UNCHANGED vars
  BY <1>9, Stutters DEF vars
<1> QED BY <1>1, <1>2, <1>3, <1>4, <1>5, <1>6, <1>7, <1>8, <1>9 DEF Next

\* The key service implements OneTimeKeys: a list is published at once, and no
\* one-time prekey of it is handed out twice.
THEOREM KeysRefine == Spec => KeysOnce
<1>1. Init => Pool!Init
  <2> SUFFICES ASSUME Init PROVE Pool!Init
    OBVIOUS
  <2>1. Exists = {} /\ served = {}
    BY DEF Init, Exists
  <2>2. KeyPool = {}
    BY <2>1, InPool
  <2> QED BY <2>1, <2>2 DEF Pool!Init, KeyPool
<1>2. KeyInv /\ KeyInv' /\ [Next]_vars => [Pool!Next]_<<KeyPool, served>>
  BY PoolStep
<1>3. KeyInv /\ KeyInv' /\ [Next]_vars => [Pool!Next]_<<UNION {Remaining(r) : r \in Exists}, served>>
  BY <1>2 DEF KeyPool
<1> QED BY <1>1, <1>3, KeyInvariant, PTL DEF Spec, KeysOnce, Pool!Spec

\* A one-time prekey that was handed out can not be handed out again.
THEOREM NeverReused == Spec => []Pool!NeverAgain
<1>1. KeyInv => Pool!NeverAgain
  <2> SUFFICES ASSUME KeyInv, NEW k \in KeyPool PROVE k \notin served
    BY DEF Pool!NeverAgain, KeyPool
  <2>1. PICK r \in Exists : \E i \in 1..rows[r].left : k = <<rows[r].batch, i>>
    BY InPool
  <2>2. rows[r].left \in 0..Size
    BY DEF KeyInv, TypeInv, Typed, TypeOK, Exists, Row
  <2> QED BY <2>1, <2>2, KeyBundlesAssumption DEF KeyInv, Counted
<1> QED BY <1>1, KeyInvariant, PTL

---------------------------------------------------------------------------
(* What overlapping uploads may do to the rows.  An upload that is not in   *)
(* met is alone from its read to its last commit, so it finds at its commit  *)
(* the row it read, and the row it wrote stays its bundle until the next     *)
(* upload.                                                                   *)

Committing == {t \in Threads : pc[t] \in {"update", "insert", "create"}}

Alone == \A t \in Uploading : up[t] \notin met => Uploading = {t}

\* Two versions of a row that differ in the keys left at most.
Same(r, s) ==
  /\ r.dev = s.dev /\ r.ident = s.ident /\ r.pre = s.pre
  /\ r.batch = s.batch /\ r.iv = s.iv /\ r.bv = s.bv

\* An upload of a device writes a row of that device; a first upload leaves the
\* device one row.
Pending(t) ==
  LET d == given[up[t]].dev IN
  /\ pc[t] = "update" =>
       /\ d # Recovery => seen[t].dev = d
       /\ up[t] \notin met /\ cur[t] \in Exists =>
            /\ Same(rows[cur[t]], seen[t])
            /\ \A r \in RowsOf(d) : r <= cur[t]
  /\ pc[t] \in {"insert", "create"} /\ d # Recovery =>
       \A r \in RowsOf(d) : rows[r].by \in met /\ up[t] \in met

Intact(r) ==
  /\ rows[r].by < next
  /\ rows[r].by \notin met => Holds(r, rows[r].by)

\* Of two rows of a device, the older one is of an upload that overlapped.
Single ==
  \A r, q \in Exists :
    q < r /\ rows[r].dev = rows[q].dev /\ rows[r].dev # Recovery => rows[q].by \in met

Apart ==
  /\ Alone /\ Single
  /\ \A t \in Committing : Pending(t)
  /\ \A r \in Exists : Intact(r)

\* A fetch that no upload overlapped took its key off the row it will load.
Answering(t) ==
  /\ got[t] # NoKey => pc[t] = "answer"
  /\ t \in Fetching \ mixed =>
       /\ Uploading = {}
       /\ got[t] # NoKey /\ cur[t] \in Exists => got[t][1] = rows[cur[t]].batch

Answers == \A t \in Threads : Answering(t)


\* Steps that write no row but take keys off it or delete it, and start no
\* upload.
LEMMA ApartKept ==
  ASSUME KeyInv, Apart, TypeInv', UNCHANGED <<given, next>>, met \subseteq met',
         \A q \in Exists' : q \in Exists /\ Same(rows'[q], rows[q]) /\ rows'[q].by = rows[q].by,
         \A s \in Uploading' : s \in Uploading /\ up'[s] = up[s],
         \A s \in Committing' :
           /\ s \in Committing /\ (pc'[s] = "update" <=> pc[s] = "update")
           /\ pc[s] = "update" => cur'[s] = cur[s] /\ seen'[s] = seen[s]
  PROVE  Apart'
<1>1. Committing \subseteq Uploading /\ Committing' \subseteq Uploading'
  BY DEF Committing, Uploading
<1>2. Alone'
  <2> SUFFICES ASSUME NEW t \in Uploading', up'[t] \notin met' PROVE Uploading' = {t}
    BY DEF Alone
  <2>1. Uploading = {t}
    BY DEF Apart, Alone
  <2> QED BY <2>1
<1>3. Single'
  BY DEF Apart, Single, Same
<1>4. ASSUME NEW r \in Exists' PROVE Intact(r)'
  <2>1. r \in Exists /\ Same(rows'[r], rows[r]) /\ rows'[r].by = rows[r].by
    OBVIOUS
  <2>2. Intact(r)
    BY <2>1 DEF Apart
  <2>3. rows'[r].by \notin met' => Holds(r, rows[r].by)'
    BY <2>1, <2>2 DEF Intact, Holds, Same
  <2> QED BY <2>1, <2>2, <2>3 DEF Intact, Same, Holds
<1>5. ASSUME NEW s \in Committing' PROVE Pending(s)'
  <2> DEFINE d == given[up[s]].dev
  <2>1. s \in Committing /\ Pending(s) /\ up'[s] = up[s]
    BY <1>1 DEF Apart
  <2>2. \A r \in RowsOf(d)' : r \in RowsOf(d) /\ rows'[r].by = rows[r].by /\ Same(rows'[r], rows[r])
    BY <2>1 DEF RowsOf, Same
  <2>3. s \in Threads
    BY DEF Committing
  <2>4. ASSUME pc'[s] = "update"
        PROVE /\ d # Recovery => seen'[s].dev = d
              /\ up[s] \notin met' /\ cur'[s] \in Exists' =>
                   /\ Same(rows'[cur'[s]], seen'[s])
                   /\ \A r \in RowsOf(d)' : r <= cur'[s]
    BY <2>1, <2>2, <2>4 DEF Pending, Same
  <2>5. ASSUME pc'[s] \in {"insert", "create"}, d # Recovery
        PROVE \A r \in RowsOf(d)' : rows'[r].by \in met' /\ up[s] \in met'
    <3>1. pc[s] \in {"insert", "create"}
      BY <2>1, <2>5 DEF Committing
    <3> QED BY <2>1, <2>2, <2>5, <3>1 DEF Pending
  <2> QED BY <2>1, <2>4, <2>5 DEF Pending, RowsOf
<1> QED BY <1>2, <1>3, <1>4, <1>5 DEF Apart

\* An upload that is let in changes nothing of those before it.
LEMMA ApartCheck ==
  ASSUME KeyInv, Apart, TypeInv', NEW t \in Threads, NEW b \in Bundle, UploadCheck(t, b)
  PROVE  Apart'
<1>1. /\ next \in Nat /\ next' = next + 1 /\ UNCHANGED <<rows, met, cur, seen>> /\ Exists' = Exists
      /\ pc[t] = "idle" /\ pc'[t] = "read" /\ \A s \in Threads : s # t => pc'[s] = pc[s]
      /\ \A s \in Threads : s # t => up'[s] = up[s]
      /\ \A u \in Uploads : u # next => given'[u] = given[u]
  BY UploadFacts DEF UploadCheck, Goto, Exists, table, KeyInv, TypeInv, Typed, TypeOK
<1>2. /\ Uploading' = Uploading /\ Committing' = Committing
      /\ \A s \in Uploading : s # t /\ up[s] \in Uploads /\ up[s] # next
  BY <1>1 DEF Uploading, Committing, KeyInv, TypeInv, Typed, Working
<1>3. Alone' /\ Single'
  BY <1>1, <1>2 DEF Apart, Alone, Single, Uploading
<1>4. ASSUME NEW r \in Exists' PROVE Intact(r)'
  <2>1. /\ Intact(r) /\ rows[r].by < next /\ rows[r].by \in Uploads
        /\ rows[r].batch < next /\ rows[r].batch \in Uploads
    BY <1>1 DEF Apart, Intact, KeyInv, Lists, TypeInv, Typed, TypeOK, Exists, Row
  <2> DEFINE u == rows[r].by
             k == rows[r].batch
  <2>2. u \in Nat /\ k \in Nat
    BY <2>1, UploadFacts
  <2> HIDE DEF u, k
  <2>3. u < next + 1 /\ u # next /\ k # next
    BY <1>1, <2>1, <2>2 DEF u, k
  <2>4. given'[u] = given[u] /\ given'[k] = given[k]
    BY <1>1, <2>1, <2>3 DEF u, k
  <2> USE DEF u, k
  <2> QED BY <1>1, <2>1, <2>3, <2>4 DEF Intact, Holds
<1>5. ASSUME NEW s \in Committing' PROVE Pending(s)'
  <2>1. s \in Committing /\ s \in Uploading /\ s \in Threads /\ Pending(s)
    BY <1>2 DEF Committing, Uploading, Apart
  <2>2. up'[s] = up[s] /\ given'[up[s]] = given[up[s]] /\ pc'[s] = pc[s]
    BY <1>1, <1>2, <2>1
  <2>3. RowsOf(given[up[s]].dev)' = RowsOf(given[up[s]].dev)
    BY <1>1, <2>2 DEF RowsOf
  <2> QED BY <1>1, <2>1, <2>2, <2>3 DEF Pending
<1> QED BY <1>3, <1>4, <1>5 DEF Apart

LEMMA ApartRead ==
  ASSUME KeyInv, Apart, TypeInv', NEW t \in Threads, UploadRead(t)
  PROVE  Apart'
<1> DEFINE d == given[up[t]].dev
<1>1. /\ t \notin Uploading /\ UNCHANGED <<next, given, rows, up>> /\ Exists' = Exists
      /\ met \subseteq met' /\ InFlight \subseteq met'
      /\ InFlight # {} => up[t] \in met'
      /\ pc'[t] \in {"insert", "update"}
  BY DEF UploadRead, Uploading, Exists, table, KeyInv, TypeInv, Typed, TypeOK
<1>2. \A s \in Threads : s # t => pc'[s] = pc[s] /\ cur'[s] = cur[s] /\ seen'[s] = seen[s]
  BY DEF UploadRead, KeyInv, TypeInv, Typed, TypeOK
<1>3. \A s \in Uploading : up[s] \in met'
  BY <1>1 DEF InFlight
<1>4. Uploading' = Uploading \cup {t}
  BY <1>1, <1>2 DEF Uploading
<1>5. Alone'
  <2> SUFFICES ASSUME NEW s \in Uploading', up'[s] \notin met' PROVE Uploading' = {s}
    BY DEF Alone
  <2>1. s = t
    BY <1>1, <1>3, <1>4
  <2>2. Uploading = {}
    BY <1>1, <2>1 DEF InFlight
  <2> QED BY <1>4, <2>1, <2>2
<1>6. Single'
  BY <1>1 DEF Apart, Single
<1>7. ASSUME NEW r \in Exists' PROVE Intact(r)'
  BY <1>1 DEF Apart, Intact, Holds
<1>8. ASSUME NEW s \in Committing' PROVE Pending(s)'
  <2>1. CASE s # t
    <3>1. s \in Committing /\ s \in Uploading /\ Pending(s)
      BY <1>2, <2>1 DEF Committing, Uploading, Apart
    <3>2. up[s] \in met' /\ pc'[s] = pc[s] /\ seen'[s] = seen[s]
      BY <1>2, <1>3, <2>1, <3>1 DEF Committing
    <3>3. RowsOf(given[up[s]].dev)' = RowsOf(given[up[s]].dev)
      BY <1>1 DEF RowsOf
    <3> QED BY <1>1, <3>1, <3>2, <3>3 DEF Pending
  <2>2. CASE s = t
    <3>2. ASSUME pc'[t] = "update"
          PROVE /\ cur'[t] \in RowsOf(d) /\ seen'[t] = rows[cur'[t]]
                /\ \A r \in RowsOf(d) : r <= cur'[t]
      BY <3>2 DEF UploadRead, KeyInv, TypeInv, Typed, TypeOK, Latest
    <3>3. ASSUME pc'[t] = "insert" PROVE RowsOf(d) = {}
      BY <3>3 DEF UploadRead, KeyInv, TypeInv, Typed, TypeOK
    <3>4. RowsOf(d)' = RowsOf(d)
      BY <1>1 DEF RowsOf
    <3> QED BY <1>1, <2>2, <3>2, <3>3, <3>4 DEF Pending, RowsOf, Same
  <2> QED BY <2>1, <2>2
<1> QED BY <1>5, <1>6, <1>7, <1>8 DEF Apart

\* The versions and the bundle an upload writes on a row that it finds as it
\* read it.
LEMMA WrittenWhole ==
  ASSUME NEW r \in Row, NEW s \in Row, NEW u \in Uploads, given[u] \in Bundle, Same(r, s)
  PROVE  LET w == Written(r, s, u) IN
         /\ w.dev = given[u].dev /\ w.ident = given[u].ident /\ w.pre = given[u].pre
         /\ w.bv = r.bv + 1 /\ w.iv = r.iv + (IF w.ident = r.ident THEN 0 ELSE 1)
         /\ given[w.batch].pre = given[u].pre
BY DEF Written, Assigned, Column, SameList, Same, Row

\* What an upload writes to a row keeps its device, or takes it for the
\* recovery token.
LEMMA WrittenDevice ==
  ASSUME NEW r \in Row, NEW s \in Row, NEW u \in Uploads, given[u] \in Bundle,
         given[u].dev # Recovery => s.dev = given[u].dev
  PROVE  /\ Written(r, s, u).by = u
         /\ Written(r, s, u).dev # Recovery => Written(r, s, u).dev = r.dev
BY DEF Written, Assigned, Column

LEMMA ApartUpdate ==
  ASSUME KeyInv, Apart, TypeInv', NEW t \in Threads, UploadUpdate(t)
  PROVE  Apart'
<1> DEFINE c == cur[t]
           u == up[t]
           d == given[u].dev
           w == Written(rows[c], seen[t], u)
<1>1. /\ t \in Committing /\ t \in Uploading /\ pc[t] = "update"
      /\ c \in Uploads /\ c \in Exists /\ rows[c] \in Row /\ seen[t] \in Row /\ w \in Row
      /\ u \in Uploads /\ u < next /\ given[u] \in Bundle /\ Pending(t)
  BY WrittenType
     DEF UploadUpdate, Goto, Committing, Uploading, KeyInv, TypeInv, Typed, TypeOK, Working,
          Exists, Apart
<1>2. /\ UNCHANGED <<next, given, met, up, cur>>
      /\ rows'[c] = w /\ \A q \in Uploads : q # c => rows'[q] = rows[q]
      /\ Exists' = Exists
  BY <1>1, UpdatedRow DEF UploadUpdate, KeyInv, TypeInv, Typed, TypeOK, history
<1>3. /\ Uploading' = Uploading
      /\ \A s \in Committing' :
           s \in Committing /\ s # t /\ pc'[s] = pc[s] /\ seen'[s] = seen[s]
  BY <1>1 DEF UploadUpdate, Expire, Goto, Uploading, Committing, KeyInv, TypeInv, Typed, TypeOK
<1>4. w.by = u /\ (w.dev # Recovery => w.dev = rows[c].dev)
  BY <1>1, WrittenDevice DEF Pending
<1>5. ASSUME u \notin met
      PROVE  /\ w.dev = d /\ w.ident = given[u].ident /\ w.pre = given[u].pre
             /\ given[w.batch].pre = given[u].pre
             /\ \A r \in RowsOf(d) : r <= c
  BY <1>1, <1>5, WrittenWhole DEF Pending
<1>6. c' = c /\ u' = u
  BY <1>2
<1> HIDE DEF w, c, u
<1>7. Alone'
  BY <1>2, <1>3 DEF Apart, Alone
<1>8. Single'
  <2> SUFFICES ASSUME NEW r \in Exists, NEW q \in Exists, q < r,
                      rows'[r].dev = rows'[q].dev, rows'[r].dev # Recovery,
                      rows'[q].by \notin met
               PROVE  FALSE
    BY <1>2 DEF Single
  <2>1. rows'[r].dev = rows[r].dev /\ rows'[q].dev = rows[q].dev
    BY <1>2, <1>4 DEF Exists
  <2>2. CASE q # c
    BY <1>2, <2>1, <2>2 DEF Exists, Apart, Single
  <2>3. CASE q = c
    <3>1. u \notin met
      BY <1>2, <1>4, <2>3
    <3>2. r \in RowsOf(d)
      BY <1>2, <1>5, <2>1, <2>3, <3>1 DEF RowsOf
    <3>3. r <= c
      BY <1>5, <3>1, <3>2
    <3>4. r \in Nat /\ q \in Nat
      BY UploadFacts DEF Exists
    <3> QED BY <2>3, <3>3, <3>4
  <2> QED BY <2>2, <2>3
<1>9. ASSUME NEW r \in Exists' PROVE Intact(r)'
  <2>1. CASE r # c
    <3>1. Intact(r) /\ rows'[r] = rows[r]
      BY <1>2, <2>1 DEF Exists, Apart
    <3> QED BY <1>2, <3>1 DEF Intact, Holds
  <2>2. CASE r = c
    <3>1. given[u] = [dev |-> given[u].dev, ident |-> given[u].ident, pre |-> given[u].pre]
      BY <1>1 DEF Bundle
    <3>2. u \notin met => Holds(c, u)'
      BY <1>2, <1>5, <1>6, <3>1 DEF Holds
    <3> QED BY <1>1, <1>2, <1>4, <1>5, <1>6, <2>2, <3>2 DEF Intact
  <2> QED BY <2>1, <2>2
<1>10. ASSUME NEW s \in Committing' PROVE Pending(s)'
  <2>1. /\ s \in Committing /\ s # t /\ Pending(s) /\ pc'[s] = pc[s] /\ seen'[s] = seen[s]
        /\ s \in Uploading
    BY <1>3 DEF Apart, Committing, Uploading
  <2>2. up[s] \in met /\ u \in met
    BY <1>1, <2>1 DEF Apart, Alone, u
  <2>3. ASSUME pc[s] \in {"insert", "create"}, given[up[s]].dev # Recovery,
               NEW r \in RowsOf(given[up[s]].dev)'
        PROVE  rows'[r].by \in met
    <3>1. CASE r = c
      BY <1>2, <1>4, <2>2, <3>1
    <3>2. CASE r # c
      <4>1. r \in RowsOf(given[up[s]].dev) /\ rows'[r] = rows[r]
        BY <1>2, <2>3, <3>2 DEF RowsOf, Exists
      <4> QED BY <2>1, <2>3, <4>1 DEF Pending
    <3> QED BY <3>1, <3>2
  <2> QED BY <1>2, <2>1, <2>2, <2>3 DEF Pending
<1> QED BY <1>7, <1>8, <1>9, <1>10 DEF Apart

LEMMA ApartCreate ==
  ASSUME KeyInv, Apart, TypeInv', NEW t \in Threads, UploadCreate(t)
  PROVE  Apart'
<1> DEFINE c == cur[t]
           u == up[t]
           d == given[u].dev
<1>1. /\ t \in Committing /\ t \in Uploading /\ pc[t] = "create"
      /\ u \in Uploads /\ u < next /\ given[u] \in Bundle /\ Pending(t)
  BY DEF UploadCreate, Goto, Committing, Uploading, KeyInv, TypeInv, Typed, Working, Apart
<1>2. /\ UNCHANGED <<next, given, met, up, cur, seen>>
      /\ c \in Uploads \ Exists /\ Exists' = Exists \cup {c}
      /\ \A q \in Uploads : q # c => rows'[q] = rows[q]
  BY CreatedRow DEF UploadCreate, KeyInv, session, history
<1>3. /\ Uploading' = Uploading
      /\ \A s \in Committing' : s \in Committing /\ s # t /\ pc'[s] = pc[s]
  BY <1>1 DEF UploadCreate, Goto, Uploading, Committing, KeyInv, TypeInv, Typed, TypeOK
<1>4. rows'[c] = Created(u)
  BY <1>2 DEF UploadCreate, KeyInv, TypeInv, Typed, TypeOK
<1>5. d # Recovery => \A r \in RowsOf(d) : rows[r].by \in met /\ u \in met
  BY <1>1 DEF Pending
<1>6. c' = c /\ u' = u
  BY <1>2
<1> HIDE DEF c, u
<1>7. Alone'
  BY <1>2, <1>3 DEF Apart, Alone
<1>8. Single'
  <2> SUFFICES ASSUME NEW r \in Exists', NEW q \in Exists', q < r,
                      rows'[r].dev = rows'[q].dev, rows'[r].dev # Recovery,
                      rows'[q].by \notin met
               PROVE  FALSE
    BY <1>2 DEF Single
  <2>1. q # r
    BY UploadFacts DEF Exists
  <2>2. CASE q # c /\ r # c
    BY <1>2, <2>2 DEF Exists, Apart, Single
  <2>3. CASE q = c
    BY <1>2, <1>4, <1>5, <2>1, <2>3 DEF Created, RowsOf, Exists
  <2>4. CASE r = c
    BY <1>2, <1>4, <1>5, <2>1, <2>4 DEF Created, RowsOf, Exists
  <2> QED BY <2>2, <2>3, <2>4
<1>9. ASSUME NEW r \in Exists' PROVE Intact(r)'
  <2>1. CASE r # c
    <3>1. Intact(r) /\ rows'[r] = rows[r]
      BY <1>2, <2>1 DEF Exists, Apart
    <3> QED BY <1>2, <3>1 DEF Intact, Holds
  <2>2. CASE r = c
    <3>1. given[u] = [dev |-> given[u].dev, ident |-> given[u].ident, pre |-> given[u].pre]
      BY <1>1 DEF Bundle
    <3>2. Holds(c, u)'
      BY <1>2, <1>4, <1>6, <3>1 DEF Holds, Created
    <3> QED BY <1>1, <1>2, <1>4, <1>6, <2>2, <3>2 DEF Intact, Created
  <2> QED BY <2>1, <2>2
<1>10. ASSUME NEW s \in Committing' PROVE Pending(s)'
  <2>1. /\ s \in Committing /\ s # t /\ Pending(s) /\ pc'[s] = pc[s]
        /\ s \in Uploading
    BY <1>3 DEF Apart, Committing, Uploading
  <2>2. up[s] \in met /\ u \in met
    BY <1>1, <2>1 DEF Apart, Alone, u
  <2>3. ASSUME pc[s] \in {"insert", "create"}, given[up[s]].dev # Recovery,
               NEW r \in RowsOf(given[up[s]].dev)'
        PROVE  rows'[r].by \in met
    <3>1. CASE r = c
      BY <1>4, <2>2, <3>1 DEF Created
    <3>2. CASE r # c
      <4>1. r \in RowsOf(given[up[s]].dev) /\ rows'[r] = rows[r]
        BY <1>2, <2>3, <3>2 DEF RowsOf, Exists
      <4> QED BY <2>1, <2>3, <4>1 DEF Pending
    <3> QED BY <3>1, <3>2
  <2> QED BY <1>2, <2>1, <2>2, <2>3 DEF Pending
<1> QED BY <1>7, <1>8, <1>9, <1>10 DEF Apart

\* Taking a key changes nothing else of the rows.
LEMMA TakenRow ==
  ASSUME KeyInv, NEW t \in Threads, pc[t] = "locked", seen[t].left > 0, Pop(t)
  PROVE  /\ Exists' = Exists
         /\ \A q \in Exists : Same(rows'[q], rows[q]) /\ rows'[q].by = rows[q].by
<1>1. /\ Exists' = Exists /\ cur[t] \in Exists
      /\ \A q \in Uploads : q # cur[t] => rows'[q] = rows[q]
  BY PoppedRow DEF KeyInv
<1>2. /\ seen[t] \in Row /\ rows[cur[t]] = seen[t] /\ cur[t] \in Uploads
      /\ rows' = [rows EXCEPT ![cur[t]] = [seen[t] EXCEPT !.left = seen[t].left - 1]]
  BY Popped DEF KeyInv
<1>3. rows'[cur[t]] = [seen[t] EXCEPT !.left = seen[t].left - 1]
  BY <1>2 DEF KeyInv, TypeInv, Typed, TypeOK
<1>4. Same(rows'[cur[t]], rows[cur[t]]) /\ rows'[cur[t]].by = rows[cur[t]].by
  BY <1>2, <1>3 DEF Same, Row
<1> QED BY <1>1, <1>4 DEF Same, Exists

LEMMA ApartStep ==
  ASSUME KeyInv, Apart, TypeInv', [Next]_vars
  PROVE  Apart'
<1> DEFINE Quiet == \A s \in Committing' :
                      /\ s \in Committing /\ (pc'[s] = "update" <=> pc[s] = "update")
                      /\ pc[s] = "update" => cur'[s] = cur[s] /\ seen'[s] = seen[s]
           Still == \A s \in Uploading' : s \in Uploading /\ up'[s] = up[s]
<1>1. \A r \in Exists : Same(rows[r], rows[r])
  BY DEF Same
<1>2. \A s \in Committing' : s \in Uploading'
  BY DEF Committing, Uploading
<1>3. ASSUME Quiet, Still, UNCHANGED <<given, next, rows, met>>
      PROVE  Apart'
  BY <1>1, <1>3, ApartKept DEF Exists
<1>4. ASSUME Quiet, Still, UNCHANGED <<given, next, met>>, NEW gone \in SUBSET Uploads, Drop(gone)
      PROVE  Apart'
  BY <1>1, <1>4, DroppedRows, ApartKept DEF KeyInv
<1>5. ASSUME NEW t \in Threads,
             UploadGone(t) \/ UploadUser(t) \/ FetchNone(t) \/ FetchAnswer(t) \/ Abort(t)
      PROVE  Apart'
  <2>1. Finish(t) /\ UNCHANGED <<next, given, rows, met>>
    BY <1>5 DEF UploadGone, UploadUser, FetchNone, FetchAnswer, Abort, table, history
  <2>2. /\ \A s \in Uploading' : s # t /\ s \in Threads
        /\ \A s \in Threads : s # t =>
             pc'[s] = pc[s] /\ up'[s] = up[s] /\ cur'[s] = cur[s] /\ seen'[s] = seen[s]
    BY <2>1 DEF Finish, Uploading, KeyInv, TypeInv, Typed, TypeOK
  <2>3. Quiet /\ Still
    BY <1>2, <2>2 DEF Committing, Uploading
  <2> QED BY <1>3, <2>1, <2>3
<1>6. ASSUME NEW t \in Threads, UploadInsert(t) \/ FetchRead(t) \/ FetchLock(t) PROVE Apart'
  <2>1. /\ UNCHANGED <<next, given, rows, met, up>>
        /\ pc'[t] # "update" /\ (t \in Committing' => t \in Committing /\ pc[t] = "insert")
        /\ t \in Uploading' => t \in Uploading
        /\ \A s \in Threads : s # t => pc'[s] = pc[s] /\ cur'[s] = cur[s] /\ seen'[s] = seen[s]
    BY <1>6 DEF UploadInsert, FetchRead, FetchLock, Goto, table, history, Committing,
         Uploading, KeyInv, TypeInv, Typed, TypeOK
  <2>2. Quiet /\ Still
    BY <2>1 DEF Committing, Uploading
  <2> QED BY <1>3, <2>1, <2>2
<1>7. ASSUME NEW t \in Threads, FetchCommit(t) PROVE Apart'
  <2>1. /\ pc[t] = "locked" /\ UNCHANGED <<next, given, met, up, cur>>
        /\ pc' = [pc EXCEPT ![t] = "answer"] /\ seen' = [seen EXCEPT ![t] = NoRow]
    BY <1>7 DEF FetchCommit, Goto, Expire
  <2>2. Quiet /\ Still
    BY <2>1 DEF Committing, Uploading, KeyInv, TypeInv, Typed, TypeOK
  <2>3. CASE UNCHANGED <<rows, got, served>>
    BY <1>3, <2>1, <2>2, <2>3
  <2>4. CASE seen[t].left > 0 /\ Pop(t)
    BY <1>1, <2>1, <2>2, <2>4, TakenRow, ApartKept
  <2> QED BY <1>7, <2>3, <2>4 DEF FetchCommit
<1>8. ASSUME NEW c \in Closers,
             \/ \E D \in Closable : CloseStart(c, D)
             \/ CloseDelete(c) \/ CloseCommit(c) \/ CloseFails(c)
      PROVE  Apart'
  <2>1. UNCHANGED <<next, given, met, pc, up, cur, seen>>
    BY <1>8 DEF CloseStart, CloseDelete, CloseCommit, CloseFails, session, history
  <2>2. Quiet /\ Still
    BY <2>1 DEF Committing, Uploading
  <2>3. rows' = rows \/ \E gone \in SUBSET Uploads : Drop(gone)
    BY <1>8 DEF CloseStart, CloseDelete, CloseCommit, CloseFails, table, KeyInv, TypeInv,
       Typed, TypeOK
  <2> QED BY <1>3, <1>4, <2>1, <2>2, <2>3
<1>9. ASSUME NEW d \in Devices, LoginDevice(d) PROVE Apart'
  <2>1. UNCHANGED <<next, given, rows, met, pc, up, cur, seen>>
    BY <1>9 DEF LoginDevice, table, session, history
  <2>2. Quiet /\ Still
    BY <2>1 DEF Committing, Uploading
  <2> QED BY <1>3, <2>1, <2>2
<1>10. CASE UNCHANGED vars
  <2>1. Quiet /\ Still
    BY <1>10 DEF vars, Committing, Uploading
  <2> QED BY <1>3, <1>10, <2>1 DEF vars
<1> HIDE DEF Quiet, Still
<1> QED
  BY <1>5, <1>6, <1>7, <1>8, <1>9, <1>10, ApartCheck, ApartRead, ApartUpdate, ApartCreate
     DEF Next

LEMMA AnswerStep ==
  ASSUME KeyInv, Apart, Answers, TypeInv', [Next]_vars
  PROVE  Answers'
<1>1. \A t \in Threads : Answering(t)
  BY DEF Answers
<1> SUFFICES ASSUME NEW s \in Threads PROVE Answering(s)'
  BY DEF Answers
<1>2. ASSUME UNCHANGED <<rows, mixed, pc, cur, got>> PROVE Answering(s)'
  BY <1>1, <1>2 DEF Answering, Fetching, Uploading, Exists
<1>12. ASSUME NEW t \in Threads, NEW b \in Bundle, UploadCheck(t, b) PROVE Answering(s)'
  <2>1. /\ pc'[t] = "read" /\ pc[t] = "idle" /\ UNCHANGED <<rows, cur, got, mixed>>
        /\ \A r \in Threads : r # t => pc'[r] = pc[r]
    BY <1>12 DEF UploadCheck, Goto, table, KeyInv, TypeInv, Typed, TypeOK
  <2> QED BY <1>1, <2>1 DEF Answering, Fetching, Uploading, Exists
<1>3. ASSUME NEW t \in Threads, UploadRead(t) PROVE Answering(s)'
  <2>1. pc'[t] \in {"insert", "update"} /\ pc[t] = "read" /\ got' = got
        /\ mixed' = mixed \cup Fetching /\ \A r \in Threads : r # t => pc'[r] = pc[r]
    BY <1>3 DEF UploadRead, KeyInv, TypeInv, Typed, TypeOK
  <2>2. Fetching' \subseteq Fetching
    BY <2>1 DEF Fetching
  <2> QED BY <1>1, <2>1, <2>2 DEF Answering
<1>4. ASSUME NEW t \in Threads, UploadUpdate(t) \/ UploadInsert(t) \/ UploadCreate(t)
      PROVE  Answering(s)'
  <2>1. t \in Uploading /\ UNCHANGED <<got, mixed>> /\ pc'[t] \notin {"answer", "fetch", "locked"}
        /\ \A r \in Threads : r # t => pc'[r] = pc[r]
    BY <1>4 DEF UploadUpdate, UploadInsert, UploadCreate, Goto, Uploading, session, history,
         KeyInv, TypeInv, Typed, TypeOK
  <2> QED BY <1>1, <2>1 DEF Answering, Fetching, Uploading
<1>5. ASSUME NEW t \in Threads,
             UploadGone(t) \/ UploadUser(t) \/ FetchNone(t) \/ FetchAnswer(t) \/ Abort(t)
      PROVE  Answering(s)'
  <2>1. Finish(t) /\ rows' = rows
    BY <1>5 DEF UploadGone, UploadUser, FetchNone, FetchAnswer, Abort, table
  <2>2. /\ pc'[t] = "idle" /\ got'[t] = NoKey /\ mixed' = mixed \ {t}
        /\ \A r \in Threads : r # t => pc'[r] = pc[r] /\ got'[r] = got[r] /\ cur'[r] = cur[r]
    BY <2>1 DEF Finish, KeyInv, TypeInv, Typed, TypeOK
  <2> QED BY <1>1, <2>1, <2>2 DEF Answering, Fetching, Uploading, Exists
<1>6. ASSUME NEW t \in Threads, FetchRead(t) PROVE Answering(s)'
  <2>1. /\ pc[t] = "idle" /\ pc'[t] = "fetch" /\ UNCHANGED <<rows, cur, got>>
        /\ mixed' = IF Uploading = {} THEN mixed ELSE mixed \cup {t}
        /\ \A r \in Threads : r # t => pc'[r] = pc[r]
    BY <1>6 DEF FetchRead, Goto, table, KeyInv, TypeInv, Typed, TypeOK
  <2> QED BY <1>1, <2>1 DEF Answering, Fetching, Uploading, Exists
<1>7. ASSUME NEW t \in Threads, FetchLock(t) PROVE Answering(s)'
  <2>1. /\ pc[t] = "fetch" /\ pc'[t] = "locked" /\ UNCHANGED <<rows, got, mixed>>
        /\ \A r \in Threads : r # t => pc'[r] = pc[r] /\ cur'[r] = cur[r]
    BY <1>7 DEF FetchLock, Goto, table, history, KeyInv, TypeInv, Typed, TypeOK
  <2> QED BY <1>1, <2>1 DEF Answering, Fetching, Uploading, Exists
<1>8. ASSUME NEW t \in Threads, FetchCommit(t) PROVE Answering(s)'
  <2>1. /\ pc[t] = "locked" /\ pc'[t] = "answer" /\ UNCHANGED <<mixed, cur>>
        /\ \A r \in Threads : r # t => pc'[r] = pc[r]
        /\ Uploading' = Uploading
    BY <1>8 DEF FetchCommit, Goto, Uploading, KeyInv, TypeInv, Typed, TypeOK
  <2>2. CASE UNCHANGED <<rows, got, served>>
    BY <1>1, <2>1, <2>2 DEF Answering, Fetching, Exists
  <2>3. CASE seen[t].left > 0 /\ Pop(t)
    <3>1. /\ Exists' = Exists /\ cur[t] \in Exists
          /\ \A q \in Uploads : q # cur[t] => rows'[q] = rows[q]
          /\ rows'[cur[t]].batch = rows[cur[t]].batch /\ rows[cur[t]] = seen[t]
      BY <2>1, <2>3, PoppedRow, Popped DEF KeyInv
    <3>2. /\ got'[t] = <<seen[t].batch, seen[t].left>>
          /\ \A r \in Threads : r # t => got'[r] = got[r]
      BY <2>3 DEF Pop, KeyInv, TypeInv, Typed, TypeOK
    <3>3. \A r \in Exists : rows'[r].batch = rows[r].batch
      BY <3>1 DEF Exists
    <3>4. got'[t][1] = rows[cur[t]].batch
      BY <3>1, <3>2
    <3> QED BY <1>1, <2>1, <3>1, <3>2, <3>3, <3>4 DEF Answering, Fetching
  <2> QED BY <1>8, <2>2, <2>3 DEF FetchCommit
<1>9. ASSUME NEW c \in Closers, CloseCommit(c) PROVE Answering(s)'
  <2>1. PICK gone \in SUBSET Uploads : Drop(gone)
    BY <1>9 DEF CloseCommit, KeyInv, TypeInv, Typed, TypeOK
  <2>2. Exists' \subseteq Exists /\ \A r \in Exists' : rows'[r] = rows[r]
    BY <2>1, DroppedRows DEF KeyInv
  <2>3. UNCHANGED <<pc, cur, got, mixed>>
    BY <1>9 DEF CloseCommit, session
  <2> QED BY <1>1, <2>2, <2>3 DEF Answering, Fetching, Uploading
<1>13. ASSUME NEW c \in Closers,
              (\E D \in Closable : CloseStart(c, D)) \/ CloseDelete(c) \/ CloseFails(c)
       PROVE  Answering(s)'
  BY <1>2, <1>13 DEF CloseStart, CloseDelete, CloseFails, table, session, history
<1>10. ASSUME NEW d \in Devices, LoginDevice(d) PROVE Answering(s)'
  BY <1>2, <1>10 DEF LoginDevice, table, session, history
<1>11. CASE UNCHANGED vars
  BY <1>2, <1>11 DEF vars
<1> QED
  BY <1>3, <1>4, <1>5, <1>6, <1>7, <1>8, <1>9, <1>10, <1>11, <1>12, <1>13 DEF Next

---------------------------------------------------------------------------
(* What becomes of the rows of a revoked device.  The DELETE takes the rows  *)
(* it found unless an upload of the recovery token made one its own, which   *)
(* only a deletion of the account takes; what it did not find is written by  *)
(* uploads that had no row when it began, and those are late.                *)

\* An upload with this device_id is not let in.
Shut(d) == ~live \/ d \notin active \cup {Recovery}

\* The rows of d are deleted, or are being deleted without row r.
Spared(r, d) == Shut(d) \/ \E c \in Closers : d \in closes[c] /\ r \notin doomed[c]

\* The device of the row an upload found, once the upload has written it.
Target(t) == IF given[up[t]].dev = Recovery THEN Recovery ELSE rows[cur[t]].dev

Entering(t) ==
  pc[t] \in {"read", "insert", "create"} =>
    (Shut(given[up[t]].dev) \/ given[up[t]].dev \in Closing => up[t] \in late)

Found(t) ==
  pc[t] = "update" =>
    /\ cur[t] < ids
    /\ \A s \in Threads : pc[s] = "create" => cur[s] # cur[t]
    /\ cur[t] \in Exists =>
         /\ seen[t].dev = Recovery => rows[cur[t]].dev = Recovery
         /\ Spared(cur[t], Target(t)) => up[t] \in late

Swept(r) == Spared(r, rows[r].dev) => rows[r].by \in late

Late ==
  /\ \A t \in Threads : Entering(t) /\ Found(t)
  /\ \A r \in Exists : Swept(r)

\* Whoever deletes the rows without a device deletes those of every device.
LEMMA SparedRecovery ==
  ASSUME TypeInv, NEW r, NEW d \in Devices \cup {Recovery}, Spared(r, Recovery)
  PROVE  Spared(r, d)
<1>1. \A c \in Closers : Recovery \in closes[c] => closes[c] = Devices \cup {Recovery}
  BY KeyBundlesAssumption DEF TypeInv, Typed, TypeOK, Closable
<1> QED BY <1>1 DEF Spared, Shut

\* Steps after which no more rows are spared, and which start no upload and give
\* no row to another device or upload.
LEMMA LateKept ==
  ASSUME KeyInv, Late, ids' = ids, given' = given, late \subseteq late',
         \A r \in Exists' : r \in Exists /\ rows'[r].dev = rows[r].dev /\ rows'[r].by = rows[r].by,
         \A s \in Threads : pc'[s] \in {"read", "insert", "create"} =>
           pc'[s] = pc[s] /\ up'[s] = up[s] /\ (pc[s] = "create" => cur'[s] = cur[s]),
         \A s \in Threads : pc'[s] = "update" =>
           pc[s] = "update" /\ up'[s] = up[s] /\ cur'[s] = cur[s] /\ seen'[s] = seen[s],
         \A r \in Exists' : \A d \in {rows[r].dev, Recovery} : Spared(r, d)' => Spared(r, d),
         \A s \in Threads : pc'[s] \in {"read", "insert", "create"} =>
           (Shut(given[up[s]].dev)' \/ given[up[s]].dev \in Closing' =>
              Shut(given[up[s]].dev) \/ given[up[s]].dev \in Closing \/ up[s] \in late')
  PROVE  Late'
<1>1. ASSUME NEW s \in Threads PROVE Entering(s)'
  BY DEF Late, Entering, Shut
<1>2. ASSUME NEW s \in Threads PROVE Found(s)'
  <2> SUFFICES ASSUME pc'[s] = "update" PROVE Found(s)'
    BY DEF Found
  <2>1. pc[s] = "update" /\ up'[s] = up[s] /\ cur'[s] = cur[s] /\ seen'[s] = seen[s]
    OBVIOUS
  <2>2. Found(s)
    BY DEF Late
  <2>3. ASSUME cur[s] \in Exists'
        PROVE /\ seen[s].dev = Recovery => rows'[cur[s]].dev = Recovery
              /\ Spared(cur[s], Target(s))' => up[s] \in late'
    <3>1. /\ cur[s] \in Exists /\ rows'[cur[s]].dev = rows[cur[s]].dev
          /\ Target(s)' = Target(s) /\ Target(s) \in {rows[cur[s]].dev, Recovery}
      BY <2>1, <2>3 DEF Target
    <3>2. Spared(cur[s], Target(s))' => Spared(cur[s], Target(s))
      BY <2>1, <2>3, <3>1 DEF Spared, Shut
    <3> QED BY <2>1, <2>2, <3>1, <3>2 DEF Found
  <2> QED BY <2>1, <2>2, <2>3 DEF Found
<1>3. ASSUME NEW r \in Exists' PROVE Swept(r)'
  <2>1. Swept(r) /\ (Spared(r, rows[r].dev)' => Spared(r, rows[r].dev))
    BY DEF Late
  <2> QED BY <2>1 DEF Swept, Spared, Shut
<1> QED BY <1>1, <1>2, <1>3 DEF Late

LEMMA LateCheck ==
  ASSUME KeyInv, Late, TypeInv', NEW t \in Threads, NEW b \in Bundle, UploadCheck(t, b),
         \A r \in Exists : Intact(r)
  PROVE  Late'
<1>1. /\ next \in Nat /\ UNCHANGED <<rows, ids, cur, seen, active, live, closes, doomed>>
      /\ Exists' = Exists /\ pc[t] = "idle" /\ pc'[t] = "read" /\ up'[t] = next
      /\ given'[next] = b /\ ~Shut(b.dev) /\ (b.dev \in Closing => next \in late')
      /\ late \subseteq late' /\ \A s \in Threads : s # t => pc'[s] = pc[s] /\ up'[s] = up[s]
      /\ \A u \in Uploads : u # next => given'[u] = given[u]
  BY UploadFacts DEF UploadCheck, MayUpload, Shut, Goto, Exists, table, user, closing,
     KeyInv, TypeInv, Typed, TypeOK
<1>2. ASSUME NEW s \in Threads, s # t, pc[s] \in {"read", "update", "insert", "create"}
      PROVE  up'[s] = up[s] /\ given'[up[s]] = given[up[s]]
  <2>1. up[s] \in Uploads /\ up[s] # next
    BY <1>1, <1>2 DEF KeyInv, TypeInv, Typed, Working, Uploading
  <2> QED BY <1>1, <1>2, <2>1
<1>3. ASSUME NEW s \in Threads PROVE Entering(s)'
  <2>1. CASE s = t
    BY <1>1, <2>1 DEF Entering, Shut, Closing
  <2>2. CASE s # t
    BY <1>1, <1>2, <2>2 DEF Late, Entering, Shut, Closing
  <2> QED BY <2>1, <2>2
<1>4. ASSUME NEW s \in Threads PROVE Found(s)'
  <2> SUFFICES ASSUME pc'[s] = "update" PROVE Found(s)'
    BY DEF Found
  <2>1. s # t /\ pc[s] = "update" /\ Found(s) /\ up'[s] = up[s] /\ Target(s)' = Target(s)
    BY <1>1, <1>2 DEF Late, Target
  <2> QED BY <1>1, <2>1 DEF Found, Spared, Shut
<1>5. ASSUME NEW r \in Exists' PROVE Swept(r)'
  BY <1>1 DEF Late, Swept, Spared, Shut
<1> QED BY <1>3, <1>4, <1>5 DEF Late

LEMMA LateRead ==
  ASSUME KeyInv, Late, TypeInv', NEW t \in Threads, UploadRead(t)
  PROVE  Late'
<1>1. /\ UNCHANGED <<given, rows, ids, active, live, up, closes, doomed, late>> /\ Exists' = Exists
      /\ pc[t] = "read" /\ pc'[t] \in {"insert", "update"}
      /\ \A s \in Threads : s # t => pc'[s] = pc[s] /\ cur'[s] = cur[s] /\ seen'[s] = seen[s]
  BY DEF UploadRead, Exists, table, user, closing, KeyInv, TypeInv, Typed, TypeOK
<1>2. ASSUME NEW s \in Threads PROVE Entering(s)'
  BY <1>1 DEF Late, Entering, Shut, Closing
<1>3. ASSUME NEW s \in Threads, s # t PROVE Found(s)'
  <2> SUFFICES ASSUME pc'[s] = "update" PROVE Found(s)'
    BY DEF Found
  <2>1. pc[s] = "update" /\ Found(s) /\ cur'[s] = cur[s] /\ seen'[s] = seen[s]
        /\ Target(s)' = Target(s)
    BY <1>1, <1>3 DEF Late, Target
  <2>2. \A q \in Threads : pc'[q] = "create" => pc[q] = "create" /\ cur'[q] = cur[q]
    BY <1>1
  <2> QED BY <1>1, <2>1, <2>2 DEF Found, Spared, Shut
<1>4. Found(t)'
  <2> SUFFICES ASSUME pc'[t] = "update" PROVE Found(t)'
    BY DEF Found
  <2> DEFINE d == given[up[t]].dev
  <2>1. PICK r \in RowsOf(d) : cur'[t] = r /\ seen'[t] = rows[r]
    BY DEF UploadRead, Latest, KeyInv, TypeInv, Typed, TypeOK
  <2>2. r \in Exists /\ (d = Recovery \/ rows[r].dev = d)
    BY <2>1 DEF RowsOf
  <2>3. r < ids /\ \A s \in Threads : pc'[s] = "create" => cur'[s] # r
    BY <1>1, <2>2 DEF KeyInv, TypeInv, Fresh, Exists
  <2>4. Target(t)' = d
    BY <1>1, <2>1, <2>2 DEF Target
  <2>5. Spared(r, d) => up[t] \in late
    BY <1>1 DEF Spared, Closing, Late, Entering
  <2>6. Spared(cur[t], Target(t))' => Spared(r, d)
    BY <1>1, <2>1, <2>4 DEF Spared, Shut
  <2> HIDE DEF d
  <2> QED BY <1>1, <2>1, <2>3, <2>5, <2>6 DEF Found
<1>5. ASSUME NEW r \in Exists' PROVE Swept(r)'
  BY <1>1 DEF Late, Swept, Spared, Shut
<1> QED BY <1>2, <1>3, <1>4, <1>5 DEF Late

LEMMA LateUpdate ==
  ASSUME KeyInv, Apart, Late, TypeInv', NEW t \in Threads, UploadUpdate(t)
  PROVE  Late'
<1> DEFINE c == cur[t]
           w == Written(rows[c], seen[t], up[t])
<1>1. /\ pc[t] = "update" /\ c \in Uploads /\ c \in Exists /\ rows[c] \in Row /\ seen[t] \in Row
      /\ w \in Row /\ up[t] \in Uploads /\ given[up[t]] \in Bundle /\ Pending(t) /\ Found(t)
  BY WrittenType
     DEF UploadUpdate, Goto, Committing, Uploading, KeyInv, TypeInv, Typed, TypeOK, Working,
          Exists, Apart, Late
<1>10. /\ Exists' = Exists /\ \A q \in Uploads : q # c => rows'[q] = rows[q]
  BY UpdatedRow DEF KeyInv
<1>11. rows'[c] = w
  BY <1>1 DEF UploadUpdate, KeyInv, TypeInv, Typed, TypeOK
<1>12. /\ pc'[t] = "user"
       /\ \A s \in Threads : s # t => pc'[s] = pc[s] /\ seen'[s] = seen[s]
  BY DEF UploadUpdate, Expire, Goto, KeyInv, TypeInv, Typed, TypeOK
<1>13. UNCHANGED <<given, ids, up, cur, active, live, closes, doomed, late>>
  BY DEF UploadUpdate, user, history, closing
<1>2. /\ UNCHANGED <<given, ids, up, cur, active, live, closes, doomed, late>>
      /\ rows'[c] = w /\ Exists' = Exists /\ \A q \in Uploads : q # c => rows'[q] = rows[q]
      /\ pc'[t] = "user"
      /\ \A s \in Threads : s # t => pc'[s] = pc[s] /\ seen'[s] = seen[s]
  BY <1>10, <1>11, <1>12, <1>13
<1>3. w.by = up[t] /\ w.dev = Target(t)
  BY <1>1 DEF Written, Assigned, Column, Pending, Found, Target
<1>4. \A r, d : Spared(r, d)' = Spared(r, d)
  BY <1>2 DEF Spared, Shut
<1>5. w.dev \in {rows[c].dev, Recovery} /\ rows[c].dev \in Devices \cup {Recovery}
  BY <1>1, <1>3 DEF Target, Row
<1>6. Spared(c, w.dev) => up[t] \in late
  BY <1>1, <1>3 DEF Found
<1> HIDE DEF c, w
<1>7. ASSUME NEW s \in Threads PROVE Entering(s)'
  BY <1>2 DEF Late, Entering, Shut, Closing
<1>8. ASSUME NEW s \in Threads PROVE Found(s)'
  <2> SUFFICES ASSUME pc'[s] = "update" PROVE Found(s)'
    BY DEF Found
  <2>1. s # t /\ pc[s] = "update" /\ Found(s) /\ seen'[s] = seen[s]
    BY <1>2 DEF Late
  <2>2. \A q \in Threads : pc'[q] = "create" => pc[q] = "create"
    BY <1>2
  <2>3. ASSUME cur[s] \in Exists
        PROVE /\ seen[s].dev = Recovery => rows'[cur[s]].dev = Recovery
              /\ Spared(cur[s], Target(s)') => up[s] \in late
    <3>1. CASE cur[s] # c
      <4>1. rows'[cur[s]] = rows[cur[s]]
        BY <1>2, <2>3, <3>1 DEF Exists
      <4> QED BY <1>2, <2>1, <2>3, <4>1 DEF Found, Target
    <3>2. CASE cur[s] = c
      <4>1. seen[s].dev = Recovery => w.dev = Recovery
        BY <1>5, <2>1, <2>3, <3>2 DEF Found
      <4>2. Spared(c, Target(s)) => up[s] \in late
        BY <2>1, <2>3, <3>2 DEF Found
      <4>3. Target(s) \in Devices \cup {Recovery}
        BY <1>5, <3>2 DEF Target
      <4>4. Target(s)' \in {Target(s), Recovery}
        BY <1>2, <1>5, <3>2 DEF Target
      <4>5. Spared(c, Recovery) => Spared(c, Target(s))
        BY <4>3, SparedRecovery DEF KeyInv
      <4> QED BY <1>2, <3>2, <4>1, <4>2, <4>4, <4>5
    <3> QED BY <3>1, <3>2
  <2> QED BY <1>2, <1>4, <2>1, <2>2, <2>3 DEF Found, Spared, Shut
<1>9. ASSUME NEW r \in Exists' PROVE Swept(r)'
  <2>1. CASE r # c
    <3>1. rows'[r] = rows[r] /\ Swept(r)
      BY <1>2, <2>1 DEF Exists, Late
    <3> QED BY <1>2, <3>1 DEF Swept, Spared, Shut
  <2>2. CASE r = c
    BY <1>2, <1>3, <1>6, <2>2 DEF Swept, Spared, Shut
  <2> QED BY <2>1, <2>2
<1> QED BY <1>7, <1>8, <1>9 DEF Late

LEMMA LateInsert ==
  ASSUME KeyInv, Late, TypeInv', NEW t \in Threads, UploadInsert(t)
  PROVE  Late'
<1>1. /\ UNCHANGED <<given, rows, up, seen, active, live, closes, doomed, late>> /\ Exists' = Exists
      /\ pc[t] = "insert" /\ pc'[t] = "create" /\ cur'[t] = ids /\ ids \in Nat /\ ids' = ids + 1
      /\ \A s \in Threads : s # t => pc'[s] = pc[s] /\ cur'[s] = cur[s]
  BY UploadFacts
     DEF UploadInsert, Goto, Exists, user, closing, history, KeyInv, TypeInv, Typed, TypeOK
<1>2. ASSUME NEW s \in Threads PROVE Entering(s)'
  BY <1>1 DEF Late, Entering, Shut, Closing
<1>3. ASSUME NEW s \in Threads PROVE Found(s)'
  <2> SUFFICES ASSUME pc'[s] = "update" PROVE Found(s)'
    BY DEF Found
  <2>1. s # t /\ pc[s] = "update" /\ Found(s) /\ cur'[s] = cur[s] /\ Target(s)' = Target(s)
    BY <1>1 DEF Late, Target
  <2>2. cur[s] < ids /\ cur[s] \in Nat
    BY <2>1, UploadFacts DEF Found, KeyInv, TypeInv, Typed, Working
  <2>3. \A q \in Threads : pc'[q] = "create" => cur'[q] # cur[s]
    BY <1>1, <2>1, <2>2 DEF Found
  <2> QED BY <1>1, <2>1, <2>2, <2>3 DEF Found, Spared, Shut
<1>4. ASSUME NEW r \in Exists' PROVE Swept(r)'
  BY <1>1 DEF Late, Swept, Spared, Shut
<1> QED BY <1>2, <1>3, <1>4 DEF Late

LEMMA LateCreate ==
  ASSUME KeyInv, Late, TypeInv', NEW t \in Threads, UploadCreate(t)
  PROVE  Late'
<1> DEFINE c == cur[t]
<1>1. /\ UNCHANGED <<given, ids, up, cur, seen, active, live, closes, doomed, late>>
      /\ pc[t] = "create" /\ pc'[t] = "user" /\ \A s \in Threads : s # t => pc'[s] = pc[s]
      /\ c \in Uploads \ Exists /\ Exists' = Exists \cup {c}
      /\ rows'[c] = Created(up[t]) /\ \A q \in Uploads : q # c => rows'[q] = rows[q]
  BY CreatedRow
     DEF UploadCreate, Goto, user, session, closing, history, KeyInv, TypeInv, Typed, TypeOK
<1> HIDE DEF c
<1>2. ASSUME NEW s \in Threads PROVE Entering(s)'
  BY <1>1 DEF Late, Entering, Shut, Closing
<1>3. ASSUME NEW s \in Threads PROVE Found(s)'
  <2> SUFFICES ASSUME pc'[s] = "update" PROVE Found(s)'
    BY DEF Found
  <2>1. s # t /\ pc[s] = "update" /\ Found(s)
    BY <1>1 DEF Late
  <2>2. cur[s] # c /\ cur[s] \in Uploads
    BY <1>1, <2>1 DEF Found, c, KeyInv, TypeInv, Typed, Working
  <2>3. rows'[cur[s]] = rows[cur[s]] /\ (cur[s] \in Exists' <=> cur[s] \in Exists)
    BY <1>1, <2>2
  <2>4. Target(s)' = Target(s)
    BY <1>1, <2>3 DEF Target
  <2>5. \A q \in Threads : pc'[q] = "create" => pc[q] = "create"
    BY <1>1
  <2> QED BY <1>1, <2>1, <2>3, <2>4, <2>5 DEF Found, Spared, Shut
<1>4. ASSUME NEW r \in Exists' PROVE Swept(r)'
  <2>1. CASE r # c
    <3>1. r \in Exists /\ rows'[r] = rows[r] /\ Swept(r)
      BY <1>1, <2>1 DEF Exists, Late
    <3> QED BY <1>1, <3>1 DEF Swept, Spared, Shut
  <2>2. CASE r = c
    <3>1. Entering(t)
      BY DEF Late
    <3>2. rows'[r].dev = given[up[t]].dev /\ rows'[r].by = up[t]
      BY <1>1, <2>2 DEF Created
    <3> QED BY <1>1, <3>1, <3>2 DEF Entering, Swept, Spared, Shut, Closing
  <2> QED BY <2>1, <2>2
<1> QED BY <1>2, <1>3, <1>4 DEF Late

\* A DELETE that begins has found the rows that are there, and makes the uploads
\* late that have none.
LEMMA LateStart ==
  ASSUME KeyInv, Late, NEW c \in Closers, NEW D \in Closable, CloseStart(c, D)
  PROVE  Late'
<1>1. /\ UNCHANGED <<ids, given, rows, active, live, pc, up, cur, seen>> /\ Exists' = Exists
      /\ late' = late \cup {up[t] : t \in {q \in Threads :
             pc[q] \in {"read", "insert", "create"} /\ given[up[q]].dev \in D}}
  BY DEF CloseStart, Exists, table, user, session
<1>2. /\ closes'[c] = D /\ doomed'[c] = {r \in Exists : rows[r].dev \in D}
      /\ \A e \in Closers : e # c => closes'[e] = closes[e] /\ doomed'[e] = doomed[e]
  BY DEF CloseStart, KeyInv, TypeInv, Typed, TypeOK
<1>3. Recovery \in D => D = Devices \cup {Recovery}
  BY KeyBundlesAssumption DEF Closable
<1>4. ASSUME NEW r \in Exists', NEW d \in {rows[r].dev, Recovery}, Spared(r, d)'
      PROVE  Spared(r, d)
  <2>1. rows[r].dev \in Devices \cup {Recovery}
    BY <1>1 DEF KeyInv, TypeInv, Typed, TypeOK, Exists, Row
  <2>2. d \in D => r \in doomed'[c]
    BY <1>1, <1>2, <1>3, <2>1
  <2> QED BY <1>1, <1>2, <1>4, <2>2 DEF Spared, Shut
<1>5. ASSUME NEW d PROVE d \in Closing' => d \in Closing \/ d \in D
  BY <1>2 DEF Closing
<1>6. ASSUME NEW s \in Threads, pc'[s] \in {"read", "insert", "create"}
      PROVE  (Shut(given[up[s]].dev)' \/ given[up[s]].dev \in Closing' =>
                Shut(given[up[s]].dev) \/ given[up[s]].dev \in Closing \/ up[s] \in late')
  BY <1>1, <1>5, <1>6 DEF Shut
<1> QED BY <1>1, <1>4, <1>6, LateKept

\* A DELETE takes every row that it found and that is still its device's.
LEMMA LateDelete ==
  ASSUME KeyInv, Late, NEW c \in Closers, CloseDelete(c)
  PROVE  Late'
<1>1. /\ UNCHANGED <<ids, given, rows, active, live, pc, up, cur, seen, closes, late>>
      /\ Exists' = Exists
  BY DEF CloseDelete, Exists, table, user, session, history
<1>2. /\ doomed'[c] = {r \in doomed[c] \cap Exists : rows[r].dev \in closes[c]}
      /\ \A e \in Closers : e # c => doomed'[e] = doomed[e]
  BY DEF CloseDelete, KeyInv, TypeInv, Typed, TypeOK
<1>3. Recovery \in closes[c] => closes[c] = Devices \cup {Recovery}
  BY KeyBundlesAssumption DEF Closable, KeyInv, TypeInv, Typed, TypeOK
<1>4. ASSUME NEW r \in Exists', NEW d \in {rows[r].dev, Recovery}, Spared(r, d)'
      PROVE  Spared(r, d)
  <2>1. rows[r].dev \in Devices \cup {Recovery}
    BY <1>1 DEF KeyInv, TypeInv, Typed, TypeOK, Exists, Row
  <2>2. d \in closes[c] /\ r \in doomed[c] => r \in doomed'[c]
    BY <1>1, <1>2, <1>3, <2>1
  <2> QED BY <1>1, <1>2, <1>4, <2>2 DEF Spared, Shut
<1>5. Closing' = Closing
  BY <1>1 DEF Closing
<1> QED BY <1>1, <1>4, <1>5, LateKept DEF Shut

\* The commit leaves only rows that the DELETE spared.
LEMMA LateCommit ==
  ASSUME KeyInv, Late, NEW c \in Closers, CloseCommit(c)
  PROVE  Late'
<1>1. /\ UNCHANGED <<ids, given, pc, up, cur, seen, late>>
      /\ active' = active \ closes[c] /\ live' = (live /\ Recovery \notin closes[c])
      /\ doomed[c] \in SUBSET Uploads /\ Drop(doomed[c])
  BY DEF CloseCommit, session, history, KeyInv, TypeInv, Typed, TypeOK
<1>2. Exists' = Exists \ doomed[c] /\ \A r \in Exists' : rows'[r] = rows[r]
  BY <1>1, DroppedRows DEF KeyInv
<1>3. /\ closes'[c] = {}
      /\ \A e \in Closers : e # c => closes'[e] = closes[e] /\ doomed'[e] = doomed[e]
  BY DEF CloseCommit, CloseEnd, KeyInv, TypeInv, Typed, TypeOK
<1>4. Recovery \in closes[c] => closes[c] = Devices \cup {Recovery}
  BY KeyBundlesAssumption DEF Closable, KeyInv, TypeInv, Typed, TypeOK
<1>5. ASSUME NEW d \in Devices \cup {Recovery} PROVE Shut(d)' => Shut(d) \/ d \in closes[c]
  BY <1>1, <1>4 DEF Shut
<1>6. ASSUME NEW r \in Exists', NEW d \in {rows[r].dev, Recovery}, Spared(r, d)'
      PROVE  Spared(r, d)
  <2>1. d \in Devices \cup {Recovery} /\ r \notin doomed[c]
    BY <1>2 DEF KeyInv, TypeInv, Typed, TypeOK, Exists, Row
  <2> QED BY <1>3, <1>5, <1>6, <2>1 DEF Spared
<1>7. ASSUME NEW d \in Devices \cup {Recovery}
      PROVE  Shut(d)' \/ d \in Closing' => Shut(d) \/ d \in Closing
  BY <1>3, <1>5 DEF Closing
<1>8. ASSUME NEW s \in Threads, pc[s] \in {"read", "insert", "create"}
      PROVE  given[up[s]].dev \in Devices \cup {Recovery}
  BY <1>8 DEF KeyInv, TypeInv, Typed, Working, Uploading, Bundle
<1> QED BY <1>1, <1>2, <1>6, <1>7, <1>8, LateKept

LEMMA LateStep ==
  ASSUME KeyInv, Apart, Late, TypeInv', [Next]_vars
  PROVE  Late'
<1> DEFINE Quiet == /\ \A s \in Threads : pc'[s] \in {"read", "insert", "create"} =>
                         pc'[s] = pc[s] /\ up'[s] = up[s] /\ cur'[s] = cur[s]
                    /\ \A s \in Threads : pc'[s] = "update" =>
                         /\ pc[s] = "update" /\ up'[s] = up[s]
                         /\ cur'[s] = cur[s] /\ seen'[s] = seen[s]
           Kept == \A r \in Exists' :
                     r \in Exists /\ rows'[r].dev = rows[r].dev /\ rows'[r].by = rows[r].by
<1>1. ASSUME Quiet, Kept, UNCHANGED <<given, ids, live, closes, doomed, late>>,
             active \subseteq active'
      PROVE  Late'
  <2>1. \A d : Shut(d)' => Shut(d)
    BY <1>1 DEF Shut
  <2>2. Closing' = Closing
    BY <1>1 DEF Closing
  <2>3. \A r, d : Spared(r, d)' => Spared(r, d)
    BY <1>1, <2>1 DEF Spared
  <2> QED BY <1>1, <2>1, <2>2, <2>3, LateKept
<1>2. rows' = rows => Kept
  BY DEF Exists
<1>3. ASSUME NEW t \in Threads,
             UploadGone(t) \/ UploadUser(t) \/ FetchNone(t) \/ FetchAnswer(t) \/ Abort(t)
      PROVE  Late'
  <2>1. Finish(t) /\ UNCHANGED <<given, ids, rows, live, active, closes, doomed, late>>
    BY <1>3 DEF UploadGone, UploadUser, FetchNone, FetchAnswer, Abort, table, user, closing,
       history
  <2>2. Quiet
    BY <2>1 DEF Finish, KeyInv, TypeInv, Typed, TypeOK
  <2> QED BY <1>1, <1>2, <2>1, <2>2
<1>4. ASSUME NEW t \in Threads, FetchRead(t) \/ FetchLock(t) PROVE Late'
  <2>1. /\ UNCHANGED <<given, ids, rows, live, active, up, closes, doomed, late>>
        /\ pc'[t] \in {"fetch", "locked"}
        /\ \A s \in Threads : s # t => pc'[s] = pc[s] /\ cur'[s] = cur[s] /\ seen'[s] = seen[s]
    BY <1>4 DEF FetchRead, FetchLock, Goto, table, user, closing, history,
         KeyInv, TypeInv, Typed, TypeOK
  <2>2. Quiet
    BY <2>1
  <2> QED BY <1>1, <1>2, <2>1, <2>2
<1>5. ASSUME NEW t \in Threads, FetchCommit(t) PROVE Late'
  <2>1. /\ UNCHANGED <<given, ids, live, active, up, cur, closes, doomed, late>>
        /\ pc[t] = "locked" /\ pc' = [pc EXCEPT ![t] = "answer"]
        /\ seen' = [seen EXCEPT ![t] = NoRow]
    BY <1>5 DEF FetchCommit, Goto, Expire, user, closing
  <2>2. Quiet
    BY <2>1 DEF KeyInv, TypeInv, Typed, TypeOK
  <2>3. Kept
    BY <1>2, <1>5, <2>1, TakenRow DEF FetchCommit, Same
  <2> QED BY <1>1, <2>1, <2>2, <2>3
<1>6. ASSUME NEW c \in Closers, CloseFails(c) PROVE Late'
  <2>1. UNCHANGED <<given, ids, rows, live, active, pc, up, cur, seen, late>> /\ Exists' = Exists
    BY <1>6 DEF CloseFails, Exists, table, user, session, history
  <2>2. /\ closes'[c] = {}
      /\ \A e \in Closers : e # c => closes'[e] = closes[e] /\ doomed'[e] = doomed[e]
    BY <1>6 DEF CloseFails, CloseEnd, KeyInv, TypeInv, Typed, TypeOK
  <2>3. \A r, d : Spared(r, d)' => Spared(r, d)
    BY <2>1, <2>2 DEF Spared, Shut
  <2>4. \A d : d \in Closing' => d \in Closing
    BY <2>2 DEF Closing
  <2>5. \A d : Shut(d)' = Shut(d)
    BY <2>1 DEF Shut
  <2> QED BY <2>1, <2>3, <2>4, <2>5, LateKept
<1>7. ASSUME NEW d \in Devices, LoginDevice(d) PROVE Late'
  BY <1>1, <1>2, <1>7 DEF LoginDevice, table, session, closing, history
<1>8. CASE UNCHANGED vars
  BY <1>1, <1>2, <1>8 DEF vars
<1> HIDE DEF Quiet, Kept
<1>9. \A r \in Exists : Intact(r)
  BY DEF Apart
<1> QED
  BY <1>3, <1>4, <1>5, <1>6, <1>7, <1>8, <1>9, LateCheck, LateRead, LateUpdate, LateInsert,
     LateCreate, LateStart, LateDelete, LateCommit
     DEF Next

RowInv == KeyInv /\ Apart /\ Answers /\ Late

\* RowInv is inductive.
LEMMA RowInvariant == Spec => []RowInv
<1>1. Init => Apart /\ Answers /\ Late
  BY DEF Init, Apart, Alone, Single, Answers, Answering, Exists, Committing, Uploading,
         Fetching, Late, Entering, Found
<1>2. RowInv /\ KeyInv' /\ [Next]_vars => (Apart /\ Answers /\ Late)'
  BY ApartStep, AnswerStep, LateStep DEF RowInv, KeyInv
<1> QED BY <1>1, <1>2, KeyInvariant, PTL DEF Spec, RowInv

\* A row is the bundle of one upload, never a mix of the columns of two, unless
\* the upload that wrote it last overlapped another.
THEOREM RowsWhole == Spec => []TornNeedsOverlap
<1>1. RowInv => TornNeedsOverlap
  BY DEF RowInv, Apart, Intact, TornNeedsOverlap
<1> QED BY <1>1, RowInvariant, PTL

\* The bundle of a revoked device or a deleted account is gone, unless its
\* upload was let in before the commit of the DELETE and had no row yet when the
\* DELETE began.
THEOREM RevokedRowsGone == Spec => []RevokedGone
<1>1. RowInv => RevokedGone
  BY DEF RowInv, Late, Swept, Spared, Shut, RevokedGone
<1> QED BY <1>1, RowInvariant, PTL

\* A device has one row of key_bundles, unless uploads of it overlapped.
THEOREM DeviceHasOneRow == Spec => []OneRowPerDevice
<1>1. RowInv => OneRowPerDevice
  <2>1. \A r, q \in Exists : r # q => r < q \/ q < r
    BY UploadFacts DEF Exists
  <2> QED BY <2>1 DEF RowInv, Apart, Single, OneRowPerDevice
<1> QED BY <1>1, RowInvariant, PTL

\* A fetch that no upload overlapped is answered with a one-time prekey of the
\* bundle it is sent with.
THEOREM AnswersWhole == Spec => []AnswerWhole
<1>1. RowInv => AnswerWhole
  <2> SUFFICES ASSUME RowInv, NEW t \in Threads, pc[t] = "answer", got[t] # NoKey,
                      rows[cur[t]] # NoRow, t \notin mixed, rows[cur[t]].by \notin met
               PROVE  given[got[t][1]].pre = rows[cur[t]].pre
    BY DEF AnswerWhole
  <2>1. cur[t] \in Exists
    BY DEF RowInv, KeyInv, TypeInv, Typed, Working, Exists
  <2>2. got[t][1] = rows[cur[t]].batch
    BY <2>1 DEF RowInv, Answers, Answering, Fetching
  <2>3. Holds(cur[t], rows[cur[t]].by)
    BY <2>1 DEF RowInv, Apart, Intact
  <2>4. rows[cur[t]].pre = given[rows[cur[t]].by].pre
    BY <2>3 DEF Holds
  <2> QED BY <2>2, <2>3, <2>4 DEF Holds
<1> QED BY <1>1, RowInvariant, PTL

\* An upload to a row that overlaps no other moves bundle_version on by one, and
\* identity_version exactly when the identity key changes.
THEOREM VersionsCounted == Spec => VersionsCount
<1> DEFINE Moves(r) == rows'[r] # NoRow /\ rows'[r].by # rows[r].by /\ rows'[r].by \notin met =>
             /\ rows'[r].bv = rows[r].bv + 1
             /\ rows'[r].iv = rows[r].iv + (IF rows'[r].ident = rows[r].ident THEN 0 ELSE 1)
<1>1. ASSUME RowInv, RowInv', Next, NEW r \in Exists PROVE Moves(r)
  <2> USE <1>1
  <2>1. ASSUME rows' = rows PROVE Moves(r)
    BY <2>1
  <2>2. ASSUME NEW gone \in SUBSET Uploads, Drop(gone) PROVE Moves(r)
    BY <2>2, DroppedRows DEF RowInv, KeyInv, Exists
  <2>3. ASSUME NEW t \in Threads, UploadUpdate(t) PROVE Moves(r)
    <3>1. /\ t \in Committing /\ cur[t] \in Exists
          /\ \A q \in Uploads : q # cur[t] => rows'[q] = rows[q]
          /\ rows' = [rows EXCEPT ![cur[t]] = Written(@, seen[t], up[t])]
      BY <2>3, UpdatedRow
         DEF UploadUpdate, Goto, Committing, RowInv, KeyInv
    <3>2. /\ rows[cur[t]] \in Row /\ seen[t] \in Row /\ up[t] \in Uploads
          /\ given[up[t]] \in Bundle /\ pc[t] = "update" /\ cur[t] \in Uploads
          /\ rows \in [Uploads -> Row \cup {NoRow}]
      BY <2>3, <3>1
         DEF UploadUpdate, Goto, RowInv, KeyInv, TypeInv, Typed, TypeOK, Working, Uploading,
             Exists
    <3>3. rows'[cur[t]] = Written(rows[cur[t]], seen[t], up[t]) /\ rows'[cur[t]].by = up[t]
      BY <3>1, <3>2 DEF Written
    <3>4. up[t] \notin met => Same(rows[cur[t]], seen[t])
      BY <3>1, <3>2 DEF RowInv, Apart, Pending
    <3>5. CASE r # cur[t]
      BY <3>1, <3>5 DEF Exists
    <3>6. CASE r = cur[t]
      BY <3>2, <3>3, <3>4, <3>6, WrittenWhole
    <3> QED BY <3>5, <3>6
  <2>4. ASSUME NEW t \in Threads, UploadCreate(t) PROVE Moves(r)
    BY <2>4, CreatedRow DEF RowInv, KeyInv, Exists
  <2>5. ASSUME NEW t \in Threads, FetchCommit(t) PROVE Moves(r)
    <3>1. CASE UNCHANGED <<rows, got, served>>
      BY <3>1
    <3>2. CASE seen[t].left > 0 /\ Pop(t)
      <4>1. /\ pc[t] = "locked" /\ cur[t] \in Uploads /\ rows[cur[t]] = seen[t] /\ seen[t] \in Row
            /\ rows' = [rows EXCEPT ![cur[t]] = [seen[t] EXCEPT !.left = seen[t].left - 1]]
        BY <2>5, <3>2, Popped DEF FetchCommit, Goto, RowInv, KeyInv
      <4>2. rows'[r].by = rows[r].by
        BY <4>1 DEF Row, Exists, RowInv, KeyInv, TypeInv, Typed, TypeOK
      <4> QED BY <4>2
    <3> QED BY <2>5, <3>1, <3>2 DEF FetchCommit
  <2> HIDE DEF Moves
  <2>6. ASSUME NEW t \in Threads,
               \/ \E b \in Bundle : UploadCheck(t, b)
               \/ UploadRead(t) \/ UploadGone(t) \/ UploadInsert(t) \/ UploadUser(t)
               \/ FetchRead(t) \/ FetchLock(t) \/ FetchNone(t) \/ FetchAnswer(t) \/ Abort(t)
        PROVE Moves(r)
    BY <2>1, <2>6
       DEF UploadCheck, UploadRead, UploadGone, UploadInsert, UploadUser, FetchRead,
           FetchLock, FetchNone, FetchAnswer, Abort, table
  <2>7. ASSUME NEW c \in Closers, CloseCommit(c) PROVE Moves(r)
    BY <2>2, <2>7 DEF CloseCommit, RowInv, KeyInv, TypeInv, Typed, TypeOK
  <2>8. ASSUME NEW c \in Closers,
               (\E D \in Closable : CloseStart(c, D)) \/ CloseDelete(c) \/ CloseFails(c)
        PROVE Moves(r)
    BY <2>1, <2>8 DEF CloseStart, CloseDelete, CloseFails, table
  <2>9. ASSUME NEW d \in Devices, LoginDevice(d) PROVE Moves(r)
    BY <2>1, <2>9 DEF LoginDevice, table
  <2> QED BY <2>3, <2>4, <2>5, <2>6, <2>7, <2>8, <2>9 DEF Next
<1>2. RowInv /\ RowInv' /\ [Next]_vars => [\A r \in Exists : Moves(r)]_vars
  BY <1>1
<1> QED BY <1>2, RowInvariant, PTL DEF Spec, VersionsCount
---------------------------------------------------------------------------
(* The double ratchet.                                                      *)

\* A chain is named by its root, whose last Diffie-Hellman result is that of
\* the sender's key pair with an older one; Bob's first chain has none.
Named(root, dh) ==
  \/ root = <<>> /\ dh = RkB
  \/ root # <<>> /\ \E old \in Nat : old < dh /\ root[Len(root)] = DH(dh, old)

Roots  == Seq(SUBSET Nat)
Chains == [root : Roots, n : Nat]

\* The states, the messages and the key pairs in use.
RatchetTypes ==
  /\ nextPair \in Nat /\ nextPair > RkA
  /\ state \in [Parties -> [root : Roots, send : Chains, recv : Chains,
                            private : Nat, remote : Nat]]
  /\ sent \subseteq [id : Nat, to : Parties, dh : Nat, key : Chains] /\ IsFiniteSet(sent)
  /\ taken \subseteq sent /\ lost \subseteq sent /\ failed \subseteq sent
  /\ taken \cap lost = {} /\ shuffled \in BOOLEAN

\* Key pairs are used by one party, and each message key once.
KeysOwned ==
  /\ \A p \in Parties : /\ state[p].private \in RkB..(nextPair - 1)
                        /\ state[p].remote < nextPair
                        /\ Named(state[p].send.root, state[p].private)
                        /\ state[p].private # state[Peer(p)].private
  /\ \A m \in sent :
       /\ m.dh \in RkB..(nextPair - 1) /\ Named(m.key.root, m.dh)
       /\ \A p \in Parties : m.dh = state[p].private =>
            m.to = Peer(p) /\ m.key.root = state[p].send.root /\ m.key.n < state[p].send.n
  /\ \A m, k \in sent : m.dh = k.dh =>
       m.to = k.to /\ m.key.root = k.key.root /\ (m.key.n = k.key.n => m = k)

\* Messages are numbered in the order they are sent: along a chain, and the
\* newest chain of a party comes last.
Numbered ==
  /\ \A m \in sent : m.id <= Cardinality(sent)
  /\ \A m, k \in sent : m.id = k.id => m = k
  /\ \A m, k \in sent : m.dh = k.dh => (m.id < k.id <=> m.key.n < k.key.n)
  /\ \A m, k \in sent :
       m.to = k.to /\ m.dh = state[Peer(m.to)].private /\ m.id < k.id => k.dh = m.dh
  /\ \A m \in sent : \A i \in 0..(m.key.n - 1) : \E k \in sent : k.dh = m.dh /\ k.key.n = i
  /\ \A p \in Parties : \A i \in 0..(state[p].send.n - 1) :
       \E k \in sent : k.dh = state[p].private /\ k.key.n = i

\* While nothing is shuffled, one party is ahead: it knows the newest key pair
\* of the other one, which does not know its.
Ahead(p) ==
  LET s == state[p]
      o == state[Peer(p)]
  IN /\ s.remote = o.private /\ o.remote # s.private
     /\ s.root = s.send.root /\ s.root = Hkdf(o.root, DH(s.private, o.private))
     /\ s.recv.root = o.send.root
     /\ \A m \in Waiting(p) : m.dh = o.private
     /\ \A m \in Waiting(Peer(p)) : m.dh \in {s.private, o.remote}
     /\ \A m \in taken : m.to = Peer(p) => m.dh # s.private

\* A receiving chain is at the first message of it that was not taken, when
\* none was lost.
Behind(m) == \E k \in lost : k.to = m.to /\ k.dh = m.dh /\ k.id < m.id
InStep(p) ==
  /\ \A m \in sent : m.to = p /\ m.dh = state[p].remote =>
       /\ m.key.root = state[p].recv.root
       /\ m \in Waiting(p) => state[p].recv.n <= m.key.n
       /\ m \in taken /\ ~Behind(m) => m.key.n < state[p].recv.n
  /\ state[p].remote = state[Peer(p)].private => state[p].recv.n <= state[Peer(p)].send.n

KeysInv == RatchetTypes /\ KeysOwned
InOrder == (\E p \in Parties : Ahead(p)) /\ \A p \in Parties : InStep(p)
RatchetInv == KeysInv /\ Numbered /\ FailsOnlyBehindLoss /\ (shuffled \/ InOrder)

LEMMA Peers ==
  /\ Alice \in Parties /\ Bob \in Parties /\ Peer(Alice) = Bob /\ Peer(Bob) = Alice
  /\ \A p \in Parties : Peer(p) \in Parties /\ Peer(p) # p /\ Peer(Peer(p)) = p
<1>1. \A p \in Parties : \E q \in Parties : q # p
  BY RatchetAssumption DEF Parties
<1>2. \A p \in Parties : Peer(p) \in Parties /\ Peer(p) # p
  BY <1>1 DEF Peer
<1> QED BY <1>2 DEF Parties

LEMMA Appended ==
  ASSUME NEW root \in Roots, NEW a \in Nat, NEW b \in Nat
  PROVE  /\ Hkdf(root, DH(a, b)) \in Roots /\ Hkdf(root, DH(a, b)) # <<>>
         /\ Hkdf(root, DH(a, b))[Len(Hkdf(root, DH(a, b)))] = DH(a, b)
<1> DEFINE r == Append(root, {a, b})
<1>1. {a, b} \in SUBSET Nat
  OBVIOUS
<1>2. r \in Roots /\ Len(r) = Len(root) + 1 /\ Len(root) \in Nat /\ r[Len(root) + 1] = {a, b}
  BY <1>1 DEF Roots
<1>3. r # <<>>
  BY <1>2
<1> QED BY <1>2, <1>3 DEF Hkdf, DH

\* What ratchet_encrypt does.
LEMMA Encrypting ==
  ASSUME RatchetTypes, Numbered, NEW p \in Parties, Encrypt(p)
  PROVE  \E m \in [id : Nat, to : Parties, dh : Nat, key : Chains] :
    /\ m \notin sent /\ sent' = sent \cup {m} /\ IsFiniteSet(sent')
    /\ m.id = Cardinality(sent) + 1 /\ Cardinality(sent') = Cardinality(sent) + 1
    /\ Cardinality(sent) \in Nat
    /\ m.to = Peer(p) /\ m.dh = state[p].private /\ m.key = state[p].send
    /\ m.key.root = state[p].send.root /\ m.key.n = state[p].send.n
    /\ state'[p].send.n = m.key.n + 1 /\ state'[p].send.root = m.key.root
    /\ state'[p].root = state[p].root /\ state'[p].recv = state[p].recv
    /\ state'[p].private = state[p].private /\ state'[p].remote = state[p].remote
    /\ \A q \in Parties \ {p} : state'[q] = state[q]
    /\ UNCHANGED <<nextPair, taken, lost, failed, shuffled>>
<1> DEFINE m == [id |-> Cardinality(sent) + 1, to |-> Peer(p), dh |-> state[p].private,
                 key |-> state[p].send]
<1>1. Cardinality(sent) \in Nat
  BY FS_CardinalityType DEF RatchetTypes
<1>2. m \in [id : Nat, to : Parties, dh : Nat, key : Chains]
  BY <1>1, Peers DEF RatchetTypes
<1>3. sent' = sent \cup {m} /\ state' = [state EXCEPT ![p].send = Advance(@)]
      /\ UNCHANGED <<nextPair, taken, lost, failed, shuffled>>
  BY DEF Encrypt
<1>4. m \notin sent
  <2>1. ~(m.id <= Cardinality(sent))
    BY <1>1
  <2> QED BY <2>1 DEF Numbered
<1>5. IsFiniteSet(sent') /\ Cardinality(sent') = Cardinality(sent) + 1
  BY <1>3, <1>4, FS_AddElement DEF RatchetTypes
<1>6. state[p] \in [root : Roots, send : Chains, recv : Chains, private : Nat, remote : Nat]
  BY DEF RatchetTypes
<1>7. /\ state'[p] = [state[p] EXCEPT !.send = Advance(@)]
      /\ \A q \in Parties \ {p} : state'[q] = state[q]
  BY <1>3 DEF RatchetTypes
<1>8. /\ state'[p].send.n = m.key.n + 1 /\ state'[p].send.root = m.key.root
      /\ state'[p].root = state[p].root /\ state'[p].recv = state[p].recv
      /\ state'[p].private = state[p].private /\ state'[p].remote = state[p].remote
  BY <1>6, <1>7 DEF Advance, Chains
<1>9. /\ m.id = Cardinality(sent) + 1 /\ m.to = Peer(p) /\ m.dh = state[p].private
      /\ m.key = state[p].send
      /\ m.key.root = state[p].send.root /\ m.key.n = state[p].send.n
  OBVIOUS
<1> HIDE DEF m
<1> QED BY <1>1, <1>2, <1>3, <1>4, <1>5, <1>7, <1>8, <1>9

\* What ratchet_decrypt does to a state that knows the key pair of the message,
LEMMA Decrypting ==
  ASSUME KeysInv, NEW p \in Parties, NEW m \in sent, Decrypt(p, m), state[p].remote = m.dh
  PROVE  /\ m.to = p /\ m \notin lost /\ nextPair' = nextPair
         /\ state'[p].recv.n = state[p].recv.n + 1 /\ state'[p].recv.root = state[p].recv.root
         /\ state'[p].root = state[p].root /\ state'[p].send = state[p].send
         /\ state'[p].private = state[p].private /\ state'[p].remote = state[p].remote
         /\ \A q \in Parties \ {p} : state'[q] = state[q]
         /\ failed' = failed \cup {k \in {m} \ taken : state[p].recv # m.key}
         /\ state' \in [Parties -> [root : Roots, send : Chains, recv : Chains,
                                    private : Nat, remote : Nat]]
<1>1. state[p] \in [root : Roots, send : Chains, recv : Chains, private : Nat, remote : Nat]
  BY DEF KeysInv, RatchetTypes
<1>2. state[p].private # nextPair
  BY DEF KeysInv, RatchetTypes, KeysOwned
<1>3. /\ m.to = p /\ m \notin lost /\ nextPair' = nextPair
      /\ state' = [state EXCEPT ![p] = [state[p] EXCEPT !.recv = Advance(@)]]
      /\ failed' = failed \cup {k \in {m} \ taken : state[p].recv # m.key}
  BY <1>2 DEF Decrypt
<1>4. /\ state'[p] = [state[p] EXCEPT !.recv = Advance(@)]
      /\ \A q \in Parties \ {p} : state'[q] = state[q]
  BY <1>3 DEF KeysInv, RatchetTypes
<1>5. [state[p] EXCEPT !.recv = Advance(@)]
        \in [root : Roots, send : Chains, recv : Chains, private : Nat, remote : Nat]
  BY <1>1 DEF Advance, Chains
<1>6. state' \in [Parties -> [root : Roots, send : Chains, recv : Chains,
                              private : Nat, remote : Nat]]
  BY <1>3, <1>5 DEF KeysInv, RatchetTypes
<1> QED BY <1>1, <1>3, <1>4, <1>6 DEF Advance, Chains

\* and to one that does not: the roots dh_ratchet_step derives.
RecvRoot(p, m) == Hkdf(state[p].root, DH(state[p].private, m.dh))
SendRoot(p, m) == Hkdf(RecvRoot(p, m), DH(nextPair, m.dh))

LEMMA Stepping ==
  ASSUME KeysInv, NEW p \in Parties, NEW m \in sent, Decrypt(p, m), state[p].remote # m.dh
  PROVE  /\ m.to = p /\ m \notin lost /\ nextPair' = nextPair + 1
         /\ RecvRoot(p, m) \in Roots /\ SendRoot(p, m) \in Roots
         /\ SendRoot(p, m) # <<>> /\ SendRoot(p, m)[Len(SendRoot(p, m))] = DH(nextPair, m.dh)
         /\ state'[p].recv.n = 1 /\ state'[p].recv.root = RecvRoot(p, m)
         /\ state'[p].root = SendRoot(p, m)
         /\ state'[p].send.root = SendRoot(p, m) /\ state'[p].send.n = 0
         /\ state'[p].private = nextPair /\ state'[p].remote = m.dh
         /\ \A q \in Parties \ {p} : state'[q] = state[q]
         /\ failed' = failed \cup
              {k \in {m} \ taken : [root |-> RecvRoot(p, m), n |-> 0] # m.key}
         /\ state' \in [Parties -> [root : Roots, send : Chains, recv : Chains,
                                    private : Nat, remote : Nat]]
<1> DEFINE s == [root |-> SendRoot(p, m), recv |-> [root |-> RecvRoot(p, m), n |-> 0],
                 send |-> [root |-> SendRoot(p, m), n |-> 0],
                 private |-> nextPair, remote |-> m.dh]
<1>1. state[p].root \in Roots /\ state[p].private \in Nat /\ m.dh \in Nat /\ nextPair \in Nat
  BY DEF KeysInv, RatchetTypes
<1>2. /\ RecvRoot(p, m) \in Roots /\ SendRoot(p, m) \in Roots
        /\ SendRoot(p, m) # <<>> /\ SendRoot(p, m)[Len(SendRoot(p, m))] = DH(nextPair, m.dh)
  <2>1. RecvRoot(p, m) \in Roots
    BY <1>1, Appended DEF RecvRoot
  <2> QED BY <1>1, <2>1, Appended DEF SendRoot
<1>3. DhRatchetStep(state[p], m.dh) = s
  BY DEF DhRatchetStep, Chain, RecvRoot, SendRoot
<1>4. [s EXCEPT !.recv = Advance(@)] =
        [root |-> SendRoot(p, m), recv |-> [root |-> RecvRoot(p, m), n |-> 1],
         send |-> [root |-> SendRoot(p, m), n |-> 0], private |-> nextPair, remote |-> m.dh]
  BY DEF Advance
<1>5. /\ m.to = p /\ m \notin lost /\ nextPair' = nextPair + 1
      /\ state' = [state EXCEPT ![p] = [s EXCEPT !.recv = Advance(@)]]
      /\ failed' = failed \cup {k \in {m} \ taken : s.recv # m.key}
  BY <1>3 DEF Decrypt
<1>6. /\ state'[p] = [s EXCEPT !.recv = Advance(@)]
      /\ \A q \in Parties \ {p} : state'[q] = state[q]
  BY <1>5 DEF KeysInv, RatchetTypes
<1>7. [s EXCEPT !.recv = Advance(@)]
        \in [root : Roots, send : Chains, recv : Chains, private : Nat, remote : Nat]
  BY <1>1, <1>2, <1>4 DEF Chains
<1>8. state' \in [Parties -> [root : Roots, send : Chains, recv : Chains,
                              private : Nat, remote : Nat]]
  BY <1>5, <1>7 DEF KeysInv, RatchetTypes
<1> QED BY <1>2, <1>4, <1>5, <1>6, <1>8

LEMMA TypesStep ==
  ASSUME KeysInv, Numbered, RatchetNext
  PROVE  RatchetTypes'
<1>1. ASSUME NEW p \in Parties, Encrypt(p) PROVE RatchetTypes'
  <2>1. PICK m \in [id : Nat, to : Parties, dh : Nat, key : Chains] :
          /\ sent' = sent \cup {m} /\ IsFiniteSet(sent')
          /\ UNCHANGED <<nextPair, taken, lost, failed, shuffled>>
    BY <1>1, Encrypting DEF KeysInv
  <2>2. state' \in [Parties -> [root : Roots, send : Chains, recv : Chains,
                                private : Nat, remote : Nat]]
    BY <1>1 DEF Encrypt, Advance, Chains, KeysInv, RatchetTypes
  <2> QED BY <2>1, <2>2 DEF KeysInv, RatchetTypes
<1>2. ASSUME NEW p \in Parties, NEW m \in sent, Decrypt(p, m) PROVE RatchetTypes'
  <2>1. state' \in [Parties -> [root : Roots, send : Chains, recv : Chains,
                                private : Nat, remote : Nat]]
    BY <1>2, Decrypting, Stepping
  <2>2. nextPair' \in {nextPair, nextPair + 1} /\ m \notin lost
    BY <1>2 DEF Decrypt
  <2>3. /\ taken' = taken \cup {m} /\ failed' \subseteq failed \cup {m}
        /\ UNCHANGED <<sent, lost>> /\ shuffled' \in BOOLEAN
    BY <1>2 DEF Decrypt
  <2>4. nextPair' \in Nat /\ nextPair' > RkA
    BY <2>2 DEF KeysInv, RatchetTypes, RkA
  <2> QED BY <2>1, <2>2, <2>3, <2>4 DEF KeysInv, RatchetTypes
<1>3. ASSUME NEW m \in sent, Lose(m) PROVE RatchetTypes'
  BY <1>3 DEF Lose, KeysInv, RatchetTypes
<1> QED BY <1>1, <1>2, <1>3 DEF RatchetNext

LEMMA KeysStep ==
  ASSUME KeysInv, Numbered, RatchetTypes', RatchetNext
  PROVE  KeysOwned'
<1> USE Peers, RatchetAssumption
<1>1. ASSUME NEW p \in Parties, Encrypt(p) PROVE KeysOwned'
  <2>1. PICK m \in [id : Nat, to : Parties, dh : Nat, key : Chains] :
          /\ m \notin sent /\ sent' = sent \cup {m}
          /\ m.to = Peer(p) /\ m.dh = state[p].private
          /\ m.key.root = state[p].send.root /\ m.key.n = state[p].send.n
          /\ state'[p].send.n = m.key.n + 1 /\ state'[p].send.root = m.key.root
          /\ state'[p].private = state[p].private /\ state'[p].remote = state[p].remote
          /\ \A q \in Parties \ {p} : state'[q] = state[q]
          /\ UNCHANGED <<nextPair, taken, lost, failed, shuffled>>
    BY <1>1, Encrypting DEF KeysInv
  <2>2. m.key.n \in Nat /\ \A k \in sent : k.key.n \in Nat
    BY DEF Chains, KeysInv, RatchetTypes
  <2>3. \A q \in Parties : state'[q].private = state[q].private /\ state'[q].remote = state[q].remote
                           /\ state'[q].send.root = state[q].send.root
    BY <2>1
  <2>4. \A q \in Parties : /\ state'[q].private \in RkB..(nextPair' - 1)
                           /\ state'[q].remote < nextPair'
                           /\ Named(state'[q].send.root, state'[q].private)
                           /\ state'[q].private # state'[Peer(q)].private
    BY <2>1, <2>3 DEF KeysInv, KeysOwned
  <2>5. ASSUME NEW k \in sent'
        PROVE  /\ k.dh \in RkB..(nextPair' - 1) /\ Named(k.key.root, k.dh)
               /\ \A q \in Parties : k.dh = state'[q].private =>
                    k.to = Peer(q) /\ k.key.root = state'[q].send.root /\ k.key.n < state'[q].send.n
    <3>1. CASE k = m
      BY <2>1, <2>2, <2>3, <3>1 DEF KeysInv, KeysOwned, Parties
    <3>2. CASE k \in sent
      BY <2>1, <2>2, <2>3, <3>2 DEF KeysInv, KeysOwned
    <3> QED BY <2>1, <3>1, <3>2
  <2>6. \A k, j \in sent' : k.dh = j.dh =>
          k.to = j.to /\ k.key.root = j.key.root /\ (k.key.n = j.key.n => k = j)
    BY <2>1, <2>2 DEF KeysInv, KeysOwned
  <2> QED BY <2>4, <2>5, <2>6 DEF KeysOwned
<1>2. ASSUME NEW p \in Parties, NEW m \in sent, Decrypt(p, m), state[p].remote = m.dh
      PROVE  KeysOwned'
  <2>1. \A q \in Parties : /\ state'[q].private = state[q].private /\ state'[q].remote = state[q].remote
                           /\ state'[q].send = state[q].send
    BY <1>2, Decrypting
  <2>2. nextPair' = nextPair /\ sent' = sent
    BY <1>2, Decrypting DEF Decrypt
  <2> QED BY <2>1, <2>2 DEF KeysInv, KeysOwned
<1>3. ASSUME NEW p \in Parties, NEW m \in sent, Decrypt(p, m), state[p].remote # m.dh
      PROVE  KeysOwned'
  <2>1. /\ state'[p].private = nextPair /\ state'[p].remote = m.dh /\ nextPair' = nextPair + 1
        /\ \A q \in Parties \ {p} : state'[q] = state[q]
    BY <1>3, Stepping
  <2>2. Named(state'[p].send.root, nextPair)
    <3>1. m.dh \in Nat /\ m.dh < nextPair
      BY DEF KeysInv, RatchetTypes, KeysOwned, RkB, RkA
    <3>2. /\ state'[p].send.root = SendRoot(p, m) /\ SendRoot(p, m) # <<>>
          /\ SendRoot(p, m)[Len(SendRoot(p, m))] = DH(nextPair, m.dh)
      BY <1>3, Stepping
    <3> QED BY <3>1, <3>2 DEF Named
  <2>3. sent' = sent
    BY <1>3 DEF Decrypt
  <2>4. nextPair \in Nat /\ nextPair > RkA /\ \A k \in sent : k.dh \in Nat /\ k.dh < nextPair
    BY DEF KeysInv, RatchetTypes, KeysOwned, RkA, RkB
  <2>5. \A q \in Parties : /\ state'[q].private \in RkB..(nextPair' - 1)
                           /\ state'[q].remote < nextPair'
                           /\ Named(state'[q].send.root, state'[q].private)
                           /\ state'[q].private # state'[Peer(q)].private
    <3>1. m.dh < nextPair' /\ nextPair \in RkB..(nextPair' - 1)
      BY <2>1, <2>4 DEF RkA, RkB
    <3>2. ASSUME NEW q \in Parties, q # p
          PROVE  /\ state'[q].private \in RkB..(nextPair' - 1) /\ state'[q].private # nextPair
                 /\ state'[q].remote < nextPair'
                 /\ Named(state'[q].send.root, state'[q].private)
      <4>1. /\ state[q].private \in RkB..(nextPair - 1) /\ state[q].remote < nextPair
            /\ Named(state[q].send.root, state[q].private) /\ state[q].remote \in Nat
        BY DEF KeysInv, KeysOwned, RatchetTypes
      <4> QED BY <2>1, <2>4, <3>2, <4>1
    <3>3. Peer(p) # p /\ Peer(p) \in Parties /\ \A q \in Parties : q # p => Peer(q) = p
      BY DEF Parties
    <3> QED BY <2>1, <2>2, <3>1, <3>2, <3>3
  <2>6. \A k \in sent, q \in Parties : k.dh = state'[q].private =>
          q # p /\ state'[q] = state[q]
    BY <2>1, <2>4
  <2> QED BY <2>1, <2>3, <2>4, <2>5, <2>6 DEF KeysInv, KeysOwned, RkA, RkB
<1>4. ASSUME NEW m \in sent, Lose(m) PROVE KeysOwned'
  BY <1>4 DEF Lose, KeysInv, KeysOwned
<1> QED BY <1>1, <1>2, <1>3, <1>4 DEF RatchetNext

LEMMA NumberedStep ==
  ASSUME KeysInv, Numbered, KeysInv', RatchetNext
  PROVE  Numbered'
<1> USE Peers
<1>1. ASSUME NEW p \in Parties, Encrypt(p) PROVE Numbered'
  <2>1. PICK m \in [id : Nat, to : Parties, dh : Nat, key : Chains] :
          /\ m \notin sent /\ sent' = sent \cup {m}
          /\ m.id = Cardinality(sent) + 1 /\ Cardinality(sent') = Cardinality(sent) + 1
          /\ Cardinality(sent) \in Nat
          /\ m.to = Peer(p) /\ m.dh = state[p].private
          /\ m.key.root = state[p].send.root /\ m.key.n = state[p].send.n
          /\ state'[p].send.n = m.key.n + 1
          /\ state'[p].private = state[p].private
          /\ \A q \in Parties \ {p} : state'[q] = state[q]
    BY <1>1, Encrypting DEF KeysInv
  <2>2. m.key.n \in Nat /\ \A k \in sent : k.key.n \in Nat /\ k.id \in Nat /\ k.id < m.id
    BY <2>1 DEF Chains, KeysInv, RatchetTypes, Numbered
  <2>3. \A q \in Parties : state'[q].private = state[q].private
    BY <2>1
  <2>4. \A k \in sent : k.dh = m.dh => k.key.n < m.key.n
    BY <2>1 DEF KeysInv, KeysOwned
  <2>5. \A k \in sent' : k.id <= Cardinality(sent')
    BY <2>1, <2>2 DEF Numbered
  <2>6. /\ \A k, j \in sent' : k.id = j.id => k = j
        /\ \A k, j \in sent' : k.dh = j.dh => (k.id < j.id <=> k.key.n < j.key.n)
    BY <2>1, <2>2, <2>4 DEF Numbered
  <2>7. \A k, j \in sent' :
          k.to = j.to /\ k.dh = state'[Peer(k.to)].private /\ k.id < j.id => j.dh = k.dh
    <3> SUFFICES ASSUME NEW k \in sent', NEW j \in sent', k.to = j.to,
                        k.dh = state[Peer(k.to)].private, k.id < j.id
                 PROVE  j.dh = k.dh
      BY <2>1, <2>3 DEF KeysInv, RatchetTypes
    <3>1. CASE j = m
      BY <2>1, <3>1
    <3>2. CASE j \in sent
      BY <2>1, <2>2, <3>2 DEF Numbered
    <3> QED BY <2>1, <3>1, <3>2
  <2>8. \A k \in sent' : \A i \in 0..(k.key.n - 1) : \E j \in sent' : j.dh = k.dh /\ j.key.n = i
    BY <2>1 DEF Numbered
  <2>9. ASSUME NEW q \in Parties, NEW i \in 0..(state'[q].send.n - 1)
        PROVE  \E j \in sent' : j.dh = state'[q].private /\ j.key.n = i
    <3>1. CASE q # p
      BY <2>1, <3>1 DEF Numbered
    <3>2. CASE q = p /\ i = m.key.n
      BY <2>1, <3>2
    <3>3. CASE q = p /\ i \in 0..(state[p].send.n - 1)
      BY <2>1, <3>3 DEF Numbered
    <3> QED BY <2>1, <2>2, <3>1, <3>2, <3>3
  <2> QED BY <2>5, <2>6, <2>7, <2>8, <2>9 DEF Numbered
<1>2. ASSUME NEW p \in Parties, NEW m \in sent, Decrypt(p, m), state[p].remote = m.dh
      PROVE  Numbered'
  <2>1. \A q \in Parties : state'[q].private = state[q].private /\ state'[q].send = state[q].send
    BY <1>2, Decrypting
  <2>2. sent' = sent
    BY <1>2 DEF Decrypt
  <2> QED BY <2>1, <2>2 DEF Numbered, KeysInv, RatchetTypes
<1>3. ASSUME NEW p \in Parties, NEW m \in sent, Decrypt(p, m), state[p].remote # m.dh
      PROVE  Numbered'
  <2>1. /\ state'[p].private = nextPair /\ state'[p].send.n = 0
        /\ \A q \in Parties \ {p} : state'[q] = state[q]
    BY <1>3, Stepping
  <2>2. sent' = sent
    BY <1>3 DEF Decrypt
  <2>3. \A k \in sent : k.dh # nextPair
    BY DEF KeysInv, RatchetTypes, KeysOwned
  <2>4. \A k, j \in sent :
          k.to = j.to /\ k.dh = state'[Peer(k.to)].private /\ k.id < j.id => j.dh = k.dh
    <3>1. \A k \in sent : Peer(k.to) \in Parties
      BY DEF KeysInv, RatchetTypes
    <3> QED BY <2>1, <2>3, <3>1 DEF Numbered
  <2>5. \A q \in Parties : \A i \in 0..(state'[q].send.n - 1) :
          \E j \in sent : j.dh = state'[q].private /\ j.key.n = i
    BY <2>1 DEF Numbered
  <2> QED BY <2>2, <2>4, <2>5 DEF Numbered
<1>4. ASSUME NEW m \in sent, Lose(m) PROVE Numbered'
  BY <1>4 DEF Lose, Numbered
<1> QED BY <1>1, <1>2, <1>3, <1>4 DEF RatchetNext

LEMMA OrderEncrypt ==
  ASSUME KeysInv, Numbered, InOrder, NEW p \in Parties, Encrypt(p)
  PROVE  InOrder'
<1> USE Peers
<1>1. PICK m \in [id : Nat, to : Parties, dh : Nat, key : Chains] :
        /\ m \notin sent /\ sent' = sent \cup {m}
        /\ m.to = Peer(p) /\ m.dh = state[p].private
        /\ m.key.root = state[p].send.root /\ m.key.n = state[p].send.n
        /\ state'[p].send.n = m.key.n + 1 /\ state'[p].send.root = m.key.root
        /\ state'[p].root = state[p].root /\ state'[p].recv = state[p].recv
        /\ state'[p].private = state[p].private /\ state'[p].remote = state[p].remote
        /\ \A q \in Parties \ {p} : state'[q] = state[q]
        /\ UNCHANGED <<nextPair, taken, lost, failed, shuffled>>
  BY Encrypting DEF KeysInv
<1>2. \A q \in Parties :
        /\ state'[q].root = state[q].root /\ state'[q].recv = state[q].recv
        /\ state'[q].private = state[q].private /\ state'[q].remote = state[q].remote
        /\ state'[q].send.root = state[q].send.root
  BY <1>1
<1>3. m \notin taken \cup lost
  BY <1>1 DEF KeysInv, RatchetTypes
<1>4. \A q \in Parties : Waiting(q)' = IF q = m.to THEN Waiting(q) \cup {m} ELSE Waiting(q)
  BY <1>1, <1>3 DEF Waiting
<1>5. PICK a \in Parties : Ahead(a)
  BY DEF InOrder
<1>6. Ahead(a)'
  <2>1. (m.to = a => m.dh = state[Peer(a)].private) /\ (m.to = Peer(a) => m.dh = state[a].private)
    BY <1>1, <1>5 DEF Parties
  <2>2. \A k \in Waiting(a)' : k.dh = state'[Peer(a)].private
    BY <1>2, <1>4, <1>5, <2>1 DEF Ahead
  <2>3. \A k \in Waiting(Peer(a))' : k.dh \in {state'[a].private, state'[Peer(a)].remote}
    BY <1>2, <1>4, <1>5, <2>1 DEF Ahead
  <2>4. \A k \in taken' : k.to = Peer(a) => k.dh # state'[a].private
    BY <1>1, <1>2, <1>5 DEF Ahead
  <2>5. /\ state'[a].remote = state'[Peer(a)].private /\ state'[Peer(a)].remote # state'[a].private
        /\ state'[a].root = state'[a].send.root
        /\ state'[a].root = Hkdf(state'[Peer(a)].root, DH(state'[a].private, state'[Peer(a)].private))
        /\ state'[a].recv.root = state'[Peer(a)].send.root
    BY <1>2, <1>5 DEF Ahead
  <2> QED BY <2>2, <2>3, <2>4, <2>5 DEF Ahead
<1>7. ASSUME NEW q \in Parties PROVE InStep(q)'
  <2>1. m.to = q /\ m.dh = state[q].remote =>
          m.key.root = state[q].recv.root /\ state[q].recv.n <= m.key.n
    <3> SUFFICES ASSUME m.to = q, m.dh = state[q].remote
                 PROVE  m.key.root = state[q].recv.root /\ state[q].recv.n <= m.key.n
      OBVIOUS
    <3>1. q = Peer(p) /\ p = Peer(q) /\ state[q].remote = state[p].private
      BY <1>1
    <3>2. q = a
      BY <1>1, <1>5, <3>1 DEF Ahead, Parties
    <3>3. state[q].recv.root = state[p].send.root
      BY <1>5, <3>1, <3>2 DEF Ahead
    <3>4. state[q].recv.n <= state[p].send.n
      BY <3>1 DEF InOrder, InStep
    <3> QED BY <1>1, <3>3, <3>4
  <2>2. state[q].recv.n \in Nat /\ \A r \in Parties : state[r].send.n \in Nat
    BY DEF KeysInv, RatchetTypes, Chains
  <2>3. \A r \in Parties : state[r].send.n <= state'[r].send.n
    BY <1>1, <2>2
  <2>4. state'[q].remote = state'[Peer(q)].private =>
          state'[q].recv.n <= state'[Peer(q)].send.n
    BY <1>1, <1>2, <2>2, <2>3 DEF InOrder, InStep
  <2>5. ASSUME NEW k \in sent', k.to = q, k.dh = state'[q].remote
        PROVE  /\ k.key.root = state'[q].recv.root
               /\ k \in Waiting(q)' => state'[q].recv.n <= k.key.n
               /\ k \in taken' /\ ~Behind(k)' => k.key.n < state'[q].recv.n
    <3>1. CASE k = m
      BY <1>1, <1>2, <1>3, <2>1, <2>5, <3>1
    <3>2. CASE k \in sent
      <4>1. Behind(k)' <=> Behind(k)
        BY <1>1 DEF Behind
      <4>2. k \in Waiting(q)' => k \in Waiting(q)
        BY <1>1, <1>4, <3>2
      <4> QED BY <1>1, <1>2, <2>5, <3>2, <4>1, <4>2 DEF InOrder, InStep
    <3> QED BY <1>1, <3>1, <3>2
  <2> QED BY <2>4, <2>5 DEF InStep
<1> QED BY <1>6, <1>7 DEF InOrder

\* A message taken in order: those before it were taken or lost.
LEMMA InTurn ==
  ASSUME KeysInv, Numbered, NEW p \in Parties, NEW m \in sent, Decrypt(p, m), ~shuffled'
  PROVE  /\ m \in Waiting(p) /\ ~shuffled /\ taken' = taken \cup {m} /\ UNCHANGED <<sent, lost>>
         /\ \A k \in sent : k.to = p /\ k.id < m.id => k \in taken \cup lost
         /\ \A k \in Waiting(p) : k # m => m.id < k.id
         /\ \A q \in Parties : Waiting(q)' = Waiting(q) \ {m}
         /\ \A k : Behind(k)' <=> Behind(k)
<1>1. /\ m.to = p /\ m \notin lost /\ m \notin taken /\ ~shuffled
      /\ taken' = taken \cup {m} /\ UNCHANGED <<sent, lost>>
      /\ \A k \in Waiting(p) : ~(k.id < m.id)
  BY DEF Decrypt
<1>2. \A k \in Waiting(p) : k \in sent /\ k.id \in Nat /\ m.id \in Nat
  BY DEF Waiting, KeysInv, RatchetTypes
<1>3. \A k \in Waiting(p) : k # m => m.id < k.id
  BY <1>1, <1>2 DEF Numbered
<1>4. \A q \in Parties : Waiting(q)' = Waiting(q) \ {m}
  BY <1>1 DEF Waiting
<1> QED BY <1>1, <1>3, <1>4 DEF Waiting, Behind

LEMMA OrderDecrypt ==
  ASSUME KeysInv, Numbered, InOrder, ~shuffled', FailsOnlyBehindLoss,
         NEW p \in Parties, NEW m \in sent, Decrypt(p, m), state[p].remote = m.dh
  PROVE  InOrder' /\ FailsOnlyBehindLoss'
<1> USE Peers
<1>1. /\ m \in Waiting(p) /\ ~shuffled /\ taken' = taken \cup {m} /\ UNCHANGED <<sent, lost>>
      /\ \A k \in sent : k.to = p /\ k.id < m.id => k \in taken \cup lost
      /\ \A k \in Waiting(p) : k # m => m.id < k.id
      /\ \A q \in Parties : Waiting(q)' = Waiting(q) \ {m}
      /\ \A k : Behind(k)' <=> Behind(k)
  BY InTurn
<1>2. /\ state'[p].recv.n = state[p].recv.n + 1 /\ state'[p].recv.root = state[p].recv.root
      /\ state'[p].root = state[p].root /\ state'[p].send = state[p].send
      /\ state'[p].private = state[p].private /\ state'[p].remote = state[p].remote
      /\ \A q \in Parties \ {p} : state'[q] = state[q]
      /\ failed' = failed \cup {k \in {m} \ taken : state[p].recv # m.key}
  BY Decrypting
<1>3. m.to = p /\ m \notin taken
  BY <1>1 DEF Waiting
<1>4. state[p].recv \in Chains /\ state[p].recv.n \in Nat /\ m.key \in Chains
      /\ \A k \in sent : k.key.n \in Nat /\ k.to \in Parties /\ k.id \in Nat
  BY DEF KeysInv, RatchetTypes, Chains
<1>5. m.key.root = state[p].recv.root /\ state[p].recv.n <= m.key.n
  BY <1>1, <1>3 DEF InOrder, InStep
<1>6. ASSUME ~Behind(m) PROVE m.key.n = state[p].recv.n
  <2> SUFFICES ASSUME state[p].recv.n < m.key.n PROVE FALSE
    BY <1>4, <1>5
  <2>1. state[p].recv.n \in 0..(m.key.n - 1)
    BY <1>4
  <2>2. PICK k \in sent : k.dh = m.dh /\ k.key.n = state[p].recv.n
    BY <2>1 DEF Numbered
  <2>3. k.to = p /\ k.id < m.id
    BY <1>3, <2>2 DEF Numbered, KeysInv, KeysOwned
  <2>4. k \in taken /\ ~Behind(k)
    BY <1>1, <1>3, <1>4, <1>6, <2>2, <2>3 DEF Behind, KeysInv, RatchetTypes
  <2> QED BY <1>3, <1>4, <2>2, <2>3, <2>4 DEF InOrder, InStep
<1>7. PICK a \in Parties : Ahead(a)
  BY DEF InOrder
<1>8. Ahead(a)'
  <2>1. \A q \in Parties :
          /\ state'[q].root = state[q].root /\ state'[q].send = state[q].send
          /\ state'[q].recv.root = state[q].recv.root
          /\ state'[q].private = state[q].private /\ state'[q].remote = state[q].remote
    BY <1>2
  <2>2. m.to = Peer(a) => m.dh # state[a].private
    BY <1>3, <1>7 DEF Ahead
  <2> QED BY <1>1, <1>7, <2>1, <2>2 DEF Ahead
<1>9. ASSUME NEW q \in Parties PROVE InStep(q)'
  <2>1. CASE q # p
    BY <1>1, <1>2, <1>3, <2>1 DEF InOrder, InStep, Waiting
  <2>2. CASE q = p
    <3>1. ASSUME NEW k \in sent, k.to = p, k.dh = state[p].remote
          PROVE  /\ k.key.root = state'[p].recv.root
                 /\ k \in Waiting(p)' => state'[p].recv.n <= k.key.n
                 /\ k \in taken' /\ ~Behind(k)' => k.key.n < state'[p].recv.n
      <4>1. k \in Waiting(p)' => m.key.n < k.key.n
        BY <1>1, <3>1 DEF Numbered
      <4>2. k \in taken /\ ~Behind(k) => k.key.n < state[p].recv.n
        BY <3>1 DEF InOrder, InStep
      <4>3. k.key.root = state[p].recv.root
        BY <3>1 DEF InOrder, InStep
      <4> QED BY <1>1, <1>2, <1>4, <1>5, <1>6, <4>1, <4>2, <4>3
    <3>2. state'[p].remote = state'[Peer(p)].private => state'[p].recv.n <= state'[Peer(p)].send.n
      <4>1. state'[Peer(p)] = state[Peer(p)] /\ state[Peer(p)].send.n \in Nat
        BY <1>2 DEF KeysInv, RatchetTypes, Chains
      <4>2. state[p].remote = state[Peer(p)].private => m.key.n < state[Peer(p)].send.n
        BY DEF KeysInv, KeysOwned
      <4> QED BY <1>2, <1>4, <1>5, <4>1, <4>2
    <3> QED BY <1>1, <1>2, <2>2, <3>1, <3>2 DEF InStep
  <2> QED BY <2>1, <2>2
<1>10. FailsOnlyBehindLoss'
  <2>1. m \in failed' \ failed => Behind(m)
    <3>1. m.key.n = state[p].recv.n => m.key = state[p].recv
      BY <1>4, <1>5 DEF Chains
    <3> QED BY <1>2, <1>6, <3>1
  <2>2. failed' \subseteq failed \cup {m}
    BY <1>2
  <2> QED BY <1>1, <2>1, <2>2 DEF FailsOnlyBehindLoss, Behind
<1> QED BY <1>7, <1>8, <1>9, <1>10 DEF InOrder

LEMMA OrderStepping ==
  ASSUME KeysInv, Numbered, InOrder, ~shuffled', FailsOnlyBehindLoss,
         NEW p \in Parties, NEW m \in sent, Decrypt(p, m), state[p].remote # m.dh
  PROVE  InOrder' /\ FailsOnlyBehindLoss'
<1> USE Peers
<1>1. /\ m \in Waiting(p) /\ ~shuffled /\ taken' = taken \cup {m} /\ UNCHANGED <<sent, lost>>
      /\ \A k \in sent : k.to = p /\ k.id < m.id => k \in taken \cup lost
      /\ \A k \in Waiting(p) : k # m => m.id < k.id
      /\ \A q \in Parties : Waiting(q)' = Waiting(q) \ {m}
      /\ \A k : Behind(k)' <=> Behind(k)
  BY InTurn
<1>2. /\ state'[p].recv.n = 1 /\ state'[p].recv.root = RecvRoot(p, m)
      /\ state'[p].root = SendRoot(p, m)
      /\ state'[p].send.root = SendRoot(p, m) /\ state'[p].send.n = 0
      /\ state'[p].private = nextPair /\ state'[p].remote = m.dh
      /\ \A q \in Parties \ {p} : state'[q] = state[q]
      /\ failed' = failed \cup {k \in {m} \ taken : [root |-> RecvRoot(p, m), n |-> 0] # m.key}
  BY Stepping
<1>3. m.to = p /\ m \notin taken
  BY <1>1 DEF Waiting
<1>4. /\ m.key \in Chains
      /\ \A k \in sent : k.key.n \in Nat /\ k.to \in Parties /\ k.id \in Nat
                         /\ k.dh \in Nat /\ k.dh < nextPair
  BY DEF KeysInv, RatchetTypes, KeysOwned, Chains, RkB
<1>5. \A q \in Parties : state[q].private < nextPair /\ state[q].remote < nextPair
                         /\ state[q].send.n \in Nat /\ nextPair \in Nat
                         /\ state[q].private \in Nat /\ state[q].remote \in Nat
  BY DEF KeysInv, RatchetTypes, KeysOwned, Chains, RkB
\* the party that steps is the one that is not ahead
<1>6. PICK a \in Parties : Ahead(a)
  BY DEF InOrder
<1>7. p # a
  BY <1>1, <1>6 DEF Ahead
<1>8. Peer(a) = p /\ Peer(p) = a /\ \A q \in Parties : q = a \/ q = p
  BY <1>7 DEF Parties
<1>9. m.dh = state[a].private
  BY <1>1, <1>6, <1>8 DEF Ahead
<1>10. RecvRoot(p, m) = state[a].root /\ state[a].root = state[a].send.root
  BY <1>6, <1>8, <1>9 DEF Ahead, RecvRoot, DH
<1>11. \A k \in sent : k.dh = m.dh =>
         k.to = p /\ k.key.root = state[a].root /\ k \notin taken /\ k.key.n < state[a].send.n
  <2> SUFFICES ASSUME NEW k \in sent, k.dh = m.dh
               PROVE  k.to = p /\ k.key.root = state[a].root /\ k \notin taken
                      /\ k.key.n < state[a].send.n
    OBVIOUS
  <2>1. k.to = Peer(a) /\ k.key.root = state[a].send.root /\ k.key.n < state[a].send.n
    BY <1>9 DEF KeysInv, KeysOwned
  <2>2. \A j \in taken : j.to = Peer(a) => j.dh # state[a].private
    BY <1>6 DEF Ahead
  <2> QED BY <1>8, <1>9, <1>10, <2>1, <2>2
<1>12. ASSUME ~Behind(m) PROVE m.key.n = 0
  <2> SUFFICES ASSUME 0 < m.key.n PROVE FALSE
    BY <1>4
  <2>1. PICK k \in sent : k.dh = m.dh /\ k.key.n = 0
    <3>1. 0 \in 0..(m.key.n - 1)
      BY <1>4
    <3> QED BY <3>1 DEF Numbered
  <2>2. k.to = p /\ k.id < m.id /\ k \notin taken
    BY <1>11, <2>1 DEF Numbered
  <2> QED BY <1>1, <1>3, <1>12, <2>1, <2>2 DEF Behind
<1>13. Ahead(p)'
  <2>1. \A k \in Waiting(p)' : k.dh = m.dh
    <3> SUFFICES ASSUME NEW k \in Waiting(p), k # m PROVE k.dh = m.dh
      BY <1>1
    <3>1. k \in sent /\ k.to = p /\ m.id < k.id
      BY <1>1 DEF Waiting
    <3> QED BY <1>3, <1>8, <1>9, <3>1 DEF Numbered
  <2>2. \A k \in Waiting(a)' : k.dh = state[a].remote
    BY <1>1, <1>6, <1>8 DEF Ahead
  <2>3. \A k \in taken' : k.dh # nextPair
    BY <1>1, <1>4 DEF KeysInv, RatchetTypes
  <2>4. state'[a] = state[a] /\ state[a].remote # nextPair
    BY <1>2, <1>5, <1>7
  <2>5. SendRoot(p, m) = Hkdf(state[a].root, DH(nextPair, state[a].private))
    BY <1>9, <1>10 DEF SendRoot
  <2>6. /\ state'[p].remote = state'[a].private /\ state'[a].remote # state'[p].private
        /\ state'[p].root = state'[p].send.root
        /\ state'[p].root = Hkdf(state'[a].root, DH(state'[p].private, state'[a].private))
        /\ state'[p].recv.root = state'[a].send.root
    BY <1>2, <1>9, <1>10, <2>4, <2>5
  <2> QED BY <1>2, <1>8, <1>9, <2>1, <2>2, <2>3, <2>4, <2>6 DEF Ahead
<1>14. InStep(p)'
  <2>1. ASSUME NEW k \in sent, k.dh = m.dh
        PROVE  /\ k.key.root = state'[p].recv.root
               /\ k \in Waiting(p)' => state'[p].recv.n <= k.key.n
               /\ k \in taken' /\ ~Behind(k)' => k.key.n < state'[p].recv.n
    <3>1. k \in Waiting(p)' => m.key.n < k.key.n
      BY <1>1, <2>1 DEF Numbered
    <3>2. k \in taken' => k = m
      BY <1>1, <1>11, <2>1
    <3> QED BY <1>1, <1>2, <1>4, <1>10, <1>11, <1>12, <2>1, <3>1, <3>2
  <2>2. state'[a].send.n = state[a].send.n /\ m.key.n < state[a].send.n
    BY <1>2, <1>7, <1>11
  <2> QED BY <1>1, <1>2, <1>4, <1>5, <1>8, <2>1, <2>2 DEF InStep
<1>15. InStep(a)'
  <2>1. state'[a] = state[a] /\ state'[a].remote # state'[p].private
    BY <1>2, <1>5, <1>7
  <2>2. \A k \in sent : k.to = a => (k \in taken' <=> k \in taken)
    BY <1>1, <1>3, <1>7
  <2> QED BY <1>1, <1>8, <2>1, <2>2 DEF InOrder, InStep
<1>16. FailsOnlyBehindLoss'
  <2>1. m \in failed' \ failed => Behind(m)
    <3>1. m.key.n = 0 => m.key = [root |-> RecvRoot(p, m), n |-> 0]
      BY <1>4, <1>10, <1>11 DEF Chains
    <3> QED BY <1>2, <1>12, <3>1
  <2>2. failed' \subseteq failed \cup {m}
    BY <1>2
  <2> QED BY <1>1, <2>1, <2>2 DEF FailsOnlyBehindLoss, Behind
<1> QED BY <1>8, <1>13, <1>14, <1>15, <1>16 DEF InOrder

LEMMA OrderLose ==
  ASSUME KeysInv, InOrder, FailsOnlyBehindLoss, NEW m \in sent, Lose(m)
  PROVE  (shuffled' \/ InOrder') /\ FailsOnlyBehindLoss'
<1>1. lost' = lost \cup {m} /\ UNCHANGED <<nextPair, state, sent, taken, failed, shuffled>>
  BY DEF Lose
<1>2. \A q : Waiting(q)' \subseteq Waiting(q)
  BY <1>1 DEF Waiting
<1>3. \A k : Behind(k) => Behind(k)'
  BY <1>1 DEF Behind
<1>4. \A p \in Parties : Ahead(p) => Ahead(p)'
  BY <1>1, <1>2 DEF Ahead
<1>5. \A p \in Parties : InStep(p) => InStep(p)'
  BY <1>1, <1>2, <1>3 DEF InStep
<1>6. FailsOnlyBehindLoss'
  BY <1>1, <1>3 DEF FailsOnlyBehindLoss, Behind
<1> QED BY <1>4, <1>5, <1>6 DEF InOrder

LEMMA RatchetStarts ==
  ASSUME RatchetInit
  PROVE  RatchetInv
<1> USE Peers
<1>1. PICK opk \in {NoPair, OpkB} :
        state = [p \in Parties |-> IF p = Alice THEN InitSender(X3dhSender(opk))
                                                ELSE InitReceiver(X3dhReceiver(opk))]
  BY DEF RatchetInit
<1>2. nextPair = 8 /\ sent = {} /\ taken = {} /\ lost = {} /\ failed = {} /\ shuffled = FALSE
  BY DEF RatchetInit, RkA
<1>3. DH(IkA, SpkB) = DH(SpkB, IkA) /\ DH(EkA, IkB) = DH(IkB, EkA)
      /\ DH(EkA, SpkB) = DH(SpkB, EkA) /\ DH(EkA, opk) = DH(opk, EkA)
  BY DEF DH
<1>4. X3dhSender(opk) = X3dhReceiver(opk)
  BY <1>3 DEF X3dhSender, X3dhReceiver
<1>5. X3dhReceiver(opk) \in Roots
  <2>1. opk \in Nat
    BY DEF NoPair, OpkB
  <2>2. /\ DH(SpkB, IkA) \in SUBSET Nat /\ DH(IkB, EkA) \in SUBSET Nat
        /\ DH(SpkB, EkA) \in SUBSET Nat /\ DH(opk, EkA) \in SUBSET Nat
    BY <2>1 DEF DH, SpkB, IkA, IkB, EkA
  <2> DEFINE three == <<DH(SpkB, IkA), DH(IkB, EkA), DH(SpkB, EkA)>>
             fourth == IF opk = NoPair THEN <<>> ELSE <<DH(opk, EkA)>>
  <2>3. three \in Roots
    BY <2>2 DEF Roots
  <2>4. fourth \in Roots
    <3>1. <<>> \in Roots
      BY DEF Roots
    <3>2. <<DH(opk, EkA)>> \in Roots
      BY <2>2 DEF Roots
    <3> QED BY <3>1, <3>2
  <2>5. X3dhReceiver(opk) = three \o fourth
    BY DEF X3dhReceiver
  <2> HIDE DEF three, fourth
  <2> QED BY <2>3, <2>4, <2>5 DEF Roots
<1> DEFINE secret == X3dhReceiver(opk)
           root == Hkdf(secret, DH(RkA, RkB))
<1>6. root \in Roots /\ root # <<>> /\ root[Len(root)] = DH(RkA, RkB)
  <2>1. RkA \in Nat /\ RkB \in Nat
    BY DEF RkA, RkB
  <2> QED BY <1>5, <2>1, Appended
<1>7. /\ state[Alice] = [root |-> root, send |-> [root |-> root, n |-> 0],
                         recv |-> [root |-> <<>>, n |-> 0], private |-> RkA, remote |-> RkB]
      /\ state[Bob] = [root |-> secret, send |-> [root |-> <<>>, n |-> 0],
                       recv |-> [root |-> <<>>, n |-> 0], private |-> RkB, remote |-> NoPair]
  BY <1>1, <1>4, RatchetAssumption DEF InitSender, InitReceiver, Chain, ZeroChain
<1>8. state \in [Parties -> [root : Roots, send : Chains, recv : Chains,
                             private : Nat, remote : Nat]]
  <2>1. <<>> \in Roots
    BY DEF Roots
  <2>2. state[Alice] \in [root : Roots, send : Chains, recv : Chains, private : Nat, remote : Nat]
    BY <1>6, <1>7, <2>1 DEF Chains, RkA, RkB
  <2>3. state[Bob] \in [root : Roots, send : Chains, recv : Chains, private : Nat, remote : Nat]
    BY <1>5, <1>7, <2>1 DEF Chains, RkB, NoPair
  <2>4. state = [p \in Parties |-> state[p]]
    BY <1>1
  <2> QED BY <2>2, <2>3, <2>4 DEF Parties
<1>9. KeysInv
  <2>1. RatchetTypes
    <3>1. nextPair \in Nat /\ nextPair > RkA
      BY <1>2 DEF RkA
    <3>2. IsFiniteSet(sent)
      BY <1>2, FS_EmptySet
    <3> QED BY <1>2, <1>8, <3>1, <3>2 DEF RatchetTypes
  <2>2. Named(state[Alice].send.root, RkA) /\ Named(state[Bob].send.root, RkB)
    BY <1>6, <1>7 DEF Named, RkA, RkB
  <2>3. \A p \in Parties : /\ state[p].private \in RkB..(nextPair - 1)
                           /\ state[p].remote < nextPair
                           /\ Named(state[p].send.root, state[p].private)
                           /\ state[p].private # state[Peer(p)].private
    BY <1>2, <1>7, <2>2 DEF Parties, RkA, RkB, NoPair
  <2> QED BY <1>2, <2>1, <2>3 DEF KeysInv, KeysOwned
<1>10. Numbered
  BY <1>2, <1>7 DEF Numbered, Parties
<1>11. FailsOnlyBehindLoss
  BY <1>2 DEF FailsOnlyBehindLoss
<1>12. InOrder
  <2>1. Ahead(Alice)
    BY <1>2, <1>7 DEF Ahead, Waiting, RkA, NoPair
  <2>2. \A p \in Parties : InStep(p)
    BY <1>2, <1>7 DEF InStep, Parties
  <2> QED BY <2>1, <2>2 DEF InOrder
<1> QED BY <1>9, <1>10, <1>11, <1>12 DEF RatchetInv

\* The invariant of the conversation is inductive: a chain is owned by one key
\* pair, messages are numbered along it, and in order both parties are in step.
THEOREM RatchetInvariant == RatchetSpec => []RatchetInv
<1>1. RatchetInit => RatchetInv
  BY RatchetStarts
<1>2. RatchetInv /\ [RatchetNext]_ratchetVars => RatchetInv'
  <2>1. ASSUME RatchetInv, RatchetNext PROVE RatchetInv'
    <3>1. KeysInv'
      BY <2>1, TypesStep, KeysStep DEF RatchetInv, KeysInv
    <3>2. Numbered'
      BY <2>1, <3>1, NumberedStep DEF RatchetInv
    <3>3. ASSUME ~shuffled' PROVE InOrder' /\ FailsOnlyBehindLoss'
      <4>1. ~shuffled
        BY <2>1, <3>3 DEF RatchetNext, Encrypt, Decrypt, Lose
      <4>2. ASSUME NEW p \in Parties, Encrypt(p) PROVE InOrder' /\ FailsOnlyBehindLoss'
        <5>1. failed' = failed /\ lost' = lost
          BY <4>2 DEF Encrypt
        <5>2. FailsOnlyBehindLoss'
          BY <2>1, <4>1, <5>1 DEF RatchetInv, FailsOnlyBehindLoss
        <5> QED BY <2>1, <4>1, <4>2, <5>2, OrderEncrypt DEF RatchetInv
      <4>3. ASSUME NEW p \in Parties, NEW m \in sent, Decrypt(p, m)
            PROVE  InOrder' /\ FailsOnlyBehindLoss'
        BY <2>1, <3>3, <4>1, <4>3, OrderDecrypt, OrderStepping DEF RatchetInv
      <4>4. ASSUME NEW m \in sent, Lose(m) PROVE InOrder' /\ FailsOnlyBehindLoss'
        BY <2>1, <3>3, <4>1, <4>4, OrderLose DEF RatchetInv
      <4> QED BY <2>1, <4>2, <4>3, <4>4 DEF RatchetNext
    <3>4. shuffled' => FailsOnlyBehindLoss'
      BY DEF FailsOnlyBehindLoss
    <3> QED BY <3>1, <3>2, <3>3, <3>4 DEF RatchetInv
  <2>2. ASSUME RatchetInv, UNCHANGED ratchetVars PROVE RatchetInv'
    BY <2>2 DEF ratchetVars, RatchetInv, KeysInv, RatchetTypes, KeysOwned, Numbered,
       FailsOnlyBehindLoss, InOrder, Ahead, InStep, Waiting, Behind
  <2> QED BY <2>1, <2>2
<1> QED BY <1>1, <1>2, PTL DEF RatchetSpec

\* Decryption of messages that arrive once and in the order they were sent
\* fails at most for the rest of a sending chain of which one was lost
\* (ratchet_decrypt, dh_ratchet_step), however many messages there are.
THEOREM LossBounded == RatchetSpec => []FailsOnlyBehindLoss
<1>1. RatchetInv => FailsOnlyBehindLoss
  BY DEF RatchetInv
<1> QED BY <1>1, RatchetInvariant, PTL

\* Each message is encrypted with a key of its own (ratchet_encrypt), whatever
\* the mailbox loses, repeats or delays.
THEOREM MessageKeysFresh == RatchetSpec => []KeysFresh
<1>1. RatchetInv => KeysFresh
  <2> SUFFICES ASSUME RatchetInv, NEW m \in sent, NEW k \in sent, m.key = k.key PROVE m = k
    BY DEF KeysFresh
  <2>1. Named(m.key.root, m.dh) /\ Named(m.key.root, k.dh) /\ m.dh \in Nat /\ k.dh \in Nat
    BY DEF RatchetInv, KeysInv, KeysOwned, RatchetTypes
  <2>2. m.dh = k.dh
    <3>1. ASSUME NEW i \in Nat, NEW j \in Nat, i < m.dh, j < k.dh, DH(m.dh, i) = DH(k.dh, j)
          PROVE  m.dh = k.dh
      <4>1. m.dh \in {k.dh, j} /\ k.dh \in {m.dh, i}
        BY <3>1 DEF DH
      <4> QED BY <2>1, <3>1, <4>1
    <3> QED BY <2>1, <3>1 DEF Named
  <2> QED BY <2>2 DEF RatchetInv, KeysInv, KeysOwned
<1> QED BY <1>1, RatchetInvariant, PTL
=============================================================================
