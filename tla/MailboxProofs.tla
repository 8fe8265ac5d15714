--------------------------- MODULE MailboxProofs ---------------------------
(***************************************************************************)
(* Proofs about Mailbox, for any threads, users and number of messages,    *)
(* with and without faults.                                                *)
(***************************************************************************)
EXTENDS MCMailbox, TLAPS

\* What the proofs use of the set of message ids.
LEMMA MsgsFacts ==
  /\ 0 \in 0..MaxMsg /\ 0 \notin Msgs
  /\ 1 \in 1..(MaxMsg + 1)
  /\ \A m \in Msgs : m \in 0..MaxMsg /\ m \in Nat /\ m + 1 \in 1..(MaxMsg + 1)
BY MailboxAssumption DEF Msgs

(* Type correctness: one lemma per group of actions. *)

LEMMA TypeSend ==
  ASSUME TypeOK,
         \/ \E u \in Users : SendUpload(u) \/ SendUploadFails(u)
         \/ SendSave \/ SendSaveFails \/ SendUndo \/ SendContacts
         \/ \E m \in Msgs : SendAnswer(m)
  PROVE  TypeOK'
<1> USE MailboxAssumption, MsgsFacts DEF TypeOK, PCs, Seen, Procs, Goto, Take, store,
     env, sent, procs, history
<1>1. ASSUME NEW u \in Users, SendUpload(u) PROVE TypeOK'
  BY <1>1 DEF SendUpload
<1>2. ASSUME NEW u \in Users, SendUploadFails(u) PROVE TypeOK'
  BY <1>2 DEF SendUploadFails
<1>3. CASE SendSave \/ SendSaveFails
  BY <1>3 DEF SendSave, SendSaveFails
<1>4. CASE SendUndo \/ SendContacts
  BY <1>4 DEF SendUndo, SendContacts, DeleteBlobs, Finish, NoObjects
<1>5. ASSUME NEW m \in Msgs, SendAnswer(m) PROVE TypeOK'
  BY <1>5 DEF SendAnswer
<1> QED BY <1>1, <1>2, <1>3, <1>4, <1>5

LEMMA TypeFetch ==
  ASSUME TypeOK, NEW t \in Threads, Fetching(t) \/ \E u \in Users : FetchList(t, u)
  PROVE  TypeOK'
<1> USE MailboxAssumption, MsgsFacts DEF TypeOK, PCs, Seen, Procs, Goto, Take, store,
     env, sent, procs, history
<1>1. ASSUME NEW u \in Users, FetchList(t, u) PROVE TypeOK'
  BY <1>1 DEF FetchList, ListRows, Inbox
<1>2. ASSUME NEW m \in Msgs, FetchNext(t, m) PROVE TypeOK'
  BY <1>2 DEF FetchNext, VisitRow
<1>3. CASE FetchGet(t)
  BY <1>3 DEF FetchGet
<1>6. CASE FetchMiss(t)
  BY <1>6 DEF FetchMiss
<1>7. CASE FetchDropGone(t)
  BY <1>7 DEF FetchDropGone
<1>4. CASE FetchDrop(t)
  BY <1>4 DEF FetchDrop, CommitDelete, Dirty
<1>5. CASE FetchEnd(t)
  BY <1>5 DEF FetchEnd, Finish, NoObjects
<1> QED BY <1>1, <1>2, <1>3, <1>4, <1>5, <1>6, <1>7 DEF Fetching

LEMMA TypeDelete ==
  ASSUME TypeOK,
         \/ \E t \in Threads : \/ \E m \in Msgs : ConfirmRead(t, m)
                               \/ ConfirmUnlink(t) \/ ConfirmErase(t)
         \/ PurgeList \/ Purging
         \/ \E u \in Users : DeleteAccount(u)
  PROVE  TypeOK'
<1> USE MailboxAssumption, MsgsFacts DEF TypeOK, PCs, Seen, Procs, Goto, Take, store,
     env, sent, procs, history
<1>1. ASSUME NEW t \in Threads, NEW m \in Msgs, ConfirmRead(t, m) PROVE TypeOK'
  BY <1>1 DEF ConfirmRead
<1>2. ASSUME NEW t \in Threads, ConfirmUnlink(t) PROVE TypeOK'
  BY <1>2 DEF ConfirmUnlink, Unlink, DeleteBlobs
<1>8. ASSUME NEW t \in Threads, ConfirmErase(t) PROVE TypeOK'
  BY <1>8 DEF ConfirmErase, Finish, NoObjects
<1>3. CASE PurgeList
  BY <1>3 DEF PurgeList, ListRows, Overdue
<1>4. ASSUME NEW m \in Msgs, PurgeNext(m) PROVE TypeOK'
  BY <1>4 DEF PurgeNext, VisitRow
<1>5. CASE PurgeUnlink \/ PurgeEnd
  BY <1>5 DEF PurgeUnlink, PurgeEnd, Unlink, DeleteBlobs, Finish, NoObjects
<1>6. CASE PurgeErase
  BY <1>6 DEF PurgeErase, CommitDelete, Dirty
<1>7. ASSUME NEW u \in Users, DeleteAccount(u) PROVE TypeOK'
  BY <1>7 DEF DeleteAccount
<1> QED BY <1>1, <1>2, <1>3, <1>4, <1>5, <1>6, <1>7, <1>8 DEF Purging

LEMMA TypeRest ==
  ASSUME TypeOK,
         \/ \E m \in Msgs : Expire(m)
         \/ \E p \in Procs : Abort(p)
         \/ Crash
  PROVE  TypeOK'
<1> USE MailboxAssumption, MsgsFacts DEF TypeOK, PCs, Seen, Procs, store, env, sent,
     procs, history
<1>1. ASSUME NEW m \in Msgs, Expire(m) PROVE TypeOK'
  BY <1>1 DEF Expire
<1>2. ASSUME NEW p \in Procs, Abort(p) PROVE TypeOK'
  BY <1>2 DEF Abort, Finish, Take, NoObjects
<1>3. CASE Crash
  BY <1>3 DEF Crash, NoObjects
<1> QED BY <1>1, <1>2, <1>3

\* The types of Mailbox hold in every reachable state.
THEOREM TypeCorrect == Spec => []TypeOK
<1>1. Init => TypeOK
  BY MailboxAssumption, MsgsFacts DEF Init, TypeOK, PCs, Seen, Procs, Msgs, NoObjects
<1>2. TypeOK /\ [Next]_vars => TypeOK'
  <2> SUFFICES ASSUME TypeOK, [Next]_vars PROVE TypeOK'
    OBVIOUS
  <2>1. CASE Next
    BY <2>1, TypeSend, TypeFetch, TypeDelete, TypeRest DEF Next
  <2>2. CASE UNCHANGED vars
    BY <2>2 DEF vars, TypeOK
  <2> QED BY <2>1, <2>2
<1> QED BY <1>1, <1>2, PTL DEF Spec

---------------------------------------------------------------------------
(* Durability.  Durable is not inductive: a step may delete an object or a  *)
(* row, and only the state of the process that does it says that the        *)
(* message was released.                                                    *)

\* Durable, for the messages still to be answered as well.
Stored == \A m \in accepted \cup publishing : m < next /\ (Intact(m) \/ Released(m))

\* The message of the send in progress: new until it is saved, then safe.
Sending ==
  /\ pc[Loop] \in {"save", "undo", "contacts"} => item[Loop] < next
  /\ pc[Loop] \in {"save", "undo"} => item[Loop] \notin accepted \cup publishing
  /\ pc[Loop] = "save" => item[Loop] \in blobs \/ Released(item[Loop])
  /\ pc[Loop] = "contacts" => Intact(item[Loop]) \/ Released(item[Loop])

\* What a confirm and the expiry worker delete was released, and the worker
\* has no pending column value to flush.
Deleting ==
  /\ \A t \in Threads : pc[t] \in {"unlink", "erase"} => item[t] \in acked
  /\ todo[Loop] \subseteq expired
  /\ pc[Loop] \in {"purgeUnlink", "purgeErase"} => item[Loop] \in expired
  /\ Dirty(Loop) = {}

DurableInv == TypeOK /\ Stored /\ Sending /\ Deleting

LEMMA DurableSend ==
  ASSUME DurableInv, TypeOK',
         \/ \E u \in Users : SendUpload(u) \/ SendUploadFails(u)
         \/ SendSave \/ SendSaveFails \/ SendUndo \/ SendContacts
         \/ \E m \in Msgs : SendAnswer(m)
  PROVE  (Stored /\ Sending /\ Deleting)'
<1> USE MailboxAssumption, MsgsFacts
    DEF DurableInv, TypeOK, Stored, Sending, Deleting, Intact, Released, Procs, Dirty,
        Goto, Take, store, env, sent, procs, history
<1>1. ASSUME NEW u \in Users, SendUpload(u) PROVE (Stored /\ Sending /\ Deleting)'
  BY <1>1 DEF SendUpload
<1>2. ASSUME NEW u \in Users, SendUploadFails(u) PROVE (Stored /\ Sending /\ Deleting)'
  BY <1>2 DEF SendUploadFails
<1>3. CASE SendSave
  BY <1>3 DEF SendSave
<1>4. CASE SendSaveFails
  BY <1>4 DEF SendSaveFails
<1>5. CASE SendUndo
  BY <1>5 DEF SendUndo, DeleteBlobs, Finish, NoObjects
<1>6. CASE SendContacts
  BY <1>6 DEF SendContacts, Finish, NoObjects
<1>7. ASSUME NEW m \in Msgs, SendAnswer(m) PROVE (Stored /\ Sending /\ Deleting)'
  BY <1>7 DEF SendAnswer
<1> QED BY <1>1, <1>2, <1>3, <1>4, <1>5, <1>6, <1>7

LEMMA DurableFetch ==
  ASSUME DurableInv, TypeOK',
         NEW t \in Threads, Fetching(t) \/ \E u \in Users : FetchList(t, u)
  PROVE  (Stored /\ Sending /\ Deleting)'
<1> USE MailboxAssumption, MsgsFacts
    DEF DurableInv, TypeOK, Stored, Sending, Deleting, Intact, Released, Procs, Dirty,
        Goto, Take, store, env, sent, procs, history
<1>1. ASSUME NEW u \in Users, FetchList(t, u) PROVE (Stored /\ Sending /\ Deleting)'
  BY <1>1 DEF FetchList, ListRows
<1>2. ASSUME NEW m \in Msgs, FetchNext(t, m) PROVE (Stored /\ Sending /\ Deleting)'
  BY <1>2 DEF FetchNext, VisitRow
<1>3. CASE FetchGet(t)
  BY <1>3 DEF FetchGet
<1>4. CASE FetchMiss(t)
  BY <1>4 DEF FetchMiss
<1>5. CASE FetchDrop(t)
  BY <1>5 DEF FetchDrop, CommitDelete
<1>6. CASE FetchDropGone(t)
  BY <1>6 DEF FetchDropGone
<1>7. CASE FetchEnd(t)
  BY <1>7 DEF FetchEnd, Finish, NoObjects
<1> QED BY <1>1, <1>2, <1>3, <1>4, <1>5, <1>6, <1>7 DEF Fetching

LEMMA DurableDelete ==
  ASSUME DurableInv, TypeOK',
         \/ \E t \in Threads : \/ \E m \in Msgs : ConfirmRead(t, m)
                               \/ ConfirmUnlink(t) \/ ConfirmErase(t)
         \/ PurgeList \/ Purging
         \/ \E u \in Users : DeleteAccount(u)
  PROVE  (Stored /\ Sending /\ Deleting)'
<1> USE MailboxAssumption, MsgsFacts
    DEF DurableInv, TypeOK, Stored, Sending, Deleting, Intact, Released, Procs, Dirty,
        Goto, Take, store, env, sent, procs, history
<1>1. ASSUME NEW t \in Threads, NEW m \in Msgs, ConfirmRead(t, m)
      PROVE (Stored /\ Sending /\ Deleting)'
  BY <1>1 DEF ConfirmRead
<1>2. ASSUME NEW t \in Threads, ConfirmUnlink(t) PROVE (Stored /\ Sending /\ Deleting)'
  BY <1>2 DEF ConfirmUnlink, Unlink, DeleteBlobs
<1>3. ASSUME NEW t \in Threads, ConfirmErase(t) PROVE (Stored /\ Sending /\ Deleting)'
  BY <1>3 DEF ConfirmErase, Finish, NoObjects
<1>4. CASE PurgeList
  BY <1>4 DEF PurgeList, ListRows, Overdue
<1>5. ASSUME NEW m \in Msgs, PurgeNext(m) PROVE (Stored /\ Sending /\ Deleting)'
  BY <1>5 DEF PurgeNext, VisitRow
<1>6. CASE PurgeUnlink
  BY <1>6 DEF PurgeUnlink, Unlink, DeleteBlobs
<1>7. CASE PurgeErase
  BY <1>7 DEF PurgeErase, CommitDelete
<1>8. CASE PurgeEnd
  BY <1>8 DEF PurgeEnd, Finish, NoObjects
<1>9. ASSUME NEW u \in Users, DeleteAccount(u) PROVE (Stored /\ Sending /\ Deleting)'
  BY <1>9 DEF DeleteAccount
<1> QED BY <1>1, <1>2, <1>3, <1>4, <1>5, <1>6, <1>7, <1>8, <1>9 DEF Purging

LEMMA DurableRest ==
  ASSUME DurableInv, TypeOK',
         \/ \E m \in Msgs : Expire(m)
         \/ \E p \in Procs : Abort(p)
         \/ Crash
  PROVE  (Stored /\ Sending /\ Deleting)'
<1> USE MailboxAssumption, MsgsFacts
    DEF DurableInv, TypeOK, Stored, Sending, Deleting, Intact, Released, Procs, Dirty,
        Goto, Take, store, env, sent, procs, history
<1>1. ASSUME NEW m \in Msgs, Expire(m) PROVE (Stored /\ Sending /\ Deleting)'
  BY <1>1 DEF Expire
<1>2. ASSUME NEW p \in Procs, Abort(p) PROVE (Stored /\ Sending /\ Deleting)'
  BY <1>2 DEF Abort, Finish, NoObjects
<1>3. CASE Crash
  BY <1>3 DEF Crash, NoObjects
<1> QED BY <1>1, <1>2, <1>3

LEMMA DurableInit == Init => DurableInv
<1>1. Init => TypeOK
  BY MailboxAssumption, MsgsFacts DEF Init, TypeOK, PCs, Seen, Procs, NoObjects
<1> QED BY <1>1 DEF Init, DurableInv, Stored, Sending, Deleting, Dirty, NoObjects, Procs

\* The strengthening of Durable holds in every reachable state.
THEOREM DurableInvariant == Spec => []DurableInv
<1>1. DurableInv /\ TypeOK' /\ [Next]_vars => DurableInv'
  <2> SUFFICES ASSUME DurableInv, TypeOK', [Next]_vars PROVE DurableInv'
    OBVIOUS
  <2>1. CASE Next
    BY <2>1, DurableSend, DurableFetch, DurableDelete, DurableRest DEF Next, DurableInv
  <2>2. CASE UNCHANGED vars
    BY <2>2 DEF vars, DurableInv, Stored, Sending, Deleting, Intact, Released, Dirty
  <2> QED BY <2>1, <2>2
<1> QED BY <1>1, DurableInit, TypeCorrect, PTL DEF Spec

\* Mail is lost only when it was released, whatever fails and however the
\* requests interleave.
THEOREM Durability == Spec => []Durable
<1>1. DurableInv => Durable
  BY DEF DurableInv, Stored, Durable
<1> QED BY <1>1, DurableInvariant, PTL

---------------------------------------------------------------------------
(* Sessions.  A session holds objects only of rows that were committed      *)
(* before, so a send's row is new to every session, and a row that vanished *)
(* under a session was released.                                            *)

\* Ids not used yet, and the id of a send before its row is saved, are
\* unknown to every table, session and history.
Fresh(m) ==
  /\ row[m] = "none" /\ m \notin acked \cup exposed
  /\ \A p \in Procs : obj[p][m] = "none"

FreshIds ==
  /\ \A m \in Msgs : m >= next => Fresh(m)
  /\ pc[Loop] = "save" => Fresh(item[Loop])

\* A row a session holds disappears only when its message is released.
KnownRows ==
  /\ \A p \in Procs, m \in Msgs :
       obj[p][m] # "none" /\ row[m] = "none" => Released(m)
  /\ \A p \in Procs :
       /\ \A m \in todo[p] : obj[p][m] \in {"key", "inline", "expired"}
       /\ item[p] \notin todo[p]
       /\ pc[p] \in {"idle", "fetch", "purge"} => item[p] = 0
       /\ pc[p] = "idle" => todo[p] = {}
  /\ \A t \in Threads :
       pc[t] \in {"get", "drop"} => obj[t][item[t]] \in {"key", "inline"}

\* Inside an inbox request, what is loaded and unfilled is still to be visited.
Visited ==
  \A t \in Threads, m \in Msgs :
    pc[t] \in {"fetch", "get", "drop"} /\ obj[t][m] \in {"key", "inline"}
    => m \in todo[t] \cup {item[t]}

SessionInv ==
  DurableInv /\ FreshIds /\ KnownRows /\ Visited /\ ServedIsContent /\ DroppedOnlyReleased

LEMMA SessionSend ==
  ASSUME SessionInv, DurableInv', TypeOK',
         \/ \E u \in Users : SendUpload(u) \/ SendUploadFails(u)
         \/ SendSave \/ SendSaveFails \/ SendUndo \/ SendContacts
         \/ \E m \in Msgs : SendAnswer(m)
  PROVE  SessionInv'
<1> USE MailboxAssumption, MsgsFacts
    DEF SessionInv, DurableInv, FreshIds, Fresh, KnownRows, Visited, ServedIsContent,
         DroppedOnlyReleased, Stored, Sending, Deleting, TypeOK, Intact, Released,
         Procs, Dirty,
        Goto, Take, store, env, sent, procs, history
<1>1. ASSUME NEW u \in Users, SendUpload(u) PROVE SessionInv'
  BY <1>1 DEF SendUpload
<1>2. ASSUME NEW u \in Users, SendUploadFails(u) PROVE SessionInv'
  BY <1>2 DEF SendUploadFails
<1>3. CASE SendSave
  BY <1>3 DEF SendSave
<1>4. CASE SendSaveFails
  BY <1>4 DEF SendSaveFails
<1>5. CASE SendUndo
  BY <1>5 DEF SendUndo, DeleteBlobs, Finish, NoObjects
<1>6. CASE SendContacts
  BY <1>6 DEF SendContacts, Finish, NoObjects
<1>7. ASSUME NEW m \in Msgs, SendAnswer(m) PROVE SessionInv'
  BY <1>7 DEF SendAnswer
<1> HIDE DEF SessionInv
<1> QED BY <1>1, <1>2, <1>3, <1>4, <1>5, <1>6, <1>7

LEMMA SessionFetch ==
  ASSUME SessionInv, DurableInv', TypeOK',
         NEW t \in Threads, Fetching(t) \/ \E u \in Users : FetchList(t, u)
  PROVE  SessionInv'
<1> USE MailboxAssumption, MsgsFacts
    DEF SessionInv, DurableInv, FreshIds, Fresh, KnownRows, Visited, ServedIsContent,
         DroppedOnlyReleased, Stored, Sending, Deleting, TypeOK, Intact, Released,
         Procs, Dirty,
        Goto, Take, store, env, sent, procs, history
<1>1. ASSUME NEW u \in Users, FetchList(t, u) PROVE SessionInv'
  BY <1>1, SMTT(30) DEF FetchList, ListRows, Inbox
<1>2. ASSUME NEW m \in Msgs, FetchNext(t, m) PROVE SessionInv'
  BY <1>2, SMTT(30) DEF FetchNext, VisitRow, Vanished
<1>3. CASE FetchGet(t)
  BY <1>3, SMTT(30) DEF FetchGet
<1>4. CASE FetchMiss(t)
  BY <1>4 DEF FetchMiss
<1>5. CASE FetchDrop(t)
  <2>1. \A m \in Msgs : obj'[t][m] = IF m = item[t] THEN "dropped"
                                       ELSE IF obj[t][m] \in {"none", "dropped"} THEN obj[t][m]
                                       ELSE "expired"
    BY <1>5 DEF FetchDrop, CommitDelete, CanFlush
  <2>2. \A q \in Procs \ {t} : obj'[q] = obj[q]
    BY <1>5 DEF FetchDrop, CommitDelete, CanFlush
  <2>3. FreshIds'
    BY <1>5, <2>1, <2>2 DEF FetchDrop, CommitDelete, CanFlush
  <2>4. KnownRows'
    BY <1>5, <2>1, <2>2 DEF FetchDrop, CommitDelete, CanFlush
  <2>5. Visited'
    BY <1>5, <2>1, <2>2 DEF FetchDrop, CommitDelete, CanFlush
  <2>6. ServedIsContent'
    <3> SUFFICES ASSUME NEW s \in Threads, NEW m \in Msgs,
                        pc'[s] \in {"fetch", "get", "drop"}, obj'[s][m] = "expired",
                        m \notin todo'[s] \cup {item'[s]}
                 PROVE  row'[m] \in {"inline", "none"}
      BY DEF ServedIsContent
    <3>1. row'[m] \in {"inline", "none", row[m]}
      BY <1>5 DEF FetchDrop, CommitDelete
    <3>2. CASE s # t
      BY <1>5, <2>2, <3>1, <3>2 DEF FetchDrop
    <3>3. CASE s = t
      <4>1. m # item[t] /\ m \notin todo[t] /\ pc[t] = "drop" /\ obj[t][m] \in {"expired", "dirty"}
        <5>1. m # item[t] /\ obj[t][m] \notin {"none", "dropped"}
          BY <2>1, <3>3
        <5>2. m \notin todo[t] /\ pc[t] = "drop"
          BY <1>5, <3>3 DEF FetchDrop
        <5>3. obj[t][m] \notin {"key", "inline"}
          BY <5>1, <5>2 DEF SessionInv, Visited
        <5> QED BY <5>1, <5>2, <5>3 DEF Seen
      <4>2. CASE obj[t][m] = "expired"
        BY <3>1, <4>1, <4>2
      <4>3. CASE obj[t][m] = "dirty"
        BY <1>5, <4>1, <4>3 DEF FetchDrop, CommitDelete
      <4> QED BY <4>1, <4>2, <4>3
    <3> QED BY <3>2, <3>3
  <2>7. DroppedOnlyReleased'
    BY <1>5, <2>1, <2>2 DEF FetchDrop, CommitDelete, CanFlush
  <2> QED BY <2>3, <2>4, <2>5, <2>6, <2>7 DEF SessionInv
<1>6. CASE FetchDropGone(t)
  BY <1>6, SMTT(30) DEF FetchDropGone
<1>7. CASE FetchEnd(t)
  BY <1>7 DEF FetchEnd, Finish, NoObjects
<1> HIDE DEF SessionInv
<1> QED BY <1>1, <1>2, <1>3, <1>4, <1>5, <1>6, <1>7 DEF Fetching

LEMMA SessionDelete ==
  ASSUME SessionInv, DurableInv', TypeOK',
         \/ \E t \in Threads : \/ \E m \in Msgs : ConfirmRead(t, m)
                               \/ ConfirmUnlink(t) \/ ConfirmErase(t)
         \/ PurgeList \/ Purging
         \/ \E u \in Users : DeleteAccount(u)
  PROVE  SessionInv'
<1> USE MailboxAssumption, MsgsFacts
    DEF SessionInv, DurableInv, FreshIds, Fresh, KnownRows, Visited, ServedIsContent,
         DroppedOnlyReleased, Stored, Sending, Deleting, TypeOK, Intact, Released,
         Procs, Dirty,
        Goto, Take, store, env, sent, procs, history
<1>1. ASSUME NEW t \in Threads, NEW m \in Msgs, ConfirmRead(t, m) PROVE SessionInv'
  BY <1>1, SMTT(30) DEF ConfirmRead
<1>2. ASSUME NEW t \in Threads, ConfirmUnlink(t) PROVE SessionInv'
  BY <1>2 DEF ConfirmUnlink, Unlink, DeleteBlobs
<1>3. ASSUME NEW t \in Threads, ConfirmErase(t) PROVE SessionInv'
  BY <1>3, SMTT(30) DEF ConfirmErase, Finish, NoObjects
<1>4. CASE PurgeList
  BY <1>4 DEF PurgeList, ListRows, Overdue
<1>5. ASSUME NEW m \in Msgs, PurgeNext(m) PROVE SessionInv'
  BY <1>5, SMTT(30) DEF PurgeNext, VisitRow, Vanished
<1>6. CASE PurgeUnlink
  BY <1>6 DEF PurgeUnlink, Unlink, DeleteBlobs
<1>7. CASE PurgeErase /\ row[item[Loop]] = "none"
  BY <1>7 DEF PurgeErase, CommitDelete
<1>10. CASE PurgeErase /\ row[item[Loop]] # "none"
  <2>1. \A m \in Msgs : obj'[Loop][m] = IF m = item[Loop] THEN "dropped"
                                       ELSE IF obj[Loop][m] \in {"none",
                                            "dropped"} THEN obj[Loop][m]
                                       ELSE "expired"
    BY <1>10 DEF PurgeErase, CommitDelete
  <2>2. \A q \in Procs \ {Loop} : obj'[q] = obj[q]
    BY <1>10 DEF PurgeErase, CommitDelete
  <2>3. FreshIds'
    BY <1>10, <2>1, <2>2 DEF PurgeErase, CommitDelete
  <2>4. KnownRows'
    BY <1>10, <2>1, <2>2 DEF PurgeErase, CommitDelete
  <2>5. Visited'
    BY <1>10, <2>1, <2>2 DEF PurgeErase, CommitDelete
  <2>6. ServedIsContent'
    BY <1>10, <2>1, <2>2 DEF PurgeErase, CommitDelete
  <2>7. DroppedOnlyReleased'
    BY <1>10, <2>1, <2>2 DEF PurgeErase, CommitDelete
  <2> QED BY <2>3, <2>4, <2>5, <2>6, <2>7 DEF SessionInv
<1>8. CASE PurgeEnd
  BY <1>8 DEF PurgeEnd, Finish, NoObjects
<1>9. ASSUME NEW u \in Users, DeleteAccount(u) PROVE SessionInv'
  BY <1>9 DEF DeleteAccount
<1> HIDE DEF SessionInv
<1> QED BY <1>1, <1>2, <1>3, <1>4, <1>5, <1>6, <1>7, <1>8, <1>9, <1>10 DEF Purging

LEMMA SessionRest ==
  ASSUME SessionInv, DurableInv', TypeOK',
         \/ \E m \in Msgs : Expire(m)
         \/ \E p \in Procs : Abort(p)
         \/ Crash
  PROVE  SessionInv'
<1> USE MailboxAssumption, MsgsFacts
    DEF SessionInv, DurableInv, FreshIds, Fresh, KnownRows, Visited, ServedIsContent,
         DroppedOnlyReleased, Stored, Sending, Deleting, TypeOK, Intact, Released,
         Procs, Dirty,
        Goto, Take, store, env, sent, procs, history
<1>1. ASSUME NEW m \in Msgs, Expire(m) PROVE SessionInv'
  BY <1>1 DEF Expire
<1>2. ASSUME NEW p \in Procs, Abort(p) PROVE SessionInv'
  BY <1>2, SMTT(30) DEF Abort, Finish, NoObjects
<1>3. CASE Crash
  BY <1>3 DEF Crash, NoObjects
<1> HIDE DEF SessionInv
<1> QED BY <1>1, <1>2, <1>3

\* The invariant of the sessions holds in every reachable state.
THEOREM SessionInvariant == Spec => []SessionInv
<1>1. Init => DurableInv
  BY DurableInit
<1>2. Init /\ DurableInv => SessionInv
  BY MsgsFacts DEF Init, SessionInv, FreshIds, Fresh, KnownRows, Visited, ServedIsContent,
                   DroppedOnlyReleased, NoObjects, Procs
<1>3. SessionInv /\ TypeOK' /\ DurableInv' /\ [Next]_vars => SessionInv'
  <2> SUFFICES ASSUME SessionInv, TypeOK', DurableInv', [Next]_vars PROVE SessionInv'
    OBVIOUS
  <2>1. CASE Next
    BY <2>1, SessionSend, SessionFetch, SessionDelete, SessionRest DEF Next
  <2>2. CASE UNCHANGED vars
    BY <2>2 DEF vars, SessionInv, FreshIds, Fresh, KnownRows, Visited, ServedIsContent,
                DroppedOnlyReleased, Released
  <2> QED BY <2>1, <2>2
<1> QED BY <1>1, <1>2, <1>3, TypeCorrect, DurableInvariant, PTL DEF Spec

\* Every message of an inbox response carries its content.
THEOREM InboxContent == Spec => []ServedIsContent
BY SessionInvariant, PTL DEF SessionInv

\* The inbox leaves out only messages that were released.
THEOREM InboxComplete == Spec => []DroppedOnlyReleased
BY SessionInvariant, PTL DEF SessionInv

\* A row is added only by the send in progress, under its own id, which no
\* history knows.
LEMMA RowAdded ==
  ASSUME SessionInv, Next, NEW m \in Msgs, row[m] = "none", row'[m] # "none"
  PROVE  /\ item[Loop] = m /\ pc[Loop] = "save"
         /\ m \notin accepted \cup acked \cup exposed
<1>1. CASE SendSave \/ SendSaveFails
  <2>1. item[Loop] = m /\ pc[Loop] = "save"
    BY <1>1 DEF SendSave, SendSaveFails, Goto, SessionInv, DurableInv, TypeOK
  <2> QED BY <2>1 DEF SessionInv, DurableInv, Sending, FreshIds, Fresh
<1>2. ASSUME NEW t \in Threads, FetchDrop(t) PROVE FALSE
  BY <1>2 DEF FetchDrop, CommitDelete, CanFlush
<1>3. CASE PurgeErase
  BY <1>3 DEF PurgeErase, CommitDelete, SessionInv, DurableInv, Deleting
<1>4. ASSUME NEW t \in Threads, ConfirmErase(t) PROVE FALSE
  BY <1>4 DEF ConfirmErase, SessionInv, DurableInv, TypeOK
<1>5. ASSUME NEW u \in Users, DeleteAccount(u) PROVE FALSE
  BY <1>5 DEF DeleteAccount
<1>6. CASE UNCHANGED row
  BY <1>6
<1> QED
  BY <1>1, <1>2, <1>3, <1>4, <1>5, <1>6
  DEF Next, SendUpload, SendUploadFails, SendUndo, SendContacts, SendAnswer, PurgeList,
      Purging, PurgeNext, PurgeUnlink, PurgeEnd, FetchList, Fetching, FetchNext, FetchGet,
      FetchMiss, FetchDropGone, FetchEnd, ConfirmRead, ConfirmUnlink, Expire, Abort, Crash,
      store

\* No row comes back: only the send in progress adds one, under a new id.
THEOREM RowsStayDeleted == Spec => NoResurrection
<1> DEFINE NoneReturns ==
      \A m \in Msgs : row[m] = "none" /\ row'[m] # "none" =>
        /\ item[Loop] = m /\ pc[Loop] = "save"
        /\ m \notin accepted \cup acked \cup exposed
<1>1. SessionInv /\ [Next]_vars => [NoneReturns]_vars
  <2> SUFFICES ASSUME SessionInv, Next PROVE NoneReturns
    OBVIOUS
  <2> QED BY RowAdded
<1> QED BY <1>1, SessionInvariant, PTL DEF Spec, NoResurrection

---------------------------------------------------------------------------
(* The life of a message.  Mailbox implements StoredLife.                   *)

\* The send in progress has stored the object whose row it is about to save.
SavedBlob == pc[Loop] = "save" => item[Loop] \in blobs

LEMMA BlobKept ==
  ASSUME SessionInv, SavedBlob, Next
  PROVE  SavedBlob'
<1> USE MailboxAssumption, MsgsFacts
    DEF SessionInv, DurableInv, TypeOK, SavedBlob, Procs, Goto, Take, store, env, sent,
          procs,
        history
<1>1. ASSUME NEW u \in Users, SendUpload(u) \/ SendUploadFails(u) \/ DeleteAccount(u)
      PROVE  SavedBlob'
  BY <1>1 DEF SendUpload, SendUploadFails, DeleteAccount
<1>2. CASE SendSave \/ SendSaveFails \/ SendUndo \/ SendContacts
  BY <1>2 DEF SendSave, SendSaveFails, SendUndo, SendContacts, Finish
<1>3. CASE PurgeList \/ Purging
  BY <1>3 DEF PurgeList, Purging, PurgeNext, PurgeUnlink, PurgeErase, PurgeEnd, Finish,
              VisitRow, ListRows
<1>4. ASSUME NEW m \in Msgs, SendAnswer(m) \/ Expire(m) PROVE SavedBlob'
  BY <1>4 DEF SendAnswer, Expire
<1>5. ASSUME NEW t \in Threads, ConfirmUnlink(t) PROVE SavedBlob'
  BY <1>5 DEF ConfirmUnlink, Unlink, DeleteBlobs, FreshIds, Fresh
<1>6. ASSUME NEW t \in Threads,
             \/ \E u \in Users : FetchList(t, u)
             \/ \E m \in Msgs : ConfirmRead(t, m)
             \/ Fetching(t) \/ ConfirmErase(t)
      PROVE  SavedBlob'
  BY <1>6 DEF FetchList, ConfirmRead, Fetching, FetchNext, FetchGet, FetchMiss, FetchDrop,
              FetchDropGone, FetchEnd, ConfirmErase, Finish, VisitRow
<1>7. ASSUME NEW p \in Procs, Abort(p) PROVE SavedBlob'
  BY <1>7 DEF Abort, Finish
<1>8. CASE Crash
  BY <1>8 DEF Crash
<1> QED BY <1>1, <1>2, <1>3, <1>4, <1>5, <1>6, <1>7, <1>8 DEF Next

\* The stage of a message by itself.
Unsaved(m) == m >= next \/ (pc[Loop] = "save" /\ item[Loop] = m)
StageOf(m) == IF Unsaved(m) THEN "new"
              ELSE IF row[m] = "none" THEN "gone"
              ELSE IF Intact(m) THEN "whole" ELSE "spoilt"

LEMMA Stages ==
  /\ Stage = [m \in Msgs |-> StageOf(m)] /\ Stage' = [m \in Msgs |-> StageOf(m)']
  /\ \A m \in Msgs : Stage[m] = StageOf(m) /\ Stage'[m] = StageOf(m)'
BY DEF Stage, StageOf, Unsaved

\* A step that only releases, spoils and removes messages is LetGo.
Going(m) ==
  /\ StageOf(m)' = "gone" \/ (StageOf(m)' = "spoilt" /\ StageOf(m) = "whole")
  /\ m \in accepted => m < next' /\ Released(m)'

LEMMA LetsGo ==
  ASSUME accepted' = accepted,
         \A m \in Msgs : m < next /\ Released(m) => m < next' /\ Released(m)',
         \A m \in Msgs : StageOf(m)' = StageOf(m) \/ Going(m)
  PROVE  Life!Next
<1> DEFINE spoilt == {m \in Msgs : StageOf(m)' # StageOf(m) /\ StageOf(m)' = "spoilt"}
           gone == {m \in Msgs : StageOf(m)' # StageOf(m) /\ StageOf(m)' = "gone"}
<1>1. ReleasedSent' = ReleasedSent \cup ReleasedSent' /\ ReleasedSent' \in SUBSET Msgs
  BY DEF ReleasedSent
<1>2. \A m \in spoilt : Stage[m] = "whole"
  BY Stages DEF Going
<1>3. (spoilt \cup gone) \cap accepted \subseteq ReleasedSent'
  BY DEF Going, ReleasedSent
<1>4. Stage' = [m \in Msgs |-> IF m \in gone THEN "gone"
                                ELSE IF m \in spoilt THEN "spoilt" ELSE Stage[m]]
  <2>1. \A m \in Msgs : StageOf(m)' = IF m \in gone THEN "gone"
                                      ELSE IF m \in spoilt THEN "spoilt" ELSE Stage[m]
    BY Stages DEF Going
  <2> QED BY <2>1, Stages
<1>5. spoilt \in SUBSET Msgs /\ gone \in SUBSET Msgs
  OBVIOUS
<1> HIDE DEF spoilt, gone
<1>6. Life!LetGo(ReleasedSent', spoilt, gone)
  BY <1>1, <1>2, <1>3, <1>4 DEF Life!LetGo
<1> QED BY <1>1, <1>5, <1>6 DEF Life!Next

\* A step that touches neither rows, objects nor histories leaves the life alone.
LEMMA LifeIdle ==
  ASSUME UNCHANGED <<sent, env, store, history>>,
         \A m \in Msgs : Unsaved(m)' <=> Unsaved(m)
  PROVE  Life!Next
<1>1. \A m \in Msgs : StageOf(m)' = StageOf(m)
  BY DEF StageOf, Intact, store
<1>2. \A m \in Msgs : m < next /\ Released(m) => m < next' /\ Released(m)'
  BY DEF Released, sent, env, history
<1>3. accepted' = accepted
  BY DEF history
<1> QED BY <1>1, <1>2, <1>3, LetsGo

\* Only the send's own steps change which messages are unsaved.
LEMMA LoopElsewhere ==
  ASSUME TypeOK, next' = next, pc[Loop] # "save", pc'[Loop] # "save"
  PROVE  \A m \in Msgs : Unsaved(m)' <=> Unsaved(m)
BY DEF Unsaved

LEMMA LoopStays ==
  ASSUME next' = next, pc'[Loop] = pc[Loop], item'[Loop] = item[Loop]
  PROVE  \A m \in Msgs : Unsaved(m)' <=> Unsaved(m)
BY DEF Unsaved

LEMMA LifeSend ==
  ASSUME SessionInv, SavedBlob,
         \/ \E u \in Users : SendUpload(u) \/ SendUploadFails(u)
         \/ SendSave \/ SendSaveFails \/ SendUndo \/ SendContacts
         \/ \E m \in Msgs : SendAnswer(m)
  PROVE  Life!Next
<1> USE MailboxAssumption, MsgsFacts
<1>0. TypeOK /\ Stored /\ Sending /\ FreshIds
  BY DEF SessionInv, DurableInv
<1>1. ASSUME NEW u \in Users, SendUpload(u) \/ SendUploadFails(u) PROVE Life!Next
  <2>1. PICK n \in Msgs : n = next
    BY <1>1 DEF SendUpload, SendUploadFails
  <2>2. next' = n + 1 /\ pc[Loop] = "idle" /\ n \notin accepted /\ row[n] = "none"
    BY <1>0, <1>1, <2>1
       DEF SendUpload, SendUploadFails, Goto, Stored, FreshIds, Fresh, TypeOK, Msgs
  <2>3. accepted' = accepted /\ row' = row
    BY <1>1 DEF SendUpload, SendUploadFails, history
  <2>4. \A m \in Msgs : m < next /\ Released(m) => m < next' /\ Released(m)'
    BY <1>0, <1>1, <2>1, <2>2
       DEF SendUpload, SendUploadFails, env, history, Released, TypeOK, Msgs
  <2>5. \A m \in Msgs \ {n} : StageOf(m)' = StageOf(m)
    BY <1>0, <1>1, <2>1, <2>2, <2>3
       DEF SendUpload, SendUploadFails, Goto, Take, procs, StageOf, Unsaved, Intact, TypeOK,
           Msgs, Procs
  <2>6. StageOf(n)' \in {StageOf(n), "gone"}
    BY <1>0, <1>1, <2>1, <2>2, <2>3
       DEF SendUpload, SendUploadFails, Goto, Take, procs, StageOf, Unsaved, TypeOK, Procs,
           Msgs
  <2>7. \A m \in Msgs : StageOf(m)' = StageOf(m) \/ Going(m)
    BY <2>2, <2>5, <2>6 DEF Going
  <2> QED BY <2>3, <2>4, <2>7, LetsGo
<1>2. CASE (SendSave \/ SendSaveFails) /\ row' = [row EXCEPT ![item[Loop]] = "key"]
  <2>0. PICK i \in Msgs : i = item[Loop]
    BY <1>0, <1>2 DEF SendSave, SendSaveFails, Goto, TypeOK, Procs
  <2>1. pc[Loop] = "save" /\ pc'[Loop] # "save" /\ i < next /\ i \in blobs
        /\ row'[i] = "key" /\ \A m \in Msgs \ {i} : row'[m] = row[m]
    BY <1>0, <1>2, <2>0 DEF SendSave, SendSaveFails, Goto, TypeOK, Procs, Sending, SavedBlob
  <2>2. next' = next /\ blobs' = blobs /\ accepted' = accepted /\ ReleasedSent' = ReleasedSent
    BY <1>2 DEF SendSave, SendSaveFails, sent, env, history, ReleasedSent, Released
  <2>3. StageOf(i) = "new" /\ StageOf(i)' = "whole"
    BY <1>0, <2>0, <2>1, <2>2 DEF StageOf, Unsaved, Intact, TypeOK, Msgs
  <2>4. \A m \in Msgs \ {i} : StageOf(m)' = StageOf(m)
    BY <2>0, <2>1, <2>2 DEF StageOf, Unsaved, Intact
  <2>5. Stage' = [Stage EXCEPT ![i] = "whole"]
    <3>1. Stage' = [m \in Msgs |-> IF m = i THEN "whole" ELSE StageOf(m)]
      <4>1. \A m \in Msgs : StageOf(m)' = IF m = i THEN "whole" ELSE StageOf(m)
        BY <2>3, <2>4
      <4> QED BY <4>1, Stages
    <3> QED BY <3>1, Stages
  <2>6. Life!Store(i, {})
    BY <2>1, <2>2, <2>3, <2>5, Stages DEF Life!Store
  <2>7. {} \in SUBSET {i}
    OBVIOUS
  <2> QED BY <2>1, <2>6, <2>7 DEF Life!Next
<1>3. CASE SendSaveFails /\ UNCHANGED row
  <2>0. PICK i \in Msgs : i = item[Loop]
    BY <1>0, <1>3 DEF SendSaveFails, Goto, TypeOK, Procs
  <2>1. pc[Loop] = "save" /\ pc'[Loop] # "save" /\ row[i] = "none" /\ i \notin accepted
    BY <1>0, <1>3, <2>0 DEF SendSaveFails, Goto, TypeOK, Procs, Sending, FreshIds, Fresh
  <2>2. next' = next /\ blobs' = blobs /\ row' = row /\ accepted' = accepted
        /\ \A m \in Msgs : Released(m) => Released(m)'
    BY <1>3 DEF SendSaveFails, sent, env, history, Released
  <2>3. \A m \in Msgs \ {i} : StageOf(m)' = StageOf(m)
    BY <2>0, <2>1, <2>2 DEF StageOf, Unsaved, Intact
  <2>4. StageOf(i)' \in {StageOf(i), "gone"}
    BY <2>0, <2>1, <2>2 DEF StageOf, Unsaved
  <2>5. \A m \in Msgs : StageOf(m)' = StageOf(m) \/ Going(m)
    BY <2>1, <2>3, <2>4 DEF Going
  <2> QED BY <2>2, <2>5, LetsGo
<1>4. CASE SendUndo
  <2>0. PICK i \in Msgs : i = item[Loop]
    BY <1>0, <1>4 DEF SendUndo, TypeOK, Procs
  <2>1. pc[Loop] = "undo" /\ pc'[Loop] = "idle" /\ i \notin accepted
    BY <1>0, <1>4, <2>0 DEF SendUndo, Finish, TypeOK, Procs, Sending
  <2>2. /\ next' = next /\ row' = row /\ accepted' = accepted
        /\ \A m \in Msgs : Released(m) => Released(m)'
        /\ \A m \in Msgs : m \in blobs' => m \in blobs
        /\ \A m \in Msgs \ {i} : m \in blobs => m \in blobs'
    BY <1>4, <2>0 DEF SendUndo, DeleteBlobs, sent, env, history, Released
  <2>3. \A m \in Msgs : Unsaved(m)' <=> Unsaved(m)
    BY <1>0, <2>1, <2>2, LoopElsewhere
  <2>4. \A m \in Msgs : StageOf(m)' = StageOf(m) \/ Going(m)
    BY <2>1, <2>2, <2>3 DEF StageOf, Intact, Going
  <2> QED BY <2>2, <2>4, LetsGo
<1>5. CASE SendContacts
  BY <1>0, <1>5, LifeIdle, LoopElsewhere DEF SendContacts, Finish, TypeOK, Procs, sent
<1>6. ASSUME NEW m \in Msgs, SendAnswer(m) PROVE Life!Next
  <2>1. UNCHANGED <<next, rcpt, expired, live, row, blobs, pc, item, acked, exposed>>
    BY <1>6 DEF SendAnswer, sent, env, store, procs
  <2>2. \A k \in Msgs : Unsaved(k)' <=> Unsaved(k)
    BY <2>1, LoopStays
  <2>3. Stage' = Stage /\ ReleasedSent' = ReleasedSent
    BY <2>1, <2>2, Stages DEF StageOf, Intact, ReleasedSent, Released
  <2>4. CASE accepted' = accepted
    BY <2>1, <2>2, <2>4, LifeIdle DEF sent, env, store, history
  <2>5. CASE accepted' = accepted \cup {m}
    <3>1. m \in publishing
      BY <1>6 DEF SendAnswer
    <3>2. Stage[m] = "whole" \/ m \in ReleasedSent
      BY <1>0, <3>1, Stages DEF Stored, Sending, StageOf, Unsaved, Intact, ReleasedSent,
             TypeOK,
                                Msgs
    <3>3. Life!Promise(m)
      BY <2>3, <2>5, <3>2 DEF Life!Promise
    <3> QED BY <3>3 DEF Life!Next
  <2> QED BY <1>6, <2>4, <2>5 DEF SendAnswer
<1> QED BY <1>1, <1>2, <1>3, <1>4, <1>5, <1>6 DEF SendSave, SendSaveFails

\* What a session or a history knows of is saved.
LEMMA SavedIfKnown ==
  ASSUME SessionInv, NEW m \in Msgs,
         row[m] # "none" \/ m \in acked \/ \E p \in Procs : obj[p][m] # "none"
  PROVE  ~Unsaved(m) /\ m < next
BY MsgsFacts DEF SessionInv, DurableInv, TypeOK, FreshIds, Fresh, Unsaved, Msgs

LEMMA LifeFetch ==
  ASSUME SessionInv, NEW t \in Threads, Fetching(t) \/ \E u \in Users : FetchList(t, u)
  PROVE  Life!Next
<1> USE MailboxAssumption
<1>1. t # Loop /\ Loop \in Procs /\ t \in Procs /\ TypeOK
  BY DEF Procs, SessionInv, DurableInv
<1>2. pc'[Loop] = pc[Loop] /\ item'[Loop] = item[Loop] /\ UNCHANGED <<sent, env>>
  BY <1>1 DEF Fetching, FetchList, FetchNext, FetchGet, FetchMiss, FetchDrop, FetchDropGone,
              FetchEnd, Finish, Goto, Take, VisitRow, TypeOK
<1>3. \A m \in Msgs : Unsaved(m)' <=> Unsaved(m)
  BY <1>2, LoopStays DEF sent
<1>4. CASE FetchDrop(t)
  <2> DEFINE i == item[t]
  <2>1. i \in Msgs /\ row[i] # "none" /\ \A m \in Dirty(t) : row[m] # "none"
    BY <1>1, <1>4 DEF FetchDrop, Goto, TypeOK, CanFlush
  <2>2. row' = [m \in Msgs |-> IF m = i THEN "none"
                               ELSE IF m \in Dirty(t) THEN "inline" ELSE row[m]]
    BY <1>4 DEF FetchDrop, CommitDelete
  <2>3. exposed' = exposed \cup Dirty(t) \cup {i} /\ blobs' = blobs
        /\ UNCHANGED <<accepted, acked>>
    BY <1>4 DEF FetchDrop
  <2>4. \A m \in Msgs : Released(m) => Released(m)'
    BY <1>2, <2>3 DEF Released, sent, env
  <2>5. ASSUME NEW m \in Msgs PROVE StageOf(m)' = StageOf(m) \/ Going(m)
    <3>1. CASE m = i \/ m \in Dirty(t)
      <4>1. ~Unsaved(m) /\ m < next /\ row[m] # "none"
        BY <2>1, <3>1, SavedIfKnown
      <4>2. m < next' /\ Released(m)'
        BY <1>2, <2>3, <3>1, <4>1 DEF Released, sent
      <4> QED BY <1>3, <2>2, <3>1, <4>1, <4>2 DEF StageOf, Intact, Going
    <3>2. CASE m # i /\ m \notin Dirty(t)
      BY <1>3, <2>2, <2>3, <3>2 DEF StageOf, Intact
    <3> QED BY <3>1, <3>2
  <2> QED BY <1>2, <2>3, <2>4, <2>5, LetsGo DEF sent
<1>5. CASE UNCHANGED <<store, history>>
  BY <1>2, <1>3, <1>5, LifeIdle
<1> QED BY <1>4, <1>5 DEF Fetching, FetchList, FetchNext, FetchGet, FetchMiss,
       FetchDropGone,
                          FetchEnd

\* An object is deleted under a message that is released.
LEMMA LifeUnlink ==
  ASSUME SessionInv, NEW p \in Procs, item[p] \in Msgs, Unlink(p), Released(item[p]),
         UNCHANGED <<sent, env, row, history>>,
         \A m \in Msgs : Unsaved(m)' <=> Unsaved(m)
  PROVE  Life!Next
<1>1. \A m \in Msgs : Released(m) => Released(m)'
  BY DEF Released, sent, env, history
<1>2. \A m \in Msgs : m \in blobs' => m \in blobs
  BY DEF Unlink, DeleteBlobs
<1>3. \A m \in Msgs : m \in blobs \ blobs' => m = item[p] /\ obj[p][m] = "key"
  BY DEF Unlink, DeleteBlobs
<1>4. ASSUME NEW m \in Msgs PROVE StageOf(m)' = StageOf(m) \/ Going(m)
  <2>1. CASE m \in blobs \ blobs'
    <3>1. ~Unsaved(m) /\ m < next /\ Released(m)'
      BY <1>1, <1>3, <2>1, SavedIfKnown
    <3> QED BY <1>2, <2>1, <3>1 DEF StageOf, Intact, Going, sent
  <2>2. CASE m \notin blobs \ blobs'
    BY <1>2, <2>2 DEF StageOf, Intact
  <2> QED BY <2>1, <2>2
<1> QED BY <1>1, <1>4, LetsGo DEF sent, history

\* The row of a message that is released is deleted.
LEMMA LifeErase ==
  ASSUME NEW m \in Msgs, ~Unsaved(m), m < next, Released(m),
         row' = [k \in Msgs |-> IF k = m THEN "none" ELSE row[k]],
         UNCHANGED <<sent, env, blobs, history>>,
         \A k \in Msgs : Unsaved(k)' <=> Unsaved(k)
  PROVE  Life!Next
<1>1. \A k \in Msgs : Released(k) => Released(k)'
  BY DEF Released, sent, env, history
<1>2. \A k \in Msgs : StageOf(k)' = StageOf(k) \/ Going(k)
  BY <1>1 DEF StageOf, Intact, Going, sent
<1> QED BY <1>1, <1>2, LetsGo DEF sent, history

LEMMA LifeDelete ==
  ASSUME SessionInv,
         \/ \E t \in Threads : \/ \E m \in Msgs : ConfirmRead(t, m)
                               \/ ConfirmUnlink(t) \/ ConfirmErase(t)
         \/ PurgeList \/ Purging
         \/ \E u \in Users : DeleteAccount(u)
  PROVE  Life!Next
<1> USE MailboxAssumption
<1>0. TypeOK /\ Deleting /\ Loop \in Procs /\ \A t \in Threads : t \in Procs /\ t # Loop
  BY DEF SessionInv, DurableInv, Procs
<1>1. ASSUME NEW t \in Threads, NEW m \in Msgs, ConfirmRead(t, m) PROVE Life!Next
  <2>1. UNCHANGED <<next, rcpt, expired, live, row, blobs, accepted, exposed>>
        /\ acked' = acked \cup {m} /\ pc'[Loop] = pc[Loop] /\ item'[Loop] = item[Loop]
    BY <1>0, <1>1 DEF ConfirmRead, Goto, Take, sent, env, store, TypeOK
  <2>2. \A k \in Msgs : StageOf(k)' = StageOf(k)
    BY <2>1, LoopStays DEF StageOf, Intact
  <2> QED BY <2>1, <2>2, LetsGo DEF Released
<1>2. ASSUME NEW t \in Threads, ConfirmUnlink(t) PROVE Life!Next
  <2>1. pc'[Loop] = pc[Loop] /\ item'[Loop] = item[Loop] /\ UNCHANGED <<sent, env, row, history>>
    BY <1>0, <1>2 DEF ConfirmUnlink, Goto, TypeOK
  <2>2. \A k \in Msgs : Unsaved(k)' <=> Unsaved(k)
    BY <2>1, LoopStays DEF sent
  <2>3. item[t] \in Msgs /\ Released(item[t]) /\ Unlink(t)
    BY <1>0, <1>2 DEF ConfirmUnlink, Goto, Deleting, Released, TypeOK
  <2> QED BY <1>0, <2>1, <2>2, <2>3, LifeUnlink
<1>3. ASSUME NEW t \in Threads, ConfirmErase(t) PROVE Life!Next
  <2>1. pc'[Loop] = pc[Loop] /\ item'[Loop] = item[Loop] /\ UNCHANGED <<sent, env, blobs, history>>
    BY <1>0, <1>3 DEF ConfirmErase, Finish, Take, TypeOK
  <2>2. \A k \in Msgs : Unsaved(k)' <=> Unsaved(k)
    BY <2>1, LoopStays DEF sent
  <2>3. item[t] \in Msgs /\ item[t] \in acked
        /\ row' = [k \in Msgs |-> IF k = item[t] THEN "none" ELSE row[k]]
    BY <1>0, <1>3 DEF ConfirmErase, Deleting, TypeOK
  <2>4. ~Unsaved(item[t]) /\ item[t] < next /\ Released(item[t])
    BY <2>3, SavedIfKnown DEF Released
  <2> QED BY <2>1, <2>2, <2>3, <2>4, LifeErase
<1>4. CASE PurgeList \/ (Purging /\ UNCHANGED store)
  <2>1. pc[Loop] # "save" /\ pc'[Loop] # "save" /\ UNCHANGED <<sent, env, store, history>>
    BY <1>0, <1>4 DEF PurgeList, Purging, PurgeNext, PurgeUnlink, PurgeErase, PurgeEnd,
           Finish,
                      Goto, TypeOK
  <2> QED BY <1>0, <2>1, LoopElsewhere, LifeIdle DEF sent
<1>5. CASE PurgeUnlink
  <2>1. pc[Loop] # "save" /\ pc'[Loop] # "save" /\ UNCHANGED <<sent, env, row, history>>
    BY <1>0, <1>5 DEF PurgeUnlink, Goto, TypeOK
  <2>2. item[Loop] \in Msgs /\ Released(item[Loop]) /\ Unlink(Loop)
    BY <1>0, <1>5 DEF PurgeUnlink, Goto, Deleting, Released, TypeOK
  <2> QED BY <1>0, <2>1, <2>2, LoopElsewhere, LifeUnlink DEF sent
<1>6. CASE PurgeErase /\ row[item[Loop]] # "none"
  <2>1. pc[Loop] # "save" /\ pc'[Loop] # "save" /\ UNCHANGED <<sent, env, blobs, history>>
    BY <1>0, <1>6 DEF PurgeErase, Goto, TypeOK
  <2>2. item[Loop] \in Msgs /\ item[Loop] \in expired /\ Dirty(Loop) = {}
    BY <1>0, <1>6 DEF PurgeErase, Goto, Deleting, TypeOK
  <2>3. row' = [k \in Msgs |-> IF k = item[Loop] THEN "none" ELSE row[k]]
    BY <1>6, <2>2 DEF PurgeErase, CommitDelete
  <2>4. ~Unsaved(item[Loop]) /\ item[Loop] < next /\ Released(item[Loop])
    BY <1>6, <2>2, SavedIfKnown DEF Released
  <2> QED BY <1>0, <2>1, <2>2, <2>3, <2>4, LoopElsewhere, LifeErase DEF sent
<1>7. ASSUME NEW u \in Users, DeleteAccount(u) PROVE Life!Next
  <2>1. /\ UNCHANGED <<next, rcpt, expired, blobs, pc, item, accepted, acked, exposed>>
        /\ live' = live \ {u}
        /\ row' = [m \in Msgs |-> IF rcpt[m] = u THEN "none" ELSE row[m]]
    BY <1>7 DEF DeleteAccount, sent, procs, history
  <2>2. \A m \in Msgs : Unsaved(m)' <=> Unsaved(m)
    BY <2>1, LoopStays
  <2>3. \A m \in Msgs : Released(m) \/ rcpt[m] = u => Released(m)'
    BY <2>1 DEF Released
  <2>4. \A m \in Msgs : m >= next \/ m < next
    BY <1>0 DEF Msgs, TypeOK
  <2>5. \A m \in Msgs : StageOf(m)' = StageOf(m) \/ Going(m)
    BY <2>1, <2>2, <2>3, <2>4 DEF StageOf, Unsaved, Intact, Going
  <2> QED BY <2>1, <2>3, <2>5, LetsGo
<1> QED BY <1>1, <1>2, <1>3, <1>4, <1>5, <1>6, <1>7
   DEF Purging, PurgeNext, PurgeErase, PurgeEnd, store

LEMMA LifeRest ==
  ASSUME SessionInv,
         \/ \E m \in Msgs : Expire(m)
         \/ \E p \in Procs : Abort(p)
         \/ Crash
  PROVE  Life!Next
<1> USE MailboxAssumption
<1>0. TypeOK /\ Sending /\ FreshIds /\ Loop \in Procs
  BY DEF SessionInv, DurableInv, Procs
<1>1. ASSUME NEW m \in Msgs, Expire(m) PROVE Life!Next
  <2>1. UNCHANGED <<next, rcpt, live, row, blobs, pc, item, accepted, acked, exposed>>
        /\ expired' = expired \cup {m}
    BY <1>1 DEF Expire, sent, store, procs, history
  <2>2. \A k \in Msgs : StageOf(k)' = StageOf(k)
    BY <2>1, LoopStays DEF StageOf, Intact
  <2> QED BY <2>1, <2>2, LetsGo DEF Released
<1>2. ASSUME NEW p \in Procs, Abort(p) PROVE Life!Next
  <2>1. UNCHANGED <<sent, env, store, history>>
    BY <1>2 DEF Abort
  <2>2. \A m \in Msgs : Unsaved(m)' <=> Unsaved(m)
    <3>1. CASE p = Loop
      BY <1>0, <1>2, <2>1, <3>1, LoopElsewhere DEF Abort, Finish, TypeOK, sent
    <3>2. CASE p # Loop
      BY <1>0, <1>2, <2>1, <3>2, LoopStays DEF Abort, Finish, Take, TypeOK, sent
    <3> QED BY <3>1, <3>2
  <2> QED BY <2>1, <2>2, LifeIdle
<1>3. CASE Crash
  <2>1. UNCHANGED <<next, rcpt, expired, live, row, blobs, accepted, acked, exposed>>
        /\ pc'[Loop] = "idle"
    BY <1>0, <1>3 DEF Crash, sent, env, store, history
  <2>2. ASSUME NEW m \in Msgs PROVE StageOf(m)' = StageOf(m) \/ Going(m)
    <3>1. CASE pc[Loop] = "save" /\ item[Loop] = m
      <4>1. row[m] = "none" /\ m \notin accepted /\ m < next
        BY <1>0, <3>1 DEF Sending, FreshIds, Fresh
      <4> QED BY <1>0, <2>1, <3>1, <4>1 DEF StageOf, Unsaved, Going, TypeOK, Msgs
    <3>2. CASE ~(pc[Loop] = "save" /\ item[Loop] = m)
      BY <2>1, <3>2 DEF StageOf, Unsaved, Intact
    <3> QED BY <3>1, <3>2
  <2>3. \A m \in Msgs : Released(m) => Released(m)'
    BY <2>1 DEF Released
  <2> QED BY <2>1, <2>2, <2>3, LetsGo
<1> QED BY <1>1, <1>2, <1>3

\* Each step of Mailbox stores one message, promises one, or lets go of
\* messages that are released or were never promised.
THEOREM LifeRefines == Spec => LifeKept
<1>1. Init => Life!Init
  BY MsgsFacts, MailboxAssumption DEF Init, Life!Init, Stage, ReleasedSent, Msgs
<1>2. Init => SavedBlob
  BY DEF Init, SavedBlob, Procs
<1>3. SessionInv /\ SavedBlob /\ [Next]_vars => SavedBlob'
  BY BlobKept DEF SavedBlob, vars
<1>4. SessionInv /\ SavedBlob /\ [Next]_vars => [Life!Next]_<<Stage, accepted, ReleasedSent>>
  <2>1. ASSUME SessionInv, SavedBlob, Next PROVE Life!Next
    BY <2>1, LifeSend, LifeFetch, LifeDelete, LifeRest DEF Next
  <2>2. UNCHANGED vars => UNCHANGED <<Stage, accepted, ReleasedSent>>
    BY DEF vars, Stage, Intact, ReleasedSent, Released
  <2> QED BY <2>1, <2>2
<1> QED BY <1>1, <1>2, <1>3, <1>4, SessionInvariant, PTL DEF Spec, LifeKept, Life!Spec

\* What StoredLife promises of itself: a message that was promised is whole
\* until it is released.
THEOREM PromiseKept == Spec => []Life!Kept
<1>1. Life!Init => Life!Kept
  BY DEF Life!Init, Life!Kept
<1>2. TypeOK /\ Life!Kept /\ [Life!Next]_<<Stage, accepted, ReleasedSent>> => Life!Kept'
  <2> SUFFICES ASSUME TypeOK, Life!Kept, [Life!Next]_<<Stage, accepted, ReleasedSent>>
               PROVE  Life!Kept'
    OBVIOUS
  <2>0. Stage \in [Msgs -> {"new", "whole", "spoilt", "gone"}]
    BY DEF Stage
  <2>1. ASSUME NEW m \in Msgs, NEW told \in SUBSET {m}, Life!Store(m, told) PROVE Life!Kept'
    BY <2>0, <2>1 DEF Life!Kept, Life!Store
  <2>2. ASSUME NEW m \in Msgs, Life!Promise(m) PROVE Life!Kept'
    BY <2>2 DEF Life!Kept, Life!Promise
  <2>3. ASSUME NEW more \in SUBSET Msgs, NEW spoilt \in SUBSET Msgs, NEW gone \in SUBSET Msgs,
               Life!LetGo(more, spoilt, gone)
        PROVE  Life!Kept'
    <3> SUFFICES ASSUME NEW m \in accepted', m \notin ReleasedSent'
                 PROVE  Stage'[m] = "whole"
      BY DEF Life!Kept
    <3>1. m \in accepted /\ m \notin ReleasedSent /\ m \notin spoilt \cup gone
      BY <2>3 DEF Life!LetGo
    <3>2. Stage[m] = "whole"
      BY <3>1 DEF Life!Kept
    <3>3. m \in Msgs
      BY <3>1 DEF TypeOK
    <3> QED BY <2>3, <3>1, <3>2, <3>3 DEF Life!LetGo
  <2>4. CASE UNCHANGED <<Stage, accepted, ReleasedSent>>
    BY <2>4 DEF Life!Kept
  <2> QED BY <2>1, <2>2, <2>3, <2>4 DEF Life!Next
<1> QED BY <1>1, <1>2, LifeRefines, TypeCorrect, PTL DEF LifeKept, Life!Spec

---------------------------------------------------------------------------
(* Rows and objects while nothing fails.                                    *)

\* A deletion in progress has removed the object before it removes the row,
\* except for a row that was inlined.
Unlinking ==
  Faults \/
    /\ pc[Loop] # "undo"
    /\ pc[Loop] = "save" => item[Loop] \in blobs
    /\ \A m \in Msgs : row[m] = "inline" => m \in exposed
    /\ \A p \in Procs :
         /\ \A m \in Msgs : obj[p][m] = "inline" => m \in exposed
         /\ pc[p] \in {"unlink", "purgeUnlink"} => obj[p][item[p]] \in {"key", "inline"}
         /\ pc[p] \in {"erase", "purgeErase"} =>
              obj[p][item[p]] # "none" /\ item[p] \notin blobs \ exposed

StoreInv == SessionInv /\ Unlinking /\ RowsBacked /\ BlobsOwned

LEMMA StoreSend ==
  ASSUME StoreInv, SessionInv', TypeOK',
         \/ \E u \in Users : SendUpload(u) \/ SendUploadFails(u)
         \/ SendSave \/ SendSaveFails \/ SendUndo \/ SendContacts
         \/ \E m \in Msgs : SendAnswer(m)
  PROVE  StoreInv'
<1> USE MailboxAssumption, MsgsFacts
    DEF StoreInv, Unlinking, RowsBacked, BlobsOwned, SessionInv, DurableInv, FreshIds,
         Fresh, KnownRows, Sending, Deleting, Stored,
        TypeOK, Intact, Released, Procs, Dirty,
        Goto, Take, store, env, sent, procs, history
<1>1. ASSUME NEW u \in Users, SendUpload(u) PROVE StoreInv'
  <2>1. Unlinking'
    BY <1>1 DEF SendUpload
  <2>2. RowsBacked'
    BY <1>1 DEF SendUpload
  <2>3. BlobsOwned'
    BY <1>1 DEF SendUpload
  <2> QED BY <2>1, <2>2, <2>3 DEF StoreInv
<1>2. ASSUME NEW u \in Users, SendUploadFails(u) PROVE StoreInv'
  BY <1>2 DEF SendUploadFails
<1>3. CASE SendSave
  BY <1>3, SMTT(30) DEF SendSave
<1>4. CASE SendSaveFails
  BY <1>4 DEF SendSaveFails
<1>5. CASE SendUndo
  <2>1. Unlinking'
    BY <1>5 DEF SendUndo, DeleteBlobs, Finish, NoObjects
  <2>2. RowsBacked'
    BY <1>5 DEF SendUndo, DeleteBlobs, Finish, NoObjects
  <2>3. BlobsOwned'
    BY <1>5 DEF SendUndo, DeleteBlobs, Finish, NoObjects
  <2> QED BY <2>1, <2>2, <2>3 DEF StoreInv
<1>6. CASE SendContacts
  <2>1. Unlinking'
    BY <1>6, SMTT(30) DEF SendContacts, Finish, NoObjects
  <2>2. RowsBacked'
    BY <1>6, SMTT(30) DEF SendContacts, Finish, NoObjects
  <2>3. BlobsOwned'
    BY <1>6 DEF SendContacts, Finish, NoObjects
  <2> QED BY <2>1, <2>2, <2>3 DEF StoreInv
<1>7. ASSUME NEW m \in Msgs, SendAnswer(m) PROVE StoreInv'
  BY <1>7 DEF SendAnswer
<1> HIDE DEF StoreInv
<1> QED BY <1>1, <1>2, <1>3, <1>4, <1>5, <1>6, <1>7

LEMMA StoreFetch ==
  ASSUME StoreInv, SessionInv', TypeOK',
         NEW t \in Threads, Fetching(t) \/ \E u \in Users : FetchList(t, u)
  PROVE  StoreInv'
<1> USE MailboxAssumption, MsgsFacts
    DEF StoreInv, Unlinking, RowsBacked, BlobsOwned, SessionInv, DurableInv, FreshIds,
         Fresh, KnownRows, Sending, Deleting, Stored,
        TypeOK, Intact, Released, Procs, Dirty,
        Goto, Take, store, env, sent, procs, history
<1>1. ASSUME NEW u \in Users, FetchList(t, u) PROVE StoreInv'
  <2>1. Unlinking'
    BY <1>1 DEF FetchList, ListRows, Inbox
  <2>2. RowsBacked'
    BY <1>1 DEF FetchList, ListRows, Inbox
  <2>3. BlobsOwned'
    BY <1>1 DEF FetchList, ListRows, Inbox
  <2> QED BY <2>1, <2>2, <2>3 DEF StoreInv
<1>2. ASSUME NEW m \in Msgs, FetchNext(t, m) PROVE StoreInv'
  <2>1. Unlinking'
    BY <1>2 DEF FetchNext, VisitRow, Vanished
  <2>2. RowsBacked'
    BY <1>2 DEF FetchNext, VisitRow, Vanished
  <2>3. BlobsOwned'
    BY <1>2 DEF FetchNext, VisitRow, Vanished
  <2> QED BY <2>1, <2>2, <2>3 DEF StoreInv
<1>3. CASE FetchGet(t)
  <2>1. Unlinking'
    BY <1>3 DEF FetchGet
  <2>2. RowsBacked'
    BY <1>3 DEF FetchGet
  <2>3. BlobsOwned'
    BY <1>3 DEF FetchGet
  <2> QED BY <2>1, <2>2, <2>3 DEF StoreInv
<1>4. CASE FetchMiss(t)
  <2>1. Unlinking'
    BY <1>4 DEF FetchMiss
  <2>2. RowsBacked'
    BY <1>4 DEF FetchMiss
  <2>3. BlobsOwned'
    BY <1>4 DEF FetchMiss
  <2> QED BY <2>1, <2>2, <2>3 DEF StoreInv
<1>5. CASE FetchDrop(t)
  <2>1. Unlinking'
    BY <1>5 DEF FetchDrop, CommitDelete, CanFlush
  <2>2. RowsBacked'
    BY <1>5 DEF FetchDrop, CommitDelete, CanFlush
  <2>3. BlobsOwned'
    BY <1>5 DEF FetchDrop, CommitDelete, CanFlush
  <2> QED BY <2>1, <2>2, <2>3 DEF StoreInv
<1>6. CASE FetchDropGone(t)
  <2>1. Unlinking'
    BY <1>6 DEF FetchDropGone
  <2>2. RowsBacked'
    BY <1>6 DEF FetchDropGone
  <2>3. BlobsOwned'
    BY <1>6 DEF FetchDropGone
  <2> QED BY <2>1, <2>2, <2>3 DEF StoreInv
<1>7. CASE FetchEnd(t)
  <2>1. Unlinking'
    BY <1>7 DEF FetchEnd, Finish, NoObjects
  <2>2. RowsBacked'
    BY <1>7 DEF FetchEnd, Finish, NoObjects
  <2>3. BlobsOwned'
    BY <1>7 DEF FetchEnd, Finish, NoObjects
  <2> QED BY <2>1, <2>2, <2>3 DEF StoreInv
<1> HIDE DEF StoreInv
<1> QED BY <1>1, <1>2, <1>3, <1>4, <1>5, <1>6, <1>7 DEF Fetching

LEMMA StoreDelete ==
  ASSUME StoreInv, SessionInv', TypeOK',
         \/ \E t \in Threads : \/ \E m \in Msgs : ConfirmRead(t, m)
                               \/ ConfirmUnlink(t) \/ ConfirmErase(t)
         \/ PurgeList \/ Purging
         \/ \E u \in Users : DeleteAccount(u)
  PROVE  StoreInv'
<1> USE MailboxAssumption, MsgsFacts
    DEF StoreInv, Unlinking, RowsBacked, BlobsOwned, SessionInv, DurableInv, FreshIds,
         Fresh, KnownRows, Sending, Deleting, Stored,
        TypeOK, Intact, Released, Procs, Dirty,
        Goto, Take, store, env, sent, procs, history
<1>1. ASSUME NEW t \in Threads, NEW m \in Msgs, ConfirmRead(t, m) PROVE StoreInv'
  <2>1. Unlinking'
    BY <1>1 DEF ConfirmRead
  <2>2. RowsBacked'
    BY <1>1 DEF ConfirmRead
  <2>3. BlobsOwned'
    BY <1>1 DEF ConfirmRead
  <2> QED BY <2>1, <2>2, <2>3 DEF StoreInv
<1>2. ASSUME NEW t \in Threads, ConfirmUnlink(t) PROVE StoreInv'
  <2>1. Unlinking'
    BY <1>2 DEF ConfirmUnlink, Unlink, DeleteBlobs
  <2>2. RowsBacked'
    BY <1>2 DEF ConfirmUnlink, Unlink, DeleteBlobs
  <2>3. BlobsOwned'
    BY <1>2 DEF ConfirmUnlink, Unlink, DeleteBlobs
  <2> QED BY <2>1, <2>2, <2>3 DEF StoreInv
<1>3. ASSUME NEW t \in Threads, ConfirmErase(t) PROVE StoreInv'
  <2>1. Unlinking'
    BY <1>3 DEF ConfirmErase, Finish, NoObjects
  <2>2. RowsBacked'
    BY <1>3 DEF ConfirmErase, Finish, NoObjects
  <2>3. BlobsOwned'
    BY <1>3 DEF ConfirmErase, Finish, NoObjects
  <2> QED BY <2>1, <2>2, <2>3 DEF StoreInv
<1>4. CASE PurgeList
  <2>1. Unlinking'
    BY <1>4 DEF PurgeList, ListRows, Overdue
  <2>2. RowsBacked'
    BY <1>4 DEF PurgeList, ListRows, Overdue
  <2>3. BlobsOwned'
    BY <1>4 DEF PurgeList, ListRows, Overdue
  <2> QED BY <2>1, <2>2, <2>3 DEF StoreInv
<1>5. ASSUME NEW m \in Msgs, PurgeNext(m) PROVE StoreInv'
  <2>1. Unlinking'
    BY <1>5 DEF PurgeNext, VisitRow, Vanished
  <2>2. RowsBacked'
    BY <1>5 DEF PurgeNext, VisitRow, Vanished
  <2>3. BlobsOwned'
    BY <1>5 DEF PurgeNext, VisitRow, Vanished
  <2> QED BY <2>1, <2>2, <2>3 DEF StoreInv
<1>6. CASE PurgeUnlink
  <2>1. Unlinking'
    BY <1>6 DEF PurgeUnlink, Unlink, DeleteBlobs
  <2>2. RowsBacked'
    BY <1>6 DEF PurgeUnlink, Unlink, DeleteBlobs
  <2>3. BlobsOwned'
    BY <1>6 DEF PurgeUnlink, Unlink, DeleteBlobs
  <2> QED BY <2>1, <2>2, <2>3 DEF StoreInv
<1>7. CASE PurgeErase
  <2>1. Unlinking'
    BY <1>7, SMTT(30) DEF PurgeErase, CommitDelete
  <2>2. RowsBacked'
    BY <1>7 DEF PurgeErase, CommitDelete
  <2>3. BlobsOwned'
    BY <1>7 DEF PurgeErase, CommitDelete
  <2> QED BY <2>1, <2>2, <2>3 DEF StoreInv
<1>8. CASE PurgeEnd
  BY <1>8, SMTT(30) DEF PurgeEnd, Finish, NoObjects
<1>9. ASSUME NEW u \in Users, DeleteAccount(u) PROVE StoreInv'
  BY <1>9, SMTT(30) DEF DeleteAccount
<1> HIDE DEF StoreInv
<1> QED BY <1>1, <1>2, <1>3, <1>4, <1>5, <1>6, <1>7, <1>8, <1>9 DEF Purging

LEMMA StoreRest ==
  ASSUME StoreInv, SessionInv', TypeOK',
         \/ \E m \in Msgs : Expire(m)
         \/ \E p \in Procs : Abort(p)
         \/ Crash
  PROVE  StoreInv'
<1> USE MailboxAssumption, MsgsFacts
    DEF StoreInv, Unlinking, RowsBacked, BlobsOwned, SessionInv, DurableInv, FreshIds,
         Fresh, KnownRows, Sending, Deleting, Stored,
        TypeOK, Intact, Released, Procs, Dirty,
        Goto, Take, store, env, sent, procs, history
<1>1. ASSUME NEW m \in Msgs, Expire(m) PROVE StoreInv'
  BY <1>1 DEF Expire
<1>2. ASSUME NEW p \in Procs, Abort(p) PROVE StoreInv'
  BY <1>2 DEF Abort, Finish, NoObjects
<1>3. CASE Crash
  BY <1>3 DEF Crash, NoObjects
<1> HIDE DEF StoreInv
<1> QED BY <1>1, <1>2, <1>3

\* The invariant of rows and objects holds in every reachable state.
THEOREM StoreInvariant == Spec => []StoreInv
<1>1. Init => Unlinking /\ RowsBacked /\ BlobsOwned
  BY DEF Init, Unlinking, RowsBacked, BlobsOwned, NoObjects, Procs
<1>2. StoreInv /\ TypeOK' /\ SessionInv' /\ [Next]_vars => StoreInv'
  <2> SUFFICES ASSUME StoreInv, TypeOK', SessionInv', [Next]_vars PROVE StoreInv'
    OBVIOUS
  <2>1. CASE Next
    BY <2>1, StoreSend, StoreFetch, StoreDelete, StoreRest DEF Next
  <2>2. CASE UNCHANGED vars
    BY <2>2 DEF vars, StoreInv, Unlinking, RowsBacked, BlobsOwned
  <2> QED BY <2>1, <2>2
<1> QED BY <1>1, <1>2, TypeCorrect, SessionInvariant, PTL DEF Spec, StoreInv

\* While nothing fails a row is left without its object only while a request
\* deletes it.
THEOREM RowsHaveObjects == Spec => []RowsBacked
BY StoreInvariant, PTL DEF StoreInv

\* While nothing fails an object is left without its row only by the two known
\* leaks.
THEOREM ObjectsHaveRows == Spec => []BlobsOwned
BY StoreInvariant, PTL DEF StoreInv

---------------------------------------------------------------------------
(* What an inbox request exposes.  It drops a row only when the object is    *)
(* missing or the row was inlined before; RowsBacked says who else works on  *)
(* the row then.                                                             *)

\* Who was sent to is a user.
Addressed == \A m \in Msgs : m < next => rcpt[m] \in Users

\* The messages in the session of an inbox request are of one inbox.
OneInbox ==
  \A t \in Threads : pc[t] \in {"fetch", "get", "drop"} =>
    \A m, k \in Msgs : obj[t][m] # "none" /\ obj[t][k] # "none" => rcpt[m] = rcpt[k]

\* A row that is about to be dropped is of an inbox where requests overlapped.
Dropping ==
  \A t \in Threads :
    pc[t] = "drop" => row[item[t]] = "none" \/ rcpt[item[t]] \in overlapped

LossInv ==
  StoreInv /\ Addressed /\ OneInbox /\
  (Faults \/ (Overlapping \subseteq overlapped /\ Dropping /\ LossNeedsOverlap))

\* The id of a row, or of one in a session, was given out.
LEMMA GivenOut ==
  ASSUME SessionInv, NEW m \in Msgs,
         row[m] # "none" \/ m \in acked \cup exposed \/ \E p \in Procs : obj[p][m] # "none"
  PROVE  m < next
BY MsgsFacts DEF SessionInv, DurableInv, TypeOK, FreshIds, Fresh

\* Recipients of messages that were given an id stay, and are users.
LEMMA Recipients ==
  ASSUME TypeOK, TypeOK', Addressed, Next
  PROVE  /\ next <= next' /\ next \in Nat /\ next' \in Nat
         /\ \A m \in Msgs : m < next => rcpt'[m] = rcpt[m]
         /\ Addressed'
<1> USE MsgsFacts DEF TypeOK, sent, Addressed
<1>1. ASSUME NEW u \in Users, SendUpload(u) \/ SendUploadFails(u)
      PROVE  next' = next + 1 /\ rcpt' = [rcpt EXCEPT ![next] = u] /\ next \in Msgs
  BY <1>1 DEF SendUpload, SendUploadFails
<1>2. (\E u \in Users : SendUpload(u) \/ SendUploadFails(u)) \/ UNCHANGED <<next, rcpt>>
  BY DEF Next, SendUndo, SendContacts, SendAnswer, PurgeList, Purging, PurgeNext,
         PurgeUnlink,
         PurgeErase, PurgeEnd, FetchList, Fetching, FetchNext, FetchGet, FetchMiss, FetchDrop,
         FetchDropGone, FetchEnd, ConfirmRead, ConfirmUnlink, ConfirmErase, DeleteAccount,
         Expire, Abort, Crash, SendSave, SendSaveFails
<1>3. CASE UNCHANGED <<next, rcpt>>
  BY <1>3
<1>4. ASSUME NEW u \in Users, next' = next + 1, rcpt' = [rcpt EXCEPT ![next] = u], next \in Msgs
      PROVE  /\ next <= next' /\ next \in Nat /\ next' \in Nat
             /\ \A m \in Msgs : m < next => rcpt'[m] = rcpt[m]
             /\ Addressed'
  <2>1. \A m \in Msgs : m < next + 1 => m < next \/ m = next
    BY MailboxAssumption, <1>4
  <2> QED BY <1>4, <2>1
<1> QED BY <1>1, <1>2, <1>3, <1>4

LEMMA InboxStep ==
  ASSUME SessionInv, SessionInv', Addressed, OneInbox, Next
  PROVE  OneInbox'
<1> USE MailboxAssumption, MsgsFacts DEF Procs, Goto, Take, store, env, sent, procs, history
<1> DEFINE In == {"fetch", "get", "drop"}
           Kept == \A t \in Threads : pc'[t] \in In =>
                      pc[t] \in In /\ \A m \in Msgs : obj'[t][m] # "none" => obj[t][m] # "none"
<1>1. TypeOK /\ TypeOK'
  BY DEF SessionInv, DurableInv
<1>2. ASSUME NEW m \in Msgs, NEW p \in Procs, obj[p][m] # "none"
      PROVE  rcpt'[m] = rcpt[m]
  BY <1>1, <1>2, GivenOut, Recipients
<1>3. ASSUME Kept PROVE OneInbox'
  BY <1>2, <1>3 DEF OneInbox
<1>4. ASSUME NEW t \in Threads, NEW u \in Users, FetchList(t, u) PROVE OneInbox'
  <2>1. /\ rcpt' = rcpt /\ \A s \in Threads \ {t} : pc'[s] = pc[s] /\ obj'[s] = obj[s]
        /\ \A m \in Msgs : obj'[t][m] # "none" => m \in Inbox(u)
    BY <1>1, <1>4 DEF FetchList, ListRows, TypeOK
  <2> QED BY <2>1 DEF OneInbox, Inbox
<1>5. ASSUME NEW t \in Threads, Fetching(t) PROVE Kept
  <2>1. \A s \in Threads \ {t} : pc'[s] = pc[s] /\ obj'[s] = obj[s]
    BY <1>1, <1>5
       DEF Fetching, FetchNext, FetchGet, FetchMiss, FetchDrop, FetchDropGone, FetchEnd,
            VisitRow, CommitDelete, Finish, TypeOK
  <2>2. ASSUME NEW m \in Msgs, FetchNext(t, m) PROVE Kept
    BY <1>1, <2>1, <2>2 DEF FetchNext, VisitRow, TypeOK, SessionInv, KnownRows
  <2>3. CASE FetchGet(t) \/ FetchMiss(t) \/ FetchDropGone(t)
    BY <1>1, <2>1, <2>3 DEF FetchGet, FetchMiss, FetchDropGone, TypeOK, SessionInv,
           KnownRows
  <2>4. CASE FetchDrop(t)
    BY <1>1, <2>1, <2>4 DEF FetchDrop, CommitDelete, TypeOK, SessionInv, KnownRows
  <2>5. CASE FetchEnd(t)
    BY <1>1, <2>1, <2>5 DEF FetchEnd, Finish, TypeOK
  <2> QED BY <1>5, <2>2, <2>3, <2>4, <2>5 DEF Fetching
<1>6. ASSUME NEW t \in Threads, NEW m \in Msgs, ConfirmRead(t, m) PROVE Kept
  BY <1>1, <1>6 DEF ConfirmRead, TypeOK
<1>7. ASSUME NEW t \in Threads, ConfirmUnlink(t) \/ ConfirmErase(t) PROVE Kept
  BY <1>1, <1>7 DEF ConfirmUnlink, ConfirmErase, Finish, TypeOK
<1>8. ASSUME NEW p \in Procs, Abort(p) PROVE Kept
  BY <1>1, <1>8 DEF Abort, Finish, TypeOK
<1>9. CASE Crash
  <2>1. \A t \in Threads : pc'[t] = "idle"
    BY <1>9 DEF Crash
  <2> QED BY <2>1, <1>3
<1>10. CASE \/ \E u \in Users : SendUpload(u) \/ SendUploadFails(u) \/ DeleteAccount(u)
            \/ SendSave \/ SendSaveFails \/ SendUndo \/ SendContacts \/ PurgeList \/ Purging
            \/ \E m \in Msgs : SendAnswer(m) \/ Expire(m)
  <2>1. \A t \in Threads : pc'[t] = pc[t] /\ obj'[t] = obj[t]
    BY <1>1, <1>10
       DEF SendUpload, SendUploadFails, DeleteAccount, SendSave, SendSaveFails, SendUndo,
            SendContacts, PurgeList, Purging, PurgeNext, PurgeUnlink, PurgeErase, PurgeEnd,
            SendAnswer, Expire, Finish, ListRows, VisitRow, CommitDelete, TypeOK
  <2> QED BY <2>1, <1>3
<1> HIDE DEF Kept
<1> QED BY <1>3, <1>4, <1>5, <1>6, <1>7, <1>8, <1>9, <1>10 DEF Next

\* While nothing fails, the object of a row that a session holds is missing only
\* when another process deletes it, or the row was inlined.
LEMMA MissingObject ==
  ASSUME StoreInv, ~Faults, NEW t \in Threads, pc[t] = "get", item[t] \notin blobs,
         row[item[t]] = "key", Addressed
  PROVE  rcpt[item[t]] \in Overlapping
<1> DEFINE m == item[t]
<1>1. m \in Msgs /\ t \in Procs
  BY DEF StoreInv, SessionInv, DurableInv, TypeOK, Procs
<1>2. PICK p \in Procs : item[p] = m /\ pc[p] \in {"erase", "purgeErase"}
  BY <1>1 DEF StoreInv, RowsBacked
<1>3. p # t /\ rcpt[m] \in Serves(p) /\ rcpt[m] \in Serves(t)
  BY <1>1, <1>2 DEF Serves
<1>4. rcpt[m] \in Users
  BY <1>1, GivenOut DEF Addressed, StoreInv
<1> QED BY <1>1, <1>2, <1>3, <1>4 DEF Overlapping

LEMMA DroppingStep ==
  ASSUME LossInv, ~Faults, StoreInv', Next, overlapped' = overlapped \cup Overlapping'
  PROVE  Dropping'
<1> USE MailboxAssumption, MsgsFacts DEF Procs, Goto, Take, store, env, sent, procs, history
<1>1. TypeOK /\ TypeOK' /\ SessionInv /\ overlapped \subseteq overlapped'
  BY DEF LossInv, StoreInv, SessionInv, DurableInv
<1> SUFFICES ASSUME NEW s \in Threads, pc'[s] = "drop"
             PROVE  row'[item'[s]] = "none" \/ rcpt'[item'[s]] \in overlapped'
  BY DEF Dropping
<1>2. ASSUME FetchMiss(s) PROVE rcpt'[item'[s]] \in overlapped' \/ row'[item'[s]] = "none"
  <2>1. /\ pc[s] = "get" /\ UNCHANGED <<item, obj, row, blobs, rcpt>> /\ item[s] \in Msgs
        /\ obj[s][item[s]] = "inline" \/ item[s] \notin blobs
    BY <1>1, <1>2 DEF FetchMiss, TypeOK, LossInv
  <2>2. CASE obj[s][item[s]] = "inline" \/ row[item[s]] = "inline"
    BY <1>1, <2>1, <2>2 DEF LossInv, StoreInv, Unlinking, LossNeedsOverlap
  <2>3. CASE item[s] \notin blobs /\ row[item[s]] = "key"
    BY <1>1, <2>1, <2>3, MissingObject DEF LossInv
  <2> QED BY <1>1, <2>1, <2>2, <2>3 DEF TypeOK
<1>3. ASSUME pc[s] = "drop", item'[s] = item[s]
      PROVE  row'[item'[s]] = "none" \/ rcpt'[item'[s]] \in overlapped'
  <2>1. item[s] \in Msgs /\ obj[s][item[s]] # "none"
    BY <1>1, <1>3 DEF TypeOK, SessionInv, KnownRows
  <2>2. item[s] < next
    BY <1>1, <2>1, GivenOut
  <2>3. rcpt'[item[s]] = rcpt[item[s]]
    BY <1>1, <2>1, <2>2, Recipients DEF LossInv
  <2>4. CASE rcpt[item[s]] \in overlapped
    BY <1>1, <1>3, <2>3, <2>4
  <2>5. CASE row[item[s]] = "none"
    <3>1. row'[item[s]] # "none" => pc[Loop] = "save" /\ item[Loop] = item[s]
      BY <1>1, <2>1, <2>5, RowAdded
    <3> QED BY <1>1, <1>3, <2>1, <3>1 DEF SessionInv, FreshIds, Fresh
  <2> QED BY <1>3, <2>4, <2>5 DEF LossInv, Dropping
<1>4. FetchMiss(s) \/ (pc[s] = "drop" /\ item'[s] = item[s])
  <2>1. ASSUME NEW t \in Threads, Fetching(t), ~FetchMiss(t)
        PROVE  pc[s] = "drop" /\ item'[s] = item[s]
    BY <1>1, <2>1
       DEF Fetching, FetchNext, FetchGet, FetchDrop, FetchDropGone, FetchEnd,
            VisitRow, Finish, TypeOK
  <2>2. ASSUME NEW t \in Threads, FetchMiss(t), t # s
        PROVE  pc[s] = "drop" /\ item'[s] = item[s]
    BY <1>1, <2>2 DEF FetchMiss, TypeOK
  <2>3. ASSUME NEW t \in Threads,
               \/ \E u \in Users : FetchList(t, u)
               \/ \E m \in Msgs : ConfirmRead(t, m)
               \/ ConfirmUnlink(t) \/ ConfirmErase(t)
        PROVE  pc[s] = "drop" /\ item'[s] = item[s]
    BY <1>1, <2>3
       DEF FetchList, ListRows, ConfirmRead, ConfirmUnlink, ConfirmErase, Finish, TypeOK
  <2>4. ASSUME NEW p \in Procs, Abort(p) PROVE pc[s] = "drop" /\ item'[s] = item[s]
    BY <1>1, <2>4 DEF Abort, Finish, TypeOK
  <2>5. CASE Crash
    BY <2>5 DEF Crash
  <2>6. CASE \/ \E u \in Users : SendUpload(u) \/ SendUploadFails(u) \/ DeleteAccount(u)
             \/ SendSave \/ SendSaveFails \/ SendUndo \/ SendContacts \/ PurgeList \/ Purging
             \/ \E m \in Msgs : SendAnswer(m) \/ Expire(m)
    BY <1>1, <2>6
       DEF SendUpload, SendUploadFails, DeleteAccount, SendSave, SendSaveFails, SendUndo,
            SendContacts, PurgeList, Purging, PurgeNext, PurgeUnlink, PurgeErase, PurgeEnd,
            SendAnswer, Expire, Finish, ListRows, VisitRow, CommitDelete, TypeOK
  <2> QED BY <2>1, <2>2, <2>3, <2>4, <2>5, <2>6 DEF Next, Fetching
<1> QED BY <1>2, <1>3, <1>4

\* Only the commit of an inbox request exposes messages, all of one inbox.
LEMMA ExposedStep ==
  ASSUME LossInv, ~Faults, StoreInv', Next, overlapped' = overlapped \cup Overlapping'
  PROVE  LossNeedsOverlap'
<1>1. TypeOK /\ TypeOK' /\ SessionInv /\ Addressed
  BY DEF LossInv, StoreInv, SessionInv, DurableInv
<1>2. ASSUME NEW m \in exposed PROVE rcpt'[m] \in overlapped'
  <2>1. m \in Msgs /\ m < next
    BY <1>1, <1>2, GivenOut DEF TypeOK
  <2> QED BY <1>1, <1>2, <2>1, Recipients DEF LossInv, LossNeedsOverlap
<1>3. ASSUME NEW t \in Threads, FetchDrop(t), NEW m \in Dirty(t) \cup {item[t]}
      PROVE  rcpt'[m] \in overlapped'
  <2>1. pc[t] = "drop" /\ rcpt' = rcpt /\ row[item[t]] # "none"
    BY <1>3 DEF FetchDrop, Goto, sent
  <2>2. /\ item[t] \in Msgs /\ obj[t][item[t]] # "none"
        /\ m \in Msgs /\ obj[t][m] # "none"
    BY <1>1, <1>3, <2>1 DEF TypeOK, SessionInv, KnownRows, Dirty, Procs
  <2>3. rcpt[m] = rcpt[item[t]]
    BY <2>1, <2>2 DEF LossInv, OneInbox
  <2> QED BY <2>1, <2>3 DEF LossInv, Dropping
<1>4. \/ exposed' = exposed
      \/ \E t \in Threads : FetchDrop(t) /\ exposed' = exposed \cup Dirty(t) \cup {item[t]}
  BY DEF Next, SendUpload, SendUploadFails, SendSave, SendSaveFails, SendUndo, SendContacts,
         SendAnswer, PurgeList, Purging, PurgeNext, PurgeUnlink, PurgeErase, PurgeEnd,
         FetchList, Fetching, FetchNext, FetchGet, FetchMiss, FetchDrop, FetchDropGone,
         FetchEnd, ConfirmRead, ConfirmUnlink, ConfirmErase, DeleteAccount, Expire, Abort,
         Crash, history
<1> QED BY <1>2, <1>3, <1>4 DEF LossNeedsOverlap

LEMMA LossStep ==
  ASSUME LossInv, StoreInv', [MCNext]_<<vars, overlapped>>
  PROVE  LossInv'
<1>1. TypeOK /\ TypeOK' /\ SessionInv /\ SessionInv'
  BY DEF LossInv, StoreInv, SessionInv, DurableInv
<1>2. CASE MCNext
  <2>1. Addressed' /\ OneInbox'
    BY <1>1, <1>2, Recipients, InboxStep DEF LossInv, MCNext
  <2>2. Faults \/ (Overlapping' \subseteq overlapped' /\ Dropping' /\ LossNeedsOverlap')
    BY <1>2, DroppingStep, ExposedStep DEF MCNext
  <2> QED BY <2>1, <2>2 DEF LossInv
<1>3. CASE UNCHANGED <<vars, overlapped>>
  BY <1>3
     DEF vars, LossInv, Addressed, OneInbox, Overlapping, Serves, Dropping, LossNeedsOverlap
<1> QED BY <1>2, <1>3

\* The history of overlapping requests only watches Mailbox.
LEMMA WatchedMailbox == MCSpec => Spec
<1>1. [MCNext]_<<vars, overlapped>> => [Next]_vars
  BY DEF MCNext, vars
<1> QED BY <1>1, PTL DEF MCSpec, MCInit, Spec

\* While nothing fails, an inbox request exposes a message only when two
\* requests, or a request and the expiry worker, overlapped on that inbox.
THEOREM LossOverlaps == MCSpec => []LossNeedsOverlap
<1>1. MCInit /\ StoreInv => LossInv
  BY MsgsFacts, MailboxAssumption
     DEF MCInit, Init, LossInv, Addressed, OneInbox, Overlapping, Serves, Dropping,
         LossNeedsOverlap, NoObjects, Msgs, Procs
<1>2. LossInv /\ StoreInv' /\ [MCNext]_<<vars, overlapped>> => LossInv'
  BY LossStep
<1>3. LossInv => LossNeedsOverlap
  BY DEF LossInv, LossNeedsOverlap
<1> QED BY <1>1, <1>2, <1>3, WatchedMailbox, StoreInvariant, PTL DEF MCSpec
=============================================================================
