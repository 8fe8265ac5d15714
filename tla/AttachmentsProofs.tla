------------------------- MODULE AttachmentsProofs -------------------------
(***************************************************************************)
(* Proofs about Attachments, for any threads, users, files and faults:     *)
(* what was accepted is not lost, what leaks was hit by a fault, and the   *)
(* deletion of an account leaves only what was saved after it.             *)
(***************************************************************************)
EXTENDS Attachments, TLAPS

\* An attachment that has not been uploaded yet is nowhere.
Fresh ==
  /\ \A a \in Files : a >= next => a \notin rows \cup blobs \cup expired \cup doomed \cup acked
  /\ \A p \in Procs : \A a \in held[p] : a < next
  /\ \A a \in Files : a < next => rcpt[a] \in Users

\* A session holds what its handler needs, and only the loop saves.
Working ==
  \A p \in Procs :
    /\ pc[p] = "idle" => held[p] = {}
    /\ pc[p] = "save" => p = Loop
    /\ pc[p] # "unlink" => todo[p] = {} /\ user[p] = Nobody
    /\ todo[p] \subseteq held[p]

\* What is being saved has its object and no row, and nobody deletes it.
Saving ==
  pc[Loop] = "save" =>
    /\ held[Loop] \subseteq blobs \ rows
    /\ \A p \in Procs : pc[p] = "unlink" => held[p] \cap held[Loop] = {}

\* Only what was released is deleted, the object before the row.
Unlinking ==
  \A p \in Procs : pc[p] = "unlink" => \A a \in held[p] :
    /\ a \in acked \cup expired \cup doomed
    /\ a \notin todo[p] => a \notin blobs \/ a \in hurt

\* The deletion of an account deletes all attachments but those saved since.
Listed ==
  \A p \in Procs : \A a \in rows : rcpt[a] = user[p] => a \in held[p] \cup late

IInv ==
  /\ TypeOK /\ Fresh /\ Working /\ Saving /\ Unlinking /\ Listed
  /\ Durable /\ LeaksNeedFault /\ AccountLeavesNothing

LEMMA InitIInv == Init => IInv
<1> SUFFICES ASSUME Init PROVE IInv
  OBVIOUS
<1> USE AttachmentsAssumption DEF Init, Files, Procs
<1>1. TypeOK
  BY DEF TypeOK
<1>2. Fresh /\ Working /\ Saving /\ Unlinking /\ Listed
  BY DEF Fresh, Working, Saving, Unlinking, Listed
<1>3. Durable /\ LeaksNeedFault /\ AccountLeavesNothing
  BY DEF Durable, LeaksNeedFault, AccountLeavesNothing
<1> QED BY <1>1, <1>2, <1>3 DEF IInv

\* Only p's session changed.
Moved(p) ==
  /\ pc' \in [Procs -> {"idle", "save", "unlink"}] /\ user' \in [Procs -> Users \cup {Nobody}]
  /\ held' \in [Procs -> SUBSET Files] /\ todo' \in [Procs -> SUBSET Files]
  /\ \A q \in Procs \ {p} :
       pc'[q] = pc[q] /\ user'[q] = user[q] /\ held'[q] = held[q] /\ todo'[q] = todo[q]

LEMMA FinishMoves ==
  ASSUME TypeOK, NEW p \in Procs, Finish(p)
  PROVE  /\ Moved(p) /\ pc'[p] = "idle" /\ user'[p] = Nobody
         /\ held'[p] = {} /\ todo'[p] = {}
BY DEF TypeOK, Finish, Open, Moved

LEMMA FaultTypes ==
  ASSUME TypeOK, NEW fs \in SUBSET Files, NoFault \/ Fault(fs)
  PROVE  faults' \in 0..MaxFault /\ hurt' \subseteq Files /\ hurt \subseteq hurt'
BY AttachmentsAssumption DEF TypeOK, NoFault, Fault

LEMMA RowsForUsers ==
  ASSUME TypeOK, Fresh
  PROVE  \A a \in rows : a \in Files /\ a < next /\ rcpt[a] \in Users
<1> SUFFICES ASSUME NEW a \in rows PROVE a \in Files /\ a < next /\ rcpt[a] \in Users
  OBVIOUS
<1>1. a \in Files /\ a \in Nat /\ next \in Nat
  BY AttachmentsAssumption DEF TypeOK, Files
<1>2. a < next
  BY <1>1 DEF Fresh
<1> QED BY <1>1, <1>2 DEF Fresh

\* The loop stores an object.
LEMMA StoreStep ==
  ASSUME IInv, NEW u \in Users, UploadStore(u) \/ UploadStoreFails(u)
  PROVE  IInv'
<1> USE AttachmentsAssumption DEF IInv, env, history, session
<1>0. Loop \in Procs /\ next \in Files /\ next \in Nat
  BY DEF UploadStore, UploadStoreFails, Files, Procs
<1>1. /\ next' = next + 1 /\ rcpt' = [rcpt EXCEPT ![next] = u] /\ pc[Loop] = "idle"
      /\ blobs \subseteq blobs' /\ blobs' \subseteq blobs \cup {next}
      /\ hurt \subseteq hurt' /\ UNCHANGED <<env, rows, todo, user, accepted, acked, doomed, late>>
  BY DEF UploadStore, UploadStoreFails, Goto, Fault
<1>2. /\ Moved(Loop)
      /\ \/ pc'[Loop] = "save" /\ held'[Loop] = {next} /\ next \in blobs'
         \/ pc'[Loop] = "idle" /\ held'[Loop] = {} /\ next \in hurt'
  <2>1. CASE UploadStore(u)
    BY <1>0, <2>1 DEF UploadStore, Goto, TypeOK, Moved
  <2>2. CASE UploadStoreFails(u)
    BY <1>0, <2>2 DEF UploadStoreFails, Fault, TypeOK, Moved, Working
  <2> QED BY <2>1, <2>2
<1>3. faults' \in 0..MaxFault /\ hurt' \subseteq Files
  <2>1. CASE UploadStore(u)
    BY <2>1 DEF UploadStore, TypeOK
  <2>2. CASE UploadStoreFails(u)
    BY <1>0, <2>2, FaultTypes DEF UploadStoreFails
  <2> QED BY <2>1, <2>2
<1>4. next \notin rows \cup blobs \cup expired \cup doomed \cup acked
  BY <1>0 DEF Fresh
<1>5. \A a \in Files \ {next} : rcpt'[a] = rcpt[a]
  BY <1>1 DEF TypeOK
<1>6. TypeOK'
  <2>1. next' \in 1..(MaxFile + 1) /\ rcpt' \in [Files -> Users \cup {Nobody}]
    BY <1>0, <1>1 DEF TypeOK, Files
  <2> QED BY <1>0, <1>1, <1>2, <1>3, <2>1 DEF TypeOK, Moved
<1>7. Fresh'
  <2>1. \A a \in Files : a \in Nat
    BY DEF Files
  <2>2. \A a \in Files : a >= next' => a \notin (rows \cup blobs \cup expired \cup doomed \cup acked) \cup {next}
    BY <1>0, <1>1, <2>1 DEF Fresh
  <2>3. \A p \in Procs : \A a \in held'[p] : a < next'
    <3>1. ASSUME NEW p \in Procs, NEW a \in held'[p] PROVE a < next'
      <4>1. a \in held[p] \/ a = next
        BY <1>2, <3>1 DEF Moved
      <4>2. a \in Files /\ a \in Nat
        BY <1>0, <4>1, <2>1 DEF TypeOK
      <4>3. a < next \/ a = next
        BY <4>1 DEF Fresh
      <4> QED BY <1>0, <1>1, <4>2, <4>3
    <3> QED BY <3>1
  <2>4. \A a \in Files : a < next' => rcpt'[a] \in Users
    BY <1>0, <1>1, <1>5, <2>1 DEF Fresh, TypeOK
  <2> QED BY <1>1, <2>2, <2>3, <2>4 DEF Fresh
<1>8. Working'
  BY <1>0, <1>1, <1>2 DEF Working, Moved
<1>9. Saving'
  <2>1. \A p \in Procs : next \notin held[p]
    BY <1>0 DEF Fresh
  <2> QED BY <1>0, <1>1, <1>2, <1>4, <2>1 DEF Saving, Moved
<1>10. Unlinking'
  <2>1. \A p \in Procs : next \notin held[p]
    BY <1>0 DEF Fresh
  <2> QED BY <1>1, <1>2, <2>1 DEF Unlinking, Moved, env
<1>11. Listed'
  BY <1>1, <1>2, <1>4, <1>5 DEF Listed, Moved, TypeOK, Working
<1>12. Durable' /\ LeaksNeedFault' /\ AccountLeavesNothing'
  <2>1. Durable'
    BY <1>1 DEF Durable
  <2>2. LeaksNeedFault'
    BY <1>1, <1>2 DEF LeaksNeedFault
  <2>3. AccountLeavesNothing'
    BY <1>1, <1>4, <1>5 DEF AccountLeavesNothing, TypeOK
  <2> QED BY <2>1, <2>2, <2>3
<1> QED BY <1>6, <1>7, <1>8, <1>9, <1>10, <1>11, <1>12

\* The loop saves the row, or fails to, or does so and fails.
LEMMA SaveStep ==
  ASSUME IInv, UploadSave \/ UploadSaveFails
  PROVE  IInv'
<1> USE AttachmentsAssumption DEF IInv, env
<1>0. Loop \in Procs
  BY DEF Procs
<1>1. /\ pc[Loop] = "save" /\ Finish(Loop) /\ UNCHANGED <<next, rcpt, env, blobs, acked, doomed>>
      /\ hurt \subseteq hurt'
  BY DEF UploadSave, UploadSaveFails, Fault
<1>2. /\ Moved(Loop) /\ pc'[Loop] = "idle" /\ user'[Loop] = Nobody
      /\ held'[Loop] = {} /\ todo'[Loop] = {}
  BY <1>0, <1>1, FinishMoves
<1>3. held[Loop] \subseteq Files
  BY <1>0 DEF TypeOK
<1>4. \/ rows' = rows \cup held[Loop] /\ late' = late \cup {a \in held[Loop] : rcpt[a] \in Leaving}
      \/ rows' = rows /\ late' = late /\ accepted' = accepted /\ held[Loop] \subseteq hurt'
  BY DEF UploadSave, UploadSaveFails, Fault
<1>5. accepted' = accepted \/ (accepted' = accepted \cup held[Loop] /\ rows' = rows \cup held[Loop])
  BY DEF UploadSave, UploadSaveFails
<1>6. TypeOK'
  <2>1. faults' \in 0..MaxFault /\ hurt' \subseteq Files
    BY <1>3, FaultTypes DEF UploadSave, UploadSaveFails, NoFault
  <2> QED BY <1>1, <1>2, <1>3, <1>4, <1>5, <2>1 DEF TypeOK, Moved
<1>7. \A a \in held[Loop] : a \in Files /\ a < next /\ a \in blobs /\ rcpt[a] \in Users
  BY <1>0, <1>1, <1>3 DEF Fresh, Saving
<1>8. Fresh'
  BY <1>1, <1>2, <1>4, <1>7 DEF Fresh, Moved
<1>9. Working' /\ Saving'
  BY <1>2 DEF Working, Saving, Moved
<1>10. Unlinking'
  BY <1>1, <1>2 DEF Unlinking, Moved
<1>11. Listed'
  <2>1. ASSUME NEW p \in Procs, NEW a \in rows', rcpt[a] = user'[p]
        PROVE  a \in held'[p] \cup late'
    <3>1. rcpt[a] \in Users /\ (a \in rows \/ a \in held[Loop])
      BY <1>4, <1>7, <2>1, RowsForUsers
    <3>2. p # Loop /\ user[p] = rcpt[a] /\ held'[p] = held[p]
      BY <1>2, <2>1, <3>1 DEF Moved
    <3>3. p \in Threads
      BY <3>2 DEF Procs
    <3> QED BY <1>4, <2>1, <3>1, <3>2, <3>3 DEF Listed, Leaving
  <2> QED BY <1>1, <2>1 DEF Listed
<1>12. Durable'
  BY <1>1, <1>4, <1>5, <1>7 DEF Durable
<1>13. LeaksNeedFault'
  BY <1>1, <1>4 DEF LeaksNeedFault
<1>14. AccountLeavesNothing'
  BY <1>1, <1>4, <1>7 DEF AccountLeavesNothing, Leaving
<1> QED BY <1>6, <1>8, <1>9, <1>10, <1>11, <1>12, <1>13, <1>14

\* A handler opens its session on rows that were released.
LEMMA OpenStep ==
  ASSUME IInv,
         \/ \E t \in Threads, a \in Files : DownloadExpired(t, a) \/ Ack(t, a)
         \/ \E t \in Threads, u \in Users : DeleteList(t, u)
         \/ PurgeList
  PROVE  IInv'
<1> USE AttachmentsAssumption DEF IInv, env
<1>1. PICK p \in Procs, fs \in SUBSET rows :
        /\ Goto(p, "idle", "unlink") /\ Open(p, fs)
        /\ UNCHANGED <<next, rcpt, env, rows, blobs, faults, accepted, late, hurt>>
        /\ acked \subseteq acked' /\ doomed \subseteq doomed'
        /\ acked' \cup doomed' \subseteq acked \cup doomed \cup fs
        /\ fs \subseteq acked' \cup expired \cup doomed'
        /\ \/ user' = user
           \/ \E u \in Users : /\ user' = [user EXCEPT ![p] = u] /\ p \in Threads
                               /\ fs = {a \in rows : rcpt[a] = u}
  <2>1. ASSUME NEW t \in Threads, NEW a \in Files, DownloadExpired(t, a) \/ Ack(t, a)
        PROVE  t \in Procs /\ {a} \in SUBSET rows
    BY <2>1 DEF DownloadExpired, Ack, Procs
  <2>2. ASSUME NEW t \in Threads, NEW u \in Users, DeleteList(t, u)
        PROVE  t \in Procs /\ {a \in rows : rcpt[a] = u} \in SUBSET rows
    BY DEF Procs
  <2>3. PurgeList => Loop \in Procs /\ Overdue \in SUBSET rows
    BY DEF Procs, Overdue
  <2>4. ASSUME NEW t \in Threads, NEW a \in Files, DownloadExpired(t, a) \/ Ack(t, a)
        PROVE  /\ Goto(t, "idle", "unlink") /\ Open(t, {a})
               /\ UNCHANGED <<next, rcpt, env, rows, blobs, faults, accepted, late, hurt>>
               /\ acked \subseteq acked' /\ doomed \subseteq doomed'
               /\ acked' \cup doomed' \subseteq acked \cup doomed \cup {a}
               /\ {a} \subseteq acked' \cup expired \cup doomed' /\ user' = user
    BY <2>4 DEF DownloadExpired, Ack, history
  <2>5. ASSUME NEW t \in Threads, NEW u \in Users, DeleteList(t, u)
        PROVE  /\ Goto(t, "idle", "unlink") /\ Open(t, {a \in rows : rcpt[a] = u})
               /\ UNCHANGED <<next, rcpt, env, rows, blobs, faults, accepted, late, hurt, acked>>
               /\ doomed' = doomed \cup {a \in rows : rcpt[a] = u}
               /\ user' = [user EXCEPT ![t] = u]
    BY <2>5 DEF DeleteList
  <2>6. PurgeList => /\ Goto(Loop, "idle", "unlink") /\ Open(Loop, Overdue) /\ Overdue \subseteq expired
                     /\ UNCHANGED <<next, rcpt, env, rows, blobs, faults, accepted, late, hurt, acked, doomed, user>>
    BY DEF PurgeList, Overdue, history
  <2>7. CASE \E t \in Threads, a \in Files : DownloadExpired(t, a) \/ Ack(t, a)
    <3>1. PICK t \in Threads, a \in Files : DownloadExpired(t, a) \/ Ack(t, a)
      BY <2>7
    <3> DEFINE fs == {a}
    <3>2. t \in Procs /\ fs \in SUBSET rows
      BY <2>1, <3>1
    <3>3. /\ Goto(t, "idle", "unlink") /\ Open(t, fs)
          /\ UNCHANGED <<next, rcpt, env, rows, blobs, faults, accepted, late, hurt>>
          /\ acked \subseteq acked' /\ doomed \subseteq doomed'
          /\ acked' \cup doomed' \subseteq acked \cup doomed \cup fs
          /\ fs \subseteq acked' \cup expired \cup doomed' /\ user' = user
      BY <2>4, <3>1
    <3> HIDE DEF fs
    <3> QED BY ONLY <3>2, <3>3
  <2>8. CASE \E t \in Threads, u \in Users : DeleteList(t, u)
    <3>1. PICK t \in Threads, u \in Users : DeleteList(t, u)
      BY <2>8
    <3> DEFINE fs == {a \in rows : rcpt[a] = u}
    <3>2. t \in Procs /\ fs \in SUBSET rows
      BY <3>1, <2>2
    <3>3. /\ Goto(t, "idle", "unlink") /\ Open(t, fs)
          /\ UNCHANGED <<next, rcpt, env, rows, blobs, faults, accepted, late, hurt>>
          /\ acked' = acked /\ doomed' = doomed \cup fs
          /\ user' = [user EXCEPT ![t] = u] /\ fs = {a \in rows : rcpt[a] = u}
      BY <3>1, <2>5
    <3> HIDE DEF fs
    <3> QED BY <3>2, <3>3
  <2>9. CASE PurgeList
    BY <2>3, <2>6, <2>9
  <2> QED BY <2>7, <2>8, <2>9
<1>2. fs \subseteq Files
  BY DEF TypeOK
<1>3. /\ Moved(p) /\ pc[p] = "idle" /\ pc'[p] = "unlink" /\ held'[p] = fs /\ todo'[p] = fs
  <2>1. user' \in [Procs -> Users \cup {Nobody}] /\ \A q \in Procs \ {p} : user'[q] = user[q]
    BY <1>1 DEF TypeOK
  <2> QED BY <1>1, <1>2, <2>1 DEF TypeOK, Goto, Open, Moved
<1>4. TypeOK'
  BY <1>1, <1>2, <1>3 DEF TypeOK, Moved
<1>5. \A a \in fs : a \in Files /\ a < next /\ rcpt[a] \in Users
  BY <1>1, RowsForUsers
<1>6. Fresh'
  <2>1. \A a \in Files : a >= next => a \notin fs
    <3> SUFFICES ASSUME NEW a \in Files, a >= next, a \in fs PROVE FALSE
      OBVIOUS
    <3> QED BY <1>5 DEF Files, TypeOK
  <2> QED BY <1>1, <1>3, <1>5, <2>1 DEF Fresh, Moved
<1>7. Working'
  BY <1>1, <1>3 DEF Working, Moved
<1>8. Saving'
  <2> SUFFICES ASSUME pc'[Loop] = "save" PROVE Saving'
    BY DEF Saving
  <2>1. Loop \in Procs \ {p} /\ pc[Loop] = "save" /\ held'[Loop] = held[Loop]
    BY <1>3 DEF Moved, Procs
  <2>2. \A q \in Procs : pc'[q] = "unlink" => held'[q] \cap held[Loop] = {}
    BY <1>3, <2>1 DEF Saving, Moved
  <2> QED BY <1>1, <2>1, <2>2 DEF Saving
<1>9. Unlinking'
  BY <1>1, <1>3 DEF Unlinking, Moved
<1>10. Listed'
  <2>1. ASSUME NEW q \in Procs, NEW a \in rows, rcpt[a] = user'[q]
        PROVE  a \in held'[q] \cup late
    <3>1. CASE q # p
      BY <1>3, <2>1, <3>1 DEF Listed, Moved
    <3>2. CASE q = p /\ user' = user
      BY <1>3, <2>1, <3>2, RowsForUsers DEF Working
    <3>3. CASE q = p /\ user' # user
      <4>1. PICK u \in Users : user' = [user EXCEPT ![p] = u] /\ fs = {b \in rows : rcpt[b] = u}
        BY <1>1, <3>3
      <4>2. user'[p] = u
        BY <4>1 DEF TypeOK
      <4> QED BY <1>3, <2>1, <3>3, <4>1, <4>2
    <3> QED BY <3>1, <3>2, <3>3
  <2> QED BY <1>1, <2>1 DEF Listed
<1>11. Durable'
  BY <1>1 DEF Durable
<1>12. LeaksNeedFault'
  <2>1. pc[Loop] = "save" => pc'[Loop] = "save" /\ held'[Loop] = held[Loop]
    BY <1>3 DEF Moved, Procs
  <2> QED BY <1>1, <2>1 DEF LeaksNeedFault
<1>13. AccountLeavesNothing'
  BY <1>1 DEF AccountLeavesNothing
<1> QED BY <1>4, <1>6, <1>7, <1>8, <1>9, <1>10, <1>11, <1>12, <1>13

\* An object is deleted, or is not and that is a fault.
LEMMA UnlinkStep ==
  ASSUME IInv, NEW p \in Procs, NEW a \in Files, Unlink(p, a)
  PROVE  IInv'
<1> USE AttachmentsAssumption DEF IInv, Unlink, env
<1>1. /\ todo' \in [Procs -> SUBSET Files] /\ todo'[p] = todo[p] \ {a}
      /\ \A q \in Procs \ {p} : todo'[q] = todo[q]
  BY DEF TypeOK
<1>2. \/ blobs' = blobs \ {a} /\ NoFault
      \/ blobs' = blobs /\ Fault({a})
  BY DEF DeleteBlob
<1>3. blobs' \subseteq blobs /\ blobs \ {a} \subseteq blobs' /\ hurt \subseteq hurt' /\ (a \notin blobs' \/ a \in hurt')
  BY <1>2 DEF NoFault, Fault
<1>4. faults' \in 0..MaxFault /\ hurt' \subseteq Files
  BY <1>2, FaultTypes DEF NoFault
<1>5. a \in held[p] /\ a \in acked \cup expired \cup doomed
  BY DEF Working, Unlinking
<1>6. TypeOK'
  BY <1>1, <1>3, <1>4 DEF TypeOK
<1>7. Fresh' /\ Listed' /\ AccountLeavesNothing'
  BY <1>3 DEF Fresh, Listed, AccountLeavesNothing
<1>8. Working'
  BY <1>1 DEF Working
<1>9. Saving'
  BY <1>3, <1>5 DEF Saving
<1>10. Unlinking'
  BY <1>1, <1>3 DEF Unlinking
<1>11. Durable'
  BY <1>3, <1>5 DEF Durable
<1>12. LeaksNeedFault'
  BY <1>3 DEF LeaksNeedFault
<1> QED BY <1>6, <1>7, <1>8, <1>9, <1>10, <1>11, <1>12

\* The rows go, and the account with them.
LEMMA EraseStep ==
  ASSUME IInv, NEW p \in Procs, Erase(p)
  PROVE  IInv'
<1> USE AttachmentsAssumption DEF IInv, Erase, history
<1>1. /\ Moved(p) /\ pc'[p] = "idle" /\ user'[p] = Nobody /\ held'[p] = {} /\ todo'[p] = {}
  BY FinishMoves
<1>2. rows' \subseteq rows /\ live' \subseteq live
  OBVIOUS
<1>3. TypeOK'
  BY <1>1, <1>2 DEF TypeOK, Moved
<1>4. Fresh'
  BY <1>1, <1>2 DEF Fresh, Moved
<1>5. Working' /\ Unlinking'
  BY <1>1 DEF Working, Unlinking, Moved
<1>6. Listed'
  <2> SUFFICES ASSUME NEW q \in Procs, NEW a \in rows', rcpt[a] = user'[q]
               PROVE  a \in held'[q] \cup late
    BY DEF Listed
  <2>1. q # p
    BY <1>1, <1>2, RowsForUsers
  <2> QED BY <1>1, <1>2, <2>1 DEF Listed, Moved
<1>7. Durable'
  BY DEF Durable, Unlinking
<1>8. LeaksNeedFault'
  <2>1. \A a \in held[p] : a \notin blobs \/ a \in hurt
    BY DEF Unlinking
  <2>2. pc[Loop] = "save" => pc'[Loop] = "save" /\ held'[Loop] = held[Loop]
    BY <1>1 DEF Moved, Procs
  <2> QED BY <2>1, <2>2 DEF LeaksNeedFault
<1>9. AccountLeavesNothing'
  BY <1>2 DEF AccountLeavesNothing, Listed
<1>10. Saving'
  <2>1. Loop \in Procs
    BY DEF Procs
  <2> QED BY <1>1, <1>2, <2>1 DEF Saving, Moved
<1> QED BY <1>3, <1>4, <1>5, <1>6, <1>7, <1>8, <1>9, <1>10

\* A session ends without deleting its rows.
LEMMA GiveUpStep ==
  ASSUME IInv, Crash \/ \E p \in Procs : Abort(p)
  PROVE  IInv'
<1> USE AttachmentsAssumption DEF IInv, env
<1>1. UNCHANGED <<next, rcpt, env, rows, blobs, accepted, acked, doomed, late>>
  BY DEF Crash, Abort
<1>2. PICK fs \in SUBSET Files :
        /\ Fault(fs) /\ (pc[Loop] = "save" /\ pc'[Loop] # "save" => held[Loop] \subseteq fs)
  <2>1. CASE Crash
    <3>1. (UNION {held[p] : p \in Procs}) \in SUBSET Files
      BY DEF TypeOK
    <3>2. held[Loop] \subseteq UNION {held[p] : p \in Procs}
      BY DEF Procs
    <3> QED BY <2>1, <3>1, <3>2 DEF Crash
  <2>2. ASSUME NEW p \in Procs, Abort(p)
        PROVE  held[p] \in SUBSET Files /\ Fault(held[p]) /\ (pc[Loop] = "save" => pc'[Loop] = "save")
    BY <2>2 DEF Abort, Finish, TypeOK, Procs
  <2> QED BY <2>1, <2>2
<1>3. hurt \subseteq hurt' /\ fs \subseteq hurt' /\ faults' \in 0..MaxFault /\ hurt' \subseteq Files
  BY <1>2, FaultTypes DEF Fault
<1>4. /\ pc' \in [Procs -> {"idle", "save", "unlink"}] /\ user' \in [Procs -> Users \cup {Nobody}]
      /\ held' \in [Procs -> SUBSET Files] /\ todo' \in [Procs -> SUBSET Files]
      /\ \A q \in Procs :
           \/ pc'[q] = "idle" /\ user'[q] = Nobody /\ held'[q] = {} /\ todo'[q] = {}
           \/ pc'[q] = pc[q] /\ user'[q] = user[q] /\ held'[q] = held[q] /\ todo'[q] = todo[q]
  <2>1. CASE Crash
    BY <2>1 DEF Crash
  <2>2. ASSUME NEW p \in Procs, Abort(p) PROVE Finish(p)
    BY <2>2 DEF Abort
  <2>3. ASSUME NEW p \in Procs, Abort(p)
        PROVE  /\ Moved(p) /\ pc'[p] = "idle" /\ user'[p] = Nobody /\ held'[p] = {} /\ todo'[p] = {}
    BY <2>2, <2>3, FinishMoves
  <2> QED BY <2>1, <2>3 DEF Moved
<1>5. TypeOK'
  BY <1>1, <1>3, <1>4 DEF TypeOK
<1>6. Fresh'
  BY <1>1, <1>4 DEF Fresh
<1>7. Working' /\ Saving'
  BY <1>1, <1>4 DEF Working, Saving, Procs
<1>8. Unlinking'
  BY <1>1, <1>3, <1>4 DEF Unlinking
<1>9. Listed'
  BY <1>1, <1>4, RowsForUsers DEF Listed
<1>10. Durable' /\ AccountLeavesNothing'
  BY <1>1 DEF Durable, AccountLeavesNothing
<1>11. LeaksNeedFault'
  <2>1. pc[Loop] = "save" /\ pc'[Loop] = "save" => held'[Loop] = held[Loop]
    BY <1>4 DEF Procs
  <2> QED BY <1>1, <1>2, <1>3, <2>1 DEF LeaksNeedFault
<1> QED BY <1>5, <1>6, <1>7, <1>8, <1>9, <1>10, <1>11

LEMMA ExpireStep ==
  ASSUME IInv, NEW a \in Files, Expire(a)
  PROVE  IInv'
<1> USE DEF IInv, Expire, session, history
<1>1. TypeOK' /\ Fresh'
  BY AttachmentsAssumption DEF TypeOK, Fresh, Files
<1>2. Working' /\ Saving' /\ Unlinking' /\ Listed'
  BY DEF Working, Saving, Unlinking, Listed
<1>3. Durable' /\ LeaksNeedFault' /\ AccountLeavesNothing'
  BY DEF Durable, LeaksNeedFault, AccountLeavesNothing
<1> QED BY <1>1, <1>2, <1>3

LEMMA StepIInv ==
  ASSUME IInv, [Next]_vars
  PROVE  IInv'
<1>1. CASE UNCHANGED vars
  <2> USE <1>1 DEF IInv, vars
  <2>1. TypeOK' /\ Fresh' /\ Working' /\ Saving' /\ Unlinking' /\ Listed'
    BY DEF TypeOK, Fresh, Working, Saving, Unlinking, Listed
  <2>2. Durable' /\ LeaksNeedFault' /\ AccountLeavesNothing'
    BY DEF Durable, LeaksNeedFault, AccountLeavesNothing
  <2> QED BY <2>1, <2>2
<1>2. CASE Next
  BY <1>2, StoreStep, SaveStep, OpenStep, UnlinkStep, EraseStep, GiveUpStep, ExpireStep
  DEF Next, Deleting
<1> QED BY <1>1, <1>2

LEMMA Invariance == Spec => []IInv
BY InitIInv, StepIInv, PTL DEF Spec

---------------------------------------------------------------------------
(* Theorems *)

\* The tables, the store and the sessions hold what they may hold in every
\* reachable state.
THEOREM TypeCorrect == Spec => []TypeOK
<1>1. IInv => TypeOK
  BY DEF IInv
<1> QED BY <1>1, Invariance, PTL

\* Whatever fails, an attachment whose upload was answered has its row and its
\* object until it is acknowledged, expires, or its recipient's account goes.
THEOREM Durability == Spec => []Durable
<1>1. IInv => Durable
  BY DEF IInv
<1> QED BY <1>1, Invariance, PTL

\* Only an attachment that a fault hit has an object without a row, but for
\* the one that is being saved.
THEOREM LeaksAreFaults == Spec => []LeaksNeedFault
<1>1. IInv => LeaksNeedFault
  BY DEF IInv
<1> QED BY <1>1, Invariance, PTL

\* Of a deleted account only attachments that were saved after the deletion
\* listed them are left.
THEOREM AccountErased == Spec => []AccountLeavesNothing
<1>1. IInv => AccountLeavesNothing
  BY DEF IInv
<1> QED BY <1>1, Invariance, PTL

---------------------------------------------------------------------------
(* The life of an attachment.  Attachments implements StoredLife.           *)

\* The upload in progress is of one attachment nobody was told of.
Unanswered ==
  /\ \A a \in accepted : a < next
  /\ pc[Loop] = "save" => \E a \in Files \ accepted : held[Loop] = {a}

Given == acked \cup expired \cup doomed

\* Where the loop is, seen from the steps of the others.
LEMMA OthersMove ==
  ASSUME TypeOK, NEW p \in Procs, Moved(p), pc[p] # "save", pc'[p] # "save"
  PROVE  /\ pc'[Loop] = "save" <=> pc[Loop] = "save"
         /\ pc[Loop] = "save" => held'[Loop] = held[Loop]
<1>1. Loop \in Procs
  BY DEF Procs
<1> QED BY <1>1 DEF Moved

\* What the steps after an upload do to the loop and to what was released.
LEMMA Quietly ==
  ASSUME IInv,
         \/ \E t \in Threads :
              \/ \E a \in Files : DownloadExpired(t, a) \/ Ack(t, a)
              \/ \E u \in Users : DeleteList(t, u)
         \/ PurgeList
         \/ \E p \in Procs : Deleting(p) \/ Abort(p)
         \/ \E a \in Files : Expire(a)
  PROVE  /\ next' = next /\ accepted' = accepted /\ Given \subseteq Given'
         /\ pc'[Loop] = "save" <=> pc[Loop] = "save"
         /\ pc[Loop] = "save" => held'[Loop] = held[Loop]
<1> USE AttachmentsAssumption DEF IInv, env, history
<1>1. /\ next' = next /\ accepted' = accepted /\ Given \subseteq Given'
  BY DEF DownloadExpired, Ack, DeleteList, PurgeList, Deleting, Erase, Unlink, Abort,
         Expire,
         Given
<1>2. ASSUME NEW t \in Threads, NEW a \in Files, DownloadExpired(t, a) \/ Ack(t, a)
      PROVE  t \in Procs /\ Moved(t) /\ pc[t] = "idle" /\ pc'[t] = "unlink"
  BY <1>2 DEF DownloadExpired, Ack, Goto, Open, TypeOK, Moved, Procs
<1>3. ASSUME NEW t \in Threads, NEW u \in Users, DeleteList(t, u)
      PROVE  t \in Procs /\ Moved(t) /\ pc[t] = "idle" /\ pc'[t] = "unlink"
  BY <1>3 DEF DeleteList, Goto, Open, TypeOK, Moved, Procs
<1>4. ASSUME PurgeList
      PROVE  Loop \in Procs /\ Moved(Loop) /\ pc[Loop] = "idle" /\ pc'[Loop] = "unlink"
  BY <1>4 DEF PurgeList, Overdue, Goto, Open, TypeOK, Moved, Procs
<1>5. ASSUME NEW p \in Procs, Erase(p) \/ Abort(p)
      PROVE  Moved(p) /\ pc[p] = "unlink" /\ pc'[p] = "idle"
  BY <1>5, FinishMoves DEF Erase, Abort
<1>6. ASSUME NEW p \in Procs, NEW a \in Files, Unlink(p, a) PROVE pc' = pc /\ held' = held
  BY <1>6 DEF Unlink
<1>7. ASSUME NEW a \in Files, Expire(a) PROVE pc' = pc /\ held' = held
  BY <1>7 DEF Expire, session
<1> QED BY <1>1, <1>2, <1>3, <1>4, <1>5, <1>6, <1>7, OthersMove DEF Deleting

LEMMA UnansweredStep ==
  ASSUME IInv, Unanswered, [Next]_vars
  PROVE  Unanswered'
<1> USE AttachmentsAssumption DEF IInv, Unanswered
<1>0. next \in Nat /\ Loop \in Procs /\ \A a \in Files : a \in Nat
  BY DEF TypeOK, Files, Procs
<1>1. ASSUME NEW u \in Users, UploadStore(u) \/ UploadStoreFails(u) PROVE Unanswered'
  <2>1. /\ next \in Files \ accepted /\ next' = next + 1 /\ accepted' = accepted
        /\ pc[Loop] = "idle"
    BY <1>0, <1>1 DEF UploadStore, UploadStoreFails, Goto, history
  <2>2. pc'[Loop] = "save" => held'[Loop] = {next}
    BY <1>0, <1>1, <2>1 DEF UploadStore, UploadStoreFails, TypeOK
  <2>3. \A a \in accepted : a \in Nat
    BY <1>0 DEF TypeOK
  <2> QED BY <1>0, <2>1, <2>2, <2>3
<1>2. CASE UploadSave \/ UploadSaveFails
  <2>1. pc'[Loop] = "idle" /\ next' = next /\ accepted' \subseteq accepted \cup held[Loop]
    BY <1>0, <1>2, FinishMoves DEF UploadSave, UploadSaveFails
  <2> QED BY <1>0, <2>1 DEF Fresh
<1>3. CASE Crash
  BY <1>0, <1>3 DEF Crash
<1>4. CASE UNCHANGED vars
  BY <1>4 DEF vars
<1>5. ASSUME next' = next, accepted' = accepted,
             pc'[Loop] = "save" <=> pc[Loop] = "save",
             pc[Loop] = "save" => held'[Loop] = held[Loop]
      PROVE  Unanswered'
  BY <1>5
<1> QED BY <1>1, <1>2, <1>3, <1>4, <1>5, Quietly DEF Next

\* The stage of an attachment by itself.
Unsaved(a) == a >= next \/ (pc[Loop] = "save" /\ a \in held[Loop])
StageOf(a) == IF Unsaved(a) THEN "new"
              ELSE IF a \notin rows THEN "gone"
              ELSE IF a \in blobs THEN "whole" ELSE "spoilt"

LEMMA Stages ==
  /\ Stage = [a \in Files |-> StageOf(a)] /\ Stage' = [a \in Files |-> StageOf(a)']
  /\ \A a \in Files : Stage[a] = StageOf(a) /\ Stage'[a] = StageOf(a)'
BY DEF Stage, StageOf, Unsaved

\* A step that only releases, spoils and removes attachments is LetGo.
Going(a) ==
  /\ StageOf(a)' = "gone" \/ (StageOf(a)' = "spoilt" /\ StageOf(a) = "whole")
  /\ a \in accepted => a \in Given'

LEMMA LetsGo ==
  ASSUME TypeOK', accepted' = accepted, Given \subseteq Given',
         \A a \in Files : StageOf(a)' = StageOf(a) \/ Going(a)
  PROVE  Life!Next
<1> DEFINE spoilt == {a \in Files : StageOf(a)' # StageOf(a) /\ StageOf(a)' = "spoilt"}
           gone == {a \in Files : StageOf(a)' # StageOf(a) /\ StageOf(a)' = "gone"}
<1>1. Given' = Given \cup Given' /\ Given' \in SUBSET Files
  BY DEF Given, TypeOK
<1>2. \A a \in spoilt : Stage[a] = "whole"
  BY Stages DEF Going
<1>3. (spoilt \cup gone) \cap accepted \subseteq Given'
  BY DEF Going
<1>4. Stage' = [a \in Files |-> IF a \in gone THEN "gone"
                                 ELSE IF a \in spoilt THEN "spoilt" ELSE Stage[a]]
  <2>1. \A a \in Files : StageOf(a)' = IF a \in gone THEN "gone"
                                       ELSE IF a \in spoilt THEN "spoilt" ELSE Stage[a]
    BY Stages DEF Going
  <2> QED BY <2>1, Stages
<1>5. spoilt \in SUBSET Files /\ gone \in SUBSET Files
  OBVIOUS
<1> HIDE DEF spoilt, gone
<1>6. Life!LetGo(Given', spoilt, gone)
  BY <1>1, <1>2, <1>3, <1>4 DEF Life!LetGo, Given
<1> QED BY <1>1, <1>5, <1>6 DEF Life!Next

\* The upload that is stored and saved.
LEMMA LifeUpload ==
  ASSUME IInv, IInv', Unanswered,
         UploadSave \/ UploadSaveFails \/ \E u \in Users : UploadStore(u) \/ UploadStoreFails(u)
  PROVE  Life!Next
<1> USE AttachmentsAssumption DEF IInv, env, history
<1>0. next \in Nat /\ Loop \in Procs /\ \A a \in Files : a \in Nat
  BY DEF TypeOK, Files, Procs
<1>1. ASSUME NEW u \in Users, UploadStore(u) \/ UploadStoreFails(u) PROVE Life!Next
  <2>1. PICK n \in Files : n = next
    BY <1>1 DEF UploadStore, UploadStoreFails
  <2>2. /\ next' = n + 1 /\ pc[Loop] = "idle" /\ n \notin accepted /\ n \notin rows
        /\ rows' = rows /\ accepted' = accepted /\ Given' = Given
    BY <1>0, <1>1, <2>1
       DEF UploadStore, UploadStoreFails, Goto, Fresh, Unanswered, Given
  <2>3. /\ pc'[Loop] = "save" => held'[Loop] = {n}
        /\ \A a \in Files \ {n} : a \in blobs' <=> a \in blobs
    BY <1>0, <1>1, <2>1, <2>2 DEF UploadStore, UploadStoreFails, TypeOK
  <2>4. \A a \in Files \ {n} : StageOf(a)' = StageOf(a)
    BY <1>0, <2>1, <2>2, <2>3 DEF StageOf, Unsaved
  <2>5. StageOf(n)' \in {StageOf(n), "gone"}
    BY <1>0, <2>1, <2>2 DEF StageOf, Unsaved
  <2>6. \A a \in Files : StageOf(a)' = StageOf(a) \/ Going(a)
    BY <2>2, <2>4, <2>5 DEF Going
  <2> QED BY <2>2, <2>6, LetsGo
<1>2. CASE UploadSave \/ UploadSaveFails
  <2>1. pc[Loop] = "save" /\ pc'[Loop] = "idle" /\ next' = next /\ blobs' = blobs
        /\ Given' = Given
    BY <1>0, <1>2, FinishMoves DEF UploadSave, UploadSaveFails, Given
  <2>2. PICK n \in Files \ accepted : held[Loop] = {n}
    BY <2>1 DEF Unanswered
  <2>3. n < next /\ n \in blobs /\ n \notin rows
    BY <1>0, <2>1, <2>2 DEF Fresh, Saving
  <2>4. rows' = rows \cup {n} \/ (rows' = rows /\ accepted' = accepted)
    BY <1>2, <2>2 DEF UploadSave, UploadSaveFails
  <2>5. accepted' = accepted \cup {n} \/ accepted' = accepted
    BY <1>2, <2>2 DEF UploadSave, UploadSaveFails
  <2>6. \A a \in Files \ {n} : StageOf(a)' = StageOf(a)
    BY <2>1, <2>2, <2>4 DEF StageOf, Unsaved
  <2>7. StageOf(n) = "new"
    BY <2>1, <2>2 DEF StageOf, Unsaved
  <2>8. CASE rows' = rows \cup {n}
    <3>1. StageOf(n)' = "whole"
      BY <1>0, <2>1, <2>3, <2>8 DEF StageOf, Unsaved
    <3>2. Stage' = [Stage EXCEPT ![n] = "whole"]
      <4>1. \A a \in Files : StageOf(a)' = IF a = n THEN "whole" ELSE StageOf(a)
        BY <2>6, <3>1
      <4>2. Stage' = [a \in Files |-> IF a = n THEN "whole" ELSE StageOf(a)]
        BY <4>1, Stages
      <4> QED BY <4>2, Stages
    <3>3. \E told \in SUBSET {n} : accepted' = accepted \cup told
      <4>1. {n} \in SUBSET {n} /\ {} \in SUBSET {n} /\ accepted = accepted \cup {}
        OBVIOUS
      <4> QED BY <2>5, <4>1
    <3>4. PICK told \in SUBSET {n} : accepted' = accepted \cup told
      BY <3>3
    <3>5. Life!Store(n, told)
      BY <2>1, <2>7, <3>2, <3>4, Stages DEF Life!Store, Given
    <3> QED BY <3>5 DEF Life!Next
  <2>9. CASE rows' = rows /\ accepted' = accepted
    <3>1. StageOf(n)' \in {StageOf(n), "gone"}
      BY <2>3, <2>7, <2>9 DEF StageOf
    <3>2. \A a \in Files : StageOf(a)' = StageOf(a) \/ Going(a)
      BY <2>2, <2>6, <3>1 DEF Going
    <3> QED BY <2>1, <2>9, <3>2, LetsGo
  <2> QED BY <2>4, <2>8, <2>9
<1> QED BY <1>1, <1>2

\* What is released, loses its object or its row.
LEMMA LifeEnd ==
  ASSUME IInv, IInv',
         \/ \E t \in Threads :
              \/ \E a \in Files : DownloadExpired(t, a) \/ Ack(t, a)
              \/ \E u \in Users : DeleteList(t, u)
         \/ PurgeList
         \/ \E p \in Procs : Deleting(p) \/ Abort(p)
         \/ \E a \in Files : Expire(a)
  PROVE  Life!Next
<1> USE AttachmentsAssumption DEF IInv
<1>1. /\ next' = next /\ accepted' = accepted /\ Given \subseteq Given'
      /\ \A a \in Files : Unsaved(a)' <=> Unsaved(a)
  BY Quietly DEF Unsaved
<1>2. ASSUME NEW p \in Procs, pc[p] = "unlink", NEW a \in held[p]
      PROVE  ~Unsaved(a) /\ a \in Given'
  <2>1. a \in Files /\ a \in Nat /\ next \in Nat /\ a < next
    BY DEF TypeOK, Files, Fresh
  <2>2. a \in Given
    BY <1>2 DEF Unlinking, Given
  <2> QED BY <1>1, <1>2, <2>1, <2>2 DEF Saving, Unsaved
<1>3. ASSUME NEW p \in Procs, NEW a \in Files, Unlink(p, a) PROVE Life!Next
  <2>1. rows' = rows /\ blobs' \subseteq blobs /\ blobs \ {a} \subseteq blobs'
    BY <1>3 DEF Unlink, DeleteBlob
  <2>2. ~Unsaved(a) /\ a \in Given'
    BY <1>2, <1>3 DEF Unlink, Working
  <2>3. \A x \in Files : StageOf(x)' = StageOf(x) \/ Going(x)
    BY <1>1, <2>1, <2>2 DEF StageOf, Going
  <2> QED BY <1>1, <2>3, LetsGo
<1>4. ASSUME NEW p \in Procs, Erase(p) PROVE Life!Next
  <2>1. pc[p] = "unlink" /\ rows' = rows \ held[p] /\ blobs' = blobs
    BY <1>4 DEF Erase
  <2>2. \A a \in held[p] : ~Unsaved(a) /\ a \in Given'
    BY <1>2, <2>1
  <2>3. \A a \in Files : StageOf(a)' = StageOf(a) \/ Going(a)
    BY <1>1, <2>1, <2>2 DEF StageOf, Going
  <2> QED BY <1>1, <2>3, LetsGo
<1>5. CASE UNCHANGED <<rows, blobs>>
  BY <1>1, <1>5, LetsGo DEF StageOf
<1> QED BY <1>3, <1>4, <1>5
   DEF DownloadExpired, Ack, DeleteList, PurgeList, Deleting, Abort, Expire

LEMMA LifeCrash ==
  ASSUME IInv, IInv', Unanswered, Crash
  PROVE  Life!Next
<1> USE AttachmentsAssumption DEF IInv
<1>1. /\ UNCHANGED <<next, rows, blobs, accepted>> /\ Given' = Given
      /\ pc'[Loop] = "idle" /\ next \in Nat
  BY DEF Crash, env, Given, Procs, TypeOK
<1>2. ASSUME NEW a \in Files PROVE StageOf(a)' = StageOf(a) \/ Going(a)
  <2>1. CASE pc[Loop] = "save" /\ a \in held[Loop]
    <3>1. a \notin accepted /\ a \notin rows
      BY <2>1 DEF Unanswered, Saving
    <3> QED BY <1>1, <2>1, <3>1 DEF StageOf, Unsaved, Going
  <2>2. CASE ~(pc[Loop] = "save" /\ a \in held[Loop])
    BY <1>1, <2>2 DEF StageOf, Unsaved
  <2> QED BY <2>1, <2>2
<1> QED BY <1>1, <1>2, LetsGo

\* Each step of Attachments stores one attachment, or lets go of some that are
\* released or were never promised.
THEOREM LifeRefines == Spec => LifeKept
<1>1. Init => Life!Init
  BY AttachmentsAssumption DEF Init, Life!Init, Stage, Files
<1>2. Init => Unanswered
  BY DEF Init, Unanswered, Procs
<1>3. IInv /\ IInv' /\ Unanswered /\ [Next]_vars
        => [Life!Next]_<<Stage, accepted, acked \cup expired \cup doomed>>
  <2>1. ASSUME IInv, IInv', Unanswered, Next PROVE Life!Next
    BY <2>1, LifeUpload, LifeEnd, LifeCrash DEF Next
  <2>2. UNCHANGED vars => UNCHANGED <<Stage, accepted, acked \cup expired \cup doomed>>
    BY DEF vars, Stage
  <2> QED BY <2>1, <2>2
<1>4. IInv /\ Unanswered /\ [Next]_vars => Unanswered'
  BY UnansweredStep
<1> QED BY <1>1, <1>2, <1>3, <1>4, Invariance, PTL DEF Spec, LifeKept, Life!Spec
=============================================================================
