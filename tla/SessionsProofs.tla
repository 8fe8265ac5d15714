--------------------------- MODULE SessionsProofs ---------------------------
(***************************************************************************)
(* Proofs about Sessions, for any threads, devices and number of tokens,   *)
(* with and without requests that die: a refresh token is exchanged once,  *)
(* and dies with its device, except across requests that overlap.          *)
(***************************************************************************)
EXTENDS Sessions, TLAPS

\* Tokens are issued in order, each to a device.
Fresh ==
  /\ \A k \in Tokens : k >= next => token[k] = "none" /\ parent[k] = 0 /\ owner[k] = NoDevice
  /\ \A k \in Tokens : k < next => owner[k] \in Devices /\ parent[k] < next
  /\ \A t \in Threads : tok[t] < next

\* A token that was replaced is not valid; who still holds it overlapped.
Replaced ==
  /\ \A k \in Tokens : parent[k] # 0 => token[parent[k]] # "valid"
  /\ \A t \in Threads, k \in Tokens : tok[t] # 0 /\ parent[k] = tok[t] => tok[t] \in twice
  /\ \A t, q \in Threads : t # q /\ tok[t] # 0 /\ tok[t] = tok[q] => tok[t] \in twice

\* What a request read of its device is so still, or its device was closed.
Steady ==
  live => \A t \in Threads \ crossing :
    \/ pc[t] = "rotate"
    \/ pc[t] = "login" /\ saw[t] = "active"
    => device[dev[t]] = "active"

\* A revocation has found every valid token of its device, but for those that
\* were issued meanwhile.
Found ==
  \A t \in Threads : pc[t] = "revoke" =>
    \A k \in Tokens : token[k] = "valid" /\ owner[k] = dev[t] => k \in hit[t] \cup crossed

\* What was closed or is being revoked had been issued.
Issued ==
  /\ \A k \in closed : k < next
  /\ \A t \in Threads : \A k \in hit[t] : k < next

IInv ==
  /\ TypeOK /\ Fresh /\ Replaced /\ RotatedOnce /\ Steady /\ Found /\ ValidIsUsable
  /\ Issued
  /\ ~live => \A k \in Tokens : token[k] # "valid"

LEMMA InitIInv == Init => IInv
<1> SUFFICES ASSUME Init PROVE IInv
  OBVIOUS
<1> USE SessionsAssumption DEF Init, Tokens
<1>1. TypeOK
  BY DEF TypeOK
<1>2. Fresh /\ Replaced /\ RotatedOnce
  BY DEF Fresh, Replaced, RotatedOnce
<1>3. Steady /\ Found /\ ValidIsUsable
  BY DEF Steady, Found, ValidIsUsable
<1> QED BY <1>1, <1>2, <1>3 DEF IInv, Issued

\* What a request that ends leaves of its session.
Ended(t) ==
  /\ pc' \in [Threads -> {"idle", "login", "check", "rotate", "revoke"}]
  /\ dev' \in [Threads -> Devices \cup {NoDevice}] /\ tok' \in [Threads -> 0..MaxToken]
  /\ saw' \in [Threads -> {"none", "active", "revoked"}] /\ hit' \in [Threads -> SUBSET Tokens]
  /\ pc'[t] = "idle" /\ tok'[t] = 0 /\ hit'[t] = {}
  /\ \A q \in Threads \ {t} :
       pc'[q] = pc[q] /\ dev'[q] = dev[q] /\ tok'[q] = tok[q] /\ saw'[q] = saw[q] /\ hit'[q] = hit[q]

LEMMA FinishEnds == ASSUME TypeOK, NEW t \in Threads, Finish(t) PROVE Ended(t)
<1> USE SessionsAssumption DEF TypeOK, Finish
<1>1. pc' \in [Threads -> {"idle", "login", "check", "rotate", "revoke"}]
      /\ dev' \in [Threads -> Devices \cup {NoDevice}]
      /\ saw' \in [Threads -> {"none", "active", "revoked"}]
  OBVIOUS
<1>2. tok' \in [Threads -> 0..MaxToken] /\ hit' \in [Threads -> SUBSET Tokens]
  OBVIOUS
<1>3. pc'[t] = "idle" /\ tok'[t] = 0 /\ hit'[t] = {}
  OBVIOUS
<1>4. \A q \in Threads \ {t} :
        pc'[q] = pc[q] /\ dev'[q] = dev[q] /\ tok'[q] = tok[q] /\ saw'[q] = saw[q] /\ hit'[q] = hit[q]
  OBVIOUS
<1> QED BY <1>1, <1>2, <1>3, <1>4 DEF Ended

\* Tokens were revoked and nothing else happened to the rows.
Weakened ==
  /\ token' \in [Tokens -> {"none", "valid", "revoked"}]
  /\ \A k \in Tokens : token'[k] = "valid" => token[k] = "valid"
  /\ \A k \in Tokens : k >= next => token'[k] = token[k]
  /\ UNCHANGED <<next, owner, lapsed, parent, twice>>

LEMMA SessionEnds ==
  ASSUME IInv, NEW t \in Threads, Ended(t), Weakened, live' = live, device' = device,
         crossing' = crossing \ {t}, UNCHANGED <<closed, crossed>>
  PROVE  IInv'
<1> USE SessionsAssumption DEF IInv
<1>1. TypeOK'
  BY DEF TypeOK, Ended, Weakened
<1>n. 0 < next /\ next \in Nat
  BY DEF TypeOK
<1>2. Fresh'
  <2>1. \A q \in Threads : tok'[q] < next'
    BY <1>n DEF Fresh, Ended, Weakened
  <2> QED BY <2>1 DEF Fresh, Weakened
<1>3. Replaced' /\ RotatedOnce'
  <2>1. \A k \in Tokens : parent'[k] # 0 => token'[parent'[k]] # "valid"
    <3> SUFFICES ASSUME NEW k \in Tokens, parent[k] # 0 PROVE token'[parent[k]] # "valid"
      BY DEF Weakened
    <3>1. parent[k] \in Tokens
      BY DEF TypeOK, Tokens
    <3> QED BY <3>1 DEF Replaced, Weakened
  <2>2. \A q \in Threads, k \in Tokens :
          tok'[q] # 0 /\ parent'[k] = tok'[q] => tok'[q] \in twice'
    BY DEF Replaced, Ended, Weakened
  <2>3. \A r, q \in Threads : r # q /\ tok'[r] # 0 /\ tok'[r] = tok'[q] => tok'[r] \in twice'
    BY DEF Replaced, Ended, Weakened
  <2> QED BY <2>1, <2>2, <2>3 DEF Replaced, RotatedOnce, Weakened
<1>4. Steady'
  BY DEF Steady, Ended
<1>5. Found' /\ ValidIsUsable'
  BY DEF TypeOK, Found, ValidIsUsable, Ended, Weakened
<1>6. ~live' => \A k \in Tokens : token'[k] # "valid"
  BY DEF Weakened
<1> QED BY <1>1, <1>2, <1>3, <1>4, <1>5, <1>6 DEF Issued, Weakened, Ended

LEMMA IssueStep ==
  ASSUME IInv, NEW t \in Threads, NEW p \in 0..MaxToken, NEW revoke \in SUBSET Tokens,
         Issue(t, p, revoke), live, dev[t] \in Devices,
         \/ p = 0 /\ revoke = {}
         \/ p = tok[t] /\ p \in Tokens /\ revoke = {p},
         device' \in [Devices -> {"none", "active", "revoked"}],
         \A d \in Devices : device[d] = "active" => device'[d] = "active",
         t \notin crossing => device'[dev[t]] = "active"
  PROVE  IInv'
<1> USE SessionsAssumption DEF IInv
<1>1. Ended(t)
  BY FinishEnds DEF Issue
<1>2. /\ next \in Tokens /\ next' = next + 1 /\ live' = live /\ lapsed' = lapsed
      /\ twice' = twice /\ closed' = closed /\ crossing' = crossing \ {t}
  BY DEF Issue, env
<1>3. /\ token' \in [Tokens -> {"none", "valid", "revoked"}] /\ token'[next] = "valid"
      /\ \A k \in Tokens \ {next} : token'[k] = IF k \in revoke THEN "revoked" ELSE token[k]
  BY <1>2 DEF Issue, TypeOK, RevokedIn
<1>4. /\ owner' \in [Tokens -> Devices \cup {NoDevice}] /\ owner'[next] = dev[t]
      /\ \A k \in Tokens \ {next} : owner'[k] = owner[k]
  BY <1>2 DEF Issue, TypeOK
<1>5. /\ parent' \in [Tokens -> 0..MaxToken] /\ parent'[next] = p
      /\ \A k \in Tokens \ {next} : parent'[k] = parent[k]
  BY <1>2 DEF Issue, TypeOK
<1>6. /\ crossed' = crossed \/ crossed' = crossed \cup {next}
      /\ next \in crossed' \/ t \notin crossing
      /\ \A q \in Threads : pc[q] = "revoke" /\ dev[q] = dev[t] => next \in crossed'
  BY DEF Issue
<1>7. TypeOK'
  <2>1. next' \in 1..(MaxToken + 1)
    BY <1>2 DEF Tokens
  <2>2. crossed' \subseteq Tokens /\ crossing' \subseteq Threads
    BY <1>2, <1>6 DEF TypeOK
  <2>3. \A q \in Threads : pc'[q] # "idle" => dev'[q] \in Devices
    BY <1>1 DEF TypeOK, Ended
  <2>4. \A q \in Threads : pc'[q] \in {"check", "rotate"} => tok'[q] \in Tokens
    BY <1>1 DEF TypeOK, Ended
  <2> QED BY <1>1, <1>2, <1>3, <1>4, <1>5, <2>1, <2>2, <2>3, <2>4 DEF TypeOK, Ended
<1>9. p < next
  BY <1>2 DEF Fresh, Tokens
<1>8. Fresh'
  <2>1. \A k \in Tokens : k >= next' =>
          token'[k] = "none" /\ parent'[k] = 0 /\ owner'[k] = NoDevice
    BY <1>2, <1>3, <1>4, <1>5 DEF Fresh, TypeOK, Tokens
  <2>2. \A k \in Tokens : k < next' => owner'[k] \in Devices /\ parent'[k] < next'
    <3> SUFFICES ASSUME NEW k \in Tokens, k < next' PROVE owner'[k] \in Devices /\ parent'[k] < next'
      OBVIOUS
    <3>1. CASE k = next
      BY <1>2, <1>4, <1>5, <1>9, <3>1 DEF Tokens
    <3>2. CASE k # next
      <4>1. k < next /\ parent[k] \in 0..MaxToken
        BY <1>2, <3>2 DEF TypeOK, Tokens
      <4> QED BY <1>2, <1>4, <1>5, <3>2, <4>1 DEF Fresh, Tokens
    <3> QED BY <3>1, <3>2
  <2>3. \A q \in Threads : tok'[q] < next'
    <3> SUFFICES ASSUME NEW q \in Threads PROVE tok'[q] < next'
      OBVIOUS
    <3>1. tok[q] \in 0..MaxToken /\ tok[q] < next
      BY DEF TypeOK, Fresh
    <3>2. tok'[q] \in {0, tok[q]}
      BY <1>1 DEF Ended
    <3> QED BY <1>2, <3>1, <3>2 DEF Tokens
  <2> QED BY <2>1, <2>2, <2>3 DEF Fresh
<1>10. Replaced'
  <2>1. \A k \in Tokens : parent'[k] # 0 => token'[parent'[k]] # "valid"
    BY <1>2, <1>3, <1>5, <1>9 DEF Replaced, Fresh, TypeOK, Tokens
  <2>2. \A q \in Threads, k \in Tokens :
          tok'[q] # 0 /\ parent'[k] = tok'[q] => tok'[q] \in twice'
    BY <1>1, <1>2, <1>5 DEF Replaced, Ended
  <2>3. \A r, q \in Threads : r # q /\ tok'[r] # 0 /\ tok'[r] = tok'[q] => tok'[r] \in twice'
    BY <1>1, <1>2 DEF Replaced, Ended
  <2> QED BY <2>1, <2>2, <2>3 DEF Replaced
<1>11. RotatedOnce'
  BY <1>2, <1>5 DEF RotatedOnce, Replaced
<1>12. Steady'
  BY <1>1, <1>2 DEF Steady, Ended, TypeOK
<1>13. Found'
  BY <1>1, <1>2, <1>3, <1>4, <1>6 DEF Found, Ended
<1>14. ValidIsUsable'
  <2> SUFFICES ASSUME NEW k \in Tokens, token'[k] = "valid", k \notin crossed'
               PROVE  device'[owner'[k]] = "active" /\ k \notin closed'
    BY DEF ValidIsUsable
  <2>1. CASE k = next
    <3>1. next \notin closed
      BY <1>2 DEF Issued, Tokens
    <3>2. t \notin crossing
      BY <1>6, <2>1
    <3> QED BY <1>2, <1>4, <2>1, <3>1, <3>2
  <2>2. CASE k # next
    <3>1. token[k] = "valid" /\ k \notin crossed
      BY <1>3, <1>6, <2>2
    <3>2. device[owner[k]] = "active" /\ k \notin closed
      BY <3>1 DEF ValidIsUsable
    <3>3. owner[k] \in Devices
      BY <3>1 DEF Fresh, TypeOK, Tokens
    <3> QED BY <1>2, <1>4, <2>2, <3>2, <3>3
  <2> QED BY <2>1, <2>2
<1>15. Issued'
  <2>1. \A q \in Threads : hit'[q] \subseteq hit[q]
    BY <1>1 DEF Ended
  <2>2. \A k \in Tokens : k < next => k < next'
    BY <1>2 DEF Tokens
  <2> QED BY <1>2, <2>1, <2>2 DEF Issued, TypeOK
<1> QED BY <1>2, <1>7, <1>8, <1>10, <1>11, <1>12, <1>13, <1>14, <1>15

\* A request that reads goes on: of the others nothing changes.
LEMMA LoginStep ==
  ASSUME IInv, NEW t \in Threads,
         \/ \E d \in Devices : LoginRead(t, d)
         \/ LoginCommit(t) \/ LoginFails(t)
  PROVE  IInv'
<1> USE SessionsAssumption DEF IInv
<1>1. ASSUME NEW d \in Devices, LoginRead(t, d) PROVE IInv'
  <2> USE <1>1 DEF LoginRead, Goto, rows, env, history
  <2>1. TypeOK'
    BY DEF TypeOK
  <2>2. Fresh' /\ Replaced' /\ RotatedOnce' /\ ValidIsUsable' /\ Issued'
    BY DEF Fresh, Replaced, RotatedOnce, ValidIsUsable, Issued
  <2>3. Steady' /\ Found'
    BY DEF TypeOK, Steady, Found
  <2> QED BY <2>1, <2>2, <2>3
<1>2. CASE LoginCommit(t)
  <2> USE <1>2 DEF LoginCommit
  <2>1. dev[t] \in Devices /\ device' \in [Devices -> {"none", "active", "revoked"}]
    BY DEF TypeOK, Admit
  <2>2. \A d \in Devices : device[d] = "active" => device'[d] = "active"
    BY DEF TypeOK, Admit
  <2>3. t \notin crossing => device'[dev[t]] = "active"
    BY <2>1 DEF Admit, Steady, TypeOK
  <2> QED BY <2>1, <2>2, <2>3, IssueStep
<1>3. CASE LoginFails(t)
  <2>1. Ended(t)
    BY <1>3, FinishEnds DEF LoginFails
  <2>2. Weakened
    BY <1>3 DEF LoginFails, Weakened, rows, env, TypeOK
  <2> QED BY <1>3, <2>1, <2>2, SessionEnds DEF LoginFails, rows, env
<1> QED BY <1>1, <1>2, <1>3

LEMMA RotateStep ==
  ASSUME IInv, NEW t \in Threads,
         \/ \E k \in Tokens : RotateRead(t, k) \/ RotateLapsed(t, k)
         \/ RotateCheck(t) \/ RotateRefused(t) \/ RotateCommit(t) \/ RotateFails(t)
  PROVE  IInv'
<1> USE SessionsAssumption DEF IInv
<1>1. ASSUME NEW k \in Tokens, RotateRead(t, k) PROVE IInv'
  <2> USE <1>1 DEF RotateRead, Goto, rows, env
  <2>1. k < next /\ owner[k] \in Devices
    BY DEF TypeOK, Fresh, Tokens
  <2>2. TypeOK'
    <3>1. k \in 0..MaxToken
      BY DEF Tokens
    <3>2. tok' \in [Threads -> 0..MaxToken] /\ dev' \in [Threads -> Devices \cup {NoDevice}]
      BY <2>1, <3>1 DEF TypeOK
    <3>3. \A q \in Threads : pc'[q] # "idle" => dev'[q] \in Devices
      BY <2>1 DEF TypeOK
    <3>4. \A q \in Threads : pc'[q] \in {"check", "rotate"} => tok'[q] \in Tokens
      BY DEF TypeOK
    <3> QED BY <3>2, <3>3, <3>4 DEF TypeOK
  <2>3. Fresh' /\ ValidIsUsable' /\ Issued'
    BY <2>1 DEF TypeOK, Fresh, ValidIsUsable, Issued
  <2>4. Replaced' /\ RotatedOnce'
    <3>1. \A j \in Tokens : parent[j] # k
      BY DEF Replaced, Tokens
    <3>2. /\ tok'[t] = k /\ \A q \in Threads \ {t} : tok'[q] = tok[q]
          /\ twice \subseteq twice' /\ \A q \in Threads \ {t} : tok[q] = k => k \in twice'
      BY DEF TypeOK
    <3>3. parent' = parent /\ token' = token
      OBVIOUS
    <3>4. \A q \in Threads, j \in Tokens :
            tok'[q] # 0 /\ parent'[j] = tok'[q] => tok'[q] \in twice'
      BY <3>1, <3>2, <3>3 DEF Replaced
    <3>5. \A r, q \in Threads : r # q /\ tok'[r] # 0 /\ tok'[r] = tok'[q] => tok'[r] \in twice'
      BY <3>2 DEF Replaced
    <3> QED BY <3>2, <3>3, <3>4, <3>5 DEF Replaced, RotatedOnce
  <2>5. Steady' /\ Found'
    BY DEF TypeOK, Steady, Found
  <2> QED BY <2>2, <2>3, <2>4, <2>5
<1>2. ASSUME NEW k \in Tokens, RotateLapsed(t, k) PROVE IInv'
  <2> USE <1>2 DEF RotateLapsed, env, session, history
  <2>1. Weakened
    BY DEF RevokedIn, Weakened, TypeOK, Fresh
  <2>2. TypeOK' /\ Fresh' /\ Issued'
    <3>1. TypeOK'
      BY <2>1 DEF TypeOK, Weakened
    <3>2. Fresh' /\ Issued'
      BY <2>1 DEF Fresh, Issued, Weakened
    <3> QED BY <3>1, <3>2
  <2>3. Replaced' /\ RotatedOnce'
    <3>1. \A j \in Tokens : parent[j] # 0 => parent[j] \in Tokens
      BY DEF TypeOK, Tokens
    <3>2. \A j \in Tokens : parent'[j] # 0 => token'[parent'[j]] # "valid"
      BY <2>1, <3>1, SMTT(30) DEF Replaced, Weakened
    <3> QED BY <2>1, <3>2, SMTT(30) DEF Replaced, RotatedOnce, Weakened
  <2>4. Steady' /\ Found' /\ ValidIsUsable' /\ (~live' => \A j \in Tokens : token'[j] # "valid")
    BY <2>1, SMTT(30) DEF Steady, Found, ValidIsUsable, Weakened
  <2> QED BY <2>2, <2>3, <2>4
<1>3. CASE RotateCheck(t)
  <2> USE <1>3 DEF RotateCheck, Goto, rows, env, session, history
  <2>1. TypeOK'
    BY DEF TypeOK
  <2>2. Fresh' /\ Replaced' /\ RotatedOnce' /\ ValidIsUsable' /\ Issued'
    BY DEF Fresh, Replaced, RotatedOnce, ValidIsUsable, Issued
  <2>3. Steady' /\ Found'
    BY DEF TypeOK, Steady, Found
  <2> QED BY <2>1, <2>2, <2>3
<1>4. CASE RotateRefused(t)
  <2>1. Ended(t)
    BY <1>4, FinishEnds DEF RotateRefused
  <2>2. tok[t] \in Tokens /\ tok[t] < next
    BY <1>4 DEF RotateRefused, TypeOK, Fresh
  <2>3. Weakened
    BY <1>4, <2>2 DEF RotateRefused, Weakened, RevokedIn, env, TypeOK
  <2> QED BY <1>4, <2>1, <2>3, SessionEnds DEF RotateRefused, env
<1>5. CASE RotateCommit(t)
  <2>1. dev[t] \in Devices /\ tok[t] \in Tokens /\ (t \notin crossing => device[dev[t]] = "active")
    BY <1>5 DEF RotateCommit, TypeOK, Steady
  <2>2. tok[t] \in 0..MaxToken /\ {tok[t]} \in SUBSET Tokens
    BY <2>1 DEF Tokens
  <2>3. device' \in [Devices -> {"none", "active", "revoked"}] /\ device' = device
    BY <1>5 DEF RotateCommit, TypeOK
  <2> QED BY <1>5, <2>1, <2>2, <2>3, IssueStep DEF RotateCommit
<1>6. CASE RotateFails(t)
  <2>1. Ended(t)
    BY <1>6, FinishEnds DEF RotateFails
  <2>2. Weakened
    BY <1>6 DEF RotateFails, Weakened, rows, env, TypeOK
  <2> QED BY <1>6, <2>1, <2>2, SessionEnds DEF RotateFails, rows, env
<1> QED BY <1>1, <1>2, <1>3, <1>4, <1>5, <1>6

\* A logout or a revocation: what was open of its devices is crossed, closed or
\* not valid afterwards.
LEMMA CloseStep ==
  ASSUME IInv,
         \/ \E ds \in SUBSET Devices : Logout(ds)
         \/ \E t \in Threads, d \in Devices : RevokeTokens(t, d)
         \/ \E t \in Threads : RevokeCommit(t)
  PROVE  IInv'
<1> USE SessionsAssumption DEF IInv
<1>1. ASSUME NEW ds \in SUBSET Devices, Logout(ds) PROVE IInv'
  <2> USE <1>1 DEF Logout, Close, env, session
  <2>1. Weakened /\ \A k \in Tokens : token'[k] = "valid" => owner[k] \notin ds
    BY DEF RevokedIn, ValidOf, Weakened, TypeOK, Fresh
  <2>2. TypeOK'
    BY <2>1 DEF TypeOK, Weakened, Issuing
  <2>3. Fresh'
    BY <2>1 DEF Fresh, Weakened
  <2>a. Issued'
    <3>1. \A k \in Tokens : owner[k] \in ds => k < next
      BY DEF Fresh, TypeOK, Tokens
    <3> QED BY <2>1, <3>1 DEF Issued, Weakened
  <2>4. Replaced' /\ RotatedOnce'
    BY <2>1 DEF Replaced, RotatedOnce, Weakened, TypeOK, Tokens
  <2>5. Steady' /\ Found'
    BY <2>1 DEF Steady, Found, Weakened
  <2>6. ValidIsUsable'
    BY <2>1 DEF ValidIsUsable, Weakened
  <2> QED BY <2>1, <2>2, <2>3, <2>a, <2>4, <2>5, <2>6 DEF Weakened
<1>2. ASSUME NEW t \in Threads, NEW d \in Devices, RevokeTokens(t, d) PROVE IInv'
  <2> USE <1>2 DEF RevokeTokens, Goto, rows, env, history
  <2>1. TypeOK'
    BY DEF TypeOK, ValidOf
  <2>2. Fresh' /\ Replaced' /\ RotatedOnce' /\ ValidIsUsable'
    BY DEF Fresh, Replaced, RotatedOnce, ValidIsUsable
  <2>3. Issued'
    <3>1. \A k \in Tokens : token[k] = "valid" => k < next
      BY DEF Fresh, TypeOK, Tokens
    <3> QED BY <3>1 DEF Issued, ValidOf, TypeOK
  <2>4. Steady' /\ Found'
    BY DEF TypeOK, Steady, Found, ValidOf
  <2> QED BY <2>1, <2>2, <2>3, <2>4
<1>3. ASSUME NEW t \in Threads, RevokeCommit(t) PROVE IInv'
  <2> USE <1>3 DEF RevokeCommit, Close, env
  <2>1. Ended(t)
    BY FinishEnds
  <2>2. dev[t] \in Devices /\ hit[t] \in SUBSET Tokens
    BY DEF TypeOK
  <2>3. /\ token' \in [Tokens -> {"none", "valid", "revoked"}]
        /\ \A k \in Tokens : token'[k] = "valid" => token[k] = "valid" /\ k \notin hit[t]
    BY DEF RevokedIn, TypeOK
  <2>4. \A k \in Tokens : token'[k] = "valid" => owner[k] # dev[t] \/ k \in crossed
    BY <2>3 DEF Found
  <2>5. TypeOK'
    BY <2>1, <2>2, <2>3 DEF TypeOK, Ended, Issuing
  <2>6. Weakened
    BY <2>2, <2>3 DEF Weakened, RevokedIn, Issued, TypeOK, Tokens
  <2>7. \A k \in Tokens : owner[k] = dev[t] => k < next
    BY <2>2 DEF Fresh, TypeOK, Tokens
  <2>8. Issued'
    BY <2>1, <2>7 DEF Issued, Ended
  <2>9. Fresh'
    <3>1. \A q \in Threads : tok'[q] < next
      BY <2>1 DEF Fresh, Ended, TypeOK
    <3> QED BY <2>6, <3>1 DEF Fresh, Weakened
  <2>10. Replaced' /\ RotatedOnce'
    <3>1. \A k \in Tokens : parent[k] # 0 => parent[k] \in Tokens
      BY DEF TypeOK, Tokens
    <3>2. \A k \in Tokens : parent'[k] # 0 => token'[parent'[k]] # "valid"
      BY <2>6, <3>1 DEF Replaced, Weakened
    <3>3. \A q \in Threads : tok'[q] \in {0, tok[q]}
      BY <2>1 DEF Ended
    <3> QED BY <2>1, <2>6, <3>2, <3>3 DEF Replaced, RotatedOnce, Weakened, Ended
  <2>11. Steady'
    <3> SUFFICES ASSUME NEW q \in Threads, q \notin crossing', live,
                        pc'[q] = "rotate" \/ (pc'[q] = "login" /\ saw'[q] = "active")
                 PROVE  device'[dev'[q]] = "active"
      BY DEF Steady
    <3>1. q # t /\ pc'[q] = pc[q] /\ dev'[q] = dev[q] /\ saw'[q] = saw[q] /\ q \notin crossing
      BY <2>1 DEF Ended
    <3>2. dev[q] # dev[t] /\ dev[q] \in Devices
      BY <3>1 DEF Issuing, TypeOK
    <3> QED BY <3>1, <3>2 DEF Steady, TypeOK
  <2>12. Found'
    BY <2>1, <2>6 DEF Found, Ended, Weakened
  <2>13. ValidIsUsable'
    BY <2>4, <2>6 DEF ValidIsUsable, Weakened, TypeOK, Fresh
  <2> QED BY <2>5, <2>6, <2>8, <2>9, <2>10, <2>11, <2>12, <2>13 DEF Weakened
<1> QED BY <1>1, <1>2, <1>3

LEMMA OtherStep ==
  ASSUME IInv,
         \/ \E k \in Tokens : Lapse(k)
         \/ DeleteAccount
         \/ \E t \in Threads : Abort(t)
  PROVE  IInv'
<1> USE SessionsAssumption DEF IInv
<1>1. ASSUME NEW k \in Tokens, Lapse(k) PROVE IInv'
  BY <1>1 DEF Lapse, rows, session, history, TypeOK, Fresh, Replaced, RotatedOnce, Steady,
     Found, ValidIsUsable, Issued
<1>2. CASE DeleteAccount
  <2> USE <1>2 DEF DeleteAccount, session, history
  <2>1. TypeOK'
    BY DEF TypeOK
  <2>2. Fresh' /\ Issued' /\ RotatedOnce' /\ Steady' /\ Found' /\ ValidIsUsable'
    BY DEF Fresh, Issued, RotatedOnce, Steady, Found, ValidIsUsable
  <2>3. Replaced'
    <3>1. \A k \in Tokens : parent[k] # 0 => parent[k] \in Tokens
      BY DEF TypeOK, Tokens
    <3> QED BY <3>1 DEF Replaced
  <2> QED BY <2>1, <2>2, <2>3
<1>3. ASSUME NEW t \in Threads, Abort(t) PROVE IInv'
  <2>1. Ended(t)
    BY <1>3, FinishEnds DEF Abort
  <2>2. Weakened
    BY <1>3 DEF Abort, Weakened, rows, env, TypeOK
  <2> QED BY <1>3, <2>1, <2>2, SessionEnds DEF Abort, rows, env
<1> QED BY <1>1, <1>2, <1>3

LEMMA StepIInv == IInv /\ [Next]_vars => IInv'
<1> SUFFICES ASSUME IInv, [Next]_vars PROVE IInv'
  OBVIOUS
<1>1. CASE Next
  <2>1. \A d \in Devices : {d} \in SUBSET Devices
    OBVIOUS
  <2> QED BY <1>1, <2>1, LoginStep, RotateStep, CloseStep, OtherStep DEF Next
<1>2. CASE UNCHANGED vars
  BY <1>2 DEF vars, IInv, TypeOK, Fresh, Replaced, RotatedOnce, Steady, Found, ValidIsUsable,
     Issued
<1> QED BY <1>1, <1>2

\* The tables, the requests and the histories keep their types.
THEOREM TypeCorrect == Spec => []TypeOK
<1>1. Spec => []IInv
  BY InitIInv, StepIInv, PTL DEF Spec
<1>2. IInv => TypeOK
  BY DEF IInv
<1> QED BY <1>1, <1>2, PTL

\* rotate_refresh_token exchanges a token at most once, for any number of
\* threads and tokens, unless two rotations held it at once.
THEOREM ExchangedOnce == Spec => []RotatedOnce
<1>1. Spec => []IInv
  BY InitIInv, StepIInv, PTL DEF Spec
<1>2. IInv => RotatedOnce
  BY DEF IInv
<1> QED BY <1>1, <1>2, PTL

\* A valid token is of an active device and of no session that a logout or
\* revoke_device closed, unless its login or rotation was running then.
THEOREM ValidUsable == Spec => []ValidIsUsable
<1>1. Spec => []IInv
  BY InitIInv, StepIInv, PTL DEF Spec
<1>2. IInv => ValidIsUsable
  BY DEF IInv
<1> QED BY <1>1, <1>2, PTL
=============================================================================
