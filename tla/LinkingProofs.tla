--------------------------- MODULE LinkingProofs ---------------------------
(***************************************************************************)
(* Proofs about Linking, for any threads and bounds, with and without      *)
(* requests that die: what links once, what is used up, what stays revoked.*)
(***************************************************************************)
EXTENDS Linking, TLAPS

Pairing == {"admit", "verify", "spend"}   \* it has a token and a code to spend

\* Links and devices are made in order; a link is started by one request.
Fresh ==
  /\ \A k \in Links : k >= next => pairing[k] = "none" /\ code[k] = "none"
  /\ \A t \in Threads : tok[t] < next /\ num[t] < next /\ dev[t] < free
  /\ \A d \in Devices : d >= free => device[d] = "none" /\ d \notin revoked
  /\ ~live => Made = {} /\ \A k \in Links : pairing[k] = "none" /\ code[k] = "none"

\* A request has what it needs where it is; a device that is being made belongs
\* to one request.
Working ==
  /\ \A t \in Threads :
       /\ pc[t] = "start" => tok[t] \in Links /\ code[tok[t]] = "none"
       /\ pc[t] \in Pairing => tok[t] \in Links /\ num[t] \in Links
       /\ pc[t] \in {"idle", "start", "admit"} => dev[t] = 0
       /\ pc[t] \in {"verify", "spend"} =>
            /\ live /\ dev[t] \in Devices \ Made /\ dev[t] \notin revoked
            /\ \A q \in Threads \ {t} : dev[q] # dev[t]
       /\ pc[t] \in {"name", "issue", "revoke"} =>
            dev[t] \in Devices /\ (live => dev[t] \in Made)
       /\ \A q \in Threads \ {t} :
            /\ pc[t] = "start" /\ pc[q] = "start" => tok[q] # tok[t]
            /\ pc[t] = "start" /\ pc[q] \in Pairing => num[q] # tok[t]
  /\ \A t \in hit : live /\ pc[t] = "revoke"

\* Who holds a token or a code that another holds or spent overlapped with it.
Overlaps ==
  \A t \in Threads : pc[t] \in Pairing =>
    /\ \A d \in Made :
         /\ spent[d][1] = tok[t] => tok[t] \in met
         /\ spent[d][2] = num[t] => num[t] \in metCode
    /\ \A q \in Threads \ {t} : pc[q] \in Pairing =>
         /\ tok[q] = tok[t] => tok[t] \in met
         /\ num[q] = num[t] => num[t] \in metCode

\* A revocation with nothing beside it: all tokens of its device are in its
\* hands, and nobody is to issue one.
Pending ==
  \A t \in Threads : pc[t] = "revoke" /\ t \notin beside =>
    Issuing(dev[t]) = {} /\ dev[t] \notin valid /\ Revoking(dev[t]) \cap hit \subseteq {t}

\* After it nobody is to issue one either.
Closed ==
  \A d \in revoked \ crossed : Issuing(d) = {} /\ device[d] # "active" /\ ~HasToken(d)

IInv ==
  /\ TypeOK /\ Fresh /\ Working /\ Overlaps /\ Pending /\ Closed
  /\ LinkedOnce /\ SpentForDevice

LEMMA InitIInv == Init => IInv
<1> SUFFICES ASSUME Init PROVE IInv
  OBVIOUS
<1> USE LinkingAssumption DEF Init, Links, Devices, Made
<1>1. TypeOK
  BY DEF TypeOK
<1>2. Fresh /\ Working /\ Overlaps /\ Pending /\ Closed
  BY DEF Fresh, Working, Overlaps, Pairing, Pending, Closed
<1>3. LinkedOnce /\ SpentForDevice
  BY DEF LinkedOnce, SpentForDevice
<1> QED BY <1>1, <1>2, <1>3 DEF IInv

\* What a request that ends leaves of its session.
Ended(t) ==
  /\ pc' \in [Threads ->
       {"idle", "start", "admit", "verify", "spend", "name", "issue", "revoke"}]
  /\ tok' \in [Threads -> 0..MaxLink] /\ num' \in [Threads -> 0..MaxLink]
  /\ dev' \in [Threads -> 0..MaxDevice] /\ saw' \in [Threads -> {"none", "active", "revoked"}]
  /\ pc'[t] = "idle" /\ tok'[t] = 0 /\ num'[t] = 0 /\ dev'[t] = 0
  /\ hit' = hit \ {t} /\ beside' = beside \ {t}
  /\ \A q \in Threads \ {t} :
       pc'[q] = pc[q] /\ tok'[q] = tok[q] /\ num'[q] = num[q] /\ dev'[q] = dev[q]

\* No request comes to issue tokens, no token and no revocation appears.
Quieter ==
  /\ revoked' = revoked /\ crossed' = crossed
  /\ \A q \in Threads : pc'[q] \in {"name", "issue"} =>
       pc[q] \in {"name", "issue"} /\ dev'[q] = dev[q]
  /\ \A q \in Threads : pc'[q] = "revoke" =>
       pc[q] = "revoke" /\ dev'[q] = dev[q] /\ (q \in beside => q \in beside')
  /\ valid' \subseteq valid /\ hit' \subseteq hit
  /\ \A d \in Devices : device'[d] = "active" => device[d] = "active"

LEMMA QuietHolds == ASSUME IInv, Quieter PROVE Pending' /\ Closed'
<1> USE DEF IInv, Quieter
<1>1. \A d : Issuing(d)' \subseteq Issuing(d) /\ Revoking(d)' \subseteq Revoking(d)
  BY DEF Issuing, Revoking
<1>2. Pending'
  <2> SUFFICES ASSUME NEW t \in Threads, pc'[t] = "revoke", t \notin beside'
               PROVE  /\ Issuing(dev[t])' = {} /\ dev'[t] \notin valid'
                      /\ Revoking(dev[t])' \cap hit' \subseteq {t}
    BY DEF Pending
  <2>1. pc[t] = "revoke" /\ dev'[t] = dev[t] /\ t \notin beside
    OBVIOUS
  <2>2. /\ Issuing(dev[t]) = {} /\ dev[t] \notin valid
        /\ Revoking(dev[t]) \cap hit \subseteq {t}
    BY <2>1 DEF Pending
  <2>3. Issuing(dev[t])' = {} /\ Revoking(dev[t])' \subseteq Revoking(dev[t])
    BY <2>1, <2>2 DEF Issuing, Revoking
  <2> QED BY <2>1, <2>2, <2>3
<1>3. Closed'
  BY <1>1, Zenon DEF Closed, HasToken, TypeOK
<1> QED BY <1>2, <1>3

\* The others go on working after a request that ended.
LEMMA OthersWork ==
  ASSUME IInv, NEW t \in Threads, Ended(t), live' = live, Made' = Made,
         revoked' \subseteq revoked \cup Made,
         \A q \in Threads \ {t} : pc[q] = "start" => code'[tok[q]] = "none"
  PROVE  Working'
<1> USE DEF IInv, Pairing
<1>1. 0 \notin Devices /\ pc'[t] = "idle" /\ dev'[t] = 0
  BY DEF Devices, Ended
<1>2. \A q \in Threads \ {t} : pc'[q] = pc[q] /\ tok'[q] = tok[q] /\ num'[q] = num[q]
                               /\ dev'[q] = dev[q]
  BY DEF Ended
<1>3. \A q \in hit' : live' /\ pc'[q] = "revoke"
  BY DEF Working, Ended, TypeOK
<1>4. SUFFICES ASSUME NEW q \in Threads \ {t}
              PROVE  /\ pc[q] = "start" => tok[q] \in Links /\ code'[tok[q]] = "none"
                     /\ pc[q] \in Pairing => tok[q] \in Links /\ num[q] \in Links
                     /\ pc[q] \in {"idle", "start", "admit"} => dev[q] = 0
                     /\ pc[q] \in {"verify", "spend"} =>
                          /\ live /\ dev[q] \in Devices \ Made /\ dev[q] \notin revoked'
                          /\ \A p \in Threads \ {q} : dev'[p] # dev[q]
                     /\ pc[q] \in {"name", "issue", "revoke"} =>
                          dev[q] \in Devices /\ (live => dev[q] \in Made)
                     /\ \A p \in Threads \ {q} :
                          /\ pc[q] = "start" /\ pc'[p] = "start" => tok'[p] # tok[q]
                          /\ pc[q] = "start" /\ pc'[p] \in Pairing => num'[p] # tok[q]
  BY <1>1, <1>2, <1>3 DEF Working
<1>5. \A p \in Threads \ {q} :
        /\ pc[q] = "start" /\ pc'[p] = "start" => tok'[p] # tok[q]
        /\ pc[q] = "start" /\ pc'[p] \in Pairing => num'[p] # tok[q]
  BY <1>1, <1>2 DEF Working
<1>6. pc[q] \in {"verify", "spend"} =>
        /\ live /\ dev[q] \in Devices \ Made /\ dev[q] \notin revoked'
        /\ \A p \in Threads \ {q} : dev'[p] # dev[q]
  BY <1>1, <1>2 DEF Working
<1> QED BY <1>5, <1>6 DEF Working

LEMMA FinishEnds == ASSUME TypeOK, NEW t \in Threads, Finish(t) PROVE Ended(t)
<1> USE LinkingAssumption DEF TypeOK, Finish
<1>1. pc' \in [Threads ->
        {"idle", "start", "admit", "verify", "spend", "name", "issue", "revoke"}]
      /\ saw' \in [Threads -> {"none", "active", "revoked"}]
  OBVIOUS
<1>2. tok' \in [Threads -> 0..MaxLink] /\ num' \in [Threads -> 0..MaxLink]
      /\ dev' \in [Threads -> 0..MaxDevice]
  OBVIOUS
<1>3. pc'[t] = "idle" /\ tok'[t] = 0 /\ num'[t] = 0 /\ dev'[t] = 0
  OBVIOUS
<1>4. \A q \in Threads \ {t} :
        pc'[q] = pc[q] /\ tok'[q] = tok[q] /\ num'[q] = num[q] /\ dev'[q] = dev[q]
  OBVIOUS
<1>5. hit' = hit \ {t} /\ beside' = beside \ {t}
  OBVIOUS
<1> QED BY <1>1, <1>2, <1>3, <1>4, <1>5 DEF Ended

\* A request that ends without writing.
LEMMA SessionEnds ==
  ASSUME IInv, NEW t \in Threads, Ended(t), UNCHANGED <<links, devices, live, history>>
  PROVE  IInv'
<1> USE LinkingAssumption DEF IInv, links, devices, history, closing
<1>1. TypeOK'
  BY DEF TypeOK, Ended
<1>2. 0 < next /\ 0 < free /\ Made' = Made
  BY DEF TypeOK, Made
<1>3. Fresh'
  BY <1>2 DEF Fresh, Ended
<1>4. Working'
  BY <1>2, OthersWork DEF Working, IInv
<1>5. Overlaps'
  BY <1>2 DEF Overlaps, Ended, Pairing
<1>6. Pending' /\ Closed'
  <2>1. Quieter
    BY DEF Quieter, Ended, closing
  <2> QED BY <2>1, QuietHolds DEF IInv
<1>7. LinkedOnce' /\ SpentForDevice'
  BY <1>2 DEF LinkedOnce, SpentForDevice
<1> QED BY <1>1, <1>3, <1>4, <1>5, <1>6, <1>7

LEMMA StartStep ==
  ASSUME IInv, NEW t \in Threads, StartToken(t) \/ StartCode(t)
  PROVE  IInv'
<1> USE LinkingAssumption DEF IInv
<1>1. CASE StartToken(t)
  <2> USE <1>1 DEF StartToken, Goto, devices, history, closing
  <2>1. next \in Links /\ next' = next + 1 /\ next \in 0..MaxLink
    BY DEF Links
  <2>2. TypeOK'
    BY <2>1 DEF TypeOK, Links
  <2>3. Made' = Made
    BY DEF Made
  <2>4. Fresh'
    BY <2>1, <2>3 DEF Fresh, TypeOK, Links
  <2>5. Working'
    BY <2>1, <2>3 DEF Working, Fresh, TypeOK, Pairing, Links
  <2>6. Overlaps'
    BY <2>3 DEF Overlaps, TypeOK, Pairing
  <2>7. LinkedOnce' /\ Pending' /\ Closed'
    <3>1. Quieter
      BY DEF Quieter, TypeOK, closing
    <3> QED BY <2>3, <3>1, QuietHolds DEF LinkedOnce
  <2>8. SpentForDevice'
    BY <2>1, <2>3 DEF SpentForDevice, Fresh, TypeOK
  <2> QED BY <2>2, <2>4, <2>5, <2>6, <2>7, <2>8
<1>2. CASE StartCode(t)
  <2> USE <1>2 DEF StartCode, devices, history, closing
  <2>1. Ended(t) /\ tok[t] \in Links /\ tok[t] < next /\ code[tok[t]] = "none"
    BY FinishEnds DEF Working, Fresh
  <2>2. TypeOK'
    BY <2>1 DEF TypeOK, Ended
  <2>3. Made' = Made /\ 0 < next /\ 0 < free
    BY DEF Made, TypeOK
  <2>4. Fresh'
    <3>1. \A k \in Links : k >= next => code'[k] = code[k]
      BY <2>1 DEF TypeOK, Links
    <3>2. \A q \in Threads : tok'[q] < next /\ num'[q] < next /\ dev'[q] < free
      BY <2>1, <2>3 DEF Fresh, Ended
    <3> QED BY <2>3, <3>1, <3>2 DEF Fresh
  <2>5. Working'
    <3>1. \A q \in Threads \ {t} : pc[q] = "start" =>
            tok[q] # tok[t] /\ tok[q] \in Links /\ code[tok[q]] = "none"
      BY DEF Working
    <3>2. \A q \in Threads \ {t} : pc[q] = "start" => code'[tok[q]] = "none"
      BY <2>1, <3>1 DEF TypeOK
    <3> QED BY <2>1, <2>3, <3>2, OthersWork
  <2>6. Overlaps'
    BY <2>1, <2>3 DEF Overlaps, Ended, Pairing
  <2>7. Pending' /\ Closed'
    <3>1. Quieter
      BY <2>1 DEF Quieter, Ended, closing
    <3> QED BY <3>1, QuietHolds
  <2>8. LinkedOnce'
    BY <2>3 DEF LinkedOnce
  <2>9. SpentForDevice'
    BY <2>1, <2>3 DEF SpentForDevice, TypeOK
  <2> QED BY <2>2, <2>4, <2>5, <2>6, <2>7, <2>8, <2>9
<1> QED BY <1>1, <1>2

\* The tokens of a device are issued: whoever revokes it has this one beside it.
LEMMA IssueStep == ASSUME IInv, NEW t \in Threads, IssueTokens(t) PROVE IInv'
<1> USE LinkingAssumption DEF IInv, IssueTokens, links, history, closing
<1>1. Ended(t) /\ dev[t] \in Made /\ dev[t] \in Devices /\ t \in Issuing(dev[t])
  BY FinishEnds DEF Working, Issuing
<1>2. TypeOK'
  BY <1>1 DEF TypeOK, Ended
<1>3. Made' = Made /\ 0 < next /\ 0 < free
  BY <1>1 DEF Made, TypeOK
<1>4. Fresh'
  BY <1>1, <1>3 DEF Fresh, TypeOK, Ended, Made
<1>5. Working'
  BY <1>1, <1>3, OthersWork DEF Working
<1>6. Overlaps'
  BY <1>1, <1>3 DEF Overlaps, Ended, Pairing
<1>7. LinkedOnce' /\ SpentForDevice'
  BY <1>3 DEF LinkedOnce, SpentForDevice
<1>8. \A d : Issuing(d)' \subseteq Issuing(d) /\ Revoking(d)' = Revoking(d)
  BY <1>1 DEF Issuing, Revoking, Ended
<1>9. Revoking(dev[t]) \cap hit' = Revoking(dev[t]) \cap hit /\ hit' = hit
  BY <1>1 DEF Working, Ended
<1>10. Pending'
  <2> SUFFICES ASSUME NEW q \in Threads, pc'[q] = "revoke", q \notin beside'
               PROVE  /\ Issuing(dev[q])' = {} /\ dev'[q] \notin valid'
                      /\ Revoking(dev[q])' \cap hit' \subseteq {q}
    BY DEF Pending
  <2>1. q # t /\ pc[q] = "revoke" /\ q \notin beside /\ dev'[q] = dev[q]
    BY <1>1 DEF Ended
  <2>2. Issuing(dev[q]) = {} /\ dev[q] \notin valid /\ Revoking(dev[q]) \cap hit \subseteq {q}
    BY <2>1 DEF Pending
  <2>3. dev[q] # dev[t]
    BY <1>1, <2>2
  <2>4. Issuing(dev[q])' = {} /\ Revoking(dev[q])' = Revoking(dev[q])
    BY <1>1, <2>1, <2>2 DEF Issuing, Revoking, Ended
  <2> QED BY <1>9, <2>1, <2>2, <2>3, <2>4
<1>11. Closed'
  <2>1. \A d \in revoked \ crossed : d \in Devices /\ d # dev[t]
    BY <1>1 DEF Closed, TypeOK
  <2>2. \A d \in revoked \ crossed : device'[d] # "active" /\ d \notin valid'
    BY <2>1 DEF Closed, HasToken, TypeOK
  <2> QED BY <1>8, <1>9, <2>2 DEF Closed, HasToken
<1> QED BY <1>2, <1>4, <1>5, <1>6, <1>7, <1>10, <1>11

\* A login or a rotation comes to issue tokens: a login says so, a rotation finds
\* the device active, and the revocations under way have it beside them.
LEMMA EnterStep ==
  ASSUME IInv, NEW t \in Threads, NEW d \in Devices, LoginRead(t, d) \/ RotateRead(t, d)
  PROVE  IInv'
<1> USE LinkingAssumption DEF IInv, Enter, Goto, links, devices
<1>1. /\ Enter(t, d) /\ d \in Made /\ revoked' \subseteq revoked
      /\ d \notin revoked' \/ d \in crossed
  BY DEF LoginRead, RotateRead, Made, Closed
<1>2. d \in 1..MaxDevice /\ d \in 0..MaxDevice /\ live /\ d < free
      /\ device[d] \in {"none", "active", "revoked"}
  <2>1. device[d] # "none" /\ device[d] \in {"none", "active", "revoked"} /\ free \in Nat
    BY <1>1 DEF Made, TypeOK
  <2>2. live
    BY <1>1 DEF Fresh
  <2>3. d < free
    BY <2>1 DEF Fresh, Devices
  <2> QED BY <2>1, <2>2, <2>3 DEF Devices
<1>3. TypeOK'
  BY <1>1, <1>2 DEF TypeOK, Revoking
<1>4. Made' = Made
  BY <1>1 DEF Made
<1>5. pc'[t] = "issue" /\ dev'[t] = d /\ pc[t] = "idle"
      /\ \A q \in Threads \ {t} : pc'[q] = pc[q] /\ dev'[q] = dev[q]
  BY <1>1 DEF TypeOK
<1>6. Fresh'
  <2>1. UNCHANGED <<next, free, pairing, code, tok, num, live, device>> /\ revoked' \subseteq revoked
    BY <1>1
  <2>2. \A q \in Threads : dev'[q] < free
    BY <1>2, <1>5 DEF Fresh
  <2> QED BY <1>4, <2>1, <2>2 DEF Fresh
<1>7. Working'
  <2>1. /\ UNCHANGED <<live, code, tok, num, hit>> /\ d \notin Devices \ Made
        /\ t \notin hit /\ \A q \in hit : pc'[q] = "revoke"
    BY <1>1, <1>5 DEF Working
  <2>2. ASSUME NEW q \in Threads, pc'[q] \in {"verify", "spend"}
        PROVE  /\ dev'[q] \in Devices \ Made /\ dev'[q] \notin revoked'
               /\ \A s \in Threads \ {q} : dev'[s] # dev'[q]
    BY <1>1, <1>5, <2>1, <2>2 DEF Working
  <2> QED BY <1>1, <1>4, <1>5, <2>1, <2>2 DEF Working, Pairing
<1>8. Overlaps'
  BY <1>1, <1>4, <1>5 DEF Overlaps, Pairing
<1>9. LinkedOnce' /\ SpentForDevice'
  BY <1>1, <1>4 DEF LinkedOnce, SpentForDevice
<1>10. \A e : Revoking(e)' = Revoking(e) /\ (e # d => Issuing(e)' = Issuing(e))
  BY <1>5 DEF Revoking, Issuing
<1>11. Pending'
  <2> SUFFICES ASSUME NEW q \in Threads, pc'[q] = "revoke", q \notin beside'
               PROVE  /\ Issuing(dev[q])' = {} /\ dev'[q] \notin valid'
                      /\ Revoking(dev[q])' \cap hit' \subseteq {q}
    BY DEF Pending
  <2>1. q # t /\ pc[q] = "revoke" /\ q \notin beside /\ dev'[q] = dev[q] /\ dev[q] # d
    BY <1>1, <1>5 DEF Revoking
  <2>2. Issuing(dev[q])' = Issuing(dev[q]) /\ Revoking(dev[q])' = Revoking(dev[q])
    BY <1>5, <2>1 DEF Revoking, Issuing
  <2> QED BY <1>1, <2>1, <2>2 DEF Pending
<1>12. Closed'
  BY <1>1, <1>10 DEF Closed, HasToken
<1> QED BY <1>3, <1>6, <1>7, <1>8, <1>9, <1>11, <1>12

\* A revocation takes the tokens of its device in hand; it waits for another one
\* that has them.
LEMMA RevokeStep ==
  ASSUME IInv, NEW t \in Threads, NEW d \in Devices, RevokeTokens(t, d)
  PROVE  IInv'
<1> USE LinkingAssumption DEF IInv, RevokeTokens, Goto, links
<1>1. /\ d \in 0..MaxDevice /\ d \in Made /\ live /\ d < free
      /\ revoked' = revoked /\ crossed' = crossed
  <2>1. d \in Made /\ device[d] # "none" /\ free \in Nat
    BY DEF Made, TypeOK
  <2>2. live
    BY <2>1 DEF Fresh
  <2>3. d < free
    BY <2>1 DEF Fresh, Devices
  <2> QED BY <2>1, <2>2, <2>3 DEF Devices
<1>2. TypeOK'
  BY <1>1 DEF TypeOK
<1>3. Made' = Made
  BY DEF Made
<1>4. pc'[t] = "revoke" /\ dev'[t] = d /\ pc[t] = "idle" /\ dev[t] = 0
      /\ \A q \in Threads \ {t} : pc'[q] = pc[q] /\ dev'[q] = dev[q]
  BY DEF TypeOK, Working
<1>5. Fresh'
  BY <1>1, <1>3, <1>4 DEF Fresh
<1>6. Working'
  BY <1>1, <1>3, <1>4 DEF Working, Pairing
<1>7. Overlaps'
  BY <1>3, <1>4 DEF Overlaps, Pairing
<1>8. LinkedOnce' /\ SpentForDevice'
  BY <1>3 DEF LinkedOnce, SpentForDevice
<1>9. /\ \A e : Issuing(e)' = Issuing(e) /\ (e # d => Revoking(e)' = Revoking(e))
      /\ Revoking(d)' = Revoking(d) \cup {t} /\ t \notin hit
  BY <1>4 DEF Issuing, Revoking, Working
<1>10. Pending'
  <2> SUFFICES ASSUME NEW q \in Threads, pc'[q] = "revoke", q \notin beside'
               PROVE  /\ Issuing(dev[q])' = {} /\ dev'[q] \notin valid'
                      /\ Revoking(dev[q])' \cap hit' \subseteq {q}
    BY DEF Pending
  <2>1. CASE q = t
    BY <1>4, <1>9, <2>1 DEF Issuing, Revoking
  <2>2. CASE q # t
    <3>1. /\ pc[q] = "revoke" /\ q \notin beside /\ dev'[q] = dev[q]
          /\ Issuing(dev[q]) = {} /\ dev[q] \notin valid
          /\ Revoking(dev[q]) \cap hit \subseteq {q}
      BY <1>4, <2>2 DEF Pending
    <3>2. Issuing(dev[q])' = {} /\ dev'[q] \notin valid'
      BY <1>4, <3>1 DEF Issuing
    <3>3. CASE dev[q] = d
      <4>1. hit' = hit /\ Revoking(dev[q])' = Revoking(d) \cup {t}
        BY <1>4, <1>9, <3>1, <3>3 DEF Revoking
      <4> QED BY <1>9, <3>2, <4>1
    <3>4. CASE dev[q] # d
      <4>1. Revoking(dev[q])' = Revoking(dev[q]) /\ t \notin Revoking(dev[q])
        BY <1>4, <3>1, <3>4 DEF Revoking
      <4> QED BY <3>1, <3>2, <4>1
    <3> QED BY <3>3, <3>4
  <2> QED BY <2>1, <2>2
<1>11. Closed'
  <2>1. SUFFICES ASSUME NEW e \in revoked \ crossed
                PROVE  Issuing(e)' = {} /\ device'[e] # "active" /\ ~HasToken(e)'
    BY <1>1 DEF Closed
  <2>2. /\ Issuing(e) = {} /\ device[e] # "active" /\ e \notin valid
        /\ Revoking(e) \cap hit = {}
    BY DEF Closed, HasToken
  <2>3. e \notin valid' /\ Revoking(e)' \cap hit' = {}
    <3>1. CASE e = d
      BY <1>9, <2>2, <3>1
    <3>2. CASE e # d
      <4>1. t \notin Revoking(e)
        BY <1>4 DEF Revoking
      <4> QED BY <1>9, <2>2, <3>2, <4>1
    <3> QED BY <3>1, <3>2
  <2> QED BY <1>9, <2>2, <2>3 DEF HasToken
<1> QED BY <1>2, <1>5, <1>6, <1>7, <1>8, <1>10, <1>11

\* It commits: with nothing beside it no token is left that works.
LEMMA RevokedStep == ASSUME IInv, NEW t \in Threads, RevokeCommit(t) PROVE IInv'
<1> USE LinkingAssumption DEF IInv, RevokeCommit, links
<1>1. Ended(t) /\ dev[t] \in Made /\ dev[t] \in Devices /\ dev[t] < free
  BY FinishEnds DEF Working, Fresh
<1>2. TypeOK'
  BY <1>1 DEF TypeOK, Ended
<1>3. Made' = Made /\ 0 < next /\ 0 < free
  BY <1>1 DEF Made, TypeOK
<1>4. Fresh'
  BY <1>1, <1>3 DEF Fresh, TypeOK, Ended, Made
<1>5. Working'
  BY <1>1, <1>3, OthersWork DEF Working
<1>6. Overlaps'
  BY <1>1, <1>3 DEF Overlaps, Ended, Pairing
<1>7. LinkedOnce' /\ SpentForDevice'
  BY <1>3 DEF LinkedOnce, SpentForDevice
<1>8. \A d : Issuing(d)' \subseteq Issuing(d) /\ Revoking(d)' \subseteq Revoking(d)
  BY <1>1 DEF Issuing, Revoking, Ended
<1>9. Pending'
  <2> SUFFICES ASSUME NEW q \in Threads, pc'[q] = "revoke", q \notin beside'
               PROVE  /\ Issuing(dev[q])' = {} /\ dev'[q] \notin valid'
                      /\ Revoking(dev[q])' \cap hit' \subseteq {q}
    BY DEF Pending
  <2>1. q # t /\ pc[q] = "revoke" /\ q \notin beside /\ dev'[q] = dev[q]
    BY <1>1 DEF Ended
  <2>2. /\ Issuing(dev[q])' \subseteq Issuing(dev[q])
        /\ Revoking(dev[q])' \subseteq Revoking(dev[q])
    BY <1>1, <2>1 DEF Issuing, Revoking, Ended
  <2> QED BY <1>1, <2>1, <2>2 DEF Pending, Ended
<1>10. Closed'
  <2>1. SUFFICES ASSUME NEW d \in revoked' \ crossed'
                PROVE  Issuing(d)' = {} /\ device'[d] # "active" /\ ~HasToken(d)'
    BY DEF Closed
  <2>2. CASE d = dev[t]
    <3>1. t \notin beside /\ pc[t] = "revoke"
      BY <2>2
    <3>2. Issuing(d) = {} /\ d \notin valid /\ Revoking(d) \cap hit \subseteq {t}
      BY <2>2, <3>1 DEF Pending
    <3>3. device'[d] = "revoked" /\ hit' = hit \ {t}
      BY <1>1, <2>2 DEF TypeOK, Ended
    <3> QED BY <1>8, <3>2, <3>3 DEF HasToken
  <2>3. CASE d # dev[t]
    <3>1. d \in revoked \ crossed /\ d \in Devices
      BY <2>3 DEF TypeOK
    <3>2. Issuing(d) = {} /\ device[d] # "active" /\ ~HasToken(d)
      BY <3>1 DEF Closed
    <3>3. device'[d] = device[d] /\ hit' \subseteq hit
      BY <1>1, <2>3, <3>1 DEF TypeOK, Ended
    <3> QED BY <1>8, <3>2, <3>3 DEF HasToken
  <2> QED BY <2>2, <2>3
<1> QED BY <1>2, <1>4, <1>5, <1>6, <1>7, <1>9, <1>10

\* A request dies.  The tokens a revocation had in hand are valid again: no other
\* revocation of the device counted on them.
LEMMA AbortStep == ASSUME IInv, NEW t \in Threads, Abort(t) PROVE IInv'
<1> USE LinkingAssumption DEF IInv, Abort, links, history, closing
<1>1. Ended(t)
  BY FinishEnds
<1>2. CASE t \notin hit
  BY <1>1, <1>2, SessionEnds DEF devices, links, history, closing
<1>3. CASE t \in hit
  <2>1. pc[t] = "revoke" /\ dev[t] \in Devices /\ valid' = valid \cup {dev[t]}
        /\ t \in Revoking(dev[t])
    BY <1>3 DEF Working, Revoking
  <2>2. TypeOK'
    BY <1>1, <2>1 DEF TypeOK, Ended
  <2>3. 0 < next /\ 0 < free /\ Made' = Made
    BY DEF TypeOK, Made
  <2>4. Fresh'
    BY <1>1, <2>3 DEF Fresh, Ended
  <2>5. Working'
    BY <1>1, <2>3, OthersWork DEF Working
  <2>6. Overlaps'
    BY <1>1, <2>3 DEF Overlaps, Ended, Pairing
  <2>7. LinkedOnce' /\ SpentForDevice'
    BY <2>3 DEF LinkedOnce, SpentForDevice
  <2>8. \A d : Issuing(d)' \subseteq Issuing(d) /\ Revoking(d)' \subseteq Revoking(d)
    BY <1>1 DEF Issuing, Revoking, Ended
  <2>9. Pending'
    <3> SUFFICES ASSUME NEW q \in Threads, pc'[q] = "revoke", q \notin beside'
                 PROVE  /\ Issuing(dev[q])' = {} /\ dev'[q] \notin valid'
                        /\ Revoking(dev[q])' \cap hit' \subseteq {q}
      BY DEF Pending
    <3>1. q # t /\ pc[q] = "revoke" /\ q \notin beside /\ dev'[q] = dev[q]
      BY <1>1 DEF Ended
    <3>2. /\ Issuing(dev[q]) = {} /\ dev[q] \notin valid
          /\ Revoking(dev[q]) \cap hit \subseteq {q}
      BY <3>1 DEF Pending
    <3>3. dev[q] # dev[t]
      BY <1>3, <2>1, <3>1, <3>2
    <3>4. /\ Issuing(dev[q])' \subseteq Issuing(dev[q])
          /\ Revoking(dev[q])' \subseteq Revoking(dev[q])
      BY <1>1, <3>1 DEF Issuing, Revoking, Ended
    <3> QED BY <1>1, <2>1, <3>1, <3>2, <3>3, <3>4 DEF Ended
  <2>10. Closed'
    <3>1. SUFFICES ASSUME NEW d \in revoked \ crossed
                  PROVE  Issuing(d)' = {} /\ device'[d] # "active" /\ ~HasToken(d)'
      BY DEF Closed
    <3>2. Issuing(d) = {} /\ device[d] # "active" /\ ~HasToken(d)
      BY DEF Closed
    <3>3. d # dev[t]
      BY <1>3, <2>1, <3>2 DEF HasToken
    <3> QED BY <1>1, <2>1, <2>8, <3>2, <3>3 DEF HasToken, Ended
  <2> QED BY <2>2, <2>4, <2>5, <2>6, <2>7, <2>9, <2>10
<1> QED BY <1>2, <1>3

LEMMA CompleteStep ==
  ASSUME IInv, NEW t \in Threads, Completing(t)
  PROVE  IInv'
<1> USE LinkingAssumption DEF IInv
<1>1. ASSUME NEW k \in Links, NEW c \in Links, CompleteRead(t, k, c) PROVE IInv'
  <2> USE <1>1 DEF CompleteRead, Goto, links, devices, closing
  <2>1. /\ pairing[k] = "open" /\ code[c] = "open" /\ live /\ k < next
        /\ k \in 0..MaxLink /\ c \in 0..MaxLink /\ Made' = Made
    BY DEF Accepted, Candidates, Fresh, Links, Made, TypeOK
  <2>2. TypeOK'
    BY <2>1 DEF TypeOK
  <2>3. Fresh' /\ Pending' /\ Closed'
    <3>1. Quieter
      BY DEF Quieter, TypeOK, closing
    <3> QED BY <2>1, <3>1, QuietHolds DEF Fresh, TypeOK
  <2>4. Working'
    BY <2>1 DEF Working, TypeOK, Pairing, Devices
  <2>5. \A d \in Made : spent[d][1] # k /\ spent[d][2] # c
    BY <2>1 DEF SpentForDevice
  <2>6. Overlaps'
    <3>1. tok'[t] = k /\ num'[t] = c
          /\ \A q \in Threads \ {t} : tok'[q] = tok[q] /\ num'[q] = num[q] /\ pc'[q] = pc[q]
      BY DEF TypeOK
    <3>2. met \subseteq met' /\ metCode \subseteq metCode'
          /\ \A q \in Threads \ {t} : (tok[q] = k => k \in met') /\ (num[q] = c => c \in metCode')
      OBVIOUS
    <3> QED BY <2>1, <2>5, <3>1, <3>2 DEF Overlaps
  <2>7. LinkedOnce' /\ SpentForDevice'
    BY <2>1 DEF LinkedOnce, SpentForDevice
  <2> QED BY <2>2, <2>3, <2>4, <2>6, <2>7
<1>2. CASE CompleteInsert(t)
  <2> USE <1>2 DEF CompleteInsert, Goto, links, history, closing
  <2>1. free \in Devices \ Made /\ free' = free + 1 /\ free \in 0..MaxDevice /\ Made' = Made
        /\ free \notin revoked
    BY DEF Devices, Fresh, Made, TypeOK
  <2>2. TypeOK'
    <3>1. free' \in 1..(MaxDevice + 1)
      BY <2>1 DEF Devices
    <3>2. dev' \in [Threads -> 0..MaxDevice]
      BY <2>1 DEF TypeOK
    <3> QED BY <3>1, <3>2 DEF TypeOK
  <2>3. Fresh'
    BY <2>1, SMTT(30) DEF Fresh, TypeOK, Devices
  <2>4. Working'
    BY <2>1, SMTT(30) DEF Working, Fresh, TypeOK, Pairing, Devices
  <2>5. Overlaps'
    BY <2>1 DEF Overlaps, TypeOK, Pairing
  <2>6. LinkedOnce' /\ SpentForDevice'
    BY <2>1 DEF LinkedOnce, SpentForDevice
  <2>7. Pending' /\ Closed'
    <3>1. Quieter
      BY DEF Quieter, TypeOK, closing
    <3> QED BY <3>1, QuietHolds
  <2> QED BY <2>2, <2>3, <2>4, <2>5, <2>6, <2>7
<1>3. CASE CompleteVerify(t) \/ CompleteName(t)
  <2> USE <1>3 DEF CompleteVerify, CompleteName, Goto, links, devices, session, history, closing
  <2>1. Made' = Made
    BY DEF Made
  <2>2. TypeOK'
    <3>1. dev[t] \in Devices \/ pc[t] = "verify"
      BY DEF Working
    <3> QED BY <3>1 DEF TypeOK
  <2>3. Fresh' /\ Pending' /\ Closed'
    <3>1. Quieter
      BY DEF Quieter, TypeOK, closing
    <3> QED BY <2>1, <3>1, QuietHolds DEF Fresh
  <2>4. Working' /\ Overlaps'
    BY <2>1 DEF Working, Overlaps, TypeOK, Pairing
  <2>5. LinkedOnce' /\ SpentForDevice'
    BY <2>1 DEF LinkedOnce, SpentForDevice
  <2> QED BY <2>2, <2>3, <2>4, <2>5
<1>4. CASE CompleteSpend(t)
  <2> USE <1>4 DEF CompleteSpend, Goto, session, closing
  <2>1. /\ tok[t] \in Links /\ num[t] \in Links /\ live /\ dev[t] \in Devices \ Made
        /\ tok[t] < next /\ num[t] < next /\ dev[t] < free /\ dev[t] \notin revoked
        /\ \A q \in Threads \ {t} : dev[q] # dev[t]
    BY DEF Working, Fresh, Pairing
  <2>2. TypeOK'
    BY <2>1 DEF TypeOK
  <2>3. Made' = Made \cup {dev[t]}
    BY <2>1 DEF Made, TypeOK
  <2>4. /\ spent'[dev[t]] = <<tok[t], num[t]>>
        /\ \A d \in Devices \ {dev[t]} : spent'[d] = spent[d] /\ device'[d] = device[d]
    BY <2>1 DEF TypeOK
  <2>6. Fresh'
    BY <2>1, <2>3, <2>4 DEF Fresh, TypeOK
  <2>7. Working'
    <3>1. pc'[t] = "name" /\ \A q \in Threads \ {t} : pc'[q] = pc[q] /\ dev[q] # dev[t]
      BY <2>1 DEF TypeOK
    <3>2. \A q \in Threads \ {t} : pc[q] = "start" => code'[tok[q]] = "none"
      BY <2>1 DEF Working, TypeOK, Pairing
    <3> QED BY <2>1, <2>3, <3>1, <3>2 DEF Working, Pairing
  <2>8. Overlaps'
    BY <2>1, <2>3, <2>4 DEF Overlaps, TypeOK, Pairing, Made
  <2>9. Pending' /\ Closed'
    <3>1. /\ revoked' = revoked /\ crossed' = crossed /\ valid' = valid /\ hit' = hit
          /\ dev' = dev /\ beside' = beside
      BY DEF closing
    <3>2. pc'[t] = "name" /\ \A q \in Threads \ {t} : pc'[q] = pc[q]
      BY DEF TypeOK
    <3>3. \A d : Revoking(d)' = Revoking(d)
      BY <3>1, <3>2 DEF Revoking
    <3>4. \A d : d # dev[t] => Issuing(d)' = Issuing(d)
      BY <3>1, <3>2 DEF Issuing
    <3>5. \A q \in Threads : pc'[q] = "revoke" =>
            pc[q] = "revoke" /\ dev[q] # dev[t] /\ Revoking(dev[q])' = Revoking(dev[q])
            /\ Issuing(dev[q])' = Issuing(dev[q])
      BY <2>1, <3>1, <3>2 DEF Revoking, Issuing
    <3>6. Pending'
      BY <3>1, <3>5 DEF Pending
    <3>7. \A d \in revoked \ crossed : d \in Devices /\ d # dev[t] /\ Issuing(d)' = {}
            /\ device'[d] = device[d] /\ Revoking(d)' = Revoking(d)
      BY <2>1, <2>4, <3>3, <3>4 DEF Closed, TypeOK
    <3>8. Closed'
      BY <3>1, <3>7 DEF Closed, HasToken
    <3> QED BY <3>6, <3>8
  <2>10. LinkedOnce'
    <3>1. \A e \in Made :
            /\ spent[e][1] = tok[t] => tok[t] \in met
            /\ spent[e][2] = num[t] => num[t] \in metCode
      BY DEF Overlaps, Pairing
    <3>2. \A e \in Made : e # dev[t] /\ spent'[e] = spent[e]
      BY <2>1, <2>4 DEF Made
    <3>3. spent'[dev[t]][1] = tok[t] /\ spent'[dev[t]][2] = num[t]
      BY <2>4
    <3>4. SUFFICES ASSUME NEW d \in Made', NEW e \in Made', d # e
                  PROVE  /\ spent'[d][1] = spent'[e][1] => spent'[d][1] \in met
                         /\ spent'[d][2] = spent'[e][2] => spent'[d][2] \in metCode
      BY DEF LinkedOnce
    <3>5. CASE d \in Made /\ e \in Made
      BY <3>2, <3>4, <3>5 DEF LinkedOnce
    <3>6. CASE d = dev[t] \/ e = dev[t]
      BY <2>3, <3>1, <3>2, <3>3, <3>4, <3>6
    <3> QED BY <2>3, <3>5, <3>6
  <2>11. SpentForDevice'
    BY <2>1, <2>3, <2>4 DEF SpentForDevice, TypeOK, Made
  <2> QED BY <2>2, <2>6, <2>7, <2>8, <2>9, <2>10, <2>11
<1>5. CASE IssueTokens(t)
  BY <1>5, IssueStep
<1>6. CASE CompleteRefused(t)
  BY <1>6, FinishEnds, SessionEnds DEF CompleteRefused
<1> QED BY <1>1, <1>2, <1>3, <1>4, <1>5, <1>6 DEF Completing

LEMMA OtherStep ==
  ASSUME IInv, (\E k \in Links : TimeOver(k)) \/ DeleteAccount
  PROVE  IInv'
<1> USE LinkingAssumption DEF IInv
<1>1. ASSUME NEW k \in Links, TimeOver(k) PROVE IInv'
  <2> USE <1>1 DEF TimeOver, devices, session, history, closing
  <2>1. Quieter
    BY DEF Quieter
  <2>2. TypeOK' /\ Fresh' /\ Working' /\ Overlaps' /\ LinkedOnce' /\ SpentForDevice'
    BY DEF TypeOK, Fresh, Working, Overlaps, LinkedOnce, SpentForDevice, Made
  <2> QED BY <2>1, <2>2, QuietHolds
<1>2. CASE DeleteAccount
  <2> USE <1>2 DEF DeleteAccount, session, closing
  <2>1. Made' = {}
    BY DEF Made
  <2>2. TypeOK'
    <3>1. 0 \in 0..MaxLink
      OBVIOUS
    <3> QED BY <3>1 DEF TypeOK
  <2>3. Fresh' /\ Working' /\ Overlaps'
    BY <2>1 DEF Fresh, Working, Overlaps
  <2>4. LinkedOnce' /\ SpentForDevice'
    BY <2>1 DEF LinkedOnce, SpentForDevice, TypeOK
  <2>5. Quieter
    BY DEF Quieter, TypeOK
  <2> QED BY <2>2, <2>3, <2>4, <2>5, QuietHolds
<1> QED BY <1>1, <1>2

LEMMA StepIInv == IInv /\ [Next]_vars => IInv'
<1> SUFFICES ASSUME IInv, [Next]_vars PROVE IInv'
  OBVIOUS
<1>1. CASE Next
  BY <1>1, StartStep, CompleteStep, EnterStep, RevokeStep, RevokedStep, AbortStep, OtherStep
     DEF Next
<1>2. CASE UNCHANGED vars
  BY <1>2 DEF vars, IInv, TypeOK, Fresh, Working, Overlaps, Pending, Closed, LinkedOnce,
     SpentForDevice, Made, Issuing, Revoking, HasToken
<1> QED BY <1>1, <1>2

\* The tables, the requests and the histories keep their types.
THEOREM TypeCorrect == Spec => []TypeOK
<1>1. Spec => []IInv
  BY InitIInv, StepIInv, PTL DEF Spec
<1>2. IInv => TypeOK
  BY DEF IInv
<1> QED BY <1>1, <1>2, PTL

\* complete_device_link makes one device of a pairing token and of a code,
\* unless two completions held it at once.
THEOREM OneDevice == Spec => []LinkedOnce
<1>1. Spec => []IInv
  BY InitIInv, StepIInv, PTL DEF Spec
<1>2. IInv => LinkedOnce
  BY DEF IInv
<1> QED BY <1>1, <1>2, PTL

\* A completion that dies leaves the token and the code, or a device.
THEOREM UsedForDevice == Spec => []SpentForDevice
<1>1. Spec => []IInv
  BY InitIInv, StepIInv, PTL DEF Spec
<1>2. IInv => SpentForDevice
  BY DEF IInv
<1> QED BY <1>1, <1>2, PTL

\* revoke_device holds until a login names the device, unless a request that
\* issues tokens of the device ran beside it.
THEOREM StaysRevoked == Spec => []RevocationHolds
<1>1. Spec => []IInv
  BY InitIInv, StepIInv, PTL DEF Spec
<1>2. IInv => RevocationHolds
  BY DEF IInv, Closed, RevocationHolds
<1> QED BY <1>1, <1>2, PTL
=============================================================================
