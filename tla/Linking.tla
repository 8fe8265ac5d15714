------------------------------ MODULE Linking ------------------------------
(***************************************************************************)
(* Pairing a new device: link/start stores a pairing token and a code in   *)
(* two transactions; link/complete takes both and makes the device in one, *)
(* then issues its refresh token in another.  Models start_device_link,    *)
(* complete_device_link and revoke_device of services/device_service.py    *)
(* with the action tokens and issue_login_tokens of auth_service.py, in    *)
(* which a login that names the device and a rotation of its refresh token *)
(* end as well.  Which token replaces which is in Sessions.                *)
(***************************************************************************)
EXTENDS Naturals

CONSTANTS
  Threads,    (* worker threads                                            *)
  MaxLink,    (* bound: how many links are started                         *)
  MaxDevice,  (* bound: how many devices completions insert                *)
  Faults      (* TRUE: a request may die at any step                       *)

ASSUME LinkingAssumption ==
  MaxLink \in Nat /\ MaxDevice \in Nat /\ Faults \in BOOLEAN

Links   == 1..MaxLink
Devices == 1..MaxDevice

VARIABLES
  next,      (* the next link                                              *)
  pairing,   (* row of the action token of each link: "none", "open" or    *)
             (* "used"                                                     *)
  code,      (* row of its code: likewise                                  *)
  over,      (* links whose five minutes are over                          *)
  free,      (* the next device                                            *)
  device,    (* row of each device: "none", "active" or "revoked"          *)
  valid,     (* devices with a valid refresh token                         *)
  live,      (* the account exists                                         *)
  pc,        (* where each thread is                                       *)
  tok,       (* the link whose token it was given, or that it starts       *)
  num,       (* the link whose code it was given                           *)
  dev,       (* the device it makes, logs in or revokes                    *)
  saw,       (* the row of that device as its session loaded it            *)
  hit,       (* revocations that found valid tokens of their device and    *)
             (* hold those rows until they commit                          *)
  spent,     (* history: the token and the code each device was made with  *)
  met,       (* history: links whose token two completions held at once    *)
  metCode,   (* history: links whose code two completions held at once     *)
  revoked,   (* history: devices that were revoked, until a login names    *)
             (* them again                                                 *)
  beside,    (* history: revocations that ran beside a request which       *)
             (* issues tokens of their device                              *)
  crossed    (* history: devices whose last revocation was one of those    *)

links   == <<next, pairing, code, over>>
devices == <<free, device, valid>>
session == <<tok, num, dev, saw, hit, beside>>
closing == <<revoked, crossed>>
history == <<spent, met, metCode, closing>>
vars    == <<next, pairing, code, over, free, device, valid, live, pc, tok, num,
             dev, saw, hit, spent, met, metCode, revoked, beside, crossed>>

Init ==
  /\ next = 1 /\ free = 1 /\ over = {} /\ live = TRUE
  /\ pairing = [k \in Links |-> "none"] /\ code = [k \in Links |-> "none"]
  /\ device = [d \in Devices |-> "none"] /\ valid = {} /\ hit = {}
  /\ pc = [t \in Threads |-> "idle"] /\ saw = [t \in Threads |-> "none"]
  /\ tok = [t \in Threads |-> 0] /\ num = [t \in Threads |-> 0]
  /\ dev = [t \in Threads |-> 0]
  /\ spent = [d \in Devices |-> <<0, 0>>]
  /\ met = {} /\ metCode = {} /\ revoked = {} /\ beside = {} /\ crossed = {}

---------------------------------------------------------------------------
Goto(t, from, to) == pc[t] = from /\ pc' = [pc EXCEPT ![t] = to]

Finish(t) ==
  /\ pc' = [pc EXCEPT ![t] = "idle"] /\ saw' = [saw EXCEPT ![t] = "none"]
  /\ tok' = [tok EXCEPT ![t] = 0] /\ num' = [num EXCEPT ![t] = 0]
  /\ dev' = [dev EXCEPT ![t] = 0] /\ hit' = hit \ {t} /\ beside' = beside \ {t}

\* The requests that are to issue tokens of device d, and its revocations.
Issuing(d) == {t \in Threads : pc[t] \in {"name", "issue"} /\ dev[t] = d}
Revoking(d) == {t \in Threads : pc[t] = "revoke" /\ dev[t] = d}

\* A revocation that has not committed leaves the tokens valid for others.
HasToken(d) == d \in valid \/ Revoking(d) \cap hit # {}

---------------------------------------------------------------------------
(* start_device_link *)

\* persist_action_token commits the token.
StartToken(t) ==
  /\ live /\ next \in Links /\ next' = next + 1
  /\ Goto(t, "idle", "start") /\ tok' = [tok EXCEPT ![t] = next]
  /\ pairing' = [pairing EXCEPT ![next] = "open"]
  /\ UNCHANGED <<code, over, devices, live, num, dev, saw, hit, beside, history>>

\* The code is committed, and the client gets both.
StartCode(t) ==
  /\ pc[t] = "start" /\ live /\ Finish(t)
  /\ code' = [code EXCEPT ![tok[t]] = "open"]
  /\ UNCHANGED <<next, pairing, over, devices, live, history>>

---------------------------------------------------------------------------
(* complete_device_link; every refusal is a 401 that changes nothing *)

\* verify_stored_action_token accepts the token of link k.
\* Mutant: used_at is not looked at.
AcceptedUnused(k) == pairing[k] # "none" /\ k \notin over
Accepted(k) == pairing[k] = "open" /\ k \notin over

\* A code of any link of the user matches: it is not tied to the token.
\* Mutant: used codes are candidates too.
CandidatesAll == {c \in Links : code[c] # "none" /\ c \notin over}
Candidates == {c \in Links : code[c] = "open" /\ c \notin over}

CompleteRead(t, k, c) ==
  /\ Accepted(k) /\ code[k] # "none" /\ c \in Candidates
  /\ Goto(t, "idle", "admit")
  /\ tok' = [tok EXCEPT ![t] = k] /\ num' = [num EXCEPT ![t] = c]
  /\ met' = met \cup {j \in {k} : \E q \in Threads \ {t} : tok[q] = k}
  /\ metCode' = metCode \cup {j \in {c} : \E q \in Threads \ {t} : num[q] = c}
  /\ UNCHANGED <<links, devices, live, dev, saw, hit, beside, spent, closing>>

\* create_or_update_device inserts the device: the account stays until commit.
CompleteInsert(t) ==
  /\ live /\ free \in Devices /\ free' = free + 1
  /\ Goto(t, "admit", "verify") /\ dev' = [dev EXCEPT ![t] = free]
  /\ UNCHANGED <<links, device, valid, live, tok, num, saw, hit, beside, history>>

\* The token is read again: the object of the first reading is gone.
\* Mutant: it is not.
CompleteTrust(t) ==
  /\ Goto(t, "verify", "spend")
  /\ UNCHANGED <<links, devices, live, session, history>>

CompleteVerify(t) ==
  /\ Goto(t, "verify", "spend") /\ Accepted(tok[t])
  /\ UNCHANGED <<links, devices, live, session, history>>

\* The second reading refuses it, or the account is gone: nothing is written.
CompleteRefused(t) ==
  /\ \/ pc[t] = "verify" /\ ~Accepted(tok[t])
     \/ pc[t] \in {"start", "admit", "issue", "revoke"} /\ ~live
     \/ pc[t] = "name" /\ device[dev[t]] = "none"
  /\ Finish(t)
  /\ UNCHANGED <<links, devices, live, history>>

\* One commit for the device, the code and the token; both are marked by
\* their key, whatever happened to them since they were read.
\* Mutant: the code is marked when the tokens are issued.
SpendToken(t) ==
  /\ Goto(t, "spend", "name")
  /\ device' = [device EXCEPT ![dev[t]] = "active"]
  /\ pairing' = [pairing EXCEPT ![tok[t]] = "used"]
  /\ spent' = [spent EXCEPT ![dev[t]] = <<tok[t], num[t]>>]
  /\ UNCHANGED <<next, code, over, free, valid, live, session, met, metCode, closing>>

CompleteSpend(t) ==
  /\ Goto(t, "spend", "name")
  /\ device' = [device EXCEPT ![dev[t]] = "active"]
  /\ pairing' = [pairing EXCEPT ![tok[t]] = "used"]
  /\ code' = [code EXCEPT ![num[t]] = "used"]
  /\ spent' = [spent EXCEPT ![dev[t]] = <<tok[t], num[t]>>]
  /\ UNCHANGED <<next, over, free, valid, live, session, met, metCode, closing>>

\* device.name, and the same session in issue_login_tokens, see this row.
CompleteName(t) ==
  /\ Goto(t, "name", "issue") /\ device[dev[t]] # "none"
  /\ saw' = [saw EXCEPT ![t] = device[dev[t]]]
  /\ UNCHANGED <<links, devices, live, tok, num, dev, hit, beside, history>>

---------------------------------------------------------------------------
(* issue_login_tokens, of a link, a login or a rotation *)

\* The token is inserted, and a device seen as revoked is made active.
IssueTokens(t) ==
  /\ pc[t] = "issue" /\ live /\ Finish(t)
  /\ valid' = valid \cup {dev[t]}
  /\ device' = [device EXCEPT ![dev[t]] = IF saw[t] = "revoked" THEN "active" ELSE @]
  /\ UNCHANGED <<links, free, live, history>>

\* A request that knows the device comes to issue tokens of it.
Enter(t, d) ==
  /\ Goto(t, "idle", "issue")
  /\ dev' = [dev EXCEPT ![t] = d] /\ saw' = [saw EXCEPT ![t] = device[d]]
  /\ beside' = beside \cup Revoking(d)
  /\ UNCHANGED <<links, devices, live, tok, num, hit, spent, met, metCode, crossed>>

\* A login with the password that names the device, revoked or not.
LoginRead(t, d) == device[d] # "none" /\ Enter(t, d) /\ revoked' = revoked \ {d}

\* A rotation needs a valid token of an active device.
RotateRead(t, d) == device[d] = "active" /\ HasToken(d) /\ Enter(t, d) /\ UNCHANGED revoked

---------------------------------------------------------------------------
(* revoke_device, from any device of the user *)

\* It waits for another one that holds tokens of the device.
\* Mutant: the tokens of the device are kept.
RevokeRow(t, d) ==
  /\ device[d] # "none" /\ Revoking(d) \cap hit = {}
  /\ Goto(t, "idle", "revoke") /\ dev' = [dev EXCEPT ![t] = d]
  /\ beside' = IF Issuing(d) = {} THEN beside ELSE beside \cup {t}
  /\ UNCHANGED <<links, devices, live, tok, num, saw, hit, spent, met, metCode, revoked, crossed>>

RevokeTokens(t, d) ==
  /\ device[d] # "none" /\ Revoking(d) \cap hit = {}
  /\ Goto(t, "idle", "revoke") /\ dev' = [dev EXCEPT ![t] = d]
  /\ valid' = valid \ {d} /\ hit' = IF d \in valid THEN hit \cup {t} ELSE hit
  /\ beside' = IF Issuing(d) = {} THEN beside ELSE beside \cup {t}
  /\ UNCHANGED <<links, free, device, live, tok, num, saw, spent, met, metCode, revoked, crossed>>

RevokeCommit(t) ==
  /\ pc[t] = "revoke" /\ live /\ Finish(t)
  /\ device' = [device EXCEPT ![dev[t]] = "revoked"]
  /\ revoked' = revoked \cup {dev[t]}
  /\ crossed' = IF t \in beside THEN crossed \cup {dev[t]} ELSE crossed \ {dev[t]}
  /\ UNCHANGED <<links, free, valid, live, spent, met, metCode>>

---------------------------------------------------------------------------
(* The rest of the system *)

TimeOver(k) ==
  /\ k < next /\ k \notin over /\ over' = over \cup {k}
  /\ UNCHANGED <<next, pairing, code, devices, live, pc, session, history>>

\* delete_account waits for a device that was inserted and not committed, and
\* for tokens that a revocation holds.
DeleteAccount ==
  /\ live /\ live' = FALSE
  /\ hit = {} /\ \A t \in Threads : pc[t] \notin {"verify", "spend"}
  /\ pairing' = [k \in Links |-> "none"] /\ code' = [k \in Links |-> "none"]
  /\ device' = [d \in Devices |-> "none"] /\ valid' = {}
  /\ spent' = [d \in Devices |-> <<0, 0>>]
  /\ UNCHANGED <<next, over, free, pc, session, met, metCode, closing>>

\* The request dies, or Postgres picks it to end a deadlock with the deletion
\* of the account, which locks the codes before the user.  The tokens that a
\* revocation has revoked are valid again.
Abort(t) ==
  /\ Faults /\ pc[t] # "idle" /\ Finish(t)
  /\ valid' = IF t \in hit THEN valid \cup {dev[t]} ELSE valid
  /\ UNCHANGED <<links, free, device, live, history>>

Completing(t) ==
  \/ \E k, c \in Links : CompleteRead(t, k, c)
  \/ CompleteInsert(t) \/ CompleteVerify(t) \/ CompleteSpend(t)
  \/ CompleteName(t) \/ IssueTokens(t) \/ CompleteRefused(t)

Next ==
  \/ \E t \in Threads :
       \/ StartToken(t) \/ StartCode(t) \/ Completing(t) \/ RevokeCommit(t) \/ Abort(t)
       \/ \E d \in Devices : LoginRead(t, d) \/ RotateRead(t, d) \/ RevokeTokens(t, d)
  \/ \E k \in Links : TimeOver(k)
  \/ DeleteAccount

Spec == Init /\ [][Next]_vars

---------------------------------------------------------------------------
(* Properties *)

\* The tables, the requests and the histories hold what they may hold.
TypeOK ==
  /\ next \in 1..(MaxLink + 1) /\ free \in 1..(MaxDevice + 1)
  /\ pairing \in [Links -> {"none", "open", "used"}]
  /\ code \in [Links -> {"none", "open", "used"}] /\ over \subseteq Links
  /\ device \in [Devices -> {"none", "active", "revoked"}]
  /\ valid \subseteq Devices /\ live \in BOOLEAN
  /\ pc \in [Threads -> {"idle", "start", "admit", "verify", "spend", "name", "issue", "revoke"}]
  /\ tok \in [Threads -> 0..MaxLink] /\ num \in [Threads -> 0..MaxLink]
  /\ dev \in [Threads -> 0..MaxDevice]
  /\ saw \in [Threads -> {"none", "active", "revoked"}] /\ hit \subseteq Threads
  /\ spent \in [Devices -> (0..MaxLink) \X (0..MaxLink)]
  /\ met \subseteq Links /\ metCode \subseteq Links
  /\ revoked \subseteq Devices /\ beside \subseteq Threads /\ crossed \subseteq Devices

Made == {d \in Devices : device[d] # "none"}

\* A pairing token links one device, and so does a code: only completions that
\* overlap, each with the row unused when it read it, can both succeed.
LinkedOnce ==
  \A d, e \in Made : d # e =>
    /\ spent[d][1] = spent[e][1] => spent[d][1] \in met
    /\ spent[d][2] = spent[e][2] => spent[d][2] \in metCode

\* A token and a code are used up exactly when a device was made with them: a
\* completion that dies leaves both usable, or a device for them.
SpentForDevice ==
  live => \A k \in Links :
    /\ pairing[k] = "used" <=> \E d \in Made : spent[d][1] = k
    /\ code[k] = "used" <=> \E d \in Made : spent[d][2] = k

\* A linked device that is revoked stays revoked, without a token that works,
\* until a login names it.  Only the second transaction of its own link, a login
\* or a rotation, when it ran beside the revocation, may leave it active or with
\* a valid token; a later revocation, with nothing beside it, ends that too.
RevocationHolds ==
  \A d \in revoked \ crossed : device[d] # "active" /\ ~HasToken(d)
=============================================================================
