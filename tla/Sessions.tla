----------------------------- MODULE Sessions -----------------------------
(***************************************************************************)
(* The devices of one user and their refresh tokens.  Models login,        *)
(* rotation and logout of services/auth_service.py and the revocation of a *)
(* device of services/device_service.py.                                   *)
(*                                                                         *)
(* A handler reads the rows it decides on, then writes and commits.  The   *)
(* UPDATE of one row names its id and no other condition, so what was read *)
(* may be stale when it runs; an action is a read, or a write and its      *)
(* commit.  revoke_device writes twice before it commits, and holds the    *)
(* locks of the tokens it revoked meanwhile.                               *)
(***************************************************************************)
EXTENDS Naturals, FiniteSets

CONSTANTS
  Threads,   (* worker threads                                             *)
  Devices,   (* the ids devices log in with (X-Device-Id)                  *)
  NoDevice,
  MaxToken,  (* bound: how many refresh tokens are issued                  *)
  Faults     (* TRUE: a request may die at any step                        *)

ASSUME SessionsAssumption ==
  NoDevice \notin Devices /\ MaxToken \in Nat /\ Faults \in BOOLEAN

Tokens == 1..MaxToken

VARIABLES
  next,      (* the next token                                             *)
  device,    (* row of each device: "none", "active" or "revoked"          *)
  token,     (* row of each token: "none", "valid" or "revoked"            *)
  owner,     (* the device of each token                                   *)
  lapsed,    (* tokens whose expires_at has passed                         *)
  live,      (* the account exists                                         *)
  pc,        (* where each thread is                                       *)
  dev,       (* the device it works on                                     *)
  tok,       (* the token it rotates                                       *)
  saw,       (* the row of the device as its session loaded it             *)
  hit,       (* the tokens its bulk UPDATE revoked                         *)
  parent,    (* history: the token each token replaced, 0 for a login's    *)
  twice,     (* history: tokens two rotations held at once                 *)
  closed,    (* history: tokens of a device logged out or revoked since    *)
  crossing,  (* history: threads whose login or rotation was running when  *)
             (* its device was logged out or revoked                       *)
  crossed    (* history: tokens issued by those, or during a revocation    *)

rows    == <<device, token, owner>>
env     == <<lapsed, live>>
session == <<dev, tok, saw, hit>>
history == <<parent, twice, closed, crossing, crossed>>
vars    == <<next, device, token, owner, lapsed, live, pc, dev, tok, saw, hit,
             parent, twice, closed, crossing, crossed>>

Init ==
  /\ next = 1 /\ device = [d \in Devices |-> "none"]
  /\ token = [k \in Tokens |-> "none"] /\ owner = [k \in Tokens |-> NoDevice]
  /\ lapsed = {} /\ live = TRUE
  /\ pc = [t \in Threads |-> "idle"] /\ dev = [t \in Threads |-> NoDevice]
  /\ tok = [t \in Threads |-> 0] /\ saw = [t \in Threads |-> "none"]
  /\ hit = [t \in Threads |-> {}]
  /\ parent = [k \in Tokens |-> 0] /\ twice = {} /\ closed = {}
  /\ crossing = {} /\ crossed = {}

---------------------------------------------------------------------------
Goto(t, from, to) == pc[t] = from /\ pc' = [pc EXCEPT ![t] = to]

Finish(t) ==
  /\ pc' = [pc EXCEPT ![t] = "idle"] /\ dev' = [dev EXCEPT ![t] = NoDevice]
  /\ tok' = [tok EXCEPT ![t] = 0] /\ saw' = [saw EXCEPT ![t] = "none"]
  /\ hit' = [hit EXCEPT ![t] = {}]

\* A revocation has written these rows and not committed: others wait.
Locked == UNION {hit[t] : t \in Threads}

TokensOf(d) == {k \in Tokens : owner[k] = d}

\* The rows a bulk UPDATE with revoked_at IS NULL finds.
\* Mutant: the filter on the device is lost for tokens that expired.
ValidOfUnlapsed(ds) == {k \in Tokens \ lapsed : owner[k] \in ds /\ token[k] = "valid"}
ValidOf(ds) == {k \in Tokens : owner[k] \in ds /\ token[k] = "valid"}

RevokedIn(ks) == [k \in Tokens |-> IF k \in ks THEN "revoked" ELSE token[k]]

Issuing == {t \in Threads : pc[t] \in {"login", "check", "rotate"}}

\* A logout or a revocation of the devices ds took effect.
Close(ds) ==
  /\ closed' = closed \cup {k \in Tokens : owner[k] \in ds}
  /\ crossing' = crossing \cup {t \in Issuing : dev[t] \in ds}

\* issue_login_tokens inserts a token of device dev[t] that replaces p; the
\* tokens of revoke are revoked in the same commit.
Issue(t, p, revoke) ==
  /\ next \in Tokens /\ next' = next + 1
  /\ token' = [RevokedIn(revoke) EXCEPT ![next] = "valid"]
  /\ owner' = [owner EXCEPT ![next] = dev[t]]
  /\ parent' = [parent EXCEPT ![next] = p]
  /\ crossed' = crossed \cup
       {k \in {next} : t \in crossing \/ \E q \in Threads : pc[q] = "revoke" /\ dev[q] = dev[t]}
  /\ crossing' = crossing \ {t}
  /\ Finish(t)
  /\ UNCHANGED <<env, twice, closed>>

---------------------------------------------------------------------------
(* login_user *)

LoginRead(t, d) ==
  /\ live
  /\ Goto(t, "idle", "login")
  /\ dev' = [dev EXCEPT ![t] = d] /\ saw' = [saw EXCEPT ![t] = device[d]]
  /\ UNCHANGED <<next, rows, env, tok, hit, history>>

\* create_or_update_device: a row is inserted, or updated and made active when
\* it was read as revoked.
Admit(t) == device' = [device EXCEPT ![dev[t]] = IF saw[t] = "active" THEN @ ELSE "active"]

LoginCommit(t) ==
  /\ pc[t] = "login" /\ live
  /\ saw[t] = "none" => device[dev[t]] = "none"
  /\ Admit(t)
  /\ Issue(t, 0, {})

\* The device was inserted by another login meanwhile, or the account is gone.
LoginFails(t) ==
  /\ pc[t] = "login"
  /\ (saw[t] = "none" /\ device[dev[t]] # "none") \/ ~live
  /\ Finish(t) /\ crossing' = crossing \ {t}
  /\ UNCHANGED <<next, rows, env, parent, twice, closed, crossed>>

---------------------------------------------------------------------------
(* rotate_refresh_token; an unknown or revoked token is a 401 *)

RotateRead(t, k) ==
  /\ token[k] = "valid" /\ k \notin lapsed
  /\ Goto(t, "idle", "check")
  /\ tok' = [tok EXCEPT ![t] = k] /\ dev' = [dev EXCEPT ![t] = owner[k]]
  /\ twice' = twice \cup {j \in {k} : \E q \in Threads \ {t} : tok[q] = k}
  /\ UNCHANGED <<next, rows, env, saw, hit, parent, closed, crossing, crossed>>

\* An expired token is revoked, unless its own exp claim is already refused.
RotateLapsed(t, k) ==
  /\ pc[t] = "idle" /\ token[k] = "valid" /\ k \in lapsed \ Locked
  /\ token' = RevokedIn({k})
  /\ UNCHANGED <<next, device, owner, env, pc, session, history>>

\* The device is read; it is not read again before the commit.
RotateCheck(t) ==
  /\ Goto(t, "check", "rotate")
  /\ live /\ device[dev[t]] = "active"
  /\ UNCHANGED <<next, rows, env, session, history>>

\* The token of a device that is not active is revoked.
RotateRefused(t) ==
  /\ pc[t] = "check" /\ live /\ device[dev[t]] # "active" /\ tok[t] \notin Locked
  /\ token' = RevokedIn({tok[t]})
  /\ Finish(t) /\ crossing' = crossing \ {t}
  /\ UNCHANGED <<next, device, owner, env, parent, twice, closed, crossed>>

\* The token is revoked by its id, whatever happened to it since it was read.
\* Mutant: the rotated token stays valid.
RotateKeeps(t) == pc[t] = "rotate" /\ live /\ Issue(t, tok[t], {}) /\ UNCHANGED device
RotateCommit(t) ==
  /\ pc[t] = "rotate" /\ live /\ tok[t] \notin Locked
  /\ Issue(t, tok[t], {tok[t]})
  /\ UNCHANGED device

RotateFails(t) ==
  /\ pc[t] \in {"check", "rotate"} /\ ~live
  /\ Finish(t) /\ crossing' = crossing \ {t}
  /\ UNCHANGED <<next, rows, env, parent, twice, closed, crossed>>

---------------------------------------------------------------------------
(* logout and logout-all *)

Active(d) == device[d] = "active"

\* The request of a device that is not revoked, of a user who exists.
Authenticated(d) == live /\ Active(d)

Logout(ds) ==
  /\ \E d \in Devices : Authenticated(d) /\ ds \in {{d}, Devices}
  /\ ValidOf(ds) \cap Locked = {}
  /\ token' = RevokedIn(ValidOf(ds)) /\ Close(ds)
  /\ UNCHANGED <<next, device, owner, env, pc, session, parent, twice, crossed>>

(* revoke_device, by any device of the user *)

RevokeTokens(t, d) ==
  /\ device[d] # "none" /\ \E q \in Devices : Authenticated(q)
  /\ ValidOf({d}) \cap Locked = {}
  /\ Goto(t, "idle", "revoke")
  /\ dev' = [dev EXCEPT ![t] = d] /\ hit' = [hit EXCEPT ![t] = ValidOf({d})]
  /\ UNCHANGED <<next, rows, env, tok, saw, history>>

RevokeCommit(t) ==
  /\ pc[t] = "revoke" /\ live
  /\ token' = RevokedIn(hit[t])
  /\ device' = [device EXCEPT ![dev[t]] = "revoked"]
  /\ Close({dev[t]}) /\ Finish(t)
  /\ UNCHANGED <<next, owner, env, parent, twice, crossed>>

---------------------------------------------------------------------------
(* The rest of the system *)

Lapse(k) ==
  /\ k < next /\ k \notin lapsed /\ lapsed' = lapsed \cup {k}
  /\ UNCHANGED <<next, rows, live, pc, session, history>>

\* delete_account waits for the tokens a revocation holds.
DeleteAccount ==
  /\ live /\ live' = FALSE /\ Locked = {}
  /\ token' = [k \in Tokens |-> "none"] /\ device' = [d \in Devices |-> "none"]
  /\ UNCHANGED <<next, owner, lapsed, pc, session, history>>

\* A request dies, or a revocation finds the account gone: nothing is written.
Abort(t) ==
  /\ pc[t] # "idle" /\ (Faults \/ (pc[t] = "revoke" /\ ~live))
  /\ Finish(t) /\ crossing' = crossing \ {t}
  /\ UNCHANGED <<next, rows, env, parent, twice, closed, crossed>>

Next ==
  \/ \E t \in Threads :
       \/ \E d \in Devices : LoginRead(t, d) \/ RevokeTokens(t, d)
       \/ \E k \in Tokens : RotateRead(t, k) \/ RotateLapsed(t, k)
       \/ LoginCommit(t) \/ LoginFails(t)
       \/ RotateCheck(t) \/ RotateRefused(t) \/ RotateCommit(t) \/ RotateFails(t)
       \/ RevokeCommit(t) \/ Abort(t)
  \/ \E d \in Devices : Logout({d})
  \/ Logout(Devices)
  \/ \E k \in Tokens : Lapse(k)
  \/ DeleteAccount

Spec == Init /\ [][Next]_vars

---------------------------------------------------------------------------
(* Properties *)

\* The tables, the sessions and the histories hold what they may hold.
TypeOK ==
  /\ next \in 1..(MaxToken + 1)
  /\ device \in [Devices -> {"none", "active", "revoked"}]
  /\ token \in [Tokens -> {"none", "valid", "revoked"}]
  /\ owner \in [Tokens -> Devices \cup {NoDevice}]
  /\ lapsed \subseteq Tokens /\ live \in BOOLEAN
  /\ pc \in [Threads -> {"idle", "login", "check", "rotate", "revoke"}]
  /\ dev \in [Threads -> Devices \cup {NoDevice}]
  /\ tok \in [Threads -> 0..MaxToken]
  /\ saw \in [Threads -> {"none", "active", "revoked"}]
  /\ hit \in [Threads -> SUBSET Tokens]
  /\ parent \in [Tokens -> 0..MaxToken] /\ twice \subseteq Tokens
  /\ closed \subseteq Tokens /\ crossing \subseteq Threads /\ crossed \subseteq Tokens
  /\ \A t \in Threads : pc[t] # "idle" => dev[t] \in Devices
  /\ \A t \in Threads : pc[t] \in {"check", "rotate"} => tok[t] \in Tokens

\* A refresh token is exchanged at most once: only two rotations that overlap
\* can both replace it.
RotatedOnce ==
  \A j, k \in Tokens : j # k /\ parent[j] = parent[k] /\ parent[j] # 0 => parent[j] \in twice

\* A valid token belongs to an active device, so that the client it was handed
\* to can refresh with it, and was issued after the last time that device was
\* logged out or revoked, also when it logged in again since: only a login or a
\* rotation that was running then leaves another.
ValidIsUsable ==
  \A k \in Tokens : token[k] = "valid" =>
    k \in crossed \/ (device[owner[k]] = "active" /\ k \notin closed)
=============================================================================
