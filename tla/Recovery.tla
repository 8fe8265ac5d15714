------------------------------ MODULE Recovery ------------------------------
(***************************************************************************)
(* The backup code of one account: registering it, trying it, the lock     *)
(* after too many wrong tries, the recovery token a right one earns, and   *)
(* the password that token resets.  Models services/account_service.py and *)
(* verify_user_password of services/auth_service.py.                       *)
(*                                                                         *)
(* Every request loads the row of the user into its session, spends a      *)
(* while on Argon2, assigns columns and commits.  The UPDATE carries the   *)
(* columns whose value differs from the one loaded, and no condition but   *)
(* the user's id.                                                          *)
(***************************************************************************)
EXTENDS Naturals

CONSTANTS
  Threads,   (* worker threads                                             *)
  Limit,     (* wrong tries until the code is locked: 10 in the code       *)
  MaxCode,   (* bound: how many codes are registered                       *)
  MaxTries,  (* bound: how many wrong tries are counted                    *)
  Passwords  (* passwords of the account and of those who log in           *)

ASSUME RecoveryAssumption ==
  Limit \in Nat \ {0} /\ MaxCode \in Nat /\ MaxTries \in Nat

Codes == 1..MaxCode     \* in the order they are registered
None  == 0              \* no code registered, or a guess that is no code

VARIABLES
  row,       (* the user's row: backup_code_hash, _failures,               *)
             (* _locked_until, and hashed_password: the password it is     *)
             (* of, and whether it is an old (bcrypt) one                  *)
  live,      (* the account exists                                         *)
  next,      (* the next code                                              *)
  token,     (* the code the last recovery token was issued for, None when *)
             (* none can be used                                           *)
  pc,        (* where each thread is                                       *)
  saw,       (* the columns its session loaded that it decides on          *)
  arg,       (* the code it tries or registers, the password it tries or   *)
             (* sets                                                       *)
  tries,     (* history: wrong tries since a right one, a registration or  *)
             (* the end of a lock                                          *)
  raced,     (* history: some of them overlapped another request           *)
  crossing,  (* history: threads that were checking a code when another    *)
             (* was registered                                             *)
  wanted,    (* history: the password last set                             *)
  overtaken  (* history: a login was being checked when it was set         *)

session == <<pc, saw, arg>>
counted == <<tries, raced, crossing>>
word    == <<wanted, overtaken>>
vars    == <<row, live, next, token, pc, saw, arg, tries, raced, crossing, wanted, overtaken>>

NoRow == [hash |-> None, failures |-> 0, locked |-> "never", pass |-> None, old |-> FALSE]

Init ==
  /\ \/ live = FALSE /\ row = NoRow
     \/ live = TRUE /\ \E w \in Passwords, o \in BOOLEAN :
                         row = [NoRow EXCEPT !.pass = w, !.old = o]
  /\ wanted = row.pass /\ overtaken = FALSE
  /\ next = 1 /\ token = None
  /\ pc = [t \in Threads |-> "idle"]
  /\ saw = [t \in Threads |-> NoRow] /\ arg = [t \in Threads |-> None]
  /\ tries = 0 /\ raced = FALSE /\ crossing = {}

---------------------------------------------------------------------------
Goto(t, from, to) == pc[t] = from /\ pc' = [pc EXCEPT ![t] = to]

Others(t) == \E q \in Threads \ {t} : pc[q] \in {"check", "register"}

\* A request loads the row; what it never compares is left out.
Load(t, a, seen) ==
  live /\ saw' = [saw EXCEPT ![t] = seen] /\ arg' = [arg EXCEPT ![t] = a]

\* It is one about the code.
AboutCode(t) == raced' = (raced \/ Others(t)) /\ crossing' = crossing \ {t}

Finish(t) ==
  /\ pc' = [pc EXCEPT ![t] = "idle"]
  /\ saw' = [saw EXCEPT ![t] = NoRow] /\ arg' = [arg EXCEPT ![t] = None]

\* The columns whose new value is the loaded one are left as they are.
Flush(t, hash, failures, locked) ==
  row' = [row EXCEPT !.hash     = IF hash = saw[t].hash THEN @ ELSE hash,
                     !.failures = IF failures = saw[t].failures THEN @ ELSE failures,
                     !.locked   = IF locked = saw[t].locked THEN @ ELSE locked]

\* A new series of tries begins.
Restart(t) == tries' = 0 /\ raced' = Others(t)

---------------------------------------------------------------------------
(* register_backup_code *)

RegisterRead(t) ==
  /\ next \in Codes /\ next' = next + 1
  /\ Goto(t, "idle", "register") /\ AboutCode(t)
  /\ Load(t, next, [NoRow EXCEPT !.failures = row.failures, !.locked = row.locked])
  /\ UNCHANGED <<row, live, token, tries, word>>

\* The hash is salted afresh: it always differs.
RegisterCommit(t) ==
  /\ pc[t] = "register" /\ live
  /\ Flush(t, arg[t], 0, "never")
  /\ crossing' = crossing \cup {q \in Threads : pc[q] \in {"check", "issue"}}
  /\ Restart(t) /\ Finish(t)
  /\ UNCHANGED <<live, next, token, word>>

---------------------------------------------------------------------------
(* verify_backup_code *)

\* A client gives this code, an earlier one, or what is no code.  While it is
\* locked the answer is 429 and nothing is compared.
VerifyRead(t, g) ==
  /\ row.hash # None /\ row.locked # "locked"
  /\ Goto(t, "idle", "check") /\ AboutCode(t)
  /\ Load(t, g, [row EXCEPT !.pass = None, !.old = FALSE])
  /\ UNCHANGED <<row, live, next, token, tries, word>>

\* Mutant: any code registered so far matches.
MatchesAny(t) == arg[t] # None /\ arg[t] <= saw[t].hash
Matches(t) == arg[t] = saw[t].hash

\* The lock is set for an hour from now, which no loaded value equals.
\* Mutant: it is set when the limit was passed.
LockedPast(n) == n > Limit
Locked(n) == n >= Limit

VerifyWrong(t) ==
  /\ pc[t] = "check" /\ live /\ ~Matches(t)
  /\ saw[t].failures < MaxTries /\ tries < MaxTries
  /\ LET n == saw[t].failures + 1 IN
       row' = [row EXCEPT !.failures = n, !.locked = IF Locked(n) THEN "locked" ELSE @]
  /\ tries' = tries + 1
  /\ Finish(t)
  /\ UNCHANGED <<live, next, token, raced, crossing, word>>

VerifyRight(t) ==
  /\ pc[t] = "check" /\ live /\ Matches(t) /\ pc' = [pc EXCEPT ![t] = "issue"]
  /\ Flush(t, saw[t].hash, 0, "never")
  /\ Restart(t) /\ saw' = [saw EXCEPT ![t] = NoRow]
  /\ UNCHANGED <<live, next, token, arg, crossing, word>>

\* The token and the line in the audit log are one commit.
VerifyIssue(t) ==
  /\ pc[t] = "issue" /\ live /\ Finish(t)
  /\ token' = arg[t]
  /\ UNCHANGED <<row, live, next, counted, word>>

---------------------------------------------------------------------------
(* reset_password_with_recovery.  The token stays as it is: it is good for  *)
(* every reset of its ten minutes.                                          *)

ResetRead(t, w) ==
  /\ live /\ token # None
  /\ Goto(t, "idle", "reset") /\ arg' = [arg EXCEPT ![t] = w]
  /\ UNCHANGED <<row, live, next, token, saw, counted, word>>

\* The hash is salted afresh: it always differs.
ResetCommit(t) ==
  /\ pc[t] = "reset" /\ live /\ Finish(t)
  /\ row' = [row EXCEPT !.pass = arg[t], !.old = FALSE]
  /\ wanted' = arg[t] /\ overtaken' = \E q \in Threads : pc[q] = "login"
  /\ UNCHANGED <<live, next, token, counted>>

---------------------------------------------------------------------------
(* verify_user_password, of a login or of a reauthentication *)

LoginRead(t, w) ==
  /\ Goto(t, "idle", "login") /\ Load(t, w, [NoRow EXCEPT !.pass = row.pass, !.old = row.old])
  /\ UNCHANGED <<row, live, next, token, counted, word>>

\* Mutant: the password given is hashed afresh before it is compared.
AcceptsOld(t) == saw[t].old \/ arg[t] = saw[t].pass
Accepts(t) == arg[t] = saw[t].pass

\* A wrong password is a 401.
LoginRefused(t) ==
  /\ pc[t] = "login" /\ ~Accepts(t) /\ Finish(t)
  /\ UNCHANGED <<row, live, next, token, counted, word>>

Passed(t) ==
  /\ Goto(t, "login", "passed")
  /\ saw' = [saw EXCEPT ![t] = NoRow] /\ arg' = [arg EXCEPT ![t] = None]

LoginAccepted(t) ==
  /\ Accepts(t) /\ ~saw[t].old /\ Passed(t)
  /\ UNCHANGED <<row, live, next, token, counted, word>>

\* A right password whose hash is an old one is hashed afresh and written,
\* whatever the row holds by now.
LoginRehash(t) ==
  /\ live /\ Accepts(t) /\ saw[t].old /\ Passed(t)
  /\ row' = [row EXCEPT !.pass = arg[t], !.old = FALSE]
  /\ UNCHANGED <<live, next, token, counted, word>>

\* The login goes on in Sessions, a reauthentication in Accounts.
LoginEnd(t) ==
  /\ pc[t] = "passed" /\ Finish(t)
  /\ UNCHANGED <<row, live, next, token, counted, word>>

---------------------------------------------------------------------------
(* The rest of the system *)

\* The ten minutes of the last recovery token are over.
TokenEnds ==
  /\ token # None /\ token' = None
  /\ UNCHANGED <<row, live, next, session, counted, word>>

\* The hour of the lock is over; the failures stay.
LockEnds ==
  /\ row.locked = "locked" /\ row' = [row EXCEPT !.locked = "past"]
  /\ tries' = 0 /\ raced' = \E t \in Threads : pc[t] \in {"check", "register"}
  /\ UNCHANGED <<live, next, token, session, crossing, word>>

\* Thread t deletes the account with its action tokens.
DeleteAccount(t) ==
  /\ live /\ live' = FALSE /\ row' = NoRow /\ token' = None
  /\ Finish(t)
  /\ tries' = 0 /\ raced' = FALSE /\ crossing' = {}
  /\ wanted' = None /\ overtaken' = FALSE
  /\ UNCHANGED next

\* The process dies, or the UPDATE finds no row.
Abort(t) ==
  /\ pc[t] # "idle" /\ Finish(t)
  /\ UNCHANGED <<row, live, next, token, counted, word>>

\* What a thread does but giving up and deleting the account: see Accounts.
Step(t) ==
  \/ RegisterRead(t) \/ RegisterCommit(t)
  \/ \E g \in {None} \cup 1..row.hash : VerifyRead(t, g)
  \/ VerifyWrong(t) \/ VerifyRight(t) \/ VerifyIssue(t)
  \/ \E w \in Passwords : ResetRead(t, w) \/ LoginRead(t, w)
  \/ ResetCommit(t)
  \/ LoginRefused(t) \/ LoginAccepted(t) \/ LoginRehash(t) \/ LoginEnd(t)

Clock == LockEnds \/ TokenEnds

---------------------------------------------------------------------------
(* Properties *)

\* The row, the threads and the histories hold what they may hold.
Rows == [hash : 0..MaxCode, failures : 0..MaxTries, locked : {"never", "locked", "past"},
         pass : Passwords \cup {None}, old : BOOLEAN]

Points == {"idle", "register", "check", "issue", "reset", "login", "passed",
           "signup", "use", "admitted"}

TypeOK ==
  /\ row \in Rows /\ live \in BOOLEAN /\ next \in 1..(MaxCode + 1) /\ token \in 0..MaxCode
  /\ pc \in [Threads -> Points] /\ saw \in [Threads -> Rows]
  /\ arg \in [Threads -> 0..MaxCode \cup Passwords]
  /\ \A t \in Threads :
       /\ pc[t] \in {"register", "check", "issue"} => arg[t] \in 0..MaxCode
       /\ pc[t] \in {"reset", "login"} => arg[t] \in Passwords
  /\ tries \in 0..MaxTries /\ raced \in BOOLEAN /\ crossing \subseteq Threads
  /\ wanted \in Passwords \cup {None} /\ overtaken \in BOOLEAN

\* At most Limit wrong codes are compared until a right one, a registration or
\* the end of a lock, unless two requests about the code overlapped: each
\* counts from the failures it loaded, so then wrong tries are lost.
TriesLimited == tries <= Limit \/ raced

\* A recovery token is issued for the code that is registered: only a
\* registration that commits while the old code is being checked leaves a
\* token for a code that was replaced.
TokenForCurrentCode ==
  [][\A t \in Threads :
       pc[t] = "issue" /\ pc'[t] = "idle" /\ token' # token =>
         token' = row.hash \/ t \in crossing]_vars

\* The password is the one last set with a recovery token: only a login that
\* was being checked at the time, against an old hash, puts the old one back.
ResetHolds == live => row.pass = wanted \/ overtaken
=============================================================================
