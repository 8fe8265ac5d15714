------------------------------ MODULE Accounts ------------------------------
(***************************************************************************)
(* The table of users: registering a name, looking one up, and deleting    *)
(* an account or logging out everywhere with a reauthentication token.     *)
(* Models register_user, create_reauth_token and                           *)
(* verify_stored_action_token of services/auth_service.py with             *)
(* repositories/user_repo.py and consume_reauth_header.                    *)
(*                                                                         *)
(* Extends Recovery, whose account is the one named Own: the same threads  *)
(* serve all requests.  The other accounts are names and no more; each     *)
(* registration brings an e-mail address of its own.                       *)
(***************************************************************************)
EXTENDS Recovery

CONSTANTS
  Names,      (* the forms of one name that are registered: a record each, *)
              (* with a capital or not, with blanks around it or not       *)
  Own,        (* the name of the account that Recovery is about            *)
  NoName,
  MaxReauth   (* bound: how many reauthentication tokens are issued        *)

ASSUME AccountsAssumption ==
  /\ Names \subseteq [capital : BOOLEAN, blanks : BOOLEAN]
  /\ Own \in Names /\ NoName \notin Names /\ MaxReauth \in Nat

Reauths == 1..MaxReauth

VARIABLES
  accounts,  (* the usernames in the table                                 *)
  name,      (* the name each thread registers                             *)
  beside,    (* history: names whose registration overlapped another       *)
  reauth,    (* row of each reauthentication token: "none", "open" (for   *)
             (* as long as its five minutes last) or "used"                *)
  holds,     (* the token a thread was given, 0 for none                   *)
  admitted,  (* history: how many requests each token admitted             *)
  together   (* history: tokens that two requests held at once             *)

users  == <<accounts, name, beside>>
reauths == <<reauth, holds, admitted, together>>
allVars == <<row, live, next, token, pc, saw, arg, tries, raced, crossing, wanted, overtaken,
             accounts, name, beside, reauth, holds, admitted, together>>

AccountsInit ==
  /\ Init
  /\ accounts = (IF live THEN {Own} ELSE {}) /\ name = [t \in Threads |-> NoName] /\ beside = {}
  /\ reauth = [k \in Reauths |-> "none"] /\ holds = [t \in Threads |-> 0]
  /\ admitted = [k \in Reauths |-> 0] /\ together = {}

---------------------------------------------------------------------------
(* register_user *)

Lower(n) == [n EXCEPT !.capital = FALSE]
Strip(n) == [n EXCEPT !.blanks = FALSE]

\* get_user_by_username: the name looked for is stripped, the names in the
\* table are not; the first row found is taken, in no order.
Found(n) == {a \in accounts : Lower(a) = Lower(Strip(n))}

\* Mutant: the name is looked for as it was given, like the e-mail address.
SignUpReadExactly(t, n) ==
  /\ n \notin accounts
  /\ Goto(t, "idle", "signup") /\ name' = [name EXCEPT ![t] = n]
  /\ UNCHANGED <<row, live, next, token, saw, arg, counted, word, accounts, beside, reauths>>

SignUpRead(t, n) ==
  /\ Found(n) = {}
  /\ Goto(t, "idle", "signup") /\ name' = [name EXCEPT ![t] = n]
  /\ beside' = beside \cup
       {m \in {n} \cup {name[q] : q \in Threads} : m # NoName /\ \E q \in Threads : pc[q] = "signup"}
  /\ UNCHANGED <<row, live, next, token, saw, arg, counted, word, accounts, reauths>>

\* The unique index compares the names as they were given.
SignUpCommit(t) ==
  /\ pc[t] = "signup" /\ Finish(t) /\ name' = [name EXCEPT ![t] = NoName]
  /\ accounts' = accounts \cup {name[t]}
  /\ UNCHANGED <<row, live, next, token, counted, word, beside, reauths>>

\* The row goes.
Remove(n) ==
  /\ accounts' = accounts \ {n}
  /\ beside' = beside \ {m \in {n} : \A t \in Threads : name[t] # n}

\* Another account is deleted.
DeleteOther(n) ==
  /\ n \in accounts /\ ~(live /\ n = Own) /\ Remove(n)
  /\ UNCHANGED <<row, live, next, token, session, counted, word, name, reauths>>

---------------------------------------------------------------------------
(* Reauthentication, after verify_user_password *)

ReauthIssue(t) ==
  /\ pc[t] = "passed" /\ live /\ Finish(t)
  /\ \E k \in Reauths :
       /\ reauth[k] = "none" /\ \A j \in Reauths : j < k => reauth[j] # "none"
       /\ reauth' = [reauth EXCEPT ![k] = "open"]
  /\ UNCHANGED <<row, live, next, token, counted, word, users, holds, admitted, together>>

\* consume_reauth_header finds the token unused and in its time.
UseRead(t, k) ==
  /\ live /\ reauth[k] = "open"
  /\ Goto(t, "idle", "use") /\ holds' = [holds EXCEPT ![t] = k]
  /\ together' = together \cup {j \in {k} : \E q \in Threads : holds[q] = k}
  /\ UNCHANGED <<row, live, next, token, saw, arg, counted, word, users, reauth, admitted>>

\* It marks it by its key, whatever happened since, and the request goes on.
\* Mutant: the token is not marked, as that of a recovery is not.
UseUnmarked(t) ==
  /\ Goto(t, "use", "admitted") /\ live
  /\ admitted' = [admitted EXCEPT ![holds[t]] = @ + 1]
  /\ UNCHANGED <<row, live, next, token, saw, arg, counted, word, users, reauth, holds, together>>

UseMark(t) ==
  /\ Goto(t, "use", "admitted") /\ live
  /\ reauth' = [reauth EXCEPT ![holds[t]] = "used"]
  /\ admitted' = [admitted EXCEPT ![holds[t]] = @ + 1]
  /\ UNCHANGED <<row, live, next, token, saw, arg, counted, word, users, holds, together>>

LetGo(t) == holds' = [holds EXCEPT ![t] = 0]

\* Revoking every refresh token is Logout in Sessions.
LogoutAll(t) ==
  /\ pc[t] = "admitted" /\ Finish(t) /\ LetGo(t)
  /\ UNCHANGED <<row, live, next, token, counted, word, users, reauth, admitted, together>>

DeleteOwn(t) ==
  /\ pc[t] = "admitted" /\ DeleteAccount(t) /\ LetGo(t)
  /\ Remove(Own)
  /\ reauth' = [k \in Reauths |-> "none"]
  /\ UNCHANGED <<name, admitted, together>>

---------------------------------------------------------------------------
\* The process dies, or an INSERT or UPDATE fails: a request ends.
GiveUp(t) ==
  /\ Abort(t) /\ LetGo(t) /\ name' = [name EXCEPT ![t] = NoName]
  /\ UNCHANGED <<accounts, beside, reauth, admitted, together>>

AccountsNext ==
  \/ \E t \in Threads :
       \/ Step(t) /\ UNCHANGED <<users, reauths>>
       \/ \E n \in Names : SignUpRead(t, n)
       \/ SignUpCommit(t) \/ ReauthIssue(t)
       \/ \E k \in Reauths : UseRead(t, k)
       \/ UseMark(t) \/ LogoutAll(t) \/ DeleteOwn(t) \/ GiveUp(t)
  \/ Clock /\ UNCHANGED <<users, reauths>>
  \/ \E n \in Names : DeleteOther(n)

AccountsSpec == AccountsInit /\ [][AccountsNext]_allVars

---------------------------------------------------------------------------
(* Properties *)

\* The tables and the threads hold what they may hold.
AccountsTypeOK ==
  /\ accounts \subseteq Names /\ name \in [Threads -> Names \cup {NoName}]
  /\ beside \subseteq Names /\ together \subseteq Reauths
  /\ reauth \in [Reauths -> {"none", "open", "used"}]
  /\ holds \in [Threads -> 0..MaxReauth] /\ admitted \in [Reauths -> Nat]

\* Who asks for an account by its name gets that account and no other: the
\* check ignores the case that the unique index does not, so only
\* registrations that overlap leave two accounts for one name.  A name that
\* was registered with blanks around it is never found: see Found.
FoundByName ==
  \A n \in accounts : Found(n) = {n} \/ n.blanks \/ \E m \in Found(n) : m \in beside

\* A reauthentication token admits one request: only two that held it at once,
\* each having read it as unused, are both let through.
ReauthOnce == \A k \in Reauths : admitted[k] <= 1 \/ k \in together
=============================================================================
