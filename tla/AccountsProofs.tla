--------------------------- MODULE AccountsProofs ---------------------------
(***************************************************************************)
(* Proofs about Recovery and Accounts, for any threads, codes, passwords,  *)
(* names and bounds: how many wrong codes are compared, what a reset sets, *)
(* what a token admits and who is found by a name.                         *)
(***************************************************************************)
EXTENDS Accounts, TLAPS

Trying == {t \in Threads : pc[t] \in {"check", "register"}}

\* Unless requests about the code overlapped, the row counts the tries, locks
\* at the limit, and is as the one who works on it loaded it.
Counting ==
  /\ ~live => tries = 0
  /\ live /\ ~raced =>
    /\ tries <= row.failures
    /\ tries <= Limit /\ (tries = Limit => row.locked = "locked")
    /\ \A t \in Trying :
         /\ saw[t].failures = row.failures
         /\ pc[t] = "check" => row.locked # "locked"
         /\ \A q \in Trying : q = t

\* A login checks the password that was last set, and so does an old hash.
Setting ==
  live /\ ~overtaken =>
    /\ row.pass = wanted
    /\ \A t \in Threads : pc[t] = "login" => saw[t].pass = wanted

\* Who checks a code, or has checked it, did so for the one registered.
Checking ==
  live => \A t \in Threads \ crossing :
    /\ pc[t] = "check" => saw[t].hash = row.hash
    /\ pc[t] = "issue" => arg[t] = row.hash

\* A token is marked in the step that admits a request; who still holds it
\* then held it beside that request.
Spending ==
  /\ \A k \in Reauths : admitted[k] # 0 => reauth[k] # "open" /\ (live => reauth[k] # "none")
  /\ \A t \in Threads : pc[t] = "use" =>
       /\ holds[t] \in Reauths
       /\ admitted[holds[t]] # 0 => holds[t] \in together
  /\ \A t, q \in Threads : t # q /\ holds[t] # 0 /\ holds[t] = holds[q] => holds[t] \in together

Alike(m, n) == Lower(m) = Lower(Strip(n))

\* Of two accounts for one name, or one and a registration, or two of these,
\* one overlapped another.
Naming ==
  /\ \A m, n \in accounts : m # n /\ Alike(m, n) => n.blanks \/ m \in beside \/ n \in beside
  /\ \A t \in Threads : pc[t] = "signup" =>
       /\ name[t] \in Names
       /\ \A m \in accounts : Alike(m, name[t]) => m \in beside \/ name[t] \in beside
       /\ \A q \in Threads \ {t} : pc[q] = "signup" => name[t] \in beside

IInv ==
  /\ TypeOK /\ AccountsTypeOK /\ Counting /\ Setting /\ Checking /\ Spending /\ Naming
  /\ ReauthOnce

USE DEF Points

LEMMA NoRowIsRow == NoRow \in Rows
BY RecoveryAssumption DEF NoRow, Rows, None

\* A row with some columns assigned is a row.
LEMMA CodeAssigned ==
  ASSUME NEW r \in Rows, NEW h \in 0..MaxCode, NEW f \in 0..MaxTries,
         NEW l \in {"never", "locked", "past"}
  PROVE  [r EXCEPT !.hash = h, !.failures = f, !.locked = l] \in Rows
BY DEF Rows

LEMMA TriesAssigned ==
  ASSUME NEW r \in Rows, NEW f \in 0..MaxTries, NEW l \in {"never", "locked", "past"}
  PROVE  [r EXCEPT !.failures = f, !.locked = l] \in Rows
BY DEF Rows

LEMMA PassAssigned ==
  ASSUME NEW r \in Rows, NEW w \in Passwords \cup {None}, NEW o \in BOOLEAN
  PROVE  [r EXCEPT !.pass = w, !.old = o] \in Rows
BY DEF Rows

LEMMA InitIInv == AccountsInit => IInv
<1> SUFFICES ASSUME AccountsInit PROVE IInv
  OBVIOUS
<1> USE RecoveryAssumption, AccountsAssumption
<1>1. live \in BOOLEAN /\ row \in Rows /\ row.failures = 0
  <2>1. \/ live = FALSE /\ row = NoRow
        \/ live = TRUE /\ \E w \in Passwords, o \in BOOLEAN :
                            row = [NoRow EXCEPT !.pass = w, !.old = o]
    BY DEF AccountsInit, Init
  <2>2. ASSUME NEW w \in Passwords, NEW o \in BOOLEAN, row = [NoRow EXCEPT !.pass = w, !.old = o]
        PROVE  row \in Rows /\ row.failures = 0
    <3>1. w \in Passwords \cup {None}
      OBVIOUS
    <3>2. row \in Rows
      BY <2>2, <3>1, NoRowIsRow, PassAssigned
    <3> QED BY <2>2, <3>2 DEF NoRow
  <2>3. row = NoRow => row \in Rows /\ row.failures = 0
    BY NoRowIsRow DEF NoRow
  <2> QED BY ONLY <2>1, <2>2, <2>3
<1>2. /\ wanted = row.pass /\ overtaken = FALSE /\ next = 1 /\ token = None
      /\ pc = [t \in Threads |-> "idle"]
      /\ saw = [t \in Threads |-> NoRow] /\ arg = [t \in Threads |-> None]
      /\ tries = 0 /\ raced = FALSE /\ crossing = {}
  BY DEF AccountsInit, Init
<1>3. /\ accounts = (IF live THEN {Own} ELSE {}) /\ name = [t \in Threads |-> NoName]
      /\ beside = {} /\ reauth = [k \in Reauths |-> "none"] /\ holds = [t \in Threads |-> 0]
      /\ admitted = [k \in Reauths |-> 0] /\ together = {}
  BY DEF AccountsInit
<1>4. TypeOK
  <2>1. 0 \in 0..MaxCode /\ 1 \in 1..(MaxCode + 1) /\ 0 \in 0..MaxTries
    OBVIOUS
  <2>2. wanted \in Passwords \cup {None}
    BY <1>1, <1>2 DEF Rows
  <2> QED BY <1>1, <1>2, <2>1, <2>2, NoRowIsRow DEF TypeOK, None
<1>5. AccountsTypeOK
  BY <1>1, <1>3 DEF AccountsTypeOK
<1>6. Counting /\ Setting /\ Checking
  BY <1>1, <1>2 DEF Counting, Setting, Checking, Trying
<1>7. Spending /\ Naming /\ ReauthOnce
  BY <1>1, <1>2, <1>3 DEF Spending, Naming, ReauthOnce, Alike
<1> QED BY <1>4, <1>5, <1>6, <1>7 DEF IInv

LEMMA FlushAssigns ==
  ASSUME row \in Rows, NEW t \in Threads, NEW h \in 0..MaxCode, Flush(t, h, 0, "never")
  PROVE  row' \in Rows /\ row'.pass = row.pass /\ (h = saw[t].hash => row'.hash = row.hash)
<1> DEFINE hash == IF h = saw[t].hash THEN row.hash ELSE h
           failures == IF 0 = saw[t].failures THEN row.failures ELSE 0
           locked == IF "never" = saw[t].locked THEN row.locked ELSE "never"
<1>1. hash \in 0..MaxCode /\ failures \in 0..MaxTries /\ locked \in {"never", "locked", "past"}
  BY RecoveryAssumption DEF Rows
<1>2. row' = [row EXCEPT !.hash = hash, !.failures = failures, !.locked = locked]
  BY DEF Flush, Rows
<1> HIDE DEF hash, failures, locked
<1>3. row' \in Rows
  BY <1>1, <1>2, CodeAssigned
<1>4. row'.pass = row.pass /\ row'.hash = hash
  BY <1>2 DEF Rows
<1> QED BY <1>3, <1>4 DEF hash

\* What the threads hold has its types, and only t changed.
Moved(t) ==
  /\ pc' \in [Threads -> Points] /\ saw' \in [Threads -> Rows]
  /\ arg' \in [Threads -> 0..MaxCode \cup Passwords]
  /\ \A q \in Threads \ {t} : pc'[q] = pc[q] /\ saw'[q] = saw[q] /\ arg'[q] = arg[q]

LEMMA FinishMoves ==
  ASSUME TypeOK, NEW t \in Threads, Finish(t)
  PROVE  Moved(t) /\ pc'[t] = "idle"
<1>1. None \in 0..MaxCode
  BY RecoveryAssumption DEF None
<1> QED BY <1>1, NoRowIsRow DEF TypeOK, Finish, Moved

LEMMA GotoMoves ==
  ASSUME TypeOK, NEW t \in Threads, NEW from, NEW to \in Points, Goto(t, from, to),
         NEW s \in Rows, saw' = saw \/ saw' = [saw EXCEPT ![t] = s],
         NEW a \in 0..MaxCode \cup Passwords, arg' = arg \/ arg' = [arg EXCEPT ![t] = a]
  PROVE  /\ Moved(t) /\ pc[t] = from /\ pc'[t] = to
         /\ saw' # saw => saw'[t] = s
         /\ arg' # arg => arg'[t] = a
BY DEF TypeOK, Goto, Moved

\* The accounts and tokens do not notice what Recovery does.
LEMMA AccountsKept ==
  ASSUME IInv, UNCHANGED <<users, reauths, live>>,
         \A q \in Threads : pc'[q] \in {"use", "signup"} => pc'[q] = pc[q]
  PROVE  AccountsTypeOK' /\ Spending' /\ Naming' /\ ReauthOnce'
<1> USE DEF IInv, users, reauths
<1>1. AccountsTypeOK' /\ ReauthOnce'
  BY DEF AccountsTypeOK, ReauthOnce
<1>2. Spending'
  BY DEF Spending
<1>3. Naming'
  BY DEF Naming, Alike, Lower, Strip
<1> QED BY <1>1, <1>2, <1>3

\* A step of t that is not about the row, and leaves t out of what is.
LEMMA RecoveryKept ==
  ASSUME IInv, NEW t \in Threads, Moved(t), UNCHANGED <<row, live, counted, word>>,
         next' \in 1..(MaxCode + 1), token' \in 0..MaxCode,
         pc'[t] \notin {"register", "check", "issue", "login"},
         pc'[t] = "reset" => arg'[t] \in Passwords
  PROVE  TypeOK' /\ Counting' /\ Setting' /\ Checking'
<1> USE DEF IInv, counted, word
<1>1. TypeOK'
  BY DEF TypeOK, Moved
<1>2. Counting'
  BY DEF Counting, Trying, Moved
<1>3. Setting' /\ Checking'
  BY DEF Setting, Checking, Moved
<1> QED BY <1>1, <1>2, <1>3

LEMMA PassedMoves ==
  ASSUME TypeOK, NEW t \in Threads, Passed(t)
  PROVE  Moved(t) /\ pc'[t] = "passed"
<1>1. None \in 0..MaxCode
  BY RecoveryAssumption DEF None
<1> QED BY <1>1, NoRowIsRow DEF TypeOK, Passed, Goto, Moved

\* The password of the row is one that t was given.
Reworded(t) ==
  /\ row' = [row EXCEPT !.pass = arg[t], !.old = FALSE]
  /\ wanted' \in {wanted, arg[t]} /\ overtaken' \in BOOLEAN

LEMMA RewordedKept ==
  ASSUME IInv, NEW t \in Threads, Moved(t), Reworded(t), arg[t] \in Passwords,
         UNCHANGED <<live, next, token, counted>>, pc'[t] \in {"idle", "passed"}
  PROVE  TypeOK' /\ Counting' /\ Checking'
<1> USE DEF IInv, counted, Reworded
<1>1. row' \in Rows
  <2>1. row \in Rows /\ arg[t] \in Passwords \cup {None} /\ FALSE \in BOOLEAN
    BY DEF TypeOK
  <2> QED BY <2>1, PassAssigned
<1>2. row'.hash = row.hash /\ row'.failures = row.failures /\ row'.locked = row.locked
  BY DEF TypeOK, Rows
<1>3. TypeOK'
  BY <1>1 DEF TypeOK, Moved
<1>4. Counting' /\ Checking'
  BY <1>2 DEF Counting, Checking, Trying, Moved
<1> QED BY <1>3, <1>4

LEMMA CodeStep ==
  ASSUME IInv, NEW t \in Threads, UNCHANGED <<users, reauths>>,
         \/ RegisterRead(t) \/ RegisterCommit(t)
         \/ \E g \in {None} \cup 1..row.hash : VerifyRead(t, g)
         \/ VerifyWrong(t) \/ VerifyRight(t) \/ VerifyIssue(t)
  PROVE  IInv'
<1> USE RecoveryAssumption, NoRowIsRow DEF IInv
<1>1. CASE RegisterRead(t)
  <2> USE <1>1 DEF RegisterRead, Load, AboutCode, word
  <2> DEFINE s == [NoRow EXCEPT !.failures = row.failures, !.locked = row.locked]
  <2>1. s \in Rows /\ next \in 0..MaxCode
    <3>1. row.failures \in 0..MaxTries /\ row.locked \in {"never", "locked", "past"}
      BY DEF TypeOK, Rows
    <3>2. s \in Rows
      BY ONLY <3>1, NoRowIsRow, TriesAssigned
    <3> QED BY <3>2 DEF TypeOK, Codes
  <2>2. Moved(t) /\ pc[t] = "idle" /\ pc'[t] = "register"
    BY <2>1 DEF TypeOK, Goto, Moved
  <2>3. saw'[t] = s /\ arg'[t] = next /\ s.failures = row.failures
    BY DEF TypeOK, NoRow
  <2>4. TypeOK'
    BY <2>1, <2>2, <2>3 DEF TypeOK, Moved, Codes
  <2>5. Counting'
    <3>1. \A q \in Trying' : q # t => q \in Trying
      BY <2>2 DEF Trying, Moved
    <3>2. ~raced' => ~raced /\ \A q \in Trying' : q = t
      BY <3>1 DEF Trying, Others
    <3>3. saw'[t].failures = row'.failures /\ (pc'[t] = "check" => row'.locked # "locked")
      BY <2>2, <2>3
    <3>4. tries' = tries /\ row' = row /\ live' = live
      OBVIOUS
    <3> QED BY ONLY <3>2, <3>3, <3>4, Counting DEF Counting
  <2>6. Setting' /\ Checking'
    BY <2>2 DEF Setting, Checking, Moved
  <2> QED BY <2>2, <2>4, <2>5, <2>6, AccountsKept DEF Moved
<1>2. CASE RegisterCommit(t)
  <2> USE <1>2 DEF RegisterCommit, Restart, word
  <2>1. Moved(t) /\ pc'[t] = "idle"
    BY FinishMoves
  <2>2. row' \in Rows /\ row'.pass = row.pass
    BY FlushAssigns DEF TypeOK
  <2>3. TypeOK'
    BY <2>1, <2>2 DEF TypeOK, Moved, Others
  <2>4. Counting'
    BY <2>1, <2>2 DEF Counting, Trying, Moved, Others, Rows
  <2>5. Setting' /\ Checking'
    BY <2>1, <2>2 DEF Setting, Checking, Moved
  <2> QED BY <2>1, <2>3, <2>4, <2>5, AccountsKept DEF Moved
<1>3. ASSUME NEW g \in {None} \cup 1..row.hash, VerifyRead(t, g) PROVE IInv'
  <2> USE <1>3 DEF VerifyRead, Load, AboutCode, word
  <2> DEFINE s == [row EXCEPT !.pass = None, !.old = FALSE]
  <2>1. s \in Rows /\ g \in 0..MaxCode
    <3>1. row.hash \in 0..MaxCode
      BY DEF TypeOK, Rows
    <3>2. s \in Rows
      <4>1. row \in Rows /\ None \in Passwords \cup {None} /\ FALSE \in BOOLEAN
        BY DEF TypeOK
      <4> QED BY ONLY <4>1, PassAssigned
    <3> QED BY <3>1, <3>2 DEF None
  <2>2. Moved(t) /\ pc[t] = "idle" /\ pc'[t] = "check"
    BY <2>1 DEF TypeOK, Goto, Moved
  <2>3. saw'[t] = s /\ arg'[t] = g /\ s.failures = row.failures /\ s.hash = row.hash
    BY DEF TypeOK, Rows
  <2>4. TypeOK'
    BY <2>1, <2>2, <2>3 DEF TypeOK, Moved
  <2>5. Counting'
    <3>1. \A q \in Trying' : q # t => q \in Trying
      BY <2>2 DEF Trying, Moved
    <3>2. ~raced' => ~raced /\ \A q \in Trying' : q = t
      BY <3>1 DEF Trying, Others
    <3>3. saw'[t].failures = row'.failures /\ (pc'[t] = "check" => row'.locked # "locked")
      BY <2>2, <2>3
    <3>4. tries' = tries /\ row' = row /\ live' = live
      OBVIOUS
    <3> QED BY ONLY <3>2, <3>3, <3>4, Counting DEF Counting
  <2>6. Setting' /\ Checking'
    BY <2>2, <2>3 DEF Setting, Checking, Moved
  <2> QED BY <2>2, <2>4, <2>5, <2>6, AccountsKept DEF Moved
<1>4. CASE VerifyWrong(t)
  <2> USE <1>4 DEF VerifyWrong, word
  <2>1. Moved(t) /\ pc'[t] = "idle"
    BY FinishMoves
  <2>2. saw[t].failures \in 0..MaxTries /\ saw[t].failures + 1 \in 0..MaxTries
    BY DEF TypeOK, Rows
  <2>3. /\ row' \in Rows /\ row'.pass = row.pass /\ row'.hash = row.hash
        /\ row'.failures = saw[t].failures + 1
        /\ row'.failures >= Limit => row'.locked = "locked"
    BY <2>2 DEF TypeOK, Rows, Locked
  <2>4. TypeOK'
    BY <2>1, <2>3 DEF TypeOK, Moved
  <2>5. Counting'
    <3> SUFFICES ASSUME live, ~raced PROVE Counting'
      BY DEF Counting
    <3>1. t \in Trying /\ Trying = {t} /\ saw[t].failures = row.failures /\ row.locked # "locked"
      BY DEF Counting, Trying
    <3>2. tries' = tries + 1 /\ tries \in Nat /\ tries <= row.failures /\ tries < Limit
      BY <3>1 DEF Counting, TypeOK
    <3>3. Trying' = {}
      BY <2>1, <3>1 DEF Trying, Moved
    <3> QED BY <2>2, <2>3, <3>1, <3>2, <3>3 DEF Counting
  <2>6. Setting' /\ Checking'
    BY <2>1, <2>3 DEF Setting, Checking, Moved
  <2> QED BY <2>1, <2>4, <2>5, <2>6, AccountsKept DEF Moved
<1>5. CASE VerifyRight(t)
  <2> USE <1>5 DEF VerifyRight, Restart, word
  <2>1. Moved(t) /\ pc'[t] = "issue"
    BY DEF TypeOK, Moved
  <2>2. row' \in Rows /\ row'.pass = row.pass /\ row'.hash = row.hash
    <3>1. saw[t].hash \in 0..MaxCode
      BY DEF TypeOK, Rows
    <3> QED BY <3>1, FlushAssigns DEF TypeOK
  <2>3. TypeOK'
    BY <2>1, <2>2 DEF TypeOK, Moved, Others
  <2>4. Counting'
    BY <2>1, <2>2 DEF Counting, Trying, Moved, Others, Rows
  <2>5. Setting' /\ Checking'
    BY <2>1, <2>2 DEF Setting, Checking, Moved, Matches
  <2> QED BY <2>1, <2>3, <2>4, <2>5, AccountsKept DEF Moved
<1>6. CASE VerifyIssue(t)
  <2> USE <1>6 DEF VerifyIssue
  <2>1. Moved(t) /\ pc'[t] = "idle"
    BY FinishMoves
  <2>2. next' \in 1..(MaxCode + 1) /\ token' \in 0..MaxCode
    BY DEF TypeOK
  <2> QED BY <2>1, <2>2, RecoveryKept, AccountsKept DEF Moved
<1> QED BY <1>1, <1>2, <1>3, <1>4, <1>5, <1>6

LEMMA PasswordStep ==
  ASSUME IInv, NEW t \in Threads, UNCHANGED <<users, reauths>>,
         \/ \E w \in Passwords : ResetRead(t, w) \/ LoginRead(t, w)
         \/ ResetCommit(t) \/ LoginRefused(t) \/ LoginAccepted(t)
         \/ LoginRehash(t) \/ LoginEnd(t)
  PROVE  IInv'
<1> USE RecoveryAssumption, NoRowIsRow DEF IInv
<1>1. ASSUME NEW w \in Passwords, ResetRead(t, w) PROVE IInv'
  <2> USE <1>1 DEF ResetRead
  <2>1. Moved(t) /\ pc'[t] = "reset" /\ arg'[t] = w
    BY DEF TypeOK, Goto, Moved
  <2>2. next' \in 1..(MaxCode + 1) /\ token' \in 0..MaxCode
    BY DEF TypeOK
  <2> QED BY <2>1, <2>2, RecoveryKept, AccountsKept DEF Moved
<1>2. ASSUME NEW w \in Passwords, LoginRead(t, w) PROVE IInv'
  <2> USE <1>2 DEF LoginRead, Load, counted, word
  <2> DEFINE s == [NoRow EXCEPT !.pass = row.pass, !.old = row.old]
  <2>1. s \in Rows
    <3>1. row.pass \in Passwords \cup {None} /\ row.old \in BOOLEAN
      BY DEF TypeOK, Rows
    <3> QED BY ONLY <3>1, NoRowIsRow, PassAssigned
  <2>2. Moved(t) /\ pc'[t] = "login"
    BY <2>1 DEF TypeOK, Goto, Moved
  <2>3. saw'[t] = s /\ arg'[t] = w /\ s.pass = row.pass
    BY DEF TypeOK, NoRow
  <2>4. TypeOK'
    BY <2>2, <2>3 DEF TypeOK, Moved
  <2>5. Counting' /\ Checking'
    BY <2>2 DEF Counting, Checking, Trying, Moved
  <2>6. Setting'
    BY <2>2, <2>3 DEF Setting, Moved
  <2> QED BY <2>2, <2>4, <2>5, <2>6, AccountsKept DEF Moved
<1>3. CASE ResetCommit(t)
  <2> USE <1>3 DEF ResetCommit, counted
  <2>1. Moved(t) /\ pc'[t] = "idle" /\ arg[t] \in Passwords
    BY FinishMoves DEF TypeOK
  <2>2. Reworded(t)
    BY <2>1 DEF Reworded
  <2>3. TypeOK' /\ Counting' /\ Checking'
    BY <2>1, <2>2, RewordedKept DEF Moved
  <2>4. Setting'
    BY <2>1, <2>2 DEF TypeOK, Rows, Setting, Moved, Reworded
  <2> QED BY <2>1, <2>3, <2>4, AccountsKept DEF Moved
<1>4. CASE LoginRefused(t) \/ LoginEnd(t)
  <2> USE <1>4 DEF LoginRefused, LoginEnd
  <2>1. Moved(t) /\ pc'[t] = "idle"
    BY FinishMoves
  <2>2. next' \in 1..(MaxCode + 1) /\ token' \in 0..MaxCode
    BY DEF TypeOK
  <2> QED BY <2>1, <2>2, RecoveryKept, AccountsKept DEF Moved
<1>5. CASE LoginAccepted(t)
  <2> USE <1>5 DEF LoginAccepted
  <2>1. Moved(t) /\ pc'[t] = "passed"
    BY PassedMoves
  <2>2. next' \in 1..(MaxCode + 1) /\ token' \in 0..MaxCode
    BY DEF TypeOK
  <2> QED BY <2>1, <2>2, RecoveryKept, AccountsKept DEF Moved
<1>6. CASE LoginRehash(t)
  <2> USE <1>6 DEF LoginRehash, counted, word
  <2>1. Moved(t) /\ pc[t] = "login" /\ pc'[t] = "passed" /\ arg[t] \in Passwords
    BY PassedMoves DEF TypeOK, Passed, Goto
  <2>2. Reworded(t)
    BY <2>1 DEF Reworded, TypeOK
  <2>3. TypeOK' /\ Counting' /\ Checking'
    BY <2>1, <2>2, RewordedKept DEF Moved
  <2>4. Setting'
    <3>1. live /\ ~overtaken => arg[t] = wanted
      BY <2>1 DEF Setting, Accepts
    <3> QED BY <2>1, <2>2, <3>1 DEF TypeOK, Rows, Setting, Moved, Reworded
  <2> QED BY <2>1, <2>3, <2>4, AccountsKept DEF Moved
<1> QED BY <1>1, <1>2, <1>3, <1>4, <1>5, <1>6

LEMMA ClockStep ==
  ASSUME IInv, Clock, UNCHANGED <<users, reauths>>
  PROVE  IInv'
<1> USE RecoveryAssumption DEF IInv, Clock, session, counted, word
<1>1. CASE TokenEnds
  BY <1>1, AccountsKept DEF TokenEnds, TypeOK, None, Counting, Setting, Checking, Trying
<1>2. CASE LockEnds
  <2> USE <1>2 DEF LockEnds
  <2>1. row' \in Rows /\ row'.pass = row.pass /\ row'.hash = row.hash
    BY DEF TypeOK, Rows
  <2>2. TypeOK'
    BY <2>1 DEF TypeOK
  <2>3. Counting'
    BY <2>1 DEF Counting, Trying, Rows
  <2>4. Setting' /\ Checking'
    BY <2>1 DEF Setting, Checking
  <2> QED BY <2>2, <2>3, <2>4, AccountsKept
<1> QED BY <1>1, <1>2

---------------------------------------------------------------------------
(* Names and reauthentication tokens *)

\* Two names that are one but for capitals are so either way round.
LEMMA AlikeSym ==
  ASSUME NEW m \in Names, NEW n \in Names, Alike(m, n), ~n.blanks
  PROVE  Alike(n, m)
<1> USE AccountsAssumption
<1>1. m = [capital |-> m.capital, blanks |-> m.blanks] /\ n = [capital |-> n.capital, blanks |-> n.blanks]
  OBVIOUS
<1>2. Lower(m).blanks = m.blanks /\ Lower(Strip(n)).blanks = FALSE
  BY <1>1 DEF Lower, Strip
<1>3. Strip(m) = m /\ Strip(n) = n
  BY <1>1, <1>2 DEF Strip, Alike
<1> QED BY <1>3 DEF Alike

\* The name's account goes.
LEMMA Removed ==
  ASSUME IInv, NEW n \in Names, Remove(n), UNCHANGED name,
         \A t \in Threads : pc'[t] = "signup" => pc[t] = "signup"
  PROVE  Naming' /\ accounts' \subseteq Names /\ beside' \subseteq Names
<1> USE DEF IInv, Remove
<1>1. accounts' \subseteq Names /\ beside' \subseteq Names
  BY DEF AccountsTypeOK
<1>2. \A m \in accounts' : m \in beside => m \in beside'
  OBVIOUS
<1>3. \A t \in Threads : name[t] \in beside => name[t] \in beside'
  OBVIOUS
<1>4. Naming'
  BY <1>2, <1>3 DEF Naming, Alike, Lower, Strip
<1> QED BY <1>1, <1>4

LEMMA SignUpStep ==
  ASSUME IInv, NEW t \in Threads,
         SignUpCommit(t) \/ \E n \in Names : SignUpRead(t, n)
  PROVE  IInv'
<1> USE DEF IInv, reauths
<1>1. ASSUME NEW n \in Names, SignUpRead(t, n) PROVE IInv'
  <2> USE <1>1 DEF SignUpRead
  <2>1. Moved(t) /\ pc'[t] = "signup"
    BY DEF TypeOK, Goto, Moved
  <2>2. next' \in 1..(MaxCode + 1) /\ token' \in 0..MaxCode
    BY DEF TypeOK
  <2>3. TypeOK' /\ Counting' /\ Setting' /\ Checking'
    BY <2>1, <2>2, RecoveryKept
  <2>4. beside \subseteq beside' /\ beside' \subseteq Names
    BY AccountsAssumption DEF AccountsTypeOK
  <2>5. AccountsTypeOK' /\ ReauthOnce'
    BY <2>4 DEF AccountsTypeOK, ReauthOnce
  <2>6. Spending'
    BY <2>1 DEF Spending, Moved
  <2>7. \A m \in accounts : ~Alike(m, n)
    BY DEF Found, Alike
  <2>8. \A q \in Threads \ {t} : pc[q] = "signup" => n \in beside' /\ name[q] \in beside'
    BY AccountsAssumption DEF Naming
  <2>9. name' \in [Threads -> Names \cup {NoName}] /\ name'[t] = n
    BY DEF AccountsTypeOK
  <2>10. Naming'
    <3>1. \A m, k \in accounts : m # k /\ Alike(m, k) => k.blanks \/ m \in beside' \/ k \in beside'
      BY <2>4 DEF Naming
    <3>2. ASSUME NEW q \in Threads, pc'[q] = "signup"
          PROVE  /\ name'[q] \in Names
                 /\ \A m \in accounts : Alike(m, name'[q]) => m \in beside' \/ name'[q] \in beside'
                 /\ \A r \in Threads \ {q} : pc'[r] = "signup" => name'[q] \in beside'
      <4>1. CASE q = t
        BY <4>1, <2>1, <2>7, <2>8, <2>9 DEF Moved
      <4>2. CASE q # t
        <5>1. pc[q] = "signup" /\ name'[q] = name[q]
          BY <4>2, <3>2, <2>1 DEF Moved, AccountsTypeOK
        <5> QED BY <4>2, <5>1, <2>4, <2>8 DEF Naming
      <4> QED BY <4>1, <4>2
    <3> QED BY <3>1, <3>2 DEF Naming, Alike, Lower, Strip
  <2> QED BY <2>3, <2>5, <2>6, <2>10
<1>2. CASE SignUpCommit(t)
  <2> USE <1>2 DEF SignUpCommit
  <2>1. Moved(t) /\ pc'[t] = "idle"
    BY FinishMoves
  <2>2. next' \in 1..(MaxCode + 1) /\ token' \in 0..MaxCode
    BY DEF TypeOK
  <2>3. TypeOK' /\ Counting' /\ Setting' /\ Checking'
    BY <2>1, <2>2, RecoveryKept
  <2>4. name[t] \in Names
    BY DEF Naming
  <2>5. AccountsTypeOK' /\ ReauthOnce'
    BY <2>4 DEF AccountsTypeOK, ReauthOnce
  <2>6. Spending'
    BY <2>1 DEF Spending, Moved
  <2>7. \A q \in Threads \ {t} : name'[q] = name[q] /\ pc'[q] = pc[q]
    BY <2>1 DEF AccountsTypeOK, Moved
  <2>8. ASSUME NEW m \in accounts', NEW n \in accounts', m # n, Alike(m, n), ~n.blanks
        PROVE  m \in beside \/ n \in beside
    <3>1. m \in Names /\ n \in Names
      BY <2>5 DEF AccountsTypeOK
    <3>2. Alike(n, m)
      BY <2>8, <3>1, AlikeSym
    <3> QED BY <2>8, <3>2 DEF Naming
  <2>9. ASSUME NEW q \in Threads, pc'[q] = "signup"
        PROVE  /\ name'[q] \in Names
               /\ \A m \in accounts' : Alike(m, name'[q]) => m \in beside \/ name'[q] \in beside
               /\ \A r \in Threads \ {q} : pc'[r] = "signup" => name'[q] \in beside
    <3>1. q # t /\ pc[q] = "signup" /\ name'[q] = name[q]
      BY <2>1, <2>7, <2>9
    <3>2. name[t] \in beside
      BY <3>1 DEF Naming
    <3> QED BY <2>1, <2>7, <3>1, <3>2 DEF Naming
  <2>10. Naming'
    BY <2>8, <2>9 DEF Naming, Alike, Lower, Strip
  <2> QED BY <2>3, <2>5, <2>6, <2>10
<1> QED BY <1>1, <1>2

\* The names do not notice what happens to the tokens.
LEMMA NamingKept ==
  ASSUME IInv, UNCHANGED <<accounts, beside>>,
         \A q \in Threads : pc'[q] = "signup" => pc[q] = "signup" /\ name'[q] = name[q]
  PROVE  Naming'
BY DEF IInv, Naming, Alike, Lower, Strip

LEMMA TokenStep ==
  ASSUME IInv, NEW t \in Threads,
         \/ ReauthIssue(t) \/ \E k \in Reauths : UseRead(t, k)
         \/ UseMark(t) \/ LogoutAll(t) \/ GiveUp(t)
  PROVE  IInv'
<1> USE DEF IInv, users, word, counted
<1>1. next' \in 1..(MaxCode + 1) /\ token' \in 0..MaxCode
  BY DEF TypeOK, ReauthIssue, UseRead, UseMark, LogoutAll, GiveUp, Abort
<1>2. CASE ReauthIssue(t)
  <2> USE <1>2 DEF ReauthIssue
  <2>1. Moved(t) /\ pc'[t] = "idle"
    BY FinishMoves
  <2>2. TypeOK' /\ Counting' /\ Setting' /\ Checking'
    BY <1>1, <2>1, RecoveryKept
  <2>3. PICK k \in Reauths : reauth[k] = "none" /\ reauth' = [reauth EXCEPT ![k] = "open"]
    OBVIOUS
  <2>4. AccountsTypeOK' /\ ReauthOnce'
    BY <2>3 DEF AccountsTypeOK, ReauthOnce
  <2>5. Spending'
    BY <2>1, <2>3 DEF AccountsTypeOK, Spending, Moved
  <2>6. Naming'
    BY <2>1, NamingKept DEF Moved
  <2> QED BY <2>2, <2>4, <2>5, <2>6
<1>3. ASSUME NEW k \in Reauths, UseRead(t, k) PROVE IInv'
  <2> USE <1>3 DEF UseRead
  <2>1. Moved(t) /\ pc'[t] = "use"
    BY DEF TypeOK, Goto, Moved
  <2>2. TypeOK' /\ Counting' /\ Setting' /\ Checking'
    BY <1>1, <2>1, RecoveryKept
  <2>3. AccountsTypeOK' /\ ReauthOnce'
    <3>1. holds' \in [Threads -> 0..MaxReauth]
      BY AccountsAssumption DEF AccountsTypeOK, Reauths
    <3>2. together \subseteq together' /\ together' \subseteq Reauths
      BY DEF AccountsTypeOK
    <3> QED BY <3>1, <3>2 DEF AccountsTypeOK, ReauthOnce
  <2>4. Spending'
    <3>1. holds'[t] = k /\ \A q \in Threads \ {t} : holds'[q] = holds[q]
      BY DEF AccountsTypeOK
    <3>2. admitted[k] = 0
      BY DEF Spending, AccountsTypeOK
    <3>3. \A q \in Threads : holds[q] = k => k \in together'
      OBVIOUS
    <3>4. together \subseteq together'
      OBVIOUS
    <3> QED BY <2>1, <3>1, <3>2, <3>3, <3>4 DEF Spending, Moved
  <2>5. Naming'
    BY <2>1, NamingKept DEF Moved
  <2> QED BY <2>2, <2>3, <2>4, <2>5
<1>4. CASE UseMark(t)
  <2> USE <1>4 DEF UseMark
  <2>1. Moved(t) /\ pc[t] = "use" /\ pc'[t] = "admitted"
    BY DEF TypeOK, Goto, Moved
  <2>2. TypeOK' /\ Counting' /\ Setting' /\ Checking'
    BY <1>1, <2>1, RecoveryKept
  <2> DEFINE h == holds[t]
  <2>3. h \in Reauths /\ h # 0 /\ admitted[h] \in Nat
    BY <2>1 DEF Spending, AccountsTypeOK, Reauths
  <2>4. /\ reauth'[h] = "used" /\ admitted'[h] = admitted[h] + 1
        /\ \A k \in Reauths \ {h} : reauth'[k] = reauth[k] /\ admitted'[k] = admitted[k]
    BY <2>3 DEF AccountsTypeOK
  <2>5. AccountsTypeOK'
    BY <2>3 DEF AccountsTypeOK
  <2>6. ReauthOnce'
    <3>1. admitted[h] = 0 \/ h \in together
      BY <2>1 DEF Spending
    <3> QED BY <2>3, <2>4, <3>1 DEF ReauthOnce
  <2>7. Spending'
    <3>1. \A k \in Reauths : admitted'[k] # 0 => reauth'[k] # "open" /\ (live' => reauth'[k] # "none")
      BY <2>3, <2>4 DEF Spending
    <3>2. ASSUME NEW q \in Threads, pc'[q] = "use"
          PROVE  holds[q] \in Reauths /\ (admitted'[holds[q]] # 0 => holds[q] \in together)
      <4>1. q # t /\ pc[q] = "use"
        BY <2>1, <3>2 DEF Moved
      <4> QED BY <2>3, <2>4, <4>1 DEF Spending
    <3> QED BY <3>1, <3>2 DEF Spending
  <2>8. Naming'
    BY <2>1, NamingKept DEF Moved
  <2> QED BY <2>2, <2>5, <2>6, <2>7, <2>8
<1>5. CASE LogoutAll(t) \/ GiveUp(t)
  <2> USE <1>5 DEF LogoutAll, GiveUp, Abort, LetGo
  <2>1. Moved(t) /\ pc'[t] = "idle"
    BY FinishMoves
  <2>2. TypeOK' /\ Counting' /\ Setting' /\ Checking'
    BY <1>1, <2>1, RecoveryKept
  <2>3. AccountsTypeOK' /\ ReauthOnce'
    BY AccountsAssumption DEF AccountsTypeOK, ReauthOnce
  <2>4. holds'[t] = 0 /\ \A q \in Threads \ {t} : holds'[q] = holds[q] /\ name'[q] = name[q]
    BY DEF AccountsTypeOK
  <2>5. Spending'
    BY <2>1, <2>4 DEF Spending, Moved
  <2>6. Naming'
    BY <2>1, <2>4, NamingKept DEF Moved
  <2> QED BY <2>2, <2>3, <2>5, <2>6
<1> QED BY <1>2, <1>3, <1>4, <1>5

LEMMA DeleteStep ==
  ASSUME IInv,
         (\E n \in Names : DeleteOther(n)) \/ \E t \in Threads : DeleteOwn(t)
  PROVE  IInv'
<1> USE DEF IInv, users, reauths, session, word, counted
<1>1. ASSUME NEW n \in Names, DeleteOther(n) PROVE IInv'
  <2> USE <1>1 DEF DeleteOther
  <2>1. Naming' /\ accounts' \subseteq Names /\ beside' \subseteq Names
    BY Removed
  <2>2. TypeOK' /\ Counting' /\ Setting' /\ Checking'
    BY DEF TypeOK, Counting, Setting, Checking, Trying
  <2>3. AccountsTypeOK' /\ ReauthOnce' /\ Spending'
    BY <2>1 DEF AccountsTypeOK, ReauthOnce, Spending
  <2> QED BY <2>1, <2>2, <2>3
<1>2. ASSUME NEW t \in Threads, DeleteOwn(t) PROVE IInv'
  <2> USE <1>2 DEF DeleteOwn, DeleteAccount, LetGo
  <2>1. Moved(t) /\ pc'[t] = "idle"
    BY FinishMoves
  <2>2. Naming' /\ accounts' \subseteq Names /\ beside' \subseteq Names
    BY <2>1, Removed, AccountsAssumption DEF Moved
  <2>3. TypeOK'
    <3>1. 0 \in 0..MaxCode /\ 0 \in 0..MaxTries /\ next' \in 1..(MaxCode + 1)
      BY RecoveryAssumption DEF TypeOK
    <3> QED BY <2>1, <3>1, NoRowIsRow DEF TypeOK, Moved, None
  <2>4. Counting' /\ Setting' /\ Checking'
    BY DEF Counting, Setting, Checking
  <2>5. AccountsTypeOK' /\ ReauthOnce'
    BY <2>2, AccountsAssumption DEF AccountsTypeOK, ReauthOnce
  <2>6. holds'[t] = 0 /\ \A q \in Threads \ {t} : holds'[q] = holds[q]
    BY DEF AccountsTypeOK
  <2>7. Spending'
    BY <2>1, <2>6 DEF Spending, Moved
  <2> QED BY <2>2, <2>3, <2>4, <2>5, <2>7
<1> QED BY <1>1, <1>2

LEMMA StepIInv ==
  ASSUME IInv, [AccountsNext]_allVars
  PROVE  IInv'
<1>1. CASE UNCHANGED allVars
  <2> USE <1>1 DEF IInv, allVars
  <2>1. TypeOK' /\ AccountsTypeOK' /\ Counting' /\ Setting' /\ Checking'
    BY DEF TypeOK, AccountsTypeOK, Counting, Setting, Checking, Trying
  <2>2. Spending' /\ Naming' /\ ReauthOnce'
    BY DEF Spending, Naming, ReauthOnce, Alike, Lower, Strip
  <2> QED BY <2>1, <2>2
<1>2. ASSUME NEW t \in Threads, Step(t), UNCHANGED <<users, reauths>> PROVE IInv'
  BY <1>2, CodeStep, PasswordStep DEF Step
<1>3. ASSUME NEW t \in Threads,
             \/ \E n \in Names : SignUpRead(t, n)
             \/ SignUpCommit(t) \/ ReauthIssue(t)
             \/ \E k \in Reauths : UseRead(t, k)
             \/ UseMark(t) \/ LogoutAll(t) \/ DeleteOwn(t) \/ GiveUp(t)
      PROVE  IInv'
  BY <1>3, SignUpStep, TokenStep, DeleteStep
<1>4. CASE AccountsNext
  BY <1>2, <1>3, <1>4, ClockStep, DeleteStep DEF AccountsNext
<1> QED BY <1>1, <1>4

LEMMA Invariance == AccountsSpec => []IInv
BY InitIInv, StepIInv, PTL DEF AccountsSpec

---------------------------------------------------------------------------
(* Theorems *)

\* The row, the tables, the threads and the histories hold what they may hold
\* in every reachable state.
THEOREM TypeCorrect == AccountsSpec => [](TypeOK /\ AccountsTypeOK)
<1>1. IInv => TypeOK /\ AccountsTypeOK
  BY DEF IInv
<1> QED BY <1>1, Invariance, PTL

\* However many threads try codes, register them and delete the account, no
\* more than Limit wrong codes are compared unless two of them overlapped.
THEOREM TriesCounted == AccountsSpec => []TriesLimited
<1>1. IInv => TriesLimited
  <2>1. 0 <= Limit
    BY RecoveryAssumption
  <2> QED BY <2>1 DEF IInv, Counting, TriesLimited, TypeOK
<1> QED BY <1>1, Invariance, PTL

\* A password set with a recovery token stays until the next, whoever logs in
\* with a password whose hash is an old one, except for a login that was being
\* checked at the time.
THEOREM ResetKept == AccountsSpec => []ResetHolds
<1>1. IInv => ResetHolds
  BY DEF IInv, Setting, ResetHolds
<1> QED BY <1>1, Invariance, PTL

\* A reauthentication token that no two requests held at once admits one.
THEOREM AdmitsOnce == AccountsSpec => []ReauthOnce
<1>1. IInv => ReauthOnce
  BY DEF IInv
<1> QED BY <1>1, Invariance, PTL

\* Without overlapping registrations a name without blanks has one account,
\* and looking it up finds that account.
THEOREM NameFound == AccountsSpec => []FoundByName
<1>1. IInv => FoundByName
  <2> SUFFICES ASSUME IInv, NEW n \in accounts, ~n.blanks, \A m \in Found(n) : m \notin beside
               PROVE  Found(n) = {n}
    BY DEF FoundByName
  <2>1. n = [capital |-> n.capital, blanks |-> n.blanks]
    BY AccountsAssumption DEF IInv, AccountsTypeOK
  <2>2. n \in Found(n)
    <3>1. Strip(n) = n
      BY <2>1 DEF Strip
    <3> QED BY <3>1 DEF Found
  <2>3. \A m \in Found(n) : m = n
    BY <2>2 DEF Found, IInv, Naming, Alike
  <2> QED BY <2>2, <2>3
<1> QED BY <1>1, Invariance, PTL

\* No step issues a recovery token for a code that was replaced, unless the
\* registration committed while the code was being checked.
THEOREM TokenCurrent == AccountsSpec => TokenForCurrentCode
<1>1. IInv /\ [AccountsNext]_allVars =>
        [\A t \in Threads : pc[t] = "issue" /\ pc'[t] = "idle" /\ token' # token =>
                              token' = row.hash \/ t \in crossing]_vars
  <2> SUFFICES ASSUME IInv, [AccountsNext]_allVars, NEW t \in Threads,
                      pc[t] = "issue", pc'[t] = "idle", token' # token
               PROVE  token' = row.hash \/ t \in crossing
    BY DEF vars
  <2> USE DEF users, reauths, session, counted, word
  <2>1. \E q \in Threads : VerifyIssue(q) \/ DeleteOwn(q)
    <3>1. AccountsNext
      BY DEF allVars
    <3>2. ~Clock /\ ~\E n \in Names : DeleteOther(n)
      BY DEF Clock, TokenEnds, LockEnds, DeleteOther
    <3>3. ASSUME NEW q \in Threads, Step(q) PROVE VerifyIssue(q)
      BY <3>3 DEF Step, RegisterRead, RegisterCommit, VerifyRead, VerifyWrong, VerifyRight,
                  ResetRead, LoginRead, ResetCommit, LoginRefused, LoginAccepted, LoginRehash, LoginEnd
    <3>4. ASSUME NEW q \in Threads,
                 \/ \E n \in Names : SignUpRead(q, n)
                 \/ SignUpCommit(q) \/ ReauthIssue(q)
                 \/ \E k \in Reauths : UseRead(q, k)
                 \/ UseMark(q) \/ LogoutAll(q) \/ GiveUp(q)
          PROVE  FALSE
      BY <3>4 DEF SignUpRead, SignUpCommit, ReauthIssue, UseRead, UseMark, LogoutAll, GiveUp, Abort
    <3> QED BY <3>1, <3>2, <3>3, <3>4 DEF AccountsNext
  <2>2. PICK q \in Threads : VerifyIssue(q) \/ DeleteOwn(q)
    BY <2>1
  <2>3. Finish(q)
    BY <2>2 DEF VerifyIssue, DeleteOwn, DeleteAccount
  <2>4. q = t
    BY <2>3 DEF Finish, IInv, TypeOK
  <2> QED BY <2>2, <2>4 DEF VerifyIssue, DeleteOwn, IInv, Checking
<1> QED BY <1>1, Invariance, PTL DEF AccountsSpec, TokenForCurrentCode
=============================================================================
