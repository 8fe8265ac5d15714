----------------------------- MODULE Presence -----------------------------
(***************************************************************************)
(* Whether one user is online: a key with a time to live per session and a *)
(* set of the session ids in Redis, and what a contact was told.  Models   *)
(* services/presence_service.py as routers/ws.py and routers/presence.py   *)
(* call it.                                                                *)
(*                                                                         *)
(* Every call to Redis is an await: the handlers of the user's sessions    *)
(* and of contacts that ask interleave between any two of them.            *)
(***************************************************************************)
EXTENDS Naturals

CONSTANTS
  Sessions,   (* session ids: WebSockets and clients that send heartbeats  *)
  Watchers    (* requests of contacts for the presence of the user         *)

ASSUME PresenceAssumption == Sessions \cap Watchers = {}

Handlers == Sessions \cup Watchers

VARIABLES
  key,       (* sessions whose key is there                                *)
  members,   (* the set of session ids                                     *)
  at,        (* where each handler is                                      *)
  then,      (* what it does after _active_sessions                        *)
  mem,       (* the members it read, then those without a key              *)
  act,       (* those whose key it found                                   *)
  was,       (* was_online                                                 *)
  view,      (* the last presence_changed the contact was sent             *)
  raced,     (* history: sessions added while another handler was in       *)
             (* _active_sessions                                           *)
  calm,      (* history: no two handlers overlapped                        *)
  lapsed     (* history: a key timed out, and the contact was not told     *)
             (* since what became of the user                              *)

redis == <<key, members>>
local == <<then, mem, act, was>>
told  == <<view, lapsed>>
presenceVars == <<key, members, at, then, mem, act, was, view, raced, calm, lapsed>>

PresenceInit ==
  /\ key = {} /\ members = {}
  /\ at = [p \in Handlers |-> "idle"] /\ then = [p \in Handlers |-> "idle"]
  /\ mem = [p \in Handlers |-> {}] /\ act = [p \in Handlers |-> {}]
  /\ was = [p \in Handlers |-> FALSE]
  /\ view = "offline" /\ raced = {} /\ calm = TRUE /\ lapsed = FALSE

---------------------------------------------------------------------------
Move(p, from, to) == at[p] = from /\ at' = [at EXCEPT ![p] = to]
Quiet(P) == \A p \in P : at[p] \in {"idle", "up", "closed"}
Scanning(p) == at[p] \in {"exists", "srem", "drop"}

\* _active_sessions starts; its caller goes on at next, with the answer in act.
Scan(p, next) ==
  /\ at' = [at EXCEPT ![p] = "members"] /\ then' = [then EXCEPT ![p] = next]
  /\ act' = [act EXCEPT ![p] = {}] /\ mem' = [mem EXCEPT ![p] = {}]

\* Its caller has taken the answer.
Taken(p) ==
  /\ then' = [then EXCEPT ![p] = "idle"]
  /\ act' = [act EXCEPT ![p] = {}] /\ mem' = [mem EXCEPT ![p] = {}]

---------------------------------------------------------------------------
(* _active_sessions *)

Smembers(p) ==
  /\ at[p] = "members"
  /\ mem' = [mem EXCEPT ![p] = members]
  /\ at' = [at EXCEPT ![p] = IF members = {} THEN then[p] ELSE "exists"]
  /\ UNCHANGED <<redis, then, act, was, told, raced, calm>>

\* The pipeline of EXISTS, one transaction.
Exists(p) ==
  /\ at[p] = "exists"
  /\ act' = [act EXCEPT ![p] = mem[p] \cap key]
  /\ mem' = [mem EXCEPT ![p] = @ \ key]
  /\ at' = [at EXCEPT ![p] = IF mem[p] \subseteq key THEN then[p] ELSE "srem"]
  /\ UNCHANGED <<redis, then, was, told, raced, calm>>

\* The stale ones are removed.
\* Mutant: a session whose key is there is removed too.
SremMore(p) ==
  /\ at[p] = "srem" /\ members' = members \ (mem[p] \cup act[p])
  /\ at' = [at EXCEPT ![p] = IF act[p] = {} THEN "drop" ELSE then[p]]
  /\ UNCHANGED <<key, local, told, raced, calm>>
Srem(p) ==
  /\ at[p] = "srem" /\ members' = members \ mem[p]
  /\ at' = [at EXCEPT ![p] = IF act[p] = {} THEN "drop" ELSE then[p]]
  /\ UNCHANGED <<key, local, told, raced, calm>>

\* Nobody is active: the set is deleted, with what was added meanwhile.
Drop(p) ==
  /\ Move(p, "drop", then[p]) /\ members' = {}
  /\ UNCHANGED <<key, local, told, raced, calm>>

---------------------------------------------------------------------------
(* heartbeat_and_broadcast *)

Heartbeat(s) ==
  /\ at[s] \in {"idle", "up"} /\ Scan(s, "set")
  /\ calm' = (calm /\ Quiet(Handlers \ {s}))
  /\ UNCHANGED <<redis, was, told, raced>>

Set(s) ==
  /\ Move(s, "set", "add") /\ was' = [was EXCEPT ![s] = act[s] # {}] /\ Taken(s)
  /\ key' = key \cup {s}
  /\ UNCHANGED <<members, told, raced, calm>>

Add(s) ==
  /\ at[s] = "add" /\ members' = members \cup {s}
  /\ at' = [at EXCEPT ![s] = IF was[s] THEN "up" ELSE "tellOnline"]
  /\ was' = [was EXCEPT ![s] = FALSE]
  /\ raced' = IF \E p \in Handlers \ {s} : Scanning(p) THEN raced \cup {s} ELSE raced \ {s}
  /\ UNCHANGED <<key, then, mem, act, told, calm>>

TellOnline(s) ==
  /\ Move(s, "tellOnline", "up") /\ view' = "online" /\ lapsed' = (lapsed /\ key = {})
  /\ UNCHANGED <<redis, local, raced, calm>>

---------------------------------------------------------------------------
(* disconnect_and_broadcast, when the WebSocket closes: a heartbeat under   *)
(* way is cancelled.  A client without a WebSocket just stops.              *)

Leave(s) ==
  /\ then[s] \in {"idle", "set"} /\ at[s] # "closed" /\ at[s] \notin {"rem", "tellOffline"}
  /\ Scan(s, "del") /\ was' = [was EXCEPT ![s] = FALSE]
  /\ calm' = (calm /\ Quiet(Handlers \ {s}))
  /\ UNCHANGED <<redis, told, raced>>

\* Mutant: the key is left to time out.
DelLater(s) ==
  /\ Move(s, "del", "rem") /\ was' = [was EXCEPT ![s] = act[s] # {}] /\ Taken(s)
  /\ UNCHANGED <<redis, told, raced, calm>>
Del(s) ==
  /\ Move(s, "del", "rem") /\ was' = [was EXCEPT ![s] = act[s] # {}] /\ Taken(s)
  /\ key' = key \ {s}
  /\ UNCHANGED <<members, told, raced, calm>>

Rem(s) ==
  /\ at[s] = "rem" /\ members' = members \ {s}
  /\ Scan(s, "still")
  /\ UNCHANGED <<key, was, told, raced, calm>>

\* Mutant: still_online is not looked at.
StillIgnored(s) ==
  /\ at[s] = "still"
  /\ at' = [at EXCEPT ![s] = IF was[s] THEN "tellOffline" ELSE "closed"]
  /\ Taken(s) /\ was' = [was EXCEPT ![s] = FALSE]
  /\ UNCHANGED <<redis, told, raced, calm>>
Still(s) ==
  /\ at[s] = "still"
  /\ at' = [at EXCEPT ![s] = IF was[s] /\ act[s] = {} THEN "tellOffline" ELSE "closed"]
  /\ Taken(s) /\ was' = [was EXCEPT ![s] = FALSE]
  /\ UNCHANGED <<redis, told, raced, calm>>

TellOffline(s) ==
  /\ Move(s, "tellOffline", "closed") /\ view' = "offline" /\ lapsed' = FALSE
  /\ UNCHANGED <<redis, local, raced, calm>>

---------------------------------------------------------------------------
(* The rest of the system *)

\* A contact asks: get_contacts_presence runs _active_sessions and answers.
Look(w) ==
  /\ at[w] = "idle" /\ Scan(w, "answer")
  /\ calm' = (calm /\ Quiet(Handlers \ {w}))
  /\ UNCHANGED <<redis, was, told, raced>>

Answer(w) ==
  /\ Move(w, "answer", "idle") /\ Taken(w)
  /\ UNCHANGED <<redis, was, told, raced, calm>>

\* 45 seconds without a heartbeat.
Lapse(s) ==
  /\ s \in key /\ key' = key \ {s} /\ lapsed' = TRUE
  /\ UNCHANGED <<members, at, local, view, raced, calm>>

Step(p) == Smembers(p) \/ Exists(p) \/ Srem(p) \/ Drop(p)

PresenceNext ==
  \/ \E p \in Handlers : Step(p)
  \/ \E s \in Sessions :
       \/ Heartbeat(s) \/ Set(s) \/ Add(s) \/ TellOnline(s)
       \/ Leave(s) \/ Del(s) \/ Rem(s) \/ Still(s) \/ TellOffline(s)
       \/ Lapse(s)
  \/ \E w \in Watchers : Look(w) \/ Answer(w)

PresenceSpec == PresenceInit /\ [][PresenceNext]_presenceVars

---------------------------------------------------------------------------
(* Properties *)

\* Redis and the handlers hold what they may hold.
PresenceTypeOK ==
  /\ key \subseteq Sessions /\ members \subseteq Sessions
  /\ at \in [Handlers -> {"idle", "members", "exists", "srem", "drop", "set", "add", "up",
                       "tellOnline", "del", "rem", "still", "tellOffline", "closed", "answer"}]
  /\ then \in [Handlers -> {"idle", "set", "del", "still", "answer"}]
  /\ mem \in [Handlers -> SUBSET Sessions] /\ act \in [Handlers -> SUBSET Sessions]
  /\ was \in [Handlers -> BOOLEAN] /\ view \in {"online", "offline"}
  /\ raced \subseteq Sessions /\ calm \in BOOLEAN /\ lapsed \in BOOLEAN

\* A session that sent its heartbeat in time is listed, so that contacts see
\* the user online.  Only a handler that was in _active_sessions when it was
\* added can have taken it off the list again, until its next heartbeat.
ListedUnlessRaced ==
  \A s \in Sessions : s \in key /\ at[s] \in {"tellOnline", "up"} => s \in members \/ s \in raced

\* While the handlers take turns, a contact was told last what is the case,
\* also when a disconnect cancels a heartbeat half-way: the user is not thought
\* offline while a session is there, and thought online without one only when
\* a key timed out since, of which nobody is told.
TruthTold ==
  calm /\ Quiet(Handlers) =>
    /\ key # {} => view = "online"
    /\ key = {} => view = "offline" \/ lapsed

\* A closed session leaves nothing behind, even when its heartbeat was
\* cancelled half-way.
ClosedLeavesNothing == \A s \in Sessions : at[s] = "closed" => s \notin key \cup members
=============================================================================
