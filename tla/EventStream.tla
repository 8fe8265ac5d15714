---------------------------- MODULE EventStream ----------------------------
(***************************************************************************)
(* The events of one user: a capped Redis stream that send_message and     *)
(* presence changes append to, and the WebSocket connections that follow   *)
(* it.  Models services/pubsub.py, services/connection_manager.py and      *)
(* routers/ws.py.                                                          *)
(*                                                                         *)
(* A connection reads with XREAD BLOCK after the last event it was given.  *)
(* It starts at "$", which each XREAD resolves anew, until the first event *)
(* arrives; what it missed before, the client learns by synchronising      *)
(* after the sync_hint.  Connections share only the stream.                *)
(***************************************************************************)
EXTENDS Naturals, Sequences

CONSTANTS
  Conns,     (* connections of the user, each opened again after it closed *)
  MaxLen,    (* USER_EVENT_STREAM_MAXLEN                                   *)
  Count,     (* how many entries one XREAD returns                         *)
  MaxEvent   (* bound: how many events are published                       *)

ASSUME EventStreamAssumption ==
  MaxLen \in Nat \ {0} /\ Count \in Nat \ {0} /\ MaxEvent \in Nat

Dollar == 0              \* last_event_id "$": event ids start at 1
Events == 1..MaxEvent

VARIABLES
  len,       (* events published so far: the id of the last one            *)
  trimmed,   (* events up to this id were trimmed or evicted               *)
  pc,        (* where each connection is                                   *)
  last,      (* its last_event_id                                          *)
  batch,     (* events it read and has yet to send                         *)
  sent,      (* events it sent to the client since it opened               *)
  window     (* history: events published while it was between two XREADs  *)
             (* and had no event id to resume from                         *)

vars == <<len, trimmed, pc, last, batch, sent, window>>

Init ==
  /\ len = 0 /\ trimmed = 0
  /\ pc = [c \in Conns |-> "off"] /\ last = [c \in Conns |-> Dollar]
  /\ batch = [c \in Conns |-> <<>>] /\ sent = [c \in Conns |-> <<>>]
  /\ window = [c \in Conns |-> {}]

---------------------------------------------------------------------------
Goto(c, from_, to) == pc[c] = from_ /\ pc' = [pc EXCEPT ![c] = to]

\* The entries an XREAD after id returns: the oldest that are still there.
\* Mutant: the newest ones.
EntriesNewest(id) ==
  LET low  == IF len > Count THEN len - Count ELSE 0
      base == IF id > trimmed THEN (IF id > low THEN id ELSE low)
                              ELSE (IF trimmed > low THEN trimmed ELSE low)
  IN  [i \in 1..(len - base) |-> base + i]
Entries(id) ==
  LET base == IF id > trimmed THEN id ELSE trimmed
      n    == len - base
  IN  [i \in 1..(IF n > Count THEN Count ELSE n) |-> base + i]

\* read_user_messages moves last_event_id over the whole batch before the
\* first event of it is sent.
\* Mutant: last_event_id stays where it was.
GivenOnly(c, b) == batch' = [batch EXCEPT ![c] = b] /\ UNCHANGED last
Given(c, b) ==
  /\ batch' = [batch EXCEPT ![c] = b]
  /\ last' = [last EXCEPT ![c] = b[Len(b)]]

Blocked == {c \in Conns : pc[c] = "blocked"}

\* XADD with an approximate MAXLEN: at most the events beyond it are trimmed.
\* The clients blocked on the stream are served at once.
Publish ==
  /\ len < MaxEvent /\ len' = len + 1
  /\ trimmed' \in trimmed..(IF len' - MaxLen > trimmed THEN len' - MaxLen ELSE trimmed)
  /\ pc' = [c \in Conns |-> IF c \in Blocked THEN "sending" ELSE pc[c]]
  /\ batch' = [c \in Conns |-> IF c \in Blocked THEN <<len'>> ELSE batch[c]]
  /\ last' = [c \in Conns |-> IF c \in Blocked THEN len' ELSE last[c]]
  /\ window' = [c \in Conns |->
       IF pc[c] = "ready" /\ last[c] = Dollar THEN window[c] \cup {len'} ELSE window[c]]
  /\ UNCHANGED sent

\* Redis drops the whole stream when its memory is full (allkeys-lru).
Evict ==
  /\ trimmed # len /\ trimmed' = len
  /\ UNCHANGED <<len, pc, last, batch, sent, window>>

\* websocket_endpoint: the token was checked, the session is online, the
\* subscription made, the sync_hint sent and the listeners started.
Open(c) ==
  /\ Goto(c, "off", "ready")
  /\ UNCHANGED <<len, trimmed, last, batch, sent, window>>

\* XREAD returns the entries there are, or blocks.
\* Mutant: it always blocks.
ReadBlocks(c) ==
  /\ Goto(c, "ready", "blocked")
  /\ UNCHANGED <<len, trimmed, last, batch, sent, window>>
Read(c) ==
  /\ \/ /\ last[c] # Dollar /\ Entries(last[c]) # <<>>
        /\ Goto(c, "ready", "sending") /\ Given(c, Entries(last[c]))
     \/ /\ last[c] = Dollar \/ Entries(last[c]) = <<>>
        /\ Goto(c, "ready", "blocked")
        /\ UNCHANGED <<last, batch>>
  /\ UNCHANGED <<len, trimmed, sent, window>>

\* The 30 seconds of the XREAD pass.
Timeout(c) ==
  /\ Goto(c, "blocked", "ready")
  /\ UNCHANGED <<len, trimmed, last, batch, sent, window>>

\* redis_listener sends one event; after the last of a batch it reads on.
Send(c) ==
  /\ pc[c] = "sending"
  /\ sent' = [sent EXCEPT ![c] = Append(@, Head(batch[c]))]
  /\ batch' = [batch EXCEPT ![c] = Tail(@)]
  /\ pc' = [pc EXCEPT ![c] = IF Len(batch[c]) = 1 THEN "ready" ELSE "sending"]
  /\ UNCHANGED <<len, trimmed, last, window>>

\* The client leaves, its token expires, or Redis or a send fails: the first
\* listener that ends takes the connection down with the events not yet sent.
Close(c) ==
  /\ pc[c] # "off" /\ pc' = [pc EXCEPT ![c] = "off"]
  /\ last' = [last EXCEPT ![c] = Dollar]
  /\ batch' = [batch EXCEPT ![c] = <<>>] /\ sent' = [sent EXCEPT ![c] = <<>>]
  /\ window' = [window EXCEPT ![c] = {}]
  /\ UNCHANGED <<len, trimmed>>

Next ==
  \/ Publish \/ Evict
  \/ \E c \in Conns : Open(c) \/ Read(c) \/ Timeout(c) \/ Send(c) \/ Close(c)

Spec == Init /\ [][Next]_vars

\* An open connection's listener runs; the XREAD of 30 seconds may well be
\* answered for ever, and no client has to come, stay or leave.
FairSpec == Spec /\ \A c \in Conns : WF_vars(Read(c)) /\ WF_vars(Send(c))

---------------------------------------------------------------------------
(* Properties *)

\* The stream and the connections hold what they may hold.
TypeOK ==
  /\ len \in 0..MaxEvent /\ trimmed \in 0..len
  /\ pc \in [Conns -> {"off", "ready", "blocked", "sending"}]
  /\ last \in [Conns -> 0..MaxEvent]
  /\ batch \in [Conns -> Seq(Events)] /\ sent \in [Conns -> Seq(Events)]
  /\ \A c \in Conns : pc[c] = "sending" <=> batch[c] # <<>>
  /\ window \in [Conns -> SUBSET Events]

\* What a connection was given since it opened, sent or about to be.
Feed(c) == sent[c] \o batch[c]

\* A connection hands its events on in the order they were published, none
\* twice, and leaves none out but what was trimmed or evicted before.
InOrder ==
  \A c \in Conns : \A i \in 1..(Len(Feed(c)) - 1) :
    \/ Feed(c)[i + 1] = Feed(c)[i] + 1
    \/ Feed(c)[i + 1] > Feed(c)[i] /\ Feed(c)[i + 1] <= trimmed + 1

\* Every event published after one that a connection was given reaches the
\* client, unless the connection closes or the event is trimmed or evicted.
Delivered ==
  \A c \in Conns, e \in Events :
    (pc[c] # "off" /\ last[c] # Dollar /\ last[c] < e /\ e <= len) ~>
      ((\E i \in 1..Len(sent[c]) : sent[c][i] = e) \/ pc[c] = "off" \/ e <= trimmed)
=============================================================================
