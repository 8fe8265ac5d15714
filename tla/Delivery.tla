------------------------------ MODULE Delivery ------------------------------
(***************************************************************************)
(* How a client learns of its messages: send_message saves the row of a    *)
(* message and then publishes a hint that there is one, in the event       *)
(* stream that presence changes go through too; the client fetches its     *)
(* inbox after the sync_hint of a new connection and after every hint.     *)
(* Composes the sends of Mailbox with the connections of EventStream.      *)
(***************************************************************************)
EXTENDS EventStream

CONSTANTS
  Messages,  (* messages to the user                                       *)
  NoMessage  (* what an event about something else tells of                *)

ASSUME DeliveryAssumption == NoMessage \notin Messages

VARIABLES
  saved,      (* messages whose row is committed                           *)
  publishing, (* those whose send has yet to publish its hint              *)
  hint,       (* the message each event tells of                           *)
  due,        (* connections whose client is to fetch the inbox            *)
  known,      (* messages the client learnt of since it connected          *)
  unheard     (* history: messages whose hint was never published          *)

sends == <<saved, publishing, hint, unheard>>
client == <<due, known>>
allVars == <<len, trimmed, pc, last, batch, sent, window,
             saved, publishing, hint, due, known, unheard>>

DeliveryInit ==
  /\ Init
  /\ saved = {} /\ publishing = {} /\ hint = [e \in Events |-> NoMessage]
  /\ due = {} /\ known = [c \in Conns |-> {}] /\ unheard = {}

---------------------------------------------------------------------------
(* send_message *)

SaveMessage(m) ==
  /\ m \notin saved /\ saved' = saved \cup {m}
  /\ publishing' = publishing \cup {m}
  /\ UNCHANGED <<vars, hint, client, unheard>>

\* Sends overlap at the await on Redis: hints come in any order.
PublishHint(m) ==
  /\ m \in publishing /\ publishing' = publishing \ {m}
  /\ Publish /\ hint' = [hint EXCEPT ![len'] = m]
  /\ UNCHANGED <<saved, client, unheard>>

\* Redis fails, contact creation raises, or the server dies: the row stays.
HintLost(m) ==
  /\ m \in publishing /\ publishing' = publishing \ {m}
  /\ unheard' = unheard \cup {m}
  /\ UNCHANGED <<vars, saved, hint, client>>

\* A contact's presence changed.
PublishPresence == Publish /\ UNCHANGED <<sends, client>>

---------------------------------------------------------------------------
(* The connections, and the clients at their other end *)

Connect(c) ==
  /\ Open(c) /\ due' = due \cup {c}
  /\ UNCHANGED <<known, sends>>

Forward(c) ==
  /\ Send(c)
  /\ due' = IF hint[Head(batch[c])] = NoMessage THEN due ELSE due \cup {c}
  /\ UNCHANGED <<known, sends>>

\* GET /messages/inbox.
FetchInbox(c) ==
  /\ c \in due /\ due' = due \ {c}
  /\ known' = [known EXCEPT ![c] = @ \cup saved]
  /\ UNCHANGED <<vars, sends>>

Disconnect(c) ==
  /\ Close(c) /\ due' = due \ {c} /\ known' = [known EXCEPT ![c] = {}]
  /\ UNCHANGED sends

Wait(c) == (Read(c) \/ Timeout(c)) /\ UNCHANGED <<sends, client>>

DeliveryNext ==
  \/ \E m \in Messages : SaveMessage(m) \/ PublishHint(m) \/ HintLost(m)
  \/ PublishPresence
  \/ Evict /\ UNCHANGED <<sends, client>>
  \/ \E c \in Conns : Connect(c) \/ Wait(c) \/ Forward(c) \/ FetchInbox(c) \/ Disconnect(c)

DeliverySpec == DeliveryInit /\ [][DeliveryNext]_allVars

\* An open connection's listener runs; a blocked XREAD may be answered with
\* nothing for ever, and no client has to come, stay or leave.
DeliveryFairSpec ==
  /\ DeliverySpec
  /\ \A c \in Conns :
       /\ WF_allVars(Read(c) /\ UNCHANGED <<sends, client>>)
       /\ WF_allVars(Forward(c))

---------------------------------------------------------------------------
(* Properties *)

\* The sends and the clients hold what they may hold.
DeliveryTypeOK ==
  /\ TypeOK
  /\ publishing \subseteq saved /\ saved \subseteq Messages /\ unheard \subseteq saved
  /\ hint \in [Events -> Messages \cup {NoMessage}]
  /\ due \subseteq Conns /\ known \in [Conns -> SUBSET Messages]

\* Event e is on its way to connection c: read and not sent yet, or one that
\* the next XREAD returns.
Coming(c, e) ==
  \/ \E i \in 1..Len(batch[c]) : batch[c][i] = e
  \/ last[c] # Dollar /\ last[c] < e /\ e > trimmed

\* A connected client knows of every message in its inbox or is about to: it
\* has a fetch to do, or the hint is on its way.  Three things keep a stored
\* message from it until it connects again or the next hint comes: its hint
\* was not published, was trimmed or evicted before it was read, or came
\* between two XREADs while the connection had no event to resume after.
Learns ==
  \A c \in Conns, m \in saved \ (publishing \cup unheard) :
    pc[c] # "off" =>
      \/ m \in known[c] \/ c \in due
      \/ \E e \in 1..len : hint[e] = m /\ (Coming(c, e) \/ e <= trimmed \/ e \in window[c])
=============================================================================
