--------------------------- MODULE EventsProofs --------------------------
(***************************************************************************)
(* Proofs about what routers/ws.py serves.  EventStream and Delivery, for  *)
(* any connections, messages, lengths of the stream and of a read: a       *)
(* connection hands events on in order, and a connected client learns of   *)
(* every message that was stored.  Presence, for any sessions and          *)
(* contacts: who is listed, what closed sessions leave and what contacts   *)
(* were told.                                                              *)
(***************************************************************************)
EXTENDS Delivery, Presence, SequenceTheorems, TLAPS

\* Event y comes next after x, or everything between them was trimmed.
Follows(x, y) == y = x + 1 \/ (y > x /\ y <= trimmed + 1)

\* A batch is events in a row, up to the last event id; that id is the one of
\* the last event given, and is not past the end of the stream.
Batches ==
  \A c \in Conns :
    /\ last[c] <= len
    /\ \A i \in 1..Len(batch[c]) : batch[c][i] = last[c] - Len(batch[c]) + i
    /\ batch[c] = <<>> /\ sent[c] # <<>> => last[c] = sent[c][Len(sent[c])]
    /\ batch[c] = <<>> /\ sent[c] = <<>> => last[c] = Dollar
    /\ pc[c] = "off" => batch[c] = <<>> /\ sent[c] = <<>>

\* Who waits for events has been given all there are.
Waiting ==
  \A c \in Conns : pc[c] = "blocked" => last[c] \in {Dollar, len} \/ trimmed = len

\* What was sent is in order, and the batch follows it.
Ordered ==
  \A c \in Conns :
    /\ \A i \in 1..(Len(sent[c]) - 1) : Follows(sent[c][i], sent[c][i + 1])
    /\ sent[c] # <<>> /\ batch[c] # <<>> => Follows(sent[c][Len(sent[c])], batch[c][1])

SInv == TypeOK /\ Batches /\ Waiting /\ Ordered
IInv == DeliveryTypeOK /\ SInv /\ Learns

---------------------------------------------------------------------------
(* The stream and its connections *)

LEMMA InitSInv == Init => SInv
<1> SUFFICES ASSUME Init PROVE SInv
  OBVIOUS
<1> USE EventStreamAssumption DEF Init, Dollar
<1>1. TypeOK
  BY DEF TypeOK, Events
<1>2. Batches /\ Waiting /\ Ordered
  BY DEF Batches, Waiting, Ordered, Follows
<1> QED BY <1>1, <1>2 DEF SInv

LEMMA PublishTrims ==
  ASSUME TypeOK, Publish
  PROVE  /\ len \in Nat /\ len' = len + 1 /\ len' \in Events
         /\ trimmed' \in Nat /\ trimmed <= trimmed' /\ trimmed' <= len
BY EventStreamAssumption DEF TypeOK, Publish, Events

LEMMA PublishStep ==
  ASSUME SInv, Publish
  PROVE  SInv'
<1> USE EventStreamAssumption, PublishTrims DEF SInv, Publish, Dollar
<1>1. ASSUME NEW c \in Conns
      PROVE  \/ pc[c] = "blocked" /\ pc'[c] = "sending" /\ batch'[c] = <<len'>> /\ last'[c] = len'
             \/ pc[c] # "blocked" /\ pc'[c] = pc[c] /\ batch'[c] = batch[c] /\ last'[c] = last[c]
  BY DEF Blocked
<1>2. TypeOK'
  <2>1. len' \in 0..MaxEvent /\ trimmed' \in 0..len'
    BY DEF TypeOK
  <2>2. pc' \in [Conns -> {"off", "ready", "blocked", "sending"}] /\ last' \in [Conns -> 0..MaxEvent]
    BY <2>1 DEF TypeOK
  <2>3. batch' \in [Conns -> Seq(Events)]
    <3>1. <<len'>> \in Seq(Events)
      BY DEF Events
    <3> QED BY <3>1 DEF TypeOK
  <2>4. window' \in [Conns -> SUBSET Events]
    BY DEF TypeOK
  <2>5. \A c \in Conns : pc'[c] = "sending" <=> batch'[c] # <<>>
    BY <1>1 DEF TypeOK
  <2> QED BY <2>1, <2>2, <2>3, <2>4, <2>5 DEF TypeOK
<1>3. Batches'
  <2> SUFFICES ASSUME NEW c \in Conns
               PROVE  /\ last'[c] <= len'
                      /\ \A i \in 1..Len(batch'[c]) : batch'[c][i] = last'[c] - Len(batch'[c]) + i
                      /\ batch'[c] = <<>> /\ sent[c] # <<>> => last'[c] = sent[c][Len(sent[c])]
                      /\ batch'[c] = <<>> /\ sent[c] = <<>> => last'[c] = Dollar
                      /\ pc'[c] = "off" => batch'[c] = <<>> /\ sent[c] = <<>>
    BY DEF Batches
  <2>1. CASE pc[c] = "blocked"
    BY <1>1, <2>1
  <2>2. CASE pc[c] # "blocked"
    BY <1>1, <2>2 DEF Batches, TypeOK
  <2> QED BY <2>1, <2>2
<1>4. Waiting'
  BY <1>1 DEF Waiting
<1>5. Ordered'
  <2> SUFFICES ASSUME NEW c \in Conns
               PROVE  /\ \A i \in 1..(Len(sent[c]) - 1) : Follows(sent[c][i], sent[c][i + 1])'
                      /\ sent[c] # <<>> /\ batch'[c] # <<>> => Follows(sent[c][Len(sent[c])], batch[c][1])'
    BY DEF Ordered
  <2>1. \A i \in 1..(Len(sent[c]) - 1) : Follows(sent[c][i], sent[c][i + 1])'
    <3> SUFFICES ASSUME NEW i \in 1..(Len(sent[c]) - 1)
                 PROVE  Follows(sent[c][i], sent[c][i + 1])'
      OBVIOUS
    <3>1. Follows(sent[c][i], sent[c][i + 1])
      BY DEF Ordered
    <3>2. sent[c][i + 1] \in Nat
      BY DEF TypeOK, Events
    <3> QED BY <3>1, <3>2 DEF Follows, TypeOK
  <2>2. ASSUME sent[c] # <<>>, batch'[c] # <<>> PROVE Follows(sent[c][Len(sent[c])], batch[c][1])'
    <3>1. CASE pc[c] = "blocked"
      <4>1. batch[c] = <<>> /\ last[c] = sent[c][Len(sent[c])]
        BY <2>2, <3>1 DEF TypeOK, Batches
      <4>2. last[c] \in Nat \ {0} /\ last[c] <= len
        BY <2>2, <4>1 DEF TypeOK, Events, Batches
      <4>3. last[c] = len \/ trimmed = len
        BY <3>1, <4>2 DEF Waiting
      <4> QED BY <1>1, <3>1, <4>1, <4>2, <4>3 DEF Follows, TypeOK
    <3>2. CASE pc[c] # "blocked"
      <4>1. Follows(sent[c][Len(sent[c])], batch[c][1]) /\ batch'[c] = batch[c]
        BY <1>1, <2>2, <3>2 DEF Ordered
      <4>2. batch[c][1] \in Nat
        BY <2>2, <4>1 DEF TypeOK, Events
      <4> QED BY <4>1, <4>2 DEF Follows, TypeOK
    <3> QED BY <3>1, <3>2
  <2> QED BY <2>1, <2>2
<1> QED BY <1>2, <1>3, <1>4, <1>5

LEMMA EvictStep ==
  ASSUME SInv, Evict
  PROVE  SInv'
<1> USE EventStreamAssumption DEF SInv, Evict
<1>1. TypeOK'
  BY DEF TypeOK
<1>2. Batches' /\ Waiting'
  BY DEF Batches, Waiting
<1>3. \A x, y \in Nat : Follows(x, y) => Follows(x, y)'
  BY DEF Follows, TypeOK
<1>4. Ordered'
  <2> SUFFICES ASSUME NEW c \in Conns
               PROVE  /\ \A i \in 1..(Len(sent[c]) - 1) : Follows(sent[c][i], sent[c][i + 1])'
                      /\ sent[c] # <<>> /\ batch[c] # <<>> => Follows(sent[c][Len(sent[c])], batch[c][1])'
    BY DEF Ordered
  <2>1. \A i \in 1..Len(sent[c]) : sent[c][i] \in Nat
    BY DEF TypeOK, Events
  <2>2. batch[c] # <<>> => batch[c][1] \in Nat
    BY DEF TypeOK, Events
  <2>3. sent[c] # <<>> => Len(sent[c]) \in 1..Len(sent[c])
    BY DEF TypeOK
  <2>4. \A i \in 1..(Len(sent[c]) - 1) : i \in 1..Len(sent[c]) /\ i + 1 \in 1..Len(sent[c])
    BY DEF TypeOK
  <2>5. \A i \in 1..(Len(sent[c]) - 1) : Follows(sent[c][i], sent[c][i + 1])'
    BY <1>3, <2>1, <2>4 DEF Ordered
  <2> QED BY <1>3, <2>1, <2>2, <2>3, <2>5 DEF Ordered
<1> QED BY <1>1, <1>2, <1>4

\* The entries after an id are in a row, from the oldest there is.
LEMMA EntriesAre ==
  ASSUME TypeOK, NEW id \in 0..MaxEvent
  PROVE  LET base == IF id > trimmed THEN id ELSE trimmed IN
         /\ Entries(id) \in Seq(Events)
         /\ Entries(id) = <<>> <=> len <= base
         /\ \A i \in 1..Len(Entries(id)) : Entries(id)[i] = base + i
         /\ base + Len(Entries(id)) <= len \/ Entries(id) = <<>>
<1> DEFINE base == IF id > trimmed THEN id ELSE trimmed
           n == len - base
           k == IF n > Count THEN Count ELSE n
<1>1. base \in Nat /\ len \in Nat /\ len <= MaxEvent /\ n \in Int /\ k \in Int /\ base + k <= len
      /\ (k <= 0 <=> len <= base) /\ id \in Nat
  BY EventStreamAssumption DEF TypeOK
<1>2. Entries(id) = [i \in 1..k |-> base + i]
  BY DEF Entries
<1> HIDE DEF base, n, k
<1>3. CASE k <= 0
  <2>1. Entries(id) = <<>>
    BY <1>1, <1>2, <1>3
  <2> QED BY <1>1, <1>3, <2>1 DEF base
<1>4. CASE k > 0
  <2>1. ASSUME NEW i \in 1..k PROVE base + i \in Events
    <3>1. i \in Nat /\ 1 <= i /\ i <= k
      BY <1>1, <1>4
    <3>2. base + i <= MaxEvent /\ base + i >= 1 /\ base + i \in Nat
      BY <1>1, <3>1, EventStreamAssumption
    <3> QED BY EventStreamAssumption, <3>2 DEF Events
  <2>2. Entries(id) \in Seq(Events) /\ Len(Entries(id)) = k
    BY <1>1, <1>2, <1>4, <2>1
  <2>3. Entries(id) # <<>>
    BY <1>4, <2>2
  <2> QED BY <1>1, <1>2, <1>4, <2>2, <2>3 DEF base
<1> QED BY <1>1, <1>3, <1>4

\* What an invariant of the connections says of one.
BatchOf(c) ==
  /\ last[c] <= len
  /\ \A i \in 1..Len(batch[c]) : batch[c][i] = last[c] - Len(batch[c]) + i
  /\ batch[c] = <<>> /\ sent[c] # <<>> => last[c] = sent[c][Len(sent[c])]
  /\ batch[c] = <<>> /\ sent[c] = <<>> => last[c] = Dollar
  /\ pc[c] = "off" => batch[c] = <<>> /\ sent[c] = <<>>

OrderOf(c) ==
  /\ \A i \in 1..(Len(sent[c]) - 1) : Follows(sent[c][i], sent[c][i + 1])
  /\ sent[c] # <<>> /\ batch[c] # <<>> => Follows(sent[c][Len(sent[c])], batch[c][1])

\* A step of c leaves the others as they are.
LEMMA OneConnection ==
  ASSUME SInv, TypeOK', NEW c \in Conns, UNCHANGED <<len, trimmed>>,
         \A d \in Conns \ {c} :
           pc'[d] = pc[d] /\ last'[d] = last[d] /\ batch'[d] = batch[d] /\ sent'[d] = sent[d],
         BatchOf(c)', OrderOf(c)',
         pc'[c] = "blocked" => last'[c] \in {Dollar, len} \/ trimmed = len
  PROVE  SInv'
<1> USE DEF SInv
<1>1. Batches'
  BY DEF Batches, BatchOf
<1>2. Waiting'
  BY DEF Waiting
<1>3. Ordered'
  BY DEF Ordered, OrderOf, Follows
<1> QED BY <1>1, <1>2, <1>3

LEMMA ConnectionStep ==
  ASSUME SInv, NEW c \in Conns,
         Open(c) \/ Read(c) \/ Timeout(c) \/ Send(c) \/ Close(c)
  PROVE  SInv'
<1> USE EventStreamAssumption DEF SInv, Dollar
<1>0. BatchOf(c) /\ OrderOf(c)
  BY DEF Batches, BatchOf, Ordered, OrderOf
<1>1. CASE Open(c) \/ Timeout(c)
  <2> USE <1>1 DEF Open, Timeout, Goto
  <2>1. TypeOK'
    BY DEF TypeOK
  <2>2. BatchOf(c)' /\ OrderOf(c)'
    BY <1>0 DEF BatchOf, OrderOf, Follows, TypeOK
  <2> QED BY <2>1, <2>2, OneConnection DEF TypeOK
<1>2. CASE Read(c) /\ pc'[c] = "blocked"
  <2> USE <1>2 DEF Read, Goto
  <2>1. UNCHANGED <<last, batch>> /\ (last[c] = Dollar \/ Entries(last[c]) = <<>>)
    BY DEF TypeOK
  <2>2. pc' = [pc EXCEPT ![c] = "blocked"] /\ pc[c] = "ready"
    BY <2>1 DEF TypeOK
  <2>3. TypeOK'
    BY <2>1, <2>2 DEF TypeOK
  <2>4. BatchOf(c)' /\ OrderOf(c)'
    BY <1>0, <2>1, <2>2 DEF BatchOf, OrderOf, Follows, TypeOK
  <2>5. last[c] \in {Dollar, len} \/ trimmed = len
    <3>1. last[c] \in 0..MaxEvent /\ trimmed \in Nat /\ len \in Nat /\ trimmed <= len /\ last[c] <= len
      BY <1>0 DEF TypeOK, BatchOf
    <3> QED BY <2>1, <3>1, EntriesAre
  <2> QED BY <2>1, <2>2, <2>3, <2>4, <2>5, OneConnection DEF TypeOK
<1>3. CASE Read(c) /\ pc'[c] # "blocked"
  <2> USE <1>3 DEF Read, Goto
  <2> DEFINE b == Entries(last[c])
             base == IF last[c] > trimmed THEN last[c] ELSE trimmed
  <2>1. /\ last[c] # Dollar /\ b # <<>> /\ pc[c] = "ready" /\ pc' = [pc EXCEPT ![c] = "sending"]
        /\ batch' = [batch EXCEPT ![c] = b] /\ last' = [last EXCEPT ![c] = b[Len(b)]]
    BY DEF Given, TypeOK
  <2>2. last[c] \in 0..MaxEvent
    BY DEF TypeOK
  <2>3. /\ b \in Seq(Events) /\ \A i \in 1..Len(b) : b[i] = base + i
        /\ base + Len(b) <= len /\ Len(b) \in Nat \ {0}
    <3>1. /\ b \in Seq(Events) /\ (\A i \in 1..Len(b) : b[i] = base + i)
          /\ (base + Len(b) <= len \/ b = <<>>)
      BY <2>2, EntriesAre
    <3>2. Len(b) \in Nat \ {0}
      BY <2>1, <3>1, EmptySeq
    <3> QED BY <2>1, <3>1, <3>2
  <2> HIDE DEF b
  <2>4. base \in Nat /\ b[Len(b)] = base + Len(b) /\ base + Len(b) \in 0..MaxEvent /\ b[1] = base + 1
    BY <2>2, <2>3 DEF TypeOK
  <2>5. batch'[c] = b /\ last'[c] = base + Len(b) /\ pc'[c] = "sending"
    BY <2>1, <2>4 DEF TypeOK
  <2>6. TypeOK'
    <3>1. pc' \in [Conns -> {"off", "ready", "blocked", "sending"}]
          /\ last' \in [Conns -> 0..MaxEvent] /\ batch' \in [Conns -> Seq(Events)]
      BY <2>1, <2>3, <2>4 DEF TypeOK
    <3>2. \A d \in Conns : pc'[d] = "sending" <=> batch'[d] # <<>>
      BY <2>1, <2>5 DEF TypeOK
    <3> QED BY <3>1, <3>2 DEF TypeOK
  <2>7. BatchOf(c)'
    BY <2>1, <2>3, <2>4, <2>5 DEF BatchOf, TypeOK
  <2>8. OrderOf(c)'
    <3>1. batch[c] = <<>>
      BY <2>1 DEF TypeOK
    <3>2. ASSUME sent[c] # <<>> PROVE Follows(sent[c][Len(sent[c])], b[1])
      <4>1. sent[c][Len(sent[c])] = last[c] /\ last[c] \in Nat /\ trimmed \in Nat
        BY <1>0, <3>1, <3>2, <2>2 DEF BatchOf, TypeOK
      <4> QED BY <2>4, <4>1 DEF Follows
    <3> QED BY <1>0, <2>5, <3>2 DEF OrderOf, Follows
  <2> QED BY <2>1, <2>5, <2>6, <2>7, <2>8, OneConnection DEF TypeOK
<1>4. CASE Send(c)
  <2> USE <1>4 DEF Send
  <2> DEFINE b == batch[c]
             s == sent[c]
  <2>1. /\ b \in Seq(Events) /\ s \in Seq(Events) /\ b # <<>> /\ Len(b) \in Nat \ {0} /\ Len(s) \in Nat
        /\ b[1] \in Events /\ Head(b) = b[1]
    BY DEF TypeOK
  <2>2. /\ Tail(b) \in Seq(Events) /\ Len(Tail(b)) = Len(b) - 1
        /\ \A i \in 1..Len(Tail(b)) : Tail(b)[i] = b[i + 1]
        /\ (Tail(b) = <<>> <=> Len(b) = 1)
    <3>1. /\ Tail(b) \in Seq(Events) /\ Len(Tail(b)) = Len(b) - 1
          /\ \A i \in 1..Len(Tail(b)) : Tail(b)[i] = b[i + 1]
      BY <2>1, HeadTailProperties
    <3>2. (Tail(b) # <<>> => Len(Tail(b)) # 0) /\ Len(<<>>) = 0
      BY <3>1, EmptySeq
    <3>3. Len(b) = 1 => Len(Tail(b)) = 0
      BY <3>1
    <3>4. Tail(b) = <<>> => Len(b) - 1 = 0
      BY <3>1, <3>2
    <3>5. Tail(b) = <<>> => Len(b) = 1
      BY <2>1, <3>4
    <3> QED BY <3>1, <3>2, <3>3, <3>5
  <2>3. /\ Append(s, b[1]) \in Seq(Events) /\ Len(Append(s, b[1])) = Len(s) + 1
        /\ \A i \in 1..Len(s) : Append(s, b[1])[i] = s[i]
        /\ Append(s, b[1])[Len(s) + 1] = b[1]
    BY <2>1
  <2>4. sent'[c] = Append(s, b[1]) /\ batch'[c] = Tail(b)
        /\ pc'[c] = IF Len(b) = 1 THEN "ready" ELSE "sending"
    BY <2>1 DEF TypeOK
  <2>5. TypeOK'
    <3>1. pc' \in [Conns -> {"off", "ready", "blocked", "sending"}]
          /\ sent' \in [Conns -> Seq(Events)] /\ batch' \in [Conns -> Seq(Events)]
      BY <2>1, <2>2, <2>3 DEF TypeOK
    <3>2. \A d \in Conns \ {c} : pc'[d] = pc[d] /\ batch'[d] = batch[d]
      BY DEF TypeOK
    <3>3. pc'[c] = "sending" <=> batch'[c] # <<>>
      BY ONLY <2>2, <2>4
    <3> QED BY <3>1, <3>2, <3>3 DEF TypeOK
  <2>6. \A i \in 1..Len(b) : b[i] = last[c] - Len(b) + i
    BY <1>0 DEF BatchOf
  <2>7. last[c] \in Nat /\ last[c] <= len
    BY <1>0 DEF BatchOf, TypeOK
  <2> HIDE DEF b, s
  <2>8. BatchOf(c)'
    <3>1. \A i \in 1..Len(Tail(b)) : Tail(b)[i] = last[c] - Len(Tail(b)) + i
      <4> SUFFICES ASSUME NEW i \in 1..(Len(b) - 1)
                   PROVE  Tail(b)[i] = last[c] - (Len(b) - 1) + i
        BY <2>2
      <4>1. i + 1 \in 1..Len(b) /\ i \in Nat
        BY <2>1
      <4>2. b[i + 1] = last[c] - Len(b) + (i + 1)
        BY <2>6, <4>1
      <4>3. Tail(b)[i] = b[i + 1]
        BY <2>2
      <4>4. Len(b) \in Int /\ last[c] \in Int /\ i \in Int
        BY <2>1, <2>7, <4>1
      <4>5. last[c] - Len(b) + (i + 1) = last[c] - (Len(b) - 1) + i
        BY ONLY <4>4
      <4> QED BY ONLY <4>2, <4>3, <4>5
    <3>2. Tail(b) = <<>> => b[1] = last[c]
      BY <2>1, <2>2, <2>6, <2>7
    <3>3. sent'[c] # <<>> /\ sent'[c][Len(sent'[c])] = b[1] /\ pc'[c] # "off"
      BY <2>1, <2>3, <2>4, SMTT(30)
    <3> QED BY <2>4, <2>7, <3>1, <3>2, <3>3 DEF BatchOf
  <2>9. OrderOf(c)'
    <3>1. \A i \in 1..(Len(s) - 1) : Follows(s[i], s[i + 1])
      BY <1>0 DEF OrderOf, s
    <3>2. s # <<>> => Follows(s[Len(s)], b[1])
      BY <1>0, <2>1 DEF OrderOf, s, b
    <3>3. \A i \in 1..Len(s) : Follows(Append(s, b[1])[i], Append(s, b[1])[i + 1])
      <4> SUFFICES ASSUME NEW i \in 1..Len(s) PROVE Follows(Append(s, b[1])[i], Append(s, b[1])[i + 1])
        OBVIOUS
      <4>1. CASE i = Len(s)
        <5>1. s # <<>>
          BY <2>1, <4>1
        <5> QED BY <2>1, <2>3, <3>2, <4>1, <5>1
      <4>2. CASE i # Len(s)
        <5>1. i \in 1..(Len(s) - 1) /\ i + 1 \in 1..Len(s)
          BY <2>1, <4>2
        <5> QED BY <2>3, <3>1, <5>1
      <4> QED BY <4>1, <4>2
    <3>4. Tail(b) # <<>> => Follows(b[1], Tail(b)[1])
      BY <2>1, <2>2, <2>6, <2>7 DEF Follows
    <3>5. \A i \in 1..(Len(sent'[c]) - 1) : Follows(sent'[c][i], sent'[c][i + 1])
      <4>1. Len(sent'[c]) - 1 = Len(s)
        BY <2>1, <2>3, <2>4
      <4> QED BY ONLY <2>4, <3>3, <4>1
    <3>6. sent'[c] # <<>> /\ batch'[c] # <<>> => Follows(sent'[c][Len(sent'[c])], batch'[c][1])
      BY <2>1, <2>3, <2>4, <3>4
    <3> QED BY <3>5, <3>6 DEF OrderOf, Follows
  <2>10. pc'[c] # "blocked" /\ last' = last
         /\ \A d \in Conns \ {c} : pc'[d] = pc[d] /\ batch'[d] = batch[d] /\ sent'[d] = sent[d]
    BY <2>4 DEF TypeOK
  <2> QED BY <2>5, <2>8, <2>9, <2>10, OneConnection
<1>5. CASE Close(c)
  <2> USE <1>5 DEF Close
  <2>1. TypeOK'
    BY DEF TypeOK
  <2>2. BatchOf(c)' /\ OrderOf(c)'
    BY DEF BatchOf, OrderOf, TypeOK
  <2> QED BY <2>1, <2>2, OneConnection DEF TypeOK
<1> QED BY <1>1, <1>2, <1>3, <1>4, <1>5

LEMMA InOrderOf ==
  ASSUME SInv
  PROVE  InOrder
<1> SUFFICES ASSUME NEW c \in Conns, NEW i \in 1..(Len(Feed(c)) - 1)
             PROVE  Follows(Feed(c)[i], Feed(c)[i + 1])
  BY DEF InOrder, Follows
<1> DEFINE b == batch[c]
           s == sent[c]
<1>1. b \in Seq(Events) /\ s \in Seq(Events) /\ Len(b) \in Nat /\ Len(s) \in Nat /\ last[c] \in Nat
  BY EventStreamAssumption DEF SInv, TypeOK
<1>2. /\ Len(Feed(c)) = Len(s) + Len(b)
      /\ \A j \in 1..Len(Feed(c)) : Feed(c)[j] = IF j <= Len(s) THEN s[j] ELSE b[j - Len(s)]
  <2>1. Feed(c) = s \o b
    BY DEF Feed
  <2>2. /\ Len(s \o b) = Len(s) + Len(b)
        /\ \A j \in 1..Len(s) + Len(b) : (s \o b)[j] = IF j <= Len(s) THEN s[j] ELSE b[j - Len(s)]
    BY ONLY <1>1, ConcatProperties
  <2> QED BY ONLY <2>1, <2>2
<1>3. \A j \in 1..Len(b) : b[j] = last[c] - Len(b) + j
  BY DEF SInv, Batches
<1>4. \A j \in 1..(Len(s) - 1) : Follows(s[j], s[j + 1])
  BY DEF SInv, Ordered
<1>5. s # <<>> /\ b # <<>> => Follows(s[Len(s)], b[1])
  BY DEF SInv, Ordered
<1> HIDE DEF b, s
<1>6. i \in 1..Len(Feed(c)) /\ i + 1 \in 1..Len(Feed(c))
  BY <1>1, <1>2
<1>7. CASE i + 1 <= Len(s)
  BY <1>1, <1>2, <1>4, <1>6, <1>7
<1>8. CASE i = Len(s)
  <2>1. Feed(c)[i] = s[Len(s)] /\ Feed(c)[i + 1] = b[1] /\ s # <<>> /\ b # <<>>
    BY <1>1, <1>2, <1>6, <1>8
  <2> QED BY <1>5, <2>1
<1>9. CASE i > Len(s)
  <2> DEFINE j == i - Len(s)
  <2>1. j \in Nat /\ j \in 1..Len(b) /\ j + 1 \in 1..Len(b) /\ (i + 1) - Len(s) = j + 1
    BY <1>1, <1>2, <1>6, <1>9
  <2>2. Feed(c)[i] = b[j] /\ Feed(c)[i + 1] = b[j + 1]
    BY <1>1, <1>2, <1>6, <1>9, <2>1
  <2> HIDE DEF j
  <2>3. b[j] = last[c] - Len(b) + j /\ b[j + 1] = last[c] - Len(b) + (j + 1)
    BY <1>3, <2>1
  <2>4. b[j + 1] = b[j] + 1
    BY <1>1, <2>1, <2>3
  <2> QED BY <2>2, <2>4 DEF Follows
<1> QED BY <1>1, <1>7, <1>8, <1>9

---------------------------------------------------------------------------
(* The messages and their hints *)

\* An event on its way to a connection that stays open goes on its way, is
\* trimmed, or is sent.
LEMMA ComingKept ==
  ASSUME SInv, [Next]_vars, NEW c \in Conns, NEW e \in 1..len, Coming(c, e), pc'[c] # "off"
  PROVE  Coming(c, e)' \/ e <= trimmed' \/ (Send(c) /\ e = Head(batch[c]))
<1> USE EventStreamAssumption DEF SInv, Dollar
<1>1. e \in Nat /\ len \in Nat /\ trimmed \in Nat /\ e <= len /\ last[c] \in Nat /\ last[c] <= len
  BY DEF TypeOK, Batches
<1>2. CASE UNCHANGED <<batch, last, trimmed>>
  BY <1>2 DEF Coming
<1>3. CASE Publish
  <2>1. trimmed' \in Nat /\ trimmed <= trimmed'
    BY <1>3, PublishTrims
  <2>2. CASE pc[c] = "blocked"
    <3>1. batch[c] = <<>>
      BY <2>2 DEF TypeOK
    <3>2. last[c] # 0 /\ last[c] < e /\ e > trimmed
      BY <3>1 DEF Coming
    <3>3. last[c] = len \/ trimmed = len
      BY <2>2, <3>2 DEF Waiting
    <3> QED BY <1>1, <3>2, <3>3
  <2>3. CASE pc[c] # "blocked"
    <3>1. batch'[c] = batch[c] /\ last'[c] = last[c]
      BY <1>3, <2>3 DEF Publish, Blocked
    <3> QED BY <1>1, <2>1, <3>1 DEF Coming
  <2> QED BY <2>2, <2>3
<1>4. CASE Evict
  BY <1>1, <1>4 DEF Evict
<1>5. ASSUME NEW d \in Conns, Read(d) \/ Send(d) \/ Close(d), d # c PROVE Coming(c, e)'
  <2>1. batch'[c] = batch[c] /\ last'[c] = last[c] /\ trimmed' = trimmed
    BY <1>5 DEF Read, Send, Close, Given, TypeOK
  <2> QED BY <2>1 DEF Coming
<1>6. CASE Read(c)
  <2>1. CASE UNCHANGED <<last, batch>>
    BY <1>2, <1>6, <2>1 DEF Read
  <2> DEFINE b == Entries(last[c])
             base == IF last[c] > trimmed THEN last[c] ELSE trimmed
  <2>2. CASE b # <<>> /\ pc[c] = "ready" /\ Given(c, b)
    <3>1. /\ b \in Seq(Events) /\ \A i \in 1..Len(b) : b[i] = base + i
      BY EntriesAre DEF TypeOK
    <3>2. Len(b) \in Nat \ {0} /\ trimmed' = trimmed
      BY <1>6, <2>2, <3>1, EmptySeq DEF Read
    <3>3. base < e /\ base \in Nat
      <4>1. batch[c] = <<>>
        BY <2>2 DEF TypeOK
      <4> QED BY <1>1, <4>1 DEF Coming
    <3>4. b[Len(b)] = base + Len(b)
      BY <3>1, <3>2
    <3> HIDE DEF b, base
    <3>5. batch'[c] = b /\ last'[c] = base + Len(b)
      BY <2>2, <3>4 DEF Given, TypeOK
    <3>6. CASE e <= base + Len(b)
      <4>1. e - base \in 1..Len(b) /\ base + (e - base) = e
        BY <1>1, <3>2, <3>3, <3>6
      <4>2. b[e - base] = e
        BY <3>1, <4>1
      <4> QED BY <3>5, <4>1, <4>2 DEF Coming
    <3>7. CASE e > base + Len(b)
      <4>1. e > trimmed /\ base + Len(b) # 0
        BY <1>1, <3>2, <3>3 DEF base
      <4> QED BY <3>2, <3>5, <3>7, <4>1 DEF Coming
    <3> QED BY <1>1, <3>2, <3>3, <3>6, <3>7
  <2> QED BY <1>6, <2>1, <2>2 DEF Read, Goto
<1>7. CASE Send(c)
  <2>1. batch[c] \in Seq(Events) /\ batch[c] # <<>> /\ batch'[c] = Tail(batch[c])
        /\ last' = last /\ trimmed' = trimmed
    BY <1>7 DEF Send, TypeOK
  <2>2. CASE last[c] # Dollar /\ last[c] < e /\ e > trimmed
    BY <2>1, <2>2 DEF Coming
  <2>3. ASSUME NEW i \in 1..Len(batch[c]), batch[c][i] = e, e # Head(batch[c]) PROVE Coming(c, e)'
    <3>1. Len(batch[c]) \in Nat /\ Head(batch[c]) = batch[c][1]
      BY <2>1
    <3>2. i - 1 \in 1..(Len(batch[c]) - 1) /\ (i - 1) + 1 = i
      BY <2>3, <3>1
    <3>3. Len(Tail(batch[c])) = Len(batch[c]) - 1
          /\ \A j \in 1..Len(Tail(batch[c])) : Tail(batch[c])[j] = batch[c][j + 1]
      BY <2>1, HeadTailProperties
    <3>4. Tail(batch[c])[i - 1] = e
      BY <2>3, <3>2, <3>3
    <3> QED BY <2>1, <3>2, <3>3, <3>4 DEF Coming
  <2> QED BY <1>7, <2>2, <2>3 DEF Coming
<1>8. CASE Close(c)
  BY <1>8 DEF Close, TypeOK
<1>9. ASSUME NEW d \in Conns, Open(d) \/ Timeout(d) PROVE UNCHANGED <<batch, last, trimmed>>
  BY <1>9 DEF Open, Timeout
<1>10. CASE UNCHANGED vars
  BY <1>2, <1>10 DEF vars
<1>11. ASSUME NEW d \in Conns, Open(d) \/ Read(d) \/ Timeout(d) \/ Send(d) \/ Close(d)
       PROVE  Coming(c, e)' \/ e <= trimmed' \/ (Send(c) /\ e = Head(batch[c]))
  BY <1>2, <1>5, <1>6, <1>7, <1>8, <1>9, <1>11
<1> QED BY <1>3, <1>4, <1>10, <1>11 DEF Next

\* The hint of m is on its way to c, or was lost on it.
Hinted(c, m) ==
  \E e \in 1..len : hint[e] = m /\ (Coming(c, e) \/ e <= trimmed \/ e \in window[c])

LEMMA HintKept ==
  ASSUME IInv, [Next]_vars, NEW c \in Conns, NEW m \in Messages, Hinted(c, m), pc'[c] # "off",
         \A e \in 1..len : hint'[e] = hint[e]
  PROVE  Hinted(c, m)' \/ (Send(c) /\ hint[Head(batch[c])] = m)
<1> USE DEF IInv
<1>1. PICK e \in 1..len : hint[e] = m /\ (Coming(c, e) \/ e <= trimmed \/ e \in window[c])
  BY DEF Hinted
<1>2. len \in Nat /\ len' \in Nat /\ len <= len' /\ trimmed \in Nat /\ trimmed' \in Nat
      /\ (trimmed <= trimmed' \/ e <= trimmed')
  <2>1. CASE Publish
    BY <2>1, PublishTrims DEF SInv, TypeOK
  <2>2. CASE Evict
    BY <2>2, EventStreamAssumption DEF Evict, SInv, TypeOK
  <2>3. CASE UNCHANGED <<len, trimmed>>
    BY <2>3, EventStreamAssumption DEF SInv, TypeOK
  <2> QED BY <2>1, <2>2, <2>3 DEF Next, Open, Read, Timeout, Send, Close, vars
<1>3. e \in 1..len' /\ hint'[e] = m
  BY <1>1, <1>2
<1>4. window[c] \subseteq window'[c]
  <2>1. ASSUME NEW d \in Conns, Close(d) PROVE window'[c] = window[c]
    BY <2>1 DEF Close, SInv, TypeOK
  <2>2. Publish => window[c] \subseteq window'[c]
    BY DEF Publish
  <2> QED BY <2>1, <2>2 DEF Next, Evict, Open, Read, Timeout, Send, vars
<1>5. CASE e <= trimmed \/ e \in window[c]
  BY <1>2, <1>3, <1>4, <1>5 DEF Hinted
<1>6. CASE Coming(c, e)
  BY <1>1, <1>3, <1>6, ComingKept DEF Hinted
<1> QED BY <1>1, <1>5, <1>6

LEMMA InitIInv == DeliveryInit => IInv
<1> SUFFICES ASSUME DeliveryInit PROVE IInv
  OBVIOUS
<1>1. SInv
  BY InitSInv DEF DeliveryInit
<1>2. DeliveryTypeOK
  BY <1>1 DEF DeliveryInit, DeliveryTypeOK, SInv
<1>3. Learns
  BY DEF DeliveryInit, Learns
<1> QED BY <1>1, <1>2, <1>3 DEF IInv

LEMMA StreamStep ==
  ASSUME SInv, [Next]_vars
  PROVE  SInv'
<1>1. CASE UNCHANGED vars
  <2>1. TypeOK' /\ Batches' /\ Waiting' /\ Ordered'
    BY <1>1 DEF SInv, vars, TypeOK, Batches, Waiting, Ordered, Follows
  <2> QED BY <2>1 DEF SInv
<1> QED BY <1>1, PublishStep, EvictStep, ConnectionStep DEF Next

\* To the stream, every step is one of its own or none.
LEMMA StreamOf ==
  ASSUME [DeliveryNext]_allVars
  PROVE  [Next]_vars
BY DEF DeliveryNext, SaveMessage, PublishHint, HintLost, PublishPresence, Connect, Wait, Forward,
       FetchInbox, Disconnect, Next, allVars, vars

LEMMA TypesStep ==
  ASSUME IInv, [DeliveryNext]_allVars
  PROVE  DeliveryTypeOK'
<1> USE DeliveryAssumption DEF IInv
<1>1. TypeOK'
  BY StreamOf, StreamStep DEF SInv
<1>2. saved' \subseteq Messages /\ publishing' \subseteq saved' /\ unheard' \subseteq saved'
      /\ hint' \in [Events -> Messages \cup {NoMessage}]
      /\ due' \subseteq Conns /\ known' \in [Conns -> SUBSET Messages]
  BY DEF DeliveryTypeOK, DeliveryNext, SaveMessage, PublishHint, HintLost, PublishPresence, Connect,
         Wait, Forward, FetchInbox, Disconnect, sends, client, allVars
<1> QED BY <1>1, <1>2 DEF DeliveryTypeOK

LEMMA LearnsStep ==
  ASSUME IInv, [DeliveryNext]_allVars
  PROVE  Learns'
<1> USE DeliveryAssumption DEF IInv
<1> SUFFICES ASSUME NEW c \in Conns, NEW m \in (saved \ (publishing \cup unheard))', pc'[c] # "off"
             PROVE  m \in known'[c] \/ c \in due' \/ Hinted(c, m)'
  BY DEF Learns, Hinted
<1>1. [Next]_vars /\ TypeOK' /\ m \in Messages
  BY StreamOf, TypesStep DEF DeliveryTypeOK
<1>2. CASE pc[c] = "off"
  <2>1. Connect(c)
    <3>1. pc'[c] # pc[c]
      BY <1>2
    <3> QED BY <1>2, <3>1 DEF DeliveryNext, SaveMessage, PublishHint, HintLost, PublishPresence,
              Publish, Blocked, Evict, Connect, Open, Wait, Read, Timeout, Forward, Send, FetchInbox,
              Disconnect, Close, Goto, SInv, TypeOK, vars, allVars
  <2> QED BY <2>1 DEF Connect
<1>3. CASE pc[c] # "off" /\ m \in saved \ (publishing \cup unheard)
  <2>1. m \in known[c] \/ c \in due \/ Hinted(c, m)
    BY <1>3 DEF Learns, Hinted
  <2>2. \A e \in 1..len : hint'[e] = hint[e]
    <3>1. ASSUME NEW k \in Messages, PublishHint(k) PROVE \A e \in 1..len : hint'[e] = hint[e]
      BY <3>1, PublishTrims DEF PublishHint, SInv, DeliveryTypeOK, Events
    <3> QED BY <3>1 DEF DeliveryNext, SaveMessage, HintLost, PublishPresence, Connect, Wait, Forward,
              FetchInbox, Disconnect, sends, client, allVars
  <2>3. m \in known[c] => m \in known'[c]
    <3>1. ASSUME NEW d \in Conns, Disconnect(d) PROVE d # c
      BY <3>1 DEF Disconnect, Close, SInv, TypeOK
    <3> QED BY <3>1 DEF DeliveryTypeOK, DeliveryNext, SaveMessage, PublishHint, HintLost,
              PublishPresence, Connect, Wait, Forward, FetchInbox, Disconnect, sends, client, allVars
  <2>4. c \in due => c \in due' \/ m \in known'[c]
    <3>1. ASSUME NEW d \in Conns, Disconnect(d) PROVE d # c
      BY <3>1 DEF Disconnect, Close, SInv, TypeOK
    <3> QED BY <1>3, <3>1 DEF DeliveryTypeOK, DeliveryNext, SaveMessage, PublishHint, HintLost,
              PublishPresence, Connect, Wait, Forward, FetchInbox, Disconnect, sends, client, allVars
  <2>5. Send(c) /\ hint[Head(batch[c])] = m => c \in due'
    <3> SUFFICES ASSUME Send(c), hint[Head(batch[c])] = m PROVE c \in due'
      OBVIOUS
    <3>1. sent' # sent
      <4>1. batch[c] \in Seq(Events) /\ sent[c] \in Seq(Events) /\ batch[c] # <<>>
        BY DEF Send, SInv, TypeOK
      <4>2. Len(sent'[c]) = Len(sent[c]) + 1 /\ Len(sent[c]) \in Nat
        BY <4>1 DEF Send, SInv, TypeOK
      <4> QED BY <4>2
    <3>2. Forward(c)
      <4>1. \E d \in Conns : Forward(d) \/ Disconnect(d)
        BY <3>1 DEF DeliveryNext, SaveMessage, PublishHint, HintLost, PublishPresence,
              Publish, Evict, Connect, Open, Wait, Read, Timeout, FetchInbox, vars, allVars
      <4>2. PICK d \in Conns : Forward(d) \/ Disconnect(d)
        BY <4>1
      <4>3. d = c
        BY <3>1, <4>2 DEF Forward, Disconnect, Send, Close, SInv, TypeOK
      <4>4. ~Disconnect(c)
        BY DEF Disconnect, Close, SInv, TypeOK
      <4> QED BY <4>2, <4>3, <4>4
    <3> QED BY <1>1, <3>2 DEF Forward
  <2>6. Hinted(c, m) => Hinted(c, m)' \/ c \in due'
    BY <1>1, <2>2, <2>5, HintKept
  <2> QED BY <2>1, <2>3, <2>4, <2>6
<1>4. CASE pc[c] # "off" /\ m \notin saved \ (publishing \cup unheard)
  <2>1. PublishHint(m)
    BY <1>4 DEF DeliveryNext, SaveMessage, PublishHint, HintLost, PublishPresence, Connect, Wait,
         Forward, FetchInbox, Disconnect, sends, client, allVars
  <2>2. PICK e \in Events : e = len'
    BY <2>1, PublishTrims DEF PublishHint, SInv
  <2>3. Publish /\ e \in 1..len' /\ hint'[e] = m
    BY <2>1, <2>2, PublishTrims DEF PublishHint, SInv, DeliveryTypeOK, Events
  <2>4. Coming(c, e)' \/ e \in window'[c]
    <3>1. e = len + 1 /\ len \in Nat /\ trimmed' \in Nat /\ trimmed' <= len /\ last[c] \in Nat /\ last[c] <= len
      BY <2>2, <2>3, PublishTrims, EventStreamAssumption DEF SInv, TypeOK, Batches
    <3>2. CASE pc[c] = "blocked"
      <4>1. batch'[c] = <<e>>
        BY <2>2, <2>3, <3>2 DEF Publish, Blocked
      <4>2. 1 \in 1..Len(batch'[c]) /\ batch'[c][1] = e
        BY <4>1
      <4> QED BY <4>2 DEF Coming
    <3>3. CASE pc[c] # "blocked" /\ last[c] # Dollar
      <4>1. last'[c] = last[c]
        BY <2>3, <3>3 DEF Publish, Blocked
      <4> QED BY <3>1, <3>3, <4>1 DEF Coming
    <3>4. CASE pc[c] # "blocked" /\ last[c] = Dollar
      <4>1. batch[c] = <<>>
        <5> SUFFICES ASSUME batch[c] # <<>> PROVE FALSE
          OBVIOUS
        <5>1. Len(batch[c]) \in Nat \ {0} /\ batch[c][1] \in Nat \ {0}
          <6>1. batch[c] \in Seq(Events)
            BY DEF SInv, TypeOK
          <6>2. Len(batch[c]) \in Nat \ {0} /\ 1 \in 1..Len(batch[c])
            BY <6>1, EmptySeq
          <6>3. batch[c][1] \in Events
            BY <6>1, <6>2, ElementOfSeq
          <6> QED BY <6>2, <6>3, EventStreamAssumption DEF Events
        <5>2. batch[c][1] = 0 - Len(batch[c]) + 1
          BY <3>4, <5>1 DEF SInv, Batches, Dollar
        <5> QED BY <5>1, <5>2
      <4>2. pc[c] = "ready"
        BY <1>4, <3>4, <4>1 DEF SInv, TypeOK
      <4> QED BY <2>2, <2>3, <3>4, <4>2 DEF Publish
    <3> QED BY <3>2, <3>3, <3>4
  <2> QED BY <2>3, <2>4 DEF Hinted
<1> QED BY <1>2, <1>3, <1>4

LEMMA Invariance == DeliverySpec => []IInv
<1>1. IInv /\ [DeliveryNext]_allVars => IInv'
  BY StreamOf, StreamStep, TypesStep, LearnsStep DEF IInv
<1> QED BY <1>1, InitIInv, PTL DEF DeliverySpec

---------------------------------------------------------------------------
(* Theorems *)

\* The stream, the connections, the sends and the clients hold what they may
\* hold in every reachable state.
THEOREM TypeCorrect == DeliverySpec => []DeliveryTypeOK
<1>1. IInv => DeliveryTypeOK
  BY DEF IInv
<1> QED BY <1>1, Invariance, PTL

\* A connection hands events on in order, none twice, and leaves out only what
\* was trimmed or evicted.
THEOREM EventsInOrder == DeliverySpec => []InOrder
<1>1. IInv => InOrder
  BY InOrderOf DEF IInv
<1> QED BY <1>1, Invariance, PTL

\* A connected client knows of every stored message, has a fetch to do, or has
\* the hint on its way, unless the hint was not published, trimmed or evicted,
\* or fell between two XREADs of a connection without an event id.
THEOREM ClientsLearn == DeliverySpec => []Learns
<1>1. IInv => Learns
  BY DEF IInv
<1> QED BY <1>1, Invariance, PTL

---------------------------------------------------------------------------
(* Presence.  What a handler knows of Redis, by where it is.                *)

Up(s) == s \in key /\ at[s] \in {"tellOnline", "up"}
Closing(s) == then[s] \in {"del", "still"} \/ at[s] \in {"rem", "tellOffline", "closed"}

\* Where a handler is and what it keeps belong together.
Places ==
  \A p \in Handlers :
    /\ then[p] = "idle" <=> at[p] \notin {"members", "exists", "srem", "drop",
                                          "set", "del", "still", "answer"}
    /\ at[p] \in {"set", "del", "still", "answer"} => then[p] = at[p]
    /\ then[p] = "idle" => mem[p] = {}
    /\ then[p] = "idle" \/ at[p] \in {"members", "exists", "drop"} => act[p] = {}
    /\ at[p] = "members" => mem[p] = {}
    /\ at[p] = "srem" => mem[p] \cap act[p] = {}
    /\ p \in Watchers => then[p] \in {"idle", "answer"} /\ (then[p] = "idle" <=> at[p] = "idle")
    /\ p \in Sessions => then[p] # "answer"

\* A handler in _active_sessions holds every session that is up and was not
\* added while it was there, and removes none of them.
Held ==
  \A s \in Sessions : Up(s) /\ s \notin raced =>
    \A p \in Handlers :
      /\ at[p] = "exists" => s \in mem[p]
      /\ at[p] \in {"srem", "drop"} => s \in act[p] \ mem[p]

\* The key and the entry of a session that closes go one after the other.
Leaving ==
  \A s \in Sessions :
    /\ at[s] \in {"rem", "tellOffline", "closed"} \/ then[s] = "still" => s \notin key
    /\ at[s] \in {"tellOffline", "closed"} \/ then[s] = "still" => s \notin members

PresenceInv == PresenceTypeOK /\ Places /\ ListedUnlessRaced /\ Held /\ Leaving

\* While the handlers take turns: who is listed and has a key,
Listed == key \cap members

\* and what the only handler that runs has found.
Found ==
  \A p \in Handlers :
    /\ at[p] = "exists" => members = mem[p]
    /\ at[p] = "srem" => members = mem[p] \cup act[p] /\ mem[p] \cap key = {}
    /\ at[p] \in {"drop", "set", "del", "still", "answer"} /\ act[p] = {} => Listed = {}
    /\ at[p] = "set" /\ act[p] = {} => members = {}
    /\ at[p] = "add" /\ ~was[p] => Listed = {} 
    /\ act[p] \subseteq Listed \/ lapsed
    /\ at[p] \in {"add", "tellOnline"} => p \in key \/ lapsed
    /\ at[p] = "tellOffline" => key = {}

\* What the contact was told fits who is listed, but for what the handler that
\* runs is about to tell.
News ==
  /\ view = "online" /\ Listed = {} =>
       \/ lapsed
       \/ \E s \in Sessions : \/ at[s] = "tellOffline"
                              \/ was[s] /\ (at[s] = "rem" \/ then[s] = "still")
  /\ Listed # {} =>
       \/ view = "online"
       \/ \E s \in Sessions : Listed \subseteq {s} /\ (at[s] = "tellOnline" \/ then[s] = "del")
  /\ \A s \in Sessions :
       (then[s] = "set" /\ act[s] # {}) \/ (at[s] = "add" /\ was[s]) => view = "online"

Busy(p) == at[p] \notin {"idle", "up", "closed"}
OneRuns == \A p, q \in Handlers : Busy(p) /\ Busy(q) => p = q

Turns ==
  /\ OneRuns
  /\ \A s \in key \ members : at[s] = "add" \/ then[s] = "del"
  /\ Found /\ News

CalmInv == PresenceInv /\ (calm => Turns)

\* The types of Presence hold in every reachable state.
LEMMA PresenceTypes ==
  ASSUME PresenceTypeOK, PresenceNext
  PROVE  PresenceTypeOK'
<1> USE PresenceAssumption DEF PresenceTypeOK, Handlers, redis, local, told

<1>1. ASSUME NEW p \in Handlers, Smembers(p) PROVE PresenceTypeOK'
  BY <1>1 DEF Smembers
<1>2. ASSUME NEW p \in Handlers, Exists(p) PROVE PresenceTypeOK'
  BY <1>2 DEF Exists
<1>3. ASSUME NEW p \in Handlers, Srem(p) PROVE PresenceTypeOK'
  BY <1>3 DEF Srem
<1>4. ASSUME NEW p \in Handlers, Drop(p) PROVE PresenceTypeOK'
  BY <1>4 DEF Drop, Move
<1>5. ASSUME NEW s \in Sessions, Heartbeat(s) PROVE PresenceTypeOK'
  BY <1>5 DEF Heartbeat, Scan
<1>6. ASSUME NEW s \in Sessions, Set(s) PROVE PresenceTypeOK'
  BY <1>6 DEF Set, Move, Taken
<1>7. ASSUME NEW s \in Sessions, Add(s) PROVE PresenceTypeOK'
  BY <1>7 DEF Add
<1>8. ASSUME NEW s \in Sessions, TellOnline(s) PROVE PresenceTypeOK'
  BY <1>8 DEF TellOnline, Move
<1>9. ASSUME NEW s \in Sessions, Leave(s) PROVE PresenceTypeOK'
  BY <1>9 DEF Leave, Scan
<1>10. ASSUME NEW s \in Sessions, Del(s) PROVE PresenceTypeOK'
  BY <1>10 DEF Del, Move, Taken
<1>11. ASSUME NEW s \in Sessions, Rem(s) PROVE PresenceTypeOK'
  BY <1>11 DEF Rem, Scan
<1>12. ASSUME NEW s \in Sessions, Still(s) PROVE PresenceTypeOK'
  BY <1>12 DEF Still, Taken
<1>13. ASSUME NEW s \in Sessions, TellOffline(s) PROVE PresenceTypeOK'
  BY <1>13 DEF TellOffline, Move
<1>14. ASSUME NEW s \in Sessions, Lapse(s) PROVE PresenceTypeOK'
  BY <1>14 DEF Lapse
<1>15. ASSUME NEW w \in Watchers, Look(w) PROVE PresenceTypeOK'
  BY <1>15 DEF Look, Scan
<1>16. ASSUME NEW w \in Watchers, Answer(w) PROVE PresenceTypeOK'
  BY <1>16 DEF Answer, Move, Taken
<1> QED BY <1>1, <1>2, <1>3, <1>4, <1>5, <1>6, <1>7, <1>8, <1>9, <1>10, <1>11, <1>12,
          <1>13, <1>14, <1>15, <1>16
   DEF PresenceNext, Step

LEMMA PlacesStep ==
  ASSUME PresenceInv, PresenceTypeOK', PresenceNext
  PROVE  Places'
<1> USE PresenceAssumption DEF PresenceInv, PresenceTypeOK, Handlers, redis, local, told,
       Places
<1>1. ASSUME NEW p \in Handlers, Smembers(p) PROVE Places'
  BY <1>1 DEF Smembers
<1>2. ASSUME NEW p \in Handlers, Exists(p) PROVE Places'
  BY <1>2 DEF Exists
<1>3. ASSUME NEW p \in Handlers, Srem(p) PROVE Places'
  BY <1>3 DEF Srem
<1>4. ASSUME NEW p \in Handlers, Drop(p) PROVE Places'
  BY <1>4 DEF Drop, Move
<1>5. ASSUME NEW s \in Sessions, Heartbeat(s) PROVE Places'
  BY <1>5 DEF Heartbeat, Scan
<1>6. ASSUME NEW s \in Sessions, Set(s) PROVE Places'
  BY <1>6 DEF Set, Move, Taken
<1>7. ASSUME NEW s \in Sessions, Add(s) PROVE Places'
  BY <1>7 DEF Add
<1>8. ASSUME NEW s \in Sessions, TellOnline(s) PROVE Places'
  BY <1>8 DEF TellOnline, Move
<1>9. ASSUME NEW s \in Sessions, Leave(s) PROVE Places'
  BY <1>9 DEF Leave, Scan
<1>10. ASSUME NEW s \in Sessions, Del(s) PROVE Places'
  BY <1>10 DEF Del, Move, Taken
<1>11. ASSUME NEW s \in Sessions, Rem(s) PROVE Places'
  BY <1>11 DEF Rem, Scan
<1>12. ASSUME NEW s \in Sessions, Still(s) PROVE Places'
  BY <1>12 DEF Still, Taken
<1>13. ASSUME NEW s \in Sessions, TellOffline(s) PROVE Places'
  BY <1>13 DEF TellOffline, Move
<1>14. ASSUME NEW s \in Sessions, Lapse(s) PROVE Places'
  BY <1>14 DEF Lapse
<1>15. ASSUME NEW w \in Watchers, Look(w) PROVE Places'
  BY <1>15 DEF Look, Scan
<1>16. ASSUME NEW w \in Watchers, Answer(w) PROVE Places'
  BY <1>16 DEF Answer, Move, Taken
<1> QED BY <1>1, <1>2, <1>3, <1>4, <1>5, <1>6, <1>7, <1>8, <1>9, <1>10, <1>11, <1>12,
          <1>13, <1>14, <1>15, <1>16
   DEF PresenceNext, Step

LEMMA HeldStep ==
  ASSUME PresenceInv, PresenceTypeOK', Places', PresenceNext
  PROVE  Held' /\ ListedUnlessRaced'
<1> USE PresenceAssumption DEF PresenceInv, PresenceTypeOK, Handlers, redis, local, told,
       Places, Held, ListedUnlessRaced, Up, Scanning
<1>1. ASSUME NEW p \in Handlers, Smembers(p) PROVE Held' /\ ListedUnlessRaced'
  BY <1>1 DEF Smembers
<1>2. ASSUME NEW p \in Handlers, Exists(p) PROVE Held' /\ ListedUnlessRaced'
  BY <1>2 DEF Exists
<1>3. ASSUME NEW p \in Handlers, Srem(p) PROVE Held' /\ ListedUnlessRaced'
  BY <1>3 DEF Srem
<1>4. ASSUME NEW p \in Handlers, Drop(p) PROVE Held' /\ ListedUnlessRaced'
  BY <1>4 DEF Drop, Move
<1>5. ASSUME NEW s \in Sessions, Heartbeat(s) PROVE Held' /\ ListedUnlessRaced'
  BY <1>5 DEF Heartbeat, Scan
<1>6. ASSUME NEW s \in Sessions, Set(s) PROVE Held' /\ ListedUnlessRaced'
  BY <1>6 DEF Set, Move, Taken
<1>7. ASSUME NEW s \in Sessions, Add(s) PROVE Held' /\ ListedUnlessRaced'
  BY <1>7 DEF Add
<1>8. ASSUME NEW s \in Sessions, TellOnline(s) PROVE Held' /\ ListedUnlessRaced'
  BY <1>8 DEF TellOnline, Move
<1>9. ASSUME NEW s \in Sessions, Leave(s) PROVE Held' /\ ListedUnlessRaced'
  BY <1>9 DEF Leave, Scan
<1>10. ASSUME NEW s \in Sessions, Del(s) PROVE Held' /\ ListedUnlessRaced'
  BY <1>10 DEF Del, Move, Taken
<1>11. ASSUME NEW s \in Sessions, Rem(s) PROVE Held' /\ ListedUnlessRaced'
  BY <1>11 DEF Rem, Scan
<1>12. ASSUME NEW s \in Sessions, Still(s) PROVE Held' /\ ListedUnlessRaced'
  BY <1>12 DEF Still, Taken
<1>13. ASSUME NEW s \in Sessions, TellOffline(s) PROVE Held' /\ ListedUnlessRaced'
  BY <1>13 DEF TellOffline, Move
<1>14. ASSUME NEW s \in Sessions, Lapse(s) PROVE Held' /\ ListedUnlessRaced'
  BY <1>14 DEF Lapse
<1>15. ASSUME NEW w \in Watchers, Look(w) PROVE Held' /\ ListedUnlessRaced'
  BY <1>15 DEF Look, Scan
<1>16. ASSUME NEW w \in Watchers, Answer(w) PROVE Held' /\ ListedUnlessRaced'
  BY <1>16 DEF Answer, Move, Taken
<1> QED BY <1>1, <1>2, <1>3, <1>4, <1>5, <1>6, <1>7, <1>8, <1>9, <1>10, <1>11, <1>12,
          <1>13, <1>14, <1>15, <1>16
   DEF PresenceNext, Step

LEMMA LeavingStep ==
  ASSUME PresenceInv, PresenceTypeOK', Places', PresenceNext
  PROVE  Leaving'
<1> USE PresenceAssumption DEF PresenceInv, PresenceTypeOK, Handlers, redis, local, told,
       Places, Leaving
<1>1. ASSUME NEW p \in Handlers, Smembers(p) PROVE Leaving'
  BY <1>1 DEF Smembers
<1>2. ASSUME NEW p \in Handlers, Exists(p) PROVE Leaving'
  BY <1>2 DEF Exists
<1>3. ASSUME NEW p \in Handlers, Srem(p) PROVE Leaving'
  BY <1>3 DEF Srem
<1>4. ASSUME NEW p \in Handlers, Drop(p) PROVE Leaving'
  BY <1>4 DEF Drop, Move
<1>5. ASSUME NEW s \in Sessions, Heartbeat(s) PROVE Leaving'
  BY <1>5 DEF Heartbeat, Scan
<1>6. ASSUME NEW s \in Sessions, Set(s) PROVE Leaving'
  BY <1>6 DEF Set, Move, Taken
<1>7. ASSUME NEW s \in Sessions, Add(s) PROVE Leaving'
  BY <1>7 DEF Add
<1>8. ASSUME NEW s \in Sessions, TellOnline(s) PROVE Leaving'
  BY <1>8 DEF TellOnline, Move
<1>9. ASSUME NEW s \in Sessions, Leave(s) PROVE Leaving'
  BY <1>9 DEF Leave, Scan
<1>10. ASSUME NEW s \in Sessions, Del(s) PROVE Leaving'
  BY <1>10 DEF Del, Move, Taken
<1>11. ASSUME NEW s \in Sessions, Rem(s) PROVE Leaving'
  BY <1>11 DEF Rem, Scan
<1>12. ASSUME NEW s \in Sessions, Still(s) PROVE Leaving'
  BY <1>12 DEF Still, Taken
<1>13. ASSUME NEW s \in Sessions, TellOffline(s) PROVE Leaving'
  BY <1>13 DEF TellOffline, Move
<1>14. ASSUME NEW s \in Sessions, Lapse(s) PROVE Leaving'
  BY <1>14 DEF Lapse
<1>15. ASSUME NEW w \in Watchers, Look(w) PROVE Leaving'
  BY <1>15 DEF Look, Scan
<1>16. ASSUME NEW w \in Watchers, Answer(w) PROVE Leaving'
  BY <1>16 DEF Answer, Move, Taken
<1> QED BY <1>1, <1>2, <1>3, <1>4, <1>5, <1>6, <1>7, <1>8, <1>9, <1>10, <1>11, <1>12,
          <1>13, <1>14, <1>15, <1>16
   DEF PresenceNext, Step

LEMMA PresenceStep ==
  ASSUME PresenceInv, [PresenceNext]_presenceVars
  PROVE  PresenceInv'
<1>1. CASE PresenceNext
  BY <1>1, PresenceTypes, PlacesStep, HeldStep, LeavingStep DEF PresenceInv
<1>2. CASE UNCHANGED presenceVars
  BY <1>2 DEF presenceVars, PresenceInv, PresenceTypeOK, Places, ListedUnlessRaced, Held,
         Up, Leaving
<1> QED BY <1>1, <1>2

LEMMA TurnsStep ==
  ASSUME CalmInv, PresenceInv', PresenceNext, calm'
  PROVE  Turns'
<1> USE PresenceAssumption DEF Handlers, redis, local, told, Quiet
<1>0. calm /\ PresenceInv /\ Turns
  BY DEF CalmInv, PresenceNext, Step, Smembers, Exists, Srem, Drop, Heartbeat, Set, Add,
         TellOnline,
         Leave, Del, Rem, Still, TellOffline, Lapse, Look, Answer, PresenceInv, PresenceTypeOK
<1>1. ASSUME NEW p \in Handlers, Smembers(p) PROVE Turns'
  BY <1>0, <1>1 DEF Turns, OneRuns, Busy, Found, News, Listed, Smembers, PresenceInv,
         PresenceTypeOK, Places, Leaving
<1>2. ASSUME NEW p \in Handlers, Exists(p) PROVE Turns'
  BY <1>0, <1>2 DEF Turns, OneRuns, Busy, Found, News, Listed, Exists, PresenceInv,
         PresenceTypeOK, Places, Leaving
<1>3. ASSUME NEW p \in Handlers, Srem(p) PROVE Turns'
  BY <1>0, <1>3 DEF Turns, OneRuns, Busy, Found, News, Listed, Srem, PresenceInv,
         PresenceTypeOK, Places, Leaving
<1>4. ASSUME NEW p \in Handlers, Drop(p) PROVE Turns'
  BY <1>0, <1>4 DEF Turns, OneRuns, Busy, Found, News, Listed, Drop, Move, PresenceInv,
         PresenceTypeOK, Places, Leaving
<1>5. ASSUME NEW s \in Sessions, Heartbeat(s) PROVE Turns'
  <2>1. Quiet(Handlers \ {s})
    BY <1>0, <1>5 DEF Heartbeat
  <2> QED BY <1>0, <1>5, <2>1 DEF Turns, OneRuns, Busy, Found, News, Listed, Heartbeat,
         Scan, PresenceInv, PresenceTypeOK, Places, Leaving
<1>6. ASSUME NEW s \in Sessions, Set(s) PROVE Turns'
  <2>1. was'[s] = IF act[s] = {} THEN FALSE ELSE TRUE
    BY <1>0, <1>6 DEF Set, PresenceInv, PresenceTypeOK
  <2>2. /\ at[s] = "set" /\ then[s] = "set" /\ at'[s] = "add" /\ then'[s] = "idle"
        /\ act'[s] = {} /\ key' = key \cup {s} /\ UNCHANGED <<members, view, lapsed>>
        /\ \A q \in Handlers \ {s} :
             /\ at'[q] = at[q] /\ then'[q] = then[q] /\ act'[q] = act[q]
             /\ mem'[q] = mem[q] /\ was'[q] = was[q] /\ ~Busy(q)
    BY <1>0, <1>6 DEF Turns, OneRuns, Busy, Set, Move, Taken, PresenceInv, PresenceTypeOK,
           Places
  <2>3. act[s] = {} => members = {}
    BY <1>0, <2>2 DEF Turns, Found
  <2>4. act[s] # {} => view = "online"
    BY <1>0, <2>2 DEF Turns, News
  <2>5. OneRuns' /\ \A k \in (key \ members)' : at'[k] = "add" \/ then'[k] = "del"
    BY <1>0, <1>6, <2>2 DEF Turns, OneRuns, Busy, PresenceInv, PresenceTypeOK
  <2>6. \A q \in Handlers : act[q] \subseteq Listed \/ lapsed
    BY <1>0 DEF Turns, Found
  <2>7. Found'
    BY <1>0, <2>1, <2>2, <2>3, <2>6 DEF Found, Listed, Busy
  <2>8. News'
    BY <1>0, <2>1, <2>2, <2>3, <2>4 DEF Turns, News, Listed, Busy, Places, PresenceInv
  <2> QED BY <2>5, <2>7, <2>8 DEF Turns
<1>7. ASSUME NEW s \in Sessions, Add(s) PROVE Turns'
  BY <1>0, <1>7 DEF Turns, OneRuns, Busy, Found, News, Listed, Add, PresenceInv,
         PresenceTypeOK, Places, Leaving
<1>8. ASSUME NEW s \in Sessions, TellOnline(s) PROVE Turns'
  BY <1>0, <1>8 DEF Turns, OneRuns, Busy, Found, News, Listed, TellOnline, Move,
         PresenceInv, PresenceTypeOK, Places, Leaving
<1>9. ASSUME NEW s \in Sessions, Leave(s) PROVE Turns'
  <2>1. Quiet(Handlers \ {s})
    BY <1>0, <1>9 DEF Leave
  <2> QED BY <1>0, <1>9, <2>1 DEF Turns, OneRuns, Busy, Found, News, Listed, Leave, Scan,
         PresenceInv, PresenceTypeOK, Places, Leaving
<1>10. ASSUME NEW s \in Sessions, Del(s) PROVE Turns'
  <2>1. was'[s] = IF act[s] = {} THEN FALSE ELSE TRUE
    BY <1>0, <1>10 DEF Del, PresenceInv, PresenceTypeOK
  <2>2. /\ at[s] = "del" /\ then[s] = "del" /\ at'[s] = "rem" /\ then'[s] = "idle"
        /\ act'[s] = {} /\ key' = key \ {s} /\ UNCHANGED <<members, view, lapsed>>
        /\ \A q \in Handlers \ {s} :
             /\ at'[q] = at[q] /\ then'[q] = then[q] /\ act'[q] = act[q]
             /\ mem'[q] = mem[q] /\ was'[q] = was[q] /\ ~Busy(q) /\ then[q] = "idle"
    BY <1>0, <1>10 DEF Turns, OneRuns, Busy, Del, Move, Taken, PresenceInv, PresenceTypeOK,
           Places
  <2>3. OneRuns' /\ \A k \in (key \ members)' : at'[k] = "add" \/ then'[k] = "del"
    BY <1>0, <1>10, <2>2 DEF Turns, OneRuns, Busy, PresenceInv, PresenceTypeOK
  <2>4. Found'
    BY <1>0, <1>10, <2>2 DEF Turns, Found, Listed, Busy, PresenceInv, PresenceTypeOK
  <2>5. view = "online" /\ Listed' = {} => lapsed \/ was'[s]
    <3>1. CASE act[s] # {}
      BY <2>1, <3>1
    <3>2. CASE act[s] = {}
      BY <1>0, <2>2, <3>2 DEF Turns, Found, News, Listed, Busy
    <3> QED BY <3>1, <3>2
  <2>6. Listed' # {} => view = "online"
    BY <1>0, <2>2 DEF Turns, News, Listed, Busy
  <2>7. \A q \in Sessions : then'[q] # "set" /\ at'[q] # "add"
    BY <2>2 DEF Busy
  <2>8. News'
    BY <2>2, <2>5, <2>6, <2>7 DEF News
  <2> QED BY <2>3, <2>4, <2>8 DEF Turns
<1>11. ASSUME NEW s \in Sessions, Rem(s) PROVE Turns'
  BY <1>0, <1>11 DEF Turns, OneRuns, Busy, Found, News, Listed, Rem, Scan, PresenceInv,
         PresenceTypeOK, Places, Leaving
<1>12. ASSUME NEW s \in Sessions, Still(s) PROVE Turns'
  BY <1>0, <1>12 DEF Turns, OneRuns, Busy, Found, News, Listed, Still, Taken, PresenceInv,
         PresenceTypeOK, Places, Leaving
<1>13. ASSUME NEW s \in Sessions, TellOffline(s) PROVE Turns'
  BY <1>0, <1>13 DEF Turns, OneRuns, Busy, Found, News, Listed, TellOffline, Move,
         PresenceInv, PresenceTypeOK, Places, Leaving
<1>14. ASSUME NEW s \in Sessions, Lapse(s) PROVE Turns'
  BY <1>0, <1>14 DEF Turns, OneRuns, Busy, Found, News, Listed, Lapse, PresenceInv,
         PresenceTypeOK, Places, Leaving
<1>15. ASSUME NEW w \in Watchers, Look(w) PROVE Turns'
  <2>1. Quiet(Handlers \ {w})
    BY <1>0, <1>15 DEF Look
  <2> QED BY <1>0, <1>15, <2>1 DEF Turns, OneRuns, Busy, Found, News, Listed, Look, Scan,
         PresenceInv, PresenceTypeOK, Places, Leaving
<1>16. ASSUME NEW w \in Watchers, Answer(w) PROVE Turns'
  BY <1>0, <1>16 DEF Turns, OneRuns, Busy, Found, News, Listed, Answer, Move, Taken,
         PresenceInv, PresenceTypeOK, Places, Leaving
<1> QED BY <1>1, <1>2, <1>3, <1>4, <1>5, <1>6, <1>7, <1>8, <1>9, <1>10, <1>11, <1>12,
          <1>13, <1>14, <1>15, <1>16
   DEF PresenceNext, Step

\* The types of Presence hold in every reachable state.
THEOREM PresenceTypeCorrect == PresenceSpec => []PresenceTypeOK
<1>1. PresenceInit => PresenceTypeOK
  BY PresenceAssumption DEF PresenceInit, PresenceTypeOK, Handlers
<1>2. PresenceTypeOK /\ [PresenceNext]_presenceVars => PresenceTypeOK'
  BY PresenceTypes DEF presenceVars, PresenceTypeOK
<1> QED BY <1>1, <1>2, PTL DEF PresenceSpec

LEMMA PresenceInvariant == PresenceSpec => []PresenceInv
<1>1. PresenceInit => PresenceInv
  BY PresenceAssumption
     DEF PresenceInit, PresenceInv, PresenceTypeOK, Places, ListedUnlessRaced, Held, Up,
         Leaving, Handlers
<1>2. PresenceInv /\ [PresenceNext]_presenceVars => PresenceInv'
  BY PresenceStep
<1> QED BY <1>1, <1>2, PTL DEF PresenceSpec

\* A session that sent its heartbeat in time is listed, unless a handler that
\* was in _active_sessions when it was added took it off again.
THEOREM SessionsListed == PresenceSpec => []ListedUnlessRaced
BY PresenceInvariant, PTL DEF PresenceInv

\* A closed session leaves neither a key nor an entry behind.
THEOREM SessionsCleared == PresenceSpec => []ClosedLeavesNothing
<1>1. PresenceInv => ClosedLeavesNothing
  BY DEF PresenceInv, Leaving, ClosedLeavesNothing
<1> QED BY <1>1, PresenceInvariant, PTL

\* While the handlers take turns, contacts were told last what is the case, or
\* a key timed out since.
THEOREM ContactsTold == PresenceSpec => []TruthTold
<1>1. PresenceInit /\ PresenceInv => CalmInv
  BY PresenceAssumption
     DEF PresenceInit, CalmInv, Turns, OneRuns, Busy, Found, News, Listed, Handlers
<1>2. CalmInv /\ PresenceInv' /\ [PresenceNext]_presenceVars => CalmInv'
  <2> SUFFICES ASSUME CalmInv, PresenceInv', [PresenceNext]_presenceVars, calm' PROVE Turns'
    BY DEF CalmInv
  <2>1. CASE PresenceNext
    BY <2>1, TurnsStep
  <2>2. CASE UNCHANGED presenceVars
    BY <2>2 DEF presenceVars, CalmInv, Turns, OneRuns, Busy, Found, News, Listed
  <2> QED BY <2>1, <2>2
<1>3. CalmInv => TruthTold
  <2> SUFFICES ASSUME CalmInv, calm, Quiet(Handlers)
               PROVE  (key # {} => view = "online") /\ (key = {} => view = "offline" \/ lapsed)
    BY DEF TruthTold
  <2>1. PresenceInv /\ Turns
    BY DEF CalmInv
  <2>2. \A p \in Handlers : at[p] \in {"idle", "up", "closed"} /\ then[p] = "idle"
    BY <2>1 DEF Quiet, PresenceInv, Places
  <2>3. Listed = key
    BY <2>1, <2>2 DEF Turns, Listed, PresenceInv, PresenceTypeOK, Handlers
  <2> QED BY <2>1, <2>2, <2>3 DEF Turns, News, PresenceInv, PresenceTypeOK, Handlers
<1> QED BY <1>1, <1>2, <1>3, PresenceInvariant, PTL DEF PresenceSpec
=============================================================================
