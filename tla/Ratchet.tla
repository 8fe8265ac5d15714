------------------------------ MODULE Ratchet ------------------------------
(***************************************************************************)
(* One conversation: the key agreement of crypto/x3dh.py, then the double  *)
(* ratchet of crypto/ratchet.py, over a mailbox that may lose a message    *)
(* (its time runs out), hand it out again (until it is confirmed) or out   *)
(* of order.                                                               *)
(*                                                                         *)
(* Cryptography is symbolic: a key pair is a number, the Diffie-Hellman    *)
(* result of two pairs the set of both, and a derived key the sequence of  *)
(* the results that went into it.  Decryption works exactly with the key   *)
(* of the encryption.  The counters in the header are never read.          *)
(***************************************************************************)
EXTENDS Naturals, Sequences, FiniteSets

CONSTANTS
  Alice,    (* who starts the conversation                                 *)
  Bob,      (* who published the key bundle                                *)
  MaxMsg,   (* bound: how many messages are encrypted, and how far a       *)
            (* receiving chain goes                                        *)
  MaxKey    (* bound: how many key pairs are made                          *)

ASSUME RatchetAssumption == Alice # Bob /\ MaxMsg \in Nat /\ MaxKey \in Nat

Parties == {Alice, Bob}
Peer(p) == CHOOSE q \in Parties : q # p

\* The key pairs that exist before the first message: identities, signed and
\* one-time prekey, X3DH's ephemeral key and the first ratchet key of each.
NoPair == 0
IkA == 1
IkB == 2
SpkB == 3
OpkB == 4
EkA == 5
RkB == 6
RkA == 7

VARIABLES
  nextPair,  (* the next key pair                                          *)
  state,     (* RatchetState of each party                                 *)
  sent,      (* every message encrypted                                    *)
  taken,     (* messages the recipient tried to decrypt                    *)
  lost,      (* messages that never arrive                                 *)
  failed,    (* messages whose first decryption raised                     *)
  shuffled   (* history: a message was handed out late or again            *)

ratchetVars == <<nextPair, state, sent, taken, lost, failed, shuffled>>

---------------------------------------------------------------------------
(* Keys *)

DH(private, public) == {private, public}

\* _hkdf: the new root key; the chain key that comes with it is its start.
Hkdf(root, dh) == Append(root, dh)
Chain(root) == [root |-> root, n |-> 0]
ZeroChain == Chain(<<>>)

\* derive_message_key: the message key is named by the chain key it is from.
\* Mutant: the chain stays where it is.
ChainStays(chain) == chain
Advance(chain) == [chain EXCEPT !.n = @ + 1]

X3dhSender(opk) ==
  <<DH(IkA, SpkB), DH(EkA, IkB), DH(EkA, SpkB)>>
    \o (IF opk = NoPair THEN <<>> ELSE <<DH(EkA, opk)>>)

X3dhReceiver(opk) ==
  <<DH(SpkB, IkA), DH(IkB, EkA), DH(SpkB, EkA)>>
    \o (IF opk = NoPair THEN <<>> ELSE <<DH(opk, EkA)>>)

InitSender(secret) ==
  LET root == Hkdf(secret, DH(RkA, RkB)) IN
  [root |-> root, send |-> Chain(root), recv |-> ZeroChain, private |-> RkA, remote |-> RkB]

InitReceiver(secret) ==
  [root |-> secret, send |-> ZeroChain, recv |-> ZeroChain, private |-> RkB, remote |-> NoPair]

\* The bundle Alice fetched came with a one-time prekey, or had none left.
RatchetInit ==
  /\ nextPair = RkA + 1
  /\ \E opk \in {NoPair, OpkB} :
       state = [p \in Parties |-> IF p = Alice THEN InitSender(X3dhSender(opk))
                                               ELSE InitReceiver(X3dhReceiver(opk))]
  /\ sent = {} /\ taken = {} /\ lost = {} /\ failed = {} /\ shuffled = FALSE

---------------------------------------------------------------------------
(* ratchet_encrypt *)

Encrypt(p) ==
  LET m == [id |-> Cardinality(sent) + 1, to |-> Peer(p), dh |-> state[p].private,
            key |-> state[p].send]
  IN /\ Cardinality(sent) < MaxMsg
     /\ sent' = sent \cup {m}
     /\ state' = [state EXCEPT ![p].send = Advance(@)]
     /\ UNCHANGED <<nextPair, taken, lost, failed, shuffled>>

---------------------------------------------------------------------------
(* ratchet_decrypt *)

\* dh_ratchet_step: a receiving chain from the old key pair, a sending chain
\* from a fresh one.
\* Mutant: the sending chain starts from the old root.
StepOldRoot(s, theirs) ==
  LET recvRoot == Hkdf(s.root, DH(s.private, theirs))
      sendRoot == Hkdf(s.root, DH(nextPair, theirs))
  IN [root |-> sendRoot, recv |-> Chain(recvRoot), send |-> Chain(sendRoot),
      private |-> nextPair, remote |-> theirs]

DhRatchetStep(s, theirs) ==
  LET recvRoot == Hkdf(s.root, DH(s.private, theirs))
      sendRoot == Hkdf(recvRoot, DH(nextPair, theirs))
  IN [root |-> sendRoot, recv |-> Chain(recvRoot), send |-> Chain(sendRoot),
      private |-> nextPair, remote |-> theirs]

\* Messages to p that were neither tried nor lost.
Waiting(p) == {m \in sent \ (taken \cup lost) : m.to = p}

\* The ratchet steps and the chain advances before the decryption is tried,
\* and stay so when it raises.
Decrypt(p, m) ==
  LET stepped == IF state[p].remote = m.dh THEN state[p] ELSE DhRatchetStep(state[p], m.dh)
  IN /\ m.to = p /\ m \notin lost
     /\ stepped.private = nextPair => nextPair <= MaxKey
     /\ stepped.recv.n < MaxMsg
     /\ nextPair' = IF stepped.private = nextPair THEN nextPair + 1 ELSE nextPair
     /\ state' = [state EXCEPT ![p] = [stepped EXCEPT !.recv = Advance(@)]]
     /\ taken' = taken \cup {m}
     /\ failed' = failed \cup {k \in {m} \ taken : stepped.recv # m.key}
     /\ shuffled' = (shuffled \/ m \in taken \/ \E k \in Waiting(p) : k.id < m.id)
     /\ UNCHANGED <<sent, lost>>

Lose(m) ==
  /\ m \in sent \ (taken \cup lost) /\ lost' = lost \cup {m}
  /\ UNCHANGED <<nextPair, state, sent, taken, failed, shuffled>>

RatchetNext ==
  \/ \E p \in Parties : Encrypt(p) \/ \E m \in sent : Decrypt(p, m)
  \/ \E m \in sent : Lose(m)

RatchetSpec == RatchetInit /\ [][RatchetNext]_ratchetVars

---------------------------------------------------------------------------
(* Properties *)

\* While messages arrive in the order they were sent and once, each decrypts;
\* one that does not arrive costs the rest of its sending chain and nothing
\* more: the peer's next ratchet key starts afresh.
FailsOnlyBehindLoss ==
  shuffled \/ \A m \in failed :
    \E k \in lost : k.to = m.to /\ k.dh = m.dh /\ k.id < m.id

\* No two messages are encrypted with one key, whatever the mailbox does.
KeysFresh == \A m, k \in sent : m.key = k.key => m = k
=============================================================================
