--------------------------- MODULE DoubleRatchet ----------------------------
(***************************************************************************)
(* Both ends of an encrypted session: encryption/ratchet.py under          *)
(* encryption/channel.py, over a transport that loses, reorders and        *)
(* redelivers.                                                             *)
(*                                                                         *)
(* Keys are terms. A key pair is its owner and the number of pairs the     *)
(* owner made before it (0 is the initiator's first pair and the           *)
(* responder's signed pre-key); a Diffie-Hellman output is the set of the  *)
(* two public keys; a root key, and the chain key derived with it, is the  *)
(* sequence of the outputs that went into it. Chain keys and message       *)
(* numbers advance in the same statements, so a message key is a chain and *)
(* a number. Equal terms are equal keys, different terms different keys,   *)
(* and a ciphertext opens with the key it was made with and no other.      *)
(*                                                                         *)
(* Left out: the 32 bits of a number, the nonces, the copy of the state    *)
(* to_dict makes. When one burst both overwrites cached keys and crosses   *)
(* MAX_SKIPPED_KEYS_TOTAL, the model evicts at its end, the code key by    *)
(* key.                                                                    *)
(***************************************************************************)
EXTENDS Integers, Sequences, FiniteSets

CONSTANTS
    MAX_SKIP,                 \* numbers one call may skip
    MAX_SKIPPED_KEYS_TOTAL,   \* skipped keys a session keeps
    MaxSent,                  \* bound: messages sent by both ends
    None,                     \* a key not set, or zeroed by close
    MaxRedeliveries           \* bound: deliveries beyond a message's first

ASSUME BoundsAssumption ==
    /\ MAX_SKIP \in Nat /\ MAX_SKIPPED_KEYS_TOTAL \in Nat
    /\ MaxSent \in Nat /\ MaxRedeliveries \in Nat

Party == {"initiator", "responder"}
Peer(p) == CHOOSE q \in Party : q # p

PublicKey == [of : Party, nr : Nat]
Pub(p, n) == [of |-> p, nr |-> n]
Root == Seq(SUBSET PublicKey)
MessageKey == [chain : Root, n : Nat]

\* A header and the key the ciphertext was made with.
EncryptedMessage == [dh : PublicKey, pn : Nat, key : MessageKey]

\* An entry of skipped_keys, at its place in the order of insertion.
SkippedKey == [dh : PublicKey, key : MessageKey, at : Nat \X Nat]

ASSUME NoneAssumption == None \notin Root \cup PublicKey

RatchetState ==
    [dh_self : Nat, dh_remote : PublicKey \cup {None},
     root : Root \cup {None},
     chain_send : Root \cup {None}, chain_recv : Root \cup {None},
     ns : Nat, nr : Nat, pn : Nat, skipped : SUBSET SkippedKey]

VARIABLES
    state,          \* the RatchetState of each end
    closed,         \* SecureChannel._closed
    message_count,  \* SecureChannel._message_count
    sent,           \* the messages each end has sent
    delivered,      \* history: the messages delivered to each end
    opened,         \* history: those it decrypted
    failed,         \* history: those whose decryption did not authenticate
    redeliveries,   \* history: how often a message was delivered again
    evicted         \* history: a skipped key was evicted

vars == <<state, closed, message_count, sent, delivered, opened, failed,
          redeliveries, evicted>>

-----------------------------------------------------------------------------
(* init_sender, init_receiver, from one shared secret.                     *)

InitSender ==
    LET root == << {Pub("initiator", 0), Pub("responder", 0)} >>
    IN  [dh_self |-> 0, dh_remote |-> Pub("responder", 0), root |-> root,
         chain_send |-> root, chain_recv |-> None,
         ns |-> 0, nr |-> 0, pn |-> 0, skipped |-> {}]

InitReceiver ==
    [dh_self |-> 0, dh_remote |-> None, root |-> << >>,
     chain_send |-> None, chain_recv |-> None,
     ns |-> 0, nr |-> 0, pn |-> 0, skipped |-> {}]

Init ==
    /\ state = [p \in Party |-> IF p = "initiator" THEN InitSender
                                                   ELSE InitReceiver]
    /\ closed = [p \in Party |-> FALSE]
    /\ message_count = [p \in Party |-> 0]
    /\ sent = [p \in Party |-> {}]
    /\ delivered = [p \in Party |-> {}]
    /\ opened = [p \in Party |-> {}]
    /\ failed = [p \in Party |-> {}]
    /\ redeliveries = 0
    /\ evicted = FALSE

-----------------------------------------------------------------------------
(* _skip_messages                                                          *)

TooMany(s, until) == s.chain_recv # None /\ until - s.nr > MAX_SKIP

Older(a, b) == \/ a.at[1] < b.at[1]
               \/ a.at[1] = b.at[1] /\ a.at[2] < b.at[2]

\* Mutant: one more than the cap is kept.
EvictLate(keys) ==
    {k \in keys : Cardinality({l \in keys : Older(k, l)})
                    <= MAX_SKIPPED_KEYS_TOTAL}

Evict(keys) ==
    {k \in keys : Cardinality({l \in keys : Older(k, l)})
                    < MAX_SKIPPED_KEYS_TOTAL}

Holds(s, dh, n) == {k \in s.skipped : k.dh = dh /\ k.key.n = n}

\* What the loop assigns for number n: an entry that is there keeps its place.
Cached(s, n) ==
    [dh  |-> s.dh_remote,
     key |-> [chain |-> s.chain_recv, n |-> n],
     at  |-> IF Holds(s, s.dh_remote, n) = {}
             THEN <<Len(s.chain_recv), n>>
             ELSE (CHOOSE k \in Holds(s, s.dh_remote, n) : TRUE).at]

WithSkipped(s, until) ==
    {k \in s.skipped : ~(k.dh = s.dh_remote /\ k.key.n \in s.nr .. until - 1)}
        \cup {Cached(s, n) : n \in s.nr .. until - 1}

Skip(s, until) ==
    IF s.chain_recv = None \/ until <= s.nr THEN s
    ELSE [s EXCEPT !.skipped = Evict(WithSkipped(s, until)), !.nr = until]

Evicts(s, until) ==
    s.chain_recv # None /\ Skip(s, until).skipped # WithSkipped(s, until)

-----------------------------------------------------------------------------
(* _dh_ratchet_step                                                        *)

RecvRoot(p, s, dh) == Append(s.root, {Pub(p, s.dh_self), dh})
SendRoot(p, s, dh) == Append(RecvRoot(p, s, dh), {Pub(p, s.dh_self + 1), dh})

DHRatchetStep(p, s, dh) ==
    [s EXCEPT !.pn = s.ns, !.ns = 0, !.nr = 0, !.dh_remote = dh,
              !.dh_self = s.dh_self + 1,
              !.root = SendRoot(p, s, dh),
              !.chain_recv = RecvRoot(p, s, dh),
              !.chain_send = SendRoot(p, s, dh)]

-----------------------------------------------------------------------------
(* encrypt, SecureChannel.send                                             *)

Message(p) ==
    LET s == state[p]
    IN  [dh |-> Pub(p, s.dh_self), pn |-> s.pn,
         key |-> [chain |-> s.chain_send, n |-> s.ns]]

\* Mutant: the sending chain need not be there.
SendUnready(p) ==
    /\ ~closed[p]
    /\ Cardinality(sent[p] \cup sent[Peer(p)]) < MaxSent
    /\ sent' = [sent EXCEPT ![p] = @ \cup {Message(p)}]
    /\ state' = [state EXCEPT ![p].ns = @ + 1]
    /\ message_count' = [message_count EXCEPT ![p] = @ + 1]
    /\ UNCHANGED <<closed, delivered, opened, failed, redeliveries, evicted>>

Send(p) ==
    /\ ~closed[p]
    /\ state[p].chain_send # None
    /\ Cardinality(sent[p] \cup sent[Peer(p)]) < MaxSent
    /\ sent' = [sent EXCEPT ![p] = @ \cup {Message(p)}]
    /\ state' = [state EXCEPT ![p].ns = @ + 1]
    /\ message_count' = [message_count EXCEPT ![p] = @ + 1]
    /\ UNCHANGED <<closed, delivered, opened, failed, redeliveries, evicted>>

-----------------------------------------------------------------------------
(* decrypt, SecureChannel.receive                                          *)

Turns(s, m) == s.dh_remote = None \/ m.dh # s.dh_remote

\* Mutant: the rest of the old chain is not cached.
TurnedAtOnce(p, s, m) ==
    IF Turns(s, m) THEN DHRatchetStep(p, s, m.dh) ELSE s

\* The state after the part of decrypt that a new ratchet key causes.
Turned(p, s, m) ==
    IF Turns(s, m) THEN DHRatchetStep(p, Skip(s, m.pn), m.dh) ELSE s

\* The transport hands over a message of the peer, perhaps once more.
Deliver(p, m) ==
    /\ ~closed[p]
    /\ m \in delivered[p] => redeliveries < MaxRedeliveries
    /\ delivered' = [delivered EXCEPT ![p] = @ \cup {m}]
    /\ redeliveries' = IF m \in delivered[p] THEN redeliveries + 1
                                             ELSE redeliveries

\* Mutant: the message is counted before it has authenticated.
OpenCounted(p, m, key) ==
    /\ opened' = IF key = m.key THEN [opened EXCEPT ![p] = @ \cup {m}]
                                ELSE opened
    /\ failed' = IF key = m.key THEN failed
                                ELSE [failed EXCEPT ![p] = @ \cup {m}]
    /\ message_count' = [message_count EXCEPT ![p] = @ + 1]

\* What authentication with a key comes to.
Open(p, m, key) ==
    /\ opened' = IF key = m.key THEN [opened EXCEPT ![p] = @ \cup {m}]
                                ELSE opened
    /\ failed' = IF key = m.key THEN failed
                                ELSE [failed EXCEPT ![p] = @ \cup {m}]
    /\ message_count' = IF key = m.key
                        THEN [message_count EXCEPT ![p] = @ + 1]
                        ELSE message_count

\* Mutant: the key stays in the cache.
OpenSkippedKept(p, m) ==
    /\ Deliver(p, m)
    /\ \E k \in Holds(state[p], m.dh, m.key.n) : Open(p, m, k.key)
    /\ UNCHANGED <<state, closed, sent, evicted>>

\* The key was cached: it is popped before it is tried.
OpenSkipped(p, m) ==
    /\ Deliver(p, m)
    /\ \E k \in Holds(state[p], m.dh, m.key.n) :
          /\ state' = [state EXCEPT ![p].skipped = @ \ {k}]
          /\ Open(p, m, k.key)
    /\ UNCHANGED <<closed, sent, evicted>>

\* "Too many skipped messages", before or after the ratchet step.
TooManySkipped(p, m) ==
    LET s == state[p] IN
    /\ Deliver(p, m)
    /\ Holds(s, m.dh, m.key.n) = {}
    /\ \/ /\ Turns(s, m) /\ TooMany(s, m.pn)
          /\ UNCHANGED <<state, evicted>>
       \/ /\ ~(Turns(s, m) /\ TooMany(s, m.pn))
          /\ TooMany(Turned(p, s, m), m.key.n)
          /\ state' = [state EXCEPT ![p] = Turned(p, s, m)]
          /\ evicted' = (evicted \/ (Turns(s, m) /\ Evicts(s, m.pn)))
    /\ UNCHANGED <<closed, message_count, sent, opened, failed>>

\* The state advances before the message has authenticated.
OpenNext(p, m) ==
    LET s == state[p]
        t == Turned(p, s, m)
        u == Skip(t, m.key.n)
    IN
    /\ Deliver(p, m)
    /\ Holds(s, m.dh, m.key.n) = {}
    /\ ~(Turns(s, m) /\ TooMany(s, m.pn))
    /\ ~TooMany(t, m.key.n)
    /\ state' = [state EXCEPT ![p] = [u EXCEPT !.nr = @ + 1]]
    /\ Open(p, m, [chain |-> u.chain_recv, n |-> u.nr])
    /\ evicted' = (evicted \/ (Turns(s, m) /\ Evicts(s, m.pn))
                           \/ Evicts(t, m.key.n))
    /\ UNCHANGED <<closed, sent>>

\* SecureChannel.close
Close(p) ==
    /\ ~closed[p]
    /\ closed' = [closed EXCEPT ![p] = TRUE]
    /\ state' = [state EXCEPT ![p].root = None, ![p].chain_send = None,
                              ![p].chain_recv = None, ![p].skipped = {}]
    /\ UNCHANGED <<message_count, sent, delivered, opened, failed,
                   redeliveries, evicted>>

Receive(p) ==
    \E m \in sent[Peer(p)] :
        OpenSkipped(p, m) \/ TooManySkipped(p, m) \/ OpenNext(p, m)

Next == \E p \in Party : Send(p) \/ Receive(p) \/ Close(p)

Spec == Init /\ [][Next]_vars

-----------------------------------------------------------------------------
(* Properties                                                              *)

TypeOK ==
    /\ state \in [Party -> RatchetState]
    /\ closed \in [Party -> BOOLEAN]
    /\ message_count \in [Party -> Nat]
    /\ sent \in [Party -> SUBSET EncryptedMessage]
    /\ delivered \in [Party -> SUBSET EncryptedMessage]
    /\ opened \in [Party -> SUBSET EncryptedMessage]
    /\ failed \in [Party -> SUBSET EncryptedMessage]
    /\ redeliveries \in Nat
    /\ evicted \in BOOLEAN

\* A state the keys of which yield key k.
Yields(s, k) ==
    \/ s.chain_recv = k.chain /\ k.n >= s.nr
    \/ s.chain_send = k.chain /\ k.n >= s.ns
    \/ \E e \in s.skipped : e.key = k

\* Forward secrecy: what an end holds yields no key of a message it has sent
\* or decrypted, whatever was lost, reordered or delivered again.
KeysAreForgotten ==
    \A p \in Party : \A m \in sent[p] \cup opened[p] : ~Yields(state[p], m.key)

\* Out-of-order delivery: as long as nothing is delivered twice and no cached
\* key is evicted, no message fails to decrypt, in whatever order messages of
\* however many turns arrive, get lost or are refused as skipping too many.
AnyOrderDecrypts ==
    redeliveries = 0 /\ ~evicted => \A p \in Party : failed[p] = {}

\* The cache of skipped keys keeps its cap over any number of turns.
SkippedIsCapped ==
    \A p \in Party :
        Cardinality(state[p].skipped) <= MAX_SKIPPED_KEYS_TOTAL

\* What the wire specification's idempotent delivery takes for granted: that
\* only a message that was decrypted before fails to decrypt. (Refuted.)
OnlyRepeatsFail ==
    ~evicted => \A p \in Party : failed[p] \subseteq opened[p]

\* The session as a channel that hands over what was sent, at most once.
Channel == INSTANCE SecureDelivery WITH count <- message_count

ImplementsChannel == Channel!Spec
=============================================================================
