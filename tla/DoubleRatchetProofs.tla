------------------------ MODULE DoubleRatchetProofs -------------------------
(***************************************************************************)
(* Proofs about DoubleRatchet: its types, forward secrecy, delivery in any *)
(* order, and that it implements SecureDelivery. The argument is one of    *)
(* order. Every root key an end derives is one output longer than the      *)
(* last, the receiving chain taking the one and the sending chain the      *)
(* next, so that the length of a chain tells when, and for which           *)
(* direction, it was derived; within a chain the number does. A key is     *)
(* used or cached when it is derived.                                      *)
(***************************************************************************)
EXTENDS DoubleRatchet, ExtremeElements, TLAPS, SequenceTheorems, FiniteSetTheorems

Keys(messages) == {m.key : m \in messages}

\* The chains an end receives on are an odd number of outputs short of its
\* root key, and a key of the current one precedes the next number.
ReceivedBefore(s, k) ==
    /\ Len(k.chain) < Len(s.root)
    /\ (Len(s.root) - Len(k.chain)) % 2 = 1
    /\ k.chain = s.chain_recv => k.n < s.nr

\* Those it sends on are an even number short.
SentBefore(s, k) ==
    /\ Len(k.chain) <= Len(s.root)
    /\ (Len(s.root) - Len(k.chain)) % 2 = 0
    /\ k.chain = s.chain_send => k.n < s.ns

RootInv(s) ==
    /\ s.root \in Root
    /\ s.chain_send # None => s.chain_send = s.root
    /\ s.chain_recv # None => /\ s.dh_remote # None
                              /\ Len(s.root) = Len(s.chain_recv) + 1

\* Cached keys are unused, and each is cached once.
CacheInv(s, used) ==
    /\ \A k \in used : ReceivedBefore(s, k)
    /\ \A e \in s.skipped : ReceivedBefore(s, e.key) /\ e.key \notin used
    /\ \A e, f \in s.skipped : e.key = f.key => e = f

EndInv(p) ==
    IF closed[p]
    THEN /\ state[p].chain_send = None /\ state[p].chain_recv = None
         /\ state[p].skipped = {}
    ELSE /\ RootInv(state[p])
         /\ CacheInv(state[p], Keys(opened[p]))
         /\ \A m \in sent[p] : SentBefore(state[p], m.key)

IInv ==
    /\ TypeOK
    /\ \A p \in Party : EndInv(p)
    /\ \A p \in Party : \A m \in sent[p] : m.dh.of = p
    /\ \A p \in Party : opened[p] \subseteq sent[Peer(p)]

-----------------------------------------------------------------------------
(* The helpers. *)

LEMMA PeerIsOther ==
    \A p \in Party : Peer(p) \in Party /\ Peer(p) # p
BY DEF Party, Peer

LEMMA KeyTypes ==
    /\ \A c \in Root : Len(c) \in Nat
    /\ \A k \in MessageKey : k.chain \in Root /\ k.n \in Nat
    /\ \A e \in SkippedKey : e.key \in MessageKey
BY DEF Root, MessageKey, SkippedKey

LEMMA StateTypes ==
    ASSUME NEW s \in RatchetState
    PROVE  /\ s.dh_self \in Nat /\ s.ns \in Nat /\ s.nr \in Nat /\ s.pn \in Nat
           /\ s.dh_remote \in PublicKey \cup {None}
           /\ s.chain_send \in Root \cup {None}
           /\ s.chain_recv \in Root \cup {None}
           /\ \A e \in s.skipped : e \in SkippedKey
BY DEF RatchetState

LEMMA ParityKept ==
    ASSUME NEW a \in Nat, NEW b \in Nat, NEW c \in Nat, c = a + 2
    PROVE  (c - b) % 2 = (a - b) % 2
OBVIOUS

LEMMA OneIsOdd ==
    ASSUME NEW a \in Nat, NEW b \in Nat, a = b + 1
    PROVE  (a - b) % 2 # 0
OBVIOUS

\* What a cached key is.
LEMMA CachedType ==
    ASSUME NEW s \in RatchetState, s.chain_recv # None, s.dh_remote # None,
           NEW n \in Nat
    PROVE  /\ Cached(s, n) \in SkippedKey
           /\ Cached(s, n).key = [chain |-> s.chain_recv, n |-> n]
<1>1. s.chain_recv \in Root /\ s.dh_remote \in PublicKey /\ s.skipped \subseteq SkippedKey
  BY DEF RatchetState
<1>2. Len(s.chain_recv) \in Nat
  BY <1>1 DEF Root
<1>3. \A e \in SkippedKey : e.at \in Nat \X Nat
  BY DEF SkippedKey
<1>4. ASSUME Holds(s, s.dh_remote, n) # {}
      PROVE  (CHOOSE k \in Holds(s, s.dh_remote, n) : TRUE).at \in Nat \X Nat
  <2>1. (CHOOSE k \in Holds(s, s.dh_remote, n) : TRUE) \in Holds(s, s.dh_remote, n)
    BY <1>4
  <2>2. Holds(s, s.dh_remote, n) \subseteq SkippedKey
    BY <1>1 DEF Holds
  <2> QED BY <2>1, <2>2, <1>3
<1>5. Cached(s, n).at \in Nat \X Nat
  BY <1>2, <1>4 DEF Cached
<1>6. [chain |-> s.chain_recv, n |-> n] \in MessageKey
  BY <1>1 DEF MessageKey
<1>7. Cached(s, n) = [dh |-> s.dh_remote, key |-> [chain |-> s.chain_recv, n |-> n],
                      at |-> Cached(s, n).at]
  BY DEF Cached
<1> HIDE DEF Cached
<1> QED BY <1>1, <1>5, <1>6, <1>7 DEF SkippedKey

\* Skipping touches the cache and the next number only, and keeps unused keys
\* apart from used ones.
LEMMA SkipIsSound ==
    ASSUME NEW s \in RatchetState, NEW until \in Nat,
           NEW used \in SUBSET MessageKey,
           RootInv(s), CacheInv(s, used)
    PROVE  /\ Skip(s, until) \in RatchetState
           /\ RootInv(Skip(s, until))
           /\ CacheInv(Skip(s, until), used)
           /\ Skip(s, until).dh_self = s.dh_self
           /\ Skip(s, until).dh_remote = s.dh_remote
           /\ Skip(s, until).root = s.root
           /\ Skip(s, until).chain_send = s.chain_send
           /\ Skip(s, until).chain_recv = s.chain_recv
           /\ Skip(s, until).ns = s.ns
<1> DEFINE new  == WithSkipped(s, until)
           u    == [s EXCEPT !.skipped = Evict(new), !.nr = until]
<1>1. CASE s.chain_recv = None \/ until <= s.nr
  BY <1>1 DEF Skip
<1>2. CASE s.chain_recv # None /\ s.nr < until
  <2>1. s.dh_remote # None /\ s.chain_recv \in Root /\ s.nr \in Nat
    BY <1>2 DEF RootInv, RatchetState
  <2>2. \A n \in s.nr .. until - 1 :
           Cached(s, n) \in SkippedKey
             /\ Cached(s, n).key = [chain |-> s.chain_recv, n |-> n]
    BY <2>1, <1>2, CachedType
  <2>3. Evict(new) \subseteq new
    BY DEF Evict
  <2>4. \A e \in new : \/ e \in s.skipped
                       \/ \E n \in s.nr .. until - 1 : e = Cached(s, n)
    BY DEF WithSkipped
  <2>5. ASSUME NEW e \in Evict(new) PROVE e \in SkippedKey
    <3> HIDE DEF new
    <3>1. CASE e \in s.skipped
      BY <3>1, StateTypes
    <3>2. CASE \E n \in s.nr .. until - 1 : e = Cached(s, n)
      BY <3>2, <2>2
    <3> QED BY <2>3, <2>4, <3>1, <3>2
  <2>6. Skip(s, until) = u
    BY <1>2, <2>1 DEF Skip
  <2> HIDE DEF new
  <2>7. /\ u \in RatchetState
        /\ u.skipped = Evict(new) /\ u.nr = until
        /\ u.dh_self = s.dh_self /\ u.dh_remote = s.dh_remote
        /\ u.root = s.root /\ u.chain_send = s.chain_send
        /\ u.chain_recv = s.chain_recv /\ u.ns = s.ns
    BY <2>5 DEF RatchetState
  <2> HIDE DEF u
  <2>8. RootInv(u)
    BY <2>7 DEF RootInv
  <2>9. Len(s.root) = Len(s.chain_recv) + 1 /\ Len(s.chain_recv) \in Nat
    BY <2>1, <1>2 DEF RootInv, Root
  <2>10. ASSUME NEW k \in MessageKey, ReceivedBefore(s, k)
         PROVE  ReceivedBefore(u, k)
    <3>1. k.n \in Nat /\ s.nr \in Nat /\ u.nr \in Nat /\ s.nr < u.nr
      BY <2>1, <2>7, <1>2, KeyTypes
    <3>2. u.root = s.root /\ u.chain_recv = s.chain_recv
      BY <2>7
    <3>3. k.chain = u.chain_recv => k.n < u.nr
      BY <3>1, <3>2, <2>10 DEF ReceivedBefore
    <3> QED BY <3>2, <3>3, <2>10 DEF ReceivedBefore
  <2>11. \A n \in s.nr .. until - 1 :
            /\ ReceivedBefore(u, [chain |-> s.chain_recv, n |-> n])
            /\ ~ReceivedBefore(s, [chain |-> s.chain_recv, n |-> n])
    BY <2>1, <2>7, <2>9 DEF ReceivedBefore
  <2>12. \A e \in s.skipped : e.key \in MessageKey
    BY DEF RatchetState, SkippedKey
  <2>13. \A k \in used : ReceivedBefore(u, k)
    BY <2>10 DEF CacheInv
  <2>14. ASSUME NEW e \in new
         PROVE  ReceivedBefore(u, e.key) /\ e.key \notin used
    <3>1. CASE e \in s.skipped
      BY <3>1, <2>10, <2>12 DEF CacheInv
    <3>2. CASE \E n \in s.nr .. until - 1 : e = Cached(s, n)
      <4>1. PICK n \in s.nr .. until - 1 : e = Cached(s, n)
        BY <3>2
      <4>2. ReceivedBefore(u, e.key) /\ ~ReceivedBefore(s, e.key)
        BY <4>1, <2>2, <2>11
      <4> QED BY <4>2 DEF CacheInv
    <3> QED BY <2>4, <3>1, <3>2
  <2>15. ASSUME NEW e \in new, NEW f \in new, e.key = f.key
         PROVE  e = f
    <3>1. CASE e \in s.skipped /\ f \in s.skipped
      BY <3>1, <2>15 DEF CacheInv
    <3>2. CASE e \in s.skipped /\ f \notin s.skipped
      <4>1. ReceivedBefore(s, e.key)
        BY <3>2 DEF CacheInv
      <4>2. PICK n \in s.nr .. until - 1 : f = Cached(s, n)
        BY <3>2, <2>4
      <4> QED BY <4>1, <4>2, <2>2, <2>11, <2>15
    <3>3. CASE e \notin s.skipped /\ f \in s.skipped
      <4>1. ReceivedBefore(s, f.key)
        BY <3>3 DEF CacheInv
      <4>2. PICK n \in s.nr .. until - 1 : e = Cached(s, n)
        BY <3>3, <2>4
      <4> QED BY <4>1, <4>2, <2>2, <2>11, <2>15
    <3>4. CASE e \notin s.skipped /\ f \notin s.skipped
      <4>1. PICK a \in s.nr .. until - 1 : e = Cached(s, a)
        BY <3>4, <2>4
      <4>2. PICK b \in s.nr .. until - 1 : f = Cached(s, b)
        BY <3>4, <2>4
      <4>3. /\ e.key = [chain |-> s.chain_recv, n |-> a]
            /\ f.key = [chain |-> s.chain_recv, n |-> b]
        BY <4>1, <4>2, <2>2
      <4>4. a = b
        BY <4>3, <2>15
      <4> QED BY <4>1, <4>2, <4>4
    <3> QED BY <3>1, <3>2, <3>3, <3>4
  <2>16. CacheInv(u, used)
    BY <2>3, <2>7, <2>13, <2>14, <2>15 DEF CacheInv
  <2> QED BY <2>6, <2>7, <2>8, <2>16
<1> QED BY <1>1, <1>2 DEF RatchetState

\* A ratchet step derives chains longer than any before them.
LEMMA RatchetStepIsSound ==
    ASSUME NEW p \in Party, NEW s \in RatchetState, NEW dh \in PublicKey,
           NEW used \in SUBSET MessageKey,
           RootInv(s), CacheInv(s, used)
    PROVE  LET t == DHRatchetStep(p, s, dh) IN
           /\ t \in RatchetState
           /\ RootInv(t)
           /\ CacheInv(t, used)
           /\ t.chain_recv # None
           /\ \A k \in MessageKey : SentBefore(s, k) => SentBefore(t, k)
<1> DEFINE r == RecvRoot(p, s, dh)
           q == SendRoot(p, s, dh)
           t == DHRatchetStep(p, s, dh)
<1>1. s.root \in Root /\ s.dh_self \in Nat /\ s.ns \in Nat /\ s.skipped \subseteq SkippedKey
  BY DEF RootInv, RatchetState
<1>2. {Pub(p, s.dh_self), dh} \in SUBSET PublicKey
      /\ {Pub(p, s.dh_self + 1), dh} \in SUBSET PublicKey
  BY <1>1 DEF Pub, PublicKey
<1>3. r \in Root /\ Len(r) = Len(s.root) + 1 /\ Len(s.root) \in Nat
  BY <1>1, <1>2 DEF RecvRoot, Root
<1>4. q \in Root /\ Len(q) = Len(s.root) + 2
  BY <1>2, <1>3 DEF SendRoot, Root
<1>5. t = [s EXCEPT !.pn = s.ns, !.ns = 0, !.nr = 0, !.dh_remote = dh,
                    !.dh_self = s.dh_self + 1, !.root = q,
                    !.chain_recv = r, !.chain_send = q]
  BY DEF DHRatchetStep
<1> HIDE DEF r, q, t
<1>6. /\ t \in RatchetState
      /\ t.root = q /\ t.chain_recv = r /\ t.chain_send = q
      /\ t.nr = 0 /\ t.ns = 0 /\ t.dh_remote = dh /\ t.skipped = s.skipped
  <2>1. t = [dh_self |-> s.dh_self + 1, dh_remote |-> dh, root |-> q,
             chain_send |-> q, chain_recv |-> r,
             ns |-> 0, nr |-> 0, pn |-> s.ns, skipped |-> s.skipped]
    BY <1>5 DEF RatchetState
  <2> QED BY <2>1, <1>1, <1>3, <1>4 DEF RatchetState
<1>7. r # None /\ q # None /\ dh # None
  BY <1>3, <1>4, NoneAssumption
<1>8. RootInv(t)
  BY <1>3, <1>4, <1>6, <1>7 DEF RootInv
<1>9. \A k \in MessageKey : k.chain \in Root /\ Len(k.chain) \in Nat
  BY DEF MessageKey, Root
<1>10. ASSUME NEW k \in MessageKey, ReceivedBefore(s, k)
       PROVE  ReceivedBefore(t, k)
  <2>1. /\ Len(k.chain) < Len(s.root) /\ Len(k.chain) \in Nat
        /\ (Len(s.root) - Len(k.chain)) % 2 = 1
    BY <1>9, <1>10 DEF ReceivedBefore
  <2>2. /\ Len(k.chain) < Len(q) /\ k.chain # r
    BY <2>1, <1>3, <1>4
  <2>3. (Len(q) - Len(k.chain)) % 2 = 1
    <3>1. Len(q) \in Nat
      BY <1>3, <1>4
    <3>2. (Len(q) - Len(k.chain)) % 2 = (Len(s.root) - Len(k.chain)) % 2
      BY <3>1, <2>1, <1>3, <1>4, ParityKept
    <3> QED BY <3>2, <2>1
  <2> QED BY <2>2, <2>3, <1>6 DEF ReceivedBefore
<1>11. ASSUME NEW k \in MessageKey, SentBefore(s, k)
       PROVE  SentBefore(t, k)
  <2>1. /\ Len(k.chain) <= Len(s.root) /\ Len(k.chain) \in Nat
        /\ (Len(s.root) - Len(k.chain)) % 2 = 0
    BY <1>9, <1>11 DEF SentBefore
  <2>2. /\ Len(k.chain) <= Len(q) /\ k.chain # q
    BY <2>1, <1>3, <1>4
  <2>3. (Len(q) - Len(k.chain)) % 2 = 0
    <3>1. Len(q) \in Nat
      BY <1>3, <1>4
    <3>2. (Len(q) - Len(k.chain)) % 2 = (Len(s.root) - Len(k.chain)) % 2
      BY <3>1, <2>1, <1>3, <1>4, ParityKept
    <3> QED BY <3>2, <2>1
  <2> QED BY <2>2, <2>3, <1>6 DEF SentBefore
<1>12. \A e \in s.skipped : e.key \in MessageKey
  BY <1>1 DEF SkippedKey
<1>13. CacheInv(t, used)
  BY <1>6, <1>10, <1>12 DEF CacheInv
<1> QED BY <1>6, <1>7, <1>8, <1>11, <1>13 DEF t

\* Taking a key from the cache uses it.
LEMMA PopIsSound ==
    ASSUME NEW s \in RatchetState, NEW e \in s.skipped,
           NEW used \in SUBSET MessageKey,
           RootInv(s), CacheInv(s, used)
    PROVE  LET t == [s EXCEPT !.skipped = @ \ {e}] IN
           /\ t \in RatchetState
           /\ RootInv(t)
           /\ CacheInv(t, used)
           /\ CacheInv(t, used \cup {e.key})
           /\ e.key \notin used
           /\ \A k \in MessageKey : SentBefore(s, k) => SentBefore(t, k)
<1> DEFINE t == [s EXCEPT !.skipped = @ \ {e}]
<1>1. /\ t \in RatchetState /\ t.skipped = s.skipped \ {e}
      /\ t.root = s.root /\ t.chain_send = s.chain_send
      /\ t.chain_recv = s.chain_recv /\ t.dh_remote = s.dh_remote
      /\ t.ns = s.ns /\ t.nr = s.nr
  BY DEF RatchetState
<1> HIDE DEF t
<1>2. \A k : ReceivedBefore(s, k) => ReceivedBefore(t, k)
  BY <1>1 DEF ReceivedBefore
<1>3. \A k : SentBefore(s, k) => SentBefore(t, k)
  BY <1>1 DEF SentBefore
<1>4. RootInv(t)
  BY <1>1 DEF RootInv
<1>5. CacheInv(t, used) /\ CacheInv(t, used \cup {e.key}) /\ e.key \notin used
  BY <1>1, <1>2 DEF CacheInv
<1> QED BY <1>1, <1>3, <1>4, <1>5 DEF t

\* Deriving the next key of the receiving chain uses it.
LEMMA AdvanceIsSound ==
    ASSUME NEW u \in RatchetState, NEW used \in SUBSET MessageKey,
           RootInv(u), CacheInv(u, used)
    PROVE  LET v == [u EXCEPT !.nr = @ + 1] IN
           /\ v \in RatchetState
           /\ RootInv(v)
           /\ CacheInv(v, used)
           /\ \A k \in MessageKey :
                 k = [chain |-> u.chain_recv, n |-> u.nr]
                    => k \notin used /\ CacheInv(v, used \cup {k})
           /\ \A k \in MessageKey : SentBefore(u, k) => SentBefore(v, k)
<1> DEFINE v == [u EXCEPT !.nr = @ + 1]
<1>1. /\ v \in RatchetState /\ v.skipped = u.skipped
      /\ v.root = u.root /\ v.chain_send = u.chain_send
      /\ v.chain_recv = u.chain_recv /\ v.dh_remote = u.dh_remote
      /\ v.ns = u.ns /\ v.nr = u.nr + 1 /\ u.nr \in Nat
  BY DEF RatchetState
<1> HIDE DEF v
<1>2. ASSUME NEW k \in MessageKey, ReceivedBefore(u, k)
      PROVE  ReceivedBefore(v, k)
  <2>1. k.chain = u.chain_recv => k.n < u.nr + 1
    BY <1>1, <1>2, KeyTypes DEF ReceivedBefore
  <2> QED BY <1>1, <1>2, <2>1 DEF ReceivedBefore
<1>3. \A k : SentBefore(u, k) => SentBefore(v, k)
  BY <1>1 DEF SentBefore
<1>4. RootInv(v)
  BY <1>1 DEF RootInv
<1>5. \A e \in u.skipped : e.key \in MessageKey
  BY StateTypes, KeyTypes
<1>6. CacheInv(v, used)
  BY <1>1, <1>2, <1>5 DEF CacheInv
<1>7. ASSUME NEW k \in MessageKey, k = [chain |-> u.chain_recv, n |-> u.nr]
      PROVE  k \notin used /\ CacheInv(v, used \cup {k})
  <2>1. k.chain = u.chain_recv /\ k.n = u.nr /\ k.chain \in Root
    BY <1>7, KeyTypes
  <2>2. u.chain_recv # None
    BY <2>1, NoneAssumption
  <2>3. Len(u.root) = Len(k.chain) + 1 /\ Len(k.chain) \in Nat
    BY <2>1, <2>2, KeyTypes DEF RootInv
  <2>4. ReceivedBefore(v, k)
    BY <1>1, <2>1, <2>3 DEF ReceivedBefore
  <2>5. ~ReceivedBefore(u, k)
    <3>1. ReceivedBefore(u, k) => k.n < u.nr
      BY <2>1 DEF ReceivedBefore
    <3> QED BY <1>1, <2>1, <3>1
  <2>6. k \notin used /\ \A e \in u.skipped : e.key # k
    BY <2>5 DEF CacheInv
  <2> QED BY <1>1, <1>6, <2>4, <2>6 DEF CacheInv
<1> QED BY <1>1, <1>3, <1>4, <1>6, <1>7 DEF v

LEMMA TurnedIsSound ==
    ASSUME NEW p \in Party, NEW s \in RatchetState, NEW m \in EncryptedMessage,
           NEW used \in SUBSET MessageKey,
           RootInv(s), CacheInv(s, used)
    PROVE  LET t == Turned(p, s, m) IN
           /\ t \in RatchetState
           /\ RootInv(t)
           /\ CacheInv(t, used)
           /\ \A k \in MessageKey : SentBefore(s, k) => SentBefore(t, k)
<1>1. CASE ~Turns(s, m)
  BY <1>1 DEF Turned
<1>2. CASE Turns(s, m)
  <2> DEFINE u == Skip(s, m.pn)
  <2>1. m.pn \in Nat /\ m.dh \in PublicKey
    BY DEF EncryptedMessage
  <2>2. /\ u \in RatchetState /\ RootInv(u) /\ CacheInv(u, used)
        /\ u.root = s.root /\ u.chain_send = s.chain_send /\ u.ns = s.ns
    BY <2>1, SkipIsSound
  <2>3. Turned(p, s, m) = DHRatchetStep(p, u, m.dh)
    BY <1>2 DEF Turned
  <2> HIDE DEF u
  <2>4. \A k \in MessageKey : SentBefore(s, k) => SentBefore(u, k)
    BY <2>2 DEF SentBefore
  <2> QED BY <2>1, <2>2, <2>3, <2>4, RatchetStepIsSound
<1> QED BY <1>1, <1>2

-----------------------------------------------------------------------------
(* The invariant. *)

LEMMA KeysAreTyped ==
    ASSUME TypeOK, NEW p \in Party
    PROVE  Keys(opened[p]) \in SUBSET MessageKey
BY DEF TypeOK, Keys, EncryptedMessage

LEMMA InitIInv == Init => IInv
<1> SUFFICES ASSUME Init PROVE IInv
  OBVIOUS
<1> DEFINE r == << {Pub("initiator", 0), Pub("responder", 0)} >>
<1>1. Pub("initiator", 0) \in PublicKey /\ Pub("responder", 0) \in PublicKey
  BY DEF Pub, PublicKey, Party
<1>2. r \in Root /\ << >> \in Root /\ r # None
  <2>1. r \in Root /\ << >> \in Root
    BY <1>1 DEF Root
  <2> QED BY <2>1, NoneAssumption
<1>3. InitSender \in RatchetState /\ RootInv(InitSender)
  BY <1>1, <1>2 DEF InitSender, RatchetState, RootInv
<1>4. InitReceiver \in RatchetState /\ RootInv(InitReceiver)
  BY <1>2 DEF InitReceiver, RatchetState, RootInv
<1>5. \A p \in Party : state[p] \in RatchetState /\ RootInv(state[p])
                       /\ state[p].skipped = {}
  BY <1>3, <1>4 DEF Init, InitSender, InitReceiver
<1>6. TypeOK
  BY <1>3, <1>4 DEF Init, TypeOK
<1>7. \A p \in Party : EndInv(p)
  BY <1>5 DEF Init, EndInv, CacheInv, Keys
<1> QED BY <1>6, <1>7, PeerIsOther DEF Init, IInv

\* The part that every receiving step shares.
LEMMA ReceivingKeepsIInv ==
    ASSUME IInv, NEW p \in Party, NEW m \in sent[Peer(p)], Deliver(p, m),
           NEW v \in RatchetState, RootInv(v), CacheInv(v, Keys(opened'[p])),
           \A k \in MessageKey : SentBefore(state[p], k) => SentBefore(v, k),
           state' = [state EXCEPT ![p] = v],
           \/ opened' = opened
           \/ opened' = [opened EXCEPT ![p] = @ \cup {m}],
           \/ failed' = failed
           \/ failed' = [failed EXCEPT ![p] = @ \cup {m}],
           \/ message_count' = message_count
           \/ message_count' = [message_count EXCEPT ![p] = @ + 1],
           evicted' \in BOOLEAN, UNCHANGED <<closed, sent>>
    PROVE  IInv'
<1>1. TypeOK /\ Peer(p) \in Party
  BY PeerIsOther DEF IInv
<1>2. m \in EncryptedMessage
  BY <1>1 DEF TypeOK
<1>3. TypeOK'
  <2>1. state' \in [Party -> RatchetState] /\ closed' \in [Party -> BOOLEAN]
        /\ sent' \in [Party -> SUBSET EncryptedMessage]
    BY <1>1 DEF TypeOK
  <2>2. message_count' \in [Party -> Nat]
    BY <1>1 DEF TypeOK
  <2>3. /\ delivered' \in [Party -> SUBSET EncryptedMessage]
        /\ redeliveries' \in Nat
    BY <1>1, <1>2 DEF TypeOK, Deliver
  <2>4. opened' \in [Party -> SUBSET EncryptedMessage]
    BY <1>1, <1>2 DEF TypeOK
  <2>5. failed' \in [Party -> SUBSET EncryptedMessage]
    BY <1>1, <1>2 DEF TypeOK
  <2> QED BY <2>1, <2>2, <2>3, <2>4, <2>5 DEF TypeOK
<1>4. ASSUME NEW q \in Party PROVE EndInv(q)'
  <2>1. CASE q = p
    <3>1. ~closed'[p] /\ state'[p] = v /\ ~closed[p]
      BY <1>1 DEF Deliver, TypeOK
    <3>2. \A k \in sent'[p] : SentBefore(v, k.key)
      <4>1. \A k \in sent[p] : SentBefore(state[p], k.key)
        BY <3>1 DEF IInv, EndInv
      <4>2. \A k \in sent[p] : k.key \in MessageKey
        BY <1>1 DEF TypeOK, EncryptedMessage
      <4> QED BY <4>1, <4>2
    <3>3. \A k \in sent'[p] : SentBefore(state'[p], k.key)
      BY <3>1, <3>2
    <3>4. RootInv(state'[p]) /\ CacheInv(state'[p], Keys(opened'[p]))
      BY <3>1
    <3> QED BY <2>1, <3>1, <3>3, <3>4 DEF EndInv
  <2>2. CASE q # p
    <3>1. state'[q] = state[q] /\ closed'[q] = closed[q]
          /\ sent'[q] = sent[q] /\ opened'[q] = opened[q]
      BY <2>2, <1>1 DEF TypeOK
    <3>2. EndInv(q)
      BY DEF IInv
    <3> QED BY <3>1, <3>2 DEF EndInv
  <2> QED BY <2>1, <2>2
<1>5. \A q \in Party : opened'[q] \subseteq sent'[Peer(q)]
  BY <1>1 DEF IInv, TypeOK
<1>6. \A q \in Party : \A k \in sent'[q] : k.dh.of = q
  BY DEF IInv
<1> QED BY <1>3, <1>4, <1>5, <1>6 DEF IInv

LEMMA SendKeepsIInv ==
    ASSUME IInv, NEW p \in Party, Send(p)
    PROVE  /\ IInv'
           /\ \A q \in Party : Message(p) \notin sent[q]
<1> DEFINE s == state[p]
           m == Message(p)
           v == [s EXCEPT !.ns = @ + 1]
<1>1. /\ TypeOK /\ s \in RatchetState /\ ~closed[p] /\ s.chain_send # None
      /\ RootInv(s) /\ CacheInv(s, Keys(opened[p]))
      /\ \A k \in sent[p] : SentBefore(s, k.key)
  BY DEF Send, IInv, EndInv, TypeOK
<1>2. s.chain_send \in Root /\ s.chain_send = s.root /\ s.ns \in Nat /\ s.pn \in Nat
      /\ s.dh_self \in Nat /\ Len(s.root) \in Nat
  BY <1>1, StateTypes, KeyTypes DEF RootInv
<1>3. m = [dh |-> Pub(p, s.dh_self), pn |-> s.pn,
           key |-> [chain |-> s.chain_send, n |-> s.ns]]
  BY DEF Message
<1>4. m \in EncryptedMessage /\ m.key = [chain |-> s.chain_send, n |-> s.ns]
      /\ m.key \in MessageKey /\ m.dh.of = p
  BY <1>2, <1>3 DEF EncryptedMessage, Pub, PublicKey, MessageKey
<1>5. m \notin sent[p]
  <2>1. SentBefore(s, m.key) => s.ns < s.ns
    BY <1>4 DEF SentBefore
  <2> QED BY <1>1, <1>2, <2>1
<1>6. \A q \in Party : m \notin sent[q]
  BY <1>4, <1>5 DEF IInv
<1>7. state' = [state EXCEPT ![p] = v] /\ sent' = [sent EXCEPT ![p] = @ \cup {m}]
  BY <1>1 DEF Send, TypeOK
<1>8. /\ v \in RatchetState /\ v.skipped = s.skipped
      /\ v.root = s.root /\ v.chain_send = s.chain_send
      /\ v.chain_recv = s.chain_recv /\ v.dh_remote = s.dh_remote
      /\ v.ns = s.ns + 1 /\ v.nr = s.nr
  BY <1>1 DEF RatchetState
<1> HIDE DEF m, v
<1>9. TypeOK'
  BY <1>1, <1>4, <1>7, <1>8 DEF TypeOK, Send
<1>10. RootInv(v)
  BY <1>1, <1>8 DEF RootInv
<1>11. CacheInv(v, Keys(opened[p]))
  BY <1>1, <1>8 DEF CacheInv, ReceivedBefore
<1>12. ASSUME NEW k \in MessageKey, SentBefore(s, k) PROVE SentBefore(v, k)
  <2>1. k.chain = s.chain_send => k.n < s.ns + 1
    BY <1>2, <1>12, KeyTypes DEF SentBefore
  <2> QED BY <1>8, <1>12, <2>1 DEF SentBefore
<1>13. SentBefore(v, m.key)
  <2>1. (Len(s.root) - Len(s.root)) % 2 = 0
    BY <1>2
  <2> QED BY <2>1, <1>2, <1>4, <1>8 DEF SentBefore
<1>14. \A k \in sent[p] : k.key \in MessageKey
  BY <1>1 DEF TypeOK, EncryptedMessage
<1>15. ASSUME NEW q \in Party PROVE EndInv(q)'
  <2>1. CASE q = p
    <3>1. state'[p] = v /\ sent'[p] = sent[p] \cup {m} /\ opened'[p] = opened[p]
          /\ ~closed'[p]
      BY <1>1, <1>7 DEF TypeOK, Send
    <3>2. \A k \in sent'[p] : SentBefore(v, k.key)
      BY <3>1, <1>1, <1>12, <1>13, <1>14
    <3> QED BY <2>1, <3>1, <3>2, <1>10, <1>11 DEF EndInv
  <2>2. CASE q # p
    <3>1. state'[q] = state[q] /\ closed'[q] = closed[q]
          /\ sent'[q] = sent[q] /\ opened'[q] = opened[q]
      BY <2>2, <1>1, <1>7 DEF TypeOK, Send
    <3>2. EndInv(q)
      BY DEF IInv
    <3> QED BY <3>1, <3>2 DEF EndInv
  <2> QED BY <2>1, <2>2
<1>16. \A q \in Party : \A k \in sent'[q] : k.dh.of = q
  BY <1>1, <1>4, <1>7 DEF IInv, TypeOK
<1>17. \A q \in Party : opened'[q] \subseteq sent'[Peer(q)]
  BY <1>1, <1>7, PeerIsOther DEF IInv, TypeOK, Send
<1> QED BY <1>6, <1>9, <1>15, <1>16, <1>17 DEF IInv, m

\* What a receiving end starts from.
LEMMA ReceiverFacts ==
    ASSUME IInv, NEW p \in Party, NEW m \in sent[Peer(p)], ~closed[p]
    PROVE  /\ TypeOK /\ state[p] \in RatchetState
           /\ RootInv(state[p]) /\ CacheInv(state[p], Keys(opened[p]))
           /\ Keys(opened[p]) \in SUBSET MessageKey
           /\ m \in EncryptedMessage /\ m.key \in MessageKey
           /\ m.key.n \in Nat /\ m.pn \in Nat
<1>1. TypeOK /\ Peer(p) \in Party
  BY PeerIsOther DEF IInv
<1>2. m \in EncryptedMessage
  BY <1>1 DEF TypeOK
<1>3. m.key \in MessageKey /\ m.pn \in Nat
  BY <1>2 DEF EncryptedMessage
<1>4. RootInv(state[p]) /\ CacheInv(state[p], Keys(opened[p]))
  BY DEF IInv, EndInv
<1>5. state[p] \in RatchetState
  BY <1>1 DEF TypeOK
<1> QED BY <1>1, <1>2, <1>3, <1>4, <1>5, KeysAreTyped, KeyTypes

\* What trying a key does, when the key is the next one or a cached one.
LEMMA OpenFacts ==
    ASSUME IInv, NEW p \in Party, NEW m \in sent[Peer(p)], ~closed[p],
           NEW key, Open(p, m, key),
           NEW v, CacheInv(v, Keys(opened[p])),
           key = m.key => /\ m.key \notin Keys(opened[p])
                          /\ CacheInv(v, Keys(opened[p]) \cup {m.key})
    PROVE  /\ CacheInv(v, Keys(opened'[p]))
           /\ \/ opened' = opened
              \/ opened' = [opened EXCEPT ![p] = @ \cup {m}]
           /\ \/ failed' = failed
              \/ failed' = [failed EXCEPT ![p] = @ \cup {m}]
           /\ \/ message_count' = message_count
              \/ message_count' = [message_count EXCEPT ![p] = @ + 1]
           /\ \/ opened' = opened /\ message_count' = message_count
              \/ /\ m \notin opened[p]
                 /\ opened' = [opened EXCEPT ![p] = @ \cup {m}]
                 /\ message_count' = [message_count EXCEPT ![p] = @ + 1]
<1>1. TypeOK
  BY DEF IInv
<1>2. CASE key = m.key
  <2>1. /\ opened' = [opened EXCEPT ![p] = @ \cup {m}] /\ failed' = failed
        /\ message_count' = [message_count EXCEPT ![p] = @ + 1]
    BY <1>2 DEF Open
  <2>2. opened'[p] = opened[p] \cup {m}
    BY <2>1, <1>1 DEF TypeOK
  <2>3. Keys(opened'[p]) = Keys(opened[p]) \cup {m.key}
    BY <2>2 DEF Keys
  <2>4. m \notin opened[p]
    BY <1>2 DEF Keys
  <2> QED BY <1>2, <2>1, <2>3, <2>4
<1>3. CASE key # m.key
  BY <1>3 DEF Open
<1> QED BY <1>2, <1>3

\* How a receiving step looks to the channel.
ChannelReceives(p, m) ==
    \/ opened' = opened /\ message_count' = message_count
    \/ /\ m \notin opened[p]
       /\ opened' = [opened EXCEPT ![p] = @ \cup {m}]
       /\ message_count' = [message_count EXCEPT ![p] = @ + 1]

LEMMA OpenSkippedKeepsIInv ==
    ASSUME IInv, NEW p \in Party, NEW m \in sent[Peer(p)], OpenSkipped(p, m)
    PROVE  IInv' /\ ChannelReceives(p, m)
<1> DEFINE s == state[p]
<1>1. Deliver(p, m) /\ ~closed[p]
  BY DEF OpenSkipped, Deliver
<1>2. PICK e \in Holds(s, m.dh, m.key.n) :
         /\ state' = [state EXCEPT ![p].skipped = @ \ {e}]
         /\ Open(p, m, e.key)
  BY DEF OpenSkipped
<1> DEFINE v == [s EXCEPT !.skipped = @ \ {e}]
<1>3. e \in s.skipped
  BY DEF Holds
<1>4. /\ TypeOK /\ s \in RatchetState /\ RootInv(s)
      /\ CacheInv(s, Keys(opened[p])) /\ Keys(opened[p]) \in SUBSET MessageKey
  BY <1>1, ReceiverFacts
<1>5. /\ v \in RatchetState /\ RootInv(v) /\ CacheInv(v, Keys(opened[p]))
      /\ CacheInv(v, Keys(opened[p]) \cup {e.key})
      /\ e.key \notin Keys(opened[p])
      /\ \A k \in MessageKey : SentBefore(s, k) => SentBefore(v, k)
  BY <1>3, <1>4, PopIsSound
<1>6. state' = [state EXCEPT ![p] = v]
  BY <1>2
<1> HIDE DEF v
<1>7. /\ CacheInv(v, Keys(opened'[p])) /\ ChannelReceives(p, m)
      /\ opened' = opened \/ opened' = [opened EXCEPT ![p] = @ \cup {m}]
      /\ failed' = failed \/ failed' = [failed EXCEPT ![p] = @ \cup {m}]
      /\ \/ message_count' = message_count
         \/ message_count' = [message_count EXCEPT ![p] = @ + 1]
  <2>1. e.key = m.key => /\ m.key \notin Keys(opened[p])
                          /\ CacheInv(v, Keys(opened[p]) \cup {m.key})
    BY <1>5
  <2> QED BY <1>1, <1>2, <1>5, <2>1, OpenFacts DEF ChannelReceives
<1>8. evicted' \in BOOLEAN /\ UNCHANGED <<closed, sent>>
  BY <1>4 DEF OpenSkipped, TypeOK
<1>9. IInv'
  BY <1>1, <1>5, <1>6, <1>7, <1>8, ReceivingKeepsIInv
<1> QED BY <1>7, <1>9

LEMMA OpenNextKeepsIInv ==
    ASSUME IInv, NEW p \in Party, NEW m \in sent[Peer(p)], OpenNext(p, m)
    PROVE  IInv' /\ ChannelReceives(p, m)
<1> DEFINE s == state[p]
           t == Turned(p, s, m)
           u == Skip(t, m.key.n)
           v == [u EXCEPT !.nr = @ + 1]
<1>1. Deliver(p, m) /\ ~closed[p]
  BY DEF OpenNext, Deliver
<1>2. /\ TypeOK /\ s \in RatchetState /\ RootInv(s)
      /\ CacheInv(s, Keys(opened[p])) /\ Keys(opened[p]) \in SUBSET MessageKey
      /\ m \in EncryptedMessage /\ m.key \in MessageKey /\ m.key.n \in Nat
  BY <1>1, ReceiverFacts
<1>3. /\ state' = [state EXCEPT ![p] = v]
      /\ Open(p, m, [chain |-> u.chain_recv, n |-> u.nr])
      /\ evicted' \in BOOLEAN /\ UNCHANGED <<closed, sent>>
  <2>1. evicted' \in BOOLEAN
    BY DEF OpenNext
  <2> QED BY <2>1 DEF OpenNext
<1> HIDE DEF s
<1>4. /\ t \in RatchetState /\ RootInv(t) /\ CacheInv(t, Keys(opened[p]))
      /\ \A k \in MessageKey : SentBefore(s, k) => SentBefore(t, k)
  BY <1>2, TurnedIsSound
<1> HIDE DEF t
<1>5. /\ u \in RatchetState /\ RootInv(u) /\ CacheInv(u, Keys(opened[p]))
      /\ u.root = t.root /\ u.chain_send = t.chain_send /\ u.ns = t.ns
  BY <1>2, <1>4, SkipIsSound
<1> HIDE DEF u
<1>6. \A k : SentBefore(t, k) => SentBefore(u, k)
  BY <1>5 DEF SentBefore
<1>7. /\ v \in RatchetState /\ RootInv(v) /\ CacheInv(v, Keys(opened[p]))
      /\ \A k \in MessageKey :
            k = [chain |-> u.chain_recv, n |-> u.nr]
               => /\ k \notin Keys(opened[p])
                  /\ CacheInv(v, Keys(opened[p]) \cup {k})
      /\ \A k \in MessageKey : SentBefore(u, k) => SentBefore(v, k)
  BY <1>2, <1>5, AdvanceIsSound
<1> HIDE DEF v
<1>8. /\ CacheInv(v, Keys(opened'[p])) /\ ChannelReceives(p, m)
      /\ opened' = opened \/ opened' = [opened EXCEPT ![p] = @ \cup {m}]
      /\ failed' = failed \/ failed' = [failed EXCEPT ![p] = @ \cup {m}]
      /\ \/ message_count' = message_count
         \/ message_count' = [message_count EXCEPT ![p] = @ + 1]
  <2>1. [chain |-> u.chain_recv, n |-> u.nr] = m.key
           => /\ m.key \notin Keys(opened[p])
              /\ CacheInv(v, Keys(opened[p]) \cup {m.key})
    BY <1>2, <1>7
  <2> QED BY <1>1, <1>3, <1>7, <2>1, OpenFacts DEF ChannelReceives
<1>9. \A k \in MessageKey : SentBefore(state[p], k) => SentBefore(v, k)
  BY <1>4, <1>6, <1>7 DEF s
<1>10. IInv'
  BY <1>1, <1>3, <1>7, <1>8, <1>9, ReceivingKeepsIInv
<1> QED BY <1>8, <1>10

LEMMA TooManyKeepsIInv ==
    ASSUME IInv, NEW p \in Party, NEW m \in sent[Peer(p)], TooManySkipped(p, m)
    PROVE  IInv' /\ ChannelReceives(p, m)
<1> DEFINE s == state[p]
           t == Turned(p, s, m)
<1>1. Deliver(p, m) /\ ~closed[p]
  BY DEF TooManySkipped, Deliver
<1>2. /\ TypeOK /\ s \in RatchetState /\ RootInv(s)
      /\ CacheInv(s, Keys(opened[p])) /\ Keys(opened[p]) \in SUBSET MessageKey
      /\ m \in EncryptedMessage
  BY <1>1, ReceiverFacts
<1>3. /\ opened' = opened /\ failed' = failed /\ message_count' = message_count
      /\ UNCHANGED <<closed, sent>>
  BY DEF TooManySkipped
<1>4. /\ evicted' \in BOOLEAN
      /\ state' = [state EXCEPT ![p] = s] \/ state' = [state EXCEPT ![p] = t]
  <2>1. CASE UNCHANGED <<state, evicted>>
    BY <2>1, <1>2 DEF TypeOK
  <2>2. CASE /\ state' = [state EXCEPT ![p] = t]
             /\ evicted' = (evicted \/ (Turns(s, m) /\ Evicts(s, m.pn)))
    BY <2>2
  <2> QED BY <2>1, <2>2 DEF TooManySkipped
<1> HIDE DEF s
<1>5. /\ t \in RatchetState /\ RootInv(t) /\ CacheInv(t, Keys(opened[p]))
      /\ \A k \in MessageKey : SentBefore(s, k) => SentBefore(t, k)
  BY <1>2, TurnedIsSound
<1> HIDE DEF t
<1>6. CASE state' = [state EXCEPT ![p] = s]
  <2>1. \A k \in MessageKey : SentBefore(state[p], k) => SentBefore(s, k)
    BY DEF s
  <2>2. CacheInv(s, Keys(opened'[p]))
    BY <1>2, <1>3
  <2>3. IInv'
    BY <1>1, <1>2, <1>3, <1>4, <1>6, <2>1, <2>2, ReceivingKeepsIInv
  <2> QED BY <1>3, <2>3 DEF ChannelReceives
<1>7. CASE state' = [state EXCEPT ![p] = t]
  <2>1. \A k \in MessageKey : SentBefore(state[p], k) => SentBefore(t, k)
    BY <1>5 DEF s
  <2>2. CacheInv(t, Keys(opened'[p]))
    BY <1>3, <1>5
  <2>3. IInv'
    BY <1>1, <1>3, <1>4, <1>5, <1>7, <2>1, <2>2, ReceivingKeepsIInv
  <2> QED BY <1>3, <2>3 DEF ChannelReceives
<1> QED BY <1>4, <1>6, <1>7

LEMMA CloseKeepsIInv ==
    ASSUME IInv, NEW p \in Party, Close(p)
    PROVE  IInv'
<1> DEFINE v == [state[p] EXCEPT !.root = None, !.chain_send = None,
                                 !.chain_recv = None, !.skipped = {}]
<1>1. TypeOK /\ state[p] \in RatchetState
  BY DEF IInv, TypeOK
<1>2. state' = [state EXCEPT ![p] = v]
  BY DEF Close
<1>3. v \in RatchetState /\ v.chain_send = None /\ v.chain_recv = None
      /\ v.skipped = {}
  BY <1>1 DEF RatchetState
<1> HIDE DEF v
<1>4. TypeOK'
  <2>1. /\ closed' = [closed EXCEPT ![p] = TRUE]
        /\ UNCHANGED <<message_count, sent, delivered, opened, failed,
                       redeliveries, evicted>>
    BY DEF Close
  <2> QED BY <1>1, <1>2, <1>3, <2>1 DEF TypeOK
<1>5. ASSUME NEW q \in Party PROVE EndInv(q)'
  <2>1. CASE q = p
    <3>1. closed'[p] /\ state'[p] = v
      BY <1>1, <1>2 DEF TypeOK, Close
    <3> QED BY <2>1, <3>1, <1>3 DEF EndInv
  <2>2. CASE q # p
    <3>1. state'[q] = state[q] /\ closed'[q] = closed[q]
          /\ sent'[q] = sent[q] /\ opened'[q] = opened[q]
      BY <2>2, <1>1, <1>2 DEF TypeOK, Close
    <3>2. EndInv(q)
      BY DEF IInv
    <3> QED BY <3>1, <3>2 DEF EndInv
  <2> QED BY <2>1, <2>2
<1> QED BY <1>4, <1>5 DEF IInv, Close

LEMMA NextKeepsIInv == IInv /\ [Next]_vars => IInv'
<1> SUFFICES ASSUME IInv, [Next]_vars PROVE IInv'
  OBVIOUS
<1>1. CASE UNCHANGED vars
  BY <1>1 DEF vars, IInv, TypeOK, EndInv
<1>2. ASSUME NEW p \in Party, Send(p) PROVE IInv'
  BY <1>2, SendKeepsIInv
<1>3. ASSUME NEW p \in Party, Receive(p) PROVE IInv'
  BY <1>3, OpenSkippedKeepsIInv, OpenNextKeepsIInv, TooManyKeepsIInv DEF Receive
<1>4. ASSUME NEW p \in Party, Close(p) PROVE IInv'
  BY <1>4, CloseKeepsIInv
<1> QED BY <1>1, <1>2, <1>3, <1>4 DEF Next

THEOREM Invariance == Spec => []IInv
BY InitIInv, NextKeepsIInv, PTL DEF Spec

-----------------------------------------------------------------------------
(* The cap of the cache. Every cached key has a place of its own in the     *)
(* order of insertion, before the place of the next message.                *)

PlacedBefore(s, place) ==
    /\ s.chain_recv # None
    /\ \/ place[1] < Len(s.chain_recv)
       \/ place[1] = Len(s.chain_recv) /\ place[2] < s.nr

Placed(s) ==
    /\ IsFiniteSet(s.skipped)
    /\ Cardinality(s.skipped) <= MAX_SKIPPED_KEYS_TOTAL
    /\ \A e \in s.skipped : PlacedBefore(s, e.at)
    /\ \A e, f \in s.skipped : e.at = f.at => e = f

\* What eviction leaves of keys with places of their own: no more than the cap.
\* The oldest of those left is followed by all others.
LEMMA EvictCaps ==
    ASSUME NEW keys \in SUBSET SkippedKey, IsFiniteSet(keys),
           \A e, f \in keys : e.at = f.at => e = f
    PROVE  /\ IsFiniteSet(Evict(keys))
           /\ Cardinality(Evict(keys)) <= MAX_SKIPPED_KEYS_TOTAL
<1> DEFINE E == Evict(keys)
<1>1. E \subseteq keys /\ IsFiniteSet(E)
  <2>1. E \subseteq keys
    BY DEF Evict
  <2> HIDE DEF E
  <2> QED BY <2>1, FS_Subset
<1>2. \A k \in E : Cardinality({l \in keys : Older(k, l)}) < MAX_SKIPPED_KEYS_TOTAL
  BY DEF Evict
<1> HIDE DEF E
<1>3. \A k \in keys : /\ k.at[1] \in Nat /\ k.at[2] \in Nat
                      /\ k.at = <<k.at[1], k.at[2]>>
  BY DEF SkippedKey
<1>4. CASE E = {}
  <2>1. Cardinality(E) = 0
    BY <1>4, FS_EmptySet
  <2> QED BY <1>1, <2>1, BoundsAssumption DEF E
<1>5. CASE E # {}
  <2> DEFINE turns == {k.at[1] : k \in E}
  <2>1. PICK a \in turns : \A x \in turns : a <= x
    <3>1. turns \subseteq Nat /\ turns # {}
      BY <1>1, <1>3, <1>5
    <3> HIDE DEF turns
    <3> QED BY <3>1, LeastExists
  <2> DEFINE numbers == {k.at[2] : k \in {l \in E : l.at[1] = a}}
  <2>2. PICK b \in numbers : \A x \in numbers : b <= x
    <3>1. numbers \subseteq Nat /\ numbers # {}
      BY <1>1, <1>3, <2>1
    <3> HIDE DEF numbers
    <3> QED BY <3>1, LeastExists
  <2>3. PICK e \in E : e.at[1] = a /\ e.at[2] = b
    BY <2>2
  <2> DEFINE newer == {l \in keys : Older(e, l)}
  <2>4. E \ {e} \subseteq newer
    <3> SUFFICES ASSUME NEW l \in E, l # e PROVE Older(e, l)
      BY <1>1
    <3>1. a <= l.at[1] /\ (l.at[1] = a => b <= l.at[2])
      BY <2>1, <2>2
    <3>2. l.at # e.at
      BY <1>1
    <3>3. ~(l.at[1] = a /\ l.at[2] = b)
      BY <1>1, <1>3, <2>3, <3>2
    <3>4. a \in Nat /\ b \in Nat /\ l.at[1] \in Nat /\ l.at[2] \in Nat
      BY <1>1, <1>3, <2>3
    <3> HIDE DEF turns, numbers
    <3> QED BY <2>3, <3>1, <3>3, <3>4 DEF Older
  <2>5. IsFiniteSet(newer) /\ Cardinality(newer) < MAX_SKIPPED_KEYS_TOTAL
    <3>1. newer \subseteq keys
      OBVIOUS
    <3>2. Cardinality(newer) < MAX_SKIPPED_KEYS_TOTAL
      BY <1>2
    <3> HIDE DEF newer
    <3> QED BY <3>1, <3>2, FS_Subset
  <2> HIDE DEF newer
  <2>6. Cardinality(E \ {e}) <= Cardinality(newer)
    BY <2>4, <2>5, FS_Subset
  <2>7. Cardinality(E \ {e}) = Cardinality(E) - 1
    BY <1>1, FS_RemoveElement
  <2>8. Cardinality(E) \in Nat /\ Cardinality(newer) \in Nat
    BY <1>1, <2>5, FS_CardinalityType
  <2>9. Cardinality(E) <= MAX_SKIPPED_KEYS_TOTAL
    BY <2>5, <2>6, <2>7, <2>8, BoundsAssumption
  <2> QED BY <1>1, <2>9 DEF E
<1> QED BY <1>4, <1>5

\* Skipped keys take new places at the end, or those of the keys they replace.
LEMMA SkipKeepsPlaces ==
    ASSUME NEW s \in RatchetState, NEW until \in Nat, RootInv(s), Placed(s)
    PROVE  Placed(Skip(s, until))
<1> DEFINE new == WithSkipped(s, until)
           u   == [s EXCEPT !.skipped = Evict(new), !.nr = until]
           kept == {k \in s.skipped : ~(k.dh = s.dh_remote /\ k.key.n \in s.nr .. until - 1)}
           span == s.nr .. until - 1
           len == Len(s.chain_recv)
<1>1. CASE s.chain_recv = None \/ until <= s.nr
  BY <1>1 DEF Skip
<1>2. CASE s.chain_recv # None /\ s.nr < until
  <2>1. /\ s.dh_remote # None /\ s.chain_recv \in Root /\ s.nr \in Nat /\ len \in Nat
        /\ s.skipped \subseteq SkippedKey
    BY <1>2 DEF RootInv, RatchetState, Root
  <2>2. \A n \in span : /\ n \in Nat
                        /\ Cached(s, n) \in SkippedKey
                        /\ Cached(s, n).key = [chain |-> s.chain_recv, n |-> n]
    BY <2>1, <1>2, CachedType
  <2>3. new = kept \cup {Cached(s, n) : n \in span}
    BY DEF WithSkipped
  <2>4. Skip(s, until) = u
    BY <1>2, <2>1 DEF Skip
  <2>5. new \in SUBSET SkippedKey /\ IsFiniteSet(new)
    <3>1. IsFiniteSet(kept)
      BY FS_Subset DEF Placed
    <3>2. IsFiniteSet(span)
      <4>1. s.nr \in Int /\ until - 1 \in Int
        BY <2>1
      <4> QED BY <4>1, FS_Interval
    <3>3. IsFiniteSet({Cached(s, n) : n \in span})
      <4> DEFINE f == [n \in span |-> Cached(s, n)]
      <4>1. {Cached(s, n) : n \in span} = {f[n] : n \in span}
        OBVIOUS
      <4>2. DOMAIN f = span
        OBVIOUS
      <4> HIDE DEF f, span
      <4>3. f \in Surjection(span, {f[n] : n \in span})
        BY <4>1, <4>2 DEF Surjection, f
      <4> QED BY <3>2, <4>1, <4>3, FS_Surjection
    <3> HIDE DEF new, kept, span
    <3>4. IsFiniteSet(new)
      BY <2>3, <3>1, <3>3, FS_Union
    <3> QED BY <2>1, <2>2, <2>3, <3>4 DEF kept
\* A place taken is either new or that of a key that is replaced.
  <2>6. ASSUME NEW n \in span
        PROVE  \/ Cached(s, n).at = <<len, n>>
               \/ \E k \in s.skipped \ kept : k.key.n = n /\ Cached(s, n).at = k.at
    <3>1. CASE Holds(s, s.dh_remote, n) = {}
      BY <3>1 DEF Cached
    <3>2. CASE Holds(s, s.dh_remote, n) # {}
      <4> DEFINE k == CHOOSE k \in Holds(s, s.dh_remote, n) : TRUE
      <4>1. k \in Holds(s, s.dh_remote, n)
        BY <3>2
      <4>2. Cached(s, n).at = k.at
        BY <3>2 DEF Cached
      <4> HIDE DEF k
      <4>3. k \in s.skipped \ kept /\ k.key.n = n
        BY <4>1 DEF Holds
      <4> QED BY <4>2, <4>3
    <3> QED BY <3>1, <3>2
  <2>7. ASSUME NEW e \in s.skipped, NEW n \in span PROVE e.at # <<len, n>>
    <3>1. PlacedBefore(s, e.at)
      BY DEF Placed
    <3>2. e.at \in Nat \X Nat
      BY <2>1 DEF SkippedKey
    <3> QED BY <2>1, <3>1, <3>2 DEF PlacedBefore
  <2>8. \A e, f \in s.skipped : e.at = f.at => e = f
    BY DEF Placed
  <2>9. ASSUME NEW e \in new, NEW f \in new, e.at = f.at PROVE e = f
    <3>1. ASSUME NEW x \in kept, NEW n \in span PROVE x.at # Cached(s, n).at
      BY <2>6, <2>7, <2>8
    <3>2. ASSUME NEW a \in span, NEW c \in span, Cached(s, a).at = Cached(s, c).at
          PROVE  a = c
      <4> HIDE DEF kept
      <4>1. CASE Cached(s, a).at = <<len, a>>
        <5>1. ASSUME NEW k \in s.skipped PROVE Cached(s, c).at # k.at
          BY <2>7, <3>2, <4>1
        <5>2. Cached(s, c).at = <<len, c>>
          BY <2>6, <5>1
        <5>3. <<len, a>> = <<len, c>>
          BY <3>2, <4>1, <5>2
        <5> QED BY <5>3
      <4>2. CASE Cached(s, a).at # <<len, a>>
        <5>1. PICK k \in s.skipped \ kept : k.key.n = a /\ Cached(s, a).at = k.at
          BY <2>6, <4>2
        <5>2. Cached(s, c).at # <<len, c>>
          BY <2>7, <3>2, <5>1
        <5>3. PICK l \in s.skipped \ kept : l.key.n = c /\ Cached(s, c).at = l.at
          BY <2>6, <5>2
        <5> QED BY <2>8, <3>2, <5>1, <5>3
      <4> QED BY <4>1, <4>2
    <3> HIDE DEF new, kept, span
    <3>3. CASE e \in kept /\ f \in kept
      BY <2>8, <2>9, <3>3 DEF kept
    <3>4. CASE e \notin kept /\ f \notin kept
      BY <2>3, <2>9, <3>2, <3>4
    <3>5. CASE e \in kept /\ f \notin kept
      BY <2>3, <2>9, <3>1, <3>5
    <3>6. CASE e \notin kept /\ f \in kept
      BY <2>3, <2>9, <3>1, <3>6
    <3> QED BY <3>3, <3>4, <3>5, <3>6
  <2>10. ASSUME NEW e \in new PROVE PlacedBefore(u, e.at)
    <3>1. u.chain_recv = s.chain_recv /\ u.nr = until
      BY DEF RatchetState
    <3> HIDE DEF u
    <3>2. ASSUME NEW x \in s.skipped PROVE PlacedBefore(u, x.at)
      <4>1. x.at[1] \in Nat /\ x.at[2] \in Nat
        BY <2>1 DEF SkippedKey
      <4>2. PlacedBefore(s, x.at)
        BY DEF Placed
      <4> QED BY <1>2, <2>1, <3>1, <4>1, <4>2 DEF PlacedBefore
    <3>3. ASSUME NEW n \in span PROVE PlacedBefore(u, Cached(s, n).at)
      <4>1. CASE Cached(s, n).at = <<len, n>>
        BY <1>2, <2>1, <3>1, <4>1 DEF PlacedBefore
      <4> QED BY <2>6, <3>2, <4>1
    <3> HIDE DEF new, span
    <3> QED BY <2>3, <3>2, <3>3
  <2>11. Placed(u)
    <3>1. u.skipped = Evict(new) /\ Evict(new) \subseteq new
      BY DEF RatchetState, Evict
    <3> HIDE DEF u, new
    <3> QED BY <2>5, <2>9, <2>10, <3>1, EvictCaps DEF Placed
  <2> QED BY <2>4, <2>11
<1> QED BY <1>1, <1>2 DEF RatchetState

\* The chain of a ratchet step is longer than those before.
LEMMA RatchetStepKeepsPlaces ==
    ASSUME NEW p \in Party, NEW s \in RatchetState, NEW dh \in PublicKey,
           RootInv(s), Placed(s)
    PROVE  Placed(DHRatchetStep(p, s, dh))
<1> DEFINE r == RecvRoot(p, s, dh)
           t == DHRatchetStep(p, s, dh)
<1>1. s.root \in Root /\ s.dh_self \in Nat /\ s.skipped \subseteq SkippedKey
  BY DEF RootInv, RatchetState
<1>2. {Pub(p, s.dh_self), dh} \in SUBSET PublicKey
  BY <1>1 DEF Pub, PublicKey
<1>3. r \in Root /\ Len(r) = Len(s.root) + 1 /\ Len(s.root) \in Nat /\ r # None
  BY <1>1, <1>2, NoneAssumption DEF RecvRoot, Root
<1>4. t.chain_recv = r /\ t.skipped = s.skipped
  BY DEF DHRatchetStep, RatchetState
<1> HIDE DEF r, t
<1>5. ASSUME NEW e \in s.skipped PROVE PlacedBefore(t, e.at)
  <2>1. PlacedBefore(s, e.at) /\ e.at[1] \in Nat
    BY <1>1 DEF Placed, SkippedKey
  <2>2. Len(s.root) = Len(s.chain_recv) + 1 /\ Len(s.chain_recv) \in Nat
    BY <2>1, KeyTypes DEF PlacedBefore, RootInv, RatchetState
  <2> QED BY <1>3, <1>4, <2>1, <2>2 DEF PlacedBefore
<1> QED BY <1>4, <1>5 DEF Placed, t

LEMMA TurnedKeepsPlaces ==
    ASSUME NEW p \in Party, NEW s \in RatchetState, NEW m \in EncryptedMessage,
           RootInv(s), CacheInv(s, {}), Placed(s)
    PROVE  LET t == Turned(p, s, m)
           IN  t \in RatchetState /\ RootInv(t) /\ Placed(t)
<1>1. m.pn \in Nat /\ m.dh \in PublicKey
  BY DEF EncryptedMessage
<1>2. Turned(p, s, m) \in RatchetState /\ RootInv(Turned(p, s, m))
  BY TurnedIsSound
<1>3. Skip(s, m.pn) \in RatchetState /\ RootInv(Skip(s, m.pn))
      /\ Placed(Skip(s, m.pn))
  BY <1>1, SkipIsSound, SkipKeepsPlaces
<1>4. Placed(Turned(p, s, m))
  <2>1. CASE Turns(s, m)
    BY <1>1, <1>3, <2>1, RatchetStepKeepsPlaces DEF Turned
  <2>2. CASE ~Turns(s, m)
    BY <2>2 DEF Turned
  <2> QED BY <2>1, <2>2
<1> QED BY <1>2, <1>4

\* Places stay places when the number grows or a key is taken.
LEMMA LaterKeepsPlaces ==
    ASSUME NEW s \in RatchetState, NEW t \in RatchetState, Placed(s),
           t.skipped \subseteq s.skipped,
           t.chain_recv = s.chain_recv, s.nr <= t.nr
    PROVE  Placed(t)
<1>1. IsFiniteSet(t.skipped) /\ Cardinality(t.skipped) <= Cardinality(s.skipped)
  BY FS_Subset DEF Placed
<1>2. /\ Cardinality(t.skipped) \in Nat /\ Cardinality(s.skipped) \in Nat
      /\ Cardinality(t.skipped) <= MAX_SKIPPED_KEYS_TOTAL
  BY <1>1, FS_CardinalityType, BoundsAssumption DEF Placed
<1>3. ASSUME NEW e \in t.skipped PROVE PlacedBefore(t, e.at)
  <2>1. PlacedBefore(s, e.at) /\ e.at[2] \in Nat /\ s.nr \in Nat /\ t.nr \in Nat
    BY DEF Placed, SkippedKey, RatchetState
  <2> QED BY <2>1 DEF PlacedBefore
<1> QED BY <1>1, <1>2, <1>3 DEF Placed

LEMMA ReceiveKeepsPlaces ==
    ASSUME IInv, NEW p \in Party, NEW m \in sent[Peer(p)], Placed(state[p]),
           OpenSkipped(p, m) \/ TooManySkipped(p, m) \/ OpenNext(p, m)
    PROVE  \E v : state' = [state EXCEPT ![p] = v] /\ Placed(v)
<1> DEFINE s == state[p]
           t == Turned(p, s, m)
           u == Skip(t, m.key.n)
<1>1. ~closed[p]
  BY DEF OpenSkipped, TooManySkipped, OpenNext, Deliver
<1>2. /\ TypeOK /\ s \in RatchetState /\ RootInv(s) /\ CacheInv(s, {})
      /\ m \in EncryptedMessage /\ m.key.n \in Nat
  BY <1>1, ReceiverFacts DEF CacheInv
<1>3. t \in RatchetState /\ RootInv(t) /\ Placed(t) /\ CacheInv(t, {})
  BY <1>2, TurnedKeepsPlaces, TurnedIsSound
<1>4. CASE OpenSkipped(p, m)
  <2>1. PICK e \in Holds(s, m.dh, m.key.n) : state' = [state EXCEPT ![p].skipped = @ \ {e}]
    BY <1>4 DEF OpenSkipped
  <2> DEFINE v == [s EXCEPT !.skipped = @ \ {e}]
  <2>2. /\ v \in RatchetState /\ v.skipped \subseteq s.skipped
        /\ v.chain_recv = s.chain_recv /\ s.nr <= v.nr
    BY <1>2 DEF RatchetState
  <2>3. state' = [state EXCEPT ![p] = v]
    BY <2>1
  <2> HIDE DEF v
  <2> QED BY <1>2, <2>2, <2>3, LaterKeepsPlaces
<1>5. CASE TooManySkipped(p, m)
  <2>1. CASE state' = state
    BY <1>2, <2>1 DEF TypeOK
  <2>2. CASE state' = [state EXCEPT ![p] = t]
    BY <1>3, <2>2
  <2> QED BY <1>5, <2>1, <2>2 DEF TooManySkipped
<1>6. CASE OpenNext(p, m)
  <2> DEFINE v == [u EXCEPT !.nr = @ + 1]
  <2>1. state' = [state EXCEPT ![p] = v]
    BY <1>6 DEF OpenNext
  <2> HIDE DEF t
  <2>2. u \in RatchetState /\ Placed(u)
    BY <1>2, <1>3, SkipIsSound, SkipKeepsPlaces
  <2> HIDE DEF u
  <2>3. /\ v \in RatchetState /\ v.skipped \subseteq u.skipped
        /\ v.chain_recv = u.chain_recv /\ u.nr <= v.nr
    BY <2>2 DEF RatchetState
  <2> HIDE DEF v
  <2> QED BY <2>1, <2>2, <2>3, LaterKeepsPlaces
<1> QED BY <1>4, <1>5, <1>6

LEMMA PlacesAreKept ==
    ASSUME IInv, \A p \in Party : Placed(state[p]), [Next]_vars
    PROVE  \A p \in Party : Placed(state'[p])
<1>1. TypeOK
  BY DEF IInv
<1>2. CASE UNCHANGED vars
  BY <1>2 DEF vars
<1>3. ASSUME NEW p \in Party, NEW v, state' = [state EXCEPT ![p] = v], Placed(v)
      PROVE  \A q \in Party : Placed(state'[q])
  BY <1>1, <1>3 DEF TypeOK
<1>4. ASSUME NEW p \in Party, Send(p) PROVE \A q \in Party : Placed(state'[q])
  <2> DEFINE v == [state[p] EXCEPT !.ns = @ + 1]
  <2>1. state[p] \in RatchetState /\ Placed(state[p])
    BY <1>1 DEF TypeOK
  <2>2. /\ v \in RatchetState /\ v.skipped \subseteq state[p].skipped
        /\ v.chain_recv = state[p].chain_recv /\ state[p].nr <= v.nr
    BY <2>1 DEF RatchetState
  <2>3. state' = [state EXCEPT ![p] = v]
    BY <1>4 DEF Send
  <2> HIDE DEF v
  <2>4. Placed(v)
    BY <2>1, <2>2, LaterKeepsPlaces
  <2> QED BY <1>3, <2>3, <2>4
<1>5. ASSUME NEW p \in Party, Receive(p) PROVE \A q \in Party : Placed(state'[q])
  <2>1. \E v : state' = [state EXCEPT ![p] = v] /\ Placed(v)
    BY <1>5, ReceiveKeepsPlaces DEF Receive
  <2> QED BY <1>3, <2>1
<1>6. ASSUME NEW p \in Party, Close(p) PROVE \A q \in Party : Placed(state'[q])
  <2> DEFINE v == [state[p] EXCEPT !.root = None, !.chain_send = None,
                                   !.chain_recv = None, !.skipped = {}]
  <2>1. v.skipped = {}
    <3>1. state[p] \in RatchetState
      BY <1>1 DEF TypeOK
    <3> QED BY <3>1 DEF RatchetState
  <2>2. state' = [state EXCEPT ![p] = v]
    BY <1>6 DEF Close
  <2> HIDE DEF v
  <2>3. IsFiniteSet({}) /\ Cardinality({}) <= MAX_SKIPPED_KEYS_TOTAL
    BY FS_EmptySet, BoundsAssumption
  <2>4. Placed(v)
    BY <2>1, <2>3 DEF Placed
  <2> QED BY <1>3, <2>2, <2>4
<1> QED BY <1>2, <1>4, <1>5, <1>6 DEF Next

-----------------------------------------------------------------------------
(* Delivery in any order. While nothing is delivered twice and nothing is   *)
(* evicted, the two ends take the same turns, one at a time, so their root  *)
(* keys are prefixes of one sequence; what an end is beyond and has not     *)
(* received is in its cache.                                                *)

\* The j-th output of the two ends' turns: the initiator's first pair with the
\* responder's signed pre-key, then a new pair of either end in alternation.
Output(j) == {Pub("initiator", (j - 1) \div 2), Pub("responder", j \div 2)}

\* The root key after n turns that both ends took alike.
Canon(n) == [j \in 1..n |-> Output(j)]

\* The turns behind the sending chain of p's i-th key pair, and the pair of the
\* peer that p then knows (-1 for none).
Turn(p, i)  == IF p = "initiator" THEN 2 * i + 1 ELSE 2 * i
Heard(p, i) == IF p = "initiator" THEN i ELSE i - 1

\* A state whose chains are those of the turns it has taken.
OnTrack(p, s) ==
    /\ s.dh_remote = IF Heard(p, s.dh_self) < 0 THEN None
                     ELSE Pub(Peer(p), Heard(p, s.dh_self))
    /\ s.root = Canon(Turn(p, s.dh_self))
    /\ s.chain_send # None => Turn(p, s.dh_self) > 0
    /\ s.chain_recv = IF s.dh_self = 0 THEN None ELSE Canon(Turn(p, s.dh_self) - 1)
    /\ \A e \in s.skipped : /\ e.dh.of = Peer(p)
                            /\ e.key.chain = Canon(Turn(Peer(p), e.dh.nr))

\* A message p made on track.
Canonical(p, m) ==
    /\ m.dh.of = p /\ m.dh.nr \in Nat
    /\ Turn(p, m.dh.nr) > 0
    /\ m.key.chain = Canon(Turn(p, m.dh.nr))

\* What p has sent, against the numbers its state s counts.
Counted(p, s) ==
    /\ \A m \in sent[p] : /\ Canonical(p, m)
                          /\ m.dh.nr <= s.dh_self
                          /\ m.dh.nr = s.dh_self => m.key.n < s.ns
                          /\ m.dh.nr = s.dh_self - 1 => m.key.n < s.pn
    /\ \A l, m \in sent[p] : /\ l.dh.nr = m.dh.nr - 1 => l.key.n < m.pn
                             /\ l.key = m.key => l = m

\* Messages that state s is beyond.
Passed(p, s, m) == \/ m.dh.nr < Heard(p, s.dh_self)
                   \/ m.dh.nr = Heard(p, s.dh_self) /\ m.key.n < s.nr

\* Of the messages still to come, the keys of those it is beyond are cached.
Caught(p, s, coming) ==
    \A m \in coming : Passed(p, s, m) => \E e \in s.skipped : e.dh = m.dh /\ e.key = m.key

\* The end in state s knows the last pair of the end in state r or the one
\* before, and has not read ahead of it.
InStep(p, s, r) ==
    /\ Heard(p, s.dh_self) <= r.dh_self /\ r.dh_self <= Heard(p, s.dh_self) + 1
    /\ Heard(p, s.dh_self) = r.dh_self => s.nr <= r.ns

Coming(p) == sent[Peer(p)] \ delivered[p]

Calm == redeliveries = 0 /\ ~evicted

TrackInv ==
    Calm => \A p \in Party :
        /\ failed[p] = {}
        /\ Counted(p, state[p])
        /\ InStep(p, state[p], state[Peer(p)])
        /\ ~closed[p] => OnTrack(p, state[p]) /\ Caught(p, state[p], Coming(p))

LEMMA Peers == Peer("initiator") = "responder" /\ Peer("responder") = "initiator"
BY PeerIsOther DEF Party

\* How turns and pairs count up.
LEMMA TurnFacts ==
    ASSUME NEW p \in Party, NEW i \in Nat
    PROVE  /\ Turn(p, i) \in Nat
           /\ Heard(p, i) \in Int /\ Heard(p, i) >= -1
           /\ Turn(p, i + 1) = Turn(p, i) + 2
           /\ Heard(p, i + 1) = Heard(p, i) + 1
           /\ Turn(Peer(p), Heard(p, i)) = Turn(p, i) - 1
           /\ Turn(Peer(p), Heard(p, i) + 1) = Turn(p, i) + 1
<1>1. CASE p = "initiator"
  BY <1>1, Peers DEF Turn, Heard
<1>2. CASE p = "responder"
  BY <1>2, Peers DEF Turn, Heard
<1> QED BY <1>1, <1>2 DEF Party

\* Before the first turn there is nothing to hear.
LEMMA FirstTurn ==
    ASSUME NEW p \in Party, NEW i \in Nat
    PROVE  /\ i # 0 => Turn(p, i) - 1 \in Nat /\ Heard(p, i) \in Nat
           /\ \A j \in Nat : Turn(Peer(p), j) > 0 /\ j <= Heard(p, i) => i # 0
<1>1. CASE p = "initiator"
  BY <1>1, Peers DEF Turn, Heard
<1>2. CASE p = "responder"
  BY <1>2, Peers DEF Turn, Heard
<1> QED BY <1>1, <1>2 DEF Party

LEMMA TurnsDiffer ==
    ASSUME NEW p \in Party, NEW i \in Nat, NEW j \in Nat, Turn(p, i) = Turn(p, j)
    PROVE  i = j
BY DEF Turn

\* The two outputs of a turn are the next ones.
LEMMA NextOutputs ==
    ASSUME NEW p \in Party, NEW i \in Nat
    PROVE  /\ {Pub(p, i), Pub(Peer(p), Heard(p, i) + 1)} = Output(Turn(p, i) + 1)
           /\ {Pub(p, i + 1), Pub(Peer(p), Heard(p, i) + 1)} = Output(Turn(p, i) + 2)
<1>1. CASE p = "initiator"
  <2>1. /\ Turn(p, i) = 2 * i + 1 /\ Heard(p, i) = i /\ Peer(p) = "responder"
    BY <1>1, Peers DEF Turn, Heard
  <2>2. /\ (2 * i + 1) \div 2 = i /\ (2 * i + 2) \div 2 = i + 1
        /\ (2 * i + 3) \div 2 = i + 1
    OBVIOUS
  <2>3. /\ Output(2 * i + 2) = {Pub("initiator", i), Pub("responder", i + 1)}
        /\ Output(2 * i + 3) = {Pub("initiator", i + 1), Pub("responder", i + 1)}
    BY <2>2 DEF Output
  <2> QED BY <1>1, <2>1, <2>3
<1>2. CASE p = "responder"
  <2>1. /\ Turn(p, i) = 2 * i /\ Heard(p, i) + 1 = i /\ Peer(p) = "initiator"
    BY <1>2, Peers DEF Turn, Heard
  <2>2. /\ (2 * i) \div 2 = i /\ (2 * i + 1) \div 2 = i /\ (2 * i + 2) \div 2 = i + 1
    OBVIOUS
  <2>3. /\ Output(2 * i + 1) = {Pub("initiator", i), Pub("responder", i)}
        /\ Output(2 * i + 2) = {Pub("initiator", i), Pub("responder", i + 1)}
    BY <2>2 DEF Output
  <2> QED BY <1>2, <2>1, <2>3
<1> QED BY <1>1, <1>2 DEF Party

LEMMA CanonFacts ==
    ASSUME NEW n \in Nat
    PROVE  /\ Canon(n) \in Root /\ Len(Canon(n)) = n /\ Canon(n) # None
           /\ Append(Canon(n), Output(n + 1)) = Canon(n + 1)
<1>1. \A j \in 1..n + 1 : Output(j) \in SUBSET PublicKey
  BY DEF Output, Pub, PublicKey, Party
<1>2. Canon(n) \in Root /\ Len(Canon(n)) = n
  BY <1>1 DEF Canon, Root
<1>3. Canon(n + 1) \in Root /\ Len(Canon(n + 1)) = n + 1
  BY <1>1 DEF Canon, Root
<1>4. ASSUME NEW j \in 1..n + 1
      PROVE  Append(Canon(n), Output(n + 1))[j] = Canon(n + 1)[j]
  <2>1. Canon(n) \in Seq(SUBSET PublicKey)
    BY <1>2 DEF Root
  <2>2. CASE j = n + 1
    BY <1>1, <1>2, <2>1, <2>2 DEF Canon
  <2>3. CASE j \in 1..n
    <3>1. Append(Canon(n), Output(n + 1))[j] = Canon(n)[j]
      BY <1>1, <1>2, <2>1, <2>3
    <3> QED BY <3>1, <2>3 DEF Canon
  <2>4. j = n + 1 \/ j \in 1..n
    OBVIOUS
  <2> QED BY <2>2, <2>3, <2>4
<1>5. Append(Canon(n), Output(n + 1)) = Canon(n + 1)
  <2>1. /\ Append(Canon(n), Output(n + 1)) \in Seq(SUBSET PublicKey)
        /\ Len(Append(Canon(n), Output(n + 1))) = n + 1
        /\ Canon(n + 1) \in Seq(SUBSET PublicKey)
    BY <1>1, <1>2, <1>3 DEF Root
  <2> QED BY <1>3, <1>4, <2>1, SeqEqual
<1> QED BY <1>2, <1>5, NoneAssumption

LEMMA CanonsDiffer ==
    ASSUME NEW m \in Nat, NEW n \in Nat, Canon(m) = Canon(n)
    PROVE  m = n
BY CanonFacts

LEMMA KeyParts ==
    /\ \A k \in PublicKey : k = Pub(k.of, k.nr)
    /\ \A k \in MessageKey : k = [chain |-> k.chain, n |-> k.n]
BY DEF PublicKey, Pub, MessageKey

\* What is cached while nothing is evicted: what was, and what is skipped.
LEMMA SkipCaches ==
    ASSUME NEW s \in RatchetState, NEW until \in Nat,
           s.chain_recv # None, s.dh_remote # None, ~Evicts(s, until)
    PROVE  LET u == Skip(s, until) IN
           /\ u.nr = IF until <= s.nr THEN s.nr ELSE until
           /\ \A e \in s.skipped :
                 e.dh # s.dh_remote \/ e.key.n < s.nr => e \in u.skipped
           /\ \A n \in s.nr .. until - 1 :
                 \E e \in u.skipped : /\ e.dh = s.dh_remote
                                      /\ e.key = [chain |-> s.chain_recv, n |-> n]
<1> DEFINE u   == Skip(s, until)
           new == WithSkipped(s, until)
<1>1. /\ s.nr \in Nat
      /\ \A e \in s.skipped : e \in SkippedKey /\ e.key.n \in Nat
  BY StateTypes, KeyTypes
<1>2. CASE until <= s.nr
  <2>1. u = s
    BY <1>2 DEF Skip
  <2> HIDE DEF u
  <2> QED BY <1>1, <1>2, <2>1 DEF u
<1>3. CASE s.nr < until
  <2>1. u = [s EXCEPT !.skipped = Evict(new), !.nr = until]
    BY <1>1, <1>3 DEF Skip
  <2>2. u.skipped = new
    BY DEF Evicts
  <2> HIDE DEF u
  <2>3. u.nr = until
    BY <2>1 DEF RatchetState
  <2>4. \A e \in s.skipped : e.dh # s.dh_remote \/ e.key.n < s.nr => e \in new
    BY <1>1 DEF WithSkipped
  <2>5. ASSUME NEW n \in s.nr .. until - 1
        PROVE  \E e \in new : /\ e.dh = s.dh_remote
                              /\ e.key = [chain |-> s.chain_recv, n |-> n]
    <3>1. Cached(s, n) \in new
      BY DEF WithSkipped
    <3>2. Cached(s, n).dh = s.dh_remote
      BY DEF Cached
    <3>3. Cached(s, n).key = [chain |-> s.chain_recv, n |-> n]
      BY DEF Cached
    <3> QED BY <3>1, <3>2, <3>3
  <2> HIDE DEF new
  <2> QED BY <1>1, <1>3, <2>2, <2>3, <2>4, <2>5 DEF u
<1> QED BY <1>1, <1>2, <1>3

\* A chain an end on track receives on is one its peer sends on.
LEMMA ReceivingChain ==
    ASSUME NEW p \in Party, NEW s \in RatchetState, OnTrack(p, s),
           s.chain_recv # None
    PROVE  /\ s.dh_self > 0
           /\ Heard(p, s.dh_self) \in Nat
           /\ s.dh_remote = Pub(Peer(p), Heard(p, s.dh_self))
           /\ s.chain_recv = Canon(Turn(Peer(p), Heard(p, s.dh_self)))
<1>1. s.dh_self \in Nat /\ s.dh_self # 0
  BY StateTypes DEF OnTrack
<1>2. /\ Heard(p, s.dh_self) \in Nat
      /\ Turn(Peer(p), Heard(p, s.dh_self)) = Turn(p, s.dh_self) - 1
  BY <1>1, TurnFacts, FirstTurn
<1> QED BY <1>1, <1>2 DEF OnTrack

LEMMA SkipStaysOnTrack ==
    ASSUME NEW p \in Party, NEW s \in RatchetState, NEW until \in Nat,
           RootInv(s), CacheInv(s, {}), OnTrack(p, s)
    PROVE  OnTrack(p, Skip(s, until))
<1> DEFINE u   == Skip(s, until)
           new == WithSkipped(s, until)
<1>1. CASE s.chain_recv = None \/ until <= s.nr
  BY <1>1 DEF Skip
<1>2. CASE s.chain_recv # None /\ s.nr < until
  <2>1. /\ u.dh_self = s.dh_self /\ u.dh_remote = s.dh_remote
        /\ u.root = s.root /\ u.chain_send = s.chain_send
        /\ u.chain_recv = s.chain_recv
    BY SkipIsSound
  <2>2. u.skipped \subseteq new
    <3>1. s.nr \in Nat /\ u = [s EXCEPT !.skipped = Evict(new), !.nr = until]
      BY <1>2, StateTypes DEF Skip
    <3>2. Evict(new) \subseteq new
      BY DEF Evict
    <3> HIDE DEF u, new
    <3> QED BY <3>1, <3>2 DEF RatchetState
  <2> HIDE DEF u
  <2>3. ASSUME NEW n \in s.nr .. until - 1
        PROVE  /\ Cached(s, n).dh = Pub(Peer(p), Heard(p, s.dh_self))
               /\ Cached(s, n).key.chain = Canon(Turn(Peer(p), Heard(p, s.dh_self)))
    <3>1. /\ Cached(s, n).dh = s.dh_remote
          /\ Cached(s, n).key.chain = s.chain_recv
      BY DEF Cached
    <3> QED BY <1>2, <3>1, ReceivingChain
  <2>4. ASSUME NEW e \in u.skipped
        PROVE  e.dh.of = Peer(p) /\ e.key.chain = Canon(Turn(Peer(p), e.dh.nr))
    <3>1. CASE e \in s.skipped
      BY <3>1 DEF OnTrack
    <3>2. CASE \E n \in s.nr .. until - 1 : e = Cached(s, n)
      BY <2>3, <3>2 DEF Pub
    <3> QED BY <2>2, <3>1, <3>2 DEF WithSkipped
  <2>5. OnTrack(p, u)
    BY <2>1, <2>4 DEF OnTrack
  <2> QED BY <2>5 DEF u
<1>3. s.nr \in Nat
  BY StateTypes
<1> QED BY <1>1, <1>2, <1>3

\* What is skipped without eviction is caught.
LEMMA SkipCatches ==
    ASSUME NEW p \in Party, NEW s \in RatchetState, NEW until \in Nat,
           RootInv(s), CacheInv(s, {}), OnTrack(p, s), ~Evicts(s, until),
           NEW coming \in SUBSET EncryptedMessage,
           \A l \in coming : Canonical(Peer(p), l),
           Caught(p, s, coming)
    PROVE  Caught(p, Skip(s, until), coming)
<1> DEFINE u == Skip(s, until)
<1>1. CASE s.chain_recv = None
  BY <1>1 DEF Skip
<1>2. CASE s.chain_recv # None
  <2>1. s.dh_remote # None
    BY <1>2 DEF RootInv
  <2>2. /\ u.nr = IF until <= s.nr THEN s.nr ELSE until
        /\ \A e \in s.skipped :
              e.dh # s.dh_remote \/ e.key.n < s.nr => e \in u.skipped
        /\ \A n \in s.nr .. until - 1 :
              \E e \in u.skipped : /\ e.dh = s.dh_remote
                                   /\ e.key = [chain |-> s.chain_recv, n |-> n]
    BY <1>2, <2>1, SkipCaches
  <2>3. u.dh_self = s.dh_self /\ s.nr \in Nat
    BY SkipIsSound, StateTypes
  <2> HIDE DEF u
  <2> DEFINE heard == Heard(p, s.dh_self)
  <2>4. /\ heard \in Nat
        /\ s.dh_remote = Pub(Peer(p), heard)
        /\ s.chain_recv = Canon(Turn(Peer(p), heard))
    BY <1>2, ReceivingChain
  <2>5. ASSUME NEW l \in coming, Passed(p, u, l)
        PROVE  \E e \in u.skipped : e.dh = l.dh /\ e.key = l.key
    <3>1. /\ l.dh = Pub(Peer(p), l.dh.nr) /\ l.dh.nr \in Nat
          /\ l.key = [chain |-> l.key.chain, n |-> l.key.n] /\ l.key.n \in Nat
          /\ l.key.chain = Canon(Turn(Peer(p), l.dh.nr))
      <4>1. l.dh \in PublicKey /\ l.key \in MessageKey
        BY DEF EncryptedMessage
      <4> QED BY <4>1, KeyParts, KeyTypes DEF Canonical
    <3>2. CASE Passed(p, s, l)
      <4>1. PICK e \in s.skipped : e.dh = l.dh /\ e.key = l.key
        BY <3>2 DEF Caught
      <4>2. l.dh.nr < heard => e.dh # s.dh_remote
        BY <2>4, <3>1, <4>1 DEF Pub
      <4>3. e \in u.skipped
        BY <2>2, <3>2, <4>1, <4>2 DEF Passed
      <4> QED BY <4>1, <4>3
    <3>3. CASE ~Passed(p, s, l)
      <4>1. l.dh.nr = heard /\ l.key.n < u.nr /\ ~(l.key.n < s.nr)
        BY <2>3, <2>5, <3>3 DEF Passed
      <4>2. l.key.n \in s.nr .. until - 1
        BY <2>2, <2>3, <3>1, <4>1
      <4>3. PICK e \in u.skipped : /\ e.dh = s.dh_remote
                                   /\ e.key = [chain |-> s.chain_recv, n |-> l.key.n]
        BY <2>2, <4>2
      <4> QED BY <2>4, <3>1, <4>1, <4>3
    <3> QED BY <3>2, <3>3
  <2> QED BY <2>5 DEF Caught, u
<1> QED BY <1>1, <1>2

\* The turn an end on track takes is the next one of its peer.
LEMMA TurnedStaysOnTrack ==
    ASSUME NEW p \in Party, NEW s \in RatchetState, NEW m \in EncryptedMessage,
           RootInv(s), CacheInv(s, {}), OnTrack(p, s), Canonical(Peer(p), m),
           m.dh.nr \in {Heard(p, s.dh_self), Heard(p, s.dh_self) + 1}
    PROVE  LET t == Turned(p, s, m) IN
           /\ OnTrack(p, t)
           /\ Heard(p, t.dh_self) = m.dh.nr
           /\ t.chain_recv = m.key.chain /\ t.chain_recv # None
           /\ Turns(s, m) <=> m.dh.nr # Heard(p, s.dh_self)
           /\ Turns(s, m) => /\ t.dh_self = s.dh_self + 1
                             /\ t.ns = 0 /\ t.nr = 0 /\ t.pn = s.ns
                             /\ t.skipped = Skip(s, m.pn).skipped
<1> DEFINE i     == s.dh_self
           heard == Heard(p, i)
           t     == Turned(p, s, m)
<1>1. /\ i \in Nat /\ heard \in Int /\ m.pn \in Nat
      /\ m.dh = Pub(Peer(p), m.dh.nr) /\ m.dh.nr \in Nat /\ m.dh # None
      /\ m.key.chain = Canon(Turn(Peer(p), m.dh.nr))
      /\ m.key.chain # None
  <2>1. m.dh \in PublicKey /\ m.key \in MessageKey /\ m.pn \in Nat
    BY DEF EncryptedMessage
  <2>2. i \in Nat /\ heard \in Int
    BY StateTypes, TurnFacts
  <2> QED BY <2>1, <2>2, KeyParts, KeyTypes, NoneAssumption DEF Canonical
<1>2. s.dh_remote = IF heard < 0 THEN None ELSE Pub(Peer(p), heard)
  BY DEF OnTrack
<1>3. Turns(s, m) <=> m.dh.nr # heard
  <2>1. CASE heard < 0
    BY <1>1, <1>2, <2>1 DEF Turns
  <2>2. CASE heard >= 0
    <3>1. s.dh_remote = Pub(Peer(p), heard) /\ s.dh_remote # None
      <4>1. Pub(Peer(p), heard) \in PublicKey
        BY <1>1, <2>2, PeerIsOther DEF Pub, PublicKey
      <4> QED BY <1>1, <1>2, <2>2, <4>1, NoneAssumption
    <3>2. Pub(Peer(p), heard) = Pub(Peer(p), m.dh.nr) <=> heard = m.dh.nr
      BY DEF Pub
    <3> QED BY <1>1, <3>1, <3>2 DEF Turns
  <2> QED BY <1>1, <2>1, <2>2
<1>4. CASE ~Turns(s, m)
  <2>1. t = s /\ m.dh.nr = heard
    BY <1>3, <1>4 DEF Turned
  <2>2. i # 0
    BY <1>1, <2>1, FirstTurn DEF Canonical
  <2>3. s.chain_recv = m.key.chain
    BY <1>1, <2>1, <2>2, TurnFacts DEF OnTrack
  <2> QED BY <1>1, <1>3, <1>4, <2>1, <2>3
<1>5. CASE Turns(s, m)
  <2> DEFINE u == Skip(s, m.pn)
             r == RecvRoot(p, u, m.dh)
             q == SendRoot(p, u, m.dh)
  <2>1. /\ u \in RatchetState /\ OnTrack(p, u)
        /\ u.dh_self = i /\ u.ns = s.ns /\ u.root = s.root
    BY <1>1, SkipIsSound, SkipStaysOnTrack
  <2>2. m.dh = Pub(Peer(p), heard + 1) /\ m.dh.nr = heard + 1
    BY <1>1, <1>3, <1>5
  <2>3. /\ r = Canon(Turn(p, i) + 1) /\ q = Canon(Turn(p, i) + 2)
        /\ Turn(p, i) \in Nat
    <3>1. u.root = Canon(Turn(p, i)) /\ Turn(p, i) \in Nat
      BY <1>1, <2>1, TurnFacts DEF OnTrack
    <3>2. r = Append(Canon(Turn(p, i)), Output(Turn(p, i) + 1))
      BY <1>1, <2>1, <2>2, <3>1, NextOutputs DEF RecvRoot
    <3>3. r = Canon(Turn(p, i) + 1)
      BY <3>1, <3>2, CanonFacts
    <3>4. q = Append(r, Output(Turn(p, i) + 2))
      BY <1>1, <2>1, <2>2, NextOutputs DEF SendRoot
    <3>5. q = Canon(Turn(p, i) + 2)
      <4>1. Turn(p, i) + 1 \in Nat /\ (Turn(p, i) + 1) + 1 = Turn(p, i) + 2
        BY <3>1
      <4> QED BY <3>3, <3>4, <4>1, CanonFacts
    <3> QED BY <3>1, <3>3, <3>5
  <2>4. t = DHRatchetStep(p, u, m.dh)
    BY <1>5 DEF Turned
  <2> HIDE DEF u, t
  <2>5. t = [u EXCEPT !.pn = u.ns, !.ns = 0, !.nr = 0, !.dh_remote = m.dh,
                      !.dh_self = u.dh_self + 1, !.root = q,
                      !.chain_recv = r, !.chain_send = q]
    BY <2>4 DEF DHRatchetStep
  <2> HIDE DEF r, q
  <2>6. /\ t.dh_self = i + 1 /\ t.dh_remote = m.dh
        /\ t.ns = 0 /\ t.nr = 0 /\ t.pn = s.ns /\ t.skipped = u.skipped
        /\ t.root = q /\ t.chain_recv = r /\ t.chain_send = q
    BY <2>1, <2>5 DEF RatchetState
  <2>7. /\ Heard(p, i + 1) = heard + 1 /\ heard + 1 >= 0
        /\ Turn(p, i + 1) = Turn(p, i) + 2
        /\ Turn(Peer(p), heard + 1) = Turn(p, i) + 1
    BY <1>1, TurnFacts
  <2>8. r = m.key.chain
    BY <1>1, <2>2, <2>3, <2>7
  <2>9. OnTrack(p, t)
    <3>1. t.dh_remote = IF Heard(p, t.dh_self) < 0 THEN None
                        ELSE Pub(Peer(p), Heard(p, t.dh_self))
      BY <2>2, <2>6, <2>7, <1>1
    <3>2. t.root = Canon(Turn(p, t.dh_self)) /\ Turn(p, t.dh_self) > 0
      BY <2>3, <2>6, <2>7
    <3>3. t.chain_recv = IF t.dh_self = 0 THEN None ELSE Canon(Turn(p, t.dh_self) - 1)
      <4>1. t.dh_self # 0 /\ Turn(p, t.dh_self) - 1 = Turn(p, i) + 1
        BY <1>1, <2>3, <2>6, <2>7
      <4> QED BY <2>3, <2>6, <4>1
    <3>4. \A e \in t.skipped : /\ e.dh.of = Peer(p)
                               /\ e.key.chain = Canon(Turn(Peer(p), e.dh.nr))
      BY <2>1, <2>6 DEF OnTrack
    <3> QED BY <3>1, <3>2, <3>3, <3>4 DEF OnTrack
  <2> QED BY <1>1, <1>3, <1>5, <2>2, <2>6, <2>7, <2>8, <2>9 DEF t, u
<1> QED BY <1>4, <1>5

\* A ratchet step caches the rest of the old chain, as far as it was sent.
LEMMA TurnedCatches ==
    ASSUME NEW p \in Party, NEW s \in RatchetState, NEW m \in EncryptedMessage,
           RootInv(s), CacheInv(s, {}), OnTrack(p, s), Canonical(Peer(p), m),
           m.dh.nr \in {Heard(p, s.dh_self), Heard(p, s.dh_self) + 1},
           ~(Turns(s, m) /\ Evicts(s, m.pn)),
           NEW coming \in SUBSET EncryptedMessage,
           \A l \in coming : /\ Canonical(Peer(p), l)
                             /\ l.dh.nr = m.dh.nr - 1 => l.key.n < m.pn,
           Caught(p, s, coming)
    PROVE  Caught(p, Turned(p, s, m), coming)
<1> DEFINE u     == Skip(s, m.pn)
           t     == Turned(p, s, m)
           heard == Heard(p, s.dh_self)
<1>1. CASE ~Turns(s, m)
  BY <1>1 DEF Turned
<1>2. CASE Turns(s, m)
  <2>1. m.pn \in Nat /\ s.dh_self \in Nat /\ heard \in Int /\ s.nr \in Nat
    BY StateTypes, TurnFacts DEF EncryptedMessage
  <2>2. u.dh_self = s.dh_self /\ Caught(p, u, coming)
    BY <1>2, <2>1, SkipIsSound, SkipCatches
  <2>3. /\ Heard(p, t.dh_self) = m.dh.nr /\ m.dh.nr = heard + 1
        /\ t.nr = 0 /\ t.skipped = u.skipped
    BY <1>2, TurnedStaysOnTrack
  <2>4. s.chain_recv # None => m.pn <= u.nr
    <3>1. s.chain_recv # None => s.dh_remote # None
      BY DEF RootInv
    <3> QED BY <1>2, <2>1, <3>1, SkipCaches
  <2>5. s.chain_recv = None => s.dh_self = 0
    <3> SUFFICES ASSUME s.dh_self # 0 PROVE s.chain_recv # None
      OBVIOUS
    <3>1. Turn(p, s.dh_self) - 1 \in Nat
      BY <2>1, FirstTurn
    <3>2. s.chain_recv = Canon(Turn(p, s.dh_self) - 1)
      BY DEF OnTrack
    <3> QED BY <3>1, <3>2, CanonFacts
  <2> HIDE DEF u, t
  <2>6. ASSUME NEW l \in coming, Passed(p, t, l) PROVE Passed(p, u, l)
    <3>1. l.dh.nr \in Nat /\ l.key.n \in Nat /\ Turn(Peer(p), l.dh.nr) > 0
      <4>1. l.key \in MessageKey
        BY DEF EncryptedMessage
      <4> QED BY <4>1, KeyTypes DEF Canonical
    <3>2. l.dh.nr <= heard
      BY <2>1, <2>3, <2>6, <3>1 DEF Passed
    <3>3. s.chain_recv # None
      <4>1. s.dh_self # 0
        BY <2>1, <3>1, <3>2, FirstTurn
      <4> QED BY <2>5, <4>1
    <3>4. l.dh.nr = heard => l.key.n < m.pn
      BY <2>1, <2>3
    <3>5. u.nr \in Nat
      BY <2>1, SkipIsSound, StateTypes DEF u
    <3> QED BY <2>1, <2>2, <2>4, <3>1, <3>2, <3>3, <3>4, <3>5 DEF Passed
  <2> QED BY <2>2, <2>3, <2>6 DEF Caught, t
<1> QED BY <1>1, <1>2

\* The two ends' views of how far they are agree.
LEMMA HeardBothWays ==
    ASSUME NEW p \in Party, NEW i \in Nat, NEW j \in Nat
    PROVE  Heard(p, i) <= j <=> i <= Heard(Peer(p), j) + 1
<1>1. CASE p = "initiator"
  BY <1>1, Peers DEF Heard
<1>2. CASE p = "responder"
  BY <1>2, Peers DEF Heard
<1> QED BY <1>1, <1>2 DEF Party

\* What is delivered while all is calm comes for the first time.
LEMMA CalmDelivery ==
    ASSUME IInv, NEW p \in Party, NEW m \in sent[Peer(p)], Deliver(p, m),
           redeliveries' = 0
    PROVE  /\ redeliveries = 0 /\ m \in Coming(p)
           /\ delivered' = [delivered EXCEPT ![p] = @ \cup {m}]
BY DEF IInv, TypeOK, Deliver, Coming

\* What an end knows of the message it is handed.
LEMMA OnTrackFacts ==
    ASSUME IInv, TrackInv, Calm, NEW p \in Party, NEW m \in sent[Peer(p)], ~closed[p]
    PROVE  /\ state[p] \in RatchetState /\ RootInv(state[p]) /\ CacheInv(state[p], {})
           /\ OnTrack(p, state[p]) /\ Caught(p, state[p], Coming(p))
           /\ Coming(p) \in SUBSET EncryptedMessage
           /\ m \in EncryptedMessage /\ m.key.n \in Nat /\ m.key \in MessageKey
           /\ Canonical(Peer(p), m)
           /\ \A l \in Coming(p) : /\ Canonical(Peer(p), l)
                                   /\ l.dh.nr = m.dh.nr - 1 => l.key.n < m.pn
                                   /\ l.key = m.key => l = m
<1>1. Peer(p) \in Party /\ TypeOK
  BY PeerIsOther DEF IInv
<1>2. /\ OnTrack(p, state[p]) /\ Caught(p, state[p], Coming(p))
      /\ Counted(Peer(p), state[Peer(p)])
  BY <1>1 DEF TrackInv
<1>3. Coming(p) \subseteq sent[Peer(p)] /\ sent[Peer(p)] \subseteq EncryptedMessage
  BY <1>1 DEF Coming, TypeOK
<1>4. /\ state[p] \in RatchetState /\ RootInv(state[p]) /\ CacheInv(state[p], {})
      /\ m \in EncryptedMessage /\ m.key.n \in Nat /\ m.key \in MessageKey
  BY ReceiverFacts DEF CacheInv
<1> QED BY <1>2, <1>3, <1>4 DEF Counted

\* A message whose key is not cached is of this turn of the peer or its next.
LEMMA ComesNext ==
    ASSUME IInv, TrackInv, Calm, NEW p \in Party, NEW m \in Coming(p), ~closed[p],
           Holds(state[p], m.dh, m.key.n) = {}
    PROVE  /\ m.dh.nr \in {Heard(p, state[p].dh_self), Heard(p, state[p].dh_self) + 1}
           /\ m.dh.nr = Heard(p, state[p].dh_self) => state[p].nr <= m.key.n
<1> DEFINE s == state[p]
<1>1. /\ m \in sent[Peer(p)] /\ Peer(p) \in Party
  BY PeerIsOther DEF Coming
<1>2. /\ s \in RatchetState /\ Caught(p, s, Coming(p)) /\ Canonical(Peer(p), m)
      /\ m.key.n \in Nat
  BY <1>1, OnTrackFacts
<1>3. ~Passed(p, s, m)
  BY <1>2 DEF Caught, Holds
<1>4. m.dh.nr <= state[Peer(p)].dh_self /\ InStep(p, s, state[Peer(p)])
  BY <1>1 DEF TrackInv, Counted
<1>5. /\ s.dh_self \in Nat /\ s.nr \in Nat /\ Heard(p, s.dh_self) \in Int
      /\ state[Peer(p)].dh_self \in Nat /\ m.dh.nr \in Nat
  <2>1. state[Peer(p)] \in RatchetState
    BY <1>1 DEF IInv, TypeOK
  <2> QED BY <1>2, <2>1, StateTypes, TurnFacts DEF Canonical
<1> HIDE DEF s
<1>6. m.dh.nr = Heard(p, s.dh_self) => s.nr <= m.key.n
  BY <1>2, <1>3, <1>5 DEF Passed
<1>7. m.dh.nr \in {Heard(p, s.dh_self), Heard(p, s.dh_self) + 1}
  BY <1>3, <1>4, <1>5 DEF Passed, InStep
<1> QED BY <1>6, <1>7 DEF s

\* The part that every receiving step shares: the state v that an end arrives
\* at is on track, has caught what it is beyond, and has taken no turn or the
\* one that m announces.
LEMMA ReceivingKeepsTrack ==
    ASSUME IInv, TrackInv, Calm, NEW p \in Party, NEW m \in Coming(p), ~closed[p],
           delivered' = [delivered EXCEPT ![p] = @ \cup {m}],
           failed' = failed, UNCHANGED <<closed, sent>>,
           NEW v \in RatchetState, state' = [state EXCEPT ![p] = v],
           OnTrack(p, v), Caught(p, v, Coming(p) \ {m}),
           \/ /\ v.dh_self = state[p].dh_self
              /\ v.ns = state[p].ns /\ v.pn = state[p].pn
           \/ /\ v.dh_self = state[p].dh_self + 1
              /\ v.ns = 0 /\ v.pn = state[p].ns,
           \/ v.dh_self = state[p].dh_self /\ v.nr = state[p].nr
           \/ Heard(p, v.dh_self) = m.dh.nr /\ v.nr \in 0 .. m.key.n + 1
    PROVE  TrackInv'
<1> DEFINE s == state[p]
           q == Peer(p)
           r == state[q]
<1>1. /\ TypeOK /\ q \in Party /\ q # p /\ Peer(q) = p
      /\ \A o \in Party : o = p \/ o = q
  BY PeerIsOther DEF IInv, Party
<1>2. /\ state'[p] = v /\ state'[q] = r
      /\ delivered'[p] = delivered[p] \cup {m} /\ delivered'[q] = delivered[q]
  BY <1>1 DEF TypeOK
<1>3. /\ Counted(p, s) /\ Counted(q, r) /\ InStep(p, s, r) /\ InStep(q, r, s)
      /\ ~closed[q] => OnTrack(q, r) /\ Caught(q, r, Coming(q))
      /\ failed[p] = {} /\ failed[q] = {}
  BY <1>1 DEF TrackInv
<1>4. /\ s.dh_self \in Nat /\ r.dh_self \in Nat /\ v.dh_self \in Nat
      /\ s.nr \in Nat /\ r.nr \in Nat /\ s.ns \in Nat /\ r.ns \in Nat /\ s.pn \in Nat
      /\ Heard(p, s.dh_self) \in Int /\ Heard(q, r.dh_self) \in Int
      /\ Heard(p, s.dh_self + 1) = Heard(p, s.dh_self) + 1
  <2>1. s \in RatchetState /\ r \in RatchetState
    BY <1>1 DEF TypeOK
  <2>2. s.dh_self \in Nat /\ r.dh_self \in Nat
    BY <2>1, StateTypes
  <2> QED BY <1>1, <2>1, <2>2, StateTypes, TurnFacts
<1>5. /\ m \in sent[q] /\ m.dh.nr <= r.dh_self /\ m.dh.nr \in Nat /\ m.key.n \in Nat
      /\ m.dh.nr = r.dh_self => m.key.n < r.ns
  <2>1. m \in sent[q]
    BY DEF Coming
  <2> QED BY <2>1, <1>3, OnTrackFacts DEF Counted, Canonical
<1>6. InStep(p, v, r)
  BY <1>3, <1>4, <1>5 DEF InStep
<1>7. InStep(q, r, v)
  <2>1. v.dh_self <= Heard(q, r.dh_self) + 1
    BY <1>4, <1>6, HeardBothWays DEF InStep
  <2> QED BY <2>1, <1>3, <1>4 DEF InStep
<1>8. Counted(p, v)
  <2>1. \A l \in sent[p] : /\ Canonical(p, l) /\ l.dh.nr \in Nat
                           /\ l.dh.nr <= s.dh_self
                           /\ l.dh.nr = s.dh_self => l.key.n < s.ns
                           /\ l.dh.nr = s.dh_self - 1 => l.key.n < s.pn
    BY <1>3 DEF Counted, Canonical
  <2>2. \A l \in sent[p] : /\ l.dh.nr <= v.dh_self
                           /\ l.dh.nr = v.dh_self => l.key.n < v.ns
                           /\ l.dh.nr = v.dh_self - 1 => l.key.n < v.pn
    BY <1>4, <2>1
  <2> QED BY <1>3, <2>1, <2>2 DEF Counted
<1>9. Coming(p)' = Coming(p) \ {m} /\ Coming(q)' = Coming(q)
  BY <1>1, <1>2 DEF Coming
<1> HIDE DEF s, q, r
<1>10. Counted(p, state[p])' /\ Counted(q, state[q])'
  BY <1>2, <1>3, <1>8 DEF Counted
<1>11. Caught(p, state[p], Coming(p))' /\ OnTrack(p, state[p])'
  BY <1>2, <1>9 DEF Caught, OnTrack, Passed
<1>12. ~closed[q] => Caught(q, state[q], Coming(q))' /\ OnTrack(q, state[q])'
  BY <1>2, <1>3, <1>9 DEF Caught, OnTrack, Passed
<1>13. InStep(p, state[p], state[q])' /\ InStep(q, state[q], state[p])'
  BY <1>2, <1>6, <1>7 DEF InStep
<1>14. ASSUME NEW o \in Party
       PROVE  /\ failed'[o] = {}
              /\ Counted(o, state[o])'
              /\ InStep(o, state[o], state[Peer(o)])'
              /\ ~closed'[o] => OnTrack(o, state[o])' /\ Caught(o, state[o], Coming(o))'
  <2>1. CASE o = p
    BY <1>3, <1>10, <1>11, <1>13, <2>1 DEF q
  <2>2. CASE o = q
    BY <1>1, <1>3, <1>10, <1>12, <1>13, <2>2
  <2> QED BY <1>1, <2>1, <2>2
<1> QED BY <1>14 DEF TrackInv

\* A cached key is the message's, and no other message needs it.
LEMMA OpenSkippedKeepsTrack ==
    ASSUME IInv, TrackInv, NEW p \in Party, NEW m \in sent[Peer(p)],
           OpenSkipped(p, m), Calm'
    PROVE  TrackInv'
<1> DEFINE s == state[p]
<1>1. /\ Calm /\ ~closed[p] /\ m \in Coming(p)
      /\ delivered' = [delivered EXCEPT ![p] = @ \cup {m}]
      /\ UNCHANGED <<closed, sent>>
  <2>1. redeliveries' = 0 /\ Deliver(p, m) /\ ~evicted
    BY DEF OpenSkipped, Calm
  <2> QED BY <2>1, CalmDelivery DEF OpenSkipped, Deliver, Calm
<1>2. PICK e \in Holds(s, m.dh, m.key.n) :
         /\ state' = [state EXCEPT ![p].skipped = @ \ {e}]
         /\ Open(p, m, e.key)
  BY DEF OpenSkipped
<1> DEFINE v == [s EXCEPT !.skipped = @ \ {e}]
<1>3. /\ s \in RatchetState /\ OnTrack(p, s) /\ Caught(p, s, Coming(p))
      /\ m.key \in MessageKey /\ Canonical(Peer(p), m)
      /\ \A l \in Coming(p) : l.key = m.key => l = m
  BY <1>1, OnTrackFacts
<1>4. e \in s.skipped /\ e.dh = m.dh /\ e.key.n = m.key.n
  BY DEF Holds
<1>5. e.key = m.key
  <2>1. e.key.chain = m.key.chain
    BY <1>3, <1>4 DEF OnTrack, Canonical
  <2>2. e.key \in MessageKey
    BY <1>3, <1>4, StateTypes, KeyTypes
  <2> QED BY <1>3, <1>4, <2>1, <2>2, KeyParts
<1>6. failed' = failed /\ state' = [state EXCEPT ![p] = v]
  BY <1>2, <1>5 DEF Open
<1>7. /\ v \in RatchetState /\ v.skipped = s.skipped \ {e}
      /\ v.dh_self = s.dh_self /\ v.dh_remote = s.dh_remote /\ v.root = s.root
      /\ v.chain_send = s.chain_send /\ v.chain_recv = s.chain_recv
      /\ v.ns = s.ns /\ v.nr = s.nr /\ v.pn = s.pn
  BY <1>3 DEF RatchetState
<1> HIDE DEF v
<1>8. OnTrack(p, v)
  BY <1>3, <1>7 DEF OnTrack
<1>9. Caught(p, v, Coming(p) \ {m})
  <2> SUFFICES ASSUME NEW l \in Coming(p) \ {m}, Passed(p, v, l)
               PROVE  \E f \in v.skipped : f.dh = l.dh /\ f.key = l.key
    BY DEF Caught
  <2>1. Passed(p, s, l)
    BY <1>7 DEF Passed
  <2>2. PICK f \in s.skipped : f.dh = l.dh /\ f.key = l.key
    BY <1>3, <2>1 DEF Caught
  <2>3. f # e
    BY <1>3, <1>5, <2>2
  <2> QED BY <1>7, <2>2, <2>3
<1> HIDE DEF s
<1>10. /\ v.dh_self = state[p].dh_self /\ v.ns = state[p].ns /\ v.pn = state[p].pn
       /\ v.nr = state[p].nr
  BY <1>7 DEF s
<1> QED BY <1>1, <1>6, <1>7, <1>8, <1>9, <1>10, ReceivingKeepsTrack

\* A message refused leaves the end where it was, or one turn on.
LEMMA TooManyKeepsTrack ==
    ASSUME IInv, TrackInv, NEW p \in Party, NEW m \in sent[Peer(p)],
           TooManySkipped(p, m), Calm'
    PROVE  TrackInv'
<1> DEFINE s == state[p]
           t == Turned(p, s, m)
<1>1. /\ Calm /\ ~closed[p] /\ m \in Coming(p)
      /\ delivered' = [delivered EXCEPT ![p] = @ \cup {m}]
      /\ failed' = failed /\ UNCHANGED <<closed, sent>>
  <2>1. redeliveries' = 0 /\ Deliver(p, m) /\ ~evicted'
    BY DEF TooManySkipped, Calm
  <2>2. evicted' = evicted \/ evicted' = (evicted \/ (Turns(s, m) /\ Evicts(s, m.pn)))
    BY DEF TooManySkipped
  <2> HIDE DEF s
  <2>3. ~evicted
    BY <2>1, <2>2
  <2> QED BY <2>1, <2>3, CalmDelivery DEF TooManySkipped, Deliver, Calm
<1>2. /\ s \in RatchetState /\ RootInv(s) /\ CacheInv(s, {})
      /\ OnTrack(p, s) /\ Caught(p, s, Coming(p))
      /\ Coming(p) \in SUBSET EncryptedMessage
      /\ m \in EncryptedMessage /\ m.key.n \in Nat /\ Canonical(Peer(p), m)
      /\ \A l \in Coming(p) : /\ Canonical(Peer(p), l)
                              /\ l.dh.nr = m.dh.nr - 1 => l.key.n < m.pn
  BY <1>1, OnTrackFacts
<1>3. m.dh.nr \in {Heard(p, s.dh_self), Heard(p, s.dh_self) + 1}
  BY <1>1, ComesNext DEF TooManySkipped
<1>4. CASE state' = state
  <2>1. Caught(p, s, Coming(p) \ {m})
    BY <1>2 DEF Caught
  <2>2. state' = [state EXCEPT ![p] = s]
    BY <1>4 DEF IInv, TypeOK
  <2> QED BY <1>1, <1>2, <2>1, <2>2, ReceivingKeepsTrack
<1>5. CASE /\ state' = [state EXCEPT ![p] = t]
           /\ evicted' = (evicted \/ (Turns(s, m) /\ Evicts(s, m.pn)))
  <2>1. ~(Turns(s, m) /\ Evicts(s, m.pn))
    BY <1>5 DEF Calm
  <2>2. t \in RatchetState
    BY <1>2, TurnedIsSound
  <2>3. Caught(p, t, Coming(p))
    BY <1>2, <1>3, <2>1, TurnedCatches
  <2>4. Caught(p, t, Coming(p) \ {m})
    BY <2>3 DEF Caught
  <2>5. /\ OnTrack(p, t) /\ Heard(p, t.dh_self) = m.dh.nr
        /\ Turns(s, m) => /\ t.dh_self = s.dh_self + 1
                          /\ t.ns = 0 /\ t.nr = 0 /\ t.pn = s.ns
    BY <1>2, <1>3, TurnedStaysOnTrack
  <2>6. ~Turns(s, m) => t = s
    BY DEF Turned
  <2> HIDE DEF t
  <2>7. \/ t.dh_self = s.dh_self /\ t.ns = s.ns /\ t.pn = s.pn
        \/ t.dh_self = s.dh_self + 1 /\ t.ns = 0 /\ t.pn = s.ns
    BY <2>5, <2>6
  <2>8. \/ t.dh_self = s.dh_self /\ t.nr = s.nr
        \/ Heard(p, t.dh_self) = m.dh.nr /\ t.nr \in 0 .. m.key.n + 1
    BY <1>2, <2>5, <2>6
  <2> QED BY <1>1, <1>5, <2>2, <2>4, <2>5, <2>7, <2>8, ReceivingKeepsTrack
<1> QED BY <1>4, <1>5 DEF TooManySkipped

\* The next key derived is the message's.
LEMMA OpenNextKeepsTrack ==
    ASSUME IInv, TrackInv, NEW p \in Party, NEW m \in sent[Peer(p)],
           OpenNext(p, m), Calm'
    PROVE  TrackInv'
<1> DEFINE s == state[p]
           t == Turned(p, s, m)
           u == Skip(t, m.key.n)
           v == [u EXCEPT !.nr = @ + 1]
<1>1. /\ Calm /\ ~closed[p] /\ m \in Coming(p)
      /\ delivered' = [delivered EXCEPT ![p] = @ \cup {m}]
      /\ UNCHANGED <<closed, sent>>
  <2>1. redeliveries' = 0 /\ Deliver(p, m) /\ ~evicted
    BY DEF OpenNext, Calm
  <2> QED BY <2>1, CalmDelivery DEF OpenNext, Deliver, Calm
<1>2. /\ s \in RatchetState /\ RootInv(s) /\ CacheInv(s, {})
      /\ OnTrack(p, s) /\ Caught(p, s, Coming(p))
      /\ Coming(p) \in SUBSET EncryptedMessage
      /\ m \in EncryptedMessage /\ m.key.n \in Nat /\ m.key \in MessageKey
      /\ Canonical(Peer(p), m)
      /\ \A l \in Coming(p) : /\ Canonical(Peer(p), l)
                              /\ l.dh.nr = m.dh.nr - 1 => l.key.n < m.pn
                              /\ l.key = m.key => l = m
  BY <1>1, OnTrackFacts
<1>3. /\ m.dh.nr \in {Heard(p, s.dh_self), Heard(p, s.dh_self) + 1}
      /\ m.dh.nr = Heard(p, s.dh_self) => s.nr <= m.key.n
  BY <1>1, ComesNext DEF OpenNext
<1>4. /\ state' = [state EXCEPT ![p] = v]
      /\ Open(p, m, [chain |-> u.chain_recv, n |-> u.nr])
      /\ ~(Turns(s, m) /\ Evicts(s, m.pn)) /\ ~Evicts(t, m.key.n)
  BY DEF OpenNext, Calm
<1>5. t \in RatchetState /\ RootInv(t) /\ CacheInv(t, {})
  BY <1>2, TurnedIsSound
<1>6. Caught(p, t, Coming(p))
  BY <1>2, <1>3, <1>4, TurnedCatches
<1>7. /\ OnTrack(p, t) /\ Heard(p, t.dh_self) = m.dh.nr
      /\ t.chain_recv = m.key.chain /\ t.chain_recv # None
      /\ Turns(s, m) <=> m.dh.nr # Heard(p, s.dh_self)
      /\ Turns(s, m) => /\ t.dh_self = s.dh_self + 1
                        /\ t.ns = 0 /\ t.nr = 0 /\ t.pn = s.ns
  BY <1>2, <1>3, TurnedStaysOnTrack
<1>8. ~Turns(s, m) => t = s
  BY DEF Turned
<1> HIDE DEF s, t
<1>9. t.nr \in Nat /\ t.nr <= m.key.n
  BY <1>2, <1>3, <1>5, <1>7, <1>8, StateTypes
<1>10. /\ u \in RatchetState /\ OnTrack(p, u) /\ Caught(p, u, Coming(p))
       /\ u.dh_self = t.dh_self /\ u.chain_recv = m.key.chain
       /\ u.ns = t.ns
  BY <1>2, <1>4, <1>5, <1>6, <1>7, SkipIsSound, SkipStaysOnTrack, SkipCatches
<1>11. u.nr = m.key.n /\ u.pn = t.pn
  <2>1. CASE m.key.n <= t.nr
    BY <1>2, <1>9, <2>1 DEF Skip
  <2>2. CASE ~(m.key.n <= t.nr)
    <3>1. u = [t EXCEPT !.skipped = Evict(WithSkipped(t, m.key.n)), !.nr = m.key.n]
      BY <1>7, <2>2 DEF Skip
    <3> QED BY <1>5, <3>1 DEF RatchetState
  <2> QED BY <2>1, <2>2
<1> HIDE DEF u
<1>12. failed' = failed
  <2>1. [chain |-> u.chain_recv, n |-> u.nr] = m.key
    BY <1>2, <1>10, <1>11, KeyParts
  <2> QED BY <1>4, <2>1 DEF Open
<1>13. /\ v \in RatchetState /\ v.skipped = u.skipped
       /\ v.dh_self = u.dh_self /\ v.dh_remote = u.dh_remote /\ v.root = u.root
       /\ v.chain_send = u.chain_send /\ v.chain_recv = u.chain_recv
       /\ v.ns = u.ns /\ v.nr = m.key.n + 1 /\ v.pn = u.pn
  BY <1>10, <1>11 DEF RatchetState
<1> HIDE DEF v
<1>14. OnTrack(p, v)
  BY <1>10, <1>13 DEF OnTrack
<1>15. Caught(p, v, Coming(p) \ {m})
  <2> SUFFICES ASSUME NEW l \in Coming(p) \ {m}, Passed(p, v, l) PROVE Passed(p, u, l)
    BY <1>10, <1>13 DEF Caught
  <2>1. /\ l.key \in MessageKey /\ l.key.n \in Nat /\ l \in EncryptedMessage
        /\ Canonical(Peer(p), l) /\ l.key # m.key
    BY <1>2, KeyTypes DEF EncryptedMessage
  <2>2. l.dh.nr = m.dh.nr => l.key.chain = m.key.chain
    BY <1>2, <2>1 DEF Canonical
  <2>3. l.dh.nr = m.dh.nr => l.key.n # m.key.n
    BY <1>2, <2>1, <2>2, KeyParts
  <2> QED BY <1>2, <1>7, <1>10, <1>11, <1>13, <2>1, <2>3 DEF Passed
<1>16. /\ \/ v.dh_self = s.dh_self /\ v.ns = s.ns /\ v.pn = s.pn
          \/ v.dh_self = s.dh_self + 1 /\ v.ns = 0 /\ v.pn = s.ns
       /\ Heard(p, v.dh_self) = m.dh.nr /\ v.nr \in 0 .. m.key.n + 1
  BY <1>2, <1>7, <1>8, <1>10, <1>11, <1>13
<1> QED BY <1>1, <1>4, <1>12, <1>13, <1>14, <1>15, <1>16, ReceivingKeepsTrack DEF s

\* A message sent is the next of the current turn.
LEMMA SendKeepsTrack ==
    ASSUME IInv, TrackInv, NEW p \in Party, Send(p), Calm'
    PROVE  TrackInv'
<1> DEFINE s == state[p]
           q == Peer(p)
           r == state[q]
           m == Message(p)
           v == [s EXCEPT !.ns = @ + 1]
<1>1. /\ TypeOK /\ q \in Party /\ q # p /\ Peer(q) = p
      /\ \A o \in Party : o = p \/ o = q
  BY PeerIsOther DEF IInv, Party
<1>2. /\ Calm /\ ~closed[p] /\ s.chain_send # None
      /\ UNCHANGED <<closed, delivered, failed>>
  BY DEF Send, Calm
<1>3. /\ Counted(p, s) /\ Counted(q, r) /\ InStep(p, s, r) /\ InStep(q, r, s)
      /\ OnTrack(p, s) /\ Caught(p, s, Coming(p))
      /\ ~closed[q] => OnTrack(q, r) /\ Caught(q, r, Coming(q))
      /\ failed[p] = {} /\ failed[q] = {}
  BY <1>1, <1>2 DEF TrackInv
<1>4. /\ s \in RatchetState /\ RootInv(s)
      /\ s.dh_self \in Nat /\ s.ns \in Nat /\ s.pn \in Nat
      /\ r.dh_self \in Nat /\ r.nr \in Nat
  <2>1. s \in RatchetState /\ r \in RatchetState
    BY <1>1 DEF TypeOK
  <2> QED BY <1>2, <2>1, StateTypes DEF IInv, EndInv
<1>5. /\ m.dh = Pub(p, s.dh_self) /\ m.dh.of = p /\ m.dh.nr = s.dh_self
      /\ m.pn = s.pn /\ m.key.n = s.ns /\ m.key.chain = Canon(Turn(p, s.dh_self))
      /\ Canonical(p, m)
  <2>1. Turn(p, s.dh_self) > 0 /\ s.chain_send = Canon(Turn(p, s.dh_self))
    BY <1>2, <1>3, <1>4 DEF OnTrack, RootInv
  <2>2. m = [dh |-> Pub(p, s.dh_self), pn |-> s.pn,
             key |-> [chain |-> s.chain_send, n |-> s.ns]]
    BY DEF Message
  <2> HIDE DEF m
  <2>3. /\ m.dh = Pub(p, s.dh_self) /\ m.dh.of = p /\ m.dh.nr = s.dh_self
        /\ m.pn = s.pn /\ m.key.n = s.ns /\ m.key.chain = s.chain_send
    BY <2>2 DEF Pub
  <2> QED BY <1>4, <2>1, <2>3 DEF Canonical
<1>6. /\ v.dh_self = s.dh_self /\ v.dh_remote = s.dh_remote /\ v.root = s.root
      /\ v.chain_send = s.chain_send /\ v.chain_recv = s.chain_recv
      /\ v.skipped = s.skipped
      /\ v.ns = s.ns + 1 /\ v.nr = s.nr /\ v.pn = s.pn
  BY <1>4 DEF RatchetState
<1>7. /\ state'[p] = v /\ state'[q] = r
      /\ sent'[p] = sent[p] \cup {m} /\ sent'[q] = sent[q]
  BY <1>1 DEF Send, TypeOK
<1> HIDE DEF m, v
<1>8. InStep(p, v, r) /\ InStep(q, r, v)
  BY <1>3, <1>4, <1>6 DEF InStep
<1>9. Counted(p, state[p])'
  <2>1. ASSUME NEW l \in sent[p]
        PROVE  /\ Canonical(p, l) /\ l.dh.nr \in Nat /\ l.key.n \in Nat
               /\ l.dh.nr <= s.dh_self
               /\ l.dh.nr = s.dh_self => l.key.n < s.ns
               /\ l.dh.nr = s.dh_self - 1 => l.key.n < s.pn
               /\ l.key.chain = Canon(Turn(p, l.dh.nr))
    <3>1. l.key \in MessageKey
      BY <1>1 DEF TypeOK, EncryptedMessage
    <3> QED BY <1>3, <3>1, KeyTypes DEF Counted, Canonical
  <2>2. ASSUME NEW l \in sent[p] PROVE l.key # m.key
    <3>1. CASE l.dh.nr = s.dh_self
      BY <1>4, <1>5, <2>1, <3>1
    <3>2. CASE l.dh.nr # s.dh_self
      <4>1. Turn(p, l.dh.nr) \in Nat /\ Turn(p, s.dh_self) \in Nat
        BY <1>4, <2>1, TurnFacts
      <4>2. Turn(p, l.dh.nr) # Turn(p, s.dh_self)
        BY <1>4, <2>1, <3>2, TurnsDiffer
      <4>3. l.key.chain # m.key.chain
        BY <1>5, <2>1, <4>1, <4>2, CanonsDiffer
      <4> QED BY <4>3
    <3> QED BY <3>1, <3>2
  <2>3. \A l \in sent'[p] : /\ Canonical(p, l)
                            /\ l.dh.nr <= v.dh_self
                            /\ l.dh.nr = v.dh_self => l.key.n < v.ns
                            /\ l.dh.nr = v.dh_self - 1 => l.key.n < v.pn
    BY <1>4, <1>5, <1>6, <1>7, <2>1
  <2>4. \A l, k \in sent'[p] : /\ l.dh.nr = k.dh.nr - 1 => l.key.n < k.pn
                               /\ l.key = k.key => l = k
    <3>1. \A l, k \in sent[p] : /\ l.dh.nr = k.dh.nr - 1 => l.key.n < k.pn
                                /\ l.key = k.key => l = k
      BY <1>3 DEF Counted
    <3>2. \A l \in sent[p] : /\ l.dh.nr = m.dh.nr - 1 => l.key.n < m.pn
                             /\ m.dh.nr # l.dh.nr - 1
                             /\ l.key # m.key
      BY <1>4, <1>5, <2>1, <2>2
    <3>3. m.dh.nr # m.dh.nr - 1
      BY <1>4, <1>5
    <3> QED BY <1>7, <3>1, <3>2, <3>3
  <2> QED BY <1>7, <2>3, <2>4 DEF Counted, Canonical
<1>10. Counted(q, state[q])'
  BY <1>3, <1>7 DEF Counted, Canonical
<1>11. InStep(p, state[p], state[q])' /\ InStep(q, state[q], state[p])'
  BY <1>7, <1>8 DEF InStep
<1>12. OnTrack(p, state[p])' /\ Caught(p, state[p], Coming(p))'
  <2>1. Coming(p)' = Coming(p)
    BY <1>2, <1>7 DEF Coming
  <2> QED BY <1>3, <1>6, <1>7, <2>1 DEF OnTrack, Caught, Passed
<1>13. ~closed[q] => OnTrack(q, state[q])' /\ Caught(q, state[q], Coming(q))'
  <2>1. Coming(q)' \subseteq Coming(q) \cup {m}
    BY <1>1, <1>2, <1>7 DEF Coming
  <2>2. ~Passed(q, r, m)
    <3>1. Heard(q, r.dh_self) \in Int
      BY <1>1, <1>4, TurnFacts
    <3> QED BY <1>3, <1>4, <1>5, <3>1 DEF Passed, InStep
  <2> QED BY <1>3, <1>7, <2>1, <2>2 DEF OnTrack, Caught, Passed
<1> HIDE DEF s, q, r
<1>14. ASSUME NEW o \in Party
       PROVE  /\ failed'[o] = {}
              /\ Counted(o, state[o])'
              /\ InStep(o, state[o], state[Peer(o)])'
              /\ ~closed'[o] => OnTrack(o, state[o])' /\ Caught(o, state[o], Coming(o))'
  <2>1. CASE o = p
    BY <1>2, <1>3, <1>9, <1>11, <1>12, <2>1 DEF q
  <2>2. CASE o = q
    BY <1>1, <1>2, <1>3, <1>10, <1>11, <1>13, <2>2
  <2> QED BY <1>1, <2>1, <2>2
<1> QED BY <1>14 DEF TrackInv

\* Closing forgets keys and no number.
LEMMA CloseKeepsTrack ==
    ASSUME IInv, TrackInv, NEW p \in Party, Close(p), Calm'
    PROVE  TrackInv'
<1> DEFINE v == [state[p] EXCEPT !.root = None, !.chain_send = None,
                                 !.chain_recv = None, !.skipped = {}]
<1>1. /\ TypeOK /\ Calm /\ state[p] \in RatchetState
      /\ UNCHANGED <<sent, delivered, failed>>
  BY DEF IInv, TypeOK, Close, Calm
<1>2. /\ v.dh_self = state[p].dh_self /\ v.ns = state[p].ns /\ v.nr = state[p].nr
      /\ v.pn = state[p].pn
  BY <1>1 DEF RatchetState
<1>3. state' = [state EXCEPT ![p] = v] /\ closed' = [closed EXCEPT ![p] = TRUE]
  BY DEF Close
<1> HIDE DEF v
<1>4. ASSUME NEW o \in Party
      PROVE  /\ state'[o].dh_self = state[o].dh_self /\ state'[o].ns = state[o].ns
             /\ state'[o].nr = state[o].nr /\ state'[o].pn = state[o].pn
             /\ ~closed'[o] => ~closed[o] /\ state'[o] = state[o]
  BY <1>1, <1>2, <1>3 DEF TypeOK
<1>5. ASSUME NEW o \in Party
      PROVE  /\ failed'[o] = {}
             /\ Counted(o, state[o])'
             /\ InStep(o, state[o], state[Peer(o)])'
             /\ ~closed'[o] => OnTrack(o, state[o])' /\ Caught(o, state[o], Coming(o))'
  <2>1. /\ failed[o] = {} /\ Counted(o, state[o]) /\ InStep(o, state[o], state[Peer(o)])
        /\ ~closed[o] => OnTrack(o, state[o]) /\ Caught(o, state[o], Coming(o))
    BY <1>1 DEF TrackInv
  <2>2. Counted(o, state[o])'
    BY <1>1, <1>4, <2>1 DEF Counted, Canonical
  <2>3. InStep(o, state[o], state[Peer(o)])'
    BY <1>4, <2>1, PeerIsOther DEF InStep
  <2>4. ~closed'[o] => OnTrack(o, state[o])' /\ Caught(o, state[o], Coming(o))'
    BY <1>1, <1>4, <2>1 DEF OnTrack, Caught, Passed, Coming
  <2> QED BY <1>1, <2>1, <2>2, <2>3, <2>4
<1> QED BY <1>5 DEF TrackInv

LEMMA InitTrackInv == Init => TrackInv
<1> SUFFICES ASSUME Init PROVE TrackInv
  OBVIOUS
<1>1. Canon(1) = << {Pub("initiator", 0), Pub("responder", 0)} >> /\ Canon(0) = << >>
  BY DEF Canon, Output
<1>2. /\ Turn("initiator", 0) = 1 /\ Turn("responder", 0) = 0
      /\ Heard("initiator", 0) = 0 /\ Heard("responder", 0) = -1
  BY DEF Turn, Heard
<1>3. state["initiator"] = InitSender /\ state["responder"] = InitReceiver
  BY DEF Init, Party
<1>4. \A p \in Party : /\ sent[p] = {} /\ failed[p] = {} /\ Peer(p) \in Party
                       /\ sent[Peer(p)] = {}
  BY PeerIsOther DEF Init
<1>5. OnTrack("initiator", InitSender)
  BY <1>1, <1>2, Peers DEF OnTrack, InitSender
<1>6. OnTrack("responder", InitReceiver)
  BY <1>1, <1>2, Peers DEF OnTrack, InitReceiver
<1>7. InStep("initiator", InitSender, InitReceiver)
      /\ InStep("responder", InitReceiver, InitSender)
  BY <1>2 DEF InStep, InitSender, InitReceiver
<1>8. \A p \in Party : Counted(p, state[p]) /\ Caught(p, state[p], Coming(p))
  BY <1>4 DEF Counted, Caught, Coming
<1> QED BY <1>3, <1>4, <1>5, <1>6, <1>7, <1>8, Peers DEF TrackInv, Party

LEMMA TrackIsKept == IInv /\ TrackInv /\ [Next]_vars => TrackInv'
<1> SUFFICES ASSUME IInv, TrackInv, [Next]_vars, Calm' PROVE TrackInv'
  BY DEF TrackInv
<1>1. CASE UNCHANGED vars
  BY <1>1 DEF vars, TrackInv, Calm, Counted, Canonical, InStep, OnTrack, Caught,
              Passed, Coming
<1>2. ASSUME NEW p \in Party, Send(p) PROVE TrackInv'
  BY <1>2, SendKeepsTrack
<1>3. ASSUME NEW p \in Party, Receive(p) PROVE TrackInv'
  BY <1>3, OpenSkippedKeepsTrack, OpenNextKeepsTrack, TooManyKeepsTrack DEF Receive
<1>4. ASSUME NEW p \in Party, Close(p) PROVE TrackInv'
  BY <1>4, CloseKeepsTrack
<1> QED BY <1>1, <1>2, <1>3, <1>4 DEF Next

-----------------------------------------------------------------------------
(* The theorems. *)

\* The types of both ends, whatever the transport does.
THEOREM TypeCorrect == Spec => []TypeOK
<1>1. IInv => TypeOK
  BY DEF IInv
<1> QED BY <1>1, Invariance, PTL

\* Forward secrecy. The parities keep the two directions apart.
THEOREM ForwardSecrecy == Spec => []KeysAreForgotten
<1>1. ASSUME IInv, NEW p \in Party, NEW m \in sent[p] \cup opened[p]
      PROVE  ~Yields(state[p], m.key)
  <2> DEFINE s == state[p]
             k == m.key
  <2>1. TypeOK /\ s \in RatchetState /\ EndInv(p) /\ Peer(p) \in Party
    BY <1>1, PeerIsOther DEF IInv, TypeOK
  <2>2. k \in MessageKey /\ k.chain \in Root /\ k.n \in Nat /\ Len(k.chain) \in Nat
        /\ k.chain # None
    BY <2>1, KeyTypes, NoneAssumption DEF TypeOK, EncryptedMessage
  <2>3. CASE closed[p]
    BY <2>1, <2>2, <2>3 DEF EndInv, Yields
  <2>4. CASE ~closed[p]
    <3>1. /\ RootInv(s) /\ CacheInv(s, Keys(opened[p]))
          /\ \A l \in sent[p] : SentBefore(s, l.key)
      BY <2>1, <2>4 DEF EndInv
    <3>2. s.ns \in Nat /\ s.nr \in Nat /\ Len(s.root) \in Nat
      BY <2>1, <3>1, StateTypes, KeyTypes DEF RootInv
    <3>3. CASE m \in sent[p]
      <4>1. SentBefore(s, k)
        BY <3>1, <3>3
      <4>2. (Len(s.root) - Len(k.chain)) % 2 = 0
        BY <4>1 DEF SentBefore
      <4>3. ~(s.chain_send = k.chain /\ k.n >= s.ns)
        BY <2>2, <3>2, <4>1 DEF SentBefore
      <4>4. s.chain_recv # k.chain
        <5>1. CASE s.chain_recv = k.chain
          <6>1. Len(s.root) = Len(k.chain) + 1
            BY <2>2, <3>1, <5>1 DEF RootInv
          <6>2. (Len(s.root) - Len(k.chain)) % 2 # 0
            BY <2>2, <3>2, <6>1, OneIsOdd
          <6> QED BY <4>2, <6>2
        <5> QED BY <5>1
      <4>5. \A e \in s.skipped : e.key # k
        <5>1. ~ReceivedBefore(s, k)
          <6> DEFINE parity == (Len(s.root) - Len(k.chain)) % 2
          <6>1. ReceivedBefore(s, k) => parity = 1
            BY DEF ReceivedBefore
          <6>2. parity = 0
            BY <4>2
          <6> HIDE DEF parity
          <6> QED BY <6>1, <6>2
        <5> QED BY <3>1, <5>1 DEF CacheInv
      <4> QED BY <4>3, <4>4, <4>5 DEF Yields
    <3>4. CASE m \in opened[p]
      <4>1. k \in Keys(opened[p])
        BY <3>4 DEF Keys
      <4>2. ReceivedBefore(s, k)
        BY <3>1, <4>1 DEF CacheInv
      <4>3. ~(s.chain_recv = k.chain /\ k.n >= s.nr)
        BY <2>2, <3>2, <4>2 DEF ReceivedBefore
      <4>4. s.chain_send # k.chain
        BY <2>2, <3>1, <3>2, <4>2 DEF RootInv, ReceivedBefore
      <4>5. \A e \in s.skipped : e.key # k
        BY <3>1, <4>1 DEF CacheInv
      <4> QED BY <4>3, <4>4, <4>5 DEF Yields
    <3> QED BY <3>3, <3>4
  <2> QED BY <2>3, <2>4
<1>2. IInv => KeysAreForgotten
  BY <1>1 DEF KeysAreForgotten
<1> QED BY <1>2, Invariance, PTL

\* The cache keeps its cap, whatever is skipped, turned and delivered again.
THEOREM CacheIsCapped == Spec => []SkippedIsCapped
<1> DEFINE AllPlaced == \A p \in Party : Placed(state[p])
<1>1. Init => AllPlaced
  <2>1. Init => \A p \in Party : state[p].skipped = {}
    BY DEF Init, InitSender, InitReceiver
  <2>2. IsFiniteSet({}) /\ Cardinality({}) <= MAX_SKIPPED_KEYS_TOTAL
    BY FS_EmptySet, BoundsAssumption
  <2> QED BY <2>1, <2>2 DEF Placed
<1>2. IInv /\ AllPlaced /\ [Next]_vars => AllPlaced'
  BY PlacesAreKept
<1>3. AllPlaced => SkippedIsCapped
  BY DEF Placed, SkippedIsCapped
<1> HIDE DEF AllPlaced
<1> QED BY <1>1, <1>2, <1>3, Invariance, PTL DEF Spec

\* Messages decrypt in any order. The two ends take the same turns, one at a
\* time; a message that is handed over has its key in the cache, or is of the
\* current turn or the next and not behind the number reached there.
THEOREM AnyOrderIsDecrypted == Spec => []AnyOrderDecrypts
<1>1. TrackInv => AnyOrderDecrypts
  BY DEF TrackInv, AnyOrderDecrypts, Calm
<1> QED BY <1>1, InitTrackInv, TrackIsKept, Invariance, PTL DEF Spec

\* Every step of the session is one of the channel or changes nothing there.
THEOREM SessionImplementsChannel == Spec => ImplementsChannel
<1>1. Init => Channel!Init
  BY DEF Init, Channel!Init, Channel!Ends
<1>2. ASSUME IInv, [Next]_vars PROVE [Channel!Next]_Channel!channel
  <2>1. TypeOK /\ Channel!Ends = Party
    BY <1>2 DEF IInv, TypeOK, Channel!Ends
  <2>2. CASE UNCHANGED vars
    BY <2>2 DEF vars, Channel!channel
  <2>3. ASSUME NEW p \in Party, Send(p) PROVE Channel!Next
    <3>1. \A q \in Party : Message(p) \notin sent[q]
      BY <1>2, <2>3, SendKeepsIInv
    <3>2. Message(p) \in sent'[p]
      BY <2>1, <2>3 DEF Send, TypeOK
    <3>3. Channel!Send(p, Message(p))
      BY <2>1, <2>3, <3>1 DEF Channel!Send, Send
    <3> QED BY <2>1, <3>2, <3>3 DEF Channel!Next, Channel!Step
  <2>4. ASSUME NEW p \in Party, Receive(p) PROVE [Channel!Next]_Channel!channel
    <3>1. PICK m \in sent[Peer(p)] :
             OpenSkipped(p, m) \/ TooManySkipped(p, m) \/ OpenNext(p, m)
      BY <2>4 DEF Receive
    <3>2. ChannelReceives(p, m)
      BY <1>2, <3>1, OpenSkippedKeepsIInv, OpenNextKeepsIInv, TooManyKeepsIInv
    <3>3. ~closed[p] /\ UNCHANGED <<sent, closed>>
      BY <3>1 DEF OpenSkipped, TooManySkipped, OpenNext, Deliver
    <3>4. CASE opened' = opened /\ message_count' = message_count
      BY <3>3, <3>4 DEF Channel!channel
    <3>5. CASE /\ m \notin opened[p]
               /\ opened' = [opened EXCEPT ![p] = @ \cup {m}]
               /\ message_count' = [message_count EXCEPT ![p] = @ + 1]
      <4>1. Peer(p) \in Party \ {p}
        BY PeerIsOther
      <4>2. Channel!Receive(p, m)
        BY <2>1, <3>3, <3>5, <4>1 DEF Channel!Receive
      <4> QED BY <2>1, <4>1, <4>2 DEF Channel!Next, Channel!Step
    <3> QED BY <3>2, <3>4, <3>5 DEF ChannelReceives
  <2>5. ASSUME NEW p \in Party, Close(p) PROVE Channel!Next
    <3>1. Channel!Close(p)
      BY <2>1, <2>5 DEF Channel!Close, Close
    <3> QED BY <2>1, <3>1 DEF Channel!Next, Channel!Step
  <2> QED BY <1>2, <2>2, <2>3, <2>4, <2>5 DEF Next
<1> QED BY <1>1, <1>2, Invariance, PTL DEF Spec, ImplementsChannel, Channel!Spec
=============================================================================
