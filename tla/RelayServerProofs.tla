-------------------------- MODULE RelayServerProofs --------------------------
(***************************************************************************)
(* Proofs about RelayServer, for every number of senders, sockets, messages *)
(* and lost links: its types, what is registered, and that it implements   *)
(* Mailbox. For that, everything on its way to the agent must be a message *)
(* some handler is done with (OnlyHandled).                                *)
(***************************************************************************)
EXTENDS RelayServer, TLAPS

\* What each variable ranges over: the simple part of the type invariant.
Types ==
    /\ registered \in Sockets \cup {None}
    /\ task \in [Sockets -> {"new", "replacing", "pushing", "serving", "over"}]
    /\ open \in [Sockets -> BOOLEAN]
    /\ stale \in [Sockets -> BOOLEAN]
    /\ push \in [Sockets -> SUBSET Message]
    /\ inbox \subseteq Message
    /\ sent \in [Senders -> 0..MaxSent]
    /\ sending \in [Senders -> Sockets \cup {None}]
    /\ link \in [Sockets -> [up : BOOLEAN, wire : Seq(Message)]]
    /\ received \subseteq Message
    /\ routed \subseteq Message
    /\ drops \in 0..MaxDrops

\* What the type invariant says beyond the ranges.
Busy ==
    /\ \A c \in Sockets : push[c] # {} <=> task[c] = "pushing"
    /\ \A s \in Senders : sending[s] # None => sent[s] > 0
    /\ \A c \in Sockets : IF link[c].up THEN task[c] # "new" ELSE link[c].wire = <<>>

\* A stored message stays in the inbox until the agent has received it, however
\* often it reconnects and however its sockets break: what a handler is done
\* with was received, is stored, or was handed to a live socket.
NothingStoredIsLost == Handled \subseteq inbox \cup received \cup routed

\* Everything on its way to the agent, and everything that arrived, is a message
\* that some handler is done with.
OnlyHandled ==
    /\ inbox \cup received \cup routed \subseteq Handled
    /\ \A c \in Sockets :
          /\ push[c] \subseteq Handled
          /\ \A i \in 1..Len(link[c].wire) : link[c].wire[i] \in Handled

\* The registered socket is one whose handler runs: no handler ends, in any
\* order of replacements and failures, and leaves its entry behind.
RegisteredIsServed ==
    registered # None => task[registered] \in {"pushing", "serving"}

IInv == TypeOK /\ NothingStoredIsLost /\ OnlyHandled /\ RegisteredIsServed

\* The type invariant has these two parts.
LEMMA TypeParts == TypeOK <=> Types /\ Busy
BY DEF TypeOK, Types, Busy

\* The initial states satisfy the inductive invariant.
LEMMA InitIInv == Init => IInv
<1> SUFFICES ASSUME Init PROVE IInv
  OBVIOUS
<1>1. TypeOK
  BY BoundsAssumption DEF Init, TypeOK
<1>2. Handled = {}
  BY DEF Init, Handled, Message
<1>3. OnlyHandled
  BY DEF Init, OnlyHandled
<1> QED BY <1>1, <1>2, <1>3 DEF Init, IInv, NothingStoredIsLost, RegisteredIsServed

\* The number of a message under way is a message's, once the type is known.
LEMMA LatestIsMessage ==
    ASSUME TypeOK, NEW s \in Senders, sending[s] # None
    PROVE  Latest(s) \in Message
BY BoundsAssumption DEF TypeOK, Latest, Message

\* A frame that is sent, or not, keeps the type of the transport.
LEMMA TransmitKeepsLinks ==
    ASSUME TypeOK, NEW c \in Sockets, NEW m \in Message, Transmit(c, m)
    PROVE  /\ link' \in [Sockets -> [up : BOOLEAN, wire : Seq(Message)]]
           /\ \A d \in Sockets :
                 /\ link'[d].up = link[d].up
                 /\ ~link[d].up => link'[d].wire = link[d].wire
<1>1. /\ link \in [Sockets -> [up : BOOLEAN, wire : Seq(Message)]]
      /\ link[c].wire \in Seq(Message)
  BY DEF TypeOK
<1>2. Append(link[c].wire, m) \in Seq(Message)
  BY <1>1
<1> DEFINE w == IF link[c].up THEN Append(link[c].wire, m) ELSE link[c].wire
<1>3. w \in Seq(Message) /\ (~link[c].up => w = link[c].wire)
  BY <1>1, <1>2
<1>4. link' = [link EXCEPT ![c].wire = w]
  BY DEF Transmit
<1> HIDE DEF w
<1> QED BY <1>1, <1>3, <1>4

\* A socket that is accepted changes no frame on the way.
LEMMA AcceptKeepsLinks ==
    ASSUME TypeOK, NEW c \in Sockets, Accept(c)
    PROVE  /\ link' \in [Sockets -> [up : BOOLEAN, wire : Seq(Message)]]
           /\ link'[c].up
           /\ \A d \in Sockets :
                 /\ link'[d].wire = link[d].wire
                 /\ d # c => link'[d].up = link[d].up
<1>1. /\ link \in [Sockets -> [up : BOOLEAN, wire : Seq(Message)]]
      /\ link[c].wire \in Seq(Message)
  BY DEF TypeOK
<1> DEFINE l == [link[c] EXCEPT !.up = TRUE]
<1>2. link' = [link EXCEPT ![c] = l]
  BY DEF Accept
<1>3. link[c] \in [up : BOOLEAN, wire : Seq(Message)]
  BY <1>1
<1>4. l \in [up : BOOLEAN, wire : Seq(Message)] /\ l.up /\ l.wire = link[c].wire
  BY <1>3
<1> HIDE DEF l
<1> QED BY <1>1, <1>2, <1>4

\* Every step keeps the type invariant.
LEMMA TypeStep == TypeOK /\ [Next]_vars => TypeOK'
<1> SUFFICES ASSUME TypeOK, [Next]_vars PROVE Types' /\ Busy'
  BY DEF TypeOK, Types, Busy
<1> USE DEF relay, client
<1>0. Types /\ Busy
  BY TypeParts
<1>1. ASSUME NEW c \in Sockets, Connect(c) PROVE Types' /\ Busy'
  <2>1. Accept(c)
    BY <1>1 DEF Connect
  <2>2. Types'
    BY <1>0, <1>1, <2>1, AcceptKeepsLinks DEF Connect, Accept, Enroll, Types
  <2>3. Busy'
    BY <1>0, <1>1, <2>1, AcceptKeepsLinks DEF Connect, Accept, Enroll, Types, Busy
  <2> QED BY <2>2, <2>3
<1>2. ASSUME NEW c \in Sockets, Replace(c) PROVE Types' /\ Busy'
  <2>1. Accept(c)
    BY <1>2 DEF Replace
  <2>2. Types'
    BY <1>0, <1>2, <2>1, AcceptKeepsLinks DEF Replace, Accept, Types
  <2>3. Busy'
    BY <1>0, <1>2, <2>1, AcceptKeepsLinks DEF Replace, Accept, Types, Busy
  <2> QED BY <2>2, <2>3
<1>3. ASSUME NEW c \in Sockets, Register(c) PROVE Types' /\ Busy'
  BY <1>0, <1>3 DEF Register, Enroll, Types, Busy
<1>4. ASSUME NEW c \in Sockets, NEW m \in Message, Push(c, m) PROVE Types' /\ Busy'
  <2>1. Transmit(c, m)
    BY <1>4 DEF Push
  <2>2. Types'
    BY <1>0, <1>4, <2>1, TransmitKeepsLinks DEF Push, Types
  <2>3. Busy'
    BY <1>0, <1>4, <2>1, TransmitKeepsLinks DEF Push, Types, Busy
  <2> QED BY <2>2, <2>3
<1>5. ASSUME NEW c \in Sockets, PushFails(c) PROVE Types' /\ Busy'
  BY <1>0, <1>5 DEF PushFails, Types, Busy
<1>6. ASSUME NEW c \in Sockets, NEW m \in Message, Ack(c, m) PROVE Types' /\ Busy'
  BY <1>0, <1>6 DEF Ack, Types, Busy
<1>7. ASSUME NEW c \in Sockets, Heartbeat(c) PROVE Types' /\ Busy'
  BY <1>0, <1>7 DEF Heartbeat, Types, Busy
<1>8. ASSUME NEW c \in Sockets, Disconnect(c) PROVE Types' /\ Busy'
  BY <1>0, <1>8 DEF Disconnect, Types, Busy
<1>9. ASSUME NEW c \in Sockets, DisconnectRaises(c) PROVE Types' /\ Busy'
  BY <1>0, <1>9 DEF DisconnectRaises, Types, Busy
<1>10. ASSUME NEW c \in Sockets, End(c) PROVE Types' /\ Busy'
  BY <1>0, <1>10 DEF End, Types, Busy
<1>11. ASSUME NEW c \in Sockets, GoStale(c) PROVE Types' /\ Busy'
  BY <1>0, <1>11 DEF GoStale, Types, Busy
<1>12. ASSUME NEW c \in Sockets, Receive(c) PROVE Types' /\ Busy'
  <2>1. /\ link[c].wire \in Seq(Message)
        /\ link[c].wire # <<>>
    BY <1>0, <1>12 DEF Receive, Types
  <2>2. Head(link[c].wire) \in Message /\ Tail(link[c].wire) \in Seq(Message)
    BY <2>1
  <2>3. link' = [link EXCEPT ![c].wire = Tail(link[c].wire)]
    BY <1>12 DEF Receive
  <2>4. link' \in [Sockets -> [up : BOOLEAN, wire : Seq(Message)]]
    BY <1>0, <2>2, <2>3 DEF Types
  <2>5. Types'
    BY <1>0, <1>12, <2>2, <2>4 DEF Receive, Types
  <2>6. link[c].up
    BY <1>0, <2>1 DEF Busy
  <2>7. \A d \in Sockets : /\ link'[d].up = link[d].up
                           /\ d # c => link'[d].wire = link[d].wire
    BY <1>0, <2>3 DEF Types
  <2>8. Busy'
    BY <1>0, <1>12, <2>6, <2>7 DEF Receive, Busy
  <2> QED BY <2>5, <2>8
<1>13. ASSUME NEW c \in Sockets, Drop(c) PROVE Types' /\ Busy'
  BY <1>0, <1>13, BoundsAssumption DEF Drop, Types, Busy
<1>14. ASSUME NEW s \in Senders, Send(s) PROVE Types' /\ Busy'
  <2>1. sent'[s] \in 1..MaxSent /\ sent' \in [Senders -> 0..MaxSent]
    BY <1>0, <1>14, BoundsAssumption DEF Send, Types
  <2>2. Latest(s)' \in Message
    BY <2>1 DEF Latest, Message
  <2>3. /\ registered' \in Sockets \cup {None}
        /\ sending' \in [Senders -> Sockets \cup {None}]
        /\ inbox' \subseteq Message
    <3>1. CASE Reachable /\ open[registered]
      <4>1. /\ registered' = registered /\ inbox' = inbox
            /\ sending' = [sending EXCEPT ![s] = registered]
        BY <1>14, <3>1 DEF Send
      <4> QED BY <1>0, <4>1 DEF Types
    <3>2. CASE ~(Reachable /\ open[registered])
      <4>1. /\ registered' \in {registered, None}
            /\ inbox' = inbox \cup {Latest(s)'}
            /\ sending' = sending
        BY <1>14, <3>2 DEF Send
      <4> QED BY <1>0, <2>2, <4>1 DEF Types
    <3> QED BY <3>1, <3>2
  <2>4. \A r \in Senders \ {s} : sent'[r] = sent[r] /\ sending'[r] = sending[r]
    BY <1>0, <1>14 DEF Send, Types
  <2>5. Types'
    BY <1>0, <1>14, <2>1, <2>3 DEF Send, Types
  <2>6. Busy'
    BY <1>0, <1>14, <2>1, <2>4 DEF Send, Busy
  <2> QED BY <2>5, <2>6
<1>15. ASSUME NEW s \in Senders, Routed(s) PROVE Types' /\ Busy'
  <2>1. sending[s] \in Sockets /\ Transmit(sending[s], Latest(s))
    BY <1>0, <1>15 DEF Routed, Types
  <2>2. Latest(s) \in Message
    BY <1>15, LatestIsMessage DEF Routed
  <2>3. Types'
    BY <1>0, <1>15, <2>1, <2>2, TransmitKeepsLinks DEF Routed, Types
  <2>4. Busy'
    BY <1>0, <1>15, <2>1, <2>2, TransmitKeepsLinks DEF Routed, Types, Busy
  <2> QED BY <2>3, <2>4
<1>16. ASSUME NEW s \in Senders, Broken(s) PROVE Types' /\ Busy'
  <2>1. Latest(s) \in Message
    BY <1>16, LatestIsMessage DEF Broken
  <2> QED BY <1>0, <1>16, <2>1 DEF Broken, Types, Busy
<1>17. CASE UNCHANGED vars
  BY <1>0, <1>17 DEF vars, Types, Busy
<1> QED
  BY <1>1, <1>2, <1>3, <1>4, <1>5, <1>6, <1>7, <1>8, <1>9, <1>10, <1>11, <1>12,
     <1>13, <1>14, <1>15, <1>16, <1>17 DEF Next

\* Every step keeps RegisteredIsServed. A socket that connects has not been
\* served before, so it is not the registered one whose handler changes; a
\* handler that ends removes the entry if it is its own.
LEMMA ServedStep ==
    TypeOK /\ RegisteredIsServed /\ [Next]_vars => RegisteredIsServed'
<1> SUFFICES ASSUME TypeOK, RegisteredIsServed, [Next]_vars
             PROVE  RegisteredIsServed'
  OBVIOUS
<1>0. Types
  BY TypeParts
<1> USE DEF relay, client, RegisteredIsServed, Types
<1>1. ASSUME NEW c \in Sockets, Connect(c) \/ Replace(c) \/ Register(c)
      PROVE  RegisteredIsServed'
  BY <1>0, <1>1 DEF Connect, Replace, Register, Accept, Enroll
<1>2. ASSUME NEW c \in Sockets,
             PushFails(c) \/ \E m \in Message : Push(c, m) \/ Ack(c, m)
      PROVE  RegisteredIsServed'
  BY <1>0, <1>2 DEF PushFails, Push, Ack
<1>3. ASSUME NEW c \in Sockets, DisconnectRaises(c) \/ Disconnect(c) \/ End(c)
      PROVE  RegisteredIsServed'
  BY <1>0, <1>3 DEF DisconnectRaises, Disconnect, End
<1>4. ASSUME NEW c \in Sockets, Heartbeat(c) \/ GoStale(c) \/ Receive(c) \/ Drop(c)
      PROVE  RegisteredIsServed'
  BY <1>0, <1>4 DEF Heartbeat, GoStale, Receive, Drop
<1>5. ASSUME NEW s \in Senders, Send(s) \/ Routed(s) \/ Broken(s)
      PROVE  RegisteredIsServed'
  BY <1>0, <1>5 DEF Send, Routed, Broken, Reachable
<1>6. CASE UNCHANGED vars
  BY <1>6 DEF vars
<1> QED BY <1>1, <1>2, <1>3, <1>4, <1>5, <1>6 DEF Next

\* Only the handler that takes a message, or is done with one, changes Handled.
LEMMA HandledStays ==
    ASSUME sent' = sent, sending' = sending
    PROVE  Handled' = Handled
BY DEF Handled

\* A message is a sender and a number.
LEMMA MessageParts ==
    ASSUME NEW m \in Message
    PROVE  m.from \in Senders /\ m.n \in Nat /\ m = [from |-> m.from, n |-> m.n]
BY DEF Message

\* A handler that takes a message is done with it at once, unless it awaits
\* send_json; its number is new.
LEMMA HandledBySend ==
    ASSUME TypeOK, NEW s \in Senders, Send(s)
    PROVE  /\ Latest(s)' \in Message \ Handled
           /\ Handled' = IF sending'[s] = None THEN Handled \cup {Latest(s)'} ELSE Handled
<1>0. Types
  BY TypeParts
<1>1. /\ sent[s] \in 0..MaxSent /\ sent[s] < MaxSent /\ MaxSent \in Nat
      /\ sending[s] = None
      /\ sent' = [sent EXCEPT ![s] = sent[s] + 1]
      /\ sent'[s] = sent[s] + 1
  BY <1>0, BoundsAssumption DEF Send, Types
<1>2. Latest(s)' = [from |-> s, n |-> sent[s] + 1]
  BY <1>1 DEF Latest
<1>3. Latest(s)' \in Message
  BY <1>1, <1>2 DEF Message
<1>4. Latest(s)' \notin Handled
  BY <1>1, <1>2 DEF Handled
<1>5. \A r \in Senders \ {s} : sent'[r] = sent[r] /\ sending'[r] = sending[r]
  BY <1>0 DEF Send, Types
<1>6. ASSUME NEW m \in Message
      PROVE  m \in Handled' <=> m \in Handled \/ (sending'[s] = None /\ m = Latest(s)')
  <2>1. m.from \in Senders /\ m.n \in Nat /\ m = [from |-> m.from, n |-> m.n]
    BY MessageParts
  <2>2. CASE m.from # s
    <3>1. m # Latest(s)'
      BY <1>2, <2>2
    <3> QED BY <1>5, <2>1, <2>2, <3>1 DEF Handled
  <2>3. CASE m.from = s
    <3>1. m = Latest(s)' <=> m.n = sent[s] + 1
      BY <1>2, <2>1, <2>3
    <3>2. m \in Handled <=> m.n <= sent[s]
      BY <1>1, <2>1, <2>3 DEF Handled
    <3>3. m \in Handled' <=> m.n < sent[s] + 1 \/ (m.n = sent[s] + 1 /\ sending'[s] = None)
      BY <1>1, <2>3 DEF Handled
    <3> QED BY <1>1, <2>1, <3>1, <3>2, <3>3
  <2> QED BY <2>2, <2>3
<1>7. Handled \subseteq Message /\ Handled' \subseteq Message
  BY DEF Handled
<1> QED BY <1>3, <1>4, <1>6, <1>7

\* A handler whose send_json returns or raises is done with its message.
LEMMA HandledByAnswer ==
    ASSUME TypeOK, NEW s \in Senders, sending[s] # None,
           sent' = sent, sending' = [sending EXCEPT ![s] = None]
    PROVE  /\ Latest(s) \in Message \ Handled
           /\ Handled' = Handled \cup {Latest(s)}
<1>0. Types
  BY TypeParts
<1>1. Latest(s) \in Message
  BY LatestIsMessage
<1>2. Latest(s) = [from |-> s, n |-> sent[s]] /\ sent[s] \in Nat
  BY <1>0, BoundsAssumption DEF Latest, Types
<1>3. Latest(s) \notin Handled
  BY <1>2 DEF Handled
<1>4. sending'[s] = None /\ \A r \in Senders \ {s} : sending'[r] = sending[r]
  BY <1>0 DEF Types
<1>5. ASSUME NEW m \in Message
      PROVE  m \in Handled' <=> m \in Handled \/ m = Latest(s)
  <2>1. m.from \in Senders /\ m.n \in Nat /\ m = [from |-> m.from, n |-> m.n]
    BY MessageParts
  <2>2. CASE m.from # s
    BY <1>2, <1>4, <2>1, <2>2 DEF Handled
  <2>3. CASE m.from = s
    <3>1. m = Latest(s) <=> m.n = sent[s]
      BY <1>2, <2>1, <2>3
    <3>2. (m \in Handled <=> m.n < sent[s]) /\ (m \in Handled' <=> m.n < sent[s] \/ m.n = sent[s])
      BY <1>4, <2>3 DEF Handled
    <3> QED BY <3>1, <3>2
  <2> QED BY <2>2, <2>3
<1>6. Handled \subseteq Message /\ Handled' \subseteq Message
  BY DEF Handled
<1> QED BY <1>1, <1>3, <1>5, <1>6

-----------------------------------------------------------------------------
(* The refinement: every step is one of the mailbox, or changes nothing that *)
(* the mailbox has.                                                          *)

\* What a step does to the messages, in the relay's own variables.
Taken(m) ==
    /\ m \notin Handled
    /\ Handled' = Handled \cup {m}
    /\ received' = received
    /\ \/ inbox' = inbox \cup {m} /\ routed' = routed
       \/ routed' = routed \cup {m} /\ inbox' = inbox

Arrived(m) ==
    /\ m \in Handled
    /\ received' = received \cup {m}
    /\ UNCHANGED <<inbox, routed>> /\ Handled' = Handled

Released(m) ==
    /\ m \in inbox \cap received
    /\ inbox' = inbox \ {m}
    /\ UNCHANGED <<received, routed>> /\ Handled' = Handled

Idle == UNCHANGED <<inbox, received, routed>> /\ Handled' = Handled

\* Every step takes, delivers or releases one message, or none.
LEMMA StepKinds ==
    ASSUME TypeOK, OnlyHandled, [Next]_vars
    PROVE  Idle \/ \E m \in Handled' : Taken(m) \/ Arrived(m) \/ Released(m)
<1> DEFINE Goal == Idle \/ \E m \in Handled' : Taken(m) \/ Arrived(m) \/ Released(m)
<1>0. Types
  BY TypeParts
<1> USE DEF relay, client
<1>1. ASSUME NEW c \in Sockets,
             \/ Connect(c) \/ Replace(c) \/ Register(c) \/ PushFails(c)
             \/ \E m \in Message : Push(c, m)
      PROVE  Idle
  BY <1>1, HandledStays DEF Connect, Replace, Register, Accept, PushFails, Push, Idle
<1>2. ASSUME NEW c \in Sockets,
             Heartbeat(c) \/ Disconnect(c) \/ DisconnectRaises(c) \/ End(c)
      PROVE  Idle
  BY <1>2, HandledStays DEF Heartbeat, Disconnect, DisconnectRaises, End, Idle
<1>3. ASSUME NEW c \in Sockets, GoStale(c) \/ Drop(c) PROVE Idle
  BY <1>3, HandledStays DEF GoStale, Drop, Idle
<1>4. ASSUME NEW c \in Sockets, NEW m \in Message, Ack(c, m) PROVE Goal
  <2>1. Handled' = Handled
    BY <1>4, HandledStays DEF Ack
  <2>2. Released(m) /\ m \in Handled'
    BY <1>4, <2>1 DEF Ack, Released, OnlyHandled
  <2> QED BY <2>2
<1>5. ASSUME NEW c \in Sockets, Receive(c) PROVE Goal
  <2>1. link[c].wire \in Seq(Message) /\ link[c].wire # <<>>
    BY <1>0, <1>5 DEF Receive, Types
  <2>2. 1 \in 1..Len(link[c].wire) /\ Head(link[c].wire) = link[c].wire[1]
    BY <2>1
  <2>3. Handled' = Handled /\ Head(link[c].wire) \in Handled
    BY <1>5, <2>2, HandledStays DEF Receive, OnlyHandled
  <2>4. Arrived(Head(link[c].wire))
    BY <1>5, <2>3 DEF Receive, Arrived
  <2> QED BY <2>3, <2>4
<1>6. ASSUME NEW s \in Senders, Send(s) PROVE Goal
  <2>1. CASE sending'[s] = None
    <3>1. inbox' = inbox \cup {Latest(s)'}
      BY <1>0, <1>6, <2>1, NoneAssumption DEF Send, Types, Reachable
    <3>2. Taken(Latest(s)')
      BY <1>6, <2>1, <3>1, HandledBySend DEF Send, Taken
    <3> QED BY <3>2 DEF Taken
  <2>2. CASE sending'[s] # None
    <3>1. inbox' = inbox
      BY <1>6, <2>2 DEF Send
    <3> QED BY <1>6, <2>2, <3>1, HandledBySend DEF Send, Idle
  <2> QED BY <2>1, <2>2
<1>7. ASSUME NEW s \in Senders, Routed(s) \/ Broken(s) PROVE Goal
  <2>1. /\ Latest(s) \notin Handled
        /\ Handled' = Handled \cup {Latest(s)}
    BY <1>7, HandledByAnswer DEF Routed, Broken
  <2>2. Taken(Latest(s))
    BY <1>7, <2>1 DEF Routed, Broken, Taken
  <2> QED BY <2>1, <2>2
<1>8. CASE UNCHANGED vars
  BY <1>8, HandledStays DEF vars, Idle
<1> QED BY <1>1, <1>2, <1>3, <1>4, <1>5, <1>6, <1>7, <1>8 DEF Next

\* Every step keeps NothingStoredIsLost: the inbox gives up only what was
\* received, and a sender's handler lets go of a message only to the inbox or
\* to a socket that took it.
LEMMA KeptStep ==
    TypeOK /\ OnlyHandled /\ NothingStoredIsLost /\ [Next]_vars => NothingStoredIsLost'
BY StepKinds DEF Idle, Taken, Arrived, Released, NothingStoredIsLost

\* Every step keeps OnlyHandled: what is pushed comes from the inbox, what is
\* on the way was pushed or has just been routed.
LEMMA OnlyHandledStep == TypeOK /\ OnlyHandled /\ [Next]_vars => OnlyHandled'
<1> SUFFICES ASSUME TypeOK, OnlyHandled, [Next]_vars PROVE OnlyHandled'
  OBVIOUS
<1> DEFINE OnTheWay(c) ==
             /\ push'[c] \subseteq Handled'
             /\ \A i \in 1..Len(link'[c].wire) : link'[c].wire[i] \in Handled'
<1>0. Types
  BY TypeParts
<1>1. /\ inbox \cup received \cup routed \subseteq Handled
      /\ \A c \in Sockets :
            /\ push[c] \subseteq Handled
            /\ \A i \in 1..Len(link[c].wire) : link[c].wire[i] \in Handled
  BY DEF OnlyHandled
<1>2. Handled \subseteq Handled' /\ inbox' \cup received' \cup routed' \subseteq Handled'
  BY <1>1, StepKinds DEF Idle, Taken, Arrived, Released
<1> USE DEF relay, client
<1>3. ASSUME push' = push, link' = link, NEW d \in Sockets PROVE OnTheWay(d)
  BY <1>1, <1>2, <1>3
<1>4. ASSUME NEW c \in Sockets, Connect(c) \/ Replace(c) \/ Register(c) \/ PushFails(c),
             NEW d \in Sockets
      PROVE  OnTheWay(d)
  <2>1. push'[d] \in {push[d], inbox, {}}
    BY <1>0, <1>4 DEF Connect, Replace, Register, Accept, Enroll, PushFails, Types
  <2>2. link'[d].wire = link[d].wire
    <3>1. CASE Accept(c)
      BY <3>1, AcceptKeepsLinks
    <3>2. CASE Register(c) \/ PushFails(c)
      BY <3>2 DEF Register, PushFails
    <3> QED BY <1>4, <3>1, <3>2 DEF Connect, Replace
  <2> QED BY <1>1, <1>2, <2>1, <2>2
<1>5. ASSUME NEW c \in Sockets, NEW m \in Handled', m \in Message, Transmit(c, m),
             NEW d \in Sockets, NEW i \in 1..Len(link'[d].wire)
      PROVE  link'[d].wire[i] \in Handled'
  <2>1. link[d].wire \in Seq(Message)
    BY <1>0 DEF Types
  <2>2. link'[d].wire \in {link[d].wire, Append(link[d].wire, m)}
    BY <1>0, <1>5 DEF Transmit, Types
  <2>3. CASE link'[d].wire = Append(link[d].wire, m)
    <3>1. i = Len(link[d].wire) + 1 \/ i \in 1..Len(link[d].wire)
      BY <2>1, <2>3
    <3>2. link'[d].wire[i] = IF i \in 1..Len(link[d].wire) THEN link[d].wire[i] ELSE m
      BY <2>1, <2>3, <3>1, <1>5
    <3> QED BY <1>1, <1>2, <3>2
  <2> QED BY <1>1, <1>2, <2>2, <2>3
<1>6. ASSUME NEW c \in Sockets, NEW m \in Message, Push(c, m), NEW d \in Sockets
      PROVE  OnTheWay(d)
  <2>1. Transmit(c, m) /\ m \in Handled'
    BY <1>1, <1>2, <1>6 DEF Push
  <2>2. push'[d] \subseteq push[d]
    BY <1>0, <1>6 DEF Push, Types
  <2> QED BY <1>1, <1>2, <1>5, <2>1, <2>2
<1>7. ASSUME NEW c \in Sockets, Receive(c), NEW d \in Sockets PROVE OnTheWay(d)
  <2>1. link[d].wire \in Seq(Message)
    BY <1>0 DEF Types
  <2>2. CASE d # c
    <3>1. link'[d] = link[d] /\ push' = push
      BY <1>0, <1>7, <2>2 DEF Receive, Types
    <3> QED BY <1>1, <1>2, <3>1
  <2>3. CASE d = c
    <3>1. link'[d].wire = Tail(link[d].wire) /\ push' = push /\ link[d].wire # <<>>
      BY <1>0, <1>7, <2>3 DEF Receive, Types
    <3>2. ASSUME NEW i \in 1..Len(link'[d].wire) PROVE link'[d].wire[i] \in Handled'
      <4>1. Len(Tail(link[d].wire)) = Len(link[d].wire) - 1
        BY <2>1, <3>1
      <4>2. i + 1 \in 1..Len(link[d].wire)
        BY <2>1, <3>1, <3>2, <4>1
      <4>3. link'[d].wire[i] = link[d].wire[i + 1]
        BY <2>1, <3>1, <3>2, <4>1
      <4> QED BY <1>1, <1>2, <4>2, <4>3
    <3> QED BY <1>1, <1>2, <3>1, <3>2
  <2> QED BY <2>2, <2>3
<1>8. ASSUME NEW c \in Sockets, Drop(c), NEW d \in Sockets PROVE OnTheWay(d)
  <2>1. push' = push /\ link'[d].wire \in {link[d].wire, <<>>}
    BY <1>0, <1>8 DEF Drop, Types
  <2> QED BY <1>1, <1>2, <2>1
<1>9. ASSUME NEW s \in Senders, Routed(s), NEW d \in Sockets PROVE OnTheWay(d)
  <2>1. Latest(s) \in Message /\ Latest(s) \in Handled'
    BY <1>9, HandledByAnswer DEF Routed
  <2>2. sending[s] \in Sockets /\ Transmit(sending[s], Latest(s)) /\ push' = push
    BY <1>0, <1>9 DEF Routed, Types
  <2> QED BY <1>1, <1>2, <1>5, <2>1, <2>2
<1>10. ASSUME NEW d \in Sockets PROVE OnTheWay(d)
  <2>1. ASSUME NEW c \in Sockets,
               \/ Heartbeat(c) \/ Disconnect(c) \/ DisconnectRaises(c) \/ End(c)
               \/ GoStale(c) \/ \E m \in Message : Ack(c, m)
        PROVE  push' = push /\ link' = link
    BY <2>1 DEF Heartbeat, Disconnect, DisconnectRaises, End, GoStale, Ack
  <2>2. ASSUME NEW s \in Senders, Send(s) \/ Broken(s)
        PROVE  push' = push /\ link' = link
    BY <2>2 DEF Send, Broken
  <2>3. UNCHANGED vars => push' = push /\ link' = link
    BY DEF vars
  <2> HIDE DEF OnTheWay
  <2> QED BY <1>3, <1>4, <1>6, <1>7, <1>8, <1>9, <2>1, <2>2, <2>3 DEF Next
<1> QED BY <1>2, <1>10 DEF OnlyHandled

\* An entry goes with its socket, or a message is stored in its place: it is new,
\* because what is stored is handled and what a handler still holds is not.
LEMMA EntryStep == TypeOK /\ OnlyHandled /\ [Next]_vars => EntryKept
<1> SUFFICES ASSUME TypeOK, OnlyHandled, [Next]_vars,
                    registered # None, registered' = None
             PROVE  ~open'[registered] \/ inbox' # inbox
  BY DEF EntryKept
<1>0. Types
  BY TypeParts
<1> USE DEF relay, client
<1>1. ASSUME NEW c \in Sockets,
             \/ Connect(c) \/ Replace(c) \/ Register(c) \/ PushFails(c)
             \/ Heartbeat(c) \/ GoStale(c) \/ Receive(c) \/ Drop(c)
             \/ \E m \in Message : Push(c, m) \/ Ack(c, m)
      PROVE  FALSE
  BY <1>1, NoneAssumption
     DEF Connect, Replace, Register, Accept, Enroll, PushFails, Heartbeat, GoStale,
         Receive, Drop, Push, Ack
<1>2. ASSUME NEW c \in Sockets, Disconnect(c) \/ DisconnectRaises(c) \/ End(c)
      PROVE  ~open'[registered]
  BY <1>0, <1>2 DEF Disconnect, DisconnectRaises, End, Types
<1>3. ASSUME NEW s \in Senders, Send(s) PROVE ~open'[registered]
  BY <1>3 DEF Send, Reachable
<1>4. ASSUME NEW s \in Senders, Routed(s) PROVE FALSE
  BY <1>4 DEF Routed
<1>5. ASSUME NEW s \in Senders, Broken(s) PROVE inbox' # inbox
  <2>1. Latest(s) \notin Handled
    BY <1>5, HandledByAnswer DEF Broken
  <2>2. Latest(s) \in inbox' /\ Latest(s) \notin inbox
    BY <1>5, <2>1 DEF Broken, OnlyHandled
  <2> QED BY <2>2
<1>6. ~UNCHANGED vars
  BY DEF vars
<1> QED BY <1>1, <1>2, <1>3, <1>4, <1>5, <1>6 DEF Next

\* The inductive invariant holds in every state.
LEMMA Invariance == Spec => []IInv
<1>1. IInv /\ [Next]_vars => IInv'
  BY TypeStep, ServedStep, KeptStep, OnlyHandledStep DEF IInv
<1> QED BY InitIInv, <1>1, PTL DEF Spec

\* The type invariant: among others, a push is under way exactly in the handlers
\* that await _deliver_pending.
THEOREM TypeCorrect == Spec => []TypeOK
<1>1. IInv => TypeOK
  BY DEF IInv
<1> QED BY <1>1, Invariance, PTL

\* A message handled is in the inbox, was received, or was handed to a live
\* socket: neither _deliver_pending nor any way a handler ends loses one.
THEOREM StoredIsKept == Spec => []NothingStoredIsLost
<1>1. IInv => NothingStoredIsLost
  BY DEF IInv
<1> QED BY <1>1, Invariance, PTL

\* No handler ends and leaves its own socket in _connections.
THEOREM EntriesAreServed == Spec => []RegisteredIsServed
<1>1. IInv => RegisteredIsServed
  BY DEF IInv
<1> QED BY <1>1, Invariance, PTL

\* No handler removes the entry of a socket that stays open, but for a send that
\* failed and whose message is stored.
THEOREM LiveEntriesStay == Spec => LiveSocketKeepsEntry
<1>1. IInv /\ [Next]_vars => [EntryKept]_vars
  BY EntryStep DEF IInv
<1> QED BY <1>1, Invariance, PTL DEF Spec, LiveSocketKeepsEntry

\* Every step is one of the mailbox, or a stutter.
LEMMA MapStep == IInv /\ [Next]_vars => [Box!Next]_(Box!mailbox)
<1> SUFFICES ASSUME IInv, [Next]_vars PROVE [Box!Next]_(Box!mailbox)
  OBVIOUS
<1>1. Idle \/ \E m \in Handled' : Taken(m) \/ Arrived(m) \/ Released(m)
  BY StepKinds DEF IInv
<1>2. CASE Idle
  BY <1>2 DEF Idle, Box!mailbox
<1>3. ASSUME NEW m \in Handled', Taken(m) PROVE Box!Store(m) \/ Box!Route(m)
  BY <1>3 DEF Taken, Box!Store, Box!Route, Box!Take
<1>4. ASSUME NEW m \in Handled', Arrived(m) PROVE Box!Receive(m)
  BY <1>4 DEF Arrived, Box!Receive
<1>5. ASSUME NEW m \in Handled', Released(m) PROVE Box!Release(m)
  BY <1>5 DEF Released, Box!Release
<1> QED BY <1>1, <1>2, <1>3, <1>4, <1>5 DEF Box!Next

\* The relay implements a mailbox: over all replacements, failures and
\* redeliveries of its sockets, a message is taken once, only messages taken are
\* received, and a stored one is given up only after it was received.
THEOREM RelayIsMailbox == Spec => ImplementsMailbox
<1>1. Init => Box!Init
  <2>1. Init => Handled = {}
    BY DEF Init, Handled, Message
  <2> QED BY <2>1 DEF Init, Box!Init
<1> QED BY <1>1, MapStep, Invariance, PTL DEF Spec, ImplementsMailbox, Box!Spec

=============================================================================
