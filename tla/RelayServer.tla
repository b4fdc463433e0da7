----------------------------- MODULE RelayServer -----------------------------
(***************************************************************************)
(* The store-and-forward relay of Agent Mesh: relay/app.py over the        *)
(* in-memory inbox of relay/store.py.                                      *)
(*                                                                         *)
(* Agents' mailboxes do not affect each other, so one agent is modelled:   *)
(* the sockets it opens, the inbox, and the senders of messages to it.     *)
(* Every socket has a handler task on one event loop; what a handler does  *)
(* between two awaits is one action. The client end and the transport are  *)
(* the environment: a socket delivers in order until its link is lost.     *)
(*                                                                         *)
(* Data abstracted: a message is its sender and its number among that      *)
(* sender's messages (ids are fresh), and one handler takes those in turn; *)
(* proofs of possession and tokens are checked before a socket gets here;  *)
(* the 72 hour TTL is left out; of the inbox' order only the order of each *)
(* sender's messages is kept.                                              *)
(***************************************************************************)
EXTENDS Integers, Sequences, FiniteSets

CONSTANTS
    Senders,    \* agents that send messages to the one modelled
    Sockets,    \* sockets the agent may open, one after another or at once
    MaxSent,    \* bound: messages from each sender
    MaxDrops,   \* bound: links that are lost
    None        \* Python's None

ASSUME BoundsAssumption == MaxSent \in Nat /\ MaxDrops \in Nat
ASSUME NoneAssumption   == None \notin Sockets

Message == [from : Senders, n : 1..MaxSent]

VARIABLES
    registered,  \* the socket of _connections[did], or None
    task,        \* where the handler of each socket stands
    open,        \* the relay has not closed the socket
    stale,       \* no heartbeat for OFFLINE_THRESHOLD
    push,        \* _deliver_pending: the messages still to be sent
    inbox,       \* the stored messages
    sent,        \* how many messages each sender has sent
    sending,     \* the socket on which a sender's handler awaits send_json
    link,        \* the transport: its frames on the way, and whether it is up
    received,    \* the messages the agent has received
    routed,      \* history: messages that send_json accepted in _handle_message
    drops        \* history: how many links were lost

relay  == <<registered, task, open, stale, push>>
client == <<link, received, drops>>
vars   == <<registered, task, open, stale, push, inbox, sent, sending, link,
            received, routed, drops>>

Init ==
    /\ registered = None
    /\ task = [c \in Sockets |-> "new"]
    /\ open = [c \in Sockets |-> FALSE]
    /\ stale = [c \in Sockets |-> FALSE]
    /\ push = [c \in Sockets |-> {}]
    /\ inbox = {}
    /\ sent = [s \in Senders |-> 0]
    /\ sending = [s \in Senders |-> None]
    /\ link = [c \in Sockets |-> [up |-> FALSE, wire |-> <<>>]]
    /\ received = {}
    /\ routed = {}
    /\ drops = 0

\* send_json on a socket whose link is lost may succeed all the same.
Transmit(c, m) ==
    link' = [link EXCEPT ![c].wire = IF link[c].up THEN Append(@, m) ELSE @]

\* ... and it raises only on a socket that is closed or lost.
MayRaise(c) == ~open[c] \/ ~link[c].up

-----------------------------------------------------------------------------
(* websocket_endpoint: a socket connects, replaces the one registered, and  *)
(* is pushed what the inbox holds.                                          *)

\* Mutant: _deliver_pending is started and not awaited.
EnrollUnawaited(c) ==
    /\ registered' = c
    /\ push' = [push EXCEPT ![c] = inbox]
    /\ task' = [task EXCEPT ![c] = "serving"]

\* The socket is registered, and _deliver_pending fetches what is pending.
Enroll(c) ==
    /\ registered' = c
    /\ push' = [push EXCEPT ![c] = inbox]
    /\ task' = [task EXCEPT ![c] = IF inbox = {} THEN "serving" ELSE "pushing"]

\* The socket of an authenticated agent is open.
Accept(c) ==
    /\ task[c] = "new"
    /\ link' = [link EXCEPT ![c].up = TRUE]
    /\ UNCHANGED <<stale, inbox, sent, sending, received, routed, drops>>

\* The agent has no socket registered: there is nothing to wait for.
Connect(c) ==
    /\ Accept(c)
    /\ registered = None
    /\ open' = [open EXCEPT ![c] = TRUE]
    /\ Enroll(c)

\* It has one, which is closed first; the handler awaits that.
Replace(c) ==
    /\ Accept(c)
    /\ registered # None
    /\ open' = [open EXCEPT ![registered] = FALSE, ![c] = TRUE]
    /\ task' = [task EXCEPT ![c] = "replacing"]
    /\ UNCHANGED <<registered, push>>

Register(c) ==
    /\ task[c] = "replacing"
    /\ Enroll(c)
    /\ UNCHANGED <<open, stale, inbox, sent, sending, client, routed>>

\* No earlier message of m's sender is among the messages.
FirstOfSender(m, messages) ==
    \A k \in messages : k.from = m.from => m.n <= k.n

\* Mutant: what was sent is deleted from the inbox, as it once was.
PushAcknowledged(c, m) ==
    /\ task[c] = "pushing"
    /\ open[c]
    /\ m \in push[c]
    /\ FirstOfSender(m, push[c])
    /\ Transmit(c, m)
    /\ push' = [push EXCEPT ![c] = @ \ {m}]
    /\ inbox' = inbox \ {m}
    /\ task' = [task EXCEPT ![c] = IF push[c] = {m} THEN "serving" ELSE "pushing"]
    /\ UNCHANGED <<registered, open, stale, sent, sending, received, routed, drops>>

Push(c, m) ==
    /\ task[c] = "pushing"
    /\ open[c]
    /\ m \in push[c]
    /\ FirstOfSender(m, push[c])
    /\ Transmit(c, m)
    /\ push' = [push EXCEPT ![c] = @ \ {m}]
    /\ task' = [task EXCEPT ![c] = IF push[c] = {m} THEN "serving" ELSE "pushing"]
    /\ UNCHANGED <<registered, open, stale, inbox, sent, sending, received,
                   routed, drops>>

\* Mutant: the push ends before everything is sent, without a failure.
PushEndsEarly(c) ==
    /\ task[c] = "pushing"
    /\ push' = [push EXCEPT ![c] = {}]
    /\ task' = [task EXCEPT ![c] = "serving"]
    /\ UNCHANGED <<registered, open, stale, inbox, sent, sending, client, routed>>

\* The first failure ends the push.
PushFails(c) ==
    /\ task[c] = "pushing"
    /\ MayRaise(c)
    /\ push' = [push EXCEPT ![c] = {}]
    /\ task' = [task EXCEPT ![c] = "serving"]
    /\ UNCHANGED <<registered, open, stale, inbox, sent, sending, client, routed>>

-----------------------------------------------------------------------------
(* _handle_frame, for the frames the agent sends. A handler whose socket    *)
(* was closed by another may still get the frame it was waiting for (the    *)
(* model does not limit it to one).                                         *)

\* Only what the agent has received is acknowledged.
Ack(c, m) ==
    /\ task[c] = "serving"
    /\ m \in received \cap inbox
    /\ inbox' = inbox \ {m}
    /\ UNCHANGED <<relay, sent, sending, client, routed>>

Heartbeat(c) ==
    /\ task[c] = "serving"
    /\ registered # None
    /\ stale[registered]
    /\ stale' = [stale EXCEPT ![registered] = FALSE]
    /\ UNCHANGED <<registered, task, open, push, inbox, sent, sending, client,
                   routed>>

\* Whatever is registered is popped, and closed.
Disconnect(c) ==
    /\ task[c] = "serving"
    /\ registered # None
    /\ open[registered]
    /\ registered' = None
    /\ open' = [open EXCEPT ![registered] = FALSE]
    /\ UNCHANGED <<task, stale, push, inbox, sent, sending, client, routed>>

\* Closing it raises, and that ends the handler.
DisconnectRaises(c) ==
    /\ task[c] = "serving"
    /\ registered # None
    /\ MayRaise(registered)
    /\ registered' = None
    /\ open' = [open EXCEPT ![registered] = FALSE, ![c] = FALSE]
    /\ task' = [task EXCEPT ![c] = "over"]
    /\ UNCHANGED <<stale, push, inbox, sent, sending, client, routed>>

\* Mutant: the handler removes whatever is registered.
EndRemovesAny(c) ==
    /\ task[c] = "serving"
    /\ task' = [task EXCEPT ![c] = "over"]
    /\ open' = [open EXCEPT ![c] = FALSE]
    /\ registered' = None
    /\ UNCHANGED <<stale, push, inbox, sent, sending, client, routed>>

\* The client disconnects, the idle timeout strikes, or a frame is invalid:
\* the handler ends, and removes the entry if it is its own.
End(c) ==
    /\ task[c] = "serving"
    /\ task' = [task EXCEPT ![c] = "over"]
    /\ open' = [open EXCEPT ![c] = FALSE]
    /\ registered' = IF registered = c THEN None ELSE registered
    /\ UNCHANGED <<stale, push, inbox, sent, sending, client, routed>>

-----------------------------------------------------------------------------
(* _handle_message, in the handler of a sender. *)

Latest(s) == [from |-> s, n |-> sent[s]]

Reachable == registered # None /\ ~stale[registered]

\* A message to an agent that is connected is handed to its socket; one to an
\* agent that is not, or whose socket turns out to be closed, is stored.
Send(s) ==
    /\ sending[s] = None
    /\ sent[s] < MaxSent
    /\ sent' = [sent EXCEPT ![s] = @ + 1]
    /\ IF Reachable /\ open[registered]
       THEN /\ sending' = [sending EXCEPT ![s] = registered]
            /\ UNCHANGED <<registered, inbox>>
       ELSE /\ inbox' = inbox \cup {Latest(s)'}
            /\ registered' = IF Reachable THEN None ELSE registered
            /\ UNCHANGED sending
    /\ UNCHANGED <<task, open, stale, push, client, routed>>

\* send_json returns.
Routed(s) ==
    /\ sending[s] # None
    /\ Transmit(sending[s], Latest(s))
    /\ routed' = routed \cup {Latest(s)}
    /\ sending' = [sending EXCEPT ![s] = None]
    /\ UNCHANGED <<relay, inbox, sent, received, drops>>

\* send_json raises: what is registered now is popped, the message stored.
Broken(s) ==
    /\ sending[s] # None
    /\ MayRaise(sending[s])
    /\ registered' = None
    /\ inbox' = inbox \cup {Latest(s)}
    /\ sending' = [sending EXCEPT ![s] = None]
    /\ UNCHANGED <<task, open, stale, push, sent, client, routed>>

-----------------------------------------------------------------------------
(* The environment. *)

GoStale(c) ==
    /\ c = registered
    /\ ~stale[c]
    /\ stale' = [stale EXCEPT ![c] = TRUE]
    /\ UNCHANGED <<registered, task, open, push, inbox, sent, sending, client,
                   routed>>

Receive(c) ==
    /\ link[c].wire # <<>>
    /\ received' = received \cup {Head(link[c].wire)}
    /\ link' = [link EXCEPT ![c].wire = Tail(@)]
    /\ UNCHANGED <<relay, inbox, sent, sending, routed, drops>>

\* The link is lost with what is on the way; the relay is not told.
Drop(c) ==
    /\ link[c].up
    /\ drops < MaxDrops
    /\ drops' = drops + 1
    /\ link' = [link EXCEPT ![c] = [up |-> FALSE, wire |-> <<>>]]
    /\ UNCHANGED <<relay, inbox, sent, sending, received, routed>>

-----------------------------------------------------------------------------
Next ==
    \/ \E c \in Sockets :
          \/ Connect(c) \/ Replace(c) \/ Register(c)
          \/ \E m \in Message : Push(c, m)
          \/ PushFails(c)
          \/ \E m \in Message : Ack(c, m)
          \/ Heartbeat(c) \/ Disconnect(c) \/ DisconnectRaises(c) \/ End(c)
          \/ GoStale(c) \/ Receive(c) \/ Drop(c)
    \/ \E s \in Senders : Send(s) \/ Routed(s) \/ Broken(s)

Spec == Init /\ [][Next]_vars

\* A handler that can go on does, and a link that is up delivers.
FairSpec ==
    /\ Spec
    /\ \A c \in Sockets :
          /\ WF_vars(Register(c))
          /\ WF_vars(PushFails(c) \/ \E m \in Message : Push(c, m))
          /\ WF_vars(Receive(c))

-----------------------------------------------------------------------------
(* Properties. *)

\* Every variable has its type; frames are on the way, and pushes under way,
\* only where there is a link or a handler for them.
TypeOK ==
    /\ registered \in Sockets \cup {None}
    /\ task \in [Sockets -> {"new", "replacing", "pushing", "serving", "over"}]
    /\ open \in [Sockets -> BOOLEAN]
    /\ stale \in [Sockets -> BOOLEAN]
    /\ push \in [Sockets -> SUBSET Message]
    /\ \A c \in Sockets : push[c] # {} <=> task[c] = "pushing"
    /\ inbox \subseteq Message
    /\ sent \in [Senders -> 0..MaxSent]
    /\ sending \in [Senders -> Sockets \cup {None}]
    /\ \A s \in Senders : sending[s] # None => sent[s] > 0
    /\ link \in [Sockets -> [up : BOOLEAN, wire : Seq(Message)]]
    /\ \A c \in Sockets : IF link[c].up THEN task[c] # "new" ELSE link[c].wire = <<>>
    /\ received \subseteq Message
    /\ routed \subseteq Message
    /\ drops \in 0..MaxDrops

\* The messages that senders' handlers have taken, less those they still hold.
Handled == {m \in Message :
    \/ m.n < sent[m.from]
    \/ m.n = sent[m.from] /\ sending[m.from] = None}

\* The relay implements a mailbox: whatever handlers, sockets and links do, a
\* message is taken once, what is received was taken, and a stored message is
\* given up only once the agent has received it.
Box == INSTANCE Mailbox WITH handled <- Handled, stored <- inbox
ImplementsMailbox == Box!Spec

\* A socket that stays open loses its entry to no handler of an earlier one
\* (the comment in the finally: "protects against ghost-cleanup races"): an
\* entry goes with its socket, or because a send failed and the message was
\* stored in its place.
EntryKept ==
    registered # None /\ registered' = None => ~open'[registered] \/ inbox' # inbox
LiveSocketKeepsEntry == [][EntryKept]_vars

\* What a connecting agent is pushed reaches it unless the socket breaks:
\* wire specification 12.3, "on reconnect, the relay pushes all pending
\* messages".
PendingArrives ==
    \A c \in Sockets, m \in Message :
        (task[c] = "pushing" /\ m \in push[c])
            ~> (m \in received \/ ~open[c] \/ ~link[c].up)

=============================================================================
