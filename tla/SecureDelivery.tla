--------------------------- MODULE SecureDelivery ---------------------------
(***************************************************************************)
(* What an encrypted session promises its two ends, of which               *)
(* DoubleRatchet is the implementation: what is received was sent by the   *)
(* peer, it is received at most once, and an end counts its messages. In   *)
(* which order, and whether at all, is left open.                          *)
(***************************************************************************)
EXTENDS Integers, FiniteSets

VARIABLES
    sent,     \* what each end has sent
    opened,   \* what each end has received
    closed,   \* the ends that are closed
    count     \* the messages each end has sent and received

Ends == DOMAIN sent
channel == <<sent, opened, closed, count>>

Init ==
    /\ sent = [p \in Ends |-> {}]
    /\ opened = [p \in Ends |-> {}]
    /\ closed = [p \in Ends |-> FALSE]
    /\ count = [p \in Ends |-> 0]

Send(p, m) ==
    /\ ~closed[p]
    /\ \A q \in Ends : m \notin sent[q]
    /\ sent' = [sent EXCEPT ![p] = @ \cup {m}]
    /\ count' = [count EXCEPT ![p] = @ + 1]
    /\ UNCHANGED <<opened, closed>>

Receive(p, m) ==
    /\ ~closed[p]
    /\ m \notin opened[p]
    /\ \E q \in Ends \ {p} : m \in sent[q]
    /\ opened' = [opened EXCEPT ![p] = @ \cup {m}]
    /\ count' = [count EXCEPT ![p] = @ + 1]
    /\ UNCHANGED <<sent, closed>>

Close(p) ==
    /\ ~closed[p]
    /\ closed' = [closed EXCEPT ![p] = TRUE]
    /\ UNCHANGED <<sent, opened, count>>

Step(p) ==
    \/ \E m \in sent'[p] : Send(p, m)
    \/ \E q \in Ends : \E m \in sent[q] : Receive(p, m)
    \/ Close(p)

Next == \E p \in Ends : Step(p)

Spec == Init /\ [][Next]_channel
=============================================================================
