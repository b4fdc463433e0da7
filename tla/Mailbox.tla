------------------------------- MODULE Mailbox -------------------------------
(***************************************************************************)
(* What a store-and-forward relay promises the owner of a mailbox, of      *)
(* which RelayServer is the implementation: a message is taken once, and   *)
(* either stored or handed on; what is received was taken; and what is     *)
(* stored is given up only once it was received. How often a message is    *)
(* received, and in which order, is left open.                             *)
(***************************************************************************)
EXTENDS Naturals

VARIABLES
    handled,   \* the messages the relay has taken
    stored,    \* those it keeps
    routed,    \* those it handed on at once
    received   \* those the owner has received

mailbox == <<handled, stored, routed, received>>

Init ==
    /\ handled = {}
    /\ stored = {}
    /\ routed = {}
    /\ received = {}

Take(m) ==
    /\ m \notin handled
    /\ handled' = handled \cup {m}
    /\ UNCHANGED received

Store(m) ==
    /\ Take(m)
    /\ stored' = stored \cup {m}
    /\ UNCHANGED routed

Route(m) ==
    /\ Take(m)
    /\ routed' = routed \cup {m}
    /\ UNCHANGED stored

Receive(m) ==
    /\ m \in handled
    /\ received' = received \cup {m}
    /\ UNCHANGED <<handled, stored, routed>>

Release(m) ==
    /\ m \in stored \cap received
    /\ stored' = stored \ {m}
    /\ UNCHANGED <<handled, routed, received>>

Next == \E m \in handled' : Store(m) \/ Route(m) \/ Receive(m) \/ Release(m)

Spec == Init /\ [][Next]_mailbox
=============================================================================
