--------------------------- MODULE ApprovalContract ---------------------------
(***************************************************************************)
(* What the approval protocol promises its callers (ADR-0030, sections 3,  *)
(* 4 and 6), without requests, entries, resolutions or statuses: approvers *)
(* cast authoritative votes, a worker is cleared while the votes approve,  *)
(* and only a cleared worker may release the execution, and only for the   *)
(* action that was approved.                                               *)
(***************************************************************************)
EXTENDS Sequences

CONSTANTS
    Workers,
    Actions,      \* what an execution may claim to be
    Ballots,      \* the authoritative votes that may be cast
    Approved(_)   \* whether a set of votes approves

VARIABLES
    action,    \* the action under review
    votes,     \* the votes cast so far
    cleared,   \* workers that passed the validation and have not executed yet
    released   \* the actions executed, in order

vars == <<action, votes, cleared, released>>

Init ==
    /\ action \in Actions
    /\ votes = {}
    /\ cleared = {}
    /\ released = <<>>

Cast(v) ==
    /\ votes' = votes \cup {v}
    /\ UNCHANGED <<action, cleared, released>>

\* All that has been voted when the worker is cleared approves.
Clear(w) ==
    /\ Approved(votes)
    /\ cleared' = cleared \cup {w}
    /\ UNCHANGED <<action, votes, released>>

\* The worker gives up, or comes second.
Withdraw(w) ==
    /\ cleared' = cleared \ {w}
    /\ UNCHANGED <<action, votes, released>>

Release(w) ==
    /\ w \in cleared
    /\ released' = Append(released, action)
    /\ cleared' = cleared \ {w}
    /\ UNCHANGED <<action, votes>>

Next ==
    \/ \E v \in Ballots : Cast(v)
    \/ \E w \in Workers : Clear(w) \/ Withdraw(w) \/ Release(w)

Spec == Init /\ [][Next]_vars
===============================================================================
