-------------------------- MODULE EscalationHandler --------------------------
(***************************************************************************)
(* Human approval of one agent's actions (agent_os/integrations/           *)
(* escalation.py): hosts escalate and ask for the resolution, approvers    *)
(* vote, each in a thread of its own.  The queue locks submit, approve,    *)
(* deny and get_decision; the wait, the counting of the quorum and the     *)
(* bookkeeping of the fatigue detector run without a lock and are split    *)
(* where another thread can come between.                                  *)
(*                                                                         *)
(* The handler's configuration is chosen once: with or without a quorum,   *)
(* the answer on a time-out, and a backend that waits                      *)
(* (InMemoryApprovalQueue) or is polled once (WebhookApprovalBackend).     *)
(* Agents share nothing, so there is one.  A blank approver is refused     *)
(* before anything happens and is left out; so is the webhook call, whose  *)
(* failure is swallowed.                                                   *)
(***************************************************************************)
EXTENDS Naturals, FiniteSets

CONSTANTS
    Requests,          \* the requests escalate may create: a bound
    Approvers,
    Hosts,             \* threads that ask for a resolution
    Escalators,        \* those of them that escalate
    RequiredApprovals, \* quorum.required_approvals
    RequiredDenials,   \* quorum.required_denials
    FatigueThreshold,
    FatigueWindow,     \* in units of Tick
    None

Answers == {"ALLOW", "DENY"}

ASSUME SetsAssumption ==
    /\ IsFiniteSet(Requests)
    /\ IsFiniteSet(Approvers)
    /\ Escalators \subseteq Hosts
    /\ None \notin Requests \cup Hosts \cup Answers

\* What QuorumConfig.__post_init__ refuses.
ASSUME QuorumAssumption ==
    /\ RequiredApprovals \in Nat \ {0}
    /\ RequiredDenials \in Nat \ {0}

ASSUME FatigueAssumption == FatigueThreshold \in Nat /\ FatigueWindow \in Nat

VARIABLES
    quorum, onTimeout, waits,   \* the configuration
    submitted,                  \* the backend's requests
    votes, decision,            \* of each request
    event,                      \* the requests whose event is set
    times, age,                 \* _escalation_times of the agent, and their ages
    autoDenied,                 \* requests the fatigue detector denied
    pc, req,                    \* where a host is, and for which request
    recent,                     \* a host's local of _check_fatigue
    listed,                     \* the host whose recent is the list in times
    approvals,                  \* a host's local of resolve
    answer,                     \* what the host's last resolve returned
    asked                       \* history: the votes when it asked

config  == <<quorum, onTimeout, waits>>
ballots == <<votes, decision, event>>
fatigue == <<times, age, recent, listed>>
hosts   == <<pc, req, approvals, answer, asked>>
vars == <<config, submitted, ballots, fatigue, autoDenied, hosts>>

\* How many approvers have voted v on r.
Count(r, v) == Cardinality({a \in Approvers : votes[r][a] = v})

Approved(r) == Count(r, "ALLOW") >= RequiredApprovals
Denied(r)   == Count(r, "DENY") >= RequiredDenials

NotAsked == [approved |-> FALSE, denied |-> FALSE, decision |-> "PENDING"]

Init ==
    /\ quorum \in BOOLEAN
    /\ onTimeout \in Answers
    /\ waits \in BOOLEAN
    /\ submitted = {}
    /\ votes = [r \in Requests |-> [a \in Approvers |-> "none"]]
    /\ decision = [r \in Requests |-> "PENDING"]
    /\ event = {}
    /\ times = {}
    /\ age = [r \in Requests |-> 0]
    /\ autoDenied = {}
    /\ pc = [h \in Hosts |-> "idle"]
    /\ req = [h \in Hosts |-> None]
    /\ recent = [h \in Hosts |-> {}]
    /\ listed = None
    /\ approvals = [h \in Hosts |-> 0]
    /\ answer = [h \in Hosts |-> None]
    /\ asked = [h \in Hosts |-> NotAsked]
-----------------------------------------------------------------------------
(* Escalating                                                              *)

Goto(h, from, to) == pc[h] = from /\ pc' = [pc EXCEPT ![h] = to]

\* _check_fatigue reads the clock and keeps the times within the window ...
ReadTimes(h) ==
    /\ h \in Escalators
    /\ Goto(h, "idle", "prune")
    /\ recent' = [recent EXCEPT ![h] = {r \in times : age[r] < FatigueWindow}]
    /\ UNCHANGED <<config, submitted, ballots, times, age, listed, autoDenied, req,
                   approvals, answer, asked>>

\* ... and stores that list, whatever another call has stored or appended
\* since.  The list it replaces remains that of the call that stored it.
SaveTimes(h) ==
    /\ Goto(h, "prune", "fatigue")
    /\ times' = recent[h]
    /\ listed' = h
    /\ recent' = [g \in Hosts |-> IF g = listed THEN times ELSE recent[g]]
    /\ UNCHANGED <<config, submitted, ballots, age, autoDenied, req, approvals,
                   answer, asked>>

\* The host's own list, which others may have appended to once it is stored.
OwnTimes(h) == IF listed = h THEN times ELSE recent[h]

\* Mutant: the threshold is exceeded only after one more.
FatiguedLate(h) == Cardinality(OwnTimes(h)) > FatigueThreshold

Fatigued(h) == Cardinality(OwnTimes(h)) >= FatigueThreshold

Fresh(r) == r \notin submitted \cup autoDenied /\ \A h \in Hosts : req[h] # r

\* The local goes out of scope.
Forget(h) ==
    /\ recent' = [recent EXCEPT ![h] = {}]
    /\ listed' = IF listed = h THEN None ELSE listed

\* A request of its own, which is never submitted.
AutoDeny(h, r) ==
    /\ Goto(h, "fatigue", "idle")
    /\ Fatigued(h)
    /\ Fresh(r)
    /\ Forget(h)
    /\ autoDenied' = autoDenied \cup {r}
    /\ UNCHANGED <<config, submitted, ballots, times, age, req, approvals, answer,
                   asked>>

\* The time is appended to the list that is stored by now.
RecordTime(h, r) ==
    /\ Goto(h, "fatigue", "submit")
    /\ ~Fatigued(h)
    /\ Fresh(r)
    /\ req' = [req EXCEPT ![h] = r]
    /\ answer' = [answer EXCEPT ![h] = None]
    /\ asked' = [asked EXCEPT ![h] = NotAsked]
    /\ Forget(h)
    /\ times' = times \cup {r}
    /\ UNCHANGED <<config, submitted, ballots, age, autoDenied, approvals>>

Submit(h) ==
    /\ Goto(h, "submit", "idle")
    /\ submitted' = submitted \cup {req[h]}
    /\ UNCHANGED <<config, ballots, fatigue, autoDenied, req, approvals, answer,
                   asked>>

Tick ==
    /\ \E r \in times \cup submitted : age[r] < FatigueWindow
    /\ age' = [r \in Requests |-> IF r \in times \cup submitted /\ age[r] < FatigueWindow
                                  THEN age[r] + 1 ELSE age[r]]
    /\ UNCHANGED <<config, submitted, ballots, times, recent, listed, autoDenied,
                   hosts>>
-----------------------------------------------------------------------------
(* Voting                                                                  *)

\* Mutant: the request need not be known.
VoteUnknown(a, r, v) ==
    /\ votes[r][a] = "none"
    /\ votes' = [votes EXCEPT ![r][a] = v]
    /\ decision' = [decision EXCEPT ![r] = IF @ = "PENDING" THEN v ELSE @]
    /\ UNCHANGED <<config, submitted, event, fatigue, autoDenied, hosts>>

\* approve and deny: a first vote decides, a later one is recorded.
Vote(a, r, v) ==
    /\ r \in submitted
    /\ votes[r][a] = "none"
    /\ votes' = [votes EXCEPT ![r][a] = v]
    /\ decision' = [decision EXCEPT ![r] = IF @ = "PENDING" THEN v ELSE @]
    /\ UNCHANGED <<config, submitted, event, fatigue, autoDenied, hosts>>

\* The voter that decided sets the event once it has given back the lock.
SetEvent(r) ==
    /\ decision[r] # "PENDING"
    /\ r \notin event
    /\ event' = event \cup {r}
    /\ UNCHANGED <<config, submitted, votes, decision, fatigue, autoDenied, hosts>>
-----------------------------------------------------------------------------
(* Resolving                                                               *)

\* resolve returns.
Return(h, from, result) ==
    /\ Goto(h, from, "idle")
    /\ answer' = [answer EXCEPT ![h] = result]
    /\ approvals' = [approvals EXCEPT ![h] = 0]
    /\ UNCHANGED <<config, submitted, ballots, fatigue, autoDenied, req, asked>>

\* The wait of InMemoryApprovalQueue, or the poll of another backend.
BeginResolve(h, r) ==
    /\ r \in submitted
    /\ Goto(h, "idle", IF waits THEN "wait" ELSE "poll")
    /\ req' = [req EXCEPT ![h] = r]
    /\ answer' = [answer EXCEPT ![h] = None]
    /\ asked' = [asked EXCEPT ![h] = [approved |-> Approved(r), denied |-> Denied(r),
                                      decision |-> decision[r]]]
    /\ UNCHANGED <<config, submitted, ballots, fatigue, autoDenied, approvals>>

\* The backend does not know a request that was denied at once: to resolve, it
\* is one nobody has answered.
ResolveUnknown(h, r) ==
    /\ r \in autoDenied
    /\ pc[h] = "idle"
    /\ req' = [req EXCEPT ![h] = r]
    /\ answer' = [answer EXCEPT ![h] = onTimeout]
    /\ asked' = [asked EXCEPT ![h] = NotAsked]
    /\ UNCHANGED <<config, submitted, ballots, fatigue, autoDenied, pc, approvals>>

Wake(h) ==
    /\ Goto(h, "wait", "poll")
    /\ req[h] \in event
    /\ UNCHANGED <<config, submitted, ballots, fatigue, autoDenied, req, approvals,
                   answer, asked>>

\* Mutant: a wait that timed out is answered without a look at the request.
TimeOutAnswers(h) ==
    Return(h, "wait", onTimeout)

TimeOut(h) ==
    /\ Goto(h, "wait", "poll")
    /\ UNCHANGED <<config, submitted, ballots, fatigue, autoDenied, req, approvals,
                   answer, asked>>

\* No decision yet: the default.
ReadNone(h) ==
    /\ Return(h, "poll", onTimeout)
    /\ decision[req[h]] = "PENDING"

\* Mutant: the first vote is taken, quorum or not.
ReadDecisionAnyway(h) ==
    /\ Return(h, "poll", decision[req[h]])
    /\ decision[req[h]] # "PENDING"

ReadDecision(h) ==
    /\ ~quorum
    /\ Return(h, "poll", decision[req[h]])
    /\ decision[req[h]] # "PENDING"

\* One vote makes the quorum be counted: first the approvals ...
CountApprovals(h) ==
    /\ quorum
    /\ Goto(h, "poll", "denials")
    /\ decision[req[h]] # "PENDING"
    /\ approvals' = [approvals EXCEPT ![h] = Count(req[h], "ALLOW")]
    /\ UNCHANGED <<config, submitted, ballots, fatigue, autoDenied, req, answer, asked>>

\* Mutant: approvals are looked at before denials.
TallyAllowFirst(h) ==
    IF approvals[h] >= RequiredApprovals THEN "ALLOW"
    ELSE IF Denied(req[h]) THEN "DENY"
    ELSE onTimeout

Tally(h) ==
    IF Denied(req[h]) THEN "DENY"
    ELSE IF approvals[h] >= RequiredApprovals THEN "ALLOW"
    ELSE onTimeout

\* ... then the denials.
CountDenials(h) == Return(h, "denials", Tally(h))
-----------------------------------------------------------------------------
ResolveStep(h) ==
    Wake(h) \/ TimeOut(h) \/ ReadNone(h) \/ ReadDecision(h) \/ CountApprovals(h) \/ CountDenials(h)

Next ==
    \/ Tick
    \/ \E r \in Requests :
          SetEvent(r) \/ \E a \in Approvers, v \in Answers : Vote(a, r, v)
    \/ \E h \in Hosts :
          \/ ReadTimes(h) \/ SaveTimes(h) \/ Submit(h) \/ ResolveStep(h)
          \/ \E r \in Requests :
                AutoDeny(h, r) \/ RecordTime(h, r) \/ BeginResolve(h, r) \/ ResolveUnknown(h, r)

Spec == Init /\ [][Next]_vars
-----------------------------------------------------------------------------
HostPC == {"idle", "prune", "fatigue", "submit", "wait", "poll", "denials"}

\* The type invariant.
TypeOK ==
    /\ quorum \in BOOLEAN /\ onTimeout \in Answers /\ waits \in BOOLEAN
    /\ submitted \subseteq Requests
    /\ votes \in [Requests -> [Approvers -> Answers \cup {"none"}]]
    /\ decision \in [Requests -> Answers \cup {"PENDING"}]
    /\ event \subseteq submitted
    /\ times \subseteq Requests
    /\ age \in [Requests -> 0 .. FatigueWindow]
    /\ autoDenied \subseteq Requests \ submitted
    /\ pc \in [Hosts -> HostPC]
    /\ req \in [Hosts -> Requests \cup {None}]
    /\ recent \in [Hosts -> SUBSET Requests]
    /\ listed \in Hosts \cup {None}
    /\ approvals \in [Hosts -> Nat]
    /\ answer \in [Hosts -> Answers \cup {None}]
    /\ asked \in [Hosts -> [approved : BOOLEAN, denied : BOOLEAN,
                            decision : Answers \cup {"PENDING"}]]

\* How many approvals, and how many denials, the configuration asks for.
Needed(required) == IF quorum THEN required ELSE 1

\* Where silence means no, a host is told ALLOW only when as many approvers as
\* the configuration requires have approved its request: not for a request the
\* fatigue detector denied, not for one approver voting twice, not on time-out.
AllowIsBacked ==
    \A h \in Hosts : onTimeout = "DENY" /\ answer[h] = "ALLOW" =>
        Count(req[h], "ALLOW") >= Needed(RequiredApprovals)

\* A quorum of denials stands: whoever asks after it is told DENY, whatever has
\* been voted besides, whenever, and whatever a time-out means.
DenialPrevails ==
    \A h \in Hosts : quorum /\ asked[h].denied => answer[h] # "ALLOW"

\* A quorum of approvals, or without a quorum the first vote, is honoured: who
\* asks after it gets that answer, be the event set by then or not, unless a
\* quorum of denials stands as well.
VotesAreHonoured ==
    \A h \in Hosts : answer[h] # None =>
        IF quorum
        THEN asked[h].approved => answer[h] = "ALLOW" \/ Denied(req[h])
        ELSE asked[h].decision # "PENDING" => answer[h] = asked[h].decision

\* No more than fatigue_threshold requests reach the approvers within a window:
\* "maximum number of escalations per agent" (the class docstring). It holds
\* with one thread that escalates, and not with two.
FatigueBounded ==
    Cardinality({r \in submitted : age[r] < FatigueWindow}) <= FatigueThreshold

=============================================================================
