----------------------- MODULE EscalationHandlerProofs -----------------------
(***************************************************************************)
(* What is told to whoever asks, for any number of approvers, hosts and    *)
(* requests, any quorum and any interleaving; and the bound of the fatigue *)
(* detector when one thread escalates.                                     *)
(*                                                                         *)
(* The three properties of answers are about the votes stored when the     *)
(* answer is looked at, and votes are only ever added: what a host has     *)
(* seen when it asked or counted remains true (Kept).  What is left is     *)
(* that a request with a vote is decided, by a vote that was cast          *)
(* (DecidedByVote), so that nobody takes the default once it is voted on.  *)
(***************************************************************************)
EXTENDS EscalationHandler, FiniteSetTheorems, TLAPS

Voters(r, v) == {a \in Approvers : votes[r][a] = v}

\* The number of voters is a number.
LEMMA CountType == ASSUME NEW r, NEW v PROVE Count(r, v) \in Nat
  <1>1. IsFiniteSet(Voters(r, v))
    BY SetsAssumption, FS_Subset DEF Voters
  <1> QED
    BY <1>1, FS_CardinalityType DEF Count, Voters

\* A request is decided once it is voted on, by one of its votes.
DecidedByVote ==
    \A r \in Requests :
        /\ decision[r] # "PENDING" => \E a \in Approvers : votes[r][a] = decision[r]
        /\ \A a \in Approvers :
              votes[r][a] # "none" => decision[r] # "PENDING" /\ r \in submitted

\* What the votes were when the host asked is true of them still.
AskedOk(h) ==
    /\ asked[h].decision # "PENDING" =>
          req[h] \in Requests /\ decision[req[h]] = asked[h].decision
    /\ asked[h].approved => asked[h].decision # "PENDING" /\ Approved(req[h])
    /\ asked[h].denied => asked[h].decision # "PENDING" /\ Denied(req[h])

\* Where a host is in its call.
CallOk(h) ==
    /\ pc[h] \in {"wait", "poll", "denials"} => req[h] \in submitted /\ answer[h] = None
    /\ pc[h] = "submit" => req[h] \in Requests \ autoDenied
    /\ pc[h] = "denials" =>
          /\ quorum
          /\ approvals[h] <= Count(req[h], "ALLOW")
          /\ asked[h].approved => approvals[h] >= RequiredApprovals

\* What it was told.
AnswerOk(h) ==
    answer[h] # None =>
        /\ req[h] \in Requests
        /\ onTimeout = "DENY" /\ answer[h] = "ALLOW" =>
              Count(req[h], "ALLOW") >= Needed(RequiredApprovals)
        /\ quorum /\ asked[h].denied => answer[h] # "ALLOW"
        /\ quorum /\ asked[h].approved => answer[h] = "ALLOW" \/ Denied(req[h])
        /\ ~quorum /\ asked[h].decision # "PENDING" => answer[h] = asked[h].decision

HostOk(h) == AskedOk(h) /\ CallOk(h) /\ AnswerOk(h)

IInv == TypeOK /\ DecidedByVote /\ \A h \in Hosts : HostOk(h)
-----------------------------------------------------------------------------
LEMMA InitInv == Init => IInv
  <1> SUFFICES ASSUME Init PROVE IInv
    OBVIOUS
  <1>1. TypeOK
    BY SetsAssumption, FatigueAssumption DEF Init, TypeOK, Answers, HostPC, NotAsked
  <1>2. DecidedByVote
    BY DEF Init, DecidedByVote
  <1>3. ASSUME NEW h \in Hosts PROVE HostOk(h)
    BY <1>3 DEF Init, HostOk, AskedOk, CallOk, AnswerOk, NotAsked
  <1> QED
    BY <1>1, <1>2, <1>3 DEF IInv

\* Votes are only added, and a decision stays.
Grow ==
    /\ \A r \in Requests, v \in Answers : Count(r, v) <= Count(r, v)'
    /\ \A r \in Requests : decision[r] # "PENDING" => decision'[r] = decision[r]
    /\ submitted \subseteq submitted'
    /\ config' = config

\* A step that leaves the ballots alone.
LEMMA Same == ASSUME IInv, UNCHANGED ballots, UNCHANGED config, submitted \subseteq submitted'
              PROVE Grow /\ DecidedByVote'
  <1>1. \A r \in Requests, v \in Answers : Count(r, v) <= Count(r, v)'
    <2> SUFFICES ASSUME NEW r \in Requests, NEW v \in Answers
                 PROVE Count(r, v) <= Count(r, v)'
      OBVIOUS
    <2>1. Count(r, v)' = Count(r, v)
      BY DEF ballots, Count
    <2> QED
      BY <2>1, CountType
  <1> QED
    BY <1>1 DEF IInv, Grow, DecidedByVote, ballots

\* A vote.
LEMMA VoteGrows == ASSUME IInv, NEW a \in Approvers, NEW r \in Requests, NEW v \in Answers,
                          Vote(a, r, v)
                   PROVE Grow /\ DecidedByVote'
  <1>1. /\ votes' = [votes EXCEPT ![r][a] = v]
        /\ votes[r][a] = "none"
        /\ votes \in [Requests -> [Approvers -> Answers \cup {"none"}]]
    BY DEF Vote, IInv, TypeOK
  <1>2. ASSUME NEW q \in Requests, NEW w \in Answers PROVE Count(q, w) <= Count(q, w)'
    <2>1. Voters(q, w) \subseteq Voters(q, w)'
      BY <1>1 DEF Voters, Answers
    <2>2. IsFiniteSet(Voters(q, w)')
      BY SetsAssumption, FS_Subset DEF Voters
    <2> QED
      BY <2>1, <2>2, FS_Subset DEF Count, Voters
  <1>3. /\ decision \in [Requests -> Answers \cup {"PENDING"}]
        /\ decision' = [decision EXCEPT ![r] = IF decision[r] = "PENDING" THEN v ELSE decision[r]]
        /\ UNCHANGED <<submitted, config>>
        /\ r \in submitted
    BY DEF Vote, IInv, TypeOK
  <1>4. DecidedByVote'
    <2> SUFFICES ASSUME NEW q \in Requests
                 PROVE /\ decision'[q] # "PENDING" =>
                             \E b \in Approvers : votes'[q][b] = decision'[q]
                       /\ \A b \in Approvers : votes'[q][b] # "none" =>
                             decision'[q] # "PENDING" /\ q \in submitted'
      BY DEF DecidedByVote
    <2>1. /\ decision[q] # "PENDING" => \E b \in Approvers : votes[q][b] = decision[q]
          /\ \A b \in Approvers : votes[q][b] # "none" =>
                decision[q] # "PENDING" /\ q \in submitted
      BY DEF IInv, DecidedByVote
    <2>2. CASE q # r
      BY <2>1, <2>2, <1>1, <1>3
    <2>3. CASE q = r /\ decision[r] = "PENDING"
      BY <2>1, <2>3, <1>1, <1>3 DEF Answers
    <2>4. CASE q = r /\ decision[r] # "PENDING"
      <3>1. PICK b \in Approvers : votes[q][b] = decision[q]
        BY <2>1, <2>4
      <3>2. votes'[q][b] = decision'[q]
        BY <3>1, <2>4, <1>1, <1>3 DEF Answers
      <3> QED
        BY <3>2, <2>4, <1>3
    <2> QED
      BY <2>2, <2>3, <2>4
  <1>5. /\ \A q \in Requests : decision[q] # "PENDING" => decision'[q] = decision[q]
        /\ submitted \subseteq submitted' /\ config' = config
    BY <1>3
  <1> QED
    BY <1>2, <1>4, <1>5 DEF Grow
-----------------------------------------------------------------------------
\* The locals of host g.
Locals(g) == <<pc[g], req[g], approvals[g], answer[g], asked[g]>>

\* A host keeps what it knows in a step of somebody else.
LEMMA Kept ==
  ASSUME IInv, Grow, NEW g \in Hosts, Locals(g)' = Locals(g),
         pc[g] = "submit" => req[g] \notin autoDenied'
  PROVE  HostOk(g)'
  <1>1. /\ pc'[g] = pc[g] /\ req'[g] = req[g] /\ approvals'[g] = approvals[g]
        /\ answer'[g] = answer[g] /\ asked'[g] = asked[g]
        /\ quorum' = quorum /\ onTimeout' = onTimeout
        /\ submitted \subseteq submitted'
    BY DEF Locals, Grow, config
  <1>2. HostOk(g)
    BY DEF IInv
  <1>3. ASSUME NEW r \in Requests, NEW v \in Answers
        PROVE  Count(r, v) \in Nat /\ Count(r, v)' \in Nat /\ Count(r, v) <= Count(r, v)'
    <2>1. Count(r, v)' \in Nat
      <3>1. IsFiniteSet(Voters(r, v)')
        BY SetsAssumption, FS_Subset DEF Voters
      <3> QED
        BY <3>1, FS_CardinalityType DEF Count, Voters
    <2> QED
      BY <2>1, CountType DEF Grow
  <1>4. ASSUME NEW r \in Requests PROVE /\ Approved(r) => Approved(r)'
                                        /\ Denied(r) => Denied(r)'
    <2>1. "ALLOW" \in Answers /\ "DENY" \in Answers
      BY DEF Answers
    <2> QED
      BY <2>1, <1>3, QuorumAssumption DEF Approved, Denied
  <1>5. AskedOk(g)'
    <2>1. ASSUME NEW r \in Requests, r = req[g]
          PROVE  /\ Approved(req[g]) => Approved(req[g])'
                 /\ Denied(req[g]) => Denied(req[g])'
                 /\ decision[r] # "PENDING" => decision'[r] = decision[r]
      <3>1. /\ Approved(req[g]) = Approved(r) /\ Approved(req[g])' = Approved(r)'
            /\ Denied(req[g]) = Denied(r) /\ Denied(req[g])' = Denied(r)'
        BY <1>1, <2>1 DEF Count, Denied, Approved
      <3> QED
        BY <3>1, <1>4 DEF Grow
    <2> QED
      BY <1>1, <1>2, <2>1 DEF AskedOk, HostOk
  <1>6. CallOk(g)'
    <2>1. req[g] \in submitted => req[g] \in Requests
      BY DEF IInv, TypeOK
    <2>2. approvals[g] \in Nat
      BY DEF IInv, TypeOK
    <2>3. ASSUME NEW r \in Requests, r = req[g], pc[g] = "denials"
          PROVE  approvals'[g] <= Count(req[g], "ALLOW")'
      <3>1. Count(req[g], "ALLOW") = Count(r, "ALLOW") /\ Count(req[g], "ALLOW")' = Count(r, "ALLOW")'
        BY <1>1, <2>3 DEF Count
      <3>2. approvals[g] <= Count(req[g], "ALLOW")
        BY <2>3, <1>2 DEF HostOk, CallOk
      <3> QED
        BY <3>1, <3>2, <1>1, <1>3, <2>2, <2>3 DEF Answers
    <2> QED
      BY <1>1, <1>2, <2>1, <2>3 DEF CallOk, HostOk
  <1>7. AnswerOk(g)'
    <2> SUFFICES ASSUME answer[g] # None
                 PROVE AnswerOk(g)'
      BY <1>1 DEF AnswerOk
    <2>1. PICK r \in Requests : r = req[g]
      BY <1>2 DEF HostOk, AnswerOk
    <2>2. Needed(RequiredApprovals)' = Needed(RequiredApprovals)
      BY <1>1 DEF Needed
    <2>3. Needed(RequiredApprovals) \in Nat
      BY QuorumAssumption DEF Needed
    <2>4. /\ Count(req[g], "ALLOW") = Count(r, "ALLOW")
          /\ Count(req[g], "ALLOW")' = Count(r, "ALLOW")'
          /\ Denied(req[g]) = Denied(r)
          /\ Denied(req[g])' = Denied(r)'
      BY <1>1, <2>1 DEF Count, Denied
    <2>5. /\ Count(r, "ALLOW") >= Needed(RequiredApprovals)
             => Count(r, "ALLOW")' >= Needed(RequiredApprovals)
          /\ Denied(r) => Denied(r)'
      BY <2>3, <1>3, <1>4 DEF Answers
    <2> QED
      BY <1>1, <1>2, <2>1, <2>2, <2>4, <2>5 DEF AnswerOk, HostOk
  <1> QED
    BY <1>5, <1>6, <1>7 DEF HostOk
-----------------------------------------------------------------------------
\* The types are kept.
LEMMA TypeStep == ASSUME IInv, [Next]_vars PROVE TypeOK'
  <1> USE DEF TypeOK, IInv, config, ballots, fatigue, hosts, HostPC, Answers
  <1>1. CASE Tick
    <2>1. age' \in [Requests -> 0 .. FatigueWindow]
      BY <1>1, FatigueAssumption DEF Tick
    <2> QED
      BY <1>1, <2>1 DEF Tick
  <1>2. ASSUME NEW r \in Requests, SetEvent(r) PROVE TypeOK'
    <2>1. r \in submitted
      <3>1. decision[r] # "PENDING"
        BY <1>2 DEF SetEvent
      <3>2. PICK a \in Approvers : votes[r][a] = decision[r]
        BY <3>1 DEF DecidedByVote
      <3> QED
        BY <3>1, <3>2, <1>2 DEF DecidedByVote, SetEvent
    <2> QED
      BY <1>2, <2>1 DEF SetEvent
  <1>3. ASSUME NEW a \in Approvers, NEW r \in Requests, NEW v \in Answers, Vote(a, r, v)
        PROVE  TypeOK'
    BY <1>3 DEF Vote
  <1>4. ASSUME NEW h \in Hosts, ReadTimes(h) PROVE TypeOK'
    BY <1>4 DEF ReadTimes, Goto
  <1>5. ASSUME NEW h \in Hosts, SaveTimes(h) PROVE TypeOK'
    BY <1>5 DEF SaveTimes, Goto
  <1>6. ASSUME NEW h \in Hosts, Submit(h) PROVE TypeOK'
    BY <1>6 DEF Submit, Goto, HostOk, CallOk
  <1>7. ASSUME NEW h \in Hosts, ResolveStep(h) PROVE TypeOK'
    <2>1. ASSUME NEW from, NEW result \in Answers, Return(h, from, result) PROVE TypeOK'
      BY <2>1 DEF Return, Goto
    <2>2. Tally(h) \in Answers
      BY DEF Tally
    <2>3. CASE ReadNone(h)
      BY <2>1, <2>3 DEF ReadNone
    <2>4. CASE ReadDecision(h)
      <3>1. pc[h] = "poll"
        BY <2>4 DEF ReadDecision, Return, Goto
      <3>2. decision[req[h]] \in Answers
        BY <3>1, <2>4 DEF ReadDecision, HostOk, CallOk
      <3> QED
        BY <2>1, <2>4, <3>2 DEF ReadDecision
    <2>5. CASE CountDenials(h)
      BY <2>1, <2>2, <2>5 DEF CountDenials
    <2>6. CASE CountApprovals(h)
      BY <2>6, CountType DEF CountApprovals, Goto
    <2>7. CASE Wake(h)
      BY <2>7 DEF Wake, Goto
    <2>8. CASE TimeOut(h)
      BY <2>8 DEF TimeOut, Goto
    <2> QED
      BY <1>7, <2>3, <2>4, <2>5, <2>6, <2>7, <2>8 DEF ResolveStep
  <1>8. ASSUME NEW h \in Hosts, NEW r \in Requests, AutoDeny(h, r) PROVE TypeOK'
    BY <1>8 DEF AutoDeny, Goto, Forget, Fresh
  <1>9. ASSUME NEW h \in Hosts, NEW r \in Requests, RecordTime(h, r) PROVE TypeOK'
    BY <1>9 DEF RecordTime, Goto, Forget, Fresh, NotAsked
  <1>10. ASSUME NEW h \in Hosts, NEW r \in Requests, BeginResolve(h, r) PROVE TypeOK'
    BY <1>10 DEF BeginResolve, Goto, Approved, Denied
  <1>11. ASSUME NEW h \in Hosts, NEW r \in Requests, ResolveUnknown(h, r) PROVE TypeOK'
    BY <1>11 DEF ResolveUnknown, NotAsked
  <1>12. CASE UNCHANGED vars
    BY <1>12 DEF vars
  <1> QED
    BY <1>1, <1>2, <1>3, <1>4, <1>5, <1>6, <1>7, <1>8, <1>9, <1>10, <1>11, <1>12 DEF Next
-----------------------------------------------------------------------------
\* In a step of one host, the others keep what they know.
LEMMA OthersKept ==
  ASSUME IInv, Grow, NEW h \in Hosts, HostOk(h)',
         \A g \in Hosts : g # h => Locals(g)' = Locals(g),
         \A g \in Hosts : g # h /\ pc[g] = "submit" => req[g] \notin autoDenied'
  PROVE  \A g \in Hosts : HostOk(g)'
  <1> SUFFICES ASSUME NEW g \in Hosts, g # h PROVE HostOk(g)'
    OBVIOUS
  <1> QED
    BY Kept

\* In a step of nobody, all do.
LEMMA AllKept ==
  ASSUME IInv, Grow, UNCHANGED hosts, UNCHANGED autoDenied
  PROVE  \A g \in Hosts : HostOk(g)'
  <1> SUFFICES ASSUME NEW g \in Hosts PROVE HostOk(g)'
    OBVIOUS
  <1>1. Locals(g)' = Locals(g)
    BY DEF hosts, Locals
  <1>2. pc[g] = "submit" => req[g] \notin autoDenied'
    BY DEF IInv, HostOk, CallOk
  <1> QED
    BY <1>1, <1>2, Kept

\* Returning an answer that the votes bear out.
LEMMA ReturnOk ==
  ASSUME IInv, NEW h \in Hosts, NEW from, NEW result \in Answers, Return(h, from, result),
         pc[h] \in {"poll", "denials"},
         onTimeout = "DENY" /\ result = "ALLOW" =>
            Count(req[h], "ALLOW") >= Needed(RequiredApprovals),
         quorum /\ asked[h].denied => result # "ALLOW",
         quorum /\ asked[h].approved => result = "ALLOW" \/ Denied(req[h]),
         ~quorum /\ asked[h].decision # "PENDING" => result = asked[h].decision
  PROVE  Grow /\ DecidedByVote' /\ \A g \in Hosts : HostOk(g)'
  <1>1. Grow /\ DecidedByVote'
    BY Same DEF Return
  <1>2. /\ pc' = [pc EXCEPT ![h] = "idle"] /\ answer' = [answer EXCEPT ![h] = result]
        /\ approvals' = [approvals EXCEPT ![h] = 0]
        /\ UNCHANGED <<quorum, onTimeout, submitted, votes, decision, autoDenied, req, asked>>
        /\ HostOk(h) /\ TypeOK
    BY DEF Return, Goto, config, ballots, IInv
  <1>3. /\ Count(req[h], "ALLOW")' = Count(req[h], "ALLOW")
        /\ Denied(req[h])' = Denied(req[h])
        /\ Approved(req[h])' = Approved(req[h])
        /\ Needed(RequiredApprovals)' = Needed(RequiredApprovals)
    BY <1>2 DEF Count, Denied, Approved, Needed
  <1>4. HostOk(h)'
    <2>1. AskedOk(h)'
      BY <1>2, <1>3 DEF HostOk, AskedOk
    <2>2. CallOk(h)'
      BY <1>2 DEF CallOk, TypeOK
    <2>3. AnswerOk(h)'
      BY <1>2, <1>3 DEF AnswerOk, TypeOK, HostOk, CallOk
    <2> QED
      BY <2>1, <2>2, <2>3 DEF HostOk
  <1>5. \A g \in Hosts : g # h => Locals(g)' = Locals(g)
    BY <1>2 DEF Locals, TypeOK
  <1>6. \A g \in Hosts : g # h /\ pc[g] = "submit" => req[g] \notin autoDenied'
    BY <1>2 DEF IInv, HostOk, CallOk
  <1> QED
    BY <1>1, <1>4, <1>5, <1>6, OthersKept
-----------------------------------------------------------------------------
\* A count is positive exactly if there is a vote.
LEMMA Voted == ASSUME NEW r, NEW v
               PROVE  Count(r, v) >= 1 <=> \E a \in Approvers : votes[r][a] = v
  <1>1. IsFiniteSet(Voters(r, v))
    BY SetsAssumption, FS_Subset DEF Voters
  <1>2. Cardinality(Voters(r, v)) = 0 <=> Voters(r, v) = {}
    BY <1>1, FS_EmptySet
  <1>3. Count(r, v) \in Nat /\ Count(r, v) = Cardinality(Voters(r, v))
    BY CountType DEF Count, Voters
  <1>4. Count(r, v) >= 1 <=> Voters(r, v) # {}
    BY <1>2, <1>3
  <1> QED
    BY <1>4 DEF Voters

\* A request that is approved or denied is decided.
LEMMA QuorumDecides == ASSUME IInv, NEW r \in Requests
                       PROVE  Approved(r) \/ Denied(r) => decision[r] # "PENDING"
  <1> SUFFICES ASSUME Approved(r) \/ Denied(r) PROVE decision[r] # "PENDING"
    OBVIOUS
  <1>1. Count(r, "ALLOW") >= 1 \/ Count(r, "DENY") >= 1
    BY QuorumAssumption, CountType DEF Approved, Denied
  <1>2. PICK a \in Approvers : votes[r][a] = "ALLOW" \/ votes[r][a] = "DENY"
    BY <1>1, Voted
  <1> QED
    BY <1>2 DEF IInv, DecidedByVote

LEMMA ResolveStepOk ==
  ASSUME IInv, NEW h \in Hosts, ResolveStep(h)
  PROVE  DecidedByVote' /\ \A g \in Hosts : HostOk(g)'
  <1>0. HostOk(h) /\ TypeOK /\ DecidedByVote
    BY DEF IInv
  <1>1. CASE ReadNone(h)
    <2>1. Return(h, "poll", onTimeout) /\ pc[h] = "poll" /\ decision[req[h]] = "PENDING"
      BY <1>1 DEF ReadNone, Return, Goto
    <2>2. asked[h].decision = "PENDING" /\ ~asked[h].approved /\ ~asked[h].denied
      BY <2>1, <1>0 DEF HostOk, AskedOk, TypeOK
    <2>3. onTimeout \in Answers
      BY <1>0 DEF TypeOK
    <2> QED
      BY <2>1, <2>2, <2>3, ReturnOk
  <1>2. CASE ReadDecision(h)
    <2>1. /\ Return(h, "poll", decision[req[h]]) /\ pc[h] = "poll"
          /\ decision[req[h]] # "PENDING" /\ ~quorum
      BY <1>2 DEF ReadDecision, Return, Goto
    <2>2. req[h] \in Requests /\ decision[req[h]] \in Answers
      BY <2>1, <1>0 DEF HostOk, CallOk, TypeOK
    <2>3. Count(req[h], decision[req[h]]) >= 1
      BY <2>1, <2>2, <1>0, Voted DEF DecidedByVote
    <2>4. Needed(RequiredApprovals) = 1
      BY <2>1 DEF Needed
    <2>5. asked[h].decision # "PENDING" => decision[req[h]] = asked[h].decision
      BY <1>0 DEF HostOk, AskedOk
    <2> QED
      BY <2>1, <2>2, <2>3, <2>4, <2>5, ReturnOk
  <1>3. CASE CountDenials(h)
    <2>1. Return(h, "denials", Tally(h)) /\ pc[h] = "denials" /\ quorum
      BY <1>3, <1>0 DEF CountDenials, Return, Goto, HostOk, CallOk
    <2>2. /\ approvals[h] <= Count(req[h], "ALLOW")
          /\ asked[h].approved => approvals[h] >= RequiredApprovals
          /\ asked[h].denied => Denied(req[h])
      BY <2>1, <1>0 DEF HostOk, CallOk, AskedOk
    <2>3. Tally(h) \in Answers
      BY <1>0 DEF Tally, TypeOK, Answers
    <2>4. Tally(h) = "ALLOW" => onTimeout = "ALLOW" \/ approvals[h] >= RequiredApprovals
      BY DEF Tally
    <2>5. asked[h].approved => Tally(h) = "ALLOW" \/ Denied(req[h])
      BY <2>2 DEF Tally
    <2>6. asked[h].denied => Tally(h) # "ALLOW"
      BY <2>2 DEF Tally
    <2>7. onTimeout = "DENY" /\ Tally(h) = "ALLOW" =>
            Count(req[h], "ALLOW") >= Needed(RequiredApprovals)
      BY <2>1, <2>2, <2>4, <1>0, CountType, QuorumAssumption DEF Needed, TypeOK
    <2> QED
      BY <2>1, <2>3, <2>5, <2>6, <2>7, ReturnOk
  <1>4. CASE Wake(h) \/ TimeOut(h) \/ CountApprovals(h)
    <2>1. /\ UNCHANGED <<config, submitted, ballots, autoDenied, req, answer, asked>>
          /\ \E to \in {"poll", "denials"} : pc' = [pc EXCEPT ![h] = to]
          /\ pc[h] \in {"wait", "poll"}
      BY <1>4 DEF Wake, TimeOut, CountApprovals, Goto
    <2>2. Grow /\ DecidedByVote'
      BY <2>1, Same
    <2>3. /\ Count(req[h], "ALLOW")' = Count(req[h], "ALLOW")
          /\ Denied(req[h])' = Denied(req[h])
          /\ Approved(req[h])' = Approved(req[h])
      BY <2>1 DEF Count, Denied, Approved, ballots
    <2>4. AskedOk(h)'
      BY <2>1, <2>3, <1>0 DEF HostOk, AskedOk, ballots
    <2>5. CallOk(h)'
      <3>1. CASE Wake(h) \/ TimeOut(h)
        BY <3>1, <2>1, <1>0 DEF Wake, TimeOut, Goto, HostOk, CallOk, TypeOK
      <3>2. CASE CountApprovals(h)
        <4>1. /\ quorum /\ pc' = [pc EXCEPT ![h] = "denials"]
              /\ approvals' = [approvals EXCEPT ![h] = Count(req[h], "ALLOW")]
          BY <3>2 DEF CountApprovals, Goto
        <4>2. asked[h].approved => Count(req[h], "ALLOW") >= RequiredApprovals
          BY <1>0 DEF HostOk, AskedOk, Approved
        <4>3. approvals'[h] = Count(req[h], "ALLOW") /\ pc'[h] = "denials"
          BY <4>1, <1>0 DEF TypeOK
        <4>4. Count(req[h], "ALLOW") \in Nat
          BY CountType
        <4>5. req[h] \in submitted /\ answer[h] = None
          BY <2>1, <1>0 DEF HostOk, CallOk
        <4>6. UNCHANGED <<quorum, submitted, answer, asked, req>>
          BY <2>1 DEF config
        <4> QED
          BY <4>1, <4>2, <4>3, <4>4, <4>5, <4>6, <2>3 DEF CallOk
      <3> QED
        BY <1>4, <3>1, <3>2
    <2>6. AnswerOk(h)'
      BY <2>1, <1>0 DEF AnswerOk, HostOk, CallOk
    <2>7. \A g \in Hosts : g # h => Locals(g)' = Locals(g)
      BY <1>4, <2>1, <1>0 DEF Locals, TypeOK, Wake, TimeOut, CountApprovals
    <2>8. \A g \in Hosts : g # h /\ pc[g] = "submit" => req[g] \notin autoDenied'
      BY <2>1 DEF IInv, HostOk, CallOk
    <2> QED
      BY <2>2, <2>4, <2>5, <2>6, <2>7, <2>8, OthersKept DEF HostOk
  <1> QED
    BY <1>1, <1>2, <1>3, <1>4 DEF ResolveStep
-----------------------------------------------------------------------------
\* The steps of escalate.
LEMMA EscalateOk ==
  ASSUME IInv, NEW h \in Hosts,
         \/ ReadTimes(h) \/ SaveTimes(h) \/ Submit(h)
         \/ \E r \in Requests : AutoDeny(h, r) \/ RecordTime(h, r)
  PROVE  DecidedByVote' /\ \A g \in Hosts : HostOk(g)'
  <1>0. HostOk(h) /\ TypeOK
    BY DEF IInv
  <1>1. UNCHANGED ballots /\ UNCHANGED config /\ submitted \subseteq submitted'
    BY DEF ReadTimes, SaveTimes, Submit, AutoDeny, RecordTime, config, ballots
  <1>2. Grow /\ DecidedByVote'
    BY <1>1, Same
  <1>3. /\ \A g \in Hosts : g # h => Locals(g)' = Locals(g)
        /\ UNCHANGED approvals
    BY <1>0 DEF ReadTimes, SaveTimes, Submit, AutoDeny, RecordTime, Goto, Locals, TypeOK
  <1>4. \A g \in Hosts : g # h /\ pc[g] = "submit" => req[g] \notin autoDenied'
    <2>1. ASSUME NEW g \in Hosts, pc[g] = "submit" PROVE req[g] \notin autoDenied'
      <3>1. req[g] \notin autoDenied
        BY <2>1 DEF IInv, HostOk, CallOk
      <3> QED
        BY <3>1 DEF ReadTimes, SaveTimes, Submit, AutoDeny, RecordTime, Fresh
    <2> QED
      BY <2>1
  <1>5. HostOk(h)'
    <2>1. CASE \E r \in Requests : RecordTime(h, r)
      <3>1. PICK r \in Requests : RecordTime(h, r)
        BY <2>1
      <3>2. /\ pc'[h] = "submit" /\ req'[h] = r /\ answer'[h] = None /\ asked'[h] = NotAsked
            /\ r \notin autoDenied'
        BY <3>1, <1>0 DEF RecordTime, Goto, Fresh, TypeOK
      <3> QED
        BY <3>2 DEF HostOk, AskedOk, CallOk, AnswerOk, NotAsked
    <2>2. CASE ReadTimes(h) \/ SaveTimes(h) \/ Submit(h) \/ \E r \in Requests : AutoDeny(h, r)
      <3>1. /\ UNCHANGED <<req, answer, asked>>
            /\ pc'[h] \in {"idle", "prune", "fatigue"}
        BY <2>2, <1>0 DEF ReadTimes, SaveTimes, Submit, AutoDeny, Goto, TypeOK
      <3>2. /\ Count(req[h], "ALLOW")' = Count(req[h], "ALLOW")
            /\ Denied(req[h])' = Denied(req[h])
            /\ Approved(req[h])' = Approved(req[h])
            /\ Needed(RequiredApprovals)' = Needed(RequiredApprovals)
        BY <3>1, <1>1 DEF Count, Denied, Approved, Needed, ballots, config
      <3>3. AskedOk(h)'
        BY <3>1, <3>2, <1>0, <1>1 DEF HostOk, AskedOk, ballots
      <3>4. CallOk(h)'
        BY <3>1 DEF CallOk
      <3>5. AnswerOk(h)'
        BY <3>1, <3>2, <1>0, <1>1 DEF HostOk, AnswerOk, config
      <3> QED
        BY <3>3, <3>4, <3>5 DEF HostOk
    <2> QED
      BY <2>1, <2>2
  <1> QED
    BY <1>2, <1>3, <1>4, <1>5, OthersKept

\* A host that asks, or is told of a request the backend does not know.
LEMMA AskOk ==
  ASSUME IInv, NEW h \in Hosts, NEW r \in Requests, BeginResolve(h, r) \/ ResolveUnknown(h, r)
  PROVE  DecidedByVote' /\ \A g \in Hosts : HostOk(g)'
  <1>0. HostOk(h) /\ TypeOK
    BY DEF IInv
  <1>1. UNCHANGED ballots /\ UNCHANGED config /\ submitted \subseteq submitted' /\ autoDenied' = autoDenied
    BY DEF BeginResolve, ResolveUnknown, config, ballots
  <1>2. Grow /\ DecidedByVote'
    BY <1>1, Same
  <1>3. \A g \in Hosts : g # h => Locals(g)' = Locals(g)
    BY <1>0 DEF BeginResolve, ResolveUnknown, Goto, Locals, TypeOK
  <1>4. \A g \in Hosts : g # h /\ pc[g] = "submit" => req[g] \notin autoDenied'
    BY <1>1 DEF IInv, HostOk, CallOk
  <1>5. CASE BeginResolve(h, r)
    <2>1. /\ pc'[h] \in {"wait", "poll"} /\ req'[h] = r /\ answer'[h] = None
          /\ asked'[h] = [approved |-> Approved(r), denied |-> Denied(r), decision |-> decision[r]]
          /\ r \in submitted'
      BY <1>0, <1>5 DEF BeginResolve, Goto, TypeOK
    <2>2. /\ Approved(r)' = Approved(r) /\ Denied(r)' = Denied(r) /\ decision' = decision
      BY <1>1 DEF Approved, Denied, Count, ballots
    <2>3. Approved(req[h])' = Approved(r)' /\ Denied(req[h])' = Denied(r)'
      BY <2>1 DEF Approved, Denied, Count
    <2>4. AskedOk(h)'
      BY <2>1, <2>2, <2>3, QuorumDecides DEF AskedOk
    <2>5. CallOk(h)' /\ AnswerOk(h)'
      BY <2>1 DEF CallOk, AnswerOk
    <2> QED
      BY <2>4, <2>5, <1>2, <1>3, <1>4, OthersKept DEF HostOk
  <1>6. CASE ResolveUnknown(h, r)
    <2>1. /\ pc'[h] = "idle" /\ req'[h] = r /\ answer'[h] = onTimeout /\ asked'[h] = NotAsked
          /\ onTimeout' = onTimeout
      BY <1>0, <1>6 DEF ResolveUnknown, TypeOK, config
    <2>2. AskedOk(h)' /\ CallOk(h)' /\ AnswerOk(h)'
      BY <2>1 DEF AskedOk, CallOk, AnswerOk, NotAsked
    <2> QED
      BY <2>2, <1>2, <1>3, <1>4, OthersKept DEF HostOk
  <1> QED
    BY <1>5, <1>6

LEMMA Step == IInv /\ [Next]_vars => IInv'
  <1> SUFFICES ASSUME IInv, [Next]_vars PROVE IInv'
    OBVIOUS
  <1>1. CASE Tick \/ (\E r \in Requests : SetEvent(r)) \/ UNCHANGED vars
    <2>1. /\ UNCHANGED <<votes, decision>> /\ UNCHANGED <<config, submitted, autoDenied>>
          /\ UNCHANGED hosts
      BY <1>1 DEF Tick, SetEvent, vars, ballots, hosts, config
    <2>2. ASSUME NEW r, NEW v PROVE Count(r, v)' = Count(r, v)
      BY <2>1 DEF Count
    <2>3. Grow
      BY <2>1, <2>2, CountType DEF Grow
    <2>4. DecidedByVote'
      BY <2>1 DEF IInv, DecidedByVote
    <2> QED
      BY <2>1, <2>3, <2>4, AllKept, TypeStep DEF IInv
  <1>2. ASSUME NEW r \in Requests, NEW a \in Approvers, NEW v \in Answers, Vote(a, r, v)
        PROVE  IInv'
    <2>1. UNCHANGED hosts /\ UNCHANGED autoDenied
      BY <1>2 DEF Vote
    <2> QED
      BY <1>2, <2>1, VoteGrows, AllKept, TypeStep DEF IInv
  <1>3. ASSUME NEW h \in Hosts,
               \/ ReadTimes(h) \/ SaveTimes(h) \/ Submit(h)
               \/ \E r \in Requests : AutoDeny(h, r) \/ RecordTime(h, r)
        PROVE  IInv'
    BY <1>3, EscalateOk, TypeStep DEF IInv
  <1>4. ASSUME NEW h \in Hosts, NEW r \in Requests, BeginResolve(h, r) \/ ResolveUnknown(h, r)
        PROVE  IInv'
    BY <1>4, AskOk, TypeStep DEF IInv
  <1>5. ASSUME NEW h \in Hosts, ResolveStep(h) PROVE IInv'
    BY <1>5, ResolveStepOk, TypeStep DEF IInv
  <1> QED
    BY <1>1, <1>2, <1>3, <1>4, <1>5 DEF Next

LEMMA Invariance == Spec => []IInv
  BY InitInv, Step, PTL DEF Spec
-----------------------------------------------------------------------------
\* Types, among them that the backend knows no request the fatigue detector denied.
THEOREM TypeCorrect == Spec => []TypeOK
  <1>1. IInv => TypeOK
    BY DEF IInv
  <1> QED
    BY <1>1, Invariance, PTL

\* Where silence means no, an ALLOW has as many approvals as are required.
THEOREM AllowsAreBacked == Spec => []AllowIsBacked
  <1>1. IInv => AllowIsBacked
    BY SetsAssumption DEF IInv, HostOk, AnswerOk, Answers, AllowIsBacked
  <1> QED
    BY <1>1, Invariance, PTL

\* Nobody who asks after a quorum of denials is told ALLOW.
THEOREM DenialsPrevail == Spec => []DenialPrevails
  <1>1. IInv => DenialPrevails
    BY SetsAssumption DEF IInv, HostOk, AnswerOk, Answers, DenialPrevails
  <1> QED
    BY <1>1, Invariance, PTL

\* Who asks after a quorum of approvals, or a first vote, is told so.
THEOREM VotesCount == Spec => []VotesAreHonoured
  <1>1. IInv => VotesAreHonoured
    BY DEF IInv, HostOk, AnswerOk, VotesAreHonoured
  <1> QED
    BY <1>1, Invariance, PTL
-----------------------------------------------------------------------------
\* The requests of a set that the window still covers.
Within(S) == {r \in S : age[r] < FatigueWindow}

\* What escalate knows when one thread e escalates: the list that is stored is
\* its own, holds every request the window covers, and no more of them than the
\* threshold.
FatigueInv(e) ==
    /\ \A h \in Hosts \ {e} : pc[h] \notin {"prune", "fatigue", "submit"}
    /\ Within(submitted) \subseteq times
    /\ Cardinality(Within(times)) <= FatigueThreshold
    /\ pc[e] = "prune" => recent[e] \subseteq times /\ Within(times) \subseteq recent[e]
    /\ pc[e] = "fatigue" => listed = e
    /\ pc[e] = "submit" => req[e] \in times

LEMMA SmallerSet == ASSUME NEW S \in SUBSET Requests, NEW T, T \subseteq S
                    PROVE  /\ IsFiniteSet(S) /\ IsFiniteSet(T)
                           /\ Cardinality(S) \in Nat /\ Cardinality(T) \in Nat
                           /\ Cardinality(T) <= Cardinality(S)
  <1>1. IsFiniteSet(S)
    BY SetsAssumption, FS_Subset
  <1> QED
    BY <1>1, FS_Subset, FS_CardinalityType

LEMMA FatigueStep ==
  ASSUME NEW e \in Hosts, Escalators = {e}, IInv, FatigueInv(e), [Next]_vars
  PROVE  FatigueInv(e)'
  <1> USE DEF FatigueInv
  <1>0. TypeOK /\ TypeOK'
    BY TypeStep DEF IInv
  <1>1. CASE Tick
    <2>1. /\ \A r \in Requests : age'[r] < FatigueWindow => age[r] < FatigueWindow
          /\ UNCHANGED <<submitted, times, recent, listed, pc, req>>
      BY <1>0, <1>1, FatigueAssumption DEF Tick, TypeOK, hosts
    <2>2. Within(times)' \subseteq Within(times) /\ Within(submitted)' \subseteq Within(submitted)
      BY <2>1, <1>0 DEF Within, TypeOK
    <2>3. Cardinality(Within(times)') <= FatigueThreshold
      <3>1. Within(times) \in SUBSET Requests
        BY <1>0 DEF Within, TypeOK
      <3> QED
        BY <3>1, <2>2, SmallerSet, FatigueAssumption
    <2> QED
      BY <2>1, <2>2, <2>3
  <1>2. CASE \/ UNCHANGED vars
             \/ \E r \in Requests : SetEvent(r) \/ \E a \in Approvers, v \in Answers : Vote(a, r, v)
    <2>1. UNCHANGED <<submitted, times, age, recent, listed, pc, req>>
      BY <1>2 DEF vars, SetEvent, Vote, hosts, fatigue
    <2> QED
      BY <2>1 DEF Within
  <1>3. ASSUME NEW h \in Hosts,
               ResolveStep(h) \/ \E r \in Requests : BeginResolve(h, r) \/ ResolveUnknown(h, r)
        PROVE  FatigueInv(e)'
    <2>1. UNCHANGED <<submitted, times, age, recent, listed>>
      BY <1>3 DEF ResolveStep, Wake, TimeOut, ReadNone, ReadDecision, CountApprovals,
                  CountDenials, Return, BeginResolve, ResolveUnknown, fatigue
    <2>2. /\ \A g \in Hosts : g # h => pc'[g] = pc[g] /\ req'[g] = req[g]
          /\ pc'[h] \notin {"prune", "fatigue", "submit"}
      BY <1>3, <1>0 DEF ResolveStep, Wake, TimeOut, ReadNone, ReadDecision, CountApprovals,
                  CountDenials, Return, BeginResolve, ResolveUnknown, Goto, TypeOK
    <2> QED
      BY <2>1, <2>2 DEF Within
  <1>4. ASSUME NEW h \in Hosts, ReadTimes(h) PROVE FatigueInv(e)'
    <2>1. h = e /\ pc' = [pc EXCEPT ![e] = "prune"]
          /\ recent' = [recent EXCEPT ![e] = Within(times)]
          /\ UNCHANGED <<submitted, times, age, listed, req>>
      BY <1>4 DEF ReadTimes, Goto, Within
    <2> QED
      BY <2>1, <1>0 DEF TypeOK, Within
  <1>5. ASSUME NEW h \in Hosts, SaveTimes(h) PROVE FatigueInv(e)'
    <2>1. h = e /\ pc[e] = "prune" /\ pc' = [pc EXCEPT ![e] = "fatigue"]
          /\ times' = recent[e] /\ listed' = e
          /\ UNCHANGED <<submitted, age, req>>
      BY <1>5 DEF SaveTimes, Goto
    <2>2. Within(submitted)' = Within(submitted) /\ Within(times)' = Within(times)
      BY <2>1 DEF Within
    <2>3. Within(submitted) \subseteq recent[e]
      BY <2>1 DEF Within
    <2> QED
      BY <2>1, <2>2, <2>3, <1>0 DEF TypeOK
  <1>6. ASSUME NEW h \in Hosts, NEW r \in Requests, AutoDeny(h, r) PROVE FatigueInv(e)'
    <2>1. h = e /\ pc' = [pc EXCEPT ![e] = "idle"] /\ UNCHANGED <<submitted, times, age, req>>
      BY <1>6 DEF AutoDeny, Goto
    <2> QED
      BY <2>1, <1>0 DEF TypeOK, Within
  <1>7. ASSUME NEW h \in Hosts, NEW r \in Requests, RecordTime(h, r) PROVE FatigueInv(e)'
    <2>1. /\ h = e /\ pc[e] = "fatigue" /\ pc' = [pc EXCEPT ![e] = "submit"]
          /\ times' = times \cup {r} /\ req' = [req EXCEPT ![e] = r]
          /\ ~Fatigued(e)
          /\ UNCHANGED <<submitted, age>>
      BY <1>7 DEF RecordTime, Goto
    <2>2. times \in SUBSET Requests /\ IsFiniteSet(times) /\ Cardinality(times) \in Nat
      BY <1>0, SmallerSet DEF TypeOK
    <2>3. Cardinality(times) < FatigueThreshold
      <3>1. OwnTimes(e) = times
        BY <2>1 DEF OwnTimes
      <3> QED
        BY <2>1, <2>2, <3>1, FatigueAssumption DEF Fatigued
    <2>4. Cardinality(times \cup {r}) <= Cardinality(times) + 1
      <3>1. Cardinality(times \cup {r}) = IF r \in times THEN Cardinality(times)
                                           ELSE Cardinality(times) + 1
        BY <2>2, FS_AddElement, Zenon
      <3> QED
        BY <2>2, <3>1
    <2>5. Within(times)' \subseteq times \cup {r} /\ times \cup {r} \in SUBSET Requests
      BY <2>1, <2>2 DEF Within
    <2>6. /\ Cardinality(Within(times)') <= Cardinality(times \cup {r})
          /\ Cardinality(Within(times)') \in Nat /\ Cardinality(times \cup {r}) \in Nat
      BY <2>5, SmallerSet
    <2>7. Cardinality(Within(times)') <= FatigueThreshold
      BY <2>2, <2>3, <2>4, <2>6, FatigueAssumption
    <2> QED
      BY <2>1, <2>7, <1>0 DEF TypeOK, Within
  <1>8. ASSUME NEW h \in Hosts, Submit(h) PROVE FatigueInv(e)'
    <2>1. /\ h = e /\ pc[e] = "submit" /\ pc' = [pc EXCEPT ![e] = "idle"]
          /\ submitted' = submitted \cup {req[e]}
          /\ UNCHANGED <<times, age, req>>
      BY <1>8 DEF Submit, Goto, fatigue
    <2> QED
      BY <2>1, <1>0 DEF TypeOK, Within
  <1> QED
    BY <1>1, <1>2, <1>3, <1>4, <1>5, <1>6, <1>7, <1>8 DEF Next

\* One thread that escalates keeps to fatigue_threshold, for any number of
\* requests, any threshold and any window.
THEOREM OneEscalatorIsBounded ==
  ASSUME NEW e \in Hosts, Escalators = {e}
  PROVE  Spec => []FatigueBounded
  <1>1. Init => FatigueInv(e)
    <2> SUFFICES ASSUME Init PROVE FatigueInv(e)
      OBVIOUS
    <2>1. times = {} /\ submitted = {} /\ \A h \in Hosts : pc[h] = "idle"
      BY DEF Init
    <2>2. Within(times) = {} /\ Within(submitted) = {}
      BY <2>1 DEF Within
    <2>3. Cardinality(Within(times)) = 0
      BY <2>2, FS_EmptySet
    <2> QED
      BY <2>1, <2>2, <2>3, FatigueAssumption DEF FatigueInv
  <1>2. IInv /\ FatigueInv(e) /\ [Next]_vars => FatigueInv(e)'
    BY FatigueStep
  <1>3. IInv /\ FatigueInv(e) => FatigueBounded
    <2> SUFFICES ASSUME IInv, FatigueInv(e) PROVE FatigueBounded
      OBVIOUS
    <2>1. Within(submitted) \subseteq Within(times) /\ Within(times) \in SUBSET Requests
      BY DEF FatigueInv, Within, IInv, TypeOK
    <2>2. Cardinality(Within(times)) <= FatigueThreshold
      BY DEF FatigueInv
    <2> QED
      BY <2>1, <2>2, SmallerSet, FatigueAssumption DEF FatigueBounded, Within
  <1> QED
    BY <1>1, <1>2, <1>3, Invariance, PTL DEF Spec
=============================================================================
