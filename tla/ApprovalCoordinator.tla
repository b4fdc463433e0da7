------------------------ MODULE ApprovalCoordinator ------------------------
(***************************************************************************)
(* The action-bound approval protocol of Agent Mesh (ADR-0030):            *)
(* governance/approval_protocol/coordinator.py over the in-memory store of *)
(* store.py.                                                               *)
(*                                                                         *)
(* Requests are independent of each other, so one request is modelled.     *)
(* The store makes each of its calls atomic (one RLock), the coordinator   *)
(* itself holds no lock: a call of submit_entry or validate_for_execution  *)
(* is a walk of its worker through the store calls, the reads of the live  *)
(* request object and the reads of the clock, one action each, and other   *)
(* workers' calls interleave between them.                                 *)
(*                                                                         *)
(* Data abstracted:                                                        *)
(*   - a digest is what it identifies: the digest of an entry is its place *)
(*     in the append-only list (a collision-free hash of contents that     *)
(*     carry a fresh id and a timestamp), 0 stands for None;               *)
(*   - the triple <action digest, policy version, chain version> that a    *)
(*     request is bound to, and that an execution claims, is one value;    *)
(*   - the clock is whether it has reached the request's expires_at.       *)
(***************************************************************************)
EXTENDS Integers, Sequences, FiniteSets, FiniteSetsExt

CONSTANTS
    Submitters,   \* workers that call submit_entry
    Validators,   \* workers that call validate_for_execution
    Stages,       \* the stage indexes of the configured chain
    Required,     \* those declared with required=True
    Principals,   \* identities and roles an approver may present
    Authorized,   \* per stage, the principals it permits
    Votes,        \* the votes that approvers cast
    EntryIds,     \* what callers pass as chain_entry_id: ids, or None
    Bindings,     \* the possible <digest, policy version, chain version>
    None,         \* Python's None
    MaxEntries,   \* bound: how many entries are appended
    MaxFailures   \* bound: how many calls are cut short

Workers == Submitters \cup Validators

\* SERVICE approvers are treated exactly as HUMAN ones. A vote may name a
\* stage the chain does not have.
Vote == [stage : Nat, by : Principals, kind : {"human", "llm_advisory"},
         decision : {"allow", "deny"}]

ASSUME ChainAssumption ==
    /\ Stages \subseteq Nat
    /\ Required \subseteq Stages
    /\ Authorized \in [Stages -> SUBSET Principals]
ASSUME VotesAssumption  == Votes \subseteq Vote
ASSUME BoundsAssumption == MaxEntries \in Nat /\ MaxFailures \in Nat

\* A chain entry; prev is its previous_entry_digest, 0 for None.
Entry == [vote : Votes, id : EntryIds, prev : Nat]

\* A resolution; final is its final_entry_digest, 0 for None.
Resolution == [outcome : {"allow", "deny", "expired"}, final : Nat]

\* What validate_for_execution is asked.
Claim == [action : Bindings, consume : BOOLEAN]

\* An execution released: what was claimed, and the resolution's final entry.
Release == [action : Bindings, final : Nat]

ASSUME NoneAssumption ==
    None \notin Entry \cup Resolution \cup Claim

VARIABLES
    status,      \* request.status, "none" before open_request
    bound,       \* what the request, and each of its resolutions, is bound to
    due,         \* clock() >= request.expires_at
    entries,     \* the request's chain entries, in the order of append
    resolution,  \* the stored resolution, or None
    pc,          \* where each worker's call stands
    entry,       \* the entry a submit_entry call is building
    claim,       \* what a validate_for_execution call was asked
    held,        \* the resolution a call is saving, or has fetched
    releases,    \* history: the executions released, in order
    failures     \* history: how many calls were cut short

store  == <<status, bound, entries, resolution>>
locals == <<pc, entry, claim, held>>
vars   == <<status, bound, due, entries, resolution, pc, entry, claim, held,
            releases, failures>>

-----------------------------------------------------------------------------
(* The chain and its entries. *)

IsAdvisory(v) == v.kind = "llm_advisory"

\* The chain has the stage, and unless the vote is advisory the stage
\* permits the approver's identity or role.
Permits(v) ==
    /\ v.stage \in Stages
    /\ IsAdvisory(v) \/ v.by \in Authorized[v.stage]

\* Places of the authoritative entries that decide d.
Deciding(chain, d) ==
    {i \in 1..Len(chain) : ~IsAdvisory(chain[i].vote) /\ chain[i].vote.decision = d}

Authoritative(chain) == Deciding(chain, "allow") \cup Deciding(chain, "deny")

\* Mutant: advisory entries satisfy stages too.
AllowedStagesAnyKind(chain) ==
    {chain[i].vote.stage : i \in {j \in 1..Len(chain) : chain[j].vote.decision = "allow"}}

AllowedStages(chain) == {chain[i].vote.stage : i \in Deciding(chain, "allow")}

\* What _maybe_resolve makes of a chain: a resolution, or None.
Verdict(chain) ==
    LET denials == Deciding(chain, "deny")
        final   == Max(Authoritative(chain) \cup {0})
    IN  CASE denials # {} -> [outcome |-> "deny", final |-> Min(denials)]
          [] denials = {} /\ Required = {} -> [outcome |-> "deny", final |-> final]
          [] denials = {} /\ Required # {} /\ Required \subseteq AllowedStages(chain) ->
               [outcome |-> "allow", final |-> final]
          [] OTHER -> None

Linked(chain) == \A i \in 1..Len(chain) : chain[i].prev = i - 1

\* Mutant: entries after the final one are not noticed.
ChainIntactLinksOnly(chain, final) == Linked(chain)

\* Every link holds and, when the resolution names a final entry, that entry
\* is the last of the whole list.
ChainIntact(chain, final) ==
    /\ Linked(chain)
    /\ final # 0 => Len(chain) = final

StatusOf == [allow |-> "allowed", deny |-> "denied", expired |-> "expired"]

-----------------------------------------------------------------------------
Init ==
    /\ status = "none"
    /\ bound \in Bindings
    /\ due = FALSE
    /\ entries = <<>>
    /\ resolution = None
    /\ pc = [w \in Workers |-> "idle"]
    /\ entry = [w \in Workers |-> None]
    /\ claim = [w \in Workers |-> None]
    /\ held = [w \in Workers |-> None]
    /\ releases = <<>>
    /\ failures = 0

\* open_request: the request becomes visible with save_request, pending. Its
\* binding is the one chosen initially: nothing reads it before.
Open ==
    /\ status = "none"
    /\ status' = "pending"
    /\ UNCHANGED <<bound, due, entries, resolution, locals, releases, failures>>

\* The clock passes expires_at, at any time after the request was opened
\* (a ttl may be zero or negative), and does not go back.
Tick ==
    /\ status # "none"
    /\ due = FALSE
    /\ due' = TRUE
    /\ UNCHANGED <<store, locals, releases, failures>>

-----------------------------------------------------------------------------
(* The walk of a call. *)

Goto(w, label) == pc' = [pc EXCEPT ![w] = label]

\* A step that only moves the call on.
Advance(w, label) == Goto(w, label) /\ UNCHANGED <<entry, claim, held>>

\* The step at which a call comes to hold a resolution.
Hold(w, r, label) ==
    /\ held' = [held EXCEPT ![w] = r]
    /\ Goto(w, label)
    /\ UNCHANGED <<entry, claim>>

\* The call is over, its locals are gone.
Return(w) ==
    /\ Goto(w, "idle")
    /\ entry' = [entry EXCEPT ![w] = None]
    /\ claim' = [claim EXCEPT ![w] = None]
    /\ held' = [held EXCEPT ![w] = None]

Submitting(w) == entry[w] # None

\* Mutant: a submission that finds the request expired does not stop.
EndOfExpiryFallsThrough(w) == Advance(w, "fetch")

\* submit_entry returns or raises, validate_for_execution goes on to fetch.
EndOfExpiry(w) == IF Submitting(w) THEN Return(w) ELSE Advance(w, "fetch")

\* Entries that calls under way may still append.
BeforeAppend == {"lookup", "gate", "clock", "admit", "seal", "append"}
Building == {w \in Workers : Submitting(w) /\ pc[w] \in BeforeAppend}

\* submit_entry(v, chain_entry_id=id) is called and finds the request.
BeginSubmit(w, v, id) ==
    /\ w \in Submitters
    /\ pc[w] = "idle"
    /\ status # "none"
    /\ Len(entries) + Cardinality(Building) < MaxEntries
    /\ entry' = [entry EXCEPT ![w] = [vote |-> v, id |-> id, prev |-> 0]]
    /\ Goto(w, IF id = None THEN "gate" ELSE "lookup")
    /\ UNCHANGED <<store, due, claim, held, releases, failures>>

\* A supplied chain_entry_id is looked up first: an entry that carries it is
\* returned as it is.
LookupDuplicate(w) ==
    /\ pc[w] = "lookup"
    /\ IF \E i \in 1..Len(entries) : entries[i].id = entry[w].id
       THEN Return(w)
       ELSE Advance(w, "gate")
    /\ UNCHANGED <<store, due, releases, failures>>

\* _expire_if_due reads the status of the live request. A submission to a
\* request that is not pending is refused, a validation carries on.
ReadStatus(w) ==
    /\ pc[w] = "gate"
    /\ IF status = "pending" THEN Advance(w, "clock") ELSE EndOfExpiry(w)
    /\ UNCHANGED <<store, due, releases, failures>>

\* Mutant: a request that has a resolution is not expired any more.
ReadClockUnlessResolved(w) ==
    /\ pc[w] = "clock"
    /\ IF due /\ resolution = None
       THEN Hold(w, [outcome |-> "expired", final |-> 0], "save")
       ELSE Advance(w, IF Submitting(w) THEN "admit" ELSE "fetch")
    /\ UNCHANGED <<store, due, releases, failures>>

\* _expire_if_due reads the clock: past the window it resolves EXPIRED.
ReadClock(w) ==
    /\ pc[w] = "clock"
    /\ IF due
       THEN Hold(w, [outcome |-> "expired", final |-> 0], "save")
       ELSE Advance(w, IF Submitting(w) THEN "admit" ELSE "fetch")
    /\ UNCHANGED <<store, due, releases, failures>>

\* submit_entry's own status check, then the stage and the authority.
Admit(w) ==
    /\ pc[w] = "admit"
    /\ IF status = "pending" /\ Permits(entry[w].vote)
       THEN Advance(w, "seal")
       ELSE Return(w)
    /\ UNCHANGED <<store, due, releases, failures>>

\* Mutant: the entry is linked to the entry before the last.
SealOneBehind(w) ==
    /\ pc[w] = "seal"
    /\ entry' = [entry EXCEPT ![w].prev = IF entries = <<>> THEN 0 ELSE Len(entries) - 1]
    /\ Goto(w, "append")
    /\ UNCHANGED <<store, due, claim, held, releases, failures>>

\* The entry is linked to the last entry stored at this moment, and sealed.
Seal(w) ==
    /\ pc[w] = "seal"
    /\ entry' = [entry EXCEPT ![w].prev = Len(entries)]
    /\ Goto(w, "append")
    /\ UNCHANGED <<store, due, claim, held, releases, failures>>

\* append_entry; an advisory entry never resolves anything.
AppendEntry(w) ==
    /\ pc[w] = "append"
    /\ entries' = Append(entries, entry[w])
    /\ IF IsAdvisory(entry[w].vote) THEN Return(w) ELSE Advance(w, "check")
    /\ UNCHANGED <<status, bound, due, resolution, releases, failures>>

\* _maybe_resolve leaves a request that has a resolution alone.
CheckResolution(w) ==
    /\ pc[w] = "check"
    /\ IF resolution # None THEN Return(w) ELSE Advance(w, "tally")
    /\ UNCHANGED <<store, due, releases, failures>>

\* Mutant: only an allow resolves the request.
TallyAllowOnly(w) ==
    /\ pc[w] = "tally"
    /\ LET r == Verdict(entries)
       IN  IF r # None /\ r.outcome = "allow" THEN Hold(w, r, "save") ELSE Return(w)
    /\ UNCHANGED <<store, due, releases, failures>>

\* _maybe_resolve reads the entries and decides.
Tally(w) ==
    /\ pc[w] = "tally"
    /\ IF Verdict(entries) = None
       THEN Return(w)
       ELSE Hold(w, Verdict(entries), "save")
    /\ UNCHANGED <<store, due, releases, failures>>

\* _resolve stores the resolution, whatever is stored already ...
SaveResolution(w) ==
    /\ pc[w] = "save"
    /\ resolution' = held[w]
    /\ Advance(w, "set")
    /\ UNCHANGED <<status, bound, due, entries, releases, failures>>

\* ... and then sets the status, whatever it has become.
SetStatus(w) ==
    /\ pc[w] = "set"
    /\ status' = StatusOf[held[w].outcome]
    /\ EndOfExpiry(w)
    /\ UNCHANGED <<bound, due, entries, resolution, releases, failures>>

-----------------------------------------------------------------------------
\* validate_for_execution is called and finds the request.
BeginValidate(w, c) ==
    /\ w \in Validators
    /\ pc[w] = "idle"
    /\ status # "none"
    /\ claim' = [claim EXCEPT ![w] = c]
    /\ Goto(w, "gate")
    /\ UNCHANGED <<store, due, entry, held, releases, failures>>

\* The stored resolution must be a terminal allow.
Fetch(w) ==
    /\ pc[w] = "fetch"
    /\ IF resolution # None /\ resolution.outcome = "allow"
       THEN Hold(w, resolution, "status")
       ELSE Return(w)
    /\ UNCHANGED <<store, due, releases, failures>>

\* The status of the live request must be ALLOWED.
CheckStatus(w) ==
    /\ pc[w] = "status"
    /\ IF status = "allowed" THEN Advance(w, "window") ELSE Return(w)
    /\ UNCHANGED <<store, due, releases, failures>>

\* Mutant: the claim is not compared with what was approved.
CheckWindowAnyClaim(w) ==
    /\ pc[w] = "window"
    /\ IF ~due THEN Advance(w, "verify") ELSE Return(w)
    /\ UNCHANGED <<store, due, releases, failures>>

\* The window must be open, and the claim be what the resolution is bound to.
CheckWindow(w) ==
    /\ pc[w] = "window"
    /\ IF ~due /\ claim[w].action = bound THEN Advance(w, "verify") ELSE Return(w)
    /\ UNCHANGED <<store, due, releases, failures>>

\* _chain_intact over the entries as they are now. With consume=False the
\* call answers here and changes nothing.
Verify(w) ==
    /\ pc[w] = "verify"
    /\ IF ChainIntact(entries, held[w].final) /\ claim[w].consume
       THEN Advance(w, "consume")
       ELSE Return(w)
    /\ UNCHANGED <<store, due, releases, failures>>

\* Mutant: the status read by CheckStatus is trusted.
ConsumeUnchecked(w) ==
    /\ pc[w] = "consume"
    /\ status' = "consumed"
    /\ releases' = Append(releases, [action |-> claim[w].action,
                                     final |-> held[w].final])
    /\ Return(w)
    /\ UNCHANGED <<bound, due, entries, resolution, failures>>

\* The store's compare-and-set: the only way an execution is released.
Consume(w) ==
    /\ pc[w] = "consume"
    /\ IF status = "allowed"
       THEN /\ status' = "consumed"
            /\ releases' = Append(releases, [action |-> claim[w].action,
                                             final |-> held[w].final])
       ELSE UNCHANGED <<status, releases>>
    /\ Return(w)
    /\ UNCHANGED <<bound, due, entries, resolution, failures>>

\* A call is cut short between two steps: its worker dies, or a store call
\* raises (which a validation turns into a denial). What it wrote stays.
Fail(w) ==
    /\ pc[w] # "idle"
    /\ failures < MaxFailures
    /\ failures' = failures + 1
    /\ Return(w)
    /\ UNCHANGED <<store, due, releases>>

-----------------------------------------------------------------------------
\* One step of the call that worker w is in.
Step(w) ==
    \/ LookupDuplicate(w) \/ ReadStatus(w) \/ ReadClock(w) \/ Admit(w)
    \/ Seal(w) \/ AppendEntry(w) \/ CheckResolution(w) \/ Tally(w)
    \/ SaveResolution(w) \/ SetStatus(w)
    \/ Fetch(w) \/ CheckStatus(w) \/ CheckWindow(w) \/ Verify(w) \/ Consume(w)

Begin(w) ==
    \/ \E v \in Votes, id \in EntryIds : BeginSubmit(w, v, id)
    \/ \E c \in Claim : BeginValidate(w, c)

Next ==
    \/ Open
    \/ Tick
    \/ \E w \in Workers : Begin(w) \/ Step(w) \/ Fail(w)

Spec == Init /\ [][Next]_vars

\* A thread inside a call is scheduled again; nobody is obliged to call.
FairSpec == Spec /\ \A w \in Workers : WF_vars(Step(w))

-----------------------------------------------------------------------------
(* Properties. *)

Labels == {"idle", "lookup", "gate", "clock", "admit", "seal", "append",
           "check", "tally", "save", "set", "fetch", "status", "window",
           "verify", "consume"}

\* What a call at a step has: the entry, the claim, the resolution it uses.
CallOK(w) ==
    /\ pc[w] \in {"lookup", "admit", "seal", "append", "check", "tally"}
         => entry[w] # None
    /\ pc[w] \in {"idle", "fetch", "status", "window", "verify", "consume"}
         => entry[w] = None
    /\ pc[w] # "idle" /\ entry[w] = None => claim[w] # None
    /\ pc[w] \in {"save", "set", "status", "window", "verify", "consume"}
         => held[w] # None

\* The type invariant: among others, a call at a step holds what that step
\* uses.
TypeOK ==
    /\ status \in {"none", "pending", "allowed", "denied", "expired", "consumed"}
    /\ bound \in Bindings
    /\ due \in BOOLEAN
    /\ entries \in Seq(Entry)
    /\ resolution \in Resolution \cup {None}
    /\ pc \in [Workers -> Labels]
    /\ entry \in [Workers -> Entry \cup {None}]
    /\ claim \in [Workers -> Claim \cup {None}]
    /\ held \in [Workers -> Resolution \cup {None}]
    /\ releases \in Seq(Release)
    /\ failures \in 0..MaxFailures
    /\ \A w \in Workers : CallOK(w)

\* The first n entries hold no authenticated deny, and for every required
\* stage an authenticated allow by a principal that the stage permits. A
\* chain without required stages approves nothing.
Approves(chain, n) ==
    /\ Required # {}
    /\ \A i \in 1..n : IsAdvisory(chain[i].vote) \/ chain[i].vote.decision = "allow"
    /\ \A s \in Required : \E i \in 1..n :
         /\ ~IsAdvisory(chain[i].vote)
         /\ chain[i].vote.stage = s
         /\ chain[i].vote.decision = "allow"
         /\ chain[i].vote.by \in Authorized[s]

Endorsed(n) == n \in 1..Len(entries) /\ Approves(entries, n)

LinkedUpTo(n) == \A i \in 1..n : entries[i].prev = i - 1

\* Whatever the interleaving of submissions, expiries and validations, an
\* execution was released only for the action, policy and chain version the
\* request is bound to, and over a chain of linked entries that approves it:
\* coordinator.py says "anything that is not an unambiguous terminal allow
\* over the exact action, policy version, and chain version denies".
ReleasedOnApproval ==
    \A r \in Range(releases) :
        r.action = bound /\ Endorsed(r.final) /\ LinkedUpTo(r.final)

\* An allow resolution is stored only once every required stage has an
\* authorized allow, and never over a deny that precedes its final entry, also
\* when a racing call read the chain before or after it grew.
AllowIsEndorsed ==
    resolution # None /\ resolution.outcome = "allow" => Endorsed(resolution.final)

\* The votes approve: none denies, and every required stage has an allow.
ApprovedBy(votes) ==
    /\ Required # {}
    /\ \A v \in votes : v.decision = "allow"
    /\ Required \subseteq {v.stage : v \in votes}

\* The refinement mapping: the authoritative votes stored, the calls past the
\* chain check, the actions executed.
Ballots  == {v \in Votes : ~IsAdvisory(v) /\ Permits(v)}
VotesCast == {entries[i].vote : i \in Authoritative(entries)}
Cleared  == {w \in Workers : pc[w] = "consume"}
Released == [k \in 1..Len(releases) |-> releases[k].action]

Contract == INSTANCE ApprovalContract WITH
    Actions <- Bindings, Approved <- ApprovedBy,
    action <- bound, votes <- VotesCast, cleared <- Cleared, released <- Released

\* The coordinator keeps the protocol's promise: a call is cleared to consume
\* only while the whole stored chain approves, so a deny appended by a
\* submission that raced with the resolution stops every execution that is
\* not yet past the chain check although the stored resolution says allow;
\* only a cleared call releases, and only the action under review.
ImplementsContract == Contract!Spec

\* store.consume "returns True exactly once for a given request"; ADR-0030:
\* "one-time approval cannot be consumed twice under concurrency".
ConsumedAtMostOnce == Len(releases) <= 1

AllIdle == \A w \in Workers : pc[w] = "idle"

\* When no call is under way, an approved and unexpired request can really be
\* executed: its resolution says allow and its chain verifies up to the final
\* entry. (Entries appended after the final one, or linked to the same
\* predecessor, would make it unusable for ever.)
AllowedIsReleasable ==
    AllIdle /\ status = "allowed" =>
        /\ resolution # None
        /\ resolution.outcome = "allow"
        /\ ChainIntact(entries, resolution.final)

\* When no call is under way and none was cut short, the status tells what
\* the resolution says, and a pending request is one whose chain decides
\* nothing yet.
StatusIsSettled ==
    AllIdle /\ failures = 0 /\ status # "none" =>
        IF resolution = None
        THEN status = "pending" /\ Verdict(entries) = None
        ELSE status = StatusOf[resolution.outcome]
             \/ (status = "consumed" /\ resolution.outcome = "allow")

\* Once the window has closed, a request somebody keeps asking about leaves
\* "pending" for good, even when calls are cut short between the resolution
\* and the status.
TimeoutSettles ==
    <>[]due /\ []<>(\E w \in Workers : pc[w] = "gate") => <>[](status # "pending")

\* Approvers, or the webhook that carries their votes, retry every submission
\* that has a chain_entry_id.
RetrySpec ==
    /\ FairSpec
    /\ \A w \in Submitters, v \in Votes, id \in EntryIds :
         WF_vars(BeginSubmit(w, v, id))

\* ADR-0030: "A worker may resume a request after restart by loading its
\* durable state": a chain that decides is resolved in the end.
DecidedIsResolved == (Verdict(entries) # None) ~> (resolution # None)
=============================================================================
