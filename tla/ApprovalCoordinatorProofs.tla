---------------------- MODULE ApprovalCoordinatorProofs ----------------------
(***************************************************************************)
(* Proofs about ApprovalCoordinator, for every value of its constants: its *)
(* type invariant, the safety of what it releases and of what it stores as *)
(* an allow, that it implements ApprovalContract, and what one submitter,  *)
(* or one call at a time, guarantees besides.                              *)
(***************************************************************************)
EXTENDS ApprovalCoordinator, ExtremeElements, SequenceTheorems, TLAPS

-----------------------------------------------------------------------------
(* What Tally computes. *)

\* What decides a chain are places of it.
LEMMA DecidingPlaces ==
    ASSUME NEW chain \in Seq(Entry), NEW d
    PROVE  Deciding(chain, d) \subseteq 1..Len(chain)
BY DEF Deciding

\* The verdict is a resolution, and an allow names an entry up to which the
\* chain approves, when every entry passed the stage's authority check.
LEMMA VerdictSound ==
    ASSUME NEW chain \in Seq(Entry), Verdict(chain) # None
    PROVE  /\ Verdict(chain) \in Resolution
           /\ Verdict(chain).outcome = "allow" =>
                /\ Verdict(chain).final \in 1..Len(chain)
                /\ (\A i \in 1..Len(chain) : Permits(chain[i].vote))
                     => Approves(chain, Verdict(chain).final)
<1> DEFINE denials == Deciding(chain, "deny")
           allows  == Deciding(chain, "allow")
           places  == Authoritative(chain) \cup {0}
           final   == Max(places)
<1>1. denials \subseteq 1..Len(chain) /\ allows \subseteq 1..Len(chain)
  BY DecidingPlaces
<1>2. Len(chain) \in Nat
  OBVIOUS
<1>3. places \subseteq 0..Len(chain) /\ places # {} /\ allows \subseteq places
  BY <1>1, <1>2 DEF Authoritative
<1>4. final \in places /\ \A i \in places : final >= i
  <2> HIDE DEF places
  <2>1. \E x \in places : \A y \in places : x >= y
    BY <1>2, <1>3, GreatestExists
  <2> QED BY <2>1 DEF Max
<1>5. final \in Nat
  <2> HIDE DEF final, places
  <2> QED BY <1>2, <1>3, <1>4
<1>6. CASE denials # {}
  <2>1. Verdict(chain) = [outcome |-> "deny", final |-> Min(denials)]
    BY <1>6 DEF Verdict
  <2>2. denials \subseteq Nat
    BY <1>1, <1>2
  <2>3. \E x \in denials : \A y \in denials : x <= y
    BY <1>6, <2>2, LeastExists
  <2>4. Min(denials) \in Nat
    BY <2>2, <2>3 DEF Min
  <2> QED BY <2>1, <2>4 DEF Resolution
<1>7. CASE denials = {} /\ Required = {}
  <2>1. Verdict(chain) = [outcome |-> "deny", final |-> final]
    BY <1>7 DEF Verdict
  <2> HIDE DEF final
  <2> QED BY <2>1, <1>5 DEF Resolution
<1>8. CASE denials = {} /\ Required # {} /\ Required \subseteq AllowedStages(chain)
  <2>1. Verdict(chain) = [outcome |-> "allow", final |-> final]
    BY <1>8 DEF Verdict
  <2>2. ASSUME NEW s \in Required
        PROVE  \E i \in allows : chain[i].vote.stage = s /\ i <= final
    <3>1. PICK i \in allows : chain[i].vote.stage = s
      BY <1>8 DEF AllowedStages
    <3>2. i \in places
      BY <3>1, <1>3
    <3> QED BY <3>1, <3>2, <1>4, <1>1, <1>5
  <2> HIDE DEF final
  <2>3. final \in 1..Len(chain)
    <3>1. PICK s \in Required : TRUE
      BY <1>8
    <3>2. PICK i \in allows : i <= final
      BY <3>1, <2>2
    <3> QED BY <3>2, <1>1, <1>2, <1>3, <1>4, <1>5
  <2>4. \A i \in 1..final : IsAdvisory(chain[i].vote) \/ chain[i].vote.decision = "allow"
    <3>1. \A i \in 1..Len(chain) : i \notin denials
      BY <1>8
    <3>2. ASSUME NEW i \in 1..Len(chain)
          PROVE  chain[i].vote.decision \in {"allow", "deny"}
      <4>1. chain[i] \in Entry
        OBVIOUS
      <4> QED BY <4>1, VotesAssumption DEF Entry, Vote
    <3> QED BY <3>1, <3>2, <2>3, <1>2 DEF Deciding
  <2>5. ASSUME NEW s \in Required, \A i \in 1..Len(chain) : Permits(chain[i].vote)
        PROVE  \E i \in 1..final : /\ ~IsAdvisory(chain[i].vote)
                                   /\ chain[i].vote.stage = s
                                   /\ chain[i].vote.decision = "allow"
                                   /\ chain[i].vote.by \in Authorized[s]
    <3>1. PICK i \in allows : chain[i].vote.stage = s /\ i <= final
      BY <2>2
    <3>2. i \in 1..Len(chain) /\ i \in 1..final
      BY <3>1, <1>1, <1>2, <1>5
    <3>3. ~IsAdvisory(chain[i].vote) /\ chain[i].vote.decision = "allow"
      BY <3>1 DEF Deciding
    <3>4. chain[i].vote.by \in Authorized[s]
      BY <2>5, <3>1, <3>2, <3>3 DEF Permits
    <3> QED BY <3>1, <3>2, <3>3, <3>4
  <2>6. (\A i \in 1..Len(chain) : Permits(chain[i].vote)) => Approves(chain, final)
    BY <1>8, <2>4, <2>5 DEF Approves
  <2> QED BY <2>1, <2>3, <2>6, <1>5 DEF Resolution
<1>9. CASE denials = {} /\ Required # {} /\ ~(Required \subseteq AllowedStages(chain))
  BY <1>9 DEF Verdict
<1> QED BY <1>6, <1>7, <1>8, <1>9

-----------------------------------------------------------------------------
(* Type correctness. *)

LocalsOK ==
    /\ pc \in [Workers -> Labels]
    /\ entry \in [Workers -> Entry \cup {None}]
    /\ claim \in [Workers -> Claim \cup {None}]
    /\ held \in [Workers -> Resolution \cup {None}]
    /\ \A w \in Workers : CallOK(w)

\* A call that returns leaves no locals behind.
LEMMA ReturnOK ==
    ASSUME LocalsOK, NEW w \in Workers, Return(w)
    PROVE  LocalsOK'
BY DEF LocalsOK, CallOK, Return, Goto, Labels

\* A call may move on to a step for which it has what the step uses.
LEMMA AdvanceOK ==
    ASSUME LocalsOK, NEW w \in Workers, NEW label \in Labels, pc[w] # "idle",
           Advance(w, label),
           label \in {"lookup", "admit", "seal", "append", "check", "tally"}
             => entry[w] # None,
           label \in {"idle", "fetch", "status", "window", "verify", "consume"}
             => entry[w] = None,
           label \in {"save", "set", "status", "window", "verify", "consume"}
             => held[w] # None
    PROVE  LocalsOK'
BY DEF LocalsOK, CallOK, Advance, Goto, Labels

\* A call that comes to hold a resolution has what the next step uses.
LEMMA HoldOK ==
    ASSUME LocalsOK, NEW w \in Workers, NEW r \in Resolution, pc[w] # "idle",
           NEW label \in {"save", "status"}, Hold(w, r, label),
           label = "status" => entry[w] = None
    PROVE  LocalsOK'
<1>1. r # None
  BY NoneAssumption
<1> QED BY <1>1 DEF LocalsOK, CallOK, Hold, Goto, Labels

\* Every step keeps the types.
LEMMA TypeStep ==
    TypeOK /\ [Next]_vars => TypeOK'
<1> SUFFICES ASSUME TypeOK, [Next]_vars PROVE TypeOK'
  OBVIOUS
<1> USE DEF TypeOK, CallOK, Labels, store, locals
<1>1. CASE Open
  BY <1>1 DEF Open
<1>2. CASE Tick
  BY <1>2 DEF Tick
<1>3. ASSUME NEW w \in Workers, NEW v \in Votes, NEW id \in EntryIds, BeginSubmit(w, v, id)
      PROVE  TypeOK'
  <2>1. [vote |-> v, id |-> id, prev |-> 0] \in Entry
    BY VotesAssumption DEF Entry
  <2>2. [vote |-> v, id |-> id, prev |-> 0] # None
    BY <2>1, NoneAssumption
  <2> QED BY <1>3, <2>1, <2>2 DEF BeginSubmit, Goto
<1>4. ASSUME NEW w \in Workers, NEW c \in Claim, BeginValidate(w, c)
      PROVE  TypeOK'
  <2>1. c # None
    BY NoneAssumption
  <2> QED BY <1>4, <2>1 DEF BeginValidate, Goto
<1>5. ASSUME NEW w \in Workers, Fail(w)
      PROVE  TypeOK'
  BY <1>5, BoundsAssumption DEF Fail, Return, Goto
<1>6. ASSUME NEW w \in Workers, Step(w)
      PROVE  TypeOK'
  <2> USE DEF Submitting, EndOfExpiry
  <2>0. LocalsOK
    BY DEF LocalsOK
  <2> HIDE DEF CallOK, Labels
  <2> DEFINE Rest == /\ UNCHANGED <<bound, due, failures>>
                     /\ status' \in {"none", "pending", "allowed", "denied", "expired", "consumed"}
                     /\ entries' \in Seq(Entry)
                     /\ resolution' \in Resolution \cup {None}
                     /\ releases' \in Seq(Release)
  <2>a. LocalsOK' /\ Rest => TypeOK'
    BY DEF LocalsOK
  <2>1. CASE LookupDuplicate(w)
    <3>1. Rest /\ (Return(w) \/ Advance(w, "gate"))
      BY <2>1 DEF LookupDuplicate
    <3> QED BY <2>0, <2>1, <2>a, <3>1, ReturnOK, AdvanceOK DEF LookupDuplicate, Labels
  <2>2. CASE ReadStatus(w)
    <3>1. /\ Rest
          /\ \/ Advance(w, "clock")
             \/ Return(w)
             \/ entry[w] = None /\ Advance(w, "fetch")
      BY <2>2 DEF ReadStatus
    <3> QED BY <2>0, <2>2, <2>a, <3>1, ReturnOK, AdvanceOK DEF ReadStatus, Labels
  <2>3. CASE ReadClock(w)
    <3>1. [outcome |-> "expired", final |-> 0] \in Resolution
      BY DEF Resolution
    <3>2. /\ Rest
          /\ \/ Hold(w, [outcome |-> "expired", final |-> 0], "save")
             \/ entry[w] # None /\ Advance(w, "admit")
             \/ entry[w] = None /\ Advance(w, "fetch")
      BY <2>3 DEF ReadClock
    <3> QED BY <2>0, <2>3, <2>a, <3>1, <3>2, HoldOK, AdvanceOK DEF ReadClock, Labels
  <2>4. CASE Admit(w)
    <3>1. Rest /\ entry[w] # None /\ (Return(w) \/ Advance(w, "seal"))
      BY <2>4 DEF Admit, CallOK
    <3> QED BY <2>0, <2>4, <2>a, <3>1, ReturnOK, AdvanceOK DEF Admit, Labels
  <2>5. CASE Seal(w)
    <3>1. entry[w] \in Entry /\ Len(entries) \in Nat
      BY <2>5 DEF Seal, CallOK
    <3>2. [entry[w] EXCEPT !.prev = Len(entries)] \in Entry
      BY <3>1 DEF Entry
    <3>3. [entry[w] EXCEPT !.prev = Len(entries)] # None
      BY <3>2, NoneAssumption
    <3> QED BY <2>5, <3>2, <3>3 DEF Seal, Goto, CallOK, Labels
  <2>6. CASE AppendEntry(w)
    <3>1. entry[w] \in Entry
      BY <2>6 DEF AppendEntry, CallOK
    <3>2. Rest /\ (Return(w) \/ Advance(w, "check"))
      BY <2>6, <3>1 DEF AppendEntry
    <3> QED BY <2>0, <2>6, <2>a, <3>1, <3>2, NoneAssumption, ReturnOK, AdvanceOK
            DEF AppendEntry, Labels
  <2>7. CASE CheckResolution(w)
    <3>1. Rest /\ entry[w] # None /\ (Return(w) \/ Advance(w, "tally"))
      BY <2>7 DEF CheckResolution, CallOK
    <3> QED BY <2>0, <2>7, <2>a, <3>1, ReturnOK, AdvanceOK DEF CheckResolution, Labels
  <2>8. CASE Tally(w)
    <3>1. /\ Rest
          /\ \/ Return(w)
             \/ Verdict(entries) # None /\ Hold(w, Verdict(entries), "save")
      BY <2>8 DEF Tally
    <3>2. Verdict(entries) # None => Verdict(entries) \in Resolution
      BY VerdictSound
    <3> QED BY <2>0, <2>8, <2>a, <3>1, <3>2, ReturnOK, HoldOK DEF Tally, Labels
  <2>9. CASE SaveResolution(w)
    <3>1. held[w] # None
      BY <2>9 DEF SaveResolution, CallOK
    <3>2. Rest /\ Advance(w, "set")
      BY <2>9, <3>1 DEF SaveResolution
    <3> QED BY <2>0, <2>9, <2>a, <3>1, <3>2, AdvanceOK DEF SaveResolution, Labels
  <2>10. CASE SetStatus(w)
    <3>1. held[w] \in Resolution
      BY <2>10 DEF SetStatus, CallOK
    <3>2. StatusOf[held[w].outcome] \in {"allowed", "denied", "expired"}
      BY <3>1 DEF Resolution, StatusOf
    <3>3. /\ Rest
          /\ \/ Return(w)
             \/ entry[w] = None /\ Advance(w, "fetch")
      BY <2>10, <3>2 DEF SetStatus
    <3> QED BY <2>0, <2>10, <2>a, <3>3, ReturnOK, AdvanceOK DEF SetStatus, Labels
  <2>11. CASE Fetch(w)
    <3>1. /\ Rest /\ entry[w] = None
          /\ \/ Return(w)
             \/ resolution \in Resolution /\ Hold(w, resolution, "status")
      BY <2>11 DEF Fetch, CallOK
    <3> QED BY <2>0, <2>11, <2>a, <3>1, ReturnOK, HoldOK DEF Fetch, Labels
  <2>12. CASE CheckStatus(w)
    <3>1. Rest /\ entry[w] = None /\ held[w] # None /\ (Return(w) \/ Advance(w, "window"))
      BY <2>12 DEF CheckStatus, CallOK
    <3> QED BY <2>0, <2>12, <2>a, <3>1, ReturnOK, AdvanceOK DEF CheckStatus, Labels
  <2>13. CASE CheckWindow(w)
    <3>1. Rest /\ entry[w] = None /\ held[w] # None /\ (Return(w) \/ Advance(w, "verify"))
      BY <2>13 DEF CheckWindow, CallOK
    <3> QED BY <2>0, <2>13, <2>a, <3>1, ReturnOK, AdvanceOK DEF CheckWindow, Labels
  <2>14. CASE Verify(w)
    <3>1. Rest /\ entry[w] = None /\ held[w] # None /\ (Return(w) \/ Advance(w, "consume"))
      BY <2>14 DEF Verify, CallOK
    <3> QED BY <2>0, <2>14, <2>a, <3>1, ReturnOK, AdvanceOK DEF Verify, Labels
  <2>15. CASE Consume(w)
    <3>1. held[w] \in Resolution /\ claim[w] \in Claim
      BY <2>15 DEF Consume, CallOK
    <3>2. [action |-> claim[w].action, final |-> held[w].final]
            \in Release
      BY <3>1 DEF Resolution, Claim, Release
    <3>3. Append(releases, [action |-> claim[w].action, final |-> held[w].final])
            \in Seq(Release)
      BY <3>2
    <3>4. Return(w) /\ UNCHANGED <<bound, due, failures, entries, resolution>>
      BY <2>15 DEF Consume
    <3>5. /\ status' \in {"consumed", status}
          /\ \/ releases' = Append(releases, [action |-> claim[w].action,
                                              final |-> held[w].final])
             \/ releases' = releases
      BY <2>15 DEF Consume
    <3>6. Rest
      BY <3>3, <3>4, <3>5
    <3> QED BY <2>0, <2>a, <3>4, <3>6, ReturnOK
  <2> QED BY <1>6, <2>1, <2>2, <2>3, <2>4, <2>5, <2>6, <2>7, <2>8, <2>9, <2>10,
             <2>11, <2>12, <2>13, <2>14, <2>15 DEF Step
<1>7. CASE UNCHANGED vars
  BY <1>7 DEF vars
<1> QED BY <1>1, <1>2, <1>3, <1>4, <1>5, <1>6, <1>7 DEF Next, Begin

\* The initial states have the types.
LEMMA InitTypeOK == Init => TypeOK
<1> SUFFICES ASSUME Init PROVE TypeOK
  OBVIOUS
<1>1. entries \in Seq(Entry) /\ releases \in Seq(Release)
  BY DEF Init
<1>2. \A w \in Workers : CallOK(w)
  BY DEF Init, CallOK
<1>3. failures \in 0..MaxFailures
  BY BoundsAssumption DEF Init
<1>4. /\ pc \in [Workers -> Labels]
      /\ entry \in [Workers -> Entry \cup {None}]
      /\ claim \in [Workers -> Claim \cup {None}]
      /\ held \in [Workers -> Resolution \cup {None}]
  BY DEF Init, Labels
<1>5. /\ status = "none" /\ bound \in Bindings /\ due = FALSE
      /\ resolution = None
  BY DEF Init
<1> QED BY <1>1, <1>2, <1>3, <1>4, <1>5 DEF TypeOK

\* The type invariant holds of every instance of the protocol.
THEOREM TypeCorrect == Spec => []TypeOK
BY InitTypeOK, TypeStep, PTL DEF Spec

-----------------------------------------------------------------------------
(* Executions are released on an approval. *)

\* What a call under way has established.
CallInv(w) ==
    /\ pc[w] \in {"seal", "append"} => Permits(entry[w].vote)
    /\ pc[w] \in {"save", "set", "status", "window", "verify", "consume"}
         => (held[w].outcome = "allow" => Endorsed(held[w].final))
    /\ pc[w] \in {"status", "window", "verify", "consume"} => held[w].outcome = "allow"
    /\ pc[w] \in {"verify", "consume"} => claim[w].action = bound
    /\ pc[w] = "consume" => LinkedUpTo(held[w].final)

EntriesPermitted == \A i \in 1..Len(entries) : Permits(entries[i].vote)

\* The inductive invariant: stored entries passed the authority check, a
\* resolution that allows, stored or held by a call, is endorsed by the chain,
\* and a call on its way to consume has checked the claim and the links.
IInv ==
    /\ TypeOK
    /\ EntriesPermitted
    /\ AllowIsEndorsed
    /\ ReleasedOnApproval
    /\ \A w \in Workers : CallInv(w)

\* A call touches the locals of its own worker only, and the chain at most by
\* appending the entry it has sealed.
LEMMA StepFrame ==
    ASSUME TypeOK, NEW w \in Workers, Begin(w) \/ Step(w) \/ Fail(w)
    PROVE  /\ bound' = bound
           /\ \/ entries' = entries
              \/ pc[w] = "append" /\ entries' = Append(entries, entry[w])
           /\ \A v \in Workers \ {w} : /\ pc'[v] = pc[v]
                                       /\ entry'[v] = entry[v]
                                       /\ claim'[v] = claim[v]
                                       /\ held'[v] = held[v]
<1> DEFINE Others == \A v \in Workers \ {w} : /\ pc'[v] = pc[v]
                                              /\ entry'[v] = entry[v]
                                              /\ claim'[v] = claim[v]
                                              /\ held'[v] = held[v]
<1>1. Return(w) => Others
  BY DEF TypeOK, Return, Goto
<1>2. \A label : Advance(w, label) => Others
  BY DEF TypeOK, Advance, Goto
<1>3. \A label, r : Hold(w, r, label) => Others
  BY DEF TypeOK, Hold, Goto
<1> USE DEF store, locals, EndOfExpiry
<1>4. ASSUME NEW v \in Votes, NEW id \in EntryIds, BeginSubmit(w, v, id)
      PROVE  UNCHANGED <<bound, entries>> /\ Others
  BY <1>4 DEF TypeOK, BeginSubmit, Goto
<1>5. ASSUME NEW c \in Claim, BeginValidate(w, c)
      PROVE  UNCHANGED <<bound, entries>> /\ Others
  BY <1>5 DEF TypeOK, BeginValidate, Goto
<1>6. ASSUME Fail(w)
      PROVE  Others
  BY <1>1, <1>6 DEF Fail
<1> HIDE DEF Others
<1>7. ASSUME AppendEntry(w)
      PROVE  Others
  BY <1>1, <1>2, <1>7 DEF AppendEntry
<1>8. ASSUME Seal(w)
      PROVE  Others
  BY <1>8 DEF TypeOK, Seal, Goto, Others
<1>9. ASSUME LookupDuplicate(w) \/ ReadStatus(w) \/ ReadClock(w) \/ Admit(w)
      PROVE  Others
  BY <1>1, <1>2, <1>3, <1>9 DEF LookupDuplicate, ReadStatus, ReadClock, Admit
<1>10. ASSUME CheckResolution(w) \/ Tally(w) \/ SaveResolution(w) \/ SetStatus(w)
       PROVE  Others
  BY <1>1, <1>2, <1>3, <1>10 DEF CheckResolution, Tally, SaveResolution, SetStatus
<1>11. ASSUME Fetch(w) \/ CheckStatus(w) \/ CheckWindow(w) \/ Verify(w) \/ Consume(w)
       PROVE  Others
  BY <1>1, <1>2, <1>3, <1>11 DEF Fetch, CheckStatus, CheckWindow, Verify, Consume
<1>12. /\ bound' = bound
       /\ \/ entries' = entries
          \/ pc[w] = "append" /\ entries' = Append(entries, entry[w])
  <2>1. CASE AppendEntry(w)
    BY <2>1 DEF AppendEntry
  <2>2. CASE Consume(w)
    BY <2>2 DEF Consume
  <2>3. CASE Fail(w)
    BY <2>3 DEF Fail
  <2>4. CASE Step(w) /\ ~AppendEntry(w) /\ ~Consume(w)
    BY <2>4 DEF Step, LookupDuplicate, ReadStatus, ReadClock, Admit, Seal,
         CheckResolution, Tally, SaveResolution, SetStatus, Fetch, CheckStatus,
         CheckWindow, Verify
  <2>5. CASE Begin(w)
    BY <2>5, <1>4, <1>5 DEF Begin
  <2> QED BY <2>1, <2>2, <2>3, <2>4, <2>5
<1>13. Others
  BY <1>4, <1>5, <1>6, <1>7, <1>8, <1>9, <1>10, <1>11 DEF Begin, Step
<1> QED BY <1>12, <1>13 DEF Others

\* What the chain endorses, and the links it has, survive an append.
LEMMA ChainGrows ==
    ASSUME TypeOK, TypeOK',
           entries' = entries \/ \E e \in Entry : entries' = Append(entries, e),
           NEW n \in Nat
    PROVE  /\ Endorsed(n) => Endorsed(n)'
           /\ n <= Len(entries) /\ LinkedUpTo(n) => LinkedUpTo(n)'
<1>0. entries \in Seq(Entry) /\ entries' \in Seq(Entry)
  BY DEF TypeOK
<1>1. Len(entries) \in Nat /\ Len(entries') \in Nat /\ Len(entries) <= Len(entries')
  BY <1>0
<1>2. \A i \in 1..Len(entries) : entries'[i] = entries[i]
  BY <1>0
<1>3. ASSUME Endorsed(n) PROVE Endorsed(n)'
  <2>1. n \in 1..Len(entries)
    BY <1>3 DEF Endorsed
  <2>2. \A i \in 1..n : entries'[i] = entries[i]
    BY <1>1, <1>2, <2>1
  <2> QED BY <1>1, <1>3, <2>1, <2>2 DEF Endorsed, Approves
<1>4. ASSUME n <= Len(entries), LinkedUpTo(n) PROVE LinkedUpTo(n)'
  <2>1. \A i \in 1..n : entries'[i] = entries[i]
    BY <1>1, <1>2, <1>4
  <2> QED BY <1>4, <2>1 DEF LinkedUpTo
<1> QED BY <1>3, <1>4

\* A call that does not move keeps what it has established.
LEMMA CallInvStable ==
    ASSUME TypeOK, TypeOK', NEW v \in Workers, CallInv(v),
           entries' = entries \/ \E e \in Entry : entries' = Append(entries, e),
           bound' = bound, pc'[v] = pc[v], entry'[v] = entry[v],
           claim'[v] = claim[v], held'[v] = held[v]
    PROVE  CallInv(v)'
<1>1. CASE pc[v] \in {"save", "set", "status", "window", "verify", "consume"}
  <2>1. held[v] \in Resolution /\ held[v].final \in Nat
    BY <1>1 DEF TypeOK, CallOK, Resolution
  <2>2. Endorsed(held[v].final) => held[v].final <= Len(entries)
    BY <2>1 DEF TypeOK, Endorsed
  <2> DEFINE n == held[v].final
  <2>3. /\ Endorsed(n) => Endorsed(n)'
        /\ n <= Len(entries) /\ LinkedUpTo(n) => LinkedUpTo(n)'
    <3>1. \A m \in Nat : /\ Endorsed(m) => Endorsed(m)'
                         /\ m <= Len(entries) /\ LinkedUpTo(m) => LinkedUpTo(m)'
      BY ChainGrows
    <3> QED BY <2>1, <3>1 DEF Endorsed, Approves, LinkedUpTo
  <2> QED BY <1>1, <2>2, <2>3 DEF CallInv
<1>2. CASE pc[v] \notin {"save", "set", "status", "window", "verify", "consume"}
  BY <1>2 DEF CallInv
<1> QED BY <1>1, <1>2

\* Every step keeps the inductive invariant.
LEMMA IInvStep ==
    IInv /\ [Next]_vars => IInv'
<1> SUFFICES ASSUME IInv, [Next]_vars PROVE IInv'
  OBVIOUS
<1>1. TypeOK /\ TypeOK'
  BY TypeStep DEF IInv
<1>2. entries \in Seq(Entry) /\ Len(entries) \in Nat
  BY <1>1 DEF TypeOK
<1>3. CASE Open \/ Tick \/ UNCHANGED vars
  <2>1. UNCHANGED <<bound, entries, resolution, pc, entry, claim, held, releases>>
    BY <1>3 DEF Open, Tick, vars, store, locals
  <2>2. EntriesPermitted' /\ AllowIsEndorsed'
    BY <2>1 DEF IInv, EntriesPermitted, AllowIsEndorsed, Endorsed, Approves
  <2>3. ReleasedOnApproval'
    BY <2>1 DEF IInv, ReleasedOnApproval, Endorsed, Approves, LinkedUpTo
  <2>4. ASSUME NEW w \in Workers PROVE CallInv(w)'
    <3>1. CallInv(w)
      BY DEF IInv
    <3> QED BY <2>1, <3>1 DEF CallInv, Endorsed, Approves, LinkedUpTo
  <2> QED BY <1>1, <2>2, <2>3, <2>4 DEF IInv
<1>4. ASSUME NEW w \in Workers, Begin(w) \/ Step(w) \/ Fail(w)
      PROVE  IInv'
  <2>1. /\ bound' = bound
        /\ \/ entries' = entries
           \/ pc[w] = "append" /\ entries' = Append(entries, entry[w])
        /\ \A v \in Workers \ {w} : /\ pc'[v] = pc[v] /\ entry'[v] = entry[v]
                                    /\ claim'[v] = claim[v] /\ held'[v] = held[v]
    BY <1>1, <1>4, StepFrame
  <2>2. entries' = entries \/ \E e \in Entry : entries' = Append(entries, e)
    BY <1>1, <2>1 DEF TypeOK, CallOK
  <2>3. \A n \in Nat : /\ Endorsed(n) => Endorsed(n)'
                       /\ n <= Len(entries) /\ LinkedUpTo(n) => LinkedUpTo(n)'
    BY <1>1, <2>2, ChainGrows
  <2>4. \A v \in Workers \ {w} : CallInv(v)'
    BY <1>1, <2>1, <2>2, CallInvStable DEF IInv
  <2>5. CallInv(w)
    BY DEF IInv
  <2>6. EntriesPermitted'
    <3>1. EntriesPermitted
      BY DEF IInv
    <3>2. CASE entries' = entries
      BY <3>1, <3>2 DEF EntriesPermitted
    <3>3. CASE pc[w] = "append" /\ entries' = Append(entries, entry[w])
      <4>1. Permits(entry[w].vote)
        BY <2>5, <3>3 DEF CallInv
      <4>2. /\ Len(entries') = Len(entries) + 1
            /\ entries'[Len(entries) + 1] = entry[w]
            /\ \A i \in 1..Len(entries) : entries'[i] = entries[i]
        BY <1>2, <3>3
      <4>3. \A i \in 1..Len(entries') : i \in 1..Len(entries) \/ i = Len(entries) + 1
        BY <1>2, <4>2
      <4> QED BY <3>1, <4>1, <4>2, <4>3 DEF EntriesPermitted
    <3> QED BY <2>1, <3>2, <3>3
  <2>7. AllowIsEndorsed'
    <3>1. AllowIsEndorsed
      BY DEF IInv
    <3>2. resolution' = resolution \/ (pc[w] = "save" /\ resolution' = held[w])
      BY <1>4 DEF Begin, Step, Fail, store, locals, BeginSubmit, BeginValidate,
           LookupDuplicate, ReadStatus, ReadClock, Admit, Seal, AppendEntry,
           CheckResolution, Tally, SaveResolution, SetStatus, Fetch, CheckStatus,
           CheckWindow, Verify, Consume
    <3>3. CASE resolution' = resolution
      <4>1. resolution # None => resolution.final \in Nat
        BY <1>1 DEF TypeOK, Resolution
      <4> QED BY <2>3, <3>1, <3>3, <4>1 DEF AllowIsEndorsed, Endorsed, Approves
    <3>4. CASE pc[w] = "save" /\ resolution' = held[w]
      <4>1. held[w].outcome = "allow" => Endorsed(held[w].final)
        BY <2>5, <3>4 DEF CallInv
      <4>2. held[w].final \in Nat
        BY <1>1, <3>4 DEF TypeOK, CallOK, Resolution
      <4> QED BY <2>3, <3>4, <4>1, <4>2 DEF AllowIsEndorsed, Endorsed, Approves
    <3> QED BY <3>2, <3>3, <3>4
  <2>8. ReleasedOnApproval'
    <3> DEFINE Sound(r) == r.action = bound /\ Endorsed(r.final) /\ LinkedUpTo(r.final)
               new == [action |-> claim[w].action, final |-> held[w].final]
    <3>1. \A r \in Range(releases) : r \in Release /\ Sound(r)
      <4>1. releases \in Seq(Release)
        BY <1>1 DEF TypeOK
      <4>2. Range(releases) \subseteq Release
        BY <4>1 DEF Range
      <4> QED BY <4>2 DEF IInv, ReleasedOnApproval
    <3>2. ASSUME NEW r \in Release, Sound(r)
          PROVE  Sound(r)'
      <4>1. r.final \in Nat /\ r.final <= Len(entries)
        BY <3>2, <1>2 DEF Endorsed
      <4> QED BY <2>1, <2>3, <3>2, <4>1
    <3>3. CASE releases' = releases
      <4>1. \A r \in Range(releases) : Sound(r)'
        <5> HIDE DEF Sound
        <5> QED BY <3>1, <3>2
      <4> QED BY <3>3, <4>1 DEF ReleasedOnApproval
    <3>4. CASE pc[w] = "consume" /\ releases' = Append(releases, new)
      <4>1. new \in Release
        BY <1>1, <3>4 DEF TypeOK, CallOK, Claim, Resolution, Release
      <4>2. Sound(new)
        BY <2>5, <3>4 DEF CallInv
      <4>3. Range(releases') = Range(releases) \cup {new}
        <5> HIDE DEF new
        <5>1. releases \in Seq(Release)
          BY <1>1 DEF TypeOK
        <5> QED BY <3>4, <4>1, <5>1 DEF Range
      <4>4. \A r \in Range(releases) \cup {new} : Sound(r)'
        <5> HIDE DEF Sound, new
        <5> QED BY <3>1, <3>2, <4>1, <4>2
      <4> QED BY <4>3, <4>4 DEF ReleasedOnApproval
    <3>5. releases' = releases \/ (pc[w] = "consume" /\ releases' = Append(releases, new))
      BY <1>4 DEF Begin, Step, Fail, store, locals, BeginSubmit, BeginValidate,
           LookupDuplicate, ReadStatus, ReadClock, Admit, Seal, AppendEntry,
           CheckResolution, Tally, SaveResolution, SetStatus, Fetch, CheckStatus,
           CheckWindow, Verify, Consume
    <3> QED BY <3>3, <3>4, <3>5
  <2>9. CallInv(w)'
    <3> DEFINE Easy == {"idle", "lookup", "gate", "clock", "admit", "check", "tally", "fetch"}
    <3>1. pc'[w] \in Easy => CallInv(w)'
      BY DEF CallInv
    <3>2. Return(w) => CallInv(w)'
      BY <1>1, <3>1 DEF Return, Goto, TypeOK
    <3>3. ASSUME NEW label \in Easy, Advance(w, label)
          PROVE  CallInv(w)'
      BY <1>1, <3>1, <3>3 DEF Advance, Goto, TypeOK
    <3>4. CASE Begin(w)
      BY <1>1, <3>1, <3>4 DEF Begin, BeginSubmit, BeginValidate, Goto, TypeOK
    <3>5. CASE Fail(w) \/ LookupDuplicate(w) \/ ReadStatus(w) \/ AppendEntry(w)
               \/ CheckResolution(w) \/ SetStatus(w) \/ Consume(w)
      BY <3>2, <3>3, <3>5 DEF Fail, LookupDuplicate, ReadStatus, AppendEntry,
           CheckResolution, SetStatus, Consume, EndOfExpiry
    <3>6. CASE ReadClock(w)
      <4>1. CASE Hold(w, [outcome |-> "expired", final |-> 0], "save")
        BY <1>1, <4>1 DEF Hold, Goto, TypeOK, CallInv
      <4> QED BY <3>3, <3>6, <4>1 DEF ReadClock
    <3>7. CASE Admit(w)
      <4>1. CASE Permits(entry[w].vote) /\ Advance(w, "seal")
        BY <1>1, <4>1 DEF Advance, Goto, TypeOK, CallInv
      <4> QED BY <3>2, <3>7, <4>1 DEF Admit
    <3>8. CASE Seal(w)
      <4>1. entry'[w].vote = entry[w].vote /\ pc'[w] = "append"
        BY <1>1, <3>8 DEF Seal, Goto, TypeOK, CallOK, Entry
      <4>2. Permits(entry[w].vote)
        BY <2>5, <3>8 DEF CallInv, Seal
      <4> QED BY <4>1, <4>2 DEF CallInv
    <3>9. CASE Tally(w)
      <4>1. CASE Verdict(entries) # None /\ Hold(w, Verdict(entries), "save")
        <5>1. Verdict(entries).outcome = "allow" => Endorsed(Verdict(entries).final)
          BY <1>2, <4>1, VerdictSound DEF IInv, EntriesPermitted, Endorsed
        <5>2. entries' = entries
          BY <3>9 DEF Tally, store
        <5> HIDE DEF Verdict
        <5>3. pc'[w] = "save" /\ held'[w] = Verdict(entries)
          BY <1>1, <4>1 DEF Hold, Goto, TypeOK
        <5> QED BY <5>1, <5>2, <5>3 DEF CallInv, Endorsed, Approves
      <4> QED BY <3>2, <3>9, <4>1 DEF Tally
    <3>10. CASE SaveResolution(w)
      <4>1. pc'[w] = "set" /\ held'[w] = held[w] /\ entries' = entries
        BY <1>1, <3>10 DEF SaveResolution, Advance, Goto, TypeOK
      <4>2. held[w].outcome = "allow" => Endorsed(held[w].final)
        BY <2>5, <3>10 DEF CallInv, SaveResolution
      <4> QED BY <4>1, <4>2 DEF CallInv, Endorsed, Approves
    <3>11. CASE Fetch(w)
      <4>1. CASE /\ resolution # None /\ resolution.outcome = "allow"
                 /\ Hold(w, resolution, "status")
        <5>1. Endorsed(resolution.final)
          BY <4>1 DEF IInv, AllowIsEndorsed
        <5>2. pc'[w] = "status" /\ held'[w] = resolution /\ entries' = entries
          BY <1>1, <3>11, <4>1 DEF Fetch, store, Hold, Goto, TypeOK
        <5> QED BY <4>1, <5>1, <5>2 DEF CallInv, Endorsed, Approves
      <4> QED BY <3>2, <3>11, <4>1 DEF Fetch
    <3>12. ASSUME NEW label, Advance(w, label), UNCHANGED <<bound, entries>>
           PROVE  pc'[w] = label /\ held'[w] = held[w] /\ claim'[w] = claim[w]
      BY <1>1, <3>12 DEF Advance, Goto, TypeOK
    <3>13. CASE CheckStatus(w)
      <4>1. CASE Advance(w, "window") /\ UNCHANGED <<bound, entries>>
        <5>1. held[w].outcome = "allow" /\ Endorsed(held[w].final)
          BY <2>5, <3>13 DEF CheckStatus, CallInv
        <5>2. pc'[w] = "window" /\ held'[w] = held[w]
          BY <3>12, <4>1
        <5> QED BY <4>1, <5>1, <5>2 DEF CallInv, Endorsed, Approves
      <4> QED BY <3>2, <3>13, <4>1 DEF CheckStatus, store
    <3>14. CASE CheckWindow(w)
      <4>1. CASE claim[w].action = bound /\ Advance(w, "verify") /\ UNCHANGED <<bound, entries>>
        <5>1. held[w].outcome = "allow" /\ Endorsed(held[w].final)
          BY <2>5, <3>14 DEF CheckWindow, CallInv
        <5>2. pc'[w] = "verify" /\ held'[w] = held[w] /\ claim'[w] = claim[w]
          BY <3>12, <4>1
        <5> QED BY <4>1, <5>1, <5>2 DEF CallInv, Endorsed, Approves
      <4> QED BY <3>2, <3>14, <4>1 DEF CheckWindow, store
    <3>15. CASE Verify(w)
      <4>1. CASE ChainIntact(entries, held[w].final) /\ Advance(w, "consume")
                 /\ UNCHANGED <<bound, entries>>
        <5>1. Endorsed(held[w].final) /\ claim[w].action = bound /\ held[w].outcome = "allow"
          BY <2>5, <3>15 DEF Verify, CallInv
        <5>2. LinkedUpTo(held[w].final)
          BY <1>2, <4>1, <5>1 DEF Endorsed, LinkedUpTo, ChainIntact, Linked
        <5>3. pc'[w] = "consume" /\ held'[w] = held[w] /\ claim'[w] = claim[w]
          BY <3>12, <4>1
        <5> QED BY <4>1, <5>1, <5>2, <5>3 DEF CallInv, Endorsed, Approves, LinkedUpTo
      <4> QED BY <3>2, <3>15, <4>1 DEF Verify, store
    <3> QED BY <1>4, <3>4, <3>5, <3>6, <3>7, <3>8, <3>9, <3>10, <3>11, <3>13, <3>14,
               <3>15 DEF Step
  <2> QED BY <1>1, <2>4, <2>6, <2>7, <2>8, <2>9 DEF IInv
<1> QED BY <1>3, <1>4 DEF Next

\* The initial states satisfy the inductive invariant.
LEMMA InitIInv == Init => IInv
<1> SUFFICES ASSUME Init PROVE IInv
  OBVIOUS
<1>1. Len(entries) = 0 /\ Len(releases) = 0 /\ resolution = None
  BY DEF Init
<1>2. \A w \in Workers : pc[w] = "idle"
  BY DEF Init
<1>3. \A w \in Workers : CallInv(w)
  BY <1>2 DEF CallInv
<1>4. Range(releases) = {}
  BY DEF Init, Range
<1> QED BY <1>1, <1>3, <1>4, InitTypeOK
        DEF IInv, EntriesPermitted, AllowIsEndorsed, ReleasedOnApproval

\* For every chain of stages, every set of approvers and any number of workers
\* that submit, expire and validate concurrently and may be cut short: whatever
\* is executed was approved by linked, authorized entries, and is what was
\* approved.
THEOREM ReleaseIsSafe == Spec => []ReleasedOnApproval
<1>1. IInv => ReleasedOnApproval
  BY DEF IInv
<1> QED BY InitIInv, <1>1, IInvStep, PTL DEF Spec

\* An allow resolution is stored only over an endorsed chain.
THEOREM AllowIsSafe == Spec => []AllowIsEndorsed
<1>1. IInv => AllowIsEndorsed
  BY DEF IInv
<1> QED BY InitIInv, <1>1, IInvStep, PTL DEF Spec

-----------------------------------------------------------------------------
(* The coordinator implements the contract. *)

\* When a call passes the chain check, the votes stored approve.
LEMMA WholeChainApproves ==
    ASSUME TypeOK, NEW n, Endorsed(n), n = Len(entries)
    PROVE  ApprovedBy(VotesCast)
<1>1. entries \in Seq(Entry) /\ n \in Nat
  BY DEF TypeOK, Endorsed
<1>2. Authoritative(entries) \subseteq 1..n
  BY DEF Authoritative, Deciding
<1>3. \A v \in VotesCast : v.decision = "allow"
  BY <1>2 DEF VotesCast, Endorsed, Approves, Authoritative, Deciding
<1>4. ASSUME NEW s \in Required PROVE s \in {v.stage : v \in VotesCast}
  <2>1. PICK i \in 1..n : /\ ~IsAdvisory(entries[i].vote)
                          /\ entries[i].vote.stage = s
                          /\ entries[i].vote.decision = "allow"
    BY DEF Endorsed, Approves
  <2>2. i \in Authoritative(entries)
    BY <2>1 DEF Authoritative, Deciding
  <2>3. entries[i].vote \in VotesCast
    BY <2>2 DEF VotesCast
  <2> QED BY <2>1, <2>3
<1> QED BY <1>3, <1>4 DEF ApprovedBy, Endorsed, Approves

\* An append adds the vote of the entry, if it is authoritative.
LEMMA AppendCasts ==
    ASSUME TypeOK, NEW e \in Entry, entries' = Append(entries, e)
    PROVE  VotesCast' = IF IsAdvisory(e.vote) THEN VotesCast ELSE VotesCast \cup {e.vote}
<1>1. /\ Len(entries) \in Nat
      /\ Len(entries') = Len(entries) + 1
      /\ entries'[Len(entries) + 1] = e
      /\ \A i \in 1..Len(entries) : entries'[i] = entries[i]
  BY DEF TypeOK
<1>2. e.vote.decision \in {"allow", "deny"}
  BY VotesAssumption DEF Entry, Vote
<1>3. Authoritative(entries) \subseteq 1..Len(entries)
  BY DEF Authoritative, Deciding
<1>4. Authoritative(entries') =
        IF IsAdvisory(e.vote) THEN Authoritative(entries)
        ELSE Authoritative(entries) \cup {Len(entries) + 1}
  <2>1. \A i : i \in 1..Len(entries') <=> i \in 1..Len(entries) \/ i = Len(entries) + 1
    BY <1>1
  <2>2. \A i \in 1..Len(entries) : i # Len(entries) + 1
    BY <1>1
  <2> QED BY <1>1, <1>2, <2>1, <2>2 DEF Authoritative, Deciding
<1>5. \A i \in Authoritative(entries) : entries'[i].vote = entries[i].vote
  BY <1>1, <1>3
<1>6. CASE IsAdvisory(e.vote)
  <2>1. Authoritative(entries') = Authoritative(entries)
    BY <1>4, <1>6
  <2> QED BY <1>5, <1>6, <2>1 DEF VotesCast
<1>7. CASE ~IsAdvisory(e.vote)
  <2>1. Authoritative(entries') = Authoritative(entries) \cup {Len(entries) + 1}
    BY <1>4, <1>7
  <2>2. entries'[Len(entries) + 1].vote = e.vote
    BY <1>1
  <2> DEFINE A == Authoritative(entries)
  <2>3. {entries'[i].vote : i \in A \cup {Len(entries) + 1}} = {entries[i].vote : i \in A} \cup {e.vote}
    <3> HIDE DEF A
    <3> QED BY <1>5, <2>2 DEF A
  <2> QED BY <1>7, <2>1, <2>3 DEF VotesCast
<1> QED BY <1>6, <1>7

\* The actions executed, as a sequence.
LEMMA ReleasedType ==
    \A r \in Seq(Release) :
        LET a == [k \in 1..Len(r) |-> r[k].action]
        IN  a \in Seq(Bindings) /\ Len(a) = Len(r)
<1> SUFFICES ASSUME NEW r \in Seq(Release)
             PROVE  LET a == [k \in 1..Len(r) |-> r[k].action]
                    IN  a \in Seq(Bindings) /\ Len(a) = Len(r)
  OBVIOUS
<1> DEFINE a == [k \in 1..Len(r) |-> r[k].action]
<1>1. Len(r) \in Nat
  OBVIOUS
<1>2. \A k \in 1..Len(r) : r[k].action \in Bindings
  <2>1. \A k \in 1..Len(r) : r[k] \in Release
    OBVIOUS
  <2> QED BY <2>1 DEF Release
<1>3. a \in [1..Len(r) -> Bindings]
  BY <1>2
<1> HIDE DEF a
<1>4. a \in Seq(Bindings) /\ Len(a) = Len(r)
  BY <1>1, <1>3
<1> QED BY <1>4 DEF a

\* Every step of the coordinator is a step of the contract, or none.
LEMMA ContractStep ==
    IInv /\ [Next]_vars => [Contract!Next]_(Contract!vars)
<1> SUFFICES ASSUME IInv, [Next]_vars PROVE [Contract!Next]_(Contract!vars)
  OBVIOUS
<1>1. TypeOK /\ TypeOK'
  BY TypeStep DEF IInv
<1> DEFINE Stutter == UNCHANGED <<bound, VotesCast, Cleared, Released>>
<1>2. Stutter => [Contract!Next]_(Contract!vars)
  BY DEF Contract!vars, VotesCast, Cleared, Released
<1>3. CASE Open \/ Tick \/ UNCHANGED vars
  <2>1. UNCHANGED <<bound, entries, pc, releases>>
    BY <1>3 DEF Open, Tick, vars, store, locals
  <2>2. Stutter
    BY <2>1 DEF VotesCast, Authoritative, Deciding, Cleared, Released
  <2> QED BY <1>2, <2>2
<1>4. ASSUME NEW w \in Workers, Begin(w) \/ Step(w) \/ Fail(w)
      PROVE  [Contract!Next]_(Contract!vars)
  <2>1. /\ bound' = bound
        /\ \A v \in Workers \ {w} : pc'[v] = pc[v]
    BY <1>1, <1>4, StepFrame
  <2>2. CallInv(w) /\ pc \in [Workers -> Labels] /\ pc' \in [Workers -> Labels]
    BY <1>1 DEF IInv, TypeOK
  <2>3. pc[w] # "consume" /\ pc'[w] # "consume" => Cleared' = Cleared
    BY <2>1 DEF Cleared
  <2>4. pc[w] = "consume" /\ pc'[w] = "idle" => Cleared' = Cleared \ {w}
    BY <2>1 DEF Cleared
  <2>5. pc'[w] = "consume" => Cleared' = Cleared \cup {w}
    BY <2>1 DEF Cleared
  <2>6. entries' = entries => VotesCast' = VotesCast
    BY DEF VotesCast, Authoritative, Deciding
  <2>7. releases' = releases => Released' = Released
    BY DEF Released
  <2>8. Return(w) => pc'[w] = "idle"
    BY <1>1 DEF Return, Goto, TypeOK
  <2>9. \A label : Advance(w, label) => pc'[w] = label
    BY <1>1 DEF Advance, Goto, TypeOK
  <2>10. \A label, r : Hold(w, r, label) => pc'[w] = label
    BY <1>1 DEF Hold, Goto, TypeOK
  <2>11. CASE AppendEntry(w)
    <3>1. entry[w] \in Entry /\ Permits(entry[w].vote)
      BY <1>1, <2>2, <2>11 DEF AppendEntry, TypeOK, CallOK, CallInv
    <3>2. VotesCast' = IF IsAdvisory(entry[w].vote) THEN VotesCast ELSE VotesCast \cup {entry[w].vote}
      BY <1>1, <2>11, <3>1, AppendCasts DEF AppendEntry
    <3>3. Cleared' = Cleared /\ Released' = Released
      BY <2>3, <2>7, <2>8, <2>9, <2>11 DEF AppendEntry
    <3>4. CASE IsAdvisory(entry[w].vote)
      BY <1>2, <2>1, <3>2, <3>3, <3>4
    <3>5. CASE ~IsAdvisory(entry[w].vote)
      <4>1. entry[w].vote \in Ballots
        BY <3>1, <3>5 DEF Entry, Ballots
      <4>2. Contract!Cast(entry[w].vote)
        BY <2>1, <3>2, <3>3, <3>5 DEF Contract!Cast, VotesCast, Cleared, Released
      <4> QED BY <4>1, <4>2 DEF Contract!Next
    <3> QED BY <3>4, <3>5
  <2>12. CASE Verify(w)
    <3>1. VotesCast' = VotesCast /\ Released' = Released
      BY <2>6, <2>7, <2>12 DEF Verify, store
    <3>2. CASE ChainIntact(entries, held[w].final) /\ Advance(w, "consume")
      <4>1. Endorsed(held[w].final)
        BY <2>2, <2>12 DEF CallInv, Verify
      <4>2. held[w].final = Len(entries)
        BY <3>2, <4>1, <1>1 DEF ChainIntact, Endorsed, TypeOK
      <4>3. ApprovedBy(VotesCast)
        BY <1>1, <4>1, <4>2, WholeChainApproves
      <4>4. Cleared' = Cleared \cup {w}
        BY <2>5, <2>9, <3>2
      <4>5. Contract!Clear(w)
        BY <2>1, <3>1, <4>3, <4>4 DEF Contract!Clear, VotesCast, Cleared, Released
      <4> QED BY <4>5 DEF Contract!Next
    <3>3. CASE Return(w)
      <4>1. Cleared' = Cleared
        BY <2>3, <2>8, <2>12, <3>3 DEF Verify
      <4> QED BY <1>2, <2>1, <3>1, <4>1
    <3> QED BY <2>12, <3>2, <3>3 DEF Verify
  <2>13. CASE Consume(w)
    <3>1. VotesCast' = VotesCast /\ Cleared' = Cleared \ {w} /\ w \in Cleared
      BY <2>4, <2>6, <2>8, <2>13 DEF Consume, Cleared
    <3>2. CASE releases' = releases
      <4>1. Contract!Withdraw(w)
        BY <2>1, <2>7, <3>1, <3>2 DEF Contract!Withdraw, VotesCast, Cleared, Released
      <4> QED BY <4>1 DEF Contract!Next
    <3>3. CASE releases' = Append(releases, [action |-> claim[w].action, final |-> held[w].final])
      <4> DEFINE new == [action |-> claim[w].action, final |-> held[w].final]
      <4>1. releases \in Seq(Release) /\ new \in Release
        BY <1>1, <2>13 DEF TypeOK, CallOK, Claim, Resolution, Release, Consume
      <4>2. claim[w].action = bound
        BY <2>2, <2>13 DEF CallInv, Consume
      <4>3. Released' = Append(Released, bound)
        <5> HIDE DEF new
        <5>1. /\ Len(releases') = Len(releases) + 1
              /\ releases'[Len(releases) + 1] = new
              /\ \A k \in 1..Len(releases) : releases'[k] = releases[k]
          BY <3>3, <4>1 DEF new
        <5>2. Released \in Seq(Bindings) /\ Len(Released) = Len(releases)
          BY <4>1, ReleasedType DEF Released
        <5>3. new.action = bound
          BY <4>2 DEF new
        <5>4. \A k \in 1..Len(releases) + 1 : Released'[k] = Append(Released, bound)[k]
          BY <4>1, <5>1, <5>2, <5>3 DEF Released
        <5>5. Released' \in Seq(Bindings) /\ Len(Released') = Len(releases) + 1
          BY <1>1, <5>1, ReleasedType DEF Released, TypeOK
        <5>6. Append(Released, bound) \in Seq(Bindings)
              /\ Len(Append(Released, bound)) = Len(releases) + 1
          BY <1>1, <5>2 DEF TypeOK
        <5> QED BY <5>4, <5>5, <5>6, SeqEqual
      <4>4. Contract!Release(w)
        BY <2>1, <3>1, <4>3 DEF Contract!Release, VotesCast, Cleared, Released
      <4> QED BY <4>4 DEF Contract!Next
    <3> QED BY <2>13, <3>2, <3>3 DEF Consume
  <2>14. CASE Fail(w)
    <3>1. VotesCast' = VotesCast /\ Released' = Released /\ pc'[w] = "idle"
      BY <2>6, <2>7, <2>8, <2>14 DEF Fail, store
    <3>2. CASE pc[w] = "consume"
      <4>1. Contract!Withdraw(w)
        BY <2>1, <2>4, <3>1, <3>2 DEF Contract!Withdraw, VotesCast, Cleared, Released
      <4> QED BY <4>1 DEF Contract!Next
    <3>3. CASE pc[w] # "consume"
      BY <1>2, <2>1, <2>3, <3>1, <3>3
    <3> QED BY <3>2, <3>3
  <2>15. CASE Begin(w)
    <3>1. UNCHANGED <<entries, releases>> /\ pc[w] # "consume" /\ pc'[w] # "consume"
      BY <1>1, <2>15 DEF Begin, BeginSubmit, BeginValidate, store, Goto, TypeOK
    <3> QED BY <1>2, <2>1, <2>3, <2>6, <2>7, <3>1
  <2>16. CASE Step(w) /\ ~AppendEntry(w) /\ ~Verify(w) /\ ~Consume(w)
    <3>1. UNCHANGED <<entries, releases>> /\ pc[w] # "consume" /\ pc'[w] # "consume"
      <4>1. CASE Seal(w)
        BY <1>1, <4>1 DEF Seal, store, Goto, TypeOK
      <4>2. CASE ~Seal(w)
        BY <2>8, <2>9, <2>10, <2>16, <4>2 DEF Step, LookupDuplicate, ReadStatus, ReadClock,
             Admit, CheckResolution, Tally, SaveResolution, SetStatus, EndOfExpiry,
             Fetch, CheckStatus, CheckWindow, store
      <4> QED BY <4>1, <4>2
    <3> QED BY <1>2, <2>1, <2>3, <2>6, <2>7, <3>1
  <2> QED BY <1>4, <2>11, <2>12, <2>13, <2>14, <2>15, <2>16
<1> QED BY <1>3, <1>4 DEF Next

\* The coordinator keeps the contract, for every value of its constants.
THEOREM CoordinatorImplementsContract == Spec => ImplementsContract
<1>1. Init => Contract!Init
  <2> SUFFICES ASSUME Init PROVE Contract!Init
    OBVIOUS
  <2>1. entries = <<>> /\ releases = <<>> /\ bound \in Bindings
    BY DEF Init
  <2>2. VotesCast = {}
    BY <2>1 DEF VotesCast, Authoritative, Deciding
  <2>3. Cleared = {}
    BY DEF Init, Cleared
  <2>4. Released = <<>>
    BY <2>1 DEF Released
  <2> QED BY <2>1, <2>2, <2>3, <2>4 DEF Contract!Init, VotesCast, Cleared, Released
<1> QED BY <1>1, InitIInv, IInvStep, ContractStep, PTL DEF Spec, ImplementsContract, Contract!Spec

-----------------------------------------------------------------------------
(* With one submitter an approval is consumed once. *)

\* Nothing was approved, or the approval was never stored in the status.
Fresh == status \notin {"allowed", "consumed"} /\ releases = <<>>

\* What a call's position says of the request. A submitter that found no
\* resolution finds the request fresh until it has set the status itself.
Single(w) ==
    /\ entry[w] # None => w \in Submitters
    /\ pc[w] = "tally" => Fresh
    /\ pc[w] = "set" => resolution # None
    /\ pc[w] \in {"save", "set"} /\ held[w].outcome = "allow"
         => entry[w] # None /\ Fresh

\* The strengthening of ConsumedAtMostOnce: the status becomes "allowed" only
\* while nothing was executed, and only once there is a resolution.
OnceInv ==
    /\ status = "none" \/ resolution = None => Fresh
    /\ status = "allowed" => releases = <<>>
    /\ ConsumedAtMostOnce
    /\ \A w \in Workers : Single(w)

\* A step that leaves the request's status, resolution and releases alone, and
\* the calls of the other workers, has to establish only what its own call's
\* new position says.
LEMMA QuietStepOnce ==
    ASSUME TypeOK, OnceInv, NEW w \in Workers,
           UNCHANGED <<status, resolution, releases>>,
           \A v \in Workers \ {w} :
               pc'[v] = pc[v] /\ entry'[v] = entry[v] /\ held'[v] = held[v],
           Single(w)'
    PROVE  OnceInv'
BY DEF OnceInv, Single, Fresh, ConsumedAtMostOnce

\* A call that returns is at no step of interest.
LEMMA ReturnIsSingle ==
    ASSUME TypeOK, NEW w \in Workers, Return(w)
    PROVE  Single(w)'
BY DEF TypeOK, Return, Goto, Single

\* Every step keeps the strengthening when no two workers submit.
LEMMA OnceStep ==
    ASSUME \A u, v \in Submitters : u = v, TypeOK, OnceInv, [Next]_vars
    PROVE  OnceInv'
<1>1. CASE Open \/ Tick \/ UNCHANGED vars
  <2>1. UNCHANGED <<resolution, pc, entry, held, releases>>
    BY <1>1 DEF Open, Tick, vars, store, locals
  <2>2. status' = status \/ (Fresh /\ status' = "pending")
    <3>1. CASE Open
      BY <3>1 DEF Open, OnceInv, Fresh
    <3> QED BY <1>1, <3>1 DEF Tick, vars, store
  <2> QED BY <2>1, <2>2 DEF OnceInv, Single, Fresh, ConsumedAtMostOnce
<1>2. ASSUME NEW w \in Workers, Begin(w) \/ Step(w) \/ Fail(w)
      PROVE  OnceInv'
  <2>1. \A v \in Workers \ {w} :
            pc'[v] = pc[v] /\ entry'[v] = entry[v] /\ held'[v] = held[v]
    BY <1>2, StepFrame
  <2>2. ASSUME Begin(w) PROVE OnceInv'
    <3>1. UNCHANGED <<status, resolution, releases>>
      BY <2>2 DEF Begin, BeginSubmit, BeginValidate, store
    <3>2. Single(w)'
      <4>1. ASSUME NEW v \in Votes, NEW id \in EntryIds, BeginSubmit(w, v, id)
            PROVE  Single(w)'
        BY <4>1 DEF BeginSubmit, Goto, Single, TypeOK
      <4>2. ASSUME NEW c \in Claim, BeginValidate(w, c)
            PROVE  Single(w)'
        BY <4>2 DEF BeginValidate, Goto, Single, TypeOK, OnceInv
      <4> QED BY <2>2, <4>1, <4>2 DEF Begin
    <3> QED BY <2>1, <3>1, <3>2, QuietStepOnce
  <2>3. ASSUME Fail(w) PROVE OnceInv'
    BY <2>1, <2>3, ReturnIsSingle, QuietStepOnce DEF Fail, store
  <2>4. ASSUME LookupDuplicate(w) \/ ReadStatus(w) \/ Admit(w) \/ Seal(w)
               \/ AppendEntry(w)
        PROVE  OnceInv'
    <3>1. UNCHANGED <<status, resolution, releases>>
      BY <2>4 DEF LookupDuplicate, ReadStatus, Admit, Seal, AppendEntry, store
    <3>2. \/ Return(w)
          \/ /\ pc'[w] \in {"gate", "clock", "fetch", "admit", "seal", "append", "check"}
             /\ entry'[w] # None => entry[w] # None
      BY <2>4 DEF LookupDuplicate, ReadStatus, Admit, Seal, AppendEntry,
           EndOfExpiry, Advance, Goto, TypeOK, CallOK
    <3>3. Single(w)'
      BY <3>2, ReturnIsSingle DEF Single, OnceInv
    <3> QED BY <2>1, <3>1, <3>3, QuietStepOnce
  <2>5. ASSUME ReadClock(w) PROVE OnceInv'
    <3>1. UNCHANGED <<status, resolution, releases, entry>>
      BY <2>5 DEF ReadClock, Hold, Advance, store
    <3>2. \/ pc'[w] \in {"admit", "fetch"}
          \/ pc'[w] = "save" /\ held'[w].outcome = "expired"
      BY <2>5 DEF ReadClock, Hold, Advance, Goto, TypeOK
    <3>3. Single(w)'
      BY <3>1, <3>2 DEF Single, OnceInv
    <3> QED BY <2>1, <3>1, <3>3, QuietStepOnce
  <2>6. ASSUME CheckResolution(w) PROVE OnceInv'
    <3>1. UNCHANGED <<status, resolution, releases>>
      BY <2>6 DEF CheckResolution, store
    <3>2. \/ Return(w)
          \/ /\ resolution = None /\ UNCHANGED entry
             /\ pc'[w] = "tally"
      BY <2>6 DEF CheckResolution, Advance, Goto, TypeOK
    <3>3. Single(w)'
      BY <3>1, <3>2, ReturnIsSingle DEF Single, OnceInv, Fresh
    <3> QED BY <2>1, <3>1, <3>3, QuietStepOnce
  <2>7. ASSUME Tally(w) PROVE OnceInv'
    <3>1. UNCHANGED <<status, resolution, releases>>
      BY <2>7 DEF Tally, store
    <3>2. \/ Return(w)
          \/ pc'[w] = "save" /\ entry'[w] = entry[w]
      BY <2>7 DEF Tally, Hold, Goto, TypeOK
    <3>3. Fresh /\ entry[w] # None
      BY <2>7 DEF Tally, OnceInv, Single, TypeOK, CallOK
    <3>4. Single(w)'
      BY <3>1, <3>2, <3>3, ReturnIsSingle DEF Single, OnceInv, Fresh
    <3> QED BY <2>1, <3>1, <3>4, QuietStepOnce
  <2>8. ASSUME SaveResolution(w) PROVE OnceInv'
    <3>1. UNCHANGED <<status, releases, entry, held>> /\ pc'[w] = "set"
      BY <2>8 DEF SaveResolution, Advance, Goto, TypeOK
    <3>2. resolution' # None
      BY <2>8 DEF SaveResolution, TypeOK, CallOK
    <3>3. pc[w] = "save"
      BY <2>8 DEF SaveResolution
    <3>4. \A v \in Workers : Single(v)'
      BY <2>1, <3>1, <3>2, <3>3 DEF OnceInv, Single, Fresh
    <3>5. status = "none" => Fresh'
      BY <3>1 DEF OnceInv, Fresh
    <3> QED BY <3>1, <3>2, <3>4, <3>5 DEF OnceInv, ConsumedAtMostOnce
  <2>9. ASSUME SetStatus(w) PROVE OnceInv'
    <3>1. /\ UNCHANGED <<resolution, releases>> /\ resolution # None
          /\ status' = StatusOf[held[w].outcome]
      BY <2>9 DEF SetStatus, OnceInv, Single
    <3>2. held[w] \in Resolution
      BY <2>9 DEF SetStatus, TypeOK, CallOK
    <3>3. \/ status' \in {"denied", "expired"}
          \/ /\ status' = "allowed" /\ held[w].outcome = "allow"
             /\ entry[w] # None /\ Fresh
      BY <2>9, <3>1, <3>2 DEF SetStatus, StatusOf, Resolution, OnceInv, Single
    <3>4. Single(w)'
      <4>1. Return(w) \/ (pc'[w] = "fetch" /\ UNCHANGED entry)
        BY <2>9 DEF SetStatus, EndOfExpiry, Advance, Goto, TypeOK
      <4> QED BY <4>1, ReturnIsSingle DEF Single, OnceInv
    <3>5. ASSUME NEW v \in Workers \ {w} PROVE Single(v)'
      <4>1. Single(v) /\ Single(w)
        BY DEF OnceInv
      <4>2. CASE status' \in {"denied", "expired"}
        BY <2>1, <3>1, <4>1, <4>2 DEF Single, Fresh
      <4>3. CASE entry[w] # None
        <5>1. entry[v] = None
          BY <4>1, <4>3 DEF Single
        <5>2. pc[v] # "tally"
          BY <5>1 DEF TypeOK, CallOK
        <5> QED BY <2>1, <3>1, <4>1, <5>1, <5>2 DEF Single
      <4> QED BY <3>3, <4>2, <4>3
    <3> QED BY <3>1, <3>3, <3>4, <3>5 DEF OnceInv, Fresh, ConsumedAtMostOnce
  <2>10. ASSUME Fetch(w) \/ CheckStatus(w) \/ CheckWindow(w) \/ Verify(w)
         PROVE  OnceInv'
    <3>1. UNCHANGED <<status, resolution, releases>>
      BY <2>10 DEF Fetch, CheckStatus, CheckWindow, Verify, store
    <3>2. \/ Return(w)
          \/ pc'[w] \in {"status", "window", "verify", "consume"} /\ UNCHANGED entry
      BY <2>10 DEF Fetch, CheckStatus, CheckWindow, Verify, Hold, Advance, Goto, TypeOK
    <3>3. Single(w)'
      BY <3>2, ReturnIsSingle DEF Single, OnceInv
    <3> QED BY <2>1, <3>1, <3>3, QuietStepOnce
  <2>11. ASSUME Consume(w) PROVE OnceInv'
    <3>1. Return(w) /\ UNCHANGED resolution
      BY <2>11 DEF Consume
    <3>2. CASE status # "allowed"
      BY <2>1, <2>11, <3>1, <3>2, ReturnIsSingle, QuietStepOnce DEF Consume
    <3>3. CASE status = "allowed"
      <4>1. ~Fresh /\ resolution # None /\ releases = <<>>
        BY <3>3 DEF Fresh, OnceInv
      <4>2. /\ status' = "consumed"
            /\ releases' = Append(releases, [action |-> claim[w].action,
                                             final |-> held[w].final])
        BY <2>11, <3>3 DEF Consume
      <4>3. Len(releases') = 1
        BY <4>1, <4>2
      <4>4. \A v \in Workers \ {w} : Single(v)'
        BY <2>1, <3>1, <4>1 DEF OnceInv, Single
      <4> QED BY <3>1, <4>1, <4>2, <4>3, <4>4, ReturnIsSingle
              DEF OnceInv, ConsumedAtMostOnce
    <3> QED BY <3>2, <3>3
  <2> QED BY <1>2, <2>2, <2>3, <2>4, <2>5, <2>6, <2>7, <2>8, <2>9, <2>10, <2>11 DEF Step
<1> QED BY <1>1, <1>2 DEF Next

\* With at most one submitter, and any number of validators, votes, crashes and
\* expiries, store.consume "returns True exactly once": an approval is never
\* executed twice. (With two submitters it can be.)
THEOREM OneSubmitterConsumesOnce ==
    ASSUME \A u, v \in Submitters : u = v
    PROVE  Spec => []ConsumedAtMostOnce
<1>1. Init => OnceInv
  <2> SUFFICES ASSUME Init PROVE OnceInv
    OBVIOUS
  <2>1. Fresh /\ releases = <<>> /\ \A w \in Workers : pc[w] = "idle" /\ entry[w] = None
    BY DEF Init, Fresh
  <2> QED BY <2>1 DEF OnceInv, Single, Fresh, ConsumedAtMostOnce
<1>2. TypeOK /\ OnceInv /\ [Next]_vars => OnceInv'
  BY OnceStep
<1>3. OnceInv => ConsumedAtMostOnce
  BY DEF OnceInv
<1> QED BY <1>1, <1>2, <1>3, TypeCorrect, PTL DEF Spec

-----------------------------------------------------------------------------
(* With one call at a time, status, resolution and chain agree. *)

\* A call between its admission and the resolution it may lead to.
Working == {"clock", "admit", "seal", "append", "check", "tally", "save", "set"}

\* What the only call under way knows: nobody else has appended or resolved.
AloneInv(w) ==
    /\ pc[w] \in Working => status \notin {"none", "allowed"}
    /\ pc[w] = "append" => entry[w].prev = Len(entries)
    /\ pc[w] \in {"check", "tally"} =>
          entries # <<>> /\ ~IsAdvisory(entries[Len(entries)].vote)
    /\ pc[w] \in {"save", "set"} /\ held[w].outcome = "allow" =>
          held[w].final = Len(entries) /\ Submitting(w)
    /\ pc[w] = "set" => resolution = held[w]

\* The strengthening of AllowedIsReleasable: the chain has no branches, and an
\* allow that reached the status is of the whole chain.
SerialInv ==
    /\ Linked(entries)
    /\ status = "allowed" => /\ resolution # None
                             /\ resolution.outcome = "allow"
                             /\ resolution.final = Len(entries)
    /\ \A w \in Workers : AloneInv(w)

\* A verdict over a chain whose last entry is authoritative covers it all.
LEMMA VerdictCoversChain ==
    ASSUME NEW chain \in Seq(Entry), chain # <<>>,
           ~IsAdvisory(chain[Len(chain)].vote),
           Verdict(chain) # None, Verdict(chain).outcome = "allow"
    PROVE  Verdict(chain).final = Len(chain)
<1> DEFINE last == Len(chain)
           places == Authoritative(chain) \cup {0}
           final  == Max(places)
<1>1. last \in 1..Len(chain) /\ chain[last] \in Entry
  BY EmptySeq
<1>2. chain[last].vote.decision \in {"allow", "deny"}
  BY <1>1, VotesAssumption DEF Entry, Vote
<1>3. last \in places
  BY <1>1, <1>2 DEF Authoritative, Deciding
<1>4. places \subseteq 0..last
  BY DecidingPlaces DEF Authoritative
<1>5. final = last
  <2> HIDE DEF places
  <2>1. \A x \in places : last >= x
    BY <1>1, <1>4
  <2>2. final \in places /\ \A x \in places : final >= x
    BY <1>3, <2>1 DEF Max
  <2>3. last \in Nat
    OBVIOUS
  <2> HIDE DEF final, last
  <2> QED BY <1>3, <1>4, <2>2, <2>3
<1> HIDE DEF final, last
<1>6. Verdict(chain).final = final
  BY DEF Verdict, final
<1> QED BY <1>5, <1>6 DEF last

\* A step that writes nothing into the store.
LEMMA StoreKeptSerial ==
    ASSUME SerialInv, NEW w \in Workers, \A v \in Workers : v = w,
           UNCHANGED <<status, entries, resolution>>, AloneInv(w)'
    PROVE  SerialInv'
BY DEF SerialInv, Linked

\* A call that returns knows nothing of interest any more.
LEMMA ReturnIsAlone ==
    ASSUME TypeOK, NEW w \in Workers, Return(w)
    PROVE  AloneInv(w)'
BY DEF TypeOK, Return, Goto, AloneInv, Working

\* Every step keeps the strengthening when there is one worker.
LEMMA SerialStep ==
    ASSUME \A u, v \in Workers : u = v, TypeOK, SerialInv, [Next]_vars
    PROVE  SerialInv'
<1>0. entries \in Seq(Entry) /\ Len(entries) \in Nat
  BY DEF TypeOK
<1>1. CASE Open \/ Tick \/ UNCHANGED vars
  <2>1. UNCHANGED <<entries, resolution, pc, entry, held>>
    BY <1>1 DEF Open, Tick, vars, store, locals
  <2>2. status' = status \/ (status = "none" /\ status' = "pending")
    BY <1>1 DEF Open, Tick, vars, store
  <2> QED BY <2>1, <2>2 DEF SerialInv, AloneInv, Linked, Working, Submitting
<1>2. ASSUME NEW w \in Workers, Begin(w) \/ Step(w) \/ Fail(w)
      PROVE  SerialInv'
  <2>0. (\A v \in Workers : v = w) /\ AloneInv(w)
    BY DEF SerialInv
  <2>1. ASSUME Begin(w) PROVE SerialInv'
    <3>1. UNCHANGED <<status, entries, resolution>>
      BY <2>1 DEF Begin, BeginSubmit, BeginValidate, store
    <3>2. pc'[w] \in {"lookup", "gate"}
      BY <2>1 DEF Begin, BeginSubmit, BeginValidate, Goto, TypeOK
    <3>3. AloneInv(w)'
      BY <3>2 DEF AloneInv, Working
    <3> QED BY <2>0, <3>1, <3>3, StoreKeptSerial
  <2>2. ASSUME Fail(w) PROVE SerialInv'
    BY <2>0, <2>2, ReturnIsAlone, StoreKeptSerial DEF Fail, store
  <2>3. ASSUME LookupDuplicate(w) \/ ReadStatus(w) \/ Admit(w)
        PROVE  SerialInv'
    <3>1. UNCHANGED <<status, entries, resolution>>
      BY <2>3 DEF LookupDuplicate, ReadStatus, Admit, store
    <3>2. \/ Return(w)
          \/ pc'[w] \in {"gate", "fetch"}
          \/ pc'[w] \in {"clock", "seal"} /\ status = "pending"
      BY <2>3 DEF LookupDuplicate, ReadStatus, Admit, EndOfExpiry, Advance, Goto, TypeOK
    <3>3. AloneInv(w)'
      BY <3>1, <3>2, ReturnIsAlone DEF AloneInv, Working
    <3> QED BY <2>0, <3>1, <3>3, StoreKeptSerial
  <2>4. ASSUME ReadClock(w) PROVE SerialInv'
    <3>1. UNCHANGED <<status, entries, resolution>> /\ status \notin {"none", "allowed"}
      BY <2>0, <2>4 DEF ReadClock, store, AloneInv, Working
    <3>2. \/ pc'[w] \in {"admit", "fetch"}
          \/ pc'[w] = "save" /\ held'[w].outcome = "expired"
      BY <2>4 DEF ReadClock, Hold, Advance, Goto, TypeOK
    <3>3. AloneInv(w)'
      BY <3>1, <3>2 DEF AloneInv, Working
    <3> QED BY <2>0, <3>1, <3>3, StoreKeptSerial
  <2>5. ASSUME Seal(w) PROVE SerialInv'
    <3>1. UNCHANGED <<status, entries, resolution>> /\ status \notin {"none", "allowed"}
      BY <2>0, <2>5 DEF Seal, store, AloneInv, Working
    <3>2. entry[w] \in Entry
      BY <2>5 DEF Seal, TypeOK, CallOK
    <3>3. pc'[w] = "append" /\ entry'[w].prev = Len(entries)
      BY <2>5, <3>2 DEF Seal, Goto, TypeOK, Entry
    <3>4. AloneInv(w)'
      BY <3>1, <3>3 DEF AloneInv, Working
    <3> QED BY <2>0, <3>1, <3>4, StoreKeptSerial
  <2>6. ASSUME AppendEntry(w) PROVE SerialInv'
    <3>1. /\ entry[w] \in Entry /\ entries' = Append(entries, entry[w])
          /\ entry[w].prev = Len(entries)
          /\ UNCHANGED <<status, resolution>> /\ status \notin {"none", "allowed"}
      BY <2>0, <2>6 DEF AppendEntry, TypeOK, CallOK, AloneInv, Working
    <3>2. /\ Len(entries') = Len(entries) + 1 /\ entries' # <<>>
          /\ entries'[Len(entries) + 1] = entry[w]
          /\ \A i \in 1..Len(entries) : entries'[i] = entries[i]
      BY <1>0, <3>1
    <3>3. Linked(entries')
      <4> SUFFICES ASSUME NEW i \in 1..Len(entries')
                   PROVE  entries'[i].prev = i - 1
        BY DEF Linked
      <4>1. CASE i \in 1..Len(entries)
        BY <3>2, <4>1 DEF SerialInv, Linked
      <4>2. CASE i = Len(entries) + 1
        BY <1>0, <3>1, <3>2, <4>2
      <4> QED BY <1>0, <3>2, <4>1, <4>2
    <3>4. \/ Return(w)
          \/ pc'[w] = "check" /\ ~IsAdvisory(entry[w].vote)
      BY <2>6 DEF AppendEntry, Advance, Goto, TypeOK
    <3>5. AloneInv(w)'
      BY <3>1, <3>2, <3>4, ReturnIsAlone DEF AloneInv, Working
    <3> QED BY <2>0, <3>1, <3>3, <3>5 DEF SerialInv
  <2>7. ASSUME CheckResolution(w) PROVE SerialInv'
    <3>1. UNCHANGED <<status, entries, resolution>> /\ status \notin {"none", "allowed"}
      BY <2>0, <2>7 DEF CheckResolution, store, AloneInv, Working
    <3>2. Return(w) \/ pc'[w] = "tally"
      BY <2>7 DEF CheckResolution, Advance, Goto, TypeOK
    <3>3. entries # <<>> /\ ~IsAdvisory(entries[Len(entries)].vote)
      BY <2>0, <2>7 DEF CheckResolution, AloneInv
    <3>4. AloneInv(w)'
      BY <3>1, <3>2, <3>3, ReturnIsAlone DEF AloneInv, Working
    <3> QED BY <2>0, <3>1, <3>4, StoreKeptSerial
  <2>8. ASSUME Tally(w) PROVE SerialInv'
    <3>1. UNCHANGED <<status, entries, resolution>> /\ status \notin {"none", "allowed"}
      BY <2>0, <2>8 DEF Tally, store, AloneInv, Working
    <3>2. \/ Return(w)
          \/ /\ Verdict(entries) # None
             /\ pc'[w] = "save" /\ held'[w] = Verdict(entries)
             /\ entry'[w] = entry[w] /\ entry[w] # None
      BY <2>8 DEF Tally, Hold, Goto, TypeOK, CallOK
    <3>3. entries # <<>> /\ ~IsAdvisory(entries[Len(entries)].vote)
      BY <2>0, <2>8 DEF Tally, AloneInv
    <3>4. Verdict(entries) # None /\ Verdict(entries).outcome = "allow" =>
              Verdict(entries).final = Len(entries)
      BY <1>0, <3>3, VerdictCoversChain
    <3>5. AloneInv(w)'
      BY <3>1, <3>2, <3>4, ReturnIsAlone DEF AloneInv, Working, Submitting
    <3> QED BY <2>0, <3>1, <3>5, StoreKeptSerial
  <2>9. ASSUME SaveResolution(w) PROVE SerialInv'
    <3>1. /\ UNCHANGED <<status, entries, held, entry>> /\ status \notin {"none", "allowed"}
          /\ pc[w] = "save" /\ pc'[w] = "set" /\ resolution' = held[w]
      BY <2>0, <2>9 DEF SaveResolution, Advance, Goto, TypeOK, AloneInv, Working
    <3>2. AloneInv(w)'
      BY <2>0, <3>1 DEF AloneInv, Working, Submitting
    <3> QED BY <2>0, <3>1, <3>2 DEF SerialInv, Linked
  <2>10. ASSUME SetStatus(w) PROVE SerialInv'
    <3>1. /\ UNCHANGED <<entries, resolution>> /\ resolution = held[w]
          /\ status' = StatusOf[held[w].outcome] /\ held[w] \in Resolution
          /\ held[w] # None
      BY <2>0, <2>10 DEF SetStatus, AloneInv, TypeOK, CallOK
    <3>2. status' = "allowed" => held[w].outcome = "allow" /\ held[w].final = Len(entries)
      BY <2>0, <2>10, <3>1 DEF SetStatus, StatusOf, Resolution, AloneInv
    <3>3. Return(w) \/ pc'[w] = "fetch"
      BY <2>10 DEF SetStatus, EndOfExpiry, Advance, Goto, TypeOK
    <3>4. AloneInv(w)'
      BY <3>3, ReturnIsAlone DEF AloneInv, Working
    <3> QED BY <2>0, <3>1, <3>2, <3>4 DEF SerialInv, Linked
  <2>11. ASSUME Fetch(w) \/ CheckStatus(w) \/ CheckWindow(w) \/ Verify(w)
         PROVE  SerialInv'
    <3>1. UNCHANGED <<status, entries, resolution>>
      BY <2>11 DEF Fetch, CheckStatus, CheckWindow, Verify, store
    <3>2. Return(w) \/ pc'[w] \in {"status", "window", "verify", "consume"}
      BY <2>11 DEF Fetch, CheckStatus, CheckWindow, Verify, Hold, Advance, Goto, TypeOK
    <3>3. AloneInv(w)'
      BY <3>2, ReturnIsAlone DEF AloneInv, Working
    <3> QED BY <2>0, <3>1, <3>3, StoreKeptSerial
  <2>12. ASSUME Consume(w) PROVE SerialInv'
    <3>1. Return(w) /\ UNCHANGED <<entries, resolution>>
      BY <2>12 DEF Consume
    <3>2. status' = status \/ status' = "consumed"
      BY <2>12 DEF Consume
    <3>3. AloneInv(w)'
      BY <3>1, ReturnIsAlone
    <3> QED BY <2>0, <3>1, <3>2, <3>3 DEF SerialInv, Linked
  <2> QED BY <1>2, <2>1, <2>2, <2>3, <2>4, <2>5, <2>6, <2>7, <2>8, <2>9, <2>10, <2>11,
             <2>12 DEF Step
<1> QED BY <1>1, <1>2 DEF Next

\* When calls follow one another, whatever they are and whichever of them are
\* cut short, an approved request can be executed: its resolution allows and its
\* chain verifies.
THEOREM SerialApprovalIsReleasable ==
    ASSUME \A u, v \in Workers : u = v
    PROVE  Spec => []AllowedIsReleasable
<1>1. Init => SerialInv
  BY DEF Init, SerialInv, AloneInv, Linked, Working
<1>2. TypeOK /\ SerialInv /\ [Next]_vars => SerialInv'
  BY SerialStep
<1>3. SerialInv => AllowedIsReleasable
  BY DEF SerialInv, AllowedIsReleasable, ChainIntact
<1> QED BY <1>1, <1>2, <1>3, TypeCorrect, PTL DEF Spec

-----------------------------------------------------------------------------
(* With one call at a time, none of them cut short, the status is settled. *)

\* The status tells what the resolution says.
Agrees == \/ status = StatusOf[resolution.outcome]
          \/ status = "consumed" /\ resolution.outcome = "allow"

\* The call under way, if any, accounts for what is not settled yet.
SettledInv ==
    failures = 0 =>
      /\ resolution = None =>
           /\ status \in {"none", "pending"}
           /\ \/ Verdict(entries) = None
              \/ \E w \in Workers : pc[w] \in {"check", "tally", "save"}
      /\ resolution # None => Agrees \/ \E w \in Workers : pc[w] = "set"
      /\ \A w \in Workers :
           pc[w] \in Working \ {"set"} => status = "pending" /\ resolution = None

\* An advisory entry changes no verdict.
LEMMA AdvisoryDecidesNothing ==
    ASSUME NEW chain \in Seq(Entry), NEW e \in Entry, IsAdvisory(e.vote)
    PROVE  Verdict(Append(chain, e)) = Verdict(chain)
<1> DEFINE longer == Append(chain, e)
<1>1. /\ Len(chain) \in Nat /\ Len(longer) = Len(chain) + 1
      /\ longer[Len(chain) + 1] = e
      /\ \A i \in 1..Len(chain) : longer[i] = chain[i]
  OBVIOUS
<1> HIDE DEF longer
<1>2. ASSUME NEW d PROVE Deciding(longer, d) = Deciding(chain, d)
  BY <1>1 DEF Deciding
<1>3. Authoritative(longer) = Authoritative(chain)
  BY <1>2 DEF Authoritative
<1>4. AllowedStages(longer) = AllowedStages(chain)
  <2>1. \A i \in Deciding(chain, "allow") : longer[i].vote.stage = chain[i].vote.stage
    BY <1>1 DEF Deciding
  <2> QED BY <1>2, <2>1 DEF AllowedStages
<1>5. Verdict(longer) = Verdict(chain)
  BY <1>2, <1>3, <1>4 DEF Verdict
<1> QED BY <1>5 DEF longer

\* An empty chain decides nothing when a stage is required.
LEMMA EmptyDecidesNothing ==
    ASSUME Required # {} PROVE Verdict(<<>>) = None
<1>1. ASSUME NEW d PROVE Deciding(<<>>, d) = {}
  BY DEF Deciding
<1>2. AllowedStages(<<>>) = {}
  BY <1>1 DEF AllowedStages
<1> QED BY <1>1, <1>2 DEF Verdict

\* What a status tells about the resolution it agrees with.
LEMMA AgreementOfStatus ==
    ASSUME resolution \in Resolution, Agrees
    PROVE  /\ status \notin {"none", "pending"}
           /\ status = "allowed" => resolution.outcome = "allow"
BY DEF Agrees, StatusOf, Resolution

\* A step that writes nothing into the store and leaves what is not settled
\* to the same call.
LEMMA StoreKeptSettled ==
    ASSUME TypeOK, SettledInv, NEW w \in Workers, \A v \in Workers : v = w,
           UNCHANGED <<status, entries, resolution, failures>>,
           pc[w] \in {"check", "tally", "save"} =>
               \/ pc'[w] \in {"check", "tally", "save"}
               \/ Verdict(entries) = None,
           pc[w] # "set",
           pc'[w] \in Working \ {"set"} =>
               \/ pc[w] \in Working \ {"set"}
               \/ status = "pending"
    PROVE  SettledInv'
<1> SUFFICES ASSUME failures = 0 PROVE SettledInv'
  BY DEF SettledInv
<1>1. resolution # None => Agrees /\ status # "pending"
  BY AgreementOfStatus DEF SettledInv, TypeOK
<1>2. Agrees' <=> Agrees
  BY DEF Agrees
<1>3. resolution = None =>
          /\ status \in {"none", "pending"}
          /\ Verdict(entries) = None \/ pc'[w] \in {"check", "tally", "save"}
  BY DEF SettledInv
<1>4. pc'[w] \in Working \ {"set"} => status = "pending" /\ resolution = None
  BY <1>1 DEF SettledInv
<1> QED BY <1>1, <1>2, <1>3, <1>4 DEF SettledInv

\* Every step keeps the agreement when there is one worker.
LEMMA SettledStep ==
    ASSUME \A u, v \in Workers : u = v, TypeOK, SerialInv, SettledInv, [Next]_vars
    PROVE  SettledInv'
<1>0. entries \in Seq(Entry) /\ resolution \in Resolution \cup {None} /\ failures \in Nat
  BY BoundsAssumption DEF TypeOK
<1>1. CASE Open
  <2>1. /\ status = "none" /\ status' = "pending"
        /\ UNCHANGED <<entries, resolution, pc, failures>>
    BY <1>1 DEF Open, store, locals
  <2>2. resolution # None => ~Agrees
    BY <1>0, <2>1, AgreementOfStatus
  <2> QED BY <2>1, <2>2 DEF SettledInv
<1>2. CASE Tick \/ UNCHANGED vars
  BY <1>2 DEF Tick, vars, store, locals, SettledInv, Agrees
<1>3. ASSUME NEW w \in Workers, Begin(w) \/ Step(w) \/ Fail(w)
      PROVE  SettledInv'
  <2>0. (\A v \in Workers : v = w) /\ AloneInv(w)
    BY DEF SerialInv
  <2>1. ASSUME Begin(w) PROVE SettledInv'
    <3>1. UNCHANGED <<status, entries, resolution, failures>> /\ pc[w] = "idle"
      BY <2>1 DEF Begin, BeginSubmit, BeginValidate, store
    <3>2. pc'[w] \in {"lookup", "gate"}
      BY <2>1 DEF Begin, BeginSubmit, BeginValidate, Goto, TypeOK
    <3> QED BY <2>0, <3>1, <3>2, StoreKeptSettled DEF Working
  <2>2. ASSUME Fail(w) PROVE SettledInv'
    <3>1. failures' # 0
      BY <1>0, <2>2 DEF Fail
    <3> QED BY <3>1 DEF SettledInv
  <2>3. ASSUME LookupDuplicate(w) \/ ReadStatus(w) PROVE SettledInv'
    <3>1. /\ UNCHANGED <<status, entries, resolution, failures>>
          /\ pc[w] \in {"lookup", "gate"}
      BY <2>3 DEF LookupDuplicate, ReadStatus, store
    <3>2. \/ pc'[w] \in {"idle", "gate", "fetch"}
          \/ pc'[w] = "clock" /\ status = "pending"
      BY <2>3 DEF LookupDuplicate, ReadStatus, EndOfExpiry, Advance, Return, Goto, TypeOK
    <3> QED BY <2>0, <3>1, <3>2, StoreKeptSettled DEF Working
  <2>4. ASSUME ReadClock(w) \/ Admit(w) \/ Seal(w) PROVE SettledInv'
    <3>1. /\ UNCHANGED <<status, entries, resolution, failures>>
          /\ pc[w] \in {"clock", "admit", "seal"}
      BY <2>4 DEF ReadClock, Admit, Seal, store
    <3>2. pc'[w] # "set"
      BY <2>4 DEF ReadClock, Admit, Seal, Hold, Advance, Return, Goto, TypeOK
    <3> QED BY <2>0, <3>1, <3>2, StoreKeptSettled DEF Working
  <2>5. ASSUME AppendEntry(w) PROVE SettledInv'
    <3> SUFFICES ASSUME failures = 0 PROVE SettledInv'
      BY <2>5 DEF AppendEntry, SettledInv
    <3>1. /\ entry[w] \in Entry /\ entries' = Append(entries, entry[w])
          /\ pc[w] = "append"
          /\ UNCHANGED <<status, resolution, failures>>
      BY <2>5 DEF AppendEntry, TypeOK, CallOK
    <3>2. status = "pending" /\ resolution = None /\ Verdict(entries) = None
      BY <2>0, <3>1 DEF SettledInv, Working
    <3>3. \/ pc'[w] = "check"
          \/ pc'[w] = "idle" /\ IsAdvisory(entry[w].vote)
      BY <2>5 DEF AppendEntry, Advance, Return, Goto, TypeOK
    <3>4. Verdict(entries') = None \/ pc'[w] = "check"
      BY <1>0, <3>1, <3>2, <3>3, AdvisoryDecidesNothing
    <3> QED BY <2>0, <3>1, <3>2, <3>3, <3>4 DEF SettledInv, Working
  <2>6. ASSUME CheckResolution(w) \/ Tally(w) PROVE SettledInv'
    <3> SUFFICES ASSUME failures = 0 PROVE SettledInv'
      BY <2>6 DEF CheckResolution, Tally, SettledInv
    <3>1. /\ UNCHANGED <<status, entries, resolution, failures>>
          /\ pc[w] \in {"check", "tally"}
      BY <2>6 DEF CheckResolution, Tally, store
    <3>2. resolution = None
      BY <3>1 DEF SettledInv, Working
    <3>3. \/ pc'[w] \in {"tally", "save"}
          \/ pc'[w] = "idle" /\ Verdict(entries) = None
      BY <2>6, <3>2 DEF CheckResolution, Tally, Hold, Advance, Return, Goto, TypeOK
    <3> QED BY <2>0, <3>1, <3>3, StoreKeptSettled DEF Working
  <2>7. ASSUME SaveResolution(w) PROVE SettledInv'
    <3>1. /\ pc[w] = "save" /\ pc'[w] = "set" /\ resolution' = held[w]
          /\ held[w] # None
      BY <2>7 DEF SaveResolution, Advance, Goto, TypeOK, CallOK
    <3> QED BY <2>0, <3>1 DEF SettledInv, Working
  <2>8. ASSUME SetStatus(w) PROVE SettledInv'
    <3>1. /\ pc[w] = "set" /\ resolution = held[w] /\ resolution' = resolution
          /\ status' = StatusOf[resolution.outcome]
          /\ held[w] # None
      BY <2>0, <2>8 DEF SetStatus, AloneInv, TypeOK, CallOK
    <3>2. pc'[w] \in {"idle", "fetch"}
      BY <2>8 DEF SetStatus, EndOfExpiry, Advance, Return, Goto, TypeOK
    <3> QED BY <2>0, <3>1, <3>2 DEF SettledInv, Agrees, Working
  <2>9. ASSUME Fetch(w) \/ CheckStatus(w) \/ CheckWindow(w) \/ Verify(w)
        PROVE  SettledInv'
    <3>1. /\ UNCHANGED <<status, entries, resolution, failures>>
          /\ pc[w] \in {"fetch", "status", "window", "verify"}
      BY <2>9 DEF Fetch, CheckStatus, CheckWindow, Verify, store
    <3>2. pc'[w] \in {"idle", "status", "window", "verify", "consume"}
      BY <2>9 DEF Fetch, CheckStatus, CheckWindow, Verify, Hold, Advance, Return, Goto, TypeOK
    <3> QED BY <2>0, <3>1, <3>2, StoreKeptSettled DEF Working
  <2>10. ASSUME Consume(w) PROVE SettledInv'
    <3> SUFFICES ASSUME failures = 0 PROVE SettledInv'
      BY <2>10 DEF Consume, SettledInv
    <3>1. /\ UNCHANGED <<entries, resolution, failures>>
          /\ pc[w] = "consume" /\ pc'[w] = "idle"
          /\ status' = status \/ (status = "allowed" /\ status' = "consumed")
      BY <2>10 DEF Consume, Return, Goto, TypeOK
    <3>2. resolution = None => /\ status' = status /\ status \in {"none", "pending"}
                               /\ Verdict(entries) = None
      BY <2>0, <3>1 DEF SettledInv
    <3>3. resolution # None => Agrees
      BY <2>0, <3>1 DEF SettledInv
    <3>4. resolution # None => Agrees'
      BY <1>0, <3>1, <3>3, AgreementOfStatus DEF Agrees
    <3> QED BY <2>0, <3>1, <3>2, <3>4 DEF SettledInv, Working
  <2> QED BY <1>3, <2>1, <2>2, <2>3, <2>4, <2>5, <2>6, <2>7, <2>8, <2>9, <2>10 DEF Step
<1> QED BY <1>1, <1>2, <1>3 DEF Next

\* When calls follow one another and none is cut short, the status of a request
\* tells what its resolution says, and a request is pending just while its
\* chain decides nothing. Without a required stage the second half fails: the
\* empty chain of a request just opened already decides a denial (coordinator.py:
\* "a chain without required stages is misconfigured and must fail closed"),
\* which takes effect with the first authoritative entry.
THEOREM SerialStatusIsSettled ==
    ASSUME \A u, v \in Workers : u = v, Required # {}
    PROVE  Spec => []StatusIsSettled
<1>1. Init => SerialInv
  BY DEF Init, SerialInv, AloneInv, Linked, Working
<1>2. Init => SettledInv
  BY EmptyDecidesNothing DEF Init, SettledInv, Working
<1>3. TypeOK /\ SerialInv /\ SettledInv /\ [Next]_vars => SerialInv' /\ SettledInv'
  BY SerialStep, SettledStep
<1>4. SettledInv => StatusIsSettled
  BY DEF SettledInv, StatusIsSettled, AllIdle, Agrees
<1> QED BY <1>1, <1>2, <1>3, <1>4, TypeCorrect, PTL DEF Spec
=============================================================================
