-------------------------- MODULE PublicDemoProofs --------------------------
(***************************************************************************)
(* Safety of the public demo, for any number of runs, tasks, events,       *)
(* background workers and mishaps.                                         *)
(*                                                                         *)
(* The argument is a chain.  A run publishes the breaking revision only    *)
(* when there is none, so there is one intervention; the unique keys of    *)
(* the work items then leave one obligation, its claim one task, and every *)
(* run that comes past the claim carries on with that task.  A run plans   *)
(* only for a drift it has seen, and drifts are never deleted, so evidence *)
(* and a completed row have one behind them.                               *)
(***************************************************************************)
EXTENDS PublicDemo, ReconciliationProofs

-----------------------------------------------------------------------------
(* The inductive invariant. *)

ItemRows == [state : ItemStatuses, task : Tasks \cup {NoTask}, evidence : BOOLEAN]

Intervenes(e) == outbox[e] # NoEvent /\ outbox[e].intervention

\* The steps of a run by what it has behind it.
BeforeBaseline == {"idle", "ended", "raised", "REGISTERING_SERVICES", "services",
                   "PUBLISHING_BASELINE", "find_baseline", "publish_baseline"}
AfterDrift == {"replan", "submit", "result", "finish"}
AfterClaim == AfterDrift \cup {"CHECKPOINTING_AND_REPLANNING", "checkpoint", "find_drift"}

\* One breaking revision: it follows a first one, and no second one follows it.
OneIntervention ==
  /\ latest[Billing] <= 2
  /\ \A r \in Runs : pc[r] \notin BeforeBaseline => latest[Billing] >= 1
  /\ \A e \in Events : Intervenes(e) => latest[Billing] = 2
  /\ \A e, f \in Events : Intervenes(e) /\ Intervenes(f) => e = f

\* One obligation, created for the intervention and tracked as the item.
OneObligation ==
  /\ \A w \in work : w.event \in Events /\ Intervenes(w.event)
  /\ \A m, n \in work : m = n
  /\ work = {} <=> item.state = "NONE"

Unclaimed == {"NONE", "PENDING", "DISPATCHED"}

\* One task, created by the claim of the item: every run that goes on after a
\* claim goes on with that task.
OneTask ==
  /\ item.state \in Unclaimed => item.task = NoTask
  /\ item.task = NoTask => item.state \in Unclaimed \cup {"WITHDRAWN"}
  /\ \A t \in Tasks : status[t] # "NONE" => t = item.task
  /\ \A r \in Runs : pc[r] \in AfterClaim =>
       mine[r] = item.task /\ mine[r] # NoTask

Concluded == {"AWAITING_APPROVAL", "VERIFIED", "COMPLETED", "WITHDRAWN"}

\* A plan answers a drift, evidence follows a plan, and a run ends well only
\* with evidence.
PlansAnswerDrifts ==
  /\ \A t \in Tasks : DriftsOf(t) # {} => status[t] \notin {"NONE", "OPTIMISTIC_EXECUTING"}
  /\ \A r \in Runs : pc[r] \in AfterDrift => DriftsOf(mine[r]) # {}
  /\ item.evidence => item.state \in Concluded /\ DriftsOf(item.task) # {}
  /\ \A r \in Runs : pc[r] = "finish" => item.evidence
  /\ row.status = "COMPLETED" => item.evidence

DemoInv == /\ LedgerInv /\ DemoTypeOK
           /\ OneIntervention /\ OneObligation /\ OneTask /\ PlansAnswerDrifts

-----------------------------------------------------------------------------
(* What a step does to the ledger, to the item and to the runs. *)

PhaseNames == {"REGISTERING_SERVICES", "PUBLISHING_BASELINE",
               "PUBLISHING_BREAKING_CONTRACT", "PROCESSING_DRIFT",
               "DISPATCHING_COMPATIBILITY_WORK", "CHECKPOINTING_AND_REPLANNING"}

LEMMA PhaseSteps ==
  /\ DOMAIN Phases = PhaseNames
  /\ Phases["REGISTERING_SERVICES"] = "services"
  /\ Phases["PUBLISHING_BASELINE"] = "find_baseline"
  /\ Phases["PUBLISHING_BREAKING_CONTRACT"] = "find_revision"
  /\ Phases["PROCESSING_DRIFT"] = "ingest"
  /\ Phases["DISPATCHING_COMPATIBILITY_WORK"] = "claim"
  /\ Phases["CHECKPOINTING_AND_REPLANNING"] = "checkpoint"
BY DEF Phases, PhaseNames

Places == Steps \cup PhaseNames \cup {"idle", "ended"}

\* Where the end of a step leaves the runs.
LEMMA GotoMoves ==
  ASSUME DemoTypeOK, NEW r \in Runs, NEW next \in Places, Goto(r, next)
  PROVE  /\ pc' \in [Runs -> Places] /\ pc'[r] \in {next, "raised"}
         /\ \A q \in Runs \ {r} : pc'[q] = pc[q]
         /\ mishaps' \in 0..MaxMishaps
BY PhaseSteps, DemoAssumption DEF Goto, DemoTypeOK, Places, Steps

LEMMA RaiseMoves ==
  ASSUME DemoTypeOK, NEW r \in Runs, Raise(r)
  PROVE  /\ pc' \in [Runs -> Places] /\ pc'[r] = "raised"
         /\ \A q \in Runs \ {r} : pc'[q] = pc[q]
         /\ UNCHANGED <<vars, item, mine, registered, row, mishaps>>
BY PhaseSteps DEF Raise, DemoTypeOK, Places, Steps

\* The steps that leave the ledger, the item and the tasks of the runs alone.
Quiet ==
  \/ \E r \in Runs : \/ Launch(r) \/ Announce(r) \/ Finish(r) \/ RecordRunFailure(r)
                     \/ EnsureServices(r) \/ Lookups(r) \/ RegisterHarness(r) \/ Fault(r)
  \/ Crash \/ UNCHANGED allVars

LEMMA QuietSteps == Quiet => UNCHANGED vars /\ item' = item /\ mine' = mine
BY DEF Quiet, Launch, Announce, Finish, RecordRunFailure, EnsureServices, Lookups, Find,
       RegisterHarness, Fault, Crash, allVars, demoVars, Raise


RunTypes ==
  /\ row \in [run : Runs \cup {NoRun}, status : RowStatuses]
  /\ pc \in [Runs -> Places]
  /\ mine \in [Runs -> Tasks \cup {NoTask}]
  /\ registered \in BOOLEAN
  /\ item \in ItemRows
  /\ mishaps \in 0..MaxMishaps

\* A run comes past a milestone only with what it stands for.
GoesOn(r) ==
  /\ pc'[r] \notin BeforeBaseline => pc[r] \notin BeforeBaseline \/ latest'[Billing] >= 1
  /\ pc'[r] \in AfterClaim =>
       \/ pc[r] \in AfterClaim /\ mine'[r] = mine[r]
       \/ mine'[r] = item'.task /\ mine'[r] # NoTask
  /\ pc'[r] \in AfterDrift =>
       /\ pc[r] \in AfterDrift \/ DriftsOf(mine[r]) # {}
       /\ mine'[r] = mine[r]
  /\ pc'[r] = "finish" => pc[r] = "finish" \/ item'.evidence

RunsGoOn ==
  /\ RunTypes'
  /\ \A r \in Runs : GoesOn(r)
  /\ row'.status = "COMPLETED" => row.status = "COMPLETED" \/ \E r \in Runs : pc[r] = "finish"

LEMMA TypesOfTheRuns == DemoTypeOK => RunTypes
BY PhaseSteps DEF DemoTypeOK, RunTypes, Places, ItemRows

\* The other runs stay where they are.
LEMMA OneRunMoves ==
  ASSUME NEW r \in Runs, GoesOn(r),
         \A q \in Runs \ {r} : pc'[q] = pc[q] /\ mine'[q] = mine[q]
  PROVE  \A q \in Runs : GoesOn(q)
<1>1. ASSUME NEW q \in Runs \ {r} PROVE GoesOn(q)
  BY DEF GoesOn, AfterClaim
<1>2. QED
  BY <1>1

\* A run that raises keeps nothing it would have to answer for.
LEMMA RaisedRuns ==
  ASSUME DemoInv, NEW r \in Runs, Raise(r)
  PROVE  RunsGoOn
<1>1. DemoTypeOK /\ RunTypes
  BY TypesOfTheRuns DEF DemoInv
<1>2. /\ pc' \in [Runs -> Places] /\ pc'[r] = "raised"
      /\ \A q \in Runs \ {r} : pc'[q] = pc[q]
      /\ item' = item /\ mine' = mine /\ registered' = registered /\ row' = row
      /\ mishaps' = mishaps
  BY <1>1, RaiseMoves
<1>3. GoesOn(r)
  BY <1>2 DEF GoesOn, BeforeBaseline, AfterClaim, AfterDrift
<1>4. QED
  BY <1>1, <1>2, <1>3, OneRunMoves DEF RunsGoOn, RunTypes

LEMMA QuietMoves ==
  ASSUME DemoInv, Quiet
  PROVE  RunsGoOn
<1>0. DemoTypeOK /\ RunTypes /\ latest[Billing] \in Nat
  BY TypesOfTheRuns, DemoAssumption DEF DemoInv, LedgerInv, LedgerTypeOK
<1>1. UNCHANGED vars /\ item' = item /\ mine' = mine
  BY QuietSteps
<1>2. latest' = latest
  BY <1>1 DEF vars
<1>3. ASSUME NEW r \in Runs, Launch(r)
      PROVE  RunsGoOn
  BY <1>0, <1>1, <1>3, DemoAssumption
  DEF Launch, RunsGoOn, RunTypes, GoesOn, BeforeBaseline, AfterClaim, AfterDrift, Places,
      PhaseNames, RowStatuses
<1>4. ASSUME NEW r \in Runs, Announce(r)
      PROVE  RunsGoOn
  <2>1. pc[r] \in PhaseNames /\ Phases[pc[r]] \in Places
    BY <1>4, PhaseSteps DEF Announce, PhaseNames, Places, Steps
  <2>2. /\ pc' \in [Runs -> Places] /\ pc'[r] \in {Phases[pc[r]], "raised"}
        /\ \A q \in Runs \ {r} : pc'[q] = pc[q]
        /\ mishaps' \in 0..MaxMishaps
        /\ row' \in [run : Runs \cup {NoRun}, status : RowStatuses]
        /\ row'.status = "COMPLETED" => row.status = "COMPLETED"
        /\ registered' = registered
    <3>1. CASE OwnsRow(r)
      BY <1>0, <1>4, <2>1, <3>1, GotoMoves DEF Announce, RunTypes, RowStatuses
    <3>2. CASE ~OwnsRow(r)
      BY <1>0, <1>4, <3>2, RaiseMoves DEF Announce, RunTypes
    <3>3. QED
      BY <3>1, <3>2
  <2>3. GoesOn(r)
    BY <1>0, <1>1, <1>2, <2>1, <2>2, PhaseSteps
    DEF GoesOn, BeforeBaseline, AfterClaim, AfterDrift, PhaseNames
  <2>4. QED
    BY <1>0, <1>1, <2>2, <2>3, OneRunMoves DEF RunsGoOn, RunTypes

<1>5. ASSUME NEW r \in Runs, Finish(r)
      PROVE  RunsGoOn
  <2>1. CASE OwnsRow(r)
    <3>1. Goto(r, "ended")
      BY <1>5, <2>1 DEF Finish
    <3>2. /\ pc' \in [Runs -> Places] /\ pc'[r] \in {"ended", "raised"}
          /\ \A q \in Runs \ {r} : pc'[q] = pc[q]
          /\ mishaps' \in 0..MaxMishaps
      BY <1>0, <3>1, GotoMoves DEF Places
    <3>3. GoesOn(r)
      BY <3>2 DEF GoesOn, BeforeBaseline, AfterClaim, AfterDrift
    <3>4. QED
      BY <1>0, <1>1, <1>5, <2>1, <3>2, <3>3, OneRunMoves
      DEF Finish, RunsGoOn, RunTypes, RowStatuses
  <2>2. CASE ~OwnsRow(r)
    BY <1>5, <2>2, RaisedRuns DEF Finish, DemoInv
  <2>3. QED
    BY <2>1, <2>2
<1>6. ASSUME NEW r \in Runs, RecordRunFailure(r)
      PROVE  RunsGoOn
  <2>1. pc' = [pc EXCEPT ![r] = "ended"]
    BY <1>6 DEF RecordRunFailure
  <2>2. /\ pc' \in [Runs -> Places] /\ pc'[r] = "ended"
        /\ \A q \in Runs \ {r} : pc'[q] = pc[q]
    BY <1>0, <2>1 DEF RunTypes, Places
  <2>3. GoesOn(r)
    BY <2>2 DEF GoesOn, BeforeBaseline, AfterClaim, AfterDrift
  <2>4. /\ mishaps' \in 0..MaxMishaps
        /\ row' \in [run : Runs \cup {NoRun}, status : RowStatuses]
        /\ row'.status = "COMPLETED" => row.status = "COMPLETED"
        /\ registered' = registered
    BY <1>0, <1>6, DemoAssumption DEF RecordRunFailure, RunTypes, RowStatuses
  <2>5. QED
    BY <1>0, <1>1, <2>2, <2>3, <2>4, OneRunMoves DEF RunsGoOn, RunTypes
<1>7. ASSUME NEW r \in Runs, EnsureServices(r)
      PROVE  RunsGoOn
  <2>1. pc[r] = "services" /\ Goto(r, "PUBLISHING_BASELINE")
        /\ UNCHANGED <<row, registered>>
    BY <1>7 DEF EnsureServices
  <2>2. /\ pc' \in [Runs -> Places] /\ pc'[r] \in {"PUBLISHING_BASELINE", "raised"}
        /\ \A q \in Runs \ {r} : pc'[q] = pc[q]
        /\ mishaps' \in 0..MaxMishaps
    BY <1>0, <2>1, GotoMoves DEF Places, PhaseNames
  <2>3. GoesOn(r)
    BY <2>2 DEF GoesOn, BeforeBaseline, AfterClaim, AfterDrift
  <2>4. QED
    BY <1>0, <1>1, <2>1, <2>2, <2>3, OneRunMoves DEF RunsGoOn, RunTypes
<1>8. ASSUME NEW r \in Runs, Lookups(r)
      PROVE  RunsGoOn
  <2>1. PICK next \in Places :
          /\ Goto(r, next) /\ UNCHANGED <<row, registered>>
          /\ next \notin BeforeBaseline => pc[r] \notin BeforeBaseline \/ latest[Billing] >= 1
          /\ next \in AfterClaim => pc[r] \in AfterClaim
          /\ next \in AfterDrift => DriftsOf(mine[r]) # {}
          /\ next # "finish"
    <3>1. CASE Find(r, "find_baseline", latest[Billing] > 0, "find_dependency", "publish_baseline")
      BY <1>0, <3>1 DEF Find, Places, PhaseNames, Steps, BeforeBaseline, AfterClaim, AfterDrift
    <3>2. CASE Find(r, "find_dependency", 1 \in confirmed[Billing], "find_harness",
                    "confirm_dependency")
      BY <3>2 DEF Find, Places, PhaseNames, Steps, BeforeBaseline, AfterClaim, AfterDrift
    <3>3. CASE Find(r, "find_harness", registered, "PUBLISHING_BREAKING_CONTRACT",
                    "register_harness")
      BY <3>3 DEF Find, Places, PhaseNames, Steps, BeforeBaseline, AfterClaim, AfterDrift
    <3>4. CASE Find(r, "find_revision", latest[Billing] > 1, "PROCESSING_DRIFT",
                    "publish_revision")
      BY <3>4 DEF Find, Places, PhaseNames, Steps, BeforeBaseline, AfterClaim, AfterDrift
    <3>5. CASE Find(r, "find_drift", DriftsOf(mine[r]) # {}, "replan", "raised")
      BY <3>5 DEF Find, Places, PhaseNames, Steps, BeforeBaseline, AfterClaim, AfterDrift
    <3>6. QED
      BY <1>8, <3>1, <3>2, <3>3, <3>4, <3>5 DEF Lookups
  <2>2. /\ pc' \in [Runs -> Places] /\ pc'[r] \in {next, "raised"}
        /\ \A q \in Runs \ {r} : pc'[q] = pc[q]
        /\ mishaps' \in 0..MaxMishaps
    BY <1>0, <2>1, GotoMoves
  <2>3. GoesOn(r)
    <3>1. CASE pc'[r] = next
      BY <1>1, <1>2, <2>1, <3>1 DEF GoesOn
    <3>2. CASE pc'[r] = "raised"
      BY <3>2 DEF GoesOn, BeforeBaseline, AfterClaim, AfterDrift
    <3>3. QED
      BY <2>2, <3>1, <3>2
  <2>4. QED
    BY <1>0, <1>1, <2>1, <2>2, <2>3, OneRunMoves DEF RunsGoOn, RunTypes
<1>9. ASSUME NEW r \in Runs, RegisterHarness(r)
      PROVE  RunsGoOn
  <2>1. CASE registered
    BY <1>9, <2>1, RaisedRuns DEF RegisterHarness, DemoInv
  <2>2. CASE ~registered
    <3>1. /\ pc[r] = "register_harness" /\ Goto(r, "PUBLISHING_BREAKING_CONTRACT")
          /\ row' = row /\ registered' \in BOOLEAN
      BY <1>9, <2>2 DEF RegisterHarness
    <3>2. /\ pc' \in [Runs -> Places]
          /\ pc'[r] \in {"PUBLISHING_BREAKING_CONTRACT", "raised"}
          /\ \A q \in Runs \ {r} : pc'[q] = pc[q]
          /\ mishaps' \in 0..MaxMishaps
      BY <1>0, <3>1, GotoMoves DEF Places, PhaseNames
    <3>3. GoesOn(r)
      BY <3>1, <3>2 DEF GoesOn, BeforeBaseline, AfterClaim, AfterDrift
    <3>4. QED
      BY <1>0, <1>1, <3>1, <3>2, <3>3, OneRunMoves DEF RunsGoOn, RunTypes
  <2>3. QED
    BY <2>1, <2>2
<1>10. ASSUME NEW r \in Runs, Fault(r)
       PROVE  RunsGoOn
  <2>1. /\ pc' = [pc EXCEPT ![r] = "raised"] /\ mishaps < MaxMishaps
        /\ mishaps' = mishaps + 1 /\ UNCHANGED <<row, registered>>
    BY <1>10 DEF Fault
  <2>2. /\ pc' \in [Runs -> Places] /\ pc'[r] = "raised"
        /\ \A q \in Runs \ {r} : pc'[q] = pc[q]
        /\ mishaps' \in 0..MaxMishaps
    BY <1>0, <2>1, DemoAssumption DEF RunTypes, Places, Steps
  <2>3. GoesOn(r)
    BY <2>2 DEF GoesOn, BeforeBaseline, AfterClaim, AfterDrift
  <2>4. QED
    BY <1>0, <1>1, <2>1, <2>2, <2>3, OneRunMoves DEF RunsGoOn, RunTypes
<1>11. ASSUME Crash
       PROVE  RunsGoOn
  <2>1. /\ pc' = [r \in Runs |-> IF Active(r) THEN "ended" ELSE pc[r]]
        /\ mishaps < MaxMishaps /\ mishaps' = mishaps + 1 /\ UNCHANGED <<row, registered>>
    BY <1>11 DEF Crash
  <2>2. \A r \in Runs : pc'[r] \in {"ended", pc[r]}
    BY <2>1
  <2>3. pc' \in [Runs -> Places] /\ mishaps' \in 0..MaxMishaps
    BY <1>0, <2>1, DemoAssumption DEF RunTypes, Places
  <2>4. \A r \in Runs : GoesOn(r)
    BY <1>1, <2>2 DEF GoesOn, BeforeBaseline, AfterClaim, AfterDrift
  <2>5. QED
    BY <1>0, <1>1, <2>1, <2>3, <2>4 DEF RunsGoOn, RunTypes
<1>12. ASSUME UNCHANGED allVars
       PROVE  RunsGoOn
  <2>1. UNCHANGED <<row, pc, mine, registered, item, mishaps>>
    BY <1>12 DEF allVars, demoVars
  <2>2. QED
    BY <1>0, <2>1 DEF RunsGoOn, RunTypes, GoesOn, AfterClaim
<1>13. QED
  BY <1>3, <1>4, <1>5, <1>6, <1>7, <1>8, <1>9, <1>10, <1>11, <1>12 DEF Quiet

\* What a step may do to the ledger and to the item.
FirstRevision ==
  /\ latest[Billing] = 0 /\ item' = item
  /\ \E e \in Events : Publish(Billing, e, FALSE)

BreakingRevision ==
  /\ latest[Billing] = 1 /\ TrackItem
  /\ \E e \in Events : Publish(Billing, e, TRUE)

Delivery ==
  /\ TrackItem
  /\ \E e \in Events : Ingest(e) \/ \E w \in Workers : Process(w, e)

Confirmation ==
  /\ UNCHANGED <<registryVars, inboxVars, status, drifts, checked, work, claims>>
  /\ binding' \in [Tasks -> [Contracts -> Nat]]
  /\ confirmed' \in [Contracts -> SUBSET Revisions]
  /\ \/ item' = item
     \/ item.state = "AWAITING_APPROVAL" /\ item' = [item EXCEPT !.state = "VERIFIED"]

Claimed(t) == [item EXCEPT !.state = "ACKNOWLEDGED", !.task = t]

ClaimByHarness ==
  \E t \in Tasks, w \in work :
    /\ ClaimableItem /\ ClaimWork(t, w)
    /\ item' = Claimed(t)

TaskDecision ==
  /\ item' = item
  /\ \E t \in Tasks : \/ StartReplanning(t) \/ Approve(t) \/ Reject(t)
                      \/ \E d \in DriftsOf(t) : Submit(t, d, FALSE)

ItemMove ==
  /\ UNCHANGED vars
  /\ \/ item' = item
     \/ ClaimableItem /\ \E s \in {"PENDING", "DISPATCHED"} : item' = [item EXCEPT !.state = s]
     \/ item.state = "ACKNOWLEDGED" /\ item' = [item EXCEPT !.state = "EXECUTING"]
     \/ /\ item.state \in {"EXECUTING", "ACKNOWLEDGED", "AWAITING_APPROVAL"}
        /\ item' = [item EXCEPT !.state = "AWAITING_APPROVAL", !.evidence = TRUE]
        /\ \E r \in Runs : pc[r] = "result"
     \/ item.state = "VERIFIED" /\ item' = [item EXCEPT !.state = "COMPLETED"]
     \/ item.state # "NONE" /\ item' = [item EXCEPT !.state = "WITHDRAWN"]

DemoMove == \/ FirstRevision \/ BreakingRevision \/ Delivery \/ Confirmation
            \/ ClaimByHarness \/ TaskDecision \/ ItemMove

\* The runs go on from a step that is not quiet in one of three ways.
LEMMA ProceedingRuns ==
  ASSUME DemoInv, NEW r \in Runs, NEW next \in Places, Goto(r, next),
         row' = row, registered' = registered, mine' = mine,
         item' \in ItemRows,
         next \notin BeforeBaseline => pc[r] \notin BeforeBaseline \/ latest'[Billing] >= 1,
         next \in AfterClaim => pc[r] \in AfterClaim,
         next \in AfterDrift => pc[r] \in AfterDrift,
         next = "finish" => item'.evidence
  PROVE  RunsGoOn
<1>1. DemoTypeOK /\ RunTypes
  BY TypesOfTheRuns DEF DemoInv
<1>2. /\ pc' \in [Runs -> Places] /\ pc'[r] \in {next, "raised"}
      /\ \A q \in Runs \ {r} : pc'[q] = pc[q]
      /\ mishaps' \in 0..MaxMishaps
  BY <1>1, GotoMoves
<1>3. GoesOn(r)
  <2>1. CASE pc'[r] = next
    BY <2>1 DEF GoesOn
  <2>2. CASE pc'[r] = "raised"
    BY <2>2 DEF GoesOn, BeforeBaseline, AfterClaim, AfterDrift
  <2>3. QED
    BY <1>2, <2>1, <2>2
<1>4. QED
  BY <1>1, <1>2, <1>3, OneRunMoves DEF RunsGoOn, RunTypes

LEMMA WaitingRuns ==
  ASSUME DemoInv, UNCHANGED <<row, pc, mine, registered, mishaps>>,
         item' \in ItemRows
  PROVE  RunsGoOn
BY TypesOfTheRuns DEF DemoInv, RunsGoOn, RunTypes, GoesOn, AfterClaim

LEMMA ItemTypes ==
  ASSUME DemoInv
  PROVE  /\ item \in ItemRows
         /\ \A s \in ItemStatuses :
              [item EXCEPT !.state = s] \in ItemRows
         /\ TrackItem => item' \in ItemRows
BY DEF DemoInv, DemoTypeOK, TrackItem, ItemStatuses, ItemRows

LEMMA RevisionStep ==
  ASSUME DemoInv, NEW r \in Runs, PublishBaseline(r) \/ PublishRevision(r)
  PROVE  RunsGoOn /\ DemoMove
<1>0. latest[Billing] \in Nat /\ Billing \in Contracts
  BY DemoAssumption DEF DemoInv, LedgerInv, LedgerTypeOK
<1>1. ASSUME PublishBaseline(r)
      PROVE  RunsGoOn /\ DemoMove
  <2>1. /\ Goto(r, "find_dependency") /\ row' = row /\ mine' = mine
        /\ registered' = registered /\ item' = item
    BY <1>1 DEF PublishBaseline
  <2>2. FirstRevision \/ ItemMove
    BY <1>1, <2>1 DEF PublishBaseline, FirstRevision, ItemMove
  <2>3. latest'[Billing] >= 1
    <3>1. CASE \E e \in Events : Publish(Billing, e, FALSE)
      BY <1>0, <3>1 DEF Publish, DemoInv, LedgerInv, LedgerTypeOK
    <3>2. CASE latest[Billing] > 0 /\ UNCHANGED vars
      BY <1>0, <3>2 DEF vars
    <3>3. QED
      BY <1>1, <3>1, <3>2 DEF PublishBaseline
  <2>4. RunsGoOn
    BY <2>1, <2>3, ItemTypes, ProceedingRuns
    DEF Places, Steps, AfterClaim, AfterDrift
  <2>5. QED
    BY <2>2, <2>4 DEF DemoMove
<1>2. ASSUME PublishRevision(r), latest[Billing] > 1
      PROVE  RunsGoOn /\ DemoMove
  <2>1. Raise(r)
    BY <1>2 DEF PublishRevision
  <2>2. ItemMove
    BY <2>1 DEF Raise, ItemMove
  <2>3. QED
    BY <2>1, <2>2, RaisedRuns DEF DemoMove
<1>3. ASSUME PublishRevision(r), ~(latest[Billing] > 1)
      PROVE  RunsGoOn /\ DemoMove
  <2>1. /\ pc[r] = "publish_revision" /\ Goto(r, "PROCESSING_DRIFT")
        /\ row' = row /\ mine' = mine /\ registered' = registered /\ TrackItem
        /\ \E e \in Events : Publish(Billing, e, TRUE)
    BY <1>3 DEF PublishRevision
  <2>2. latest[Billing] = 1
    BY <1>0, <1>3, <2>1 DEF DemoInv, OneIntervention, BeforeBaseline
  <2>3. RunsGoOn
    BY <2>1, ItemTypes, ProceedingRuns
    DEF Places, PhaseNames, BeforeBaseline, AfterClaim, AfterDrift
  <2>4. QED
    BY <2>1, <2>2, <2>3 DEF DemoMove, BreakingRevision
<1>4. QED
  BY <1>1, <1>2, <1>3

\* A run that drains the inbox is a drift worker like the others.
LEMMA RunsAreWorkers == Runs \subseteq Workers /\ Background \subseteq Workers
BY DemoAssumption

\* The feed and the workers, a run being one of them.
LEMMA DeliveryStep ==
  ASSUME DemoInv, NEW r \in Runs, IngestChange(r) \/ Drain(r)
  PROVE  RunsGoOn /\ DemoMove
<1>1. ASSUME IngestChange(r)
      PROVE  RunsGoOn /\ DemoMove
  <2>1. /\ pc[r] = "ingest" /\ Goto(r, "drain") /\ row' = row /\ mine' = mine
        /\ registered' = registered /\ item' = item /\ \E e \in Events : Ingest(e)
    BY <1>1 DEF IngestChange
  <2>2. TrackItem
    BY <2>1 DEF TrackItem, Ingest
  <2>3. RunsGoOn
    BY <2>1, ItemTypes, ProceedingRuns
    DEF Places, Steps, BeforeBaseline, AfterClaim, AfterDrift
  <2>4. QED
    BY <2>1, <2>2, <2>3 DEF DemoMove, Delivery
<1>2. ASSUME NEW e \in Events, Process(r, e), TrackItem, Drain(r), UNCHANGED <<pc, mishaps>>
      PROVE  RunsGoOn /\ DemoMove
  <2>1. UNCHANGED <<row, pc, mine, registered, mishaps>>
    BY <1>2 DEF Drain
  <2>2. RunsGoOn
    BY <1>2, <2>1, ItemTypes, WaitingRuns
  <2>3. QED
    BY <1>2, <2>2, RunsAreWorkers DEF DemoMove, Delivery
<1>3. ASSUME Drain(r), Goto(r, "DISPATCHING_COMPATIBILITY_WORK"), UNCHANGED <<vars, item>>
      PROVE  RunsGoOn /\ DemoMove
  <2>1. pc[r] = "drain" /\ row' = row /\ mine' = mine /\ registered' = registered
        /\ item' = item /\ UNCHANGED vars
    BY <1>3 DEF Drain
  <2>2. RunsGoOn
    BY <1>3, <2>1, ItemTypes, ProceedingRuns
    DEF Places, PhaseNames, BeforeBaseline, AfterClaim, AfterDrift
  <2>3. QED
    BY <2>1, <2>2 DEF DemoMove, ItemMove
<1>4. QED
  BY <1>1, <1>2, <1>3 DEF Drain, ClaimableEvents

\* A run confirms the dependency, claims the item or finds its task.
LEMMA ClaimStep ==
  ASSUME DemoInv, NEW r \in Runs, ConfirmDependency(r) \/ Claim(r) \/ FindWork(r)
  PROVE  RunsGoOn /\ DemoMove
<1>0. RunTypes /\ LedgerInv /\ Billing \in Contracts
  BY TypesOfTheRuns, DemoAssumption DEF DemoInv
<1>1. ASSUME ConfirmDependency(r)
      PROVE  RunsGoOn /\ DemoMove
  <2>1. /\ pc[r] = "confirm_dependency" /\ Goto(r, "find_harness") /\ row' = row
        /\ mine' = mine /\ registered' = registered /\ item' = item
    BY <1>1 DEF ConfirmDependency
  <2>2. confirmed' \in [Contracts -> SUBSET Revisions]
    BY <1>0, <1>1 DEF ConfirmDependency, LedgerInv, LedgerTypeOK, Revisions
  <2>3. Confirmation
    BY <1>0, <1>1, <2>1, <2>2
    DEF ConfirmDependency, Confirmation, LedgerInv, LedgerTypeOK
  <2>4. RunsGoOn
    BY <2>1, ItemTypes, ProceedingRuns
    DEF Places, Steps, BeforeBaseline, AfterClaim, AfterDrift
  <2>5. QED
    BY <2>3, <2>4 DEF DemoMove
<1>2. ASSUME NEW t \in Tasks, mine' = [mine EXCEPT ![r] = t], item'.task = t,
             item' \in ItemRows,
             row' = row, registered' = registered,
             pc[r] \in {"claim", "find_work"}, Goto(r, "CHECKPOINTING_AND_REPLANNING")
      PROVE  RunsGoOn
  <2>1. /\ pc' \in [Runs -> Places]
        /\ pc'[r] \in {"CHECKPOINTING_AND_REPLANNING", "raised"}
        /\ \A q \in Runs \ {r} : pc'[q] = pc[q]
        /\ mishaps' \in 0..MaxMishaps
    BY <1>2, GotoMoves DEF DemoInv, Places, PhaseNames
  <2>2. /\ mine' \in [Runs -> Tasks \cup {NoTask}] /\ mine'[r] = t
        /\ \A q \in Runs \ {r} : mine'[q] = mine[q]
    BY <1>0, <1>2 DEF RunTypes
  <2>3. GoesOn(r)
    <3>1. pc'[r] \notin BeforeBaseline => pc[r] \notin BeforeBaseline \/ latest'[Billing] >= 1
      BY <1>2 DEF BeforeBaseline
    <3>2. mine'[r] = item'.task /\ mine'[r] # NoTask
      BY <1>2, <2>2, DemoAssumption
    <3>3. QED
      BY <2>1, <3>1, <3>2 DEF GoesOn, AfterDrift
  <2>4. QED
    BY <1>0, <1>2, <2>1, <2>2, <2>3, OneRunMoves DEF RunsGoOn, RunTypes
<1>3. ASSUME NEW t \in Tasks, NEW w \in work, ClaimWork(t, w),
             item' = Claimed(t), ClaimableItem,
             mine' = [mine EXCEPT ![r] = t], row' = row, registered' = registered,
             Goto(r, "CHECKPOINTING_AND_REPLANNING"), pc[r] = "claim"
      PROVE  RunsGoOn /\ DemoMove
  <2>1. item' \in ItemRows /\ item'.task = t
    <3>1. item \in ItemRows
      BY ItemTypes
    <3>2. QED
      BY <1>3, <3>1 DEF Claimed, ItemRows, ItemStatuses
  <2>2. RunsGoOn
    BY <1>2, <1>3, <2>1
  <2>3. QED
    BY <1>3, <2>2 DEF DemoMove, ClaimByHarness
<1>4. ASSUME pc[r] = "claim", Goto(r, "find_work"), UNCHANGED <<vars, mine, item>>,
             row' = row, registered' = registered
      PROVE  RunsGoOn /\ DemoMove
  <2>1. RunsGoOn
    BY <1>4, ItemTypes, ProceedingRuns
    DEF Places, Steps, BeforeBaseline, AfterClaim, AfterDrift
  <2>2. QED
    BY <1>4, <2>1 DEF DemoMove, ItemMove
<1>5. ASSUME Claim(r)
      PROVE  RunsGoOn /\ DemoMove
  BY <1>3, <1>4, <1>5 DEF Claim, Claimed
<1>6. ASSUME FindWork(r)
      PROVE  RunsGoOn /\ DemoMove
  <2>1. CASE item.task = NoTask
    <3>1. Raise(r)
      BY <1>6, <2>1 DEF FindWork
    <3>2. QED
      BY <3>1, RaisedRuns DEF Raise, DemoMove, ItemMove
  <2>2. CASE item.task # NoTask
    <3>1. item.task \in Tasks
      BY <1>0, <2>2 DEF RunTypes, ItemRows
    <3>2. /\ mine' = [mine EXCEPT ![r] = item.task] /\ row' = row /\ item' = item
          /\ registered' = registered /\ Goto(r, "CHECKPOINTING_AND_REPLANNING")
          /\ UNCHANGED vars /\ pc[r] = "find_work"
      BY <1>6, <2>2 DEF FindWork
    <3>3. RunsGoOn
      BY <1>2, <3>1, <3>2, ItemTypes
    <3>4. QED
      BY <3>2, <3>3 DEF DemoMove, ItemMove
  <2>3. QED
    BY <2>1, <2>2
<1>7. QED
  BY <1>1, <1>5, <1>6

\* A run works on its task.
LEMMA PlanStep ==
  ASSUME DemoInv, NEW r \in Runs, Checkpoint(r) \/ Replan(r) \/ SubmitPlan(r) \/ RecordResult(r)
  PROVE  RunsGoOn /\ DemoMove
<1>0. ASSUME pc[r] \in AfterClaim PROVE mine[r] \in Tasks
  BY <1>0, TypesOfTheRuns DEF DemoInv, RunTypes, OneTask
<1>r. ASSUME Raise(r) PROVE RunsGoOn /\ DemoMove
  <2>1. ItemMove
    BY <1>r DEF Raise, ItemMove
  <2>2. QED
    BY <1>r, <2>1, RaisedRuns DEF DemoMove
<1>1. ASSUME Checkpoint(r)
      PROVE  RunsGoOn /\ DemoMove
  <2>1. /\ pc[r] = "checkpoint" /\ Goto(r, "find_drift") /\ UNCHANGED vars
        /\ row' = row /\ mine' = mine /\ registered' = registered
        /\ item' = IF item.state = "ACKNOWLEDGED"
                   THEN [item EXCEPT !.state = "EXECUTING"] ELSE item
    BY <1>1 DEF Checkpoint
  <2>2. item' \in ItemRows
    BY <2>1, ItemTypes DEF ItemStatuses
  <2>3. RunsGoOn
    BY <2>1, <2>2, ProceedingRuns
    DEF Places, Steps, BeforeBaseline, AfterClaim, AfterDrift
  <2>4. ItemMove
    BY <2>1 DEF ItemMove
  <2>5. QED
    BY <2>3, <2>4 DEF DemoMove
<1>2. ASSUME Replan(r)
      PROVE  RunsGoOn /\ DemoMove
  <2>1. CASE ~Raise(r)
    <3>1. /\ pc[r] = "replan" /\ StartReplanning(mine[r]) /\ Goto(r, "submit")
          /\ row' = row /\ mine' = mine /\ registered' = registered /\ item' = item
      BY <1>2, <2>1 DEF Replan
    <3>2. mine[r] \in Tasks
      BY <1>0, <3>1 DEF AfterClaim, AfterDrift
    <3>3. RunsGoOn
      BY <3>1, ItemTypes, ProceedingRuns
      DEF Places, Steps, BeforeBaseline, AfterClaim, AfterDrift
    <3>4. QED
      BY <3>1, <3>2, <3>3 DEF DemoMove, TaskDecision
  <2>2. QED
    BY <2>1, <1>r
<1>3. ASSUME SubmitPlan(r)
      PROVE  RunsGoOn /\ DemoMove
  <2>1. CASE ~Raise(r)
    <3>1. /\ pc[r] = "submit" /\ Goto(r, "result")
          /\ \E d \in DriftsOf(mine[r]) : Submit(mine[r], d, FALSE)
          /\ row' = row /\ mine' = mine /\ registered' = registered /\ item' = item
      BY <1>3, <2>1 DEF SubmitPlan
    <3>2. mine[r] \in Tasks
      BY <1>0, <3>1 DEF AfterClaim, AfterDrift
    <3>3. RunsGoOn
      BY <3>1, ItemTypes, ProceedingRuns
      DEF Places, Steps, BeforeBaseline, AfterClaim, AfterDrift
    <3>4. QED
      BY <3>1, <3>2, <3>3 DEF DemoMove, TaskDecision
  <2>2. QED
    BY <2>1, <1>r
<1>4. ASSUME RecordResult(r)
      PROVE  RunsGoOn /\ DemoMove
  <2>1. CASE ~Raise(r)
    <3>1. /\ pc[r] = "result" /\ Goto(r, "finish") /\ UNCHANGED vars
          /\ row' = row /\ mine' = mine /\ registered' = registered
          /\ item.state \in {"EXECUTING", "ACKNOWLEDGED", "AWAITING_APPROVAL"}
          /\ item' = [item EXCEPT !.state = "AWAITING_APPROVAL", !.evidence = TRUE]
      BY <1>4, <2>1 DEF RecordResult
    <3>2. item' \in ItemRows /\ item'.evidence
      <4>1. item \in ItemRows
        BY ItemTypes
      <4>2. QED
        BY <3>1, <4>1 DEF ItemStatuses, ItemRows
    <3>3. RunsGoOn
      BY <3>1, <3>2, ProceedingRuns
      DEF Places, Steps, BeforeBaseline, AfterClaim, AfterDrift
    <3>4. ItemMove
      BY <3>1 DEF ItemMove
    <3>5. QED
      BY <3>3, <3>4 DEF DemoMove
  <2>2. QED
    BY <2>1, <1>r
<1>5. QED
  BY <1>1, <1>2, <1>3, <1>4

\* The change feed, the workers, the dispatcher and the operator.
LEMMA OthersStep ==
  ASSUME DemoInv,
         \/ \E e \in Events : Feed(e) \/ \E w \in Background : WorkerStep(w, e)
         \/ Offer \/ RecoverOffer \/ ApproveWork \/ CompleteWork \/ Withdraw
         \/ \E t \in Tasks : DecideOnPlan(t)
  PROVE  RunsGoOn /\ DemoMove
<1>1. ASSUME NEW e \in Events, Feed(e)
      PROVE  RunsGoOn /\ DemoMove
  <2>1. UNCHANGED <<row, pc, mine, registered, mishaps>> /\ item' = item /\ TrackItem
    BY <1>1 DEF Feed, demoVars, TrackItem, Ingest
  <2>2. QED
    BY <1>1, <2>1, ItemTypes, WaitingRuns DEF DemoMove, Delivery, Feed
<1>2. ASSUME NEW e \in Events, NEW w \in Background, WorkerStep(w, e)
      PROVE  RunsGoOn /\ DemoMove
  <2>1. UNCHANGED <<row, pc, mine, registered, mishaps>> /\ TrackItem /\ Process(w, e)
    BY <1>2 DEF WorkerStep
  <2>2. QED
    BY <2>1, RunsAreWorkers, ItemTypes, WaitingRuns DEF DemoMove, Delivery
<1>3. ASSUME Offer \/ RecoverOffer
      PROVE  RunsGoOn /\ DemoMove
  <2>1. UNCHANGED <<row, pc, mine, registered, mishaps>>
    BY <1>3 DEF Offer, RecoverOffer
  <2>2. PICK s \in {"PENDING", "DISPATCHED"} : item' = [item EXCEPT !.state = s]
    BY <1>3 DEF Offer, RecoverOffer
  <2>3. s \in ItemStatuses
    BY DEF ItemStatuses
  <2>4. ItemMove
    BY <1>3, <2>2 DEF Offer, RecoverOffer, ItemMove, ClaimableItem
  <2>5. QED
    BY <2>1, <2>2, <2>3, <2>4, ItemTypes, WaitingRuns DEF DemoMove
<1>4. ASSUME ApproveWork
      PROVE  RunsGoOn /\ DemoMove
  <2>1. UNCHANGED <<row, pc, mine, registered, mishaps>>
    BY <1>4 DEF ApproveWork
  <2>a. PICK w \in work : ApproveItem(w)
    BY <1>4 DEF ApproveWork
  <2>b. TaskKeeps
    BY <2>a, WorkItemStep DEF WorkNext, DemoInv
  <2>2. Confirmation
    BY <1>4, <2>a, <2>b DEF ApproveWork, ApproveItem, TaskKeeps, Confirmation
  <2>3. item' \in ItemRows
    BY <1>4, ItemTypes DEF ApproveWork, ItemStatuses
  <2>4. QED
    BY <2>1, <2>2, <2>3, WaitingRuns DEF DemoMove
<1>5. ASSUME NEW t \in Tasks, DecideOnPlan(t)
      PROVE  RunsGoOn /\ DemoMove
  <2>1. UNCHANGED <<row, pc, mine, registered, mishaps>> /\ item' = item
    BY <1>5 DEF DecideOnPlan, demoVars
  <2>2. QED
    BY <1>5, <2>1, ItemTypes, WaitingRuns DEF DemoMove, TaskDecision, DecideOnPlan
<1>6. ASSUME CompleteWork \/ Withdraw
      PROVE  RunsGoOn /\ DemoMove
  <2>1. UNCHANGED <<row, pc, mine, registered, mishaps>>
    BY <1>6 DEF CompleteWork, Withdraw
  <2>2. item' \in ItemRows
    BY <1>6, ItemTypes DEF CompleteWork, Withdraw, ItemStatuses
  <2>3. ItemMove
    BY <1>6 DEF CompleteWork, Withdraw, ItemMove
  <2>4. QED
    BY <2>1, <2>2, <2>3, WaitingRuns DEF DemoMove
<1>7. QED
  BY <1>1, <1>2, <1>3, <1>4, <1>5, <1>6

LEMMA DemoMoves ==
  ASSUME DemoInv, [DemoNext]_allVars
  PROVE  RunsGoOn /\ DemoMove
<1>1. CASE Quiet
  BY <1>1, QuietSteps, QuietMoves DEF DemoMove, ItemMove
<1>2. ASSUME NEW r \in Runs, RunStep(r), ~Quiet
      PROVE  RunsGoOn /\ DemoMove
  BY <1>2, RevisionStep, DeliveryStep, ClaimStep, PlanStep DEF RunStep, Quiet
<1>3. QED
  BY <1>1, <1>2, OthersStep DEF DemoNext, Quiet

-----------------------------------------------------------------------------
(* The invariant is preserved, part by part. *)

LEMMA DemoLedgerNext == ASSUME DemoInv, DemoMove PROVE LedgerInv'
<1>0. LedgerInv /\ Billing \in Contracts
  BY DemoAssumption DEF DemoInv
<1>1. CASE FirstRevision \/ BreakingRevision
  BY <1>0, <1>1, PublishStep, LedgerIsKept DEF FirstRevision, BreakingRevision
<1>2. CASE Delivery
  <2>1. InboxNext
    BY <1>2 DEF Delivery, InboxNext
  <2>2. QED
    BY <1>0, <2>1, InboxStep, LedgerIsKept
<1>3. CASE Confirmation
  BY <1>0, <1>3 DEF Confirmation, LedgerInv, LedgerTypeOK, InboxBacked, registryVars, inboxVars
<1>4. CASE ClaimByHarness \/ TaskDecision
  BY <1>0, <1>4, TransactionStep, WorkItemStep, LedgerIsKept
  DEF ClaimByHarness, TaskDecision, TaskTransaction, WorkNext
<1>5. CASE ItemMove
  BY <1>0, <1>5 DEF ItemMove, vars, LedgerInv, LedgerTypeOK, InboxBacked
<1>6. QED
  BY <1>1, <1>2, <1>3, <1>4, <1>5 DEF DemoMove

\* Only a revision changes what is published.
LEMMA PublishedStays ==
  ASSUME DemoMove, ~FirstRevision, ~BreakingRevision
  PROVE  UNCHANGED <<latest, retired, outbox>>
BY DEF DemoMove, Delivery, Confirmation, ClaimByHarness, TaskDecision, ItemMove, Ingest,
       Process, HandleEvent, ClaimWork, CreateTask, StartReplanning, Submit, Approve, Reject,
       registryVars, vars

LEMMA InterventionNext == ASSUME DemoInv, RunsGoOn, DemoMove PROVE OneIntervention'
<1>0. OneIntervention /\ Billing \in Contracts /\ latest \in [Contracts -> Nat]
      /\ outbox \in [Events -> ChangeEvents \cup {NoEvent}]
      /\ NoEvent \notin ChangeEvents
  BY DemoAssumption, SetsAssumption DEF DemoInv, LedgerInv, LedgerTypeOK
<1>1. ASSUME latest'[Billing] >= latest[Billing], NEW r \in Runs, pc'[r] \notin BeforeBaseline
      PROVE  latest'[Billing] >= 1
  <2>1. latest'[Billing] \in Nat /\ latest[Billing] \in Nat
    BY <1>0, DemoLedgerNext DEF LedgerInv, LedgerTypeOK
  <2>2. pc[r] \notin BeforeBaseline \/ latest'[Billing] >= 1
    BY <1>1 DEF RunsGoOn, GoesOn
  <2>3. QED
    BY <1>0, <1>1, <2>1, <2>2 DEF OneIntervention
<1>2. ASSUME NEW e \in Events, NEW b \in BOOLEAN, Publish(Billing, e, b),
             latest[Billing] = IF b THEN 1 ELSE 0
      PROVE  OneIntervention'
  <2>1. /\ outbox[e] = NoEvent /\ latest'[Billing] = latest[Billing] + 1
        /\ outbox' = [outbox EXCEPT ![e] = Change(Billing, latest[Billing] + 1, b, FALSE)]
    BY <1>0, <1>2 DEF Publish
  <2>2. \A f \in Events : f # e => outbox'[f] = outbox[f]
    BY <1>0, <2>1
  <2>3. Intervenes(e)' <=> b
    <3>1. outbox'[e] = Change(Billing, latest[Billing] + 1, b, FALSE)
      BY <1>0, <2>1
    <3>2. outbox'[e] # NoEvent
      BY <1>0, <1>2, <3>1, PublishStep DEF DemoInv
    <3>3. QED
      BY <3>1, <3>2 DEF Intervenes, Change
  <2>4. \A f \in Events : ~Intervenes(f)
    BY <1>0, <1>2 DEF OneIntervention
  <2>5. \A f \in Events : Intervenes(f)' => f = e /\ b
    BY <2>2, <2>3, <2>4 DEF Intervenes
  <2>6. latest'[Billing] <= 2 /\ latest'[Billing] >= latest[Billing]
        /\ (b => latest'[Billing] = 2)
    BY <1>0, <1>2, <2>1
  <2>7. QED
    BY <1>1, <2>5, <2>6 DEF OneIntervention
<1>3. CASE FirstRevision \/ BreakingRevision
  BY <1>2, <1>3 DEF FirstRevision, BreakingRevision
<1>4. CASE ~FirstRevision /\ ~BreakingRevision
  <2>1. latest' = latest /\ outbox' = outbox
    BY <1>4, PublishedStays
  <2>2. QED
    BY <1>0, <1>1, <2>1 DEF OneIntervention, Intervenes
<1>5. QED
  BY <1>3, <1>4

\* One statement inserts at most one row, for its idempotency key is unique.
LEMMA OneRow ==
  ASSUME NEW rows, CreateWork(rows), OneObligation, NEW e \in Events, Intervenes(e)',
         \A w \in rows : w.event = e, \A w \in work : w.event = e,
         outbox'[e] = outbox[e] \/ work = {}, TrackItem
  PROVE  OneObligation'
<1>1. work' = work \cup rows /\ \A m, n \in rows : m = n
  BY DEF CreateWork, KeysFree
<1>2. work = {} \/ rows = {}
  BY DEF CreateWork, KeysFree
<1>3. (\A w \in work' : w.event = e) /\ \A m, n \in work' : m = n
  BY <1>1, <1>2 DEF OneObligation
<1>4. work' = {} <=> item'.state = "NONE"
  BY <1>1 DEF OneObligation, TrackItem
<1>5. QED
  BY <1>3, <1>4 DEF OneObligation

LEMMA ObligationNext == ASSUME DemoInv, RunsGoOn, DemoMove PROVE OneObligation'
<1>0. /\ OneObligation /\ OneIntervention /\ Billing \in Contracts
      /\ outbox \in [Events -> ChangeEvents \cup {NoEvent}] /\ work \subseteq WorkItems
      /\ NoEvent \notin ChangeEvents
      /\ item \in ItemRows
  BY DemoAssumption, SetsAssumption, ItemTypes DEF DemoInv, LedgerInv, LedgerTypeOK
<1>i. OneIntervention'
  BY InterventionNext
<1>1. ASSUME work' = work, UNCHANGED outbox, item'.state = "NONE" <=> item.state = "NONE"
      PROVE  OneObligation'
  BY <1>0, <1>1 DEF OneObligation, Intervenes
<1>2. CASE FirstRevision
  <2>1. PICK e \in Events : Publish(Billing, e, FALSE)
    BY <1>2 DEF FirstRevision
  <2>2. work' = work /\ item' = item
    BY <1>2, <2>1 DEF FirstRevision, Publish, CreateWork
  <2>3. \A f \in Events : Intervenes(f) => Intervenes(f)'
    BY <1>0, <2>1 DEF Publish, Intervenes
  <2>4. QED
    BY <1>0, <2>2, <2>3 DEF OneObligation
<1>3. CASE BreakingRevision
  <2>1. PICK e \in Events : Publish(Billing, e, TRUE)
    BY <1>3 DEF BreakingRevision
  <2>2. work = {}
    BY <1>0, <1>3 DEF BreakingRevision, OneIntervention, OneObligation
  <2>3. Intervenes(e)'
    <3>1. /\ outbox'[e] = Change(Billing, latest[Billing] + 1, TRUE, FALSE)
          /\ outbox'[e] \in ChangeEvents
      BY <1>0, <2>1, PublishStep DEF Publish, DemoInv
    <3>2. outbox'[e] # NoEvent
      BY <1>0, <3>1
    <3>3. outbox'[e].intervention = TRUE
      BY <3>1 DEF Change
    <3>4. QED
      BY <3>2, <3>3 DEF Intervenes
  <2>4. CreateWork(NewObligations(e, Billing, latest[Billing] + 1))
    BY <2>1 DEF Publish
  <2>5. \A w \in NewObligations(e, Billing, latest[Billing] + 1) : w.event = e
    BY DEF NewObligations
  <2>6. QED
    BY <1>0, <1>3, <2>2, <2>3, <2>4, <2>5, OneRow DEF BreakingRevision
<1>4. ASSUME NEW e \in Events, HandleEvent(e), TrackItem
      PROVE  OneObligation'
  <2>1. outbox' = outbox /\ outbox[e] # NoEvent /\ CreateWork(ObligationsOf(e))
    BY <1>4, HandleEventType DEF DemoInv, HandleEvent
  <2>2. CASE outbox[e].intervention
    <3>1. Intervenes(e) /\ Intervenes(e)'
      BY <2>1, <2>2 DEF Intervenes
    <3>2. \A w \in work : w.event = e
      BY <1>0, <3>1 DEF OneObligation, OneIntervention
    <3>3. \A w \in ObligationsOf(e) : w.event = e
      BY DEF ObligationsOf, NewObligations
    <3>4. QED
      BY <1>0, <1>4, <2>1, <3>1, <3>2, <3>3, OneRow
  <2>3. CASE ~outbox[e].intervention
    <3>1. work' = work
      BY <2>1, <2>3 DEF ObligationsOf, CreateWork
    <3>2. item' = item
      BY <1>4, <3>1 DEF TrackItem
    <3>3. QED
      BY <1>1, <2>1, <3>1, <3>2
  <2>4. QED
    BY <2>2, <2>3
<1>5. CASE Delivery
  <2>1. ASSUME NEW e \in Events, Ingest(e)
        PROVE  OneObligation'
    <3>1. work' = work /\ outbox' = outbox /\ item' = item
      BY <1>5, <2>1 DEF Ingest, registryVars, Delivery, TrackItem
    <3>2. QED
      BY <1>1, <3>1
  <2>2. QED
    BY <1>4, <1>5, <2>1 DEF Delivery, Process
<1>6. CASE Confirmation \/ ItemMove
  <2>1. work' = work /\ outbox' = outbox
    BY <1>6 DEF Confirmation, ItemMove, registryVars, vars
  <2>2. item'.state = "NONE" <=> item.state = "NONE"
    BY <1>0, <1>6 DEF Confirmation, ItemMove, ClaimableItem, ItemRows
  <2>3. QED
    BY <1>1, <2>1, <2>2
<1>7. CASE ClaimByHarness
  <2>1. work' = work /\ outbox' = outbox /\ item.state # "NONE" /\ item'.state # "NONE"
    BY <1>7 DEF ClaimByHarness, ClaimWork, CreateTask, Claimed, registryVars, ClaimableItem
  <2>2. QED
    BY <1>1, <2>1
<1>8. CASE TaskDecision
  <2>1. work' = work /\ outbox' = outbox /\ item' = item
    BY <1>8 DEF TaskDecision, StartReplanning, Submit, Approve, Reject, registryVars
  <2>2. QED
    BY <1>1, <2>1
<1>9. QED
  BY <1>2, <1>3, <1>5, <1>6, <1>7, <1>8 DEF DemoMove

\* What a step does to the status of a task.
LEMMA StatusMoves ==
  ASSUME DemoInv, DemoMove, NEW t \in Tasks
  PROVE  \/ status'[t] = status[t]
         \/ status[t] \notin {"NONE", "RECONCILED"}
              /\ status'[t] \notin {"NONE", "OPTIMISTIC_EXECUTING"}
         \/ /\ ClaimableItem /\ status[t] = "NONE" /\ status'[t] = "OPTIMISTIC_EXECUTING"
            /\ item' = Claimed(t)
<1>0. status \in [Tasks -> Statuses]
  BY DEF DemoInv, LedgerInv, LedgerTypeOK
<1>1. CASE FirstRevision \/ BreakingRevision
  BY <1>1 DEF FirstRevision, BreakingRevision, Publish, taskVars
<1>2. CASE Delivery
  BY <1>0, <1>2 DEF Delivery, Ingest, Process, HandleEvent, Affected, Interruptible, taskVars
<1>3. CASE Confirmation \/ ItemMove
  BY <1>3 DEF Confirmation, ItemMove, vars
<1>4. CASE ClaimByHarness
  BY <1>0, <1>4 DEF ClaimByHarness, ClaimWork, CreateTask
<1>5. CASE TaskDecision
  BY <1>0, <1>5 DEF TaskDecision, StartReplanning, Submit, Approve, Reject
<1>6. QED
  BY <1>1, <1>2, <1>3, <1>4, <1>5 DEF DemoMove

\* Drifts are resolved and never deleted.
LEMMA DriftsStay ==
  ASSUME DemoInv, DemoMove, NEW t, DriftsOf(t) # {}
  PROVE  DriftsOf(t)' # {}
<1>0. LedgerTypeOK
  BY DEF DemoInv, LedgerInv
<1>1. ASSUME drifts \subseteq drifts' PROVE DriftsOf(t)' # {}
  BY <1>1 DEF DriftsOf
<1>2. ASSUME NEW ds, drifts' = Resolve(ds) PROVE DriftsOf(t)' # {}
  <2>1. PICK d \in drifts : d.task = t
    BY DEF DriftsOf
  <2>2. PICK x \in Resolve(ds) : x = IF d \in ds THEN [d EXCEPT !.active = FALSE] ELSE d
    BY DEF Resolve
  <2>3. x.task = t
    BY <1>0, <2>1, <2>2 DEF LedgerTypeOK, DriftEvents
  <2>4. QED
    BY <1>2, <2>2, <2>3 DEF DriftsOf
<1>3. CASE FirstRevision \/ BreakingRevision
  BY <1>1, <1>3 DEF FirstRevision, BreakingRevision, Publish, taskVars
<1>4. CASE Delivery
  BY <1>1, <1>4 DEF Delivery, Ingest, Process, HandleEvent, taskVars
<1>5. CASE Confirmation \/ ItemMove
  BY <1>1, <1>5 DEF Confirmation, ItemMove, vars
<1>6. CASE ClaimByHarness
  BY <1>1, <1>6 DEF ClaimByHarness, ClaimWork, CreateTask
<1>7. CASE TaskDecision
  BY <1>1, <1>2, <1>7 DEF TaskDecision, StartReplanning, Submit, Approve, Reject
<1>8. QED
  BY <1>3, <1>4, <1>5, <1>6, <1>7 DEF DemoMove

\* A new drift interrupts its task in the same step.
LEMMA DriftsInterrupt ==
  ASSUME DemoInv, DemoMove, NEW t \in Tasks, DriftsOf(t)' # {}
  PROVE  DriftsOf(t) # {} \/ status'[t] \notin {"NONE", "OPTIMISTIC_EXECUTING"}
<1>0. LedgerTypeOK
  BY DEF DemoInv, LedgerInv
<1>1. ASSUME drifts' = drifts PROVE DriftsOf(t) # {}
  BY <1>1 DEF DriftsOf
<1>2. ASSUME NEW ds, drifts' = Resolve(ds) PROVE DriftsOf(t) # {}
  <2>1. PICK d \in Resolve(ds) : d.task = t
    BY <1>2 DEF DriftsOf
  <2>2. QED
    BY <1>0, <2>1, ResolveKeeps DEF DriftsOf
<1>3. CASE FirstRevision \/ BreakingRevision
  BY <1>1, <1>3 DEF FirstRevision, BreakingRevision, Publish, taskVars
<1>4. ASSUME NEW e \in Events, HandleEvent(e), DriftsOf(t) = {}
      PROVE  status'[t] \notin {"NONE", "OPTIMISTIC_EXECUTING"}
  <2>1. PICK d \in drifts' : d.task = t /\ d \notin drifts
    BY <1>4 DEF DriftsOf
  <2>2. outbox[e].intervention /\ d \in NewDrifts(e)
    BY <1>4, <2>1 DEF HandleEvent
  <2>3. t \in Affected(e)
    BY <2>1, <2>2 DEF NewDrifts
  <2>4. status'[t] = "REPLAN_REQUIRED"
    BY <1>4, <2>2, <2>3 DEF HandleEvent
  <2>5. QED
    BY <2>4
<1>5. CASE Delivery
  BY <1>1, <1>4, <1>5 DEF Delivery, Ingest, Process, taskVars
<1>6. CASE Confirmation \/ ItemMove
  BY <1>1, <1>6 DEF Confirmation, ItemMove, vars
<1>7. CASE ClaimByHarness
  BY <1>1, <1>7 DEF ClaimByHarness, ClaimWork, CreateTask
<1>8. CASE TaskDecision
  BY <1>1, <1>2, <1>8 DEF TaskDecision, StartReplanning, Submit, Approve, Reject
<1>9. QED
  BY <1>3, <1>5, <1>6, <1>7, <1>8 DEF DemoMove

\* The item changes its task only when it is claimed.
LEMMA ItemTaskMoves ==
  ASSUME DemoInv, DemoMove
  PROVE  \/ /\ item'.task = item.task
            /\ item'.state \in Unclaimed => item.state \in Unclaimed
            /\ item.state \in Unclaimed \cup {"WITHDRAWN"}
                 => item'.state \in Unclaimed \cup {"WITHDRAWN"}
         \/ \E t \in Tasks : ClaimableItem /\ item' = Claimed(t)
<1> DEFINE Kept == /\ item'.task = item.task
                   /\ item'.state \in Unclaimed => item.state \in Unclaimed
                   /\ item.state \in Unclaimed \cup {"WITHDRAWN"}
                        => item'.state \in Unclaimed \cup {"WITHDRAWN"}
<1>0. item \in ItemRows /\ OneObligation
  BY ItemTypes DEF DemoInv
<1>1. ASSUME TrackItem PROVE Kept
  BY <1>0, <1>1 DEF TrackItem, OneObligation, Unclaimed, ItemRows
<1>2. ASSUME item' = item PROVE Kept
  BY <1>2
<1>3. ASSUME Confirmation \/ ItemMove PROVE Kept
  BY <1>0, <1>3 DEF Confirmation, ItemMove, ClaimableItem, Unclaimed, ItemRows
<1>4. QED
  BY <1>1, <1>2, <1>3
  DEF DemoMove, FirstRevision, BreakingRevision, Delivery, ClaimByHarness, TaskDecision

LEMMA OneTaskNext == ASSUME DemoInv, RunsGoOn, DemoMove PROVE OneTask'
<1>0. OneTask /\ status' \in [Tasks -> Statuses] /\ NoTask \notin Tasks
      /\ item \in ItemRows /\ item' \in ItemRows
  BY DemoLedgerNext, DemoAssumption, ItemTypes
  DEF DemoInv, LedgerInv, LedgerTypeOK, RunsGoOn, RunTypes
<1>1. CASE /\ item'.task = item.task
           /\ item'.state \in Unclaimed => item.state \in Unclaimed
           /\ item.state \in Unclaimed \cup {"WITHDRAWN"}
                => item'.state \in Unclaimed \cup {"WITHDRAWN"}
  <2>1. /\ item'.state \in Unclaimed => item'.task = NoTask
        /\ item'.task = NoTask => item'.state \in Unclaimed \cup {"WITHDRAWN"}
    BY <1>0, <1>1 DEF OneTask
  <2>2. ASSUME NEW t \in Tasks, status'[t] # "NONE" PROVE t = item'.task
    <3>1. status[t] # "NONE" \/ item' = Claimed(t)
      BY <2>2, StatusMoves
    <3>2. item' = Claimed(t) => t = item'.task
      BY <1>0 DEF Claimed, ItemRows
    <3>3. QED
      BY <1>0, <1>1, <3>1, <3>2 DEF OneTask
  <2>3. ASSUME NEW r \in Runs, pc'[r] \in AfterClaim
        PROVE  mine'[r] = item'.task /\ mine'[r] # NoTask
    BY <1>0, <1>1, <2>3 DEF RunsGoOn, GoesOn, OneTask
  <2>4. QED
    BY <2>1, <2>2, <2>3 DEF OneTask
<1>2. CASE \E t \in Tasks : ClaimableItem /\ item' = Claimed(t)
  <2>1. PICK t \in Tasks : ClaimableItem /\ item' = Claimed(t)
    BY <1>2
  <2>2. item.task = NoTask
    BY <1>0, <2>1 DEF OneTask, ClaimableItem, Unclaimed
  <2>3. item'.task = t /\ item'.state = "ACKNOWLEDGED"
    BY <1>0, <2>1 DEF Claimed, ItemRows
  <2>4. ASSUME NEW u \in Tasks, status'[u] # "NONE" PROVE u = item'.task
    <3>1. status[u] = "NONE"
      BY <1>0, <2>2 DEF OneTask
    <3>2. item' = Claimed(u)
      BY <2>4, <3>1, StatusMoves
    <3>3. QED
      BY <1>0, <3>2 DEF Claimed, ItemRows
  <2>5. ASSUME NEW r \in Runs, pc'[r] \in AfterClaim
        PROVE  mine'[r] = item'.task /\ mine'[r] # NoTask
    BY <1>0, <2>2, <2>5 DEF RunsGoOn, GoesOn, OneTask
  <2>6. QED
    BY <1>0, <2>3, <2>4, <2>5 DEF OneTask, Unclaimed
<1>3. QED
  BY <1>1, <1>2, ItemTaskMoves

\* Evidence is never taken back, and it is recorded by a run that has planned.
LEMMA EvidenceMoves ==
  ASSUME DemoInv, DemoMove
  PROVE  /\ item.evidence => item'.evidence
         /\ item'.evidence => /\ item'.task = item.task /\ item'.state \in Concluded
                              /\ item.evidence \/ \E r \in Runs : pc[r] = "result"
<1> DEFINE Goal == /\ item.evidence => item'.evidence
                   /\ item'.evidence =>
                        /\ item'.task = item.task /\ item'.state \in Concluded
                        /\ item.evidence \/ \E r \in Runs : pc[r] = "result"
<1>0. item \in ItemRows /\ OneObligation /\ (item.evidence => item.state \in Concluded)
  BY ItemTypes DEF DemoInv, PlansAnswerDrifts
<1>1. ASSUME TrackItem PROVE Goal
  BY <1>0, <1>1 DEF TrackItem, OneObligation, Concluded, ItemRows
<1>2. ASSUME item' = item PROVE Goal
  BY <1>0, <1>2
<1>3. ASSUME Confirmation \/ ItemMove PROVE Goal
  BY <1>0, <1>2, <1>3 DEF Confirmation, ItemMove, ClaimableItem, Concluded, ItemRows
<1>4. ASSUME ClaimByHarness PROVE Goal
  BY <1>0, <1>4 DEF ClaimByHarness, ClaimableItem, Claimed, Concluded, ItemRows
<1>5. QED
  BY <1>1, <1>2, <1>3, <1>4
  DEF DemoMove, FirstRevision, BreakingRevision, Delivery, TaskDecision

LEMMA PlansNext == ASSUME DemoInv, RunsGoOn, DemoMove PROVE PlansAnswerDrifts'
<1>0. PlansAnswerDrifts /\ OneTask
  BY DEF DemoInv
<1>1. ASSUME NEW t \in Tasks, DriftsOf(t)' # {}
      PROVE  status'[t] \notin {"NONE", "OPTIMISTIC_EXECUTING"}
  BY <1>0, <1>1, DriftsInterrupt, StatusMoves DEF PlansAnswerDrifts
<1>2. ASSUME NEW r \in Runs, pc'[r] \in AfterDrift
      PROVE  DriftsOf(mine[r])' # {} /\ mine'[r] = mine[r]
  <2>1. DriftsOf(mine[r]) # {} /\ mine'[r] = mine[r]
    BY <1>0, <1>2 DEF RunsGoOn, GoesOn, PlansAnswerDrifts
  <2>2. \A t : DriftsOf(t) # {} => DriftsOf(t)' # {}
    BY DriftsStay
  <2>3. QED
    BY <2>1, <2>2 DEF DriftsOf
<1>3. ASSUME item'.evidence
      PROVE  /\ item'.state \in Concluded
             /\ DriftsOf(item.task)' # {} /\ item'.task = item.task
  <2>1. /\ item'.task = item.task /\ item'.state \in Concluded
        /\ item.evidence \/ \E r \in Runs : pc[r] = "result"
    BY <1>3, EvidenceMoves
  <2>2. DriftsOf(item.task) # {}
    BY <1>0, <2>1 DEF PlansAnswerDrifts, OneTask, AfterClaim, AfterDrift
  <2>3. \A t : DriftsOf(t) # {} => DriftsOf(t)' # {}
    BY DriftsStay
  <2>4. QED
    BY <2>1, <2>2, <2>3 DEF DriftsOf
<1>4. ASSUME NEW r \in Runs, pc'[r] = "finish"
      PROVE  item'.evidence
  <2>1. pc[r] = "finish" \/ item'.evidence
    BY <1>4 DEF RunsGoOn, GoesOn
  <2>2. QED
    BY <1>0, <2>1, EvidenceMoves DEF PlansAnswerDrifts
<1>5. ASSUME row'.status = "COMPLETED"
      PROVE  item'.evidence
  BY <1>0, <1>5, EvidenceMoves DEF RunsGoOn, PlansAnswerDrifts
<1>6. ASSUME NEW r \in Runs, pc'[r] \in AfterDrift
      PROVE  (DriftsOf(mine[r]) # {})'
  BY <1>2, <1>6 DEF DriftsOf
<1>7. item'.evidence => item'.state \in Concluded /\ (DriftsOf(item.task) # {})'
  BY <1>3 DEF DriftsOf
<1>8. QED
  BY <1>1, <1>4, <1>5, <1>6, <1>7 DEF PlansAnswerDrifts

LEMMA DemoInvNext == DemoInv /\ [DemoNext]_allVars => DemoInv'
<1> SUFFICES ASSUME DemoInv, [DemoNext]_allVars PROVE DemoInv'
  OBVIOUS
<1>1. RunsGoOn /\ DemoMove
  BY DemoMoves
<1>2. LedgerInv'
  BY <1>1, DemoLedgerNext
<1>3. DemoTypeOK'
  BY <1>1, <1>2, PhaseSteps
  DEF RunsGoOn, RunTypes, DemoTypeOK, Places, ItemRows, LedgerInv, LedgerTypeOK
<1>4. QED
  BY <1>1, <1>2, <1>3, InterventionNext, ObligationNext, OneTaskNext, PlansNext DEF DemoInv

LEMMA DemoInvInit == DemoInit => DemoInv
<1> SUFFICES ASSUME DemoInit PROVE DemoInv
  OBVIOUS
<1>0. Billing \in Contracts /\ NoTask \notin Tasks /\ latest[Billing] \in {0, 1}
  BY DemoAssumption DEF DemoInit
<1>1. LedgerInv
  <2>1. IsFiniteSet(drifts)
    BY FS_EmptySet DEF DemoInit
  <2>2. latest \in [Contracts -> Nat]
    BY DEF DemoInit
  <2>3. QED
    BY <2>1, <2>2, BoundsAssumption
    DEF DemoInit, LedgerInv, LedgerTypeOK, InboxBacked, Statuses, Inboxes, InboxStatuses
<1>2. DemoTypeOK
  <2>1. mishaps \in 0..MaxMishaps
    BY DemoAssumption DEF DemoInit
  <2>2. row \in [run : Runs \cup {NoRun}, status : RowStatuses]
    BY DEF DemoInit, RowStatuses
  <2>3. item \in ItemRows
    BY DEF DemoInit, ItemStatuses, ItemRows
  <2>4. status \in [Tasks -> Statuses] /\ latest \in [Contracts -> Nat]
    BY <1>1 DEF LedgerInv, LedgerTypeOK
  <2>5. QED
    BY <2>1, <2>2, <2>3, <2>4 DEF DemoInit, DemoTypeOK, ItemRows
<1>3. OneIntervention
  BY <1>0 DEF DemoInit, OneIntervention, BeforeBaseline, Intervenes
<1>4. OneObligation /\ OneTask
  BY <1>0 DEF DemoInit, OneObligation, OneTask, Unclaimed, AfterClaim, AfterDrift
<1>5. PlansAnswerDrifts
  BY DEF DemoInit, PlansAnswerDrifts, AfterDrift, DriftsOf
<1>6. QED
  BY <1>1, <1>2, <1>3, <1>4, <1>5 DEF DemoInv

-----------------------------------------------------------------------------
(* The theorems. *)

\* The demo's rows keep their types, and what a run, a delivery or a decision
\* does to the shared ledger keeps the ledger's.
THEOREM DemoIsTyped == DemoSpec => []DemoTypeOK
<1>1. DemoInv => DemoTypeOK
  BY DEF DemoInv
<1>2. QED
  BY DemoInvInit, DemoInvNext, <1>1, PTL DEF DemoSpec

LEMMA AtMostOne ==
  ASSUME NEW S, \A x, y \in S : x = y
  PROVE  Cardinality(S) <= 1
<1>1. CASE S = {}
  BY <1>1, FS_EmptySet
<1>2. CASE S # {}
  <2>1. PICK x \in S : S = {x}
    BY <1>2
  <2>2. QED
    BY <2>1, FS_Singleton
<1>3. QED
  BY <1>1, <1>2

\* However many visitors launch it, overlap and fail, the demo leaves at most
\* two revisions, one obligation and one agent task (public_demo.py:131).
THEOREM TheDemoIsBounded == DemoSpec => []DemoIsBounded
<1>1. DemoInv => DemoIsBounded
  <2> SUFFICES ASSUME DemoInv PROVE DemoIsBounded
    OBVIOUS
  <2>1. Cardinality(work) <= 1
    BY AtMostOne DEF DemoInv, OneObligation
  <2>2. Cardinality({ t \in Tasks : status[t] # "NONE" }) <= 1
    <3>1. \A t, u \in { t \in Tasks : status[t] # "NONE" } : t = u
      BY DEF DemoInv, OneTask
    <3>2. QED
      BY <3>1, AtMostOne
  <2>3. QED
    BY <2>1, <2>2 DEF DemoIsBounded, DemoInv, OneIntervention
<1>2. QED
  BY DemoInvInit, DemoInvNext, <1>1, PTL DEF DemoSpec

\* A COMPLETED row is true: the agent planned for a drift, and the evidence
\* waits for its approval or has it, also while a superseded run goes on.
THEOREM CompletionIsTruthful == DemoSpec => []CompletedDemosReachedApproval
<1>1. DemoInv => CompletedDemosReachedApproval
  <2> SUFFICES ASSUME DemoInv, row.status = "COMPLETED" PROVE CompletedDemosReachedApproval
    BY DEF CompletedDemosReachedApproval
  <2>1. item.evidence /\ item.state \in Concluded /\ DriftsOf(item.task) # {}
    BY DEF DemoInv, PlansAnswerDrifts
  <2>2. item.task \in Tasks
    <3>1. PICK d \in drifts : d.task = item.task
      BY <2>1 DEF DriftsOf
    <3>2. QED
      BY <3>1 DEF DemoInv, LedgerInv, LedgerTypeOK, DriftEvents
  <2>3. QED
    BY <2>1, <2>2 DEF DemoInv, PlansAnswerDrifts, Concluded, CompletedDemosReachedApproval
<1>2. QED
  BY DemoInvInit, DemoInvNext, <1>1, PTL DEF DemoSpec

LEMMA DecidedStates ==
  /\ DOMAIN Decided = {"VERIFIED", "COMPLETED", "WITHDRAWN"}
  /\ Decided["VERIFIED"] = {"VERIFIED", "COMPLETED", "WITHDRAWN"}
  /\ Decided["COMPLETED"] = {"COMPLETED", "WITHDRAWN"}
  /\ Decided["WITHDRAWN"] = {"WITHDRAWN"}
BY DEF Decided

\* No late run, no worker and no dispatcher reopens what was decided about the
\* item or the plan: an approved item completes, or people withdraw it.
THEOREM ApprovalsStand == DemoSpec => ApprovalsAreFinal
<1> DEFINE Final == /\ item.state \in DOMAIN Decided => item'.state \in Decided[item.state]
                    /\ \A t \in Tasks : status[t] = "RECONCILED" => status'[t] = "RECONCILED"
<1>1. DemoInv /\ [DemoNext]_allVars => [Final]_allVars
  <2> SUFFICES ASSUME DemoInv, [DemoNext]_allVars PROVE Final
    OBVIOUS
  <2>1. DemoMove
    BY DemoMoves
  <2>2. /\ item.state = "VERIFIED" => item'.state \in {"VERIFIED", "COMPLETED", "WITHDRAWN"}
        /\ item.state = "COMPLETED" => item'.state \in {"COMPLETED", "WITHDRAWN"}
        /\ item.state = "WITHDRAWN" => item'.state = "WITHDRAWN"
    <3>1. item \in ItemRows /\ OneObligation
      BY ItemTypes DEF DemoInv
    <3>2. QED
      BY <2>1, <3>1
      DEF DemoMove, FirstRevision, BreakingRevision, Delivery, Confirmation, ClaimByHarness,
          TaskDecision, ItemMove, TrackItem, OneObligation, ClaimableItem, ItemRows
  <2>3. item.state \in DOMAIN Decided => item'.state \in Decided[item.state]
    BY <2>2, DecidedStates
  <2>4. ASSUME NEW t \in Tasks, status[t] = "RECONCILED"
        PROVE  status'[t] = "RECONCILED"
    BY <2>1, <2>4, StatusMoves
  <2>5. QED
    BY <2>3, <2>4
<1>2. QED
  BY DemoInvInit, DemoInvNext, <1>1, PTL DEF DemoSpec, ApprovalsAreFinal

\* Nobody but the run a row names changes that row, and only by a step of its
\* own: a superseded run neither fails nor completes its successor.
THEOREM SupersededRunsKeepQuiet == DemoSpec => SupersededRunsAreSilent
<1> DEFINE Silent == row'.run = row.run /\ row' # row => pc'[row.run] # pc[row.run]
<1>1. DemoTypeOK /\ [DemoNext]_allVars => [Silent]_allVars
  <2> SUFFICES ASSUME DemoTypeOK, DemoNext, row'.run = row.run, row' # row
               PROVE  pc'[row.run] # pc[row.run]
    BY DEF allVars, demoVars
  <2>0. pc \in [Runs -> Places]
    BY TypesOfTheRuns DEF RunTypes
  <2>1. PICK r \in Runs : Launch(r) \/ Announce(r) \/ Finish(r) \/ RecordRunFailure(r)
    BY DEF DemoNext, RunStep, EnsureServices, Lookups, Find, PublishBaseline,
           ConfirmDependency, RegisterHarness, PublishRevision, IngestChange, Drain, Claim,
           FindWork, Checkpoint, Replan, SubmitPlan, RecordResult, Fault, Raise, Crash, Feed,
           WorkerStep, Offer, RecoverOffer, DecideOnPlan, ApproveWork, CompleteWork, Withdraw, demoVars
  <2>2. CASE Launch(r)
    BY <2>0, <2>2 DEF Launch
  <2>3. CASE Announce(r)
    <3>1. OwnsRow(r)
      BY <2>3 DEF Announce, Raise
    <3>2. pc[r] \in PhaseNames /\ Phases[pc[r]] \in Places /\ Phases[pc[r]] \notin PhaseNames
      BY <2>3, PhaseSteps DEF Announce, PhaseNames, Places, Steps
    <3>3. pc'[r] \in {Phases[pc[r]], "raised"}
      BY <2>3, <3>1, <3>2, GotoMoves DEF Announce
    <3>4. QED
      BY <3>1, <3>2, <3>3 DEF OwnsRow, PhaseNames
  <2>4. CASE Finish(r)
    <3>1. OwnsRow(r) /\ pc[r] = "finish" /\ Goto(r, "ended")
      BY <2>4 DEF Finish, Raise
    <3>2. pc'[r] \in {"ended", "raised"}
      BY <3>1, GotoMoves DEF Places
    <3>3. QED
      BY <3>1, <3>2 DEF OwnsRow
  <2>5. CASE RecordRunFailure(r)
    BY <2>0, <2>5 DEF RecordRunFailure, OwnsRow
  <2>6. QED
    BY <2>1, <2>2, <2>3, <2>4, <2>5
<1>2. QED
  BY DemoIsTyped, <1>1, PTL DEF DemoSpec, SupersededRunsAreSilent
=============================================================================
