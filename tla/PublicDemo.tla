----------------------------- MODULE PublicDemo -----------------------------
(***************************************************************************)
(* The one-click public demo (public_demo.py): a visitor launches a run    *)
(* that drives the registry, the drift worker, compatibility work and the  *)
(* reconciliation of a task, one transaction after the other, while the    *)
(* change feed, the background workers, the dispatcher and an operator act *)
(* on the same rows.  Nothing keeps two runs apart but the singleton row   *)
(* of public_demo_runs: a run that looks stale is superseded while it may  *)
(* still be going on.                                                      *)
(*                                                                         *)
(* The ledger of contracts, events, tasks and drifts is Reconciliation's,  *)
(* and its actions are the transactions a run commits.                     *)
(***************************************************************************)
EXTENDS Reconciliation

CONSTANTS
  Billing,       \* the contract POST /v1/charges of billing-service
  Runs,          \* public_demo_runs.run_id
  Background,    \* drift workers other than the runs themselves
  MaxMishaps,    \* bound: transactions of a run that raise, and crashes
  NoRun, NoTask

ASSUME DemoAssumption ==
  /\ Billing \in Contracts
  /\ Workers = Runs \cup Background /\ Runs \cap Background = {}
  /\ MaxMishaps \in Nat
  /\ NoRun \notin Runs /\ NoTask \notin Tasks

VARIABLES
  row,         \* public_demo_runs: the current run_id and its status
  pc,          \* what each run does next
  mine,        \* result["task_id"] of each run
  registered,  \* is the harness public-demo-orders registered (its name is UNIQUE)
  item,        \* the work item of the Orders dependency: state, task_id and
               \* whether its payload holds a result
  mishaps

demoVars == <<row, pc, mine, registered, item, mishaps>>
allVars  == <<vars, demoVars>>

RowStatuses  == {"NONE", "RUNNING", "COMPLETED", "FAILED"}
ItemStatuses == {"NONE", "PENDING", "DISPATCHED", "ACKNOWLEDGED", "EXECUTING",
                 "AWAITING_APPROVAL", "VERIFIED", "COMPLETED",
                 "WITHDRAWN"}  \* FAILED, CANCELLED, EXPIRED, BLOCKED, INCOMPATIBLE

\* The phases a run announces through _update_run, and the step each precedes.
Phases == [REGISTERING_SERVICES           |-> "services",
           PUBLISHING_BASELINE            |-> "find_baseline",
           PUBLISHING_BREAKING_CONTRACT   |-> "find_revision",
           PROCESSING_DRIFT               |-> "ingest",
           DISPATCHING_COMPATIBILITY_WORK |-> "claim",
           CHECKPOINTING_AND_REPLANNING   |-> "checkpoint"]

Steps == {"services", "find_baseline", "publish_baseline", "find_dependency",
          "confirm_dependency", "find_harness", "register_harness",
          "find_revision", "publish_revision", "ingest", "drain", "claim",
          "find_work", "checkpoint", "find_drift", "replan", "submit",
          "result", "finish", "raised"}

Active(r) == pc[r] \in Steps \cup DOMAIN Phases

-----------------------------------------------------------------------------
(* How a step of a run ends. *)

\* The transaction commits and the run goes on, or its acknowledgement is lost
\* and the run sees an exception.
Goto(r, next) ==
  \/ pc' = [pc EXCEPT ![r] = next] /\ UNCHANGED mishaps
  \/ /\ mishaps < MaxMishaps
     /\ pc' = [pc EXCEPT ![r] = "raised"]
     /\ mishaps' = mishaps + 1

Raise(r) == pc' = [pc EXCEPT ![r] = "raised"] /\ UNCHANGED <<vars, item, mine, registered, row, mishaps>>

\* Any transaction may fail and roll back.
Fault(r) ==
  /\ Active(r) /\ pc[r] # "raised" /\ mishaps < MaxMishaps
  /\ pc' = [pc EXCEPT ![r] = "raised"]
  /\ mishaps' = mishaps + 1
  /\ UNCHANGED <<vars, row, mine, registered, item>>

\* The process dies and takes every asyncio task of a run with it.
Crash ==
  /\ mishaps < MaxMishaps /\ \E r \in Runs : Active(r)
  /\ pc' = [r \in Runs |-> IF Active(r) THEN "ended" ELSE pc[r]]
  /\ mishaps' = mishaps + 1
  /\ UNCHANGED <<vars, row, mine, registered, item>>

-----------------------------------------------------------------------------
(* The singleton row. *)

\* launch_public_demo: a visitor gets the completed or fresh run, or a new one
\* replaces a failed or stale one.  Whether a RUNNING row is stale is time,
\* and a stale run may be alive.
Launch(r) ==
  /\ pc[r] = "idle"
  /\ row.status # "COMPLETED"
  /\ row' = [run |-> r, status |-> "RUNNING"]
  /\ \/ pc' = [pc EXCEPT ![r] = "REGISTERING_SERVICES"] /\ UNCHANGED mishaps
     \/ /\ mishaps < MaxMishaps       \* the visitor gets an error, no task starts
        /\ pc' = [pc EXCEPT ![r] = "ended"] /\ mishaps' = mishaps + 1
  /\ UNCHANGED <<vars, mine, registered, item>>

\* Variant: the UPDATE does not ask whose row it is.
AnyRow(r) == row.status # "NONE"

\* The WHERE clause of _update_run.
OwnsRow(r) == row.run = r

\* _update_run with the next phase: a superseded run raises here.
Announce(r) ==
  /\ pc[r] \in DOMAIN Phases
  /\ IF OwnsRow(r)
     THEN /\ row' = [row EXCEPT !.status = "RUNNING"]
          /\ Goto(r, Phases[pc[r]])
          /\ UNCHANGED <<vars, mine, registered, item>>
     ELSE Raise(r)

Finish(r) ==
  /\ pc[r] = "finish"
  /\ IF OwnsRow(r)
     THEN /\ row' = [row EXCEPT !.status = "COMPLETED"]
          /\ Goto(r, "ended")
          /\ UNCHANGED <<vars, mine, registered, item>>
     ELSE Raise(r)

\* Variant: a failed run leaves its row to the timeout.
FailSilently(r) ==
  /\ pc[r] = "raised"
  /\ pc' = [pc EXCEPT ![r] = "ended"]
  /\ UNCHANGED <<vars, row, mishaps, mine, registered, item>>

\* The except clause: the row is marked FAILED if it is still the run's own;
\* an exception of that update is logged and forgotten.
RecordRunFailure(r) ==
  /\ pc[r] = "raised"
  /\ pc' = [pc EXCEPT ![r] = "ended"]
  /\ \/ /\ row' = IF OwnsRow(r) THEN [row EXCEPT !.status = "FAILED"] ELSE row
        /\ UNCHANGED mishaps
     \/ mishaps < MaxMishaps /\ mishaps' = mishaps + 1 /\ UNCHANGED row
  /\ UNCHANGED <<vars, mine, registered, item>>

-----------------------------------------------------------------------------
(* The scenario. *)

\* _ensure_services: upserts that no later step looks at.
EnsureServices(r) ==
  /\ pc[r] = "services"
  /\ Goto(r, "PUBLISHING_BASELINE")
  /\ UNCHANGED <<vars, row, mine, registered, item>>

\* The lookups of the _ensure_* functions are transactions of their own: what
\* they do not find may be there by the time the run creates it.
Find(r, step, found, next, missing) ==
  /\ pc[r] = step
  /\ Goto(r, IF found THEN next ELSE missing)
  /\ UNCHANGED <<vars, row, mine, registered, item>>

Lookups(r) ==
  \/ Find(r, "find_baseline", latest[Billing] > 0, "find_dependency", "publish_baseline")
  \/ Find(r, "find_dependency", 1 \in confirmed[Billing], "find_harness", "confirm_dependency")
  \/ Find(r, "find_harness", registered, "PUBLISHING_BREAKING_CONTRACT", "register_harness")
  \/ Find(r, "find_revision", latest[Billing] > 1, "PROCESSING_DRIFT", "publish_revision")
  \/ Find(r, "find_drift", DriftsOf(mine[r]) # {}, "replan", "raised")

\* A work row that appears is PENDING; no other step creates or removes one.
TrackItem ==
  item' = IF work = {} /\ work' # {} THEN [item EXCEPT !.state = "PENDING"] ELSE item

\* publish_contract_revision of revision 1.  Between the lookup of a run and its
\* publication only another run can have published Billing (nobody else
\* onboards it then), from the same source_commit, which makes the second
\* publication a no-op; from another commit it would raise.
PublishBaseline(r) ==
  /\ pc[r] = "publish_baseline"
  /\ \/ latest[Billing] = 0 /\ \E e \in Events : Publish(Billing, e, FALSE)
     \/ latest[Billing] > 0 /\ UNCHANGED vars
  /\ Goto(r, "find_dependency")
  /\ UNCHANGED <<row, mine, registered, item>>

\* persist_http_interface_dependency of the Orders client at revision 1.
ConfirmDependency(r) ==
  /\ pc[r] = "confirm_dependency"
  /\ confirmed' = [confirmed EXCEPT ![Billing] = @ \cup {1}]
  /\ Goto(r, "find_harness")
  /\ UNCHANGED <<registryVars, inboxVars, status, binding, drifts, checked, work, claims>>
  /\ UNCHANGED <<row, mine, registered, item>>

\* register_harness; a second registration of the name violates its key.
RegisterHarness(r) ==
  /\ pc[r] = "register_harness"
  /\ IF registered
     THEN Raise(r)
     ELSE /\ registered' = TRUE
          /\ Goto(r, "PUBLISHING_BREAKING_CONTRACT")
          /\ UNCHANGED <<vars, row, mine, item>>

\* Variant: the next revision is published, whatever the run has seen.
PublishNextRevision(r) ==
  /\ pc[r] = "publish_revision"
  /\ \E e \in Events : Publish(Billing, e, TRUE)
  /\ TrackItem
  /\ Goto(r, "PROCESSING_DRIFT")
  /\ UNCHANGED <<row, mine, registered>>

\* publish_contract_revision of revision 2: its source_commit names the run,
\* so a second publication meets the immutability check.
PublishRevision(r) ==
  /\ pc[r] = "publish_revision"
  /\ IF latest[Billing] > 1
     THEN Raise(r)
     ELSE /\ \E e \in Events : Publish(Billing, e, TRUE)
          /\ TrackItem
          /\ Goto(r, "PROCESSING_DRIFT")
          /\ UNCHANGED <<row, mine, registered>>

IngestChange(r) ==
  /\ pc[r] = "ingest"
  /\ \E e \in Events : /\ outbox[e] # NoEvent /\ outbox[e].revision = 2
                       /\ Ingest(e)
  /\ Goto(r, "drain")
  /\ UNCHANGED <<row, mine, registered, item>>

ClaimableEvents == { e \in Events : Claimable(e) }

\* process_all_pending_events: the run is a worker until it is offered no row.
\* SKIP LOCKED hides the rows that other workers are processing.
Drain(r) ==
  /\ pc[r] = "drain"
  /\ \/ \E e \in ClaimableEvents : Process(r, e) /\ TrackItem
        /\ UNCHANGED <<pc, mishaps>>
     \/ /\ Cardinality(ClaimableEvents) <= Cardinality(Background)
        /\ Goto(r, "DISPATCHING_COMPATIBILITY_WORK")
        /\ UNCHANGED <<vars, item>>
  /\ UNCHANGED <<row, mine, registered>>

\* Variant: the claim does not look at the item's state.
ClaimableInAnyState == item.state # "NONE"
ClaimableItem == item.state \in {"PENDING", "DISPATCHED"}

\* claim_next_work_item: the item becomes a task bound to its dependency.  When
\* there is nothing to claim the run looks for the task of an earlier claim.
Claim(r) ==
  /\ pc[r] = "claim"
  /\ IF ClaimableItem
     THEN \E t \in Tasks, w \in work :
            /\ ClaimWork(t, w)
            /\ item' = [item EXCEPT !.state = "ACKNOWLEDGED", !.task = t]
            /\ mine' = [mine EXCEPT ![r] = t]
            /\ Goto(r, "CHECKPOINTING_AND_REPLANNING")
     ELSE Goto(r, "find_work") /\ UNCHANGED <<vars, mine, item>>
  /\ UNCHANGED <<row, registered>>

FindWork(r) ==
  /\ pc[r] = "find_work"
  /\ IF item.task = NoTask
     THEN Raise(r)
     ELSE /\ mine' = [mine EXCEPT ![r] = item.task]
          /\ Goto(r, "CHECKPOINTING_AND_REPLANNING")
          /\ UNCHANGED <<vars, row, registered, item>>

\* record_harness_checkpoint.
Checkpoint(r) ==
  /\ pc[r] = "checkpoint"
  /\ item' = IF item.state = "ACKNOWLEDGED" THEN [item EXCEPT !.state = "EXECUTING"] ELSE item
  /\ Goto(r, "find_drift")
  /\ UNCHANGED <<vars, row, mine, registered>>

Replan(r) ==
  /\ pc[r] = "replan"
  /\ IF status[mine[r]] \in {"REPLAN_REQUIRED", "OPTIMISTIC_EXECUTING", "REPLANNING"}
     THEN /\ StartReplanning(mine[r])
          /\ Goto(r, "submit")
          /\ UNCHANGED <<row, mine, registered, item>>
     ELSE Raise(r)

SubmitPlan(r) ==
  /\ pc[r] = "submit"
  /\ IF status[mine[r]] = "REPLANNING"
     THEN /\ \E d \in DriftsOf(mine[r]) : Submit(mine[r], d, FALSE)
          /\ Goto(r, "result")
          /\ UNCHANGED <<row, mine, registered, item>>
     ELSE Raise(r)

\* Variant: evidence is accepted in any state.
RecordAnyResult(r) ==
  /\ pc[r] = "result"
  /\ item' = [item EXCEPT !.state = "AWAITING_APPROVAL", !.evidence = TRUE]
  /\ Goto(r, "finish")
  /\ UNCHANGED <<vars, row, mine, registered>>

\* record_compatibility_result.
RecordResult(r) ==
  /\ pc[r] = "result"
  /\ IF item.state \in {"EXECUTING", "ACKNOWLEDGED", "AWAITING_APPROVAL"}
     THEN /\ item' = [item EXCEPT !.state = "AWAITING_APPROVAL", !.evidence = TRUE]
          /\ Goto(r, "finish")
          /\ UNCHANGED <<vars, row, mine, registered>>
     ELSE Raise(r)

-----------------------------------------------------------------------------
(* Everybody else. *)

\* The change feed and the background drift workers.
Feed(e) == Ingest(e) /\ UNCHANGED demoVars

WorkerStep(w, e) ==
  /\ Process(w, e) /\ TrackItem
  /\ UNCHANGED <<row, pc, mine, registered, mishaps>>

\* The dispatcher offers the item to a harness that polls, and takes a stale
\* lease back.
Offer ==
  /\ item.state = "PENDING" /\ registered
  /\ item' = [item EXCEPT !.state = "DISPATCHED"]
  /\ UNCHANGED <<vars, row, pc, mine, registered, mishaps>>

\* Variant: a lease that ends counts as a failed dispatch.
FailOffer ==
  /\ item.state = "DISPATCHED"
  /\ item' = [item EXCEPT !.state = "FAILED"]
  /\ UNCHANGED <<vars, row, pc, mine, registered, mishaps>>

RecoverOffer ==
  /\ item.state = "DISPATCHED"
  /\ item' = [item EXCEPT !.state = "PENDING"]
  /\ UNCHANGED <<vars, row, pc, mine, registered, mishaps>>

\* The operator decides on the plan, and on the evidence.
DecideOnPlan(t) == (Approve(t) \/ Reject(t)) /\ UNCHANGED demoVars

ApproveWork ==
  /\ item.state = "AWAITING_APPROVAL"
  /\ \E w \in work : ApproveItem(w)
  /\ item' = [item EXCEPT !.state = "VERIFIED"]
  /\ UNCHANGED <<row, pc, mine, registered, mishaps>>

\* complete, the end of an approved item.
CompleteWork ==
  /\ item.state = "VERIFIED"
  /\ item' = [item EXCEPT !.state = "COMPLETED"]
  /\ UNCHANGED <<vars, row, pc, mine, registered, mishaps>>

\* fail, which no state resists; cancel, expire and the harness's incidents,
\* which some do, have the same effect: the item leaves the course of the demo,
\* whether it was approved or not, and keeps its task.
Withdraw ==
  /\ item.state # "NONE"
  /\ item' = [item EXCEPT !.state = "WITHDRAWN"]
  /\ UNCHANGED <<vars, row, pc, mine, registered, mishaps>>

-----------------------------------------------------------------------------

\* A clean database, or one to which Billing was onboarded at revision 1.
DemoInit ==
  /\ latest \in [Contracts -> {0, 1}]
  /\ retired = {} /\ outbox = [e \in Events |-> NoEvent]
  /\ inbox = [e \in Events |-> [status |-> "ABSENT", attempts |-> 0]]
  /\ failing = [w \in Workers |-> NoEvent] /\ faults = 0
  /\ status = [t \in Tasks |-> "NONE"]
  /\ binding = [t \in Tasks |-> [c \in Contracts |-> 0]]
  /\ drifts = {} /\ confirmed = [c \in Contracts |-> {}]
  /\ work = {} /\ checked = {} /\ claims = [t \in Tasks |-> NoWork]
  /\ row = [run |-> NoRun, status |-> "NONE"]
  /\ pc = [r \in Runs |-> "idle"] /\ mine = [r \in Runs |-> NoTask]
  /\ registered = FALSE
  /\ item = [state |-> "NONE", task |-> NoTask, evidence |-> FALSE]
  /\ mishaps = 0

RunStep(r) ==
  \/ Announce(r) \/ Finish(r) \/ RecordRunFailure(r)
  \/ EnsureServices(r) \/ Lookups(r) \/ PublishBaseline(r)
  \/ ConfirmDependency(r) \/ RegisterHarness(r) \/ PublishRevision(r)
  \/ IngestChange(r) \/ Drain(r)
  \/ Claim(r) \/ FindWork(r) \/ Checkpoint(r)
  \/ Replan(r) \/ SubmitPlan(r) \/ RecordResult(r)

DemoNext ==
  \/ \E r \in Runs : Launch(r) \/ RunStep(r) \/ Fault(r)
  \/ Crash
  \/ \E e \in Events : Feed(e) \/ \E w \in Background : WorkerStep(w, e)
  \/ Offer \/ RecoverOffer
  \/ \E t \in Tasks : DecideOnPlan(t)
  \/ ApproveWork \/ CompleteWork \/ Withdraw

DemoSpec == DemoInit /\ [][DemoNext]_allVars

\* A run is an asyncio task that awaits one transaction after the other.
FairDemo == DemoSpec /\ \A r \in Runs : WF_allVars(RunStep(r))

-----------------------------------------------------------------------------
(* Properties. *)

\* The singleton row, the work item and the runs hold values of their types,
\* and the ledger they share is well typed (a contract may be unpublished).
DemoTypeOK ==
  /\ row \in [run : Runs \cup {NoRun}, status : RowStatuses]
  /\ pc \in [Runs -> Steps \cup DOMAIN Phases \cup {"idle", "ended"}]
  /\ mine \in [Runs -> Tasks \cup {NoTask}]
  /\ registered \in BOOLEAN
  /\ item \in [state : ItemStatuses, task : Tasks \cup {NoTask}, evidence : BOOLEAN]
  /\ mishaps \in 0..MaxMishaps
  /\ status \in [Tasks -> Statuses] /\ latest \in [Contracts -> Nat]

\* However many runs overlap, the demo leaves one revision, one obligation and
\* one agent task behind (start_public_demo_run's promise of no unbounded
\* stream of tasks and contract revisions).
DemoIsBounded ==
  /\ latest[Billing] <= 2 /\ Cardinality(work) <= 1
  /\ Cardinality({ t \in Tasks : status[t] # "NONE" }) <= 1

\* A COMPLETED row tells the truth, also when an older run is still going on:
\* the plan was made for a drift and the evidence was recorded; it waits for its
\* approval or has got it, unless somebody withdrew the item since.
CompletedDemosReachedApproval ==
  row.status = "COMPLETED" =>
    /\ item.evidence
    /\ item.state \in {"AWAITING_APPROVAL", "VERIFIED", "COMPLETED", "WITHDRAWN"}
    /\ DriftsOf(item.task) # {}
    /\ status[item.task] \notin {"NONE", "OPTIMISTIC_EXECUTING"}

\* Only the run that a row names changes that row: a superseded run, alive as
\* it may be, does not fail or complete its successor.
SupersededRunsAreSilent ==
  [][row'.run = row.run /\ row' # row => pc'[row.run] # pc[row.run]]_allVars

\* What the states of an item may become once it was approved or withdrawn.
Decided == [VERIFIED  |-> {"VERIFIED", "COMPLETED", "WITHDRAWN"},
            COMPLETED |-> {"COMPLETED", "WITHDRAWN"},
            WITHDRAWN |-> {"WITHDRAWN"}]

\* What was decided about the work item and the plan is not reopened by a run
\* that comes late, by a worker or by the dispatcher: an approved item only
\* completes or is withdrawn -- failed, cancelled or reported as an incident, by
\* people, from any state (compatibility.py:879, 1182, 1220) -- a withdrawn one
\* stays so, and a reconciled task is never set back.
ApprovalsAreFinal ==
  [][/\ item.state \in DOMAIN Decided => item'.state \in Decided[item.state]
     /\ \A t \in Tasks : status[t] = "RECONCILED" => status'[t] = "RECONCILED"]_allVars

\* A launched run that nothing disturbs reports an outcome: its row does not
\* wait for the timeout.
LaunchedRunsReport ==
  \A r \in Runs :
    row = [run |-> r, status |-> "RUNNING"]
      ~> \/ row.run # r \/ row.status # "RUNNING"
         \/ mishaps > 0
=============================================================================
