--------------------------- MODULE Reconciliation ---------------------------
(***************************************************************************)
(* The life of a contract change in the coordinator: a provider publishes  *)
(* a revision, the change feed delivers the outbox event to the inbox,     *)
(* drift workers turn it into drift events and compatibility work, and the *)
(* affected agent tasks are replanned, submitted, approved or rejected.    *)
(*                                                                         *)
(* Every operation of the source runs in one SERIALIZABLE transaction      *)
(* (coordinator/db.py), so each action below is one committed transaction; *)
(* what happens BETWEEN the transactions of one caller (a worker that      *)
(* rolled back and has not yet recorded the failure, an agent that has     *)
(* read its drift status and not yet written its checkpoint) is state.     *)
(*                                                                         *)
(* All tasks belong to one consumer service, repository and source file,   *)
(* so a row of http_interface_dependencies is a (contract, revision) pair. *)
(***************************************************************************)
EXTENDS Integers, FiniteSets

CONSTANTS
  Tasks,         \* active_agent_tasks.task_id
  Contracts,     \* service_contracts.contract_id
  Services,      \* provider services
  ProviderOf,    \* the service that owns each contract
  Events,        \* coordinator_outbox.event_id of contract changes
  Workers,       \* concurrent callers of process_single_inbox_event
  MaxAttempts,   \* MAX_ATTEMPT_RETRIES of the drift worker
  MaxFaults,     \* bound: database faults a behaviour may contain
  MaxTaskless,   \* bound: newest revision confirmed without rebinding a task
  AutoChoices,   \* values of should_auto_reconcile a submission may use
  ReuseTaskIds,  \* may a harness register an existing task_id again?
  Runners,       \* tasks driven by agent_runner's checkpoint helper
  NoEvent, NoDrift, NoWork

Statuses == {"NONE", "OPTIMISTIC_EXECUTING", "REPLAN_REQUIRED", "REPLANNING",
             "AWAITING_APPROVAL", "RECONCILED", "COMPLETED"}

InboxStatuses == {"ABSENT", "RECEIVED", "PROCESSED", "FAILED"}

Revisions == Nat \ {0}

ChangeEvents ==
  [contract : Contracts, revision : Revisions,
   intervention : BOOLEAN,  \* is_breaking or classified REVIEW_REQUIRED
   inclusive : BOOLEAN]     \* ENDPOINT_RETIREMENT_REVIEW_REQUIRED, hence "<="

DriftEvents ==
  [task : Tasks, source : Services, revision : Revisions, event : Events,
   at : Nat,                \* position in created_at order
   active : BOOLEAN]        \* ACTIVE_INTERVENTION, else RECONCILED

WorkItems ==
  [contract : Contracts, revision : Revisions, dep : Revisions, event : Events]

ASSUME SetsAssumption ==
  /\ IsFiniteSet(Tasks)
  /\ ProviderOf \in [Contracts -> Services]
  /\ NoEvent \notin Events /\ NoEvent \notin ChangeEvents
  /\ NoWork \notin WorkItems

ASSUME BoundsAssumption ==
  /\ MaxAttempts \in Nat /\ MaxFaults \in Nat /\ MaxTaskless \in Nat
  /\ AutoChoices \subseteq BOOLEAN /\ ReuseTaskIds \in BOOLEAN
  /\ Runners \subseteq Tasks

VARIABLES
  latest,     \* newest revision_number of each contract
  retired,    \* contracts whose lifecycle_state is RETIRED
  outbox,     \* the change event committed under each event id
  inbox,      \* event_inbox: processing_status and attempt_count
  failing,    \* per worker: the event whose failure it has yet to record
  faults,     \* database faults so far
  status,     \* active_agent_tasks.status
  binding,    \* task_contract_dependencies.assumed_revision, 0 for no row
  drifts,     \* drift_events
  confirmed,  \* revisions of each contract with a CONFIRMED dependency row
  work,       \* compatibility_work_items, by their two unique keys
  checked,    \* runner tasks between check_task_drift and the checkpoint
  claims      \* the work item whose claim created a task, NoWork for a task that
              \* registered (an item's task_id is the newest of its claims)

registryVars == <<latest, retired, outbox>>
inboxVars    == <<inbox, failing, faults>>
taskVars     == <<status, binding, drifts, confirmed, checked, claims>>
vars == <<latest, retired, outbox, inbox, failing, faults, status, binding,
          drifts, confirmed, work, checked, claims>>

-----------------------------------------------------------------------------
(* Compatibility work created with a contract change. *)

\* The rows the loop over the confirmed consumers would insert: one per
\* dependency whose coordination key (contract, revision, dependency) is free.
NewObligations(e, c, r) ==
  { [contract |-> c, revision |-> r, dep |-> d, event |-> e] :
      d \in { d \in confirmed[c] :
                \A w \in work : <<w.contract, w.revision, w.dep>> # <<c, r, d>> } }

\* idempotency_key (event, consumer, repository, revision) is UNIQUE as well,
\* and ON CONFLICT covers only the coordination key: a second row for the same
\* event makes the statement, and with it the transaction, fail.
KeysFree(rows) ==
  \A n \in rows : /\ \A m \in rows : m.event = n.event => m = n
                  /\ \A w \in work : w.event # n.event

CreateWork(rows) == KeysFree(rows) /\ work' = work \cup rows

-----------------------------------------------------------------------------
(* Contract registry. *)

Change(c, r, intervention, inclusive) ==
  [contract |-> c, revision |-> r,
   intervention |-> intervention, inclusive |-> inclusive]

\* publish_contract_revision of the next revision; whether it intervenes is
\* the differencer's verdict.
Publish(c, e, intervention) ==
  /\ c \notin retired
  /\ outbox[e] = NoEvent
  /\ latest' = [latest EXCEPT ![c] = @ + 1]
  /\ outbox' = [outbox EXCEPT ![e] = Change(c, latest[c] + 1, intervention, FALSE)]
  /\ CreateWork(IF intervention THEN NewObligations(e, c, latest[c] + 1) ELSE {})
  /\ UNCHANGED <<retired, inboxVars, taskVars>>

\* retire_contract: a tombstone revision, always breaking.
Retire(c, e) ==
  /\ c \notin retired
  /\ outbox[e] = NoEvent
  /\ latest' = [latest EXCEPT ![c] = @ + 1]
  /\ retired' = retired \cup {c}
  /\ outbox' = [outbox EXCEPT ![e] = Change(c, latest[c] + 1, TRUE, FALSE)]
  /\ CreateWork(NewObligations(e, c, latest[c] + 1))
  /\ UNCHANGED <<inboxVars, taskVars>>

\* publish_contract_inventory of a new commit of a service: each active
\* contract missing from it raises a review at its current revision, all of
\* them in one transaction.  id[c] is the event of the missing contract c.
ReviewMissing(missing, id) ==
  /\ missing # {} /\ missing \cap retired = {}
  /\ \A c, d \in missing : /\ ProviderOf[c] = ProviderOf[d]
                           /\ id[c] = id[d] => c = d
                           /\ outbox[id[c]] = NoEvent
  /\ outbox' = [e \in Events |->
                  IF \E c \in missing : id[c] = e
                  THEN LET c == CHOOSE c \in missing : id[c] = e
                       IN  Change(c, latest[c], TRUE, TRUE)
                  ELSE outbox[e]]
  /\ CreateWork(UNION { NewObligations(id[c], c, latest[c]) : c \in missing })
  /\ UNCHANGED <<latest, retired, inboxVars, taskVars>>

-----------------------------------------------------------------------------
(* Event inbox and drift workers. *)

\* Operators marked Variant are plausible mistakes, kept to show that a property
\* would notice them.  Variant: ON CONFLICT DO UPDATE, a redelivery resets the row.
IngestResets(e) ==
  /\ outbox[e] # NoEvent
  /\ inbox' = [inbox EXCEPT ![e] = [status |-> "RECEIVED", attempts |-> 0]]
  /\ UNCHANGED <<registryVars, failing, faults, taskVars, work>>

\* ingest_changefeed_event: the feed delivers at least once and in any order;
\* a redelivery meets ON CONFLICT DO NOTHING.
Ingest(e) ==
  /\ outbox[e] # NoEvent
  /\ inbox' = IF inbox[e].status = "ABSENT"
              THEN [inbox EXCEPT ![e] = [status |-> "RECEIVED", attempts |-> 0]]
              ELSE inbox
  /\ UNCHANGED <<registryVars, failing, faults, taskVars, work>>

\* Variants: claim by attempts alone; never retry.
ClaimableByAttempts(e) ==
  inbox[e].status # "ABSENT" /\ inbox[e].attempts < MaxAttempts
ClaimableOnce(e) == inbox[e].status = "RECEIVED"

\* claim_next_inbox_event.  SKIP LOCKED lets concurrent workers overtake one
\* another, so any claimable event may be the next one to commit.
Claimable(e) ==
  \/ inbox[e].status = "RECEIVED"
  \/ inbox[e].status = "FAILED" /\ inbox[e].attempts < MaxAttempts

Interruptible == {"OPTIMISTIC_EXECUTING", "REPLANNING", "AWAITING_APPROVAL"}

\* Variant: every bound task, whatever revision it assumes.
AffectedByAnyChange(e) ==
  { t \in Tasks : status[t] \in Interruptible /\ binding[t][outbox[e].contract] # 0 }

Affected(e) ==
  LET ev == outbox[e] IN
  { t \in Tasks : /\ status[t] \in Interruptible
                  /\ binding[t][ev.contract] # 0
                  /\ \/ binding[t][ev.contract] < ev.revision
                     \/ ev.inclusive /\ binding[t][ev.contract] = ev.revision }

\* Variant: the worker relies on the work created at publication.
NoLateObligations(e) == {}

ObligationsOf(e) ==
  IF outbox[e].intervention
  THEN NewObligations(e, outbox[e].contract, outbox[e].revision)
  ELSE {}

\* The drift rows one event inserts, all with the created_at of its transaction.
NewDrifts(e) ==
  { [task |-> t, source |-> ProviderOf[outbox[e].contract],
     revision |-> outbox[e].revision, event |-> e,
     at |-> Cardinality(drifts) + 1, active |-> TRUE] : t \in Affected(e) }

\* Variant: drifts are raised only with new work.
HandleEventWithNewWork(e) ==
  /\ Claimable(e)
  /\ CreateWork(ObligationsOf(e))
  /\ IF ObligationsOf(e) # {}
     THEN /\ drifts' = drifts \cup NewDrifts(e)
          /\ status' = [t \in Tasks |-> IF t \in Affected(e)
                                        THEN "REPLAN_REQUIRED" ELSE status[t]]
     ELSE UNCHANGED <<drifts, status>>
  /\ inbox' = [inbox EXCEPT ![e] = [status |-> "PROCESSED",
                                    attempts |-> @.attempts + 1]]
  /\ UNCHANGED <<registryVars, binding, confirmed, checked, claims>>

\* process_claimed_event together with the claim: what the transaction commits.
HandleEvent(e) ==
  /\ Claimable(e)
  /\ CreateWork(ObligationsOf(e))
  /\ IF outbox[e].intervention
     THEN /\ drifts' = drifts \cup NewDrifts(e)
          /\ status' = [t \in Tasks |-> IF t \in Affected(e)
                                        THEN "REPLAN_REQUIRED" ELSE status[t]]
     ELSE UNCHANGED <<drifts, status>>
  /\ inbox' = [inbox EXCEPT ![e] = [status |-> "PROCESSED",
                                    attempts |-> @.attempts + 1]]
  /\ UNCHANGED <<registryVars, binding, confirmed, checked, claims>>

Process(w, e) ==
  /\ failing[w] = NoEvent
  /\ HandleEvent(e)
  /\ UNCHANGED <<failing, faults>>

\* The commit succeeds but the connection is lost before it is acknowledged:
\* the worker sees an exception and will record a failure.
CommitLost(w, e) ==
  /\ failing[w] = NoEvent /\ faults < MaxFaults
  /\ HandleEvent(e)
  /\ failing' = [failing EXCEPT ![w] = e]
  /\ faults' = faults + 1

\* The transaction rolls back on a database fault.
Abort(w, e) ==
  /\ failing[w] = NoEvent /\ faults < MaxFaults
  /\ Claimable(e)
  /\ failing' = [failing EXCEPT ![w] = e]
  /\ faults' = faults + 1
  /\ UNCHANGED <<registryVars, inbox, taskVars, work>>

\* The transaction rolls back on the unique violation of the work item keys.
Collide(w, e) ==
  /\ failing[w] = NoEvent
  /\ Claimable(e) /\ ~KeysFree(ObligationsOf(e))
  /\ failing' = [failing EXCEPT ![w] = e]
  /\ UNCHANGED <<registryVars, inbox, faults, taskVars, work>>

\* _record_event_failure, a transaction of its own without a state guard.
RecordFailure(w) ==
  /\ failing[w] # NoEvent
  /\ inbox' = [inbox EXCEPT ![failing[w]] = [status |-> "FAILED",
                                             attempts |-> @.attempts + 1]]
  /\ failing' = [failing EXCEPT ![w] = NoEvent]
  /\ UNCHANGED <<registryVars, faults, taskVars, work>>

\* Its error is swallowed, or the process dies before it runs.
LoseFailure(w) ==
  /\ failing[w] # NoEvent /\ faults < MaxFaults
  /\ failing' = [failing EXCEPT ![w] = NoEvent]
  /\ faults' = faults + 1
  /\ UNCHANGED <<registryVars, inbox, taskVars, work>>

-----------------------------------------------------------------------------
(* Agent tasks. *)

DriftsOf(t)       == { d \in drifts : d.task = t }
ActiveDriftsOf(t) == { d \in DriftsOf(t) : d.active }
Resolve(ds)       == { IF d \in ds THEN [d EXCEPT !.active = FALSE] ELSE d : d \in drifts }

\* The rows of a task under way with the dependencies deps, a function from
\* contracts to assumed revisions.
CreateTask(t, deps) ==
  /\ status' = [status EXCEPT ![t] = "OPTIMISTIC_EXECUTING"]
  /\ binding' = [binding EXCEPT ![t] =
                   [c \in Contracts |-> IF c \in DOMAIN deps THEN deps[c] ELSE @[c]]]
  /\ confirmed' = [c \in Contracts |->
                     confirmed[c] \cup (IF c \in DOMAIN deps THEN {deps[c]} ELSE {})]
  /\ UNCHANGED <<registryVars, inboxVars, drifts, work, checked>>

\* create_agent_task.  Each dependency is confirmed already or is persisted as
\* confirmed, which needs an active contract and an existing revision -- any
\* revision, not only the newest.
Register(t, deps) ==
  /\ status[t] = "NONE" \/ ReuseTaskIds
  /\ t \notin checked
  /\ \A c \in DOMAIN deps : \/ deps[c] \in confirmed[c]
                            \/ c \notin retired /\ deps[c] \in 1..latest[c]
  /\ CreateTask(t, deps)
  /\ UNCHANGED claims

\* Variant: a reconciled task may be replanned again.
StartReplanningAnyTime(t) ==
  /\ status[t] \in {"REPLAN_REQUIRED", "OPTIMISTIC_EXECUTING", "REPLANNING", "RECONCILED"}
  /\ t \notin checked
  /\ status' = [status EXCEPT ![t] = "REPLANNING"]
  /\ UNCHANGED <<registryVars, inboxVars, binding, drifts, confirmed, work, checked, claims>>

StartReplanning(t) ==
  /\ status[t] \in {"REPLAN_REQUIRED", "OPTIMISTIC_EXECUTING", "REPLANNING"}
  /\ t \notin checked
  /\ status' = [status EXCEPT ![t] = "REPLANNING"]
  /\ UNCHANGED <<registryVars, inboxVars, binding, drifts, confirmed, work, checked, claims>>

\* Variant: the provider is not part of the WHERE clause.
RebindEverything(t, provider, revision) ==
  LET bound == { c \in Contracts : binding[t][c] # 0 } IN
  /\ binding' = [binding EXCEPT ![t] =
                   [c \in Contracts |-> IF c \in bound THEN revision ELSE @[c]]]
  /\ confirmed' = [c \in Contracts |->
                     confirmed[c] \cup (IF c \in bound THEN {revision} ELSE {})]

\* _update_task_dependency_binding: confirm one dependency row of the provider
\* at the new revision and point EVERY dependency of the task on that provider
\* at it.  The row belongs to one contract, so with two of them the composite
\* foreign key of migration 007 aborts the transaction.
Rebind(t, provider, revision) ==
  LET bound == { c \in Contracts : ProviderOf[c] = provider /\ binding[t][c] # 0 } IN
  /\ \A c, d \in bound : c = d
  /\ binding' = [binding EXCEPT ![t] =
                   [c \in Contracts |-> IF c \in bound THEN revision ELSE @[c]]]
  /\ confirmed' = [c \in Contracts |->
                     confirmed[c] \cup (IF c \in bound THEN {revision} ELSE {})]

Newest(ds) == { d \in ds : \A o \in ds : o.at <= d.at }

\* Variant: a plan is accepted although the task was interrupted again.
SubmitInterrupted(t, id, auto) ==
  /\ status[t] \in {"REPLANNING", "REPLAN_REQUIRED"}
  /\ status' = [status EXCEPT ![t] = IF auto THEN "RECONCILED" ELSE "AWAITING_APPROVAL"]
  /\ \E plan \in IF id \in DriftsOf(t) THEN {id} ELSE Newest(DriftsOf(t)) :
       IF auto THEN /\ drifts' = Resolve({id})
                    /\ Rebind(t, plan.source, plan.revision)
               ELSE UNCHANGED <<drifts, binding, confirmed>>
  /\ UNCHANGED <<registryVars, inboxVars, work, checked, claims>>

\* submit_reconciled_plan with passing test evidence.  id is what the caller
\* passes; when it is not a drift of the task, the plan is taken from the
\* task's newest drift, in any status, but the UPDATE still goes to id.
Submit(t, id, auto) ==
  /\ status[t] = "REPLANNING"
  /\ status' = [status EXCEPT ![t] = IF auto THEN "RECONCILED" ELSE "AWAITING_APPROVAL"]
  /\ \E plan \in IF id \in DriftsOf(t) THEN {id} ELSE Newest(DriftsOf(t)) :
       IF auto THEN /\ drifts' = Resolve({id})
                    /\ Rebind(t, plan.source, plan.revision)
               ELSE UNCHANGED <<drifts, binding, confirmed>>
  /\ UNCHANGED <<registryVars, inboxVars, work, checked, claims>>

\* Variant: only the drift the plan was made for is resolved.
ApproveOneDrift(t) ==
  /\ status[t] = "AWAITING_APPROVAL"
  /\ status' = [status EXCEPT ![t] = "RECONCILED"]
  /\ \E d \in ActiveDriftsOf(t) : drifts' = Resolve({d}) /\ Rebind(t, d.source, d.revision)
  /\ UNCHANGED <<registryVars, inboxVars, work, checked, claims>>

\* approve_reconciled_plan: every active drift of the task is resolved, and the
\* task is rebound by whichever of the returned rows comes first.
Approve(t) ==
  /\ status[t] = "AWAITING_APPROVAL"
  /\ status' = [status EXCEPT ![t] = "RECONCILED"]
  /\ drifts' = Resolve(ActiveDriftsOf(t))
  /\ \/ \E d \in ActiveDriftsOf(t) : Rebind(t, d.source, d.revision)
     \/ ActiveDriftsOf(t) = {} /\ UNCHANGED <<binding, confirmed>>
  /\ UNCHANGED <<registryVars, inboxVars, work, checked, claims>>

\* reject_reconciled_plan.
Reject(t) ==
  /\ status[t] = "AWAITING_APPROVAL"
  /\ status' = [status EXCEPT ![t] = "REPLANNING"]
  /\ UNCHANGED <<registryVars, inboxVars, binding, drifts, confirmed, work, checked, claims>>

\* complete_harness_task, open to the harness that owns the task; a task of
\* the agent runner belongs to no harness, and the task a work item names waits
\* for the decision on the item.
Complete(t) ==
  /\ status[t] \in {"OPTIMISTIC_EXECUTING", "RECONCILED"}
  /\ t \notin Runners
  /\ claims[t] = NoWork \/ \E u \in Tasks \ {t} : claims[u] = claims[t]
  /\ status' = [status EXCEPT ![t] = "COMPLETED"]
  /\ UNCHANGED <<registryVars, inboxVars, binding, drifts, confirmed, work, checked, claims>>

\* execute_agent_b_step_with_drift_check: the drift query and the checkpoint
\* that writes OPTIMISTIC_EXECUTING are two transactions.  The agent works
\* on nothing else between them.
RunnerCheck(t) ==
  /\ t \in Runners \ checked
  /\ status[t] \in {"OPTIMISTIC_EXECUTING", "REPLAN_REQUIRED"}
  /\ ActiveDriftsOf(t) = {}
  /\ checked' = checked \cup {t}
  /\ UNCHANGED <<registryVars, inboxVars, status, binding, drifts, confirmed, work, claims>>

RunnerSave(t) ==
  /\ t \in checked
  /\ status' = [status EXCEPT ![t] = "OPTIMISTIC_EXECUTING"]
  /\ checked' = checked \ {t}
  /\ UNCHANGED <<registryVars, inboxVars, binding, drifts, confirmed, work, claims>>

-----------------------------------------------------------------------------
(* Dependencies and compatibility work.  The life of an item -- its delivery, *)
(* its states, who may claim it -- is CompatibilityWork's; here any item that *)
(* is not a retirement review may be claimed, again as well, or approved.     *)

\* persist_http_interface_dependency of a confirmed dependency, by the discovery
\* of dependencies, without a task.
PersistDependency(c, r) ==
  /\ c \notin retired /\ r \in 1..latest[c] /\ r <= MaxTaskless
  /\ confirmed' = [confirmed EXCEPT ![c] = @ \cup {r}]
  /\ UNCHANGED <<registryVars, inboxVars, status, binding, drifts, work, checked, claims>>

\* A retirement review is created in REVIEW_REQUIRED and never offered.
Offered(w) == w \in work /\ ~outbox[w.event].inclusive

\* claim_next_work_item: a new task, bound to the dependency of the item.
ClaimWork(t, w) ==
  /\ Offered(w)
  /\ status[t] = "NONE"
  /\ w.dep \in confirmed[w.contract]
  /\ CreateTask(t, [c \in {w.contract} |-> w.dep])
  /\ claims' = [claims EXCEPT ![t] = w]

Claimants(w) == { t \in Tasks : claims[t] = w }

\* approve_compatibility_work: the dependency is confirmed at the item's
\* revision, and the item's task is rebound if it is still bound to the old row,
\* whatever its status; its drifts are not looked at.  A webhook harness may
\* have sent the evidence without a claim: then there is no task to rebind.
ApproveItem(w) ==
  /\ Offered(w)
  /\ w.dep \in confirmed[w.contract]
  /\ confirmed' = [confirmed EXCEPT ![w.contract] = @ \cup {w.revision}]
  /\ \/ Claimants(w) = {} /\ w.revision <= MaxTaskless /\ UNCHANGED binding
     \/ \E t \in Claimants(w) :
          binding' = IF binding[t][w.contract] = w.dep
                     THEN [binding EXCEPT ![t][w.contract] = w.revision] ELSE binding
  /\ UNCHANGED <<registryVars, inboxVars, status, drifts, work, checked, claims>>

-----------------------------------------------------------------------------

\* Revision 1 of every contract is published and its event consumed: a first
\* revision never intervenes, and no task can be bound below it.
Init ==
  /\ latest = [c \in Contracts |-> 1]
  /\ retired = {}
  /\ outbox = [e \in Events |-> NoEvent]
  /\ inbox = [e \in Events |-> [status |-> "ABSENT", attempts |-> 0]]
  /\ failing = [w \in Workers |-> NoEvent]
  /\ faults = 0
  /\ status = [t \in Tasks |-> "NONE"]
  /\ binding = [t \in Tasks |-> [c \in Contracts |-> 0]]
  /\ drifts = {}
  /\ confirmed = [c \in Contracts |-> {}]
  /\ work = {}
  /\ checked = {}
  /\ claims = [t \in Tasks |-> NoWork]

RegistryNext ==
  \/ \E c \in Contracts, e \in Events :
       \/ \E intervention \in BOOLEAN : Publish(c, e, intervention)
       \/ Retire(c, e)
  \/ \E missing \in SUBSET Contracts : \E id \in [missing -> Events] :
       ReviewMissing(missing, id)

InboxNext ==
  \/ \E e \in Events : Ingest(e)
  \/ \E w \in Workers :
       \/ \E e \in Events : \/ Process(w, e) \/ CommitLost(w, e)
                            \/ Abort(w, e)   \/ Collide(w, e)
       \/ RecordFailure(w)
       \/ LoseFailure(w)

Dependencies == UNION { [cs -> 1..(1 + Cardinality(Events))] : cs \in SUBSET Contracts \ {{}} }

TaskNext ==
  \E t \in Tasks :
    \/ \E deps \in Dependencies : Register(t, deps)
    \/ StartReplanning(t)
    \/ \E id \in drifts \cup {NoDrift}, auto \in AutoChoices : Submit(t, id, auto)
    \/ Approve(t) \/ Reject(t) \/ Complete(t)
    \/ RunnerCheck(t) \/ RunnerSave(t)

WorkNext ==
  \/ \E c \in Contracts : \E r \in 1..latest[c] : PersistDependency(c, r)
  \/ \E w \in work : ApproveItem(w) \/ \E t \in Tasks : ClaimWork(t, w)

Next == RegistryNext \/ InboxNext \/ TaskNext \/ WorkNext

Spec == Init /\ [][Next]_vars

\* The change feed redelivers until the webhook answers, the worker loop polls
\* for as long as the coordinator runs, and a worker that caught an exception
\* goes on to record it.  Nothing is assumed of agents, operators or providers.
Fairness ==
  /\ \A e \in Events : WF_vars(Ingest(e))
  /\ \A w \in Workers : /\ \A e \in Events : WF_vars(Process(w, e) \/ Collide(w, e))
                        /\ WF_vars(RecordFailure(w))

FairSpec == Spec /\ Fairness
-----------------------------------------------------------------------------
(* Properties. *)

Inboxes == [status : InboxStatuses, attempts : Nat]

\* The types of the columns.  A contract that was registered and not yet
\* published is at revision 0.
LedgerTypeOK ==
  /\ latest \in [Contracts -> Nat]
  /\ retired \subseteq Contracts
  /\ outbox \in [Events -> ChangeEvents \cup {NoEvent}]
  /\ inbox \in [Events -> Inboxes]
  /\ failing \in [Workers -> Events \cup {NoEvent}]
  /\ faults \in 0..MaxFaults
  /\ status \in [Tasks -> Statuses]
  /\ binding \in [Tasks -> [Contracts -> Nat]]
  /\ drifts \subseteq DriftEvents /\ IsFiniteSet(drifts)
  /\ confirmed \in [Contracts -> SUBSET Revisions]
  /\ work \subseteq WorkItems
  /\ checked \subseteq Runners
  /\ claims \in [Tasks -> WorkItems \cup {NoWork}]

\* The columns hold values of their types, and every contract is published: the
\* shape every transaction of reconciliation.py, drift_worker.py and
\* contract_registry.py leaves behind.
TypeOK == LedgerTypeOK /\ latest \in [Contracts -> Revisions]

\* A task that is executing, reconciled or complete has no intervention left
\* open: the worker raises a drift and interrupts the task in one transaction,
\* and only an approval, which resolves every active drift, settles it again
\* (drift_worker.py:200-247, reconciliation.py:679-704).
SettledTasksHaveNoActiveDrift ==
  \A t \in Tasks :
    status[t] \in {"OPTIMISTIC_EXECUTING", "RECONCILED", "COMPLETED"}
      => ActiveDriftsOf(t) = {}

\* A task that must replan, or whose plan waits for an operator, has an active
\* drift: the plan that is approved always rebinds something.
InterruptedTasksHaveActiveDrift ==
  \A t \in Tasks :
    status[t] \in {"REPLAN_REQUIRED", "AWAITING_APPROVAL"} => ActiveDriftsOf(t) # {}

\* No plan moves a registered task's assumed revision backwards, although several
\* drifts of different revisions may be open when it is approved
\* (reconciliation.py:679-704).  The task of a work item is excepted: approving
\* the item rebinds it and leaves its drifts open (compatibility.py:1081-1088),
\* so that a plan for an older one may take the task back.
BindingsNeverRegress ==
  [][\A t \in Tasks, c \in Contracts :
       claims[t] = NoWork => binding'[t][c] >= binding[t][c]]_vars

\* What a task is bound to is a confirmed dependency row on a revision the
\* registry has published (the composite foreign key of migration 007, and
\* the lookups of persist_http_interface_dependency).
BindingIntegrity ==
  \A t \in Tasks, c \in Contracts :
    binding[t][c] # 0 => /\ binding[t][c] \in confirmed[c]
                         /\ binding[t][c] <= latest[c]

\* However often a change is announced, delivered and reprocessed, a consumer
\* has one obligation per event and one per (revision, dependency).
ObligationsUnique ==
  \A m, n \in work :
    \/ m.event = n.event
    \/ <<m.contract, m.revision, m.dep>> = <<n.contract, n.revision, n.dep>>
    => m = n

\* Whenever a running task is interrupted, the consumer also has compatibility
\* work for that contract revision: the two loops of the worker, over confirmed
\* dependencies and over affected tasks, never disagree.
DriftsAreBackedByWork ==
  \A d \in drifts : \E w \in work :
    w.contract = outbox[d.event].contract /\ w.revision = d.revision

\* Redelivery never puts an event back to RECEIVED or takes attempts away.
InboxNeverRewinds ==
  [][\A e \in Events :
       inbox[e].status # "ABSENT" =>
         /\ inbox'[e].attempts >= inbox[e].attempts
         /\ inbox'[e].status \in {"ABSENT", "RECEIVED"} => inbox'[e] = inbox[e]]_vars

\* The drifts one event has raised for one task.
DriftsBy(t, e) == { d \in DriftsOf(t) : d.event = e }

\* One event may interrupt a task again, after a late failure record overwrote
\* its PROCESSED, but only at the price of two attempts each time, and with
\* MAX_ATTEMPT_RETRIES = n no more than (n + 1) / 2 times: a change cannot keep an
\* agent replanning for ever, however it is redelivered, whichever workers race
\* for it and whatever they fail to record (drift_worker.py:85-99, 355-371).
ReinterruptionsAreBounded ==
  \A t \in Tasks, e \in Events :
    LET k == Cardinality(DriftsBy(t, e)) IN
    /\ 2 * k <= inbox[e].attempts + 1
    /\ k <= 1 \/ 2 * k <= MaxAttempts + 1

Settled(e) == \/ inbox[e].status = "PROCESSED"
              \/ inbox[e].status = "FAILED" /\ inbox[e].attempts >= MaxAttempts

\* Every committed change event is finally processed or exhausts its attempts,
\* and stays so, whatever the finitely many faults did to its workers.
EventsSettle ==
  \A e \in Events : outbox[e] # NoEvent ~> []Settled(e)

MustReach(e, t) ==
  outbox[e] # NoEvent /\ outbox[e].intervention /\ t \in Affected(e)

\* A running task bound below a committed intervention is interrupted, has
\* moved on, or the event has exhausted its attempts: no interleaving of
\* workers, redeliveries and faults forgets it.
AffectedTasksAreReached ==
  \A e \in Events, t \in Tasks :
    MustReach(e, t) /\ inbox[e].status # "PROCESSED"
      ~> \/ ~MustReach(e, t)
         \/ \E d \in drifts : d.task = t /\ d.event = e
         \/ inbox[e].status = "FAILED" /\ inbox[e].attempts >= MaxAttempts

-----------------------------------------------------------------------------
(* The refinement of Interventions. *)

PhaseOf(t) ==
  CASE status[t] = "NONE" -> "ABSENT"
    [] status[t] = "OPTIMISTIC_EXECUTING" -> "RUNNING"
    [] status[t] \in {"REPLAN_REQUIRED", "REPLANNING", "AWAITING_APPROVAL"} -> "HALTED"
    [] status[t] \in {"RECONCILED", "COMPLETED"} -> "SETTLED"

OpenOf(t) == { d.event : d \in ActiveDriftsOf(t) }

AnnouncedChanges == { e \in Events : outbox[e] # NoEvent /\ outbox[e].intervention }

Mesh == INSTANCE Interventions
          WITH Changes <- Events,
               announced <- AnnouncedChanges,
               phase <- [t \in Tasks |-> PhaseOf(t)],
               open <- [t \in Tasks |-> OpenOf(t)]

\* With manual approval the inbox, the workers and the operations on tasks keep
\* the promise of Interventions: an agent is halted by the very step that opens
\* an intervention, only a committed change that needs one opens it, and the
\* step that lets the agent go on closes all that are open.
ImplementsInterventions == Mesh!Spec

-----------------------------------------------------------------------------
(* What a document promises and the code does not keep: a run of its own    *)
(* finds a counterexample.                                                  *)

\* PROJECT_CHARTER.md:426: publishing a breaking revision creates work for the
\* affected confirmed consumers, so a provider of an active contract can always
\* publish its next one, whatever its consumers did with the earlier ones.
NextRevisionIsPublishable ==
  \A c \in Contracts \ retired, e \in Events :
    outbox[e] = NoEvent => KeysFree(NewObligations(e, c, latest[c] + 1))
=============================================================================
