# ContractMesh in TLA+

ContractMesh coordinates providers and consumers of HTTP contracts.  A provider
publishes a new revision of a contract; the coordinator turns the change into
events, interrupts the agents that were working against an older revision,
hands every consumer a compatibility obligation, and finally lets the new
release of a service go live.  This directory holds a TLA+ development of the
coordinator: nine specifications and an abstract one that the central one
implements, the TLC instances that model-check them, and TLAPS proofs of their
main safety properties.

```
Reconciliation.tla      MCReconciliation.tla      ReconciliationProofs.tla
Interventions.tla
CompatibilityWork.tla   MCCompatibilityWork.tla   CompatibilityWorkProofs.tla
Deployer.tla            MCDeployer.tla            DeployerProofs.tla
SlackNotifier.tla       MCSlackNotifier.tla       SlackNotifierProofs.tla
Differencer.tla
ContractRegistry.tla    MCContractRegistry.tla    ContractRegistryProofs.tla
Startup.tla             MCStartup.tla             StartupProofs.tla
PublicDemo.tla          MCPublicDemo.tla          PublicDemoProofs.tla
AgentRunner.tla         MCAgentRunner.tla         AgentRunnerProofs.tla
<Module>_<run>.cfg      PROJECT.json
```

`PublicDemo` and `AgentRunner` extend `Reconciliation`: their steps are its
transactions.  `ContractRegistry` extends `Differencer`.  A proof module extends
its specification; `PublicDemoProofs` and `AgentRunnerProofs` extend
`ReconciliationProofs` too, whose lemmas about each transaction they cite.  The
refinement of `Interventions` is in `ReconciliationProofs`, the theorems about
the differencer are in `ContractRegistryProofs`.

    tlc -config Reconciliation_core.cfg MCReconciliation.tla
    tlapm ReconciliationProofs.tla

## 1. The system

All durable state is in one CockroachDB database; the coordinator is one
FastAPI process (`src/coordinator/app.py`) whose lifespan starts the drift
worker, the dispatcher and the notifier as background loops.
Every operation runs its SQL in one SERIALIZABLE transaction through
`run_transaction` (`src/coordinator/db.py`), which repeats the callback on
SQLSTATE 40001.

| Component | Source | State it keeps | Operations |
|---|---|---|---|
| Contract registry | `contract_registry.py` | `service_contracts`, `service_contract_revisions`, `contract_inventory_publications`, outbox rows | publish a revision, retire, review an inventory |
| Change feed and inbox | `app.py` webhook, `drift_worker.py` | `event_inbox` | idempotent ingest of at-least-once deliveries |
| Drift worker | `drift_worker.py` | inbox status and attempts, `drift_events` | claim, process, record a failure |
| Reconciliation | `reconciliation.py` | `active_agent_tasks`, `task_contract_dependencies`, drifts | start replanning, submit, approve, reject |
| Agent runner | `agent_runner.py` | task status, checkpoints, worktrees | the scripted workflow of two agents: publish, register, milestones, replan, test, submit |
| Compatibility work | `compatibility.py` | `compatibility_work_items`, `harness_registrations`, tasks | create, claim, checkpoint, result, incident, approve, complete, cancel, fail, expire |
| Dispatcher | `compatibility_dispatcher.py` | dispatch state, attempts, leases | lease, webhook, record, recover |
| Deployer | `deployer.py` | directories, `.cutover_journal.json`, `deployments` | gate, snapshot, test, cutover, restart, poll, roll back, recover |
| HTTP interface dependencies | `http_dependencies.py` | dependency rows and their confirmation | declare, confirm, reject |
| Slack notifier | `slack_notifier.py` | `slack_notification_deliveries`, `slack_notification_attempts` | claim with a lease, post, record, back off |
| Schema differencer | `differencer.py` | none | classify two schemas |
| Public demo | `public_demo.py` | `public_demo_runs`, one row | launch, supersede a stale run, drive the others end to end |
| Startup | `app.py` lifespan, `db.py` | `schema_migrations` | apply migrations, recover a cutover, start the workers |
| Onboarding, discovery, CLI, MCP server | `onboarding.py`, `dependency_discovery.py`, `service_registry.py`, `cli.py`, `mcp_server.py` | `microservices` rows | thin clients of the operations above |
| Receipts, configuration, frontend, scripts, demo services | several | none that decides anything | presentation, tooling, sample services |

`PROJECT.json` lists the components with their exact files and what is modelled
of each.

How they interact:

* **Registry → inbox → worker.**  Publishing writes the revision, its outbox
  event and the consumers' work items in one transaction.  The change feed posts
  the outbox row to the coordinator, possibly several times and in any order
  with respect to other rows.  The worker claims an inbox row with
  `FOR UPDATE SKIP LOCKED` and, in the same transaction, raises drifts,
  interrupts tasks, and creates work items for dependencies confirmed since.
* **Worker → tasks.**  A drift puts a task into `REPLAN_REQUIRED`; its agent
  replans and submits a plan; an operator approves or rejects it, or the demo
  configuration reconciles at once.  Both rebind the task's dependencies.
* **Work items → harnesses.**  The dispatcher offers a work item to its harness
  (a webhook, or a record for polling); a claim creates an agent task bound to
  the old revision; the harness reports evidence or an incident; the operator's
  approval confirms the dependency at the new revision and rebinds the task.
* **Outbox → Slack.**  The notifier follows the outbox on its own, by
  `created_at`, and never writes to what the other components read.
* **Demo and agents → everything.**  The public demo and the scripted agents run
  inside the coordinator and call the operations above one transaction after the
  other, while the feed, the background workers, the dispatcher and an operator
  act on the same rows.  A superseded demo run may still be alive.
* **Coordinators → one database.**  Nothing keeps two coordinators, perhaps of
  different images, from starting at once; the primary key of the ledger of
  migrations decides who applied a script.
* **Compatibility → deployer.**  A promotion asks whether unresolved
  obligations block the release, stages a snapshot, tests it, swaps directories
  under a write-ahead journal, restarts the service, polls it and rolls back.

What is hard about it:

* several workers, harnesses, dispatchers, operators and promotions interleave,
  and an item may move while a webhook call is in flight outside any
  transaction;
* deliveries are duplicated and reordered, a commit may succeed although its
  caller sees an exception, and failures are recorded in transactions of their
  own, without a look at the state they overwrite;
* several breaking revisions may be open for one task when a plan is approved;
* a crash may fall between any two file operations of a cutover, and services
  outlive the coordinator that started them;
* publishers know nothing of each other, so revisions arrive in any order and a
  revision may be compared with a predecessor that is not there yet;
* a run of the demo looks something up in one transaction and creates it in
  another, and what it waits for may be done, or undone, by somebody else;
* a state written by one handler is a precondition of another, so a long
  sequence of legal calls can reach a state no handler expects.

What makes each part correct: the inbox never rewinds and every event settles
(feed, worker); an affected task is interrupted once, and a settled one has no
open drift (worker, reconciliation); bindings only point at published, confirmed
revisions and never move back (reconciliation, dependencies); a consumer has
one obligation per change and dependency (registry, worker); a consumer whose
calls a revision refuses is told (registry, differencer); an obligation
becomes one agent task and is verified only with evidence, confirmation and
rebinding (compatibility); queued work leaves the queue (dispatcher); only
tested releases go live, the previous one can be restored, and the reported
health is that of the new release (deployer); a notification is settled once
and for all, in agreement with its recorded attempts (notifier); overlapping
demo runs leave one revision, one obligation and one task, and tell the truth
about it (demo); an interrupted agent's plan answers the interruption (agents);
a migration takes effect once and a coordinator serves on the schema of its own
files (startup).  `PROJECT.json` lists, under
`hazards`, each place where this can go wrong and the properties aimed at it.

## 2. The specifications

### Reconciliation

From publication to reconciliation; one action per transaction.

| State | Columns |
|---|---|
| `latest`, `retired`, `outbox` | newest `revision_number`, `lifecycle_state`, committed change events |
| `inbox` | `event_inbox.processing_status`, `attempt_count` |
| `failing`, `faults` | a worker between its rollback and `_record_event_failure`; database faults so far |
| `status`, `binding` | `active_agent_tasks.status`, `task_contract_dependencies.assumed_revision` |
| `drifts` | `drift_events`, with `created_at` as an order |
| `confirmed` | revisions with a CONFIRMED `http_interface_dependencies` row |
| `work` | `compatibility_work_items`, seen through their two unique keys |
| `checked` | a runner between its drift query and its checkpoint |
| `claims` | the item whose claim created a task (`compatibility_work_items.task_id` names the newest) |

`Publish`, `Retire` and `ReviewMissing` are the registry; `Ingest` the feed;
`Process`, `CommitLost`, `Abort`, `Collide`, `RecordFailure` and `LoseFailure`
what a worker's transaction can do and what follows when it fails; `Register`,
`StartReplanning`, `Submit`, `Approve`, `Reject`, `Complete` the task
operations; `RunnerCheck` and `RunnerSave` the two transactions of the runner's
checkpoint boundary; `PersistDependency` the confirmation of a dependency
without a task; `ClaimWork` and `ApproveItem` the two operations on compatibility
work that touch tasks.

Two operations write `assumed_revision` of an existing task.  The approval of a
plan (`Approve`, or an automatic `Submit`) moves the task to the revision of one
of its drifts, whatever it was bound to (`reconciliation.py:456-464`).  The
approval of a work item (`ApproveItem`) moves the item's task to the item's
revision if the task still is on the row the item was created for, and looks at
neither its status nor its drifts (`compatibility.py:1081-1088`).  Both writers
are in `Reconciliation` and in `CompatibilityWork`; each of the two modules has the
states that guard one of them in detail and lets the other happen at any time, which
includes every time the code allows.  Here any offered item may be claimed by a new
task, also again, and approved; there a plan may be approved for any open task.
`AgentRunner` and `PublicDemo` use the operations of `Reconciliation`.

Abstractions.  The differencer's verdict is the Boolean `intervention` of
`Publish`, and revisions are published in order; `Differencer` and
`ContractRegistry` lift both.  `SKIP LOCKED` lets
workers overtake each other, so any claimable event may be processed next.  All
consumers' tasks share one service, repository and file, so a dependency is a
(contract, revision) pair.  Authentication and the plan's text are left out.  A
submission without passing evidence is refused and changes nothing.
The retry on 40001 repeats a rolled-back callback and is invisible.

### Interventions

The abstract promise behind `Reconciliation`: changes are announced, a step may
halt tasks that are under way, a halted task goes on only when one step settles
all that is open for it, and a settled task is not interrupted again.  There
are no inbox, drift rows, plans or approvals in it.  `Mesh` in
`Reconciliation` gives the mapping: the announced changes are the outbox rows
that need an intervention, a task's phase is read off its status, and what is
open for it are the changes of its active drifts.  `ImplementsInterventions`
says that, with manual approval, every transaction is one step of
`Interventions` or a stutter; in particular the commit that makes a plan
approved closes everything that is open, and no crash or redelivery separates
the two.

### CompatibilityWork

One dependency's work items, the harnesses and the dispatcher.  `state`,
`owner`, `attempts`, `current` and `evidence` are columns of the item, `tasks`
the agent tasks created by claims, `rows` the confirmed revisions, and `lane`
what a dispatcher holds between the lease, the webhook call and the record of
its outcome.  `Dispatch`, `Answer`, `RecordAccepted`, `RecordAcceptedFails`,
`RecordRefused`, `LoseDelivery` and `RecoverStale` are the dispatcher; `Claim`,
`Checkpoint`, `Result`, `Incident` and `CompleteTask` the harness requests;
`Create`, `Approve`, `Complete`, `Cancel`, `Fail` and `Expire` the rest.  `Replan`
is a plan approved, or reconciled automatically, for a task of an item; the drifts
and statuses that precede it are in `Reconciliation`.

Abstractions.  A task may be replanned to any revision of `Changes` for as long as
it is not completed, before, while and after its item is decided on.  Time: any set of DISPATCHED items may be the stale ones, because
a lease's age is not compared with anything else.  A webhook call that ends in
a failure may have reached the harness.  An endpoint's authentication and its
operation are one step.  `SUPERSEDED`, which no code writes outside migration
015, is left out, and so is the event written beside each change of state.

### Deployer

`promote_deployment` as a coroutine, plus startup, recovery and crashes.
Between two `await`s a coroutine is not interleaved with others but can be cut
off by a crash, so each file operation is an action (`Intend`, `ClearBackup`,
`MoveLive`, `MoveStaged`, `RemoveLive`, `RestoreBackup`) and `Turn(p)` keeps
the other promotions out of a section.  `live`, `backup` and `staged` are the
directories, `journal` the single journal file, `row` and `version` the
`deployments` row, `prior` the local `has_prior_live`, `serving` and `owned`
what runs on a port and whether the supervisor knows it.  A release is the
promotion that staged it; `Partial` is a directory that `rmtree` removed only
in part.  `overlapped`, `crashes` and `faults` are history and bounds.

Abstractions.  The gate's verdict and the tests' result are inputs, as is
readiness; `skip_test_gate` is not reachable through the endpoint.  The journal
is written with fsync and replace, so it is never torn.  Demo mode, in which a
failed startup recovery does not stop the process, is excluded.

### SlackNotifier

The notifier loop against its two tables: `status` and `attempts` are columns
of the delivery row, `leased` and `waiting` say whose lease or backoff has not
run out, `ledger` is the attempts table, and `lane` is the event the loop is
busy with.  `Claim` is the first transaction, `Answer` the POST, and `Record`
the second transaction.  What may go wrong with the latter is spelled out,
because the exception handler of `notify_one` encloses it and calls it again:
`RecordFails` (rolled back), `RecordUnacknowledged` (committed, but the caller
sees an exception or is gone), `RecordCollides` (the second call meets
UNIQUE(event_id, attempt_number)) and `Lose` (the process dies, or the second
call rolls back too).  `LeaseExpires` and `BackoffEnds` are time.

`Claim` writes through the table's CHECK: `mark \in ValidStatuses` is false for
the status of ignored events, so claiming one is a transaction that aborts and
leaves everything as it was.  Abstractions: one coordinator process, hence one
lane; a lease may run out at any moment; the message's text is left out.

### Differencer and ContractRegistry

`Differencer` has no variables: `Verdict` is what `compute_schema_diff` answers,
and `Breaks` is what it is for: some call that the old interface serves and the
new one refuses.  `Masked` describes the one way past the rules (see
divergences).  An interface is its named inputs with type, enum, bound and
requiredness, its response statuses and its security alternatives.  One lower
bound stands for all bounds; formats, patterns and the contents of a response
body are left out.

`ContractRegistry` is the ledger on top of it: `PublishFirst` and `PublishNext`
publish any free revision number with the verdict against its predecessor, or
REVIEW_REQUIRED if that is unknown; `Retire` writes the tombstone, `Inventory`
the reviews of contracts a service no longer lists.  `Register`,
`BindExisting`, `ConfirmDiscovered` and `Approve` are the operations on
dependency rows.  `verdicts` keeps, per revision, the classifications its events
carry, `work` the items of breaking events (items of a review are never
claimable, so no approval follows from them), `bound` the rows of tasks.
Repetitions and refusals change nothing and are left out.

### Startup

`lifespan` and `init_db` of several coordinators on one database.  `ledger` is
`schema_migrations` with its checksums and `ran` counts how often a script took
effect; `seen` is the snapshot `get_applied_migrations` took at the start and
`next` the file the loop is at.  `Apply` is the transaction of a script and its
row, `LoseRace` its primary-key violation, `RejectChecksum` the comparison,
`Fault` any failure including a commit whose reply is lost, `Halt` a crash or a
shutdown.  In demo mode an exception is logged and startup goes on.  Recovery of
a cutover succeeds or fails here; what it does is in `Deployer`.

### PublicDemo

`row` is the singleton of `public_demo_runs`, `pc` and `mine` the program point
and `result["task_id"]` of each run, `registered` and `item` the demo's harness
and work item.  Each `_ensure_*` function is two steps, the lookup (`Lookups`)
and the creation, as they are two transactions in the code.  `Launch` may replace
a RUNNING row at any moment, because whether it is stale is time and a
stale run may be alive; `OwnsRow` is the WHERE clause with which a superseded run
finds out.  `Drain` makes the run a drift worker until it is offered no row.
`Fault` and `Goto` roll a transaction back or lose its acknowledgement, `Crash`
ends all runs.  Feed, background workers, dispatcher and operator are
`Feed`, `WorkerStep`, `Offer`, `RecoverOffer`, `DecideOnPlan`, `ApproveWork`,
`CompleteWork` and `Withdraw`, which is what failing, cancelling, expiring or an
incident does to the item: its guard is that of `fail`, which has none.  `Claim` and
`ApproveWork` are `ClaimWork` and `ApproveItem` of `Reconciliation`, with the state
of the item.

A revision 1 that appears between lookup and publication is taken for the baseline
the run would have published; one with another `source_commit`, which no run
writes, would make the run raise.

### AgentRunner

A workflow is agent A's two publications and agent B's task between and after
them.  `pc` is the workflow's next step, `own` the event it announces by
itself beside the one of the publication, `plan` and `since` the drift its plan
answers and how many there were when replanning started.  `CheckFirst`,
`SaveFirst`, `CheckSecond`, `SaveSecond` are the milestones, each a drift query
and a checkpoint in two transactions; `Replan`, `Adapt` (the worktree and the
tests, an input) and `SubmitPlan` follow.  Background workers, the feed, an
operator are `Others`.  `Spare` leaves each workflow an event to announce when a
provider goes on to publish: the set of events is a bound, and running out of it
is not something the code can meet.

## 3. Model checking

| Run | Instance | States | Asks |
|---|---|---|---|
| `core` | 1 task, registered or claimed, 1 contract, 2 changes, 2 workers, 3 attempts, 1 fault, manual approval of plans, approval of work, fair | 205 k | settled tasks have no open drift, interrupted ones have one; re-interruptions by one event are bounded by its attempts; bindings of registered tasks never move back; every event settles; every affected task is reached; implements `Interventions` |
| `permissive` | 1 runner task, 2 contracts of one provider, 2 changes, 1 worker, 1 fault, either approval mode, approval of work, task ids reused | 951 k | what holds in every deployment: bindings, drifts backed by work, monotone inbox |
| `work` | 1 obligation, a polling and a webhook harness, 1 dispatcher, 3 claims, plans for a later revision, 2 faults, fair | 291 k | verified work is bound unless replanned; the current task stays open; polled work is claimed once and not revived; queued work leaves the queue |
| `deployer` | 2 promotions of one service, 1 of a fresh one, 2 at once, 1 crash, 1 fault | 219 k | only tested releases; the journal covers a missing live directory; health and rollback |
| `notify` | 3 events, the newest of them quiet, 3 attempts, 2 faults, fair | 38 k | deliveries agree with attempts; bounded posts; outcomes are final; every alert settles |
| `demo` | 2 runs, 2 tasks, 2 changes, 1 background worker, 1 mishap, fair | 285 k | one revision, obligation and task whatever overlaps; COMPLETED tells the truth; a superseded run is silent; only withdrawal undoes an approval; a run reports |
| `agents` | 2 workflows on one contract, 3 changes, 1 background worker, 1 mishap, either approval mode, fair | 419 k | an abandoned task still shows its interruption; plans answer the last interruption; workflows end |
| `registry` | 1 contract with revisions up to 3 and three schemas, 1 that may replace it, 1 inventory | 409 k | callers are warned; the newest revision is active; replacements are acyclic; bound rows are confirmed |
| `startup` | 2 coordinators of one image, one of them in demo mode, 1 of an older image with an edited file, 3 migrations, 2 faults, fair | 65 k | migrations run once and in order; a served schema is one's own; coordinators that agree serve again and again |

The type invariants of `Reconciliation`, `Deployer`, `SlackNotifier`,
`ContractRegistry` and `Startup`, and `ObligationsUnique` of `Reconciliation`
are theorems and are not checked a second time.

Why the bounds are enough.  Two change events are the least with which two
drifts are open for one task or two work items share a key.  Two workers can
hold two events at once.  Tasks of one contract meet only in the rows of their
events, so one task shows what the properties of `core` and `permissive`
are about; that they hold for any number of tasks, contracts and workers is
proved.  One database fault suffices to separate a commit from its
acknowledgement.  Three claims are one more than a webhook obligation
needs to be claimed by both harnesses.
Three promotions give two versions of one service and a journal written for
another.  Three attempts leave one between the first and the last, and two
faults lose a record and its repetition.  `MaxDispatches` of `work` is above
anything its faults and attempts can reach, so it never stops a lease.  `MaxTaskless`
bounds the revisions that are confirmed without a task of the model: 1 gives
the row every consumer starts with, from which work items, and claimed tasks,
arise; 0 is for the runs whose own scenario confirms that row.  The revision of
`Changes` is one after the item's own; plans may come before, while and after the
item is approved.  Two demo
runs are a run and its successor; a third would find what the second found.
Two workflows meet each other's publications, events and workers; with three
events in all, `WorkflowsEnd` speaks of a provider that publishes once more, not
of one that never stops.  Three
revisions are the least with a gap and with a late one between two others.  The
schemas of `registry` are one
that serves everything, one that breaks it and one that masks an enum with an
option.  Three migrations make a prefix, a file that two coordinators race for
and one the older image does not have.  Symmetry sets hold
only values that start alike and are never ordered; the fair runs use none.
Deadlock is not looked for: tasks, events, items, runs and promotions are finite
sets and all end, the counted mishaps run out, and an unrecoverable journal
stops a deployer for good.

`HealthyReleasesAreServed`, `LiveIsNewestHealthy`
and `JournalCoversMissingLive` carry a condition (no fault, no crash, no
overlap).  It is not there for convenience: drop any one of the conjuncts and
TLC finds a counterexample in the same instance.

Fairness.  `Reconciliation` assumes weak fairness of `Ingest` (the feed
redelivers until the webhook has answered), of each worker's processing of an
event and of recording a failure (a `while` loop and an exception handler).
`CompatibilityWork` assumes weak fairness of the webhook's end (it has a
timeout) and of recording it, and strong fairness of leasing and recovering
each item: the loop visits recovery and the queue in turn, oldest first,
so an item cannot be passed over for ever although it leaves and re-enters the
queue.  `SlackNotifier` assumes weak fairness of the loop's own steps, of the POST
(a timeout of five seconds) and of time.  `PublicDemo` and `AgentRunner` assume
that each run or workflow, a coroutine that awaits one transaction after the
other, takes its steps, and nothing of the workers beside it.  `Startup` assumes that a
started coordinator goes on and that somebody starts one that is down.  Nothing
is assumed of agents, harnesses, operators, visitors or providers.

### Divergences

Three runs check what a doc or a comment says and end in a counterexample.

| Run | What is promised | What happens |
|---|---|---|
| `v_publish` | a breaking revision creates work for all confirmed consumers | two confirmed rows of a consumer share one idempotency key, and publication fails (`compatibility.py:303`) |
| `v_quiet` | breaking changes are notified, others are marked as ignored | the mark violates a CHECK, so a non-breaking change blocks every later notification (`slack_notifier.py:174`) |
| `v_differ` | unknown changes are reviewed, never silently safe (`README.md:111`, `differencer.py:187`) | an optional addition makes the differencer take the whole difference for additions, and an enum put on a field or a replaced security scheme goes through as NON_BREAKING (`differencer.py:255`) |

Seen while modelling, without a run of their own.

* *Tasks and drifts.*  Approval resolves all drifts of a task but rebinds by the
  first row returned, which may be the older one (`reconciliation.py:694`).  A
  late failure record sets a PROCESSED event to FAILED and it runs again, which
  raises a second drift for a task that is replanning by then
  (`drift_worker.py:355`); a lost commit acknowledgement is one way there, a
  worker that collided while another one committed the event is another, and
  needs no fault (`ReinterruptionsAreBounded` says how often it can happen).  An automatic submission
  with an unknown `drift_id` falls back to another drift of the task, updates
  none, and leaves the task's own drift active (`reconciliation.py:526`).  The
  runner's checkpoint overwrites the status of an interruption that commits
  between its two transactions (`agent_runner.py:235`; the drift row stays, which
  is `AbandonedTasksStayInterrupted`).  Rebinding a task with two contracts of one
  provider violates a composite foreign key (migration 007).
* *Work.*  A failed delivery recorded late requeues a claimed item of a
  webhook harness, which is then claimed twice (`compatibility_dispatcher.py:77`).
  `fail`, cancellations and incidents overwrite VERIFIED, and `fail` also COMPLETED
  work (`ApprovalsAreFinal` says that nothing else does).  Items
  created for review, and webhook items acknowledged but never claimed, have no
  way back into the queue; the work of a disabled harness stays with it
  (`compatibility_dispatcher.py:34`); the dispatch count of a polled item has no
  limit.
* *Two writers of a binding.*  Approving a work item leaves the active drifts of its
  task as they were.  If a late event of revision 2 has interrupted the task of an
  item of revision 3, the operator approves the item (binding 3) and then the
  plan, and the task is back at 2: without its antecedent, `BindingsNeverRegress`
  fails in `core` in this way.  In the other order, or if the plan answers a later
  revision, the item's UPDATE finds no row (`compatibility.py:1085`) and the item
  is VERIFIED while its task is bound elsewhere: without its second disjunct,
  `VerifiedWorkIsBound` fails in `work`.
* *Registry.*  Out-of-order publication leaves a late lower revision active
  beside the newest one (`contract_registry.py:598`); if it is breaking, its work,
  once approved, rebinds the consumer to the lower revision.  Approval copies the
  old declaration to the new revision without the required-field check of a
  registration.  A dependency may be declared at any existing revision, without
  a warning that a newer one exists.  An inventory review at a revision that
  already has work makes no new item, although it emits its event
  (`README.md:453`).  Bounds of parameters are only seen as an unstructured change.
* *Deployer and startup.*  A crash inside the rollback's `rmtree` leaves a partial
  live directory that recovery takes as whole (`deployer.py:291`,
  `deployer.py:1126`).  The compatibility gate is read minutes before the cutover
  (`deployer.py:992`).  Service processes outlive a crash, and the next supervisor
  does not know them (`deployer.py:358`).  A crash leaves the deployment row
  VALIDATING for ever (`deployer.py:985`).  A promotion that fails after
  allocation still consumes a reload version.  The journal stays IN_PROGRESS after
  a successful promotion, so the next start restarts the service it names.  A
  coordinator in demo mode serves although its migrations failed.
* *Demo.*  A run whose change is drained by a background worker before its own
  task exists finds no drift and ends FAILED (`public_demo.py:424`), where
  `README.md:297` promises the whole sequence.

## 4. Proofs

Each proof module extends its specification and TLAPS; the theorems hold for
every value of the constants that satisfies the named ASSUMEs.

**ReconciliationProofs.**  `TypeInv` adds to `TypeOK` that only committed
changes reach the inbox and that a worker records failures only of events it
claimed there; it is inductive (`TypeCorrect`).  `LineageInv` states where every
revision comes from: change events and confirmed rows are at or below `latest`,
a drift has the revision and provider of its event and its task is bound to that
event's contract, a work item is about a published revision (`WorkIsPublished`,
for its approval confirms that revision and may bind a task to it), and a binding is
a confirmed row.  It is needed because
rebinding goes through the provider of a drift: `RebindMovesOneContract` shows
from it, and from the composite foreign key, that exactly the drift's own
contract moves.  `BindingsAreSound` is its last conjunct.  `NoDuplicateObligations`
follows from the freshness of new work, `DriftsAreBacked` from work and outbox
rows being immutable once written, `InboxIsMonotone` from types alone.
`TypeInv` is split so that it can be used elsewhere: `LedgerInv` holds all of it but
that every contract has a revision, which `Init` of `Reconciliation` promises and
a clean database does not; `PublishStep`, `InboxStep` and `TransactionStep` keep it,
whatever the rest of the state, and `LedgerIsKept` collects them.

`BoundedReinterruptions`: the bound by attempts is not inductive, since handling
an event adds a drift and one attempt, while the bound asks two for each drift.
`AttemptsInv` counts the missing one in advance: a PROCESSED row is one attempt
short, and only a failure record, which adds it, makes the row claimable again.
An event that was not handled yet has used no attempt, and a claim below
`MAX_ATTEMPT_RETRIES` gives the second bound.

`Inv`, under `ManualDeployment` (no automatic reconciliation, no reuse of task
ids, no runner), relates each task's status to its open drifts.  The two
properties of `core` are not inductive: an approval needs to know that no open
drift is behind the binding of a registered task (`OpenDriftsAreAhead`, which
fails for the task of a work item), and a resubmission that the
drifts of a replanning task are all still open (`ClosedDriftsAreFinal`: only an
approval closes one, and an approved task is not replanned).  `SettledTasks`,
`InterruptedTasks` and `ForwardOnly` follow.  The assumption is
needed: with each of the three features TLC finds a property of `core` violated.

`Refinement` shows that `Reconciliation` implements
`Interventions` under `ManualDeployment`.  The initial states map, and from a
state of `Inv` each transaction maps: publications and retirements to
`Announce`, the handling of an event to `Interrupt` of that change, a
registration to `Join`, an approval to `Settle`, a completion to `Finish`,
starting to replan to `Halt` or a stutter, the claim of a work item to `Join`,
everything else to a stutter.  `Inv`
is needed for the approval: it settles only if the task has something open
(`InterruptedTasksHaveActiveDrift`), and interruptions only meet well-typed
rows.

**CompatibilityWorkProofs.**  `BoundInv` adds to `VerifiedWorkIsBound` and
`CurrentTaskIsOpen` that an item awaiting approval has evidence, that every task is
bound to a confirmed row, which is the assumed or the item's own one unless the
task was replanned, and that an absent item has no task.  A claim numbers its task by counting those there are, hence the
lemma `ClaimsAreCounted`.  `QueueInv` says what a
dispatcher may hold: a delivery is of an item that a webhook harness owns, and a
claimed item that none owns is outside the queue.  Late records therefore never
touch polled work, which gives `ClaimedOnce` and `NotRevived`.

**DeployerProofs.**  `TypeSafety` by cases on the actions.  `GateInv` follows a
release from its snapshot through every directory and process, and
yields `GateHolds` for any number of overlapping promotions and crashes.
`SequentialInv` gives, for each program point of the only promotion in
progress, what the directories and the journal hold; with `DownIsIdle` (no
promotion is in progress while the coordinator is down) it yields
`JournalIsAhead`.  `HealthyIsServed` needs the process beside the directory:
`ServedInv` says that, until a crash, every running process is one the supervisor
knows, and that without an overlap the release is live from its cutover and
served from its restart to its verdict.  `FailedPromotionsLeaveNoTrace` needs to
know where the release that was live is while it is not live: `CleanOf` says that
until the verdict the backup holds the newest healthy one, `CleanInv` adds that
otherwise it is live and that recovery has nothing to do outside a cutover
(`NothingToRecover`), and a row turns HEALTHY last (`VerdictIsLast`).

**SlackNotifierProofs.**  `IInv` adds to the checked invariants that a busy lane
holds the last attempt of its event, unrecorded unless the handler repeats the
call (`LaneIsLast`), that a delivery in progress is ahead of its recorded
attempts (`LedgerIsBehind`), and what each status says of the counter
(`Counted`).  From these, a record that commits always meets a DELIVERING row
(`WriteIsFirst`), which is why repeated records reopen nothing.  `LedgerAgrees`,
`BoundedPosts` and `FinalOutcomes` follow.

**ContractRegistryProofs.**  `SafeVerdictsAreSafe`: if a revision is NON_BREAKING by the
rules and nothing is masked, every call its predecessor served is served.  Names,
values, types and grants are arbitrary sets.  `DeclarationsOnlyRaise` is why the
registry may leave the publisher's word out of its argument.

`RegistryInv` says what a ledger holds in each state of a
contract's life, that the newest revision is active, that only retired contracts
are replaced, and that a revision without an intervention was compared with its
predecessor and found safe, or masked (`SilenceIsJustified`).  `Warned`: take the
first revision after *k* that refuses a call that *k* served.  If it raised no intervention, it
was compared with its predecessor, which is therefore published and still served
that call, and `SafeVerdictsAreSafe` says the step between them is masked; the
least of a set of naturals makes the choice (`NatMin`).
`AcyclicReplacement`: a replacement is active when it is named, and an active
contract has no replacement of its own (`OnlyRetiredAreReplaced`), so the new
link closes no cycle.  `BoundRows` needs that a row other than NONE, and a work
item, name a published revision (`RowsAreRecorded`).

**StartupProofs.**  What a coordinator saw in the ledger is still there
(`SnapshotsAreTrue`), and what its loop has passed is recorded with the checksum of
its own file (`PassedIsRecorded`), because rows of the ledger never change
(`Grows`).  `OnceInOrder` and `OwnSchema` follow for any number of coordinators,
images, migrations and faults.

**PublicDemoProofs.**  `DemoInv` is a chain from the breaking revision to the
completed row.  `OneIntervention`: a run publishes it only when the newest
revision is the first, hence one event intervenes.  `OneObligation`: the unique
keys then leave one obligation, which is the item.  `OneTask`: the item's claim
makes the only task, and every run past the claim carries on with it.
`PlansAnswerDrifts`: a run plans for a drift it has seen, drifts are never
deleted, and evidence follows a plan.  `TheDemoIsBounded` and
`CompletionIsTruthful` follow from `DemoInv`; a withdrawn item keeps its task and
its evidence, so they survive what people do to it.  `ApprovalsStand` and
`SupersededRunsKeepQuiet` are proved of each step.

**AgentRunnerProofs.**  The two properties of `agents` say little about the status
in between, and the runner's checkpoint writes it blindly, so `RunnerInv` ties each
task to how far its workflow is: which statuses a program point allows
(`TasksFollowWorkflows`), that a task is at revision 1 until it is reconciled and
at 2 or later from then on (`BindingsFollowTasks`, which rests on every event
being about a revision after the first, `ChangesOfBilling`), that a task which is
to replan, replans or waits has an open drift (`PlansHaveReasons`), and that the
own event of a workflow is a breaking one and its task is registered
(`OwnEventsAreOfTasks`).  A handled event therefore finds a task either
interruptible and at revision 1, or interrupted, or reconciled, which is
`InterruptionsAreNeverLost`.  For `PlansAreNeverStale` the drifts must have an
order (`DriftsAreOrdered`: no two drifts of a task are of one moment, so resolving
them loses none), and `PlansAreCurrent` says that a task which is replanning or
awaits approval has no drift later than the start of its plan: an event would have
taken it out of these statuses.  The proof first reduces every action to a way
in which a workflow goes on (`GoesOn`) and to one transaction or none
(`RunnerMove`), then to what becomes of one task (`TaskGoesOn`).  `DemoInv` and
`RunnerInv` were model-checked on the instances of section 3 before they were
proved.

Assumptions are those the modules state (sets disjoint, bounds natural numbers,
files of an image numbered without gaps) and `ManualDeployment` where it is named.

Only model-checked: the liveness properties, because fairness and ENABLED are
out of the prover's reach.  Every invariant and every action property of a
passing run is stated by a theorem.

## 5. Plan

Done: Reconciliation with its refinement of Interventions, CompatibilityWork,
Deployer, SlackNotifier, Differencer, ContractRegistry, Startup, PublicDemo,
AgentRunner.  Left:

1. **Coordination**: the deployment gate (`deployer.py:992`) beside the approvals
   of work and of plans whose outcome it reads.
2. Process identities in `Deployer`: services that outlive a coordinator.
3. An abstract life of one obligation that `CompatibilityWork` implements, with
   its refinement proved from `BoundInv` and `QueueInv`.

Not modelled, and why:

* the database's own serializability, the connection pool and the bootstrap
  schema: external, or without a state that the models depend on;
* embeddings, vector search and the checkpointer of `memory.py`, but for the
  saving of a checkpoint: calls to external services whose failure is an input
  of `AgentRunner`;
* onboarding, discovery, CLI and MCP server: thin clients and source analysis;
  every change of state they cause is an operation modelled above;
* receipts: signed and stored on a best-effort basis, never read to decide;
* authentication, dashboards, rendering, configuration, frontend, scripts and
  demo services: presentation, tooling and samples.
