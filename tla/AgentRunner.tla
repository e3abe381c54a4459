---------------------------- MODULE AgentRunner ----------------------------
(***************************************************************************)
(* The scripted agents of agent_runner.py: agent A publishes two revisions *)
(* of a contract, agent B registers a task on the first one, works between *)
(* checkpoints, finds at its second milestone that it was interrupted,     *)
(* adapts its worktree, runs the tests and submits the plan.               *)
(*                                                                         *)
(* A workflow is named by its task.  Its steps are transactions on the     *)
(* rows of Reconciliation, taken while the change feed, background drift   *)
(* workers, other workflows and an operator work on the same rows.  What a *)
(* database fault does to a worker is Reconciliation's subject; here the   *)
(* workflows are disturbed, by one another and by their own failures.      *)
(***************************************************************************)
EXTENDS Reconciliation

CONSTANTS
  Billing,      \* the contract POST /v1/charges of billing-service
  Background,   \* drift workers other than the workflows themselves
  MaxMishaps    \* bound: steps of a workflow that raise

ASSUME RunnerAssumption ==
  /\ Billing \in Contracts
  /\ Runners = Tasks
  /\ Workers = Tasks \cup Background /\ Tasks \cap Background = {}
  /\ MaxMishaps \in Nat

VARIABLES
  pc,       \* what each workflow does next
  own,      \* inbox_event_id: the event a workflow announces by itself
  plan,     \* drift_info["drift_id"] of the second milestone
  since,    \* how many drift_events there were when replanning started
  mishaps

runnerVars == <<pc, own, plan, since, mishaps>>
allVars    == <<vars, runnerVars>>

Steps == {"register", "check_1", "save_1", "publish_2", "announce",
          "ingest", "drain", "check_2", "save_2", "replan", "adapt", "submit"}

Working(t) == pc[t] \in Steps

Goto(t, step) == pc' = [pc EXCEPT ![t] = step]

-----------------------------------------------------------------------------
(* How a workflow stops early. *)

Raise(t) == Goto(t, "raised") /\ UNCHANGED <<vars, own, plan, since, mishaps>>

\* A git, file or memory operation raises, a transaction rolls back, or the
\* process is stopped: the workflow ends, the rows stay.
Fault(t) ==
  /\ Working(t) /\ mishaps < MaxMishaps
  /\ Goto(t, "raised")
  /\ mishaps' = mishaps + 1
  /\ UNCHANGED <<vars, own, plan, since>>

-----------------------------------------------------------------------------
(* Agent A. *)

\* run_agent_a_publish_revision_1 starts a workflow.  The event of a first revision interrupts
\* nobody and is left out; a repeated publication from the same commit is a
\* no-op, one from another commit is refused.
PublishFirst(t) ==
  /\ pc[t] = "idle"
  /\ \/ /\ latest' = [latest EXCEPT ![Billing] = IF @ = 0 THEN 1 ELSE @]
        /\ Goto(t, "register")
        /\ UNCHANGED <<retired, outbox, inboxVars, taskVars, work>>
        /\ UNCHANGED <<own, plan, since, mishaps>>
     \/ latest[Billing] > 0 /\ Raise(t)

\* run_agent_a_publish_revision_2.
PublishSecond(t) ==
  /\ pc[t] = "publish_2"
  /\ \/ /\ \/ latest[Billing] = 1 /\ \E e \in Events : Publish(Billing, e, TRUE)
           \/ latest[Billing] > 1 /\ UNCHANGED vars
        /\ Goto(t, "announce")
        /\ UNCHANGED <<own, plan, since, mishaps>>
     \/ latest[Billing] > 1 /\ Raise(t)

\* The workflow does not wait for the change feed: it inserts an event of its
\* own for revision 2 beside the one of the publication.
Announce(t) ==
  /\ pc[t] = "announce"
  /\ \E e \in Events :
       /\ outbox[e] = NoEvent
       /\ outbox' = [outbox EXCEPT ![e] = Change(Billing, 2, TRUE, FALSE)]
       /\ own' = [own EXCEPT ![t] = e]
  /\ Goto(t, "ingest")
  /\ UNCHANGED <<latest, retired, inboxVars, taskVars, work>>
  /\ UNCHANGED <<plan, since, mishaps>>

IngestOwn(t) ==
  /\ pc[t] = "ingest"
  /\ Ingest(own[t])
  /\ Goto(t, "drain")
  /\ UNCHANGED <<own, plan, since, mishaps>>

ClaimableEvents == { e \in Events : Claimable(e) }

\* process_all_pending_events: the workflow is a drift worker until it is
\* offered no row.  SKIP LOCKED hides the rows the other workers hold.
Drain(t) ==
  /\ pc[t] = "drain"
  /\ \/ \E e \in Events : Process(t, e) \/ Collide(t, e)
     \/ RecordFailure(t)
  /\ UNCHANGED runnerVars

Drained(t) ==
  /\ pc[t] = "drain" /\ failing[t] = NoEvent
  /\ Cardinality(ClaimableEvents) <= Cardinality(Workers \ {t})
  /\ Goto(t, "check_2")
  /\ UNCHANGED <<vars, own, plan, since, mishaps>>

-----------------------------------------------------------------------------
(* Agent B. *)

\* start_agent_b_checkout_task: a worktree of its own, then the task, bound to
\* revision 1 by a confirmed dependency.
StartTask(t) ==
  /\ pc[t] = "register"
  /\ Register(t, [c \in {Billing} |-> 1])
  /\ Goto(t, "check_1")
  /\ UNCHANGED <<own, plan, since, mishaps>>

\* execute_agent_b_step_with_drift_check, at the milestone that must be clean:
\* the drift query, then the checkpoint.
CheckFirst(t) ==
  /\ pc[t] = "check_1"
  /\ \/ RunnerCheck(t) /\ Goto(t, "save_1") /\ UNCHANGED <<own, plan, since, mishaps>>
     \/ ActiveDriftsOf(t) # {} /\ Raise(t)

SaveFirst(t) ==
  /\ pc[t] = "save_1"
  /\ RunnerSave(t)
  /\ Goto(t, "publish_2")
  /\ UNCHANGED <<own, plan, since, mishaps>>

\* Variant: the milestone waits for the drift that must come.
AwaitDrift(t) ==
  /\ pc[t] = "check_2"
  /\ \E d \in Newest(ActiveDriftsOf(t)) : plan' = [plan EXCEPT ![t] = d]
  /\ Goto(t, "replan")
  /\ UNCHANGED <<vars, own, since, mishaps>>

\* The milestone that must find an intervention, the newest one.
CheckSecond(t) ==
  /\ pc[t] = "check_2"
  /\ \/ RunnerCheck(t) /\ Goto(t, "save_2") /\ UNCHANGED <<own, plan, since, mishaps>>
     \/ /\ \E d \in Newest(ActiveDriftsOf(t)) : plan' = [plan EXCEPT ![t] = d]
        /\ Goto(t, "replan")
        /\ UNCHANGED <<vars, own, since, mishaps>>

\* Variant: the checkpoint also closes the interventions it did not see.
SaveAndClose(t) ==
  /\ pc[t] = "save_2"
  /\ status' = [status EXCEPT ![t] = "OPTIMISTIC_EXECUTING"]
  /\ checked' = checked \ {t}
  /\ drifts' = Resolve(DriftsOf(t))
  /\ UNCHANGED <<registryVars, inboxVars, binding, confirmed, work, claims>>
  /\ Goto(t, "raised")
  /\ UNCHANGED <<own, plan, since, mishaps>>

\* It found none and saves its checkpoint; then the assertion fails.
SaveSecond(t) ==
  /\ pc[t] = "save_2"
  /\ RunnerSave(t)
  /\ Goto(t, "raised")
  /\ UNCHANGED <<own, plan, since, mishaps>>

\* adapt_agent_b_code_and_reconcile.
Replan(t) ==
  /\ pc[t] = "replan"
  /\ StartReplanning(t)
  /\ since' = [since EXCEPT ![t] = Cardinality(drifts)]
  /\ Goto(t, "adapt")
  /\ UNCHANGED <<own, plan, mishaps>>

\* The worktree is changed and its tests run, for as long as they take.
Adapt(t) ==
  /\ pc[t] = "adapt"
  /\ \/ Goto(t, "submit") /\ UNCHANGED <<vars, own, plan, since, mishaps>>
     \/ Raise(t)

SubmitPlan(t) ==
  /\ pc[t] = "submit"
  /\ \/ /\ \E auto \in AutoChoices : Submit(t, plan[t], auto)
        /\ Goto(t, "finished")
        /\ UNCHANGED <<own, plan, since, mishaps>>
     \/ status[t] # "REPLANNING" /\ Raise(t)

-----------------------------------------------------------------------------
(* Everybody else. *)

\* Bound: later revisions leave every workflow the event id it will need.
Spare ==
  Cardinality({ e \in Events : outbox[e] = NoEvent })
    > Cardinality({ t \in Tasks : own[t] = NoEvent /\ pc[t] # "raised" })

\* A provider goes on to publish, the change feed and the background workers
\* do their part, the operator decides on a submitted plan.
Others ==
  /\ \/ \E e \in Events :
          \/ latest[Billing] > 1 /\ Spare /\ \E i \in BOOLEAN : Publish(Billing, e, i)
          \/ Ingest(e)
          \/ \E w \in Background : Process(w, e) \/ Collide(w, e)
     \/ \E w \in Background : RecordFailure(w)
     \/ \E t \in Tasks : Approve(t) \/ Reject(t)
  /\ UNCHANGED runnerVars

-----------------------------------------------------------------------------

\* A clean database: the first workflow publishes revision 1, the others find
\* it there.
RunnerInit ==
  /\ latest = [c \in Contracts |-> 0]
  /\ retired = {} /\ outbox = [e \in Events |-> NoEvent]
  /\ inbox = [e \in Events |-> [status |-> "ABSENT", attempts |-> 0]]
  /\ failing = [w \in Workers |-> NoEvent] /\ faults = 0
  /\ status = [t \in Tasks |-> "NONE"]
  /\ binding = [t \in Tasks |-> [c \in Contracts |-> 0]]
  /\ drifts = {} /\ confirmed = [c \in Contracts |-> {}]
  /\ work = {} /\ checked = {} /\ claims = [t \in Tasks |-> NoWork]
  /\ pc = [t \in Tasks |-> "idle"]
  /\ own = [t \in Tasks |-> NoEvent]
  /\ plan = [t \in Tasks |-> NoDrift]
  /\ since = [t \in Tasks |-> 0]
  /\ mishaps = 0

WorkflowStep(t) ==
  \/ StartTask(t) \/ CheckFirst(t) \/ SaveFirst(t)
  \/ PublishSecond(t) \/ Announce(t) \/ IngestOwn(t) \/ Drain(t) \/ Drained(t)
  \/ CheckSecond(t) \/ SaveSecond(t) \/ Replan(t) \/ Adapt(t) \/ SubmitPlan(t)

RunnerNext ==
  \/ \E t \in Tasks : PublishFirst(t) \/ WorkflowStep(t) \/ Fault(t)
  \/ Others

RunnerSpec == RunnerInit /\ [][RunnerNext]_allVars

\* A workflow is a coroutine that awaits one transaction after the other.
FairRunner == RunnerSpec /\ \A t \in Tasks : WF_allVars(WorkflowStep(t))

-----------------------------------------------------------------------------
(* Properties. *)

\* However a workflow that was interrupted ends -- its checkpoint overwrote the
\* interruption, its milestone ran ahead of the worker, its tests failed -- its
\* task is either settled at a newer revision or still shows the intervention:
\* the checkpoint overwrites the status and never the drift row
\* (agent_runner.py:235, the two transactions of a milestone).
AbandonedTasksStayInterrupted ==
  \A t \in Tasks :
    own[t] # NoEvent /\ inbox[own[t]].status = "PROCESSED"
      => \/ ActiveDriftsOf(t) # {}
         \/ status[t] = "RECONCILED" /\ binding[t][Billing] >= 2

\* A task is moved to another revision only by a plan that was started after
\* the last interruption of the task: an event processed while the agent
\* adapts and tests, or while the operator considers, sends the plan back.
PlansAnswerTheLastInterruption ==
  [][\A t \in Tasks : binding[t][Billing] # 0 /\ binding'[t] # binding[t]
       => \A d \in DriftsOf(t) : d.at <= since[t]]_allVars

\* A workflow that was started ends, although it drains a queue to which
\* providers, the feed and the failures of others keep adding.
WorkflowsEnd ==
  \A t \in Tasks : Working(t) ~> pc[t] \in {"finished", "raised"}
=============================================================================
