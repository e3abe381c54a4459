-------------------------- MODULE AgentRunnerProofs --------------------------
(***************************************************************************)
(* Safety of the scripted agents, for any number of workflows, events,     *)
(* background workers and mishaps, and whatever providers and operators do *)
(* meanwhile.                                                              *)
(*                                                                         *)
(* A milestone reads the drifts of its task in one transaction and writes  *)
(* the checkpoint in another, so the status alone does not tell whether a  *)
(* task was interrupted.  What the invariant holds on to is the drift row: *)
(* a task that left revision 1 behind was reconciled, and one that did not *)
(* shows its intervention from the moment the worker has seen the change.  *)
(***************************************************************************)
EXTENDS AgentRunner, ReconciliationProofs

-----------------------------------------------------------------------------
(* The inductive invariant. *)

Places == Steps \cup {"idle", "raised", "finished"}

WorkflowTypes ==
  /\ pc \in [Tasks -> Places]
  /\ own \in [Tasks -> Events \cup {NoEvent}]
  /\ plan \in [Tasks -> DriftEvents \cup {NoDrift}]
  /\ since \in [Tasks -> Nat]

\* Every event announces a revision of Billing after the first, and every drift
\* asks its task to move to such a revision.
ChangesOfBilling ==
  /\ \A e \in Events : outbox[e] # NoEvent =>
       outbox[e].contract = Billing /\ outbox[e].revision >= 2
  /\ \A d \in drifts : d.source = ProviderOf[Billing] /\ d.revision >= 2

\* created_at orders the drifts of a task, and no drift is later than the last.
DriftsAreOrdered ==
  /\ \A d \in drifts : d.at <= Cardinality(drifts)
  /\ \A d, o \in drifts : d.task = o.task /\ d.at = o.at => d = o

\* How far a workflow is tells what its task can be.
TasksFollowWorkflows ==
  \A t \in Tasks :
    /\ pc[t] \in {"idle", "register"} => status[t] = "NONE"
    /\ status[t] = "NONE" => pc[t] \in {"idle", "register", "raised"}
    /\ status[t] \in {"AWAITING_APPROVAL", "RECONCILED"} => pc[t] = "finished"
    /\ status[t] # "COMPLETED"

\* A task stays at revision 1 until a plan is accepted.
BindingsFollowTasks ==
  \A t \in Tasks :
    /\ status[t] = "NONE" => binding[t][Billing] = 0
    /\ status[t] \notin {"NONE", "RECONCILED"} => binding[t][Billing] = 1
    /\ status[t] = "RECONCILED" => binding[t][Billing] >= 2

Planning(t) == pc[t] \in {"replan", "adapt", "submit"}

\* A task that was told to replan has something to plan for, and the plan is
\* for the task's own drift.
PlansHaveReasons ==
  \A t \in Tasks :
    /\ status[t] \in {"REPLAN_REQUIRED", "REPLANNING", "AWAITING_APPROVAL"} \/ Planning(t)
         => ActiveDriftsOf(t) # {}
    /\ Planning(t) => plan[t] \in DriftEvents /\ plan[t].task = t

\* A plan in the making, or before the operator, is as new as the task's drifts.
PlansAreCurrent ==
  \A t \in Tasks : status[t] \in {"REPLANNING", "AWAITING_APPROVAL"} =>
    \A d \in DriftsOf(t) : d.at <= since[t]

\* The event a workflow announced by itself is a breaking revision 2, and by
\* then its task is registered.
OwnEventsAreOfTasks ==
  \A t \in Tasks :
    /\ own[t] # NoEvent =>
         outbox[own[t]] = Change(Billing, 2, TRUE, FALSE) /\ status[t] # "NONE"
    /\ pc[t] = "ingest" => own[t] # NoEvent

RunnerInv ==
  /\ LedgerInv /\ WorkflowTypes
  /\ ChangesOfBilling /\ DriftsAreOrdered
  /\ TasksFollowWorkflows /\ BindingsFollowTasks
  /\ PlansHaveReasons /\ PlansAreCurrent /\ OwnEventsAreOfTasks
  /\ AbandonedTasksStayInterrupted

-----------------------------------------------------------------------------
(* What a step does to the workflows and to the ledger. *)

\* How a workflow may get from one step to another.
GoesOn(t) ==
  /\ pc'[t] \in {"idle", "register"} => pc[t] \in {"idle", "register"}
  /\ pc'[t] \notin {"idle", "register", "raised"} =>
       pc[t] \notin {"idle", "register", "raised"} \/ status'[t] # "NONE"
  /\ pc[t] = "finished" => pc'[t] = "finished"
  /\ Planning(t)' => \/ Planning(t) /\ plan'[t] = plan[t]
                     \/ plan'[t] \in ActiveDriftsOf(t) /\ drifts' = drifts
  /\ \/ own'[t] = own[t]
     \/ /\ pc[t] = "announce" /\ own'[t] \in Events /\ outbox[own'[t]] = NoEvent
        /\ outbox'[own'[t]] = Change(Billing, 2, TRUE, FALSE)
  /\ pc'[t] = "ingest" => pc[t] = "ingest" \/ own'[t] # NoEvent
  /\ \/ since'[t] = since[t]
     \/ since'[t] = Cardinality(drifts) /\ drifts' = drifts

WorkflowsGoOn == WorkflowTypes' /\ \A t \in Tasks : GoesOn(t)

FirstRevision ==
  /\ latest' = [latest EXCEPT ![Billing] = IF @ = 0 THEN 1 ELSE @]
  /\ UNCHANGED <<retired, outbox, inboxVars, taskVars, work>>

NextRevision ==
  latest[Billing] >= 1 /\ \E e \in Events, b \in BOOLEAN : Publish(Billing, e, b)

Announcement ==
  /\ \E e \in Events : /\ outbox[e] = NoEvent
                       /\ outbox' = [outbox EXCEPT ![e] = Change(Billing, 2, TRUE, FALSE)]
  /\ UNCHANGED <<latest, retired, inboxVars, taskVars, work>>

Registration == \E t \in Tasks : /\ pc[t] = "register" /\ pc'[t] = "check_1"
                                 /\ Register(t, [c \in {Billing} |-> 1])

Milestone == \E t \in Tasks : \/ RunnerCheck(t)
                              \/ pc[t] \in {"save_1", "save_2"} /\ RunnerSave(t)

Replanning == \E t \in Tasks : /\ pc[t] = "replan" /\ StartReplanning(t)
                               /\ since'[t] = Cardinality(drifts)

Submission == \E t \in Tasks, auto \in BOOLEAN :
                /\ pc[t] = "submit" /\ pc'[t] = "finished"
                /\ Submit(t, plan[t], auto)

Decision == \E t \in Tasks : Approve(t) \/ Reject(t)

RunnerMove ==
  \/ UNCHANGED vars
  \/ FirstRevision \/ NextRevision \/ Announcement \/ InboxNext
  \/ Registration \/ Milestone \/ Replanning \/ Submission \/ Decision

\* The other workflows stay where they are.
LEMMA OneWorkflowMoves ==
  ASSUME NEW t \in Tasks, GoesOn(t),
         \A u \in Tasks \ {t} : /\ pc'[u] = pc[u] /\ own'[u] = own[u]
                                /\ plan'[u] = plan[u] /\ since'[u] = since[u]
  PROVE  \A u \in Tasks : GoesOn(u)
<1>1. ASSUME NEW u \in Tasks \ {t} PROVE GoesOn(u)
  BY DEF GoesOn, Planning
<1>2. QED
  BY <1>1

\* A step that only moves a workflow on.
LEMMA Advance ==
  ASSUME WorkflowTypes, NEW t \in Tasks, NEW step \in Places, Goto(t, step),
         own' = own, plan' = plan, since' = since, pc[t] # "finished",
         step \in {"idle", "register"} => pc[t] \in {"idle", "register"},
         step \notin {"idle", "register", "raised"} =>
           pc[t] \notin {"idle", "register", "raised"} \/ status'[t] # "NONE",
         step \in {"replan", "adapt", "submit"} => Planning(t), step # "ingest"
  PROVE  WorkflowsGoOn /\ pc'[t] = step
<1>1. /\ pc' \in [Tasks -> Places] /\ pc'[t] = step
      /\ \A u \in Tasks \ {t} : pc'[u] = pc[u]
  BY DEF Goto, WorkflowTypes
<1>2. GoesOn(t)
  BY <1>1 DEF GoesOn, Planning
<1>3. QED
  BY <1>1, <1>2, OneWorkflowMoves DEF WorkflowsGoOn, WorkflowTypes

LEMMA StillWorkflows ==
  ASSUME WorkflowTypes, pc' = pc, own' = own, plan' = plan, since' = since
  PROVE  WorkflowsGoOn
BY DEF WorkflowsGoOn, WorkflowTypes, GoesOn, Planning

LEMMA RaisedWorkflow ==
  ASSUME WorkflowTypes, NEW t \in Tasks, Raise(t), pc[t] # "finished"
  PROVE  WorkflowsGoOn /\ RunnerMove
<1>1. Goto(t, "raised") /\ UNCHANGED vars /\ own' = own /\ plan' = plan /\ since' = since
  BY DEF Raise
<1>2. QED
  BY <1>1, Advance DEF Places, RunnerMove

\* Agent A: two revisions, and an event beside the one of the publication.
LEMMA AgentAStep ==
  ASSUME RunnerInv, NEW t \in Tasks, PublishFirst(t) \/ PublishSecond(t) \/ Announce(t)
  PROVE  WorkflowsGoOn /\ RunnerMove
<1>0. WorkflowTypes /\ latest[Billing] \in Nat
  BY RunnerAssumption DEF RunnerInv, LedgerInv, LedgerTypeOK
<1>1. ASSUME PublishFirst(t), ~Raise(t)
      PROVE  WorkflowsGoOn /\ RunnerMove
  <2>1. /\ pc[t] = "idle" /\ Goto(t, "register")
        /\ own' = own /\ plan' = plan /\ since' = since
        /\ FirstRevision
    BY <1>1 DEF PublishFirst, FirstRevision
  <2>2. QED
    BY <1>0, <2>1, Advance DEF Places, Steps, RunnerMove
<1>2. ASSUME PublishSecond(t), ~Raise(t)
      PROVE  WorkflowsGoOn /\ RunnerMove
  <2>1. /\ pc[t] = "publish_2" /\ Goto(t, "announce")
        /\ own' = own /\ plan' = plan /\ since' = since
        /\ \/ UNCHANGED vars
           \/ latest[Billing] = 1 /\ \E e \in Events : Publish(Billing, e, TRUE)
    BY <1>2 DEF PublishSecond
  <2>2. ASSUME latest[Billing] = 1, NEW e \in Events, Publish(Billing, e, TRUE)
        PROVE  NextRevision
    <3>1. latest[Billing] >= 1
      BY <2>2
    <3>2. QED
      BY <2>2, <3>1 DEF NextRevision
  <2>3. QED
    BY <1>0, <2>1, <2>2, Advance DEF Places, Steps, RunnerMove
<1>3. ASSUME Announce(t)
      PROVE  WorkflowsGoOn /\ RunnerMove
  <2>1. PICK e \in Events :
          /\ outbox[e] = NoEvent
          /\ outbox' = [outbox EXCEPT ![e] = Change(Billing, 2, TRUE, FALSE)]
          /\ own' = [own EXCEPT ![t] = e]
    BY <1>3 DEF Announce
  <2>2. /\ pc[t] = "announce" /\ Goto(t, "ingest") /\ plan' = plan /\ since' = since
        /\ Announcement
    BY <1>3 DEF Announce, Announcement
  <2>3. /\ pc' \in [Tasks -> Places] /\ pc'[t] = "ingest"
        /\ \A u \in Tasks \ {t} : pc'[u] = pc[u]
    BY <1>0, <2>2 DEF Goto, WorkflowTypes, Places, Steps
  <2>4. /\ own' \in [Tasks -> Events \cup {NoEvent}] /\ own'[t] = e
        /\ \A u \in Tasks \ {t} : own'[u] = own[u]
    BY <1>0, <2>1 DEF WorkflowTypes
  <2>5. outbox'[e] = Change(Billing, 2, TRUE, FALSE)
    BY <2>1 DEF RunnerInv, LedgerInv, LedgerTypeOK
  <2>6. GoesOn(t)
    BY <2>1, <2>2, <2>3, <2>4, <2>5, SetsAssumption DEF GoesOn, Planning
  <2>7. QED
    BY <1>0, <2>2, <2>3, <2>4, <2>6, OneWorkflowMoves
    DEF WorkflowsGoOn, WorkflowTypes, RunnerMove
<1>4. QED
  BY <1>0, <1>1, <1>2, <1>3, RaisedWorkflow DEF PublishFirst, PublishSecond

\* The inbox, which a workflow drains like any worker.
LEMMA DrainStep ==
  ASSUME RunnerInv, NEW t \in Tasks, IngestOwn(t) \/ Drain(t) \/ Drained(t)
  PROVE  WorkflowsGoOn /\ RunnerMove
<1>0. WorkflowTypes /\ t \in Workers
  BY RunnerAssumption DEF RunnerInv
<1>1. ASSUME IngestOwn(t)
      PROVE  WorkflowsGoOn /\ RunnerMove
  <2>1. /\ pc[t] = "ingest" /\ Goto(t, "drain")
        /\ own' = own /\ plan' = plan /\ since' = since
        /\ Ingest(own[t])
    BY <1>1 DEF IngestOwn
  <2>2. own[t] \in Events
    <3>1. own[t] # NoEvent
      BY <2>1 DEF RunnerInv, OwnEventsAreOfTasks
    <3>2. QED
      BY <1>0, <3>1 DEF WorkflowTypes
  <2>3. InboxNext
    BY <2>1, <2>2 DEF InboxNext
  <2>4. QED
    BY <1>0, <2>1, <2>3, Advance DEF Places, Steps, RunnerMove
<1>2. ASSUME Drain(t)
      PROVE  WorkflowsGoOn /\ RunnerMove
  <2>1. UNCHANGED runnerVars /\ InboxNext
    BY <1>0, <1>2 DEF Drain, InboxNext
  <2>2. QED
    BY <1>0, <2>1, StillWorkflows DEF runnerVars, RunnerMove
<1>3. ASSUME Drained(t)
      PROVE  WorkflowsGoOn /\ RunnerMove
  <2>1. /\ pc[t] = "drain" /\ Goto(t, "check_2") /\ UNCHANGED vars
        /\ own' = own /\ plan' = plan /\ since' = since
    BY <1>3 DEF Drained
  <2>2. QED
    BY <1>0, <2>1, Advance DEF Places, Steps, RunnerMove
<1>4. QED
  BY <1>1, <1>2, <1>3

\* Agent B, up to the milestone that must find an intervention.
LEMMA MilestoneStep ==
  ASSUME RunnerInv, NEW t \in Tasks,
         \/ StartTask(t) \/ CheckFirst(t) \/ SaveFirst(t)
         \/ CheckSecond(t) \/ SaveSecond(t)
  PROVE  WorkflowsGoOn /\ RunnerMove
<1>0. WorkflowTypes
  BY DEF RunnerInv
<1>1. ASSUME StartTask(t)
      PROVE  WorkflowsGoOn /\ RunnerMove
  <2>1. /\ pc[t] = "register" /\ Goto(t, "check_1")
        /\ own' = own /\ plan' = plan /\ since' = since
        /\ Register(t, [c \in {Billing} |-> 1])
    BY <1>1 DEF StartTask
  <2>2. status'[t] # "NONE"
    BY <2>1 DEF Register, CreateTask, RunnerInv, LedgerInv, LedgerTypeOK
  <2>3. QED
    BY <1>0, <2>1, <2>2, Advance DEF Places, Steps, RunnerMove, Registration
<1>2. ASSUME CheckFirst(t), ~Raise(t)
      PROVE  WorkflowsGoOn /\ RunnerMove
  <2>1. /\ pc[t] = "check_1" /\ Goto(t, "save_1") /\ RunnerCheck(t)
        /\ own' = own /\ plan' = plan /\ since' = since
    BY <1>2 DEF CheckFirst
  <2>2. QED
    BY <1>0, <2>1, Advance DEF Places, Steps, RunnerMove, Milestone
<1>3. ASSUME SaveFirst(t)
      PROVE  WorkflowsGoOn /\ RunnerMove
  <2>1. /\ pc[t] = "save_1" /\ Goto(t, "publish_2") /\ RunnerSave(t)
        /\ own' = own /\ plan' = plan /\ since' = since
    BY <1>3 DEF SaveFirst
  <2>2. QED
    BY <1>0, <2>1, Advance DEF Places, Steps, RunnerMove, Milestone
<1>4. ASSUME CheckSecond(t), RunnerCheck(t), Goto(t, "save_2"),
             own' = own, plan' = plan, since' = since
      PROVE  WorkflowsGoOn /\ RunnerMove
  <2>1. pc[t] = "check_2"
    BY <1>4 DEF CheckSecond
  <2>2. QED
    BY <1>0, <1>4, <2>1, Advance DEF Places, Steps, RunnerMove, Milestone
<1>5. ASSUME pc[t] = "check_2", NEW d \in Newest(ActiveDriftsOf(t)),
             plan' = [plan EXCEPT ![t] = d], Goto(t, "replan"), UNCHANGED vars,
             own' = own, since' = since
      PROVE  WorkflowsGoOn /\ RunnerMove
  <2>1. d \in ActiveDriftsOf(t) /\ d \in DriftEvents
    BY DEF Newest, ActiveDriftsOf, DriftsOf, RunnerInv, LedgerInv, LedgerTypeOK
  <2>2. /\ pc' \in [Tasks -> Places] /\ pc'[t] = "replan"
        /\ \A u \in Tasks \ {t} : pc'[u] = pc[u]
    BY <1>0, <1>5 DEF Goto, WorkflowTypes, Places, Steps
  <2>3. /\ plan' \in [Tasks -> DriftEvents \cup {NoDrift}] /\ plan'[t] = d
        /\ \A u \in Tasks \ {t} : plan'[u] = plan[u]
    BY <1>0, <1>5, <2>1 DEF WorkflowTypes
  <2>4. GoesOn(t)
    BY <1>5, <2>1, <2>2, <2>3 DEF GoesOn, Planning, vars
  <2>5. QED
    BY <1>0, <1>5, <2>2, <2>3, <2>4, OneWorkflowMoves
    DEF WorkflowsGoOn, WorkflowTypes, RunnerMove
<1>6. ASSUME CheckSecond(t)
      PROVE  WorkflowsGoOn /\ RunnerMove
  BY <1>4, <1>5, <1>6 DEF CheckSecond
<1>7. ASSUME SaveSecond(t)
      PROVE  WorkflowsGoOn /\ RunnerMove
  <2>1. /\ pc[t] = "save_2" /\ Goto(t, "raised") /\ RunnerSave(t)
        /\ own' = own /\ plan' = plan /\ since' = since
    BY <1>7 DEF SaveSecond
  <2>2. QED
    BY <1>0, <2>1, Advance DEF Places, RunnerMove, Milestone
<1>8. QED
  BY <1>0, <1>1, <1>2, <1>3, <1>6, <1>7, RaisedWorkflow DEF CheckFirst

\* Agent B adapts its worktree and submits the plan.
LEMMA AdaptStep ==
  ASSUME RunnerInv, NEW t \in Tasks, Replan(t) \/ Adapt(t) \/ SubmitPlan(t)
  PROVE  WorkflowsGoOn /\ RunnerMove
<1>0. WorkflowTypes
  BY DEF RunnerInv
<1>1. ASSUME Replan(t)
      PROVE  WorkflowsGoOn /\ RunnerMove
  <2>1. /\ pc[t] = "replan" /\ Goto(t, "adapt") /\ StartReplanning(t)
        /\ since' = [since EXCEPT ![t] = Cardinality(drifts)]
        /\ own' = own /\ plan' = plan
    BY <1>1 DEF Replan
  <2>2. Cardinality(drifts) \in Nat
    BY FS_CardinalityType DEF RunnerInv, LedgerInv, LedgerTypeOK
  <2>3. /\ pc' \in [Tasks -> Places] /\ pc'[t] = "adapt"
        /\ \A u \in Tasks \ {t} : pc'[u] = pc[u]
    BY <1>0, <2>1 DEF Goto, WorkflowTypes, Places, Steps
  <2>4. /\ since' \in [Tasks -> Nat] /\ since'[t] = Cardinality(drifts)
        /\ \A u \in Tasks \ {t} : since'[u] = since[u]
    BY <1>0, <2>1, <2>2 DEF WorkflowTypes
  <2>5. GoesOn(t)
    BY <2>1, <2>3, <2>4 DEF GoesOn, Planning, StartReplanning
  <2>6. QED
    BY <1>0, <2>1, <2>3, <2>4, <2>5, OneWorkflowMoves
    DEF WorkflowsGoOn, WorkflowTypes, RunnerMove, Replanning
<1>2. ASSUME Adapt(t), ~Raise(t)
      PROVE  WorkflowsGoOn /\ RunnerMove
  <2>1. /\ pc[t] = "adapt" /\ Goto(t, "submit") /\ UNCHANGED vars
        /\ own' = own /\ plan' = plan /\ since' = since
    BY <1>2 DEF Adapt
  <2>2. QED
    BY <1>0, <2>1, Advance DEF Places, Steps, RunnerMove, Planning
<1>3. ASSUME SubmitPlan(t), ~Raise(t)
      PROVE  WorkflowsGoOn /\ RunnerMove
  <2>1. /\ pc[t] = "submit" /\ Goto(t, "finished")
        /\ \E auto \in AutoChoices : Submit(t, plan[t], auto)
        /\ own' = own /\ plan' = plan /\ since' = since
    BY <1>3 DEF SubmitPlan
  <2>2. WorkflowsGoOn /\ pc'[t] = "finished"
    BY <1>0, <2>1, Advance DEF Places
  <2>3. QED
    BY <2>1, <2>2, BoundsAssumption DEF RunnerMove, Submission
<1>4. QED
  BY <1>0, <1>1, <1>2, <1>3, RaisedWorkflow DEF Adapt, SubmitPlan

LEMMA RunnerMoves ==
  ASSUME RunnerInv, [RunnerNext]_allVars
  PROVE  WorkflowsGoOn /\ RunnerMove
<1>0. WorkflowTypes /\ latest[Billing] \in Nat /\ Background \subseteq Workers
  BY RunnerAssumption DEF RunnerInv, LedgerInv, LedgerTypeOK
<1>1. ASSUME UNCHANGED allVars
      PROVE  WorkflowsGoOn /\ RunnerMove
  <2>1. UNCHANGED vars /\ pc' = pc /\ own' = own /\ plan' = plan /\ since' = since
    BY <1>1 DEF allVars, runnerVars
  <2>2. QED
    BY <1>0, <2>1, StillWorkflows DEF RunnerMove
<1>2. ASSUME NEW t \in Tasks, Fault(t)
      PROVE  WorkflowsGoOn /\ RunnerMove
  <2>1. /\ pc[t] \in Steps /\ Goto(t, "raised") /\ UNCHANGED vars
        /\ own' = own /\ plan' = plan /\ since' = since
    BY <1>2 DEF Fault, Working
  <2>2. pc[t] # "finished"
    BY <2>1 DEF Steps
  <2>3. QED
    BY <1>0, <2>1, <2>2, Advance DEF Places, RunnerMove
<1>3. ASSUME Others
      PROVE  WorkflowsGoOn /\ RunnerMove
  <2>1. pc' = pc /\ own' = own /\ plan' = plan /\ since' = since
    BY <1>3 DEF Others, runnerVars
  <2>2. ASSUME NEW e \in Events, NEW i \in BOOLEAN, latest[Billing] > 1, Publish(Billing, e, i)
        PROVE  RunnerMove
    <3>1. latest[Billing] >= 1
      BY <1>0, <2>2
    <3>2. QED
      BY <2>2, <3>1 DEF RunnerMove, NextRevision
  <2>3. ASSUME \/ \E e \in Events : \/ Ingest(e)
                                    \/ \E w \in Background : Process(w, e) \/ Collide(w, e)
               \/ \E w \in Background : RecordFailure(w)
        PROVE  RunnerMove
    BY <1>0, <2>3 DEF InboxNext, RunnerMove
  <2>4. (\E t \in Tasks : Approve(t) \/ Reject(t)) => RunnerMove
    BY DEF RunnerMove, Decision
  <2>5. RunnerMove
    BY <1>3, <2>2, <2>3, <2>4 DEF Others
  <2>6. QED
    BY <1>0, <2>1, <2>5, StillWorkflows
<1>4. ASSUME NEW t \in Tasks, PublishFirst(t) \/ WorkflowStep(t)
      PROVE  WorkflowsGoOn /\ RunnerMove
  BY <1>4, AgentAStep, DrainStep, MilestoneStep, AdaptStep DEF WorkflowStep
<1>5. QED
  BY <1>1, <1>2, <1>3, <1>4 DEF RunnerNext


-----------------------------------------------------------------------------
(* What a step does to the ledger and to a task. *)

\* The rows keep their types, and a change event is never altered.
LEMMA LedgerMoves ==
  ASSUME RunnerInv, RunnerMove
  PROVE  /\ LedgerInv'
         /\ \A e \in Events : outbox[e] # NoEvent => outbox'[e] = outbox[e]
<1>0. LedgerInv /\ Billing \in Contracts
  BY RunnerAssumption DEF RunnerInv
<1>1. CASE UNCHANGED vars
  BY <1>0, <1>1 DEF vars, LedgerInv, LedgerTypeOK, InboxBacked
<1>2. CASE FirstRevision
  <2>1. latest' \in [Contracts -> Nat]
    BY <1>0, <1>2 DEF FirstRevision, LedgerInv, LedgerTypeOK
  <2>2. QED
    BY <1>0, <1>2, <2>1
    DEF FirstRevision, LedgerInv, LedgerTypeOK, InboxBacked, inboxVars, taskVars
<1>3. CASE NextRevision
  <2>1. RegistryKeeps
    BY <1>0, <1>3, PublishStep DEF NextRevision
  <2>2. QED
    BY <1>0, <2>1, LedgerIsKept DEF RegistryKeeps
<1>4. CASE Announcement
  <2>1. Change(Billing, 2, TRUE, FALSE) \in ChangeEvents
    BY <1>0 DEF Change, ChangeEvents, Revisions
  <2>2. PICK e \in Events : /\ outbox[e] = NoEvent
                            /\ outbox' = [outbox EXCEPT ![e] = Change(Billing, 2, TRUE, FALSE)]
    BY <1>4 DEF Announcement
  <2>3. /\ outbox' \in [Events -> ChangeEvents \cup {NoEvent}]
        /\ \A f \in Events : outbox[f] # NoEvent => outbox'[f] = outbox[f]
    BY <1>0, <2>1, <2>2 DEF LedgerInv, LedgerTypeOK
  <2>4. UNCHANGED <<latest, retired, inboxVars, taskVars, work>>
    BY <1>4 DEF Announcement
  <2>5. QED
    BY <1>0, <2>3, <2>4 DEF LedgerInv, LedgerTypeOK, InboxBacked, inboxVars, taskVars
<1>5. CASE InboxNext
  <2>1. InboxKeeps
    BY <1>0, <1>5, InboxStep
  <2>2. QED
    BY <1>0, <2>1, LedgerIsKept DEF InboxKeeps
<1>6. CASE Registration \/ Milestone \/ Replanning \/ Submission \/ Decision
  <2>1. PICK t \in Tasks, auto \in BOOLEAN :
          TaskTransaction(t, [c \in {Billing} |-> 1], plan[t], auto)
    BY <1>6 DEF Registration, Milestone, Replanning, Submission, Decision, TaskTransaction
  <2>2. TaskKeeps
    BY <1>0, <2>1, TransactionStep
  <2>3. QED
    BY <1>0, <2>2, LedgerIsKept DEF TaskKeeps, registryVars
<1>7. QED
  BY <1>1, <1>2, <1>3, <1>4, <1>5, <1>6 DEF RunnerMove

\* The drifts of a task when those of another one are resolved.
LEMMA ResolveLeavesOthers ==
  ASSUME LedgerTypeOK, NEW t, NEW u, u # t, NEW ds, \A d \in ds : d.task = t,
         drifts' = Resolve(ds)
  PROVE  DriftsOf(u)' = DriftsOf(u)
<1>1. ASSUME NEW d \in DriftsOf(u)' PROVE d \in DriftsOf(u)
  <2>1. d \in drifts' /\ d.task = u
    BY DEF DriftsOf
  <2>2. PICK o \in drifts : d = IF o \in ds THEN [o EXCEPT !.active = FALSE] ELSE o
    BY <2>1 DEF Resolve
  <2>3. d.task = o.task
    BY <2>2 DEF LedgerTypeOK, DriftEvents
  <2>4. QED
    BY <2>1, <2>2, <2>3 DEF DriftsOf
<1>2. ASSUME NEW d \in DriftsOf(u) PROVE d \in DriftsOf(u)'
  <2>1. d \in drifts /\ d.task = u /\ d \notin ds
    BY DEF DriftsOf
  <2>2. d \in Resolve(ds)
    BY <2>1 DEF Resolve
  <2>3. QED
    BY <2>1, <2>2 DEF DriftsOf
<1>3. QED
  BY <1>1, <1>2

\* A handled event interrupts the affected tasks, each with a drift of its own.
LEMMA HandledTasks ==
  ASSUME LedgerInv, NEW e \in Events, HandleEvent(e), NEW t \in Tasks
  PROVE  \/ /\ status'[t] = status[t] /\ DriftsOf(t)' = DriftsOf(t)
            /\ t \notin Affected(e) \/ ~outbox[e].intervention
         \/ /\ t \in Affected(e) /\ outbox[e].intervention
            /\ status'[t] = "REPLAN_REQUIRED" /\ ActiveDriftsOf(t)' # {}
<1>1. CASE ~outbox[e].intervention
  BY <1>1 DEF HandleEvent, DriftsOf
<1>2. CASE outbox[e].intervention /\ t \notin Affected(e)
  <2>1. drifts' = drifts \cup NewDrifts(e) /\ status'[t] = status[t]
    BY <1>2 DEF HandleEvent
  <2>2. \A d \in NewDrifts(e) : d.task # t
    BY <1>2 DEF NewDrifts
  <2>3. QED
    BY <1>2, <2>1, <2>2 DEF DriftsOf
<1>3. CASE outbox[e].intervention /\ t \in Affected(e)
  <2> DEFINE n == [task |-> t, source |-> ProviderOf[outbox[e].contract],
                   revision |-> outbox[e].revision, event |-> e,
                   at |-> Cardinality(drifts) + 1, active |-> TRUE]
  <2>1. drifts' = drifts \cup NewDrifts(e) /\ status'[t] = "REPLAN_REQUIRED"
    BY <1>3 DEF HandleEvent
  <2>2. n \in NewDrifts(e)
    BY <1>3 DEF NewDrifts
  <2>3. n \in drifts' /\ n.task = t /\ n.active
    BY <2>1, <2>2
  <2>4. n \in ActiveDriftsOf(t)'
    BY <2>3 DEF ActiveDriftsOf, DriftsOf
  <2>5. QED
    BY <1>3, <2>1, <2>4
<1>4. QED
  BY <1>1, <1>2, <1>3

\* Rebinding a task of revision 1 by one of its drifts takes it to revision 2
\* or later.
LEMMA RebindMovesBilling ==
  ASSUME RunnerInv, NEW t \in Tasks, binding[t][Billing] # 0, NEW d \in drifts,
         Rebind(t, d.source, d.revision)
  PROVE  /\ binding'[t][Billing] >= 2
         /\ \A u \in Tasks \ {t} : binding'[u] = binding[u]
<1>1. d.source = ProviderOf[Billing] /\ d.revision >= 2 /\ Billing \in Contracts
  BY RunnerAssumption DEF RunnerInv, ChangesOfBilling
<1>2. binding \in [Tasks -> [Contracts -> Nat]]
  BY DEF RunnerInv, LedgerInv, LedgerTypeOK
<1>3. binding'[t][Billing] = d.revision
  BY <1>1, <1>2 DEF Rebind
<1>4. \A u \in Tasks \ {t} : binding'[u] = binding[u]
  BY <1>2 DEF Rebind
<1>5. QED
  BY <1>1, <1>3, <1>4


Kept(t)   == binding'[t] = binding[t] /\ DriftsOf(t)' = DriftsOf(t)
Before(t) == status[t] \in {"REPLANNING", "AWAITING_APPROVAL"}

\* What a step makes of a task.
TaskGoesOn(t) ==
  \/ status'[t] = status[t] /\ Kept(t)
  \/ /\ status[t] \in Interruptible /\ status'[t] = "REPLAN_REQUIRED"
     /\ binding'[t] = binding[t] /\ ActiveDriftsOf(t)' # {}
  \/ /\ pc[t] = "register" /\ pc'[t] = "check_1" /\ status'[t] = "OPTIMISTIC_EXECUTING"
     /\ binding'[t][Billing] = 1 /\ DriftsOf(t)' = DriftsOf(t)
  \/ pc[t] \in {"save_1", "save_2"} /\ status'[t] = "OPTIMISTIC_EXECUTING" /\ Kept(t)
  \/ /\ pc[t] = "replan" /\ status'[t] = "REPLANNING" /\ Kept(t)
     /\ since'[t] = Cardinality(drifts) /\ drifts' = drifts
  \/ /\ status[t] = "REPLANNING" /\ status'[t] = "AWAITING_APPROVAL" /\ pc'[t] = "finished"
     /\ Kept(t)
  \/ status[t] = "AWAITING_APPROVAL" /\ status'[t] = "REPLANNING" /\ Kept(t)
  \/ /\ Before(t) /\ status'[t] = "RECONCILED" /\ pc'[t] = "finished"
     /\ binding'[t][Billing] >= 2

\* A transaction on one task leaves the others alone.
LEMMA OneTaskMoves ==
  ASSUME NEW t \in Tasks, TaskGoesOn(t),
         \A u \in Tasks \ {t} : status'[u] = status[u] /\ Kept(u)
  PROVE  \A u \in Tasks : TaskGoesOn(u)
<1>1. ASSUME NEW u \in Tasks \ {t} PROVE TaskGoesOn(u)
  BY DEF TaskGoesOn
<1>2. QED
  BY <1>1

\* A plan or an approval resolves drifts of its own task and rebinds it.
LEMMA SettledTask ==
  ASSUME RunnerInv, NEW t \in Tasks, Before(t), pc'[t] = "finished",
         status' = [status EXCEPT ![t] = "RECONCILED"],
         NEW ds, \A d \in ds : d.task = t, drifts' = Resolve(ds),
         NEW d \in drifts, Rebind(t, d.source, d.revision)
  PROVE  \A u \in Tasks : TaskGoesOn(u)
<1>1. LedgerTypeOK /\ binding[t][Billing] # 0
  BY DEF RunnerInv, LedgerInv, BindingsFollowTasks, Before
<1>2. /\ binding'[t][Billing] >= 2
      /\ \A u \in Tasks \ {t} : binding'[u] = binding[u]
  BY <1>1, RebindMovesBilling
<1>3. \A u \in Tasks \ {t} : DriftsOf(u)' = DriftsOf(u)
  BY <1>1, ResolveLeavesOthers
<1>4. /\ status'[t] = "RECONCILED"
      /\ \A u \in Tasks \ {t} : status'[u] = status[u]
  BY <1>1 DEF LedgerTypeOK
<1>5. TaskGoesOn(t)
  BY <1>2, <1>4 DEF TaskGoesOn
<1>6. QED
  BY <1>2, <1>3, <1>4, <1>5, OneTaskMoves DEF Kept

\* A transaction that only sets the status of one task.
LEMMA StatusStep ==
  ASSUME RunnerInv, NEW t \in Tasks, NEW s \in Statuses,
         status' = [status EXCEPT ![t] = s], binding' = binding, drifts' = drifts
  PROVE  /\ status'[t] = s /\ \A u \in Tasks : Kept(u)
         /\ \A u \in Tasks \ {t} : status'[u] = status[u]
BY DEF RunnerInv, LedgerInv, LedgerTypeOK, Kept, DriftsOf

LEMMA TaskMoves ==
  ASSUME RunnerInv, WorkflowsGoOn, RunnerMove
  PROVE  \A u \in Tasks : TaskGoesOn(u)
<1> DEFINE Goal == \A u \in Tasks : TaskGoesOn(u)
<1>0. LedgerInv /\ LedgerTypeOK
  BY DEF RunnerInv, LedgerInv
<1>1. ASSUME status' = status, binding' = binding, drifts' = drifts
      PROVE  Goal
  BY <1>1 DEF TaskGoesOn, Kept, DriftsOf
<1>2. CASE UNCHANGED vars \/ FirstRevision \/ NextRevision \/ Announcement
  BY <1>1, <1>2 DEF vars, FirstRevision, NextRevision, Publish, Announcement, taskVars
<1>3. CASE InboxNext
  <2>1. ASSUME NEW e \in Events, HandleEvent(e), NEW u \in Tasks PROVE TaskGoesOn(u)
    <3>1. binding'[u] = binding[u]
      BY <2>1 DEF HandleEvent
    <3>2. u \in Affected(e) => status[u] \in Interruptible
      BY DEF Affected
    <3>3. QED
      BY <1>0, <2>1, <3>1, <3>2, HandledTasks DEF TaskGoesOn, Kept
  <2>2. binding' = binding
    BY <1>0, <1>3, InboxStep DEF InboxKeeps
  <2>3. QED
    BY <1>1, <1>3, <2>1, <2>2, InboxEffect
<1>4. CASE Registration
  <2>1. PICK t \in Tasks : /\ pc[t] = "register" /\ pc'[t] = "check_1"
                           /\ Register(t, [c \in {Billing} |-> 1])
    BY <1>4 DEF Registration
  <2>2. /\ status' = [status EXCEPT ![t] = "OPTIMISTIC_EXECUTING"]
        /\ binding' = [binding EXCEPT ![t] =
             [c \in Contracts |-> IF c \in {Billing} THEN 1 ELSE @[c]]]
        /\ drifts' = drifts
    BY <2>1 DEF Register, CreateTask
  <2>3. /\ status'[t] = "OPTIMISTIC_EXECUTING" /\ binding'[t][Billing] = 1
        /\ \A u \in Tasks \ {t} : status'[u] = status[u] /\ binding'[u] = binding[u]
    BY <1>0, <2>2, RunnerAssumption DEF LedgerTypeOK
  <2>4. \A u \in Tasks : DriftsOf(u)' = DriftsOf(u)
    BY <2>2 DEF DriftsOf
  <2>5. TaskGoesOn(t)
    BY <2>1, <2>3, <2>4 DEF TaskGoesOn
  <2>6. QED
    BY <2>3, <2>4, <2>5, OneTaskMoves DEF Kept
<1>5. CASE Milestone
  <2>1. PICK t \in Tasks : \/ RunnerCheck(t)
                           \/ pc[t] \in {"save_1", "save_2"} /\ RunnerSave(t)
    BY <1>5 DEF Milestone
  <2>2. CASE RunnerCheck(t)
    BY <1>1, <2>2 DEF RunnerCheck
  <2>3. CASE pc[t] \in {"save_1", "save_2"} /\ RunnerSave(t)
    <3>1. /\ status' = [status EXCEPT ![t] = "OPTIMISTIC_EXECUTING"]
          /\ binding' = binding /\ drifts' = drifts
      BY <2>3 DEF RunnerSave
    <3>2. /\ status'[t] = "OPTIMISTIC_EXECUTING" /\ \A u \in Tasks : Kept(u)
          /\ \A u \in Tasks \ {t} : status'[u] = status[u]
      BY <3>1, StatusStep DEF Statuses
    <3>3. QED
      BY <2>3, <3>2, OneTaskMoves DEF TaskGoesOn
  <2>4. QED
    BY <2>1, <2>2, <2>3
<1>6. CASE Replanning
  <2>1. PICK t \in Tasks : /\ pc[t] = "replan" /\ StartReplanning(t)
                           /\ since'[t] = Cardinality(drifts)
    BY <1>6 DEF Replanning
  <2>2. /\ status' = [status EXCEPT ![t] = "REPLANNING"]
        /\ binding' = binding /\ drifts' = drifts
    BY <2>1 DEF StartReplanning
  <2>3. /\ status'[t] = "REPLANNING" /\ \A u \in Tasks : Kept(u)
        /\ \A u \in Tasks \ {t} : status'[u] = status[u]
    BY <2>2, StatusStep DEF Statuses
  <2>4. QED
    BY <2>1, <2>2, <2>3, OneTaskMoves DEF TaskGoesOn
<1>7. CASE Submission
  <2>1. PICK t \in Tasks, auto \in BOOLEAN :
          /\ pc[t] = "submit" /\ pc'[t] = "finished"
          /\ Submit(t, plan[t], auto)
    BY <1>7 DEF Submission
  <2>2. status[t] = "REPLANNING"
    BY <2>1 DEF Submit
  <2>3. plan[t].task = t
    BY <2>1 DEF RunnerInv, PlansHaveReasons, Planning
  <2>4. CASE auto
    <3>1. PICK d \in IF plan[t] \in DriftsOf(t) THEN {plan[t]} ELSE Newest(DriftsOf(t)) :
            drifts' = Resolve({plan[t]}) /\ Rebind(t, d.source, d.revision)
      BY <2>1, <2>4 DEF Submit
    <3>2. d \in drifts
      BY <3>1 DEF Newest, DriftsOf
    <3>3. status' = [status EXCEPT ![t] = "RECONCILED"]
      BY <2>1, <2>4 DEF Submit
    <3>4. Before(t)
      BY <2>2 DEF Before
    <3> DEFINE ds == {plan[t]}
    <3>5. (\A o \in ds : o.task = t) /\ drifts' = Resolve(ds) /\ Rebind(t, d.source, d.revision)
      BY <2>3, <3>1
    <3> HIDE DEF ds
    <3>6. QED
      BY <2>1, <3>2, <3>3, <3>4, <3>5, SettledTask
  <2>5. CASE ~auto
    <3>1. /\ status' = [status EXCEPT ![t] = "AWAITING_APPROVAL"]
          /\ binding' = binding /\ drifts' = drifts
      BY <2>1, <2>5 DEF Submit
    <3>2. /\ status'[t] = "AWAITING_APPROVAL" /\ \A u \in Tasks : Kept(u)
          /\ \A u \in Tasks \ {t} : status'[u] = status[u]
      BY <3>1, StatusStep DEF Statuses
    <3>3. QED
      BY <2>1, <2>2, <3>2, OneTaskMoves DEF TaskGoesOn
  <2>6. QED
    BY <2>4, <2>5
<1>8. CASE Decision
  <2>1. PICK t \in Tasks : Approve(t) \/ Reject(t)
    BY <1>8 DEF Decision
  <2>2. status[t] = "AWAITING_APPROVAL"
    BY <2>1 DEF Approve, Reject
  <2>3. CASE Approve(t)
    <3>1. ActiveDriftsOf(t) # {}
      BY <2>2 DEF RunnerInv, PlansHaveReasons
    <3>2. PICK d \in ActiveDriftsOf(t) : Rebind(t, d.source, d.revision)
      BY <2>3, <3>1 DEF Approve
    <3>3. d \in drifts /\ \A o \in ActiveDriftsOf(t) : o.task = t
      BY <3>2 DEF ActiveDriftsOf, DriftsOf
    <3>4. status' = [status EXCEPT ![t] = "RECONCILED"] /\ drifts' = Resolve(ActiveDriftsOf(t))
      BY <2>3 DEF Approve
    <3>5. pc[t] = "finished"
      BY <2>2 DEF RunnerInv, TasksFollowWorkflows
    <3>6. pc'[t] = "finished"
      BY <3>5 DEF WorkflowsGoOn, GoesOn
    <3>7. QED
      BY <2>2, <3>2, <3>3, <3>4, <3>6, SettledTask DEF Before
  <2>4. CASE Reject(t)
    <3>1. /\ status' = [status EXCEPT ![t] = "REPLANNING"]
          /\ binding' = binding /\ drifts' = drifts
      BY <2>4 DEF Reject
    <3>2. /\ status'[t] = "REPLANNING" /\ \A u \in Tasks : Kept(u)
          /\ \A u \in Tasks \ {t} : status'[u] = status[u]
      BY <3>1, StatusStep DEF Statuses
    <3>3. QED
      BY <2>2, <3>2, OneTaskMoves DEF TaskGoesOn
  <2>5. QED
    BY <2>1, <2>3, <2>4
<1>9. QED
  BY <1>2, <1>3, <1>4, <1>5, <1>6, <1>7, <1>8 DEF RunnerMove


-----------------------------------------------------------------------------
(* The drifts and the events of a step. *)

LEMMA DriftMoves ==
  ASSUME RunnerInv, RunnerMove
  PROVE  \/ drifts' = drifts
         \/ \E e \in Events : HandleEvent(e) /\ outbox[e].intervention
         \/ \E ds : drifts' = Resolve(ds)
<1>1. CASE InboxNext
  BY <1>1, InboxEffect DEF HandleEvent
<1>2. CASE \/ UNCHANGED vars \/ FirstRevision \/ NextRevision \/ Announcement
           \/ Registration \/ Milestone \/ Replanning
  BY <1>2 DEF vars, FirstRevision, NextRevision, Publish, Announcement, Registration,
              Register, CreateTask, Milestone, RunnerCheck, RunnerSave, Replanning, StartReplanning,
              taskVars
<1>3. CASE Submission \/ Decision
  BY <1>3 DEF Submission, Submit, Decision, Approve, Reject
<1>4. QED
  BY <1>1, <1>2, <1>3 DEF RunnerMove

\* What is announced or published is a revision after the first.
LEMMA ChangesStep ==
  ASSUME RunnerInv, RunnerMove
  PROVE  ChangesOfBilling'
<1>0. LedgerInv /\ LedgerTypeOK /\ ChangesOfBilling
  BY DEF RunnerInv, LedgerInv
<1>1. ASSUME NEW e \in Events, outbox'[e] # NoEvent
      PROVE  outbox'[e].contract = Billing /\ outbox'[e].revision >= 2
  <2>1. CASE outbox'[e] = outbox[e]
    BY <1>0, <1>1, <2>1 DEF ChangesOfBilling
  <2>2. CASE NextRevision
    <3>1. PICK f \in Events, b \in BOOLEAN : Publish(Billing, f, b)
      BY <2>2 DEF NextRevision
    <3>2. latest[Billing] \in Nat /\ latest[Billing] >= 1
      BY <1>0, <2>2, RunnerAssumption DEF NextRevision, LedgerTypeOK
    <3>3. latest[Billing] + 1 >= 2
      BY <3>2
    <3>4. outbox' = [outbox EXCEPT ![f] = Change(Billing, latest[Billing] + 1, b, FALSE)]
      BY <3>1 DEF Publish
    <3>5. CASE e = f
      <4>1. outbox'[e] = Change(Billing, latest[Billing] + 1, b, FALSE)
        BY <1>0, <3>4, <3>5 DEF LedgerTypeOK
      <4>2. QED
        BY <3>3, <4>1 DEF Change
    <3>6. CASE e # f
      BY <1>0, <2>1, <3>4, <3>6 DEF LedgerTypeOK
    <3>7. QED
      BY <3>5, <3>6
  <2>3. CASE Announcement
    <3>1. outbox'[e] = outbox[e] \/ outbox'[e] = Change(Billing, 2, TRUE, FALSE)
      BY <1>0, <2>3 DEF Announcement, LedgerTypeOK
    <3>2. QED
      BY <2>1, <3>1 DEF Change
  <2>4. CASE InboxNext
    BY <1>0, <2>1, <2>4, InboxStep DEF InboxKeeps
  <2>5. CASE \/ UNCHANGED vars \/ FirstRevision
             \/ Registration \/ Milestone \/ Replanning \/ Submission \/ Decision
    BY <2>1, <2>5 DEF vars, FirstRevision, Registration, Register, CreateTask, Milestone, RunnerCheck,
                      RunnerSave, Replanning, StartReplanning, Submission, Submit,
                      Decision, Approve, Reject, registryVars
  <2>6. QED
    BY <2>2, <2>3, <2>4, <2>5 DEF RunnerMove
<1>2. ASSUME NEW d \in drifts'
      PROVE  d.source = ProviderOf[Billing] /\ d.revision >= 2
  <2>1. CASE d \in drifts
    BY <1>0, <2>1 DEF ChangesOfBilling
  <2>2. ASSUME NEW e \in Events, HandleEvent(e), d \notin drifts
        PROVE  d.source = ProviderOf[Billing] /\ d.revision >= 2
    <3>1. d \in NewDrifts(e)
      BY <2>2 DEF HandleEvent
    <3>2. d.source = ProviderOf[outbox[e].contract] /\ d.revision = outbox[e].revision
      BY <3>1 DEF NewDrifts
    <3>3. outbox[e] # NoEvent
      BY <1>0, <2>2, HandleEventType
    <3>4. QED
      BY <1>0, <3>2, <3>3 DEF ChangesOfBilling
  <2>3. ASSUME NEW ds, drifts' = Resolve(ds)
        PROVE  d.source = ProviderOf[Billing] /\ d.revision >= 2
    BY <1>0, <2>3, ResolveKeeps DEF ChangesOfBilling
  <2>4. QED
    BY <2>1, <2>2, <2>3, DriftMoves
<1>3. QED
  BY <1>1, <1>2 DEF ChangesOfBilling


\* Resolving drifts loses none, as no two drifts of a task were raised at once.
LEMMA ResolveKeepsOrder ==
  ASSUME LedgerInv, DriftsAreOrdered, NEW ds, drifts' = Resolve(ds)
  PROVE  DriftsAreOrdered'
<1> DEFINE f == [d \in drifts |-> IF d \in ds THEN [d EXCEPT !.active = FALSE] ELSE d]
<1>0. IsFiniteSet(drifts) /\ drifts \subseteq DriftEvents
  BY DEF LedgerInv, LedgerTypeOK
<1>1. drifts' = { f[d] : d \in drifts }
  BY DEF Resolve
<1>2. \A d \in drifts : f[d].task = d.task /\ f[d].at = d.at
  BY <1>0 DEF DriftEvents
<1>3. \A d, o \in drifts : f[d].task = f[o].task /\ f[d].at = f[o].at => d = o
  BY <1>2 DEF DriftsAreOrdered
<1>4. f \in Injection(drifts, drifts') /\ f \in Surjection(drifts, drifts')
  <2>1. f \in [drifts -> drifts']
    BY <1>1
  <2>2. \A d, o \in drifts : f[d] = f[o] => d = o
    BY <1>3
  <2>3. \A y \in drifts' : \E d \in drifts : f[d] = y
    BY <1>1
  <2> HIDE DEF f
  <2>4. QED
    BY <2>1, <2>2, <2>3 DEF Injection, IsInjective, Surjection
<1>5. Cardinality(drifts') = Cardinality(drifts)
  BY <1>0, <1>4, FS_Surjection
<1>6. \A d \in drifts' : d.at <= Cardinality(drifts')
  BY <1>1, <1>2, <1>5 DEF DriftsAreOrdered
<1>7. ASSUME NEW d \in drifts', NEW o \in drifts', d.task = o.task, d.at = o.at
      PROVE  d = o
  <2>1. PICK x \in drifts, y \in drifts : d = f[x] /\ o = f[y]
    BY <1>1
  <2> HIDE DEF f
  <2>2. x = y
    BY <1>3, <1>7, <2>1
  <2>3. QED
    BY <2>1, <2>2
<1>8. QED
  BY <1>6, <1>7 DEF DriftsAreOrdered

\* The drifts of an event come after all earlier ones, one for each task.
LEMMA HandledOrder ==
  ASSUME LedgerInv, DriftsAreOrdered, NEW e \in Events, HandleEvent(e),
         outbox[e].intervention
  PROVE  DriftsAreOrdered'
<1> DEFINE n == Cardinality(drifts)
<1>0. IsFiniteSet(drifts) /\ drifts \subseteq DriftEvents /\ n \in Nat
  BY FS_CardinalityType DEF LedgerInv, LedgerTypeOK
<1>1. drifts' = drifts \cup NewDrifts(e) /\ IsFiniteSet(drifts')
  BY HandleEventType DEF HandleEvent
<1>2. \A d \in NewDrifts(e) : d.at = n + 1
  BY DEF NewDrifts
<1>3. ASSUME NEW d \in NewDrifts(e), NEW o \in NewDrifts(e), d.task = o.task
      PROVE  d = o
  <2> DEFINE new(t) == [task |-> t, source |-> ProviderOf[outbox[e].contract],
                        revision |-> outbox[e].revision, event |-> e,
                        at |-> Cardinality(drifts) + 1, active |-> TRUE]
  <2>1. PICK t, u : d = new(t) /\ o = new(u)
    BY DEF NewDrifts
  <2>2. t = u
    BY <1>3, <2>1
  <2>3. QED
    BY <2>1, <2>2
<1>4. \A d \in drifts : d.at \in Nat /\ d.at <= n
  BY <1>0 DEF DriftsAreOrdered, DriftEvents
<1>5. Cardinality(drifts') \in Nat /\ n <= Cardinality(drifts')
  BY <1>1, FS_Subset, FS_CardinalityType
<1>6. ASSUME NEW x \in NewDrifts(e) PROVE n + 1 <= Cardinality(drifts')
  <2>1. x \notin drifts
    BY <1>0, <1>2, <1>4
  <2>2. Cardinality(drifts \cup {x}) = n + 1
    BY <1>0, <2>1, FS_AddElement
  <2>3. drifts \cup {x} \in SUBSET drifts'
    BY <1>1
  <2>4. QED
    BY <1>1, <2>2, <2>3, FS_Subset
<1>7. \A d \in drifts' : d.at <= Cardinality(drifts')
  <2>1. ASSUME NEW d \in drifts PROVE d.at <= Cardinality(drifts')
    BY <1>0, <1>4, <1>5
  <2>2. QED
    BY <1>1, <1>2, <1>6, <2>1
<1>8. ASSUME NEW d \in drifts', NEW o \in drifts', d.task = o.task, d.at = o.at
      PROVE  d = o
  <2>1. CASE d \in drifts /\ o \in drifts
    BY <1>8, <2>1 DEF DriftsAreOrdered
  <2>2. CASE d \in NewDrifts(e) /\ o \in NewDrifts(e)
    BY <1>3, <1>8, <2>2
  <2>3. CASE d \in drifts /\ o \in NewDrifts(e)
    <3>1. d.at <= n /\ d.at = n + 1 /\ d.at \in Nat
      BY <1>2, <1>4, <1>8, <2>3
    <3>2. QED
      BY <1>0, <3>1
  <2>4. CASE d \in NewDrifts(e) /\ o \in drifts
    <3>1. o.at <= n /\ o.at = n + 1 /\ o.at \in Nat
      BY <1>2, <1>4, <1>8, <2>4
    <3>2. QED
      BY <1>0, <3>1
  <2>5. QED
    BY <1>1, <2>1, <2>2, <2>3, <2>4
<1>9. QED
  BY <1>7, <1>8 DEF DriftsAreOrdered

LEMMA OrderStep ==
  ASSUME RunnerInv, RunnerMove
  PROVE  DriftsAreOrdered'
<1>1. LedgerInv /\ DriftsAreOrdered
  BY DEF RunnerInv
<1>2. CASE drifts' = drifts
  BY <1>1, <1>2 DEF DriftsAreOrdered
<1>3. QED
  BY <1>1, <1>2, DriftMoves, ResolveKeepsOrder, HandledOrder

\* An event becomes PROCESSED only by its handler.
LEMMA ProcessedBy ==
  ASSUME RunnerInv, RunnerMove, NEW e \in Events, inbox'[e].status = "PROCESSED"
  PROVE  inbox[e].status = "PROCESSED" \/ HandleEvent(e)
<1>0. LedgerInv /\ inbox \in [Events -> Inboxes]
  BY DEF RunnerInv, LedgerInv, LedgerTypeOK
<1>1. CASE inbox' = inbox
  BY <1>1
<1>2. ASSUME NEW f \in Events, Ingest(f)
      PROVE  inbox[e].status = "PROCESSED"
  BY <1>0, <1>2 DEF Ingest
<1>3. ASSUME NEW f \in Events, HandleEvent(f), f # e
      PROVE  inbox[e].status = "PROCESSED"
  BY <1>0, <1>3 DEF HandleEvent
<1>4. ASSUME NEW w \in Workers, RecordFailure(w)
      PROVE  inbox[e].status = "PROCESSED"
  <2>1. failing[w] \in Events
    BY <1>4 DEF RunnerInv, LedgerInv, LedgerTypeOK, RecordFailure
  <2>2. QED
    BY <1>0, <1>4, <2>1 DEF RecordFailure
<1>5. CASE InboxNext
  BY <1>1, <1>2, <1>3, <1>4, <1>5
  DEF InboxNext, Process, CommitLost, Abort, Collide, LoseFailure
<1>6. CASE \/ UNCHANGED vars \/ FirstRevision \/ NextRevision \/ Announcement
           \/ Registration \/ Milestone \/ Replanning \/ Submission \/ Decision
  BY <1>1, <1>6 DEF vars, FirstRevision, NextRevision, Publish, Announcement, Registration,
              Register, CreateTask, Milestone, RunnerCheck, RunnerSave, Replanning, StartReplanning,
              Submission, Submit, Decision, Approve, Reject, inboxVars
<1>7. QED
  BY <1>5, <1>6 DEF RunnerMove


-----------------------------------------------------------------------------
(* The workflows and their tasks. *)

LEMMA StatusesStep ==
  ASSUME RunnerInv, WorkflowsGoOn, \A u \in Tasks : TaskGoesOn(u)
  PROVE  TasksFollowWorkflows'
<1> SUFFICES ASSUME NEW t \in Tasks
             PROVE  /\ pc'[t] \in {"idle", "register"} => status'[t] = "NONE"
                    /\ status'[t] = "NONE" => pc'[t] \in {"idle", "register", "raised"}
                    /\ status'[t] \in {"AWAITING_APPROVAL", "RECONCILED"} => pc'[t] = "finished"
                    /\ status'[t] # "COMPLETED"
  BY DEF TasksFollowWorkflows
<1>1. /\ pc[t] \in {"idle", "register"} => status[t] = "NONE"
      /\ status[t] = "NONE" => pc[t] \in {"idle", "register", "raised"}
      /\ status[t] \in {"AWAITING_APPROVAL", "RECONCILED"} => pc[t] = "finished"
      /\ status[t] # "COMPLETED"
  BY DEF RunnerInv, TasksFollowWorkflows
<1>2. /\ pc'[t] \in {"idle", "register"} => pc[t] \in {"idle", "register"}
      /\ pc'[t] \notin {"idle", "register", "raised"} =>
           pc[t] \notin {"idle", "register", "raised"} \/ status'[t] # "NONE"
      /\ pc[t] = "finished" => pc'[t] = "finished"
  BY DEF WorkflowsGoOn, GoesOn
<1>3. QED
  BY <1>1, <1>2 DEF TaskGoesOn, Interruptible, Before

LEMMA BindingsStep ==
  ASSUME RunnerInv, \A u \in Tasks : TaskGoesOn(u)
  PROVE  BindingsFollowTasks'
<1> SUFFICES ASSUME NEW t \in Tasks
             PROVE  /\ status'[t] = "NONE" => binding'[t][Billing] = 0
                    /\ status'[t] \notin {"NONE", "RECONCILED"} => binding'[t][Billing] = 1
                    /\ status'[t] = "RECONCILED" => binding'[t][Billing] >= 2
  BY DEF BindingsFollowTasks
<1>1. /\ status[t] = "NONE" => binding[t][Billing] = 0
      /\ status[t] \notin {"NONE", "RECONCILED"} => binding[t][Billing] = 1
      /\ status[t] = "RECONCILED" => binding[t][Billing] >= 2
  BY DEF RunnerInv, BindingsFollowTasks
<1>2. pc[t] \in {"save_1", "save_2", "replan"} => status[t] \notin {"NONE", "RECONCILED"}
  BY DEF RunnerInv, TasksFollowWorkflows
<1>3. QED
  BY <1>1, <1>2 DEF TaskGoesOn, Kept, Interruptible, Before

\* What a step keeps of a task's interventions.
LEMMA KeptDrifts ==
  ASSUME NEW t \in Tasks, DriftsOf(t)' = DriftsOf(t)
  PROVE  ActiveDriftsOf(t)' = ActiveDriftsOf(t)
BY DEF ActiveDriftsOf

LEMMA ReasonsStep ==
  ASSUME RunnerInv, WorkflowsGoOn, \A u \in Tasks : TaskGoesOn(u)
  PROVE  PlansHaveReasons'
<1> SUFFICES ASSUME NEW t \in Tasks
             PROVE  /\ status'[t] \in {"REPLAN_REQUIRED", "REPLANNING", "AWAITING_APPROVAL"}
                         => ActiveDriftsOf(t)' # {}
                    /\ Planning(t)' => ActiveDriftsOf(t)' # {}
                    /\ Planning(t)' => plan'[t] \in DriftEvents /\ plan'[t].task = t
  BY DEF PlansHaveReasons
<1>1. /\ status[t] \in {"REPLAN_REQUIRED", "REPLANNING", "AWAITING_APPROVAL"} \/ Planning(t)
           => ActiveDriftsOf(t) # {}
      /\ Planning(t) => plan[t] \in DriftEvents /\ plan[t].task = t
  BY DEF RunnerInv, PlansHaveReasons
<1>2. Planning(t)' => \/ Planning(t) /\ plan'[t] = plan[t]
                      \/ plan'[t] \in ActiveDriftsOf(t)
  BY DEF WorkflowsGoOn, GoesOn
<1>3. ActiveDriftsOf(t) \subseteq { d \in DriftEvents : d.task = t }
  BY DEF ActiveDriftsOf, DriftsOf, RunnerInv, LedgerInv, LedgerTypeOK
<1>4. pc[t] = "replan" => Planning(t)
  BY DEF Planning
<1>5. \/ ActiveDriftsOf(t)' # {}
      \/ status'[t] = "RECONCILED" /\ ~Planning(t)'
      \/ ActiveDriftsOf(t)' = ActiveDriftsOf(t)
  BY KeptDrifts DEF TaskGoesOn, Kept, Planning
<1>6. ASSUME ActiveDriftsOf(t)' = ActiveDriftsOf(t),
             status'[t] \in {"REPLAN_REQUIRED", "REPLANNING", "AWAITING_APPROVAL"}
      PROVE  ActiveDriftsOf(t)' # {}
  BY <1>1, <1>4, <1>6 DEF TaskGoesOn, Before
<1>7. QED
  BY <1>1, <1>2, <1>3, <1>5, <1>6

LEMMA PlansStep ==
  ASSUME RunnerInv, WorkflowsGoOn, \A u \in Tasks : TaskGoesOn(u)
  PROVE  PlansAreCurrent'
<1> SUFFICES ASSUME NEW t \in Tasks, status'[t] \in {"REPLANNING", "AWAITING_APPROVAL"},
                    NEW d \in DriftsOf(t)'
             PROVE  d.at <= since'[t]
  BY DEF PlansAreCurrent
<1>1. \/ Before(t) /\ Kept(t)
      \/ Kept(t) /\ since'[t] = Cardinality(drifts)
  BY DEF TaskGoesOn, Before
<1>2. d \in DriftsOf(t) /\ d \in drifts
  BY <1>1 DEF Kept, DriftsOf
<1>3. since'[t] = since[t] \/ since'[t] = Cardinality(drifts)
  BY DEF WorkflowsGoOn, GoesOn
<1>4. CASE since'[t] = Cardinality(drifts)
  BY <1>2, <1>4 DEF RunnerInv, DriftsAreOrdered
<1>5. CASE since'[t] = since[t] /\ Before(t)
  BY <1>2, <1>5 DEF RunnerInv, PlansAreCurrent, Before
<1>6. QED
  BY <1>1, <1>3, <1>4, <1>5

LEMMA OwnEventsStep ==
  ASSUME RunnerInv, WorkflowsGoOn, RunnerMove, \A u \in Tasks : TaskGoesOn(u)
  PROVE  OwnEventsAreOfTasks'
<1> SUFFICES ASSUME NEW t \in Tasks
             PROVE  /\ own'[t] # NoEvent => /\ outbox'[own'[t]] = Change(Billing, 2, TRUE, FALSE)
                                            /\ status'[t] # "NONE"
                    /\ pc'[t] = "ingest" => own'[t] # NoEvent
  BY DEF OwnEventsAreOfTasks
<1>1. own \in [Tasks -> Events \cup {NoEvent}] /\ own' \in [Tasks -> Events \cup {NoEvent}]
  BY DEF RunnerInv, WorkflowTypes, WorkflowsGoOn
<1>2. /\ own[t] # NoEvent => /\ outbox[own[t]] = Change(Billing, 2, TRUE, FALSE)
                             /\ status[t] # "NONE"
      /\ pc[t] = "ingest" => own[t] # NoEvent
  BY DEF RunnerInv, OwnEventsAreOfTasks
<1>3. NoEvent \notin Events /\ Change(Billing, 2, TRUE, FALSE) # NoEvent
  <2>1. Change(Billing, 2, TRUE, FALSE) \in ChangeEvents
    BY RunnerAssumption DEF Change, ChangeEvents, Revisions
  <2>2. QED
    BY <2>1, SetsAssumption
<1>4. status[t] # "NONE" => status'[t] # "NONE"
  BY DEF TaskGoesOn
<1>5. CASE own'[t] = own[t]
  <2>1. own[t] # NoEvent => outbox'[own[t]] = outbox[own[t]]
    BY <1>1, <1>2, <1>3, LedgerMoves
  <2>2. pc'[t] = "ingest" => own'[t] # NoEvent
    BY <1>2, <1>5 DEF WorkflowsGoOn, GoesOn
  <2>3. QED
    BY <1>2, <1>4, <1>5, <2>1, <2>2
<1>6. ASSUME pc[t] = "announce", own'[t] \in Events,
             outbox'[own'[t]] = Change(Billing, 2, TRUE, FALSE)
      PROVE  /\ own'[t] # NoEvent /\ outbox'[own'[t]] = Change(Billing, 2, TRUE, FALSE)
             /\ status'[t] # "NONE"
  <2>1. status[t] # "NONE"
    BY <1>6 DEF RunnerInv, TasksFollowWorkflows
  <2>2. QED
    BY <1>3, <1>4, <1>6, <2>1
<1>7. \/ own'[t] = own[t]
      \/ /\ pc[t] = "announce" /\ own'[t] \in Events
         /\ outbox'[own'[t]] = Change(Billing, 2, TRUE, FALSE)
  BY DEF WorkflowsGoOn, GoesOn
<1>8. QED
  BY <1>5, <1>6, <1>7

\* The own event of a workflow interrupts its task when it is processed, and
\* only a plan closes the intervention.
LEMMA InterruptionStep ==
  ASSUME RunnerInv, WorkflowsGoOn, RunnerMove, \A u \in Tasks : TaskGoesOn(u)
  PROVE  AbandonedTasksStayInterrupted'
<1> SUFFICES ASSUME NEW t \in Tasks, own'[t] # NoEvent, inbox'[own'[t]].status = "PROCESSED"
             PROVE  \/ ActiveDriftsOf(t)' # {}
                    \/ status'[t] = "RECONCILED" /\ binding'[t][Billing] >= 2
  BY DEF AbandonedTasksStayInterrupted
<1>0. /\ own'[t] \in Events /\ BindingsFollowTasks' /\ LedgerInv
      /\ outbox \in [Events -> ChangeEvents \cup {NoEvent}]
  BY BindingsStep DEF WorkflowsGoOn, WorkflowTypes, RunnerInv, LedgerInv, LedgerTypeOK
<1>1. CASE status'[t] = "RECONCILED"
  BY <1>0, <1>1 DEF BindingsFollowTasks
<1>2. own'[t] = own[t]
  <2>1. ASSUME outbox[own'[t]] = NoEvent
        PROVE  FALSE
    <3>1. inbox[own'[t]].status = "ABSENT"
      BY <1>0, <2>1 DEF LedgerInv, InboxBacked
    <3>2. HandleEvent(own'[t])
      BY <1>0, <3>1, ProcessedBy
    <3>3. QED
      BY <3>1, <3>2 DEF HandleEvent, Claimable
  <2>2. QED
    BY <2>1 DEF WorkflowsGoOn, GoesOn
<1>3. /\ outbox[own[t]] = Change(Billing, 2, TRUE, FALSE)
      /\ status[t] # "NONE"
  BY <1>2 DEF RunnerInv, OwnEventsAreOfTasks
<1>4. ASSUME HandleEvent(own[t]), status'[t] # "RECONCILED"
      PROVE  ActiveDriftsOf(t)' # {}
  <2>1. outbox[own[t]].contract = Billing /\ outbox[own[t]].revision = 2
        /\ outbox[own[t]].intervention
    BY <1>3 DEF Change
  <2>2. CASE t \in Affected(own[t])
    BY <1>0, <1>2, <1>4, <2>1, <2>2, HandledTasks
  <2>3. CASE t \notin Affected(own[t])
    <3>1. status'[t] = status[t] /\ DriftsOf(t)' = DriftsOf(t)
      BY <1>0, <1>2, <1>4, <2>3, HandledTasks
    <3>2. status[t] \notin {"NONE", "RECONCILED", "COMPLETED"}
      BY <1>3, <1>4, <3>1 DEF RunnerInv, TasksFollowWorkflows
    <3>3. binding[t][Billing] = 1
      BY <3>2 DEF RunnerInv, BindingsFollowTasks
    <3>4. status[t] \notin Interruptible
      BY <2>1, <2>3, <3>3 DEF Affected
    <3>5. status[t] = "REPLAN_REQUIRED"
      BY <1>0, <3>2, <3>4 DEF LedgerInv, LedgerTypeOK, Statuses, Interruptible
    <3>6. ActiveDriftsOf(t) # {}
      BY <3>5 DEF RunnerInv, PlansHaveReasons
    <3>7. QED
      BY <3>1, <3>6, KeptDrifts
  <2>4. QED
    BY <2>2, <2>3
<1>5. ASSUME inbox[own[t]].status = "PROCESSED", status'[t] # "RECONCILED"
      PROVE  ActiveDriftsOf(t)' # {}
  <2>1. ActiveDriftsOf(t) # {} \/ status[t] = "RECONCILED"
    BY <1>2, <1>5 DEF RunnerInv, AbandonedTasksStayInterrupted
  <2>2. pc[t] \notin {"register", "save_1", "save_2", "replan"} \/ status[t] # "RECONCILED"
    BY DEF RunnerInv, TasksFollowWorkflows
  <2>3. \/ ActiveDriftsOf(t)' # {}
        \/ DriftsOf(t)' = DriftsOf(t) /\ status[t] # "RECONCILED"
    BY <1>5, <2>2 DEF TaskGoesOn, Kept, Interruptible
  <2>4. QED
    BY <2>1, <2>3, KeptDrifts
<1>6. QED
  BY <1>0, <1>1, <1>2, <1>4, <1>5, ProcessedBy


-----------------------------------------------------------------------------
(* The theorems. *)

LEMMA RunnerInitially == RunnerInit => RunnerInv
<1> SUFFICES ASSUME RunnerInit PROVE RunnerInv
  OBVIOUS
<1>1. LedgerInv
  <2>1. IsFiniteSet(drifts)
    BY FS_EmptySet DEF RunnerInit
  <2>2. QED
    BY <2>1, BoundsAssumption
    DEF RunnerInit, LedgerInv, LedgerTypeOK, InboxBacked, Statuses, Inboxes, InboxStatuses
<1>2. WorkflowTypes
  BY DEF RunnerInit, WorkflowTypes, Places
<1>3. ChangesOfBilling /\ DriftsAreOrdered
  BY DEF RunnerInit, ChangesOfBilling, DriftsAreOrdered
<1>4. TasksFollowWorkflows /\ BindingsFollowTasks
  BY RunnerAssumption DEF RunnerInit, TasksFollowWorkflows, BindingsFollowTasks
<1>5. PlansHaveReasons /\ PlansAreCurrent
  BY DEF RunnerInit, PlansHaveReasons, PlansAreCurrent, Planning
<1>6. OwnEventsAreOfTasks /\ AbandonedTasksStayInterrupted
  BY DEF RunnerInit, OwnEventsAreOfTasks, AbandonedTasksStayInterrupted
<1>7. QED
  BY <1>1, <1>2, <1>3, <1>4, <1>5, <1>6 DEF RunnerInv

LEMMA RunnerStep == RunnerInv /\ [RunnerNext]_allVars => RunnerInv'
<1> SUFFICES ASSUME RunnerInv, [RunnerNext]_allVars PROVE RunnerInv'
  OBVIOUS
<1>1. WorkflowsGoOn /\ RunnerMove
  BY RunnerMoves
<1>2. \A u \in Tasks : TaskGoesOn(u)
  BY <1>1, TaskMoves
<1>3. LedgerInv' /\ WorkflowTypes'
  BY <1>1, LedgerMoves DEF WorkflowsGoOn
<1>4. ChangesOfBilling' /\ DriftsAreOrdered'
  BY <1>1, ChangesStep, OrderStep
<1>5. /\ TasksFollowWorkflows' /\ BindingsFollowTasks'
      /\ PlansHaveReasons' /\ PlansAreCurrent'
  BY <1>1, <1>2, StatusesStep, BindingsStep, ReasonsStep, PlansStep
<1>6. OwnEventsAreOfTasks' /\ AbandonedTasksStayInterrupted'
  BY <1>1, <1>2, OwnEventsStep, InterruptionStep
<1>7. QED
  BY <1>3, <1>4, <1>5, <1>6 DEF RunnerInv

\* The rows keep their types and a task keeps to its workflow, however the
\* transactions of workflows, workers, providers and operators interleave.
THEOREM WorkflowsAreSound == RunnerSpec => []RunnerInv
<1>1. QED
  BY RunnerInitially, RunnerStep, PTL DEF RunnerSpec

\* However a workflow ends, a task whose change was processed is settled at a
\* newer revision or still shows the intervention: no checkpoint, failure or
\* race of a milestone loses it (agent_runner.py:235).
THEOREM InterruptionsAreNeverLost == RunnerSpec => []AbandonedTasksStayInterrupted
<1>1. RunnerInv => AbandonedTasksStayInterrupted
  BY DEF RunnerInv
<1>2. QED
  BY WorkflowsAreSound, <1>1, PTL

\* A task moves to another revision only by a plan that was started after its
\* last interruption, also when the operator takes long or rejects at first.
THEOREM PlansAreNeverStale == RunnerSpec => PlansAnswerTheLastInterruption
<1>1. ASSUME RunnerInv, [RunnerNext]_allVars
      PROVE  [\A t \in Tasks : binding[t][Billing] # 0 /\ binding'[t] # binding[t]
                => \A d \in DriftsOf(t) : d.at <= since[t]]_allVars
  <2>1. SUFFICES ASSUME NEW t \in Tasks, binding[t][Billing] # 0,
                        binding'[t] # binding[t], NEW d \in DriftsOf(t)
                 PROVE  d.at <= since[t]
    OBVIOUS
  <2>2. TaskGoesOn(t)
    BY <1>1, RunnerMoves, TaskMoves
  <2>3. pc[t] # "register"
    BY <1>1, <2>1 DEF RunnerInv, TasksFollowWorkflows, BindingsFollowTasks
  <2>4. Before(t)
    BY <2>1, <2>2, <2>3 DEF TaskGoesOn, Kept
  <2>5. QED
    BY <1>1, <2>4 DEF RunnerInv, PlansAreCurrent, Before
<1>2. QED
  BY <1>1, WorkflowsAreSound, PTL DEF RunnerSpec, PlansAnswerTheLastInterruption
=============================================================================
