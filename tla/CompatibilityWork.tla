-------------------------- MODULE CompatibilityWork --------------------------
(***************************************************************************)
(* The life of a compatibility work item: its creation for one consumer    *)
(* dependency, its delivery by the dispatcher (polling or webhook), the    *)
(* claim that turns it into an agent task, the evidence and incidents its  *)
(* harness reports, and the operator's decisions.                          *)
(*                                                                         *)
(* Each action is one committed SERIALIZABLE transaction, except the       *)
(* webhook call: the dispatcher leases an item in one transaction, posts   *)
(* it outside any transaction and records the outcome in a third step, so  *)
(* what it still holds between these steps is state (lane).                *)
(*                                                                         *)
(* All items are obligations of one consumer service and repository, and   *)
(* every harness is registered for it.  The dependency an item was created *)
(* for is a CONFIRMED row at revision 1 of the provider's contract.        *)
(* Drift workers interrupt the tasks of items like any other, so plans     *)
(* made for drifts also move them.  The drifts themselves are in           *)
(* Reconciliation; here a plan may be approved for any open task at any    *)
(* time.                                                                   *)
(***************************************************************************)
EXTENDS Integers, FiniteSets

CONSTANTS
  Items,           \* compatibility_work_items.work_item_id
  RevisionOf,      \* source_contract_revision of each item
  Changes,         \* revisions the drifts of tasks may have been raised for
  Harnesses,       \* harness_registrations.harness_id
  Webhooks,        \* the harnesses whose dispatch_mode is webhook, not poll
  Dispatchers,     \* coordinator processes running the dispatcher loop
  MaxAttempts,     \* MAX_DISPATCH_ATTEMPTS
  MaxDispatches,   \* bound: leases of one item a behaviour may contain
  MaxClaims,       \* bound: claims of one item a behaviour may contain
  MaxFaults,       \* bound: crashes and database faults of the dispatchers
  Nobody, Idle

WorkStates == {"ABSENT", "PENDING", "DISPATCHED", "ACKNOWLEDGED", "EXECUTING",
               "AWAITING_APPROVAL", "VERIFIED", "COMPLETED", "REVIEW_REQUIRED",
               "BLOCKED", "INCOMPATIBLE", "FAILED", "EXPIRED", "CANCELLED"}

Deliveries == [item : Items, attempt : Nat \ {0},
               step : {"POSTING", "ACCEPTED", "REFUSED"}]

\* The n-th task created for an item, the harness it belongs to, the revision
\* it is bound to, whether a plan has been approved for it (last_reconciled_at
\* is set) and whether it is COMPLETED.
AgentTasks == [item : Items, n : Nat \ {0}, by : Harnesses, bound : Nat \ {0},
               replanned : BOOLEAN, completed : BOOLEAN]

AssumedRevision == 1

ASSUME ItemsAssumption ==
  /\ RevisionOf \in [Items -> Nat \ {0}]
  /\ Changes \subseteq Nat \ {0}
  /\ Webhooks \subseteq Harnesses
  /\ Nobody \notin Harnesses /\ Idle \notin Deliveries

ASSUME LimitsAssumption ==
  /\ MaxAttempts \in Nat \ {0} /\ MaxDispatches \in Nat
  /\ MaxClaims \in Nat /\ MaxFaults \in Nat

VARIABLES
  harness,    \* harness_registrations.status, "NONE" before registration
  state,      \* compatibility_work_items.state
  owner,      \* compatibility_work_items.harness_id
  attempts,   \* compatibility_work_items.dispatch_attempts
  current,    \* compatibility_work_items.task_id, as the task's n; 0 for null
  evidence,   \* items whose payload holds a result
  tasks,      \* active_agent_tasks created for items
  rows,       \* revisions of the contract with a CONFIRMED dependency row
  lane,       \* per dispatcher: the delivery it is busy with
  faults      \* faults so far

itemVars == <<state, owner, attempts, current, evidence>>
taskVars == <<tasks, rows>>
loopVars == <<lane, faults>>
vars == <<harness, state, owner, attempts, current, evidence, tasks, rows, lane, faults>>

Queue == {"PENDING", "DISPATCHED"}

Active == { h \in Harnesses : harness[h] = "ACTIVE" }

Move(i, s) == state' = [state EXCEPT ![i] = s]

-----------------------------------------------------------------------------
(* Harness registrations. *)

Register(h) ==
  /\ harness[h] = "NONE"
  /\ harness' = [harness EXCEPT ![h] = "ACTIVE"]
  /\ UNCHANGED <<itemVars, taskVars, loopVars>>

\* disable_harness keeps the work that is assigned to the harness.
Disable(h) ==
  /\ harness[h] = "ACTIVE"
  /\ harness' = [harness EXCEPT ![h] = "DISABLED"]
  /\ UNCHANGED <<itemVars, taskVars, loopVars>>

-----------------------------------------------------------------------------
(* Creation and delivery. *)

\* Variant: uncertain work gets a state the migration's CHECK does not list.
CreateInReview(i, review) ==
  /\ state[i] = "ABSENT"
  /\ Move(i, IF review THEN "IN_REVIEW" ELSE "PENDING")
  /\ \E h \in IF Active = {} THEN {Nobody} ELSE Active :
       owner' = [owner EXCEPT ![i] = h]
  /\ UNCHANGED <<harness, attempts, current, evidence, taskVars, loopVars>>

\* create_compatibility_work_for_contract_change: the item goes to an active
\* harness of the consumer when there is one.
Create(i, review) ==
  /\ state[i] = "ABSENT"
  /\ Move(i, IF review THEN "REVIEW_REQUIRED" ELSE "PENDING")
  /\ \E h \in IF Active = {} THEN {Nobody} ELSE Active :
       owner' = [owner EXCEPT ![i] = h]
  /\ UNCHANGED <<harness, attempts, current, evidence, taskVars, loopVars>>

\* claim_next_dispatch.  SKIP LOCKED lets two dispatchers overtake each other,
\* so any item may be next; a poll harness only gets its POLL_READY record.
Dispatch(d, i) ==
  /\ lane[d] = Idle
  /\ state[i] = "PENDING" /\ owner[i] \in Active
  /\ attempts[i] < MaxDispatches
  /\ Move(i, "DISPATCHED")
  /\ attempts' = [attempts EXCEPT ![i] = @ + 1]
  /\ lane' = IF owner[i] \in Webhooks
             THEN [lane EXCEPT ![d] = [item |-> i, attempt |-> attempts[i] + 1,
                                       step |-> "POSTING"]]
             ELSE lane
  /\ UNCHANGED <<harness, owner, current, evidence, taskVars, faults>>

\* The POST ends: accepted with a 2xx, or refused, failed or timed out, in
\* which case the harness may well have received it.
Answer(d, outcome) ==
  /\ lane[d] # Idle /\ lane[d].step = "POSTING"
  /\ lane' = [lane EXCEPT ![d].step = outcome]
  /\ UNCHANGED <<harness, itemVars, taskVars, faults>>

Acknowledge(d) ==
  IF state[lane[d].item] = "DISPATCHED" THEN Move(lane[d].item, "ACKNOWLEDGED")
                                        ELSE state' = state

\* record_webhook_delivery of a success.
RecordAccepted(d) ==
  /\ lane[d] # Idle /\ lane[d].step = "ACCEPTED"
  /\ Acknowledge(d)
  /\ lane' = [lane EXCEPT ![d] = Idle]
  /\ UNCHANGED <<harness, owner, attempts, current, evidence, taskVars, faults>>

\* Recording the success raises, before or after its commit: the handler of
\* dispatch_one_pending_work_item goes on to record a failure.
RecordAcceptedFails(d) ==
  /\ lane[d] # Idle /\ lane[d].step = "ACCEPTED" /\ faults < MaxFaults
  /\ Acknowledge(d) \/ UNCHANGED state
  /\ lane' = [lane EXCEPT ![d].step = "REFUSED"]
  /\ faults' = faults + 1
  /\ UNCHANGED <<harness, owner, attempts, current, evidence, taskVars>>

\* record_webhook_delivery of a failure: no condition on the item's state.
RecordRefused(d) ==
  /\ lane[d] # Idle /\ lane[d].step = "REFUSED"
  /\ Move(lane[d].item, IF lane[d].attempt >= MaxAttempts THEN "FAILED" ELSE "PENDING")
  /\ lane' = [lane EXCEPT ![d] = Idle]
  /\ UNCHANGED <<harness, owner, attempts, current, evidence, taskVars, faults>>

\* The process dies, or recording the failure raises too and the loop goes on.
LoseDelivery(d) ==
  /\ lane[d] # Idle /\ faults < MaxFaults
  /\ lane' = [lane EXCEPT ![d] = Idle]
  /\ faults' = faults + 1
  /\ UNCHANGED <<harness, itemVars, taskVars>>

\* Variants: the recovery also takes acknowledged or expired items; it does not
\* run.
RecoverExpired(d, stale) ==
  /\ lane[d] = Idle
  /\ stale # {} /\ \A i \in stale : state[i] \in {"DISPATCHED", "ACKNOWLEDGED"}
  /\ state' = [i \in Items |-> IF i \in stale THEN "PENDING" ELSE state[i]]
  /\ UNCHANGED <<harness, owner, attempts, current, evidence, taskVars, loopVars>>
RecoverDropped(d, stale) ==
  /\ lane[d] = Idle
  /\ stale # {} /\ \A i \in stale : state[i] \in {"DISPATCHED", "EXPIRED"}
  /\ state' = [i \in Items |-> IF i \in stale THEN "PENDING" ELSE state[i]]
  /\ UNCHANGED <<harness, owner, attempts, current, evidence, taskVars, loopVars>>
RecoverNothing(d, stale) == FALSE

\* recover_stale_dispatches, by a loop that has no delivery of its own: every
\* item whose lease is older than the timeout.  Time is not modelled, so any
\* set of dispatched items may be the old ones.
RecoverStale(d, stale) ==
  /\ lane[d] = Idle
  /\ stale # {} /\ \A i \in stale : state[i] = "DISPATCHED"
  /\ state' = [i \in Items |-> IF i \in stale THEN "PENDING" ELSE state[i]]
  /\ UNCHANGED <<harness, owner, attempts, current, evidence, taskVars, loopVars>>

-----------------------------------------------------------------------------
(* Harness requests. *)

ClaimsOf(i) == { t \in tasks : t.item = i }

\* claim_next_work_item: an item assigned to the harness, or to nobody.
Claim(h, i) ==
  /\ h \in Active
  /\ state[i] \in Queue /\ owner[i] \in {h, Nobody}
  /\ Cardinality(ClaimsOf(i)) < MaxClaims
  /\ Move(i, "ACKNOWLEDGED")
  /\ owner' = [owner EXCEPT ![i] = h]
  /\ LET n == Cardinality(ClaimsOf(i)) + 1 IN
       /\ current' = [current EXCEPT ![i] = n]
       /\ tasks' = tasks \cup {[item |-> i, n |-> n, by |-> h,
                                bound |-> AssumedRevision, replanned |-> FALSE,
                                completed |-> FALSE]}
  /\ UNCHANGED <<harness, attempts, evidence, rows, loopVars>>

\* record_harness_checkpoint of the item's current task.
Checkpoint(h, i) ==
  /\ h \in Active
  /\ \E t \in ClaimsOf(i) : t.by = h /\ t.n = current[i]
  /\ state[i] = "ACKNOWLEDGED"
  /\ Move(i, "EXECUTING")
  /\ UNCHANGED <<harness, owner, attempts, current, evidence, taskVars, loopVars>>

\* record_compatibility_result; the evidence passed its tests.
Result(h, i) ==
  /\ h \in Active /\ owner[i] = h
  /\ state[i] \in {"EXECUTING", "ACKNOWLEDGED", "AWAITING_APPROVAL"}
  /\ Move(i, "AWAITING_APPROVAL")
  /\ evidence' = evidence \cup {i}
  /\ UNCHANGED <<harness, owner, attempts, current, taskVars, loopVars>>

\* record_compatibility_incident.
Incident(h, i, outcome) ==
  /\ h \in Active /\ owner[i] = h
  /\ state[i] \notin {"ABSENT", "COMPLETED", "CANCELLED", "FAILED"}
  /\ Move(i, outcome)
  /\ UNCHANGED <<harness, owner, attempts, current, evidence, taskVars, loopVars>>

\* Variant: no look at the work item of the task.
CompleteAnyTask(h, t) ==
  /\ h \in Active /\ t \in tasks /\ t.by = h /\ ~t.completed
  /\ tasks' = (tasks \ {t}) \cup {[t EXCEPT !.completed = TRUE]}
  /\ UNCHANGED <<harness, itemVars, rows, loopVars>>

\* complete_harness_task refuses the task of a work item.
CompleteTask(h, t) ==
  /\ h \in Active /\ t \in tasks /\ t.by = h /\ ~t.completed
  /\ current[t.item] # t.n
  /\ tasks' = (tasks \ {t}) \cup {[t EXCEPT !.completed = TRUE]}
  /\ UNCHANGED <<harness, itemVars, rows, loopVars>>

-----------------------------------------------------------------------------
(* Operator decisions. *)

\* Only a task that still is on the row its item was created for.
Rebound(i) ==
  { IF t.item = i /\ t.n = current[i] /\ t.bound = AssumedRevision
    THEN [t EXCEPT !.bound = RevisionOf[i]] ELSE t : t \in tasks }

\* Variant: the dependency is confirmed, the task stays where it was.
ApproveWithoutRebinding(i) ==
  /\ state[i] = "AWAITING_APPROVAL"
  /\ Move(i, "VERIFIED")
  /\ rows' = rows \cup {RevisionOf[i]}
  /\ UNCHANGED <<harness, owner, attempts, current, evidence, tasks, loopVars>>

\* approve_compatibility_work: confirm the dependency at the new revision and
\* move the item's task to it.
Approve(i) ==
  /\ state[i] = "AWAITING_APPROVAL"
  /\ Move(i, "VERIFIED")
  /\ rows' = rows \cup {RevisionOf[i]}
  /\ tasks' = Rebound(i)
  /\ UNCHANGED <<harness, owner, attempts, current, evidence, loopVars>>

\* approve_reconciled_plan, or a submission that needs no approval, for a task
\* of any item: confirm the dependency at the drift's revision and move the
\* task to it, whatever revision it is bound to and whatever became of its item.
Replan(t, revision) ==
  /\ t \in tasks /\ ~t.completed
  /\ rows' = rows \cup {revision}
  /\ tasks' = (tasks \ {t}) \cup {[t EXCEPT !.bound = revision, !.replanned = TRUE]}
  /\ UNCHANGED <<harness, itemVars, loopVars>>

\* complete, cancel, fail and expire write nothing but the state.
Decide(i, from, to) ==
  /\ state[i] \in from
  /\ Move(i, to)
  /\ UNCHANGED <<harness, owner, attempts, current, evidence, taskVars, loopVars>>

Complete(i) == Decide(i, {"VERIFIED"}, "COMPLETED")
Cancel(i)   == Decide(i, WorkStates \ {"ABSENT", "COMPLETED", "CANCELLED"}, "CANCELLED")
Fail(i)     == Decide(i, WorkStates \ {"ABSENT"}, "FAILED")
Expire(i)   == Decide(i, Queue \cup {"ACKNOWLEDGED", "EXECUTING"}, "EXPIRED")

-----------------------------------------------------------------------------

Init ==
  /\ harness = [h \in Harnesses |-> "NONE"]
  /\ state = [i \in Items |-> "ABSENT"]
  /\ owner = [i \in Items |-> Nobody]
  /\ attempts = [i \in Items |-> 0]
  /\ current = [i \in Items |-> 0]
  /\ evidence = {}
  /\ tasks = {}
  /\ rows = {AssumedRevision}
  /\ lane = [d \in Dispatchers |-> Idle]
  /\ faults = 0

DispatcherNext ==
  \E d \in Dispatchers :
    \/ \E i \in Items : Dispatch(d, i)
    \/ \E outcome \in {"ACCEPTED", "REFUSED"} : Answer(d, outcome)
    \/ RecordAccepted(d) \/ RecordAcceptedFails(d) \/ RecordRefused(d)
    \/ LoseDelivery(d)
    \/ \E stale \in SUBSET Items : RecoverStale(d, stale)

HarnessNext ==
  \E h \in Harnesses :
    \/ Register(h) \/ Disable(h)
    \/ \E i \in Items : \/ Claim(h, i) \/ Checkpoint(h, i) \/ Result(h, i)
                        \/ \E outcome \in {"BLOCKED", "INCOMPATIBLE"} : Incident(h, i, outcome)
    \/ \E t \in tasks : CompleteTask(h, t)

OperatorNext ==
  \E i \in Items :
    \/ \E review \in BOOLEAN : Create(i, review)
    \/ Approve(i) \/ Complete(i) \/ Cancel(i) \/ Fail(i) \/ Expire(i)

PlanNext == \E t \in tasks, revision \in Changes : Replan(t, revision)

Next == DispatcherNext \/ HarnessNext \/ OperatorNext \/ PlanNext

Spec == Init /\ [][Next]_vars

\* The loop of every dispatcher runs for as long as the coordinator does, the
\* POST has a timeout, and leases grow old.  Nothing is assumed of harnesses
\* and operators.
Fairness ==
  \A d \in Dispatchers :
    /\ WF_vars(\E outcome \in {"ACCEPTED", "REFUSED"} : Answer(d, outcome))
    /\ WF_vars(RecordAccepted(d) \/ RecordRefused(d))
    /\ \A i \in Items : /\ SF_vars(Dispatch(d, i))
                        /\ SF_vars(\E stale \in SUBSET Items :
                                     i \in stale /\ RecoverStale(d, stale))

FairSpec == Spec /\ Fairness
-----------------------------------------------------------------------------
(* Properties. *)

\* The columns hold values of their types.
TypeOK ==
  /\ harness \in [Harnesses -> {"NONE", "ACTIVE", "DISABLED"}]
  /\ state \in [Items -> WorkStates]
  /\ owner \in [Items -> Harnesses \cup {Nobody}]
  /\ attempts \in [Items -> 0..MaxDispatches]
  /\ current \in [Items -> 0..MaxClaims]
  /\ evidence \subseteq Items
  /\ tasks \subseteq AgentTasks /\ IsFiniteSet(tasks)
  /\ rows \subseteq Nat \ {0}
  /\ lane \in [Dispatchers -> Deliveries \cup {Idle}]
  /\ faults \in 0..MaxFaults

\* A verified or completed item has test evidence, its revision is a confirmed
\* dependency row, and its task, if it was claimed, is bound to a confirmed row:
\* the item's own, unless a plan for a drift has moved the task, before or after
\* the approval of the item.  No order of late deliveries, second claims and
\* decisions on items and plans separates them otherwise
\* (compatibility.py:787-834, 1002-1108; reconciliation.py:399-464).
VerifiedWorkIsBound ==
  \A i \in Items : state[i] \in {"VERIFIED", "COMPLETED"} =>
    /\ i \in evidence
    /\ RevisionOf[i] \in rows
    /\ \A t \in ClaimsOf(i) : t.n = current[i] =>
         /\ t.bound \in rows
         /\ t.bound = RevisionOf[i] \/ t.replanned

\* The task of a work item exists, belongs to the harness the item is assigned
\* to and is never completed on its own, so that the approval lifecycle cannot
\* be bypassed (compatibility.py:630-635).
CurrentTaskIsOpen ==
  \A i \in Items : current[i] # 0 =>
    \E t \in tasks : /\ t.item = i /\ t.n = current[i]
                     /\ t.by = owner[i] /\ ~t.completed

\* Work that no webhook harness owns becomes at most one agent task, whichever
\* harnesses race for it and whatever the dispatcher does meanwhile
\* (compatibility.py:379-383).
PolledWorkIsClaimedOnce ==
  \A s, t \in tasks : s.item = t.item /\ owner[s.item] \notin Webhooks => s = t

\* Work that no webhook harness owns never returns from a terminal or escalation
\* state (PROJECT_CHARTER.md:368) to the queue.
PolledWorkIsNotRevived ==
  [][\A i \in Items :
       /\ owner[i] \notin Webhooks
       /\ state[i] \in {"BLOCKED", "INCOMPATIBLE", "FAILED", "EXPIRED", "CANCELLED"}
       => state'[i] \notin Queue]_vars

\* Work queued for an active webhook harness leaves the queue: it is claimed,
\* acknowledged, decided on or failed, although dispatchers crash in between.
DeliveryEnds ==
  \A i \in Items :
    state[i] \in Queue /\ owner[i] \in Webhooks
      ~> state[i] \notin Queue \/ owner[i] \notin Active
=============================================================================
