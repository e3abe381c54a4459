---------------------------- MODULE SlackNotifier ----------------------------
(***************************************************************************)
(* The Slack projection of the outbox: the notifier loop leases the oldest *)
(* event that is due, posts it outside any transaction and records the     *)
(* attempt in a second one.  The process may die at any step, a record may *)
(* fail before or after its commit, and leases and backoffs run out.       *)
(*                                                                         *)
(* One coordinator process runs one notifier loop, so there is one lane.   *)
(* The tables are those of migration 005, with its CHECK and its UNIQUE.   *)
(***************************************************************************)
EXTENDS Integers, FiniteSets

CONSTANTS
  Events,        \* notifiable coordinator_outbox rows, by their created_at order
  Quiet,         \* those that are a CONTRACT_CHANGED without intervention
  MaxAttempts,   \* MAX_ATTEMPTS
  MaxFaults,     \* bound: crashes and database faults
  Idle

\* valid_slack_delivery_status; "NONE" stands for no row.
ValidStatuses == {"PENDING", "DELIVERING", "DELIVERED", "RETRY_READY", "FAILED"}

Outcomes == {"DELIVERED", "PERMANENT_FAILURE", "RETRYABLE_FAILURE"}

Attempts == [event : Events, number : Nat \ {0}, outcome : Outcomes]

\* A claimed event on its way: being posted, or answered and to be recorded, by
\* the first call of record_delivery or by the one of the exception handler.
Lanes == [event : Events, number : Nat \ {0}, outcome : Outcomes \cup {"POSTING"},
          again : BOOLEAN]

ASSUME EventsAssumption == Events \subseteq Nat /\ Quiet \subseteq Events

ASSUME LimitsAssumption ==
  /\ MaxAttempts \in Nat \ {0} /\ MaxFaults \in Nat
  /\ Idle \notin Lanes

VARIABLES
  outbox,    \* committed events
  status,    \* slack_notification_deliveries.status
  attempts,  \* slack_notification_deliveries.attempt_count
  leased,    \* events whose lease_expires_at lies ahead
  waiting,   \* events whose next_attempt_at lies ahead
  ledger,    \* slack_notification_attempts
  lane,      \* what the notifier is busy with
  faults     \* faults so far

vars == <<outbox, status, attempts, leased, waiting, ledger, lane, faults>>

-----------------------------------------------------------------------------

\* An event's transaction takes its created_at when it starts, so events may
\* become visible in another order.
Commit(e) ==
  /\ e \notin outbox
  /\ outbox' = outbox \cup {e}
  /\ UNCHANGED <<status, attempts, leased, waiting, ledger, lane, faults>>

\* Operators marked Variant are plausible mistakes, kept to show that a property
\* would notice them.  Variants: nobody takes an expired lease over; the filter
\* names the one status that is final.
DueWithoutTakeover(e) ==
  /\ e \in outbox
  /\ \/ status[e] = "NONE"
     \/ status[e] \in {"PENDING", "RETRY_READY"} /\ e \notin waiting
DueUnlessDelivered(e) ==
  /\ e \in outbox
  /\ status[e] # "DELIVERED" /\ e \notin waiting \cup leased

Due(e) ==
  /\ e \in outbox
  /\ \/ status[e] = "NONE"
     \/ status[e] \in {"PENDING", "RETRY_READY"} /\ e \notin waiting
     \/ status[e] = "DELIVERING" /\ e \notin leased

\* claim_next_notification: the oldest due event.  A quiet one is to be marked
\* as ignored, if the table takes that status: when it does not, the
\* transaction aborts, the loop logs the exception and starts over.
Claim(e) ==
  LET mark == IF e \in Quiet THEN "IGNORED_NON_BREAKING" ELSE "DELIVERING" IN
  /\ lane = Idle
  /\ Due(e) /\ \A o \in Events : Due(o) => e <= o
  /\ mark \in ValidStatuses
  /\ status' = [status EXCEPT ![e] = mark]
  /\ IF e \in Quiet
     THEN UNCHANGED <<attempts, leased, lane>>
     ELSE /\ attempts' = [attempts EXCEPT ![e] = @ + 1]
          /\ leased' = leased \cup {e}
          /\ lane' = [event |-> e, number |-> attempts[e] + 1,
                      outcome |-> "POSTING", again |-> FALSE]
  /\ UNCHANGED <<outbox, waiting, ledger, faults>>

\* The POST ends; an exception or a timeout counts as a retryable failure.
Answer(outcome) ==
  /\ lane # Idle /\ lane.outcome = "POSTING"
  /\ lane' = [lane EXCEPT !.outcome = outcome]
  /\ UNCHANGED <<outbox, status, attempts, leased, waiting, ledger, faults>>

-----------------------------------------------------------------------------
(* record_delivery. *)

ToRecord == lane # Idle /\ lane.outcome # "POSTING"

\* Variant: without the UNIQUE constraint of the attempts.
NeverRecorded == FALSE

\* UNIQUE(event_id, attempt_number): an attempt is recorded once.
Recorded == \E a \in ledger : a.event = lane.event /\ a.number = lane.number

\* Variant: one attempt too many.
LateVerdict ==
  IF lane.outcome = "DELIVERED" THEN "DELIVERED"
  ELSE IF lane.outcome = "PERMANENT_FAILURE" \/ lane.number > MaxAttempts
  THEN "FAILED" ELSE "RETRY_READY"

Verdict ==
  IF lane.outcome = "DELIVERED" THEN "DELIVERED"
  ELSE IF lane.outcome = "PERMANENT_FAILURE" \/ lane.number >= MaxAttempts
  THEN "FAILED" ELSE "RETRY_READY"

\* What its transaction commits.
Write ==
  /\ ~Recorded
  /\ ledger' = ledger \cup {[event |-> lane.event, number |-> lane.number,
                             outcome |-> lane.outcome]}
  /\ status' = [status EXCEPT ![lane.event] = Verdict]
  /\ leased' = leased \ {lane.event}
  /\ waiting' = IF lane.outcome = "DELIVERED" THEN waiting ELSE waiting \cup {lane.event}

Record ==
  /\ ToRecord
  /\ Write
  /\ lane' = Idle
  /\ UNCHANGED <<outbox, attempts, faults>>

\* The handler of notify_one: another call, for a failure.
Again == [lane EXCEPT !.outcome = "RETRYABLE_FAILURE", !.again = TRUE]

\* The commit succeeds but is not acknowledged: the handler goes on, or the
\* loop when it was the handler's own call, or the process has died.
RecordUnacknowledged ==
  /\ ToRecord /\ faults < MaxFaults
  /\ Write
  /\ lane' \in {Idle} \cup (IF lane.again THEN {} ELSE {Again})
  /\ faults' = faults + 1
  /\ UNCHANGED <<outbox, attempts>>

\* The first call rolls back.
RecordFails ==
  /\ ToRecord /\ ~lane.again /\ faults < MaxFaults
  /\ lane' = Again
  /\ faults' = faults + 1
  /\ UNCHANGED <<outbox, status, attempts, leased, waiting, ledger>>

\* The handler's call violates the UNIQUE constraint: the first had committed.
RecordCollides ==
  /\ ToRecord /\ lane.again /\ Recorded
  /\ lane' = Idle
  /\ UNCHANGED <<outbox, status, attempts, leased, waiting, ledger, faults>>

\* The process dies, or the handler's call rolls back too.
Lose ==
  /\ lane # Idle /\ faults < MaxFaults
  /\ lane' = Idle
  /\ faults' = faults + 1
  /\ UNCHANGED <<outbox, status, attempts, leased, waiting, ledger>>

-----------------------------------------------------------------------------
(* Time. *)

LeaseExpires(e) ==
  /\ e \in leased
  /\ leased' = leased \ {e}
  /\ UNCHANGED <<outbox, status, attempts, waiting, ledger, lane, faults>>

BackoffEnds(e) ==
  /\ e \in waiting
  /\ waiting' = waiting \ {e}
  /\ UNCHANGED <<outbox, status, attempts, leased, ledger, lane, faults>>

-----------------------------------------------------------------------------

Init ==
  /\ outbox = {}
  /\ status = [e \in Events |-> "NONE"]
  /\ attempts = [e \in Events |-> 0]
  /\ leased = {} /\ waiting = {}
  /\ ledger = {}
  /\ lane = Idle
  /\ faults = 0

Next ==
  \/ \E e \in Events : Commit(e) \/ Claim(e) \/ LeaseExpires(e) \/ BackoffEnds(e)
  \/ \E outcome \in Outcomes : Answer(outcome)
  \/ Record \/ RecordUnacknowledged \/ RecordFails \/ RecordCollides \/ Lose

Spec == Init /\ [][Next]_vars

\* The loop goes on for as long as the coordinator runs, the POST has a timeout
\* and time passes.
Fairness ==
  /\ WF_vars(\E e \in Events : Claim(e))
  /\ WF_vars(\E outcome \in Outcomes : Answer(outcome))
  /\ WF_vars(Record \/ RecordCollides)
  /\ \A e \in Events : WF_vars(LeaseExpires(e)) /\ WF_vars(BackoffEnds(e))

FairSpec == Spec /\ Fairness
-----------------------------------------------------------------------------
(* Properties. *)

\* The columns hold values of their types.
TypeOK ==
  /\ outbox \subseteq Events
  /\ status \in [Events -> ValidStatuses \cup {"NONE"}]
  /\ attempts \in [Events -> Nat]
  /\ leased \subseteq Events /\ waiting \subseteq Events
  /\ ledger \subseteq Attempts
  /\ lane \in Lanes \cup {Idle}
  /\ faults \in 0..MaxFaults

\* The two tables agree, although an attempt may be recorded twice: an event is
\* DELIVERED exactly if one of its attempts was, and FAILED only after a
\* permanent failure or the last attempt (slack_notifier.py:195-213).
LedgerDecides ==
  \A e \in Events :
    /\ status[e] = "DELIVERED" <=>
         \E a \in ledger : a.event = e /\ a.outcome = "DELIVERED"
    /\ status[e] = "FAILED" =>
         \E a \in ledger : a.event = e /\ \/ a.outcome = "PERMANENT_FAILURE"
                                          \/ a.number >= MaxAttempts

\* An event is posted MAX_ATTEMPTS times, and once more for each attempt whose
\* record was lost: leases taken over are the only posts beyond the limit.
PostsAreBounded == \A e \in Events : attempts[e] <= MaxAttempts + faults

\* A delivered or failed notification is never taken up again, whichever record
\* is repeated and whichever lease expires.
OutcomeIsFinal ==
  [][\A e \in Events :
       status[e] \in {"DELIVERED", "FAILED"} => status'[e] = status[e]]_vars

Settled(e) == status[e] \in {"DELIVERED", "FAILED"}

\* An event that is older than every quiet one is finally delivered or failed,
\* whatever was lost on the way.
NotificationsSettle ==
  \A e \in Events \ Quiet :
    e \in outbox /\ (\A q \in Quiet : e < q) ~> Settled(e)

-----------------------------------------------------------------------------
(* What the charter and a comment promise and the code does not keep. *)

\* PROJECT_CHARTER.md:541: breaking changes are notified; slack_notifier.py:171:
\* the others are marked as ignored, so none stands in the way of a later one.
EveryAlertSettles == \A e \in Events \ Quiet : e \in outbox ~> Settled(e)
=============================================================================
