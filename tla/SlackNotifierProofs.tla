------------------------- MODULE SlackNotifierProofs -------------------------
(***************************************************************************)
(* What SlackNotifier guarantees for any events, limits and faults.  The   *)
(* attempt on its way is the last one of its event and is recorded at most *)
(* once; everything else follows from what is recorded of it.              *)
(***************************************************************************)
EXTENDS SlackNotifier, TLAPS

\* The lane holds the last attempt of its event: unrecorded while the event is
\* DELIVERING, or recorded already when the handler repeats the call.
LaneIsLast ==
  lane # Idle =>
    /\ lane.number = attempts[lane.event]
    /\ lane.again => lane.outcome = "RETRYABLE_FAILURE"
    /\ \/ status[lane.event] = "DELIVERING"
       \/ lane.again /\ Recorded

\* Only earlier attempts of a DELIVERING event are recorded.
LedgerIsBehind ==
  \A a \in ledger :
    /\ a.number <= attempts[a.event]
    /\ status[a.event] = "DELIVERING" => a.number < attempts[a.event]

\* How far each status lets the counter have gone.
Counted ==
  \A e \in Events :
    /\ attempts[e] <= MaxAttempts + faults
    /\ status[e] # "PENDING"
    /\ status[e] = "NONE" => attempts[e] = 0
    /\ status[e] = "RETRY_READY" => attempts[e] < MaxAttempts
    /\ status[e] = "DELIVERING" =>
         \/ lane # Idle /\ lane.event = e
         \/ attempts[e] < MaxAttempts + faults

IInv == TypeOK /\ LaneIsLast /\ LedgerIsBehind /\ LedgerDecides /\ Counted

-----------------------------------------------------------------------------
(* Lemmas about the lane and about what a recording call commits. *)

\* A busy lane is a record of Lanes.
LEMMA BusyLane ==
  ASSUME TypeOK, lane # Idle
  PROVE  /\ lane \in Lanes /\ lane.event \in Events /\ lane.number \in Nat \ {0}
         /\ lane.outcome \in Outcomes \cup {"POSTING"} /\ lane.again \in BOOLEAN
<1>1. lane \in Lanes
  BY DEF TypeOK
<1>2. QED
  BY <1>1 DEF Lanes

\* Moving the lane on without losing its event keeps it the last attempt.
LEMMA LaneMoves ==
  ASSUME TypeOK, lane # Idle, NEW r \in Outcomes, NEW b \in BOOLEAN
  PROVE  /\ [lane EXCEPT !.outcome = r, !.again = b] \in Lanes
         /\ [lane EXCEPT !.outcome = r] \in Lanes
         /\ [lane EXCEPT !.outcome = r, !.again = b] # Idle
         /\ [lane EXCEPT !.outcome = r] # Idle
<1>1. lane \in Lanes
  BY DEF TypeOK
<1>2. [lane EXCEPT !.outcome = r, !.again = b] \in Lanes
  BY <1>1 DEF Lanes
<1>3. [lane EXCEPT !.outcome = r] \in Lanes
  BY <1>1 DEF Lanes
<1>4. QED
  BY <1>2, <1>3, LimitsAssumption

\* An event that is recorded now was being delivered, and its new row, alone of
\* all rows, has the number of its last attempt.
LEMMA WriteIsFirst ==
  ASSUME IInv, ToRecord, Write
  PROVE  /\ lane.event \in Events /\ status[lane.event] = "DELIVERING"
         /\ lane.number = attempts[lane.event]
         /\ lane.outcome \in Outcomes
         /\ [event |-> lane.event, number |-> lane.number, outcome |-> lane.outcome] \in Attempts
<1>1. /\ lane.event \in Events /\ lane.number \in Nat \ {0}
      /\ lane.outcome \in Outcomes
  BY BusyLane DEF IInv, ToRecord
<1>2. status[lane.event] = "DELIVERING" /\ lane.number = attempts[lane.event]
  BY DEF IInv, LaneIsLast, ToRecord, Write
<1>3. QED
  BY <1>1, <1>2 DEF Attempts

\* What a recording transaction preserves, whatever the caller learns of it.
LEMMA WriteKeepsLedger ==
  ASSUME IInv, ToRecord, Write, attempts' = attempts
  PROVE  /\ status' \in [Events -> ValidStatuses \cup {"NONE"}]
         /\ ledger' \subseteq Attempts
         /\ leased' \subseteq Events /\ waiting' \subseteq Events
         /\ LedgerIsBehind' /\ LedgerDecides'
<1> DEFINE e == lane.event
           row == [event |-> e, number |-> lane.number, outcome |-> lane.outcome]
<1>1. /\ e \in Events /\ status[e] = "DELIVERING" /\ lane.number = attempts[e]
      /\ lane.outcome \in Outcomes /\ row \in Attempts
  BY WriteIsFirst
<1>2. /\ status \in [Events -> ValidStatuses \cup {"NONE"}] /\ attempts \in [Events -> Nat]
      /\ ledger \subseteq Attempts /\ leased \subseteq Events /\ waiting \subseteq Events
  BY DEF IInv, TypeOK
<1>3. /\ status' = [status EXCEPT ![e] = Verdict] /\ ledger' = ledger \cup {row}
      /\ leased' = leased \ {e} /\ waiting' \in {waiting, waiting \cup {e}}
  BY DEF Write
<1>4. /\ Verdict \in {"DELIVERED", "FAILED", "RETRY_READY"}
      /\ Verdict = "DELIVERED" <=> lane.outcome = "DELIVERED"
      /\ Verdict = "FAILED" => lane.outcome = "PERMANENT_FAILURE" \/ lane.number >= MaxAttempts
  BY DEF Verdict
<1>5. /\ status' \in [Events -> ValidStatuses \cup {"NONE"}] /\ ledger' \subseteq Attempts
      /\ leased' \subseteq Events /\ waiting' \subseteq Events
  BY <1>1, <1>2, <1>3, <1>4 DEF ValidStatuses
<1>6. LedgerIsBehind'
  <2> SUFFICES ASSUME NEW a \in ledger'
               PROVE  /\ a.number <= attempts[a.event]
                      /\ status'[a.event] = "DELIVERING" => a.number < attempts[a.event]
    BY DEF LedgerIsBehind
  <2>1. CASE a = row
    BY <2>1, <1>1, <1>2, <1>3, <1>4 DEF Attempts
  <2>2. CASE a \in ledger
    <3>1. /\ a.number <= attempts[a.event]
          /\ status[a.event] = "DELIVERING" => a.number < attempts[a.event]
          /\ a.event \in Events
      BY <2>2, <1>2 DEF IInv, LedgerIsBehind, Attempts
    <3>2. QED
      BY <3>1, <1>1, <1>2, <1>3, <1>4
  <2>3. QED
    BY <2>1, <2>2, <1>3
<1>7. LedgerDecides'
  <2> SUFFICES ASSUME NEW d \in Events
               PROVE  /\ status'[d] = "DELIVERED" <=>
                           \E a \in ledger' : a.event = d /\ a.outcome = "DELIVERED"
                      /\ status'[d] = "FAILED" =>
                           \E a \in ledger' : a.event = d /\ \/ a.outcome = "PERMANENT_FAILURE"
                                                             \/ a.number >= MaxAttempts
    BY DEF LedgerDecides
  <2>1. /\ status[d] = "DELIVERED" <=>
             \E a \in ledger : a.event = d /\ a.outcome = "DELIVERED"
        /\ status[d] = "FAILED" =>
             \E a \in ledger : a.event = d /\ \/ a.outcome = "PERMANENT_FAILURE"
                                              \/ a.number >= MaxAttempts
    BY DEF IInv, LedgerDecides
  <2>2. row.event = e /\ row.number = lane.number /\ row.outcome = lane.outcome /\ row \in ledger'
    BY <1>3
  <2>3. CASE d = e
    BY <2>1, <2>2, <2>3, <1>1, <1>2, <1>3, <1>4
  <2>4. CASE d # e
    BY <2>1, <2>2, <2>4, <1>1, <1>2, <1>3
  <2>5. QED
    BY <2>3, <2>4
<1>8. QED
  BY <1>5, <1>6, <1>7

\* A record leaves its event settled or due again below the limit.
LEMMA WriteKeepsCount ==
  ASSUME IInv, ToRecord, Write, attempts' = attempts,
         faults' \in {faults, faults + 1}, faults' \in 0..MaxFaults
  PROVE  Counted'
<1> DEFINE e == lane.event
<1>1. e \in Events /\ status[e] = "DELIVERING" /\ lane.number = attempts[e]
  BY WriteIsFirst
<1>2. /\ status \in [Events -> ValidStatuses \cup {"NONE"}] /\ attempts \in [Events -> Nat]
      /\ faults \in Nat /\ MaxAttempts \in Nat
  BY LimitsAssumption DEF IInv, TypeOK
<1>3. status' = [status EXCEPT ![e] = Verdict]
  BY DEF Write
<1>4. /\ Verdict \in {"DELIVERED", "FAILED", "RETRY_READY"}
      /\ Verdict = "RETRY_READY" => attempts[e] < MaxAttempts
  BY <1>1, <1>2 DEF Verdict
<1> SUFFICES ASSUME NEW d \in Events
             PROVE  /\ attempts[d] <= MaxAttempts + faults'
                    /\ status'[d] # "PENDING"
                    /\ status'[d] = "NONE" => attempts[d] = 0
                    /\ status'[d] = "RETRY_READY" => attempts[d] < MaxAttempts
                    /\ status'[d] = "DELIVERING" =>
                         \/ lane' # Idle /\ lane'.event = d
                         \/ attempts[d] < MaxAttempts + faults'
  BY DEF Counted
<1>5. /\ attempts[d] <= MaxAttempts + faults
      /\ status[d] # "PENDING"
      /\ status[d] = "NONE" => attempts[d] = 0
      /\ status[d] = "RETRY_READY" => attempts[d] < MaxAttempts
      /\ d # e => (status[d] = "DELIVERING" => attempts[d] < MaxAttempts + faults)
  BY DEF IInv, Counted
<1>6. CASE d = e
  BY <1>6, <1>1, <1>2, <1>3, <1>4, <1>5
<1>7. CASE d # e
  BY <1>7, <1>1, <1>2, <1>3, <1>5
<1>8. QED
  BY <1>6, <1>7

-----------------------------------------------------------------------------
(* The invariant is inductive. *)

LEMMA InitEstablishes == Init => IInv
<1> SUFFICES ASSUME Init PROVE IInv
  OBVIOUS
<1>1. TypeOK
  BY LimitsAssumption DEF Init, TypeOK, ValidStatuses
<1>2. LaneIsLast /\ LedgerIsBehind /\ LedgerDecides
  BY DEF Init, LaneIsLast, LedgerIsBehind, LedgerDecides
<1>3. Counted
  BY LimitsAssumption DEF Init, Counted
<1>4. QED
  BY <1>1, <1>2, <1>3 DEF IInv

\* The claim numbers a new attempt and takes the lane.
LEMMA ClaimPreserves ==
  ASSUME IInv, NEW e \in Events, Claim(e)
  PROVE  IInv'
<1>1. /\ status \in [Events -> ValidStatuses \cup {"NONE"}] /\ attempts \in [Events -> Nat]
      /\ leased \subseteq Events /\ ledger \subseteq Attempts
      /\ faults \in Nat /\ MaxAttempts \in Nat \ {0}
  BY LimitsAssumption DEF IInv, TypeOK
<1>2. /\ e \notin Quiet
      /\ status' = [status EXCEPT ![e] = "DELIVERING"]
      /\ attempts' = [attempts EXCEPT ![e] = @ + 1]
      /\ leased' = leased \cup {e}
      /\ lane' = [event |-> e, number |-> attempts[e] + 1, outcome |-> "POSTING", again |-> FALSE]
      /\ UNCHANGED <<outbox, waiting, ledger, faults>>
      /\ lane = Idle /\ Due(e)
  BY DEF Claim, ValidStatuses
<1>3. lane' \in Lanes /\ lane' # Idle
  <2>1. attempts[e] + 1 \in Nat \ {0}
    BY <1>1
  <2>2. lane' \in Lanes
    BY <2>1, <1>2 DEF Lanes
  <2>3. QED
    BY <2>2, LimitsAssumption
<1>4. TypeOK'
  BY <1>1, <1>2, <1>3 DEF IInv, TypeOK, ValidStatuses
<1>5. LaneIsLast'
  BY <1>1, <1>2 DEF LaneIsLast
<1>6. LedgerIsBehind'
  <2> SUFFICES ASSUME NEW a \in ledger
               PROVE  /\ a.number <= attempts'[a.event]
                      /\ status'[a.event] = "DELIVERING" => a.number < attempts'[a.event]
    BY <1>2 DEF LedgerIsBehind
  <2>1. /\ a.event \in Events /\ a.number \in Nat
        /\ a.number <= attempts[a.event]
        /\ status[a.event] = "DELIVERING" => a.number < attempts[a.event]
    BY <1>1 DEF IInv, LedgerIsBehind, Attempts
  <2>2. QED
    BY <2>1, <1>1, <1>2
<1>7. status[e] \in {"NONE", "PENDING", "RETRY_READY", "DELIVERING"}
  BY <1>2 DEF Due
<1>8. LedgerDecides'
  BY <1>1, <1>2, <1>7 DEF IInv, LedgerDecides
<1>9. Counted'
  <2> SUFFICES ASSUME NEW d \in Events
               PROVE  /\ attempts'[d] <= MaxAttempts + faults
                      /\ status'[d] # "PENDING"
                      /\ status'[d] = "NONE" => attempts'[d] = 0
                      /\ status'[d] = "RETRY_READY" => attempts'[d] < MaxAttempts
                      /\ status'[d] = "DELIVERING" =>
                           \/ lane'.event = d
                           \/ attempts'[d] < MaxAttempts + faults
    BY <1>2, <1>3 DEF Counted
  <2>1. /\ attempts[d] <= MaxAttempts + faults
        /\ status[d] # "PENDING"
        /\ status[d] = "NONE" => attempts[d] = 0
        /\ status[d] = "RETRY_READY" => attempts[d] < MaxAttempts
        /\ status[d] = "DELIVERING" => attempts[d] < MaxAttempts + faults
    BY <1>2 DEF IInv, Counted
  <2>2. CASE d = e
    <3>1. attempts[e] < MaxAttempts + faults
      BY <2>1, <2>2, <1>1, <1>7
    <3>2. QED
      BY <2>2, <3>1, <1>1, <1>2
  <2>3. CASE d # e
    BY <2>1, <2>3, <1>1, <1>2
  <2>4. QED
    BY <2>2, <2>3
<1>10. QED
  BY <1>4, <1>5, <1>6, <1>8, <1>9 DEF IInv

\* The lane moves on or is emptied while the tables stay as they are.  An event
\* may lose the lane only to a fault, or once its attempt is recorded.
LEMMA LanePreserves ==
  ASSUME IInv, lane # Idle,
         UNCHANGED <<outbox, status, attempts, leased, waiting, ledger>>,
         faults' \in {faults, faults + 1}, faults' \in 0..MaxFaults,
         \/ /\ lane' = Idle
            /\ faults' = faults + 1 \/ Recorded
         \/ \E r \in Outcomes : ~lane.again /\ lane' = [lane EXCEPT !.outcome = r]
         \/ lane' = Again /\ ~lane.again
  PROVE  IInv'
<1>1. /\ lane.event \in Events /\ attempts[lane.event] \in Nat /\ faults \in Nat
      /\ MaxAttempts \in Nat \ {0} /\ lane.number = attempts[lane.event]
      /\ attempts \in [Events -> Nat]
  BY BusyLane, LimitsAssumption DEF IInv, TypeOK, LaneIsLast
<1>2. lane \in Lanes
  BY BusyLane DEF IInv
<1>3. CASE lane' = Idle /\ (faults' = faults + 1 \/ Recorded)
  <2>1. TypeOK' /\ LaneIsLast' /\ LedgerIsBehind' /\ LedgerDecides'
    BY <1>3 DEF IInv, TypeOK, LaneIsLast, LedgerIsBehind, LedgerDecides
  <2>2. Recorded => status[lane.event] # "DELIVERING"
    BY <1>1 DEF IInv, LedgerIsBehind, Recorded
  <2>3. Counted'
    <3> SUFFICES ASSUME NEW d \in Events
                 PROVE  /\ attempts[d] <= MaxAttempts + faults'
                        /\ status[d] # "PENDING"
                        /\ status[d] = "NONE" => attempts[d] = 0
                        /\ status[d] = "RETRY_READY" => attempts[d] < MaxAttempts
                        /\ status[d] = "DELIVERING" => attempts[d] < MaxAttempts + faults'
      BY DEF Counted
    <3>1. /\ attempts[d] <= MaxAttempts + faults
          /\ status[d] # "PENDING"
          /\ status[d] = "NONE" => attempts[d] = 0
          /\ status[d] = "RETRY_READY" => attempts[d] < MaxAttempts
          /\ status[d] = "DELIVERING" =>
               lane.event = d \/ attempts[d] < MaxAttempts + faults
      BY DEF IInv, Counted
    <3>2. attempts[d] \in Nat
      BY <1>1
    <3>3. QED
      BY <3>1, <3>2, <2>2, <1>1, <1>3
  <2>4. QED
    BY <2>1, <2>3 DEF IInv
<1>4. CASE /\ ~lane.again
           /\ \/ \E r \in Outcomes : lane' = [lane EXCEPT !.outcome = r]
              \/ lane' = Again
  <2>1. /\ lane' \in Lanes /\ lane' # Idle
        /\ lane'.event = lane.event /\ lane'.number = lane.number
        /\ lane'.again => lane'.outcome = "RETRYABLE_FAILURE"
    <3>1. CASE lane' = Again
      <4>1. lane' \in Lanes /\ lane' # Idle
        BY <3>1, LaneMoves DEF IInv, Again, Outcomes
      <4>2. QED
        BY <4>1, <3>1, <1>2 DEF Again, Lanes
    <3>2. CASE \E r \in Outcomes : lane' = [lane EXCEPT !.outcome = r]
      <4>1. PICK r \in Outcomes : lane' = [lane EXCEPT !.outcome = r]
        BY <3>2
      <4>2. lane' \in Lanes /\ lane' # Idle
        BY <4>1, LaneMoves DEF IInv
      <4>3. QED
        BY <4>1, <4>2, <1>2, <1>4 DEF Lanes
    <3>3. QED
      BY <1>4, <3>1, <3>2
  <2>2. status[lane.event] = "DELIVERING"
    BY <1>4 DEF IInv, LaneIsLast
  <2>3. TypeOK'
    BY <2>1 DEF IInv, TypeOK
  <2>4. LaneIsLast' /\ LedgerIsBehind' /\ LedgerDecides'
    BY <2>1, <2>2, <1>1 DEF IInv, LaneIsLast, LedgerIsBehind, LedgerDecides
  <2>5. Counted'
    <3> SUFFICES ASSUME NEW d \in Events
                 PROVE  /\ attempts[d] <= MaxAttempts + faults'
                        /\ status[d] # "PENDING"
                        /\ status[d] = "NONE" => attempts[d] = 0
                        /\ status[d] = "RETRY_READY" => attempts[d] < MaxAttempts
                        /\ status[d] = "DELIVERING" =>
                             lane.event = d \/ attempts[d] < MaxAttempts + faults'
      BY <2>1 DEF Counted
    <3>1. /\ attempts[d] <= MaxAttempts + faults
          /\ status[d] # "PENDING"
          /\ status[d] = "NONE" => attempts[d] = 0
          /\ status[d] = "RETRY_READY" => attempts[d] < MaxAttempts
          /\ status[d] = "DELIVERING" =>
               lane.event = d \/ attempts[d] < MaxAttempts + faults
      BY DEF IInv, Counted
    <3>2. attempts[d] \in Nat
      BY <1>1
    <3>3. QED
      BY <3>1, <3>2, <1>1
  <2>6. QED
    BY <2>3, <2>4, <2>5 DEF IInv
<1>5. QED
  BY <1>3, <1>4

\* A record commits; its caller is done or, unacknowledged, calls again.
LEMMA WritePreserves ==
  ASSUME IInv, ToRecord, Write, UNCHANGED <<outbox, attempts>>,
         faults' \in {faults, faults + 1}, faults' \in 0..MaxFaults,
         \/ lane' = Idle
         \/ lane' = Again /\ ~lane.again
  PROVE  IInv'
<1>1. /\ status' \in [Events -> ValidStatuses \cup {"NONE"}]
      /\ ledger' \subseteq Attempts
      /\ leased' \subseteq Events /\ waiting' \subseteq Events
      /\ LedgerIsBehind' /\ LedgerDecides'
  BY WriteKeepsLedger
<1>2. Counted'
  BY WriteKeepsCount
<1>3. lane # Idle /\ lane \in Lanes
  BY BusyLane DEF IInv, ToRecord
<1>4. lane' = Idle \/ (lane' \in Lanes /\ lane' # Idle)
  BY <1>3, LaneMoves DEF IInv, Again, Outcomes
<1>5. TypeOK'
  BY <1>1, <1>4 DEF IInv, TypeOK
<1>6. LaneIsLast'
  <2>1. CASE lane' = Idle
    BY <2>1 DEF LaneIsLast
  <2>2. CASE lane' = Again
    <3>1. /\ lane'.event = lane.event /\ lane'.number = lane.number
          /\ lane'.again /\ lane'.outcome = "RETRYABLE_FAILURE"
      BY <2>2, <1>3 DEF Again, Lanes
    <3>2. lane'.number = attempts'[lane'.event]
      BY <3>1, WriteIsFirst
    <3>3. Recorded'
      <4> DEFINE row == [event |-> lane.event, number |-> lane.number, outcome |-> lane.outcome]
      <4>1. row \in ledger' /\ row.event = lane'.event /\ row.number = lane'.number
        BY <3>1 DEF Write
      <4> HIDE DEF row
      <4>2. QED
        BY <4>1 DEF Recorded
    <3>4. QED
      BY <3>1, <3>2, <3>3 DEF LaneIsLast
  <2>3. QED
    BY <2>1, <2>2
<1>7. QED
  BY <1>1, <1>2, <1>5, <1>6 DEF IInv

LEMMA NextPreserves == IInv /\ [Next]_vars => IInv'
<1> SUFFICES ASSUME IInv, [Next]_vars PROVE IInv'
  OBVIOUS
<1>0. faults \in 0..MaxFaults /\ MaxFaults \in Nat
  BY LimitsAssumption DEF IInv, TypeOK
<1>1. CASE \E e \in Events : Commit(e)
  BY <1>1 DEF Commit, IInv, TypeOK, LaneIsLast, Recorded, LedgerIsBehind, LedgerDecides, Counted
<1>2. CASE \E e \in Events : Claim(e)
  BY <1>2, ClaimPreserves
<1>3. CASE \E e \in Events : LeaseExpires(e)
  BY <1>3 DEF LeaseExpires, IInv, TypeOK, LaneIsLast, Recorded, LedgerIsBehind, LedgerDecides,
              Counted
<1>4. CASE \E e \in Events : BackoffEnds(e)
  BY <1>4 DEF BackoffEnds, IInv, TypeOK, LaneIsLast, Recorded, LedgerIsBehind, LedgerDecides,
              Counted
<1>5. CASE \E outcome \in Outcomes : Answer(outcome)
  <2>1. PICK outcome \in Outcomes : Answer(outcome)
    BY <1>5
  <2>2. ~lane.again /\ lane # Idle
    BY <2>1 DEF Answer, IInv, LaneIsLast
  <2>3. QED
    BY <2>1, <2>2, <1>0, LanePreserves DEF Answer
<1>6. CASE Record
  BY <1>6, <1>0, WritePreserves DEF Record
<1>7. CASE RecordUnacknowledged
  BY <1>7, <1>0, WritePreserves DEF RecordUnacknowledged
<1>8. CASE RecordFails
  BY <1>8, <1>0, LanePreserves DEF RecordFails, ToRecord
<1>9. CASE RecordCollides
  BY <1>9, <1>0, LanePreserves DEF RecordCollides, ToRecord
<1>10. CASE Lose
  BY <1>10, <1>0, LanePreserves DEF Lose
<1>11. CASE UNCHANGED vars
  BY <1>11 DEF vars, IInv, TypeOK, LaneIsLast, Recorded, LedgerIsBehind, LedgerDecides, Counted
<1>12. QED
  BY <1>1, <1>2, <1>3, <1>4, <1>5, <1>6, <1>7, <1>8, <1>9, <1>10, <1>11 DEF Next

LEMMA Inductive == Spec => []IInv
<1>1. QED
  BY InitEstablishes, NextPreserves, PTL DEF Spec

-----------------------------------------------------------------------------
(* Theorems. *)

\* The columns of the outbox projection hold values of their types, and the
\* status is always one that the CHECK of migration 005 accepts.
THEOREM TypeSafety == Spec => []TypeOK
<1>1. IInv => TypeOK
  BY DEF IInv
<1>2. QED
  BY <1>1, Inductive, PTL

\* The state of a delivery and its recorded attempts agree after any sequence of
\* crashes, failed and repeated records of record_delivery.
THEOREM LedgerAgrees == Spec => []LedgerDecides
<1>1. IInv => LedgerDecides
  BY DEF IInv
<1>2. QED
  BY <1>1, Inductive, PTL

\* claim_next_notification exceeds MAX_ATTEMPTS only by the attempts whose
\* records faults have swallowed.
THEOREM BoundedPosts == Spec => []PostsAreBounded
<1>1. IInv => PostsAreBounded
  BY DEF IInv, Counted, PostsAreBounded
<1>2. QED
  BY <1>1, Inductive, PTL

\* No claim, repeated record or expired lease reopens a delivered or failed
\* notification.
THEOREM FinalOutcomes == Spec => OutcomeIsFinal
<1>1. IInv /\ [Next]_vars =>
        [\A e \in Events :
           status[e] \in {"DELIVERED", "FAILED"} => status'[e] = status[e]]_vars
  <2> SUFFICES ASSUME IInv, Next, NEW e \in Events, status[e] \in {"DELIVERED", "FAILED"}
               PROVE  status'[e] = status[e]
    OBVIOUS
  <2>1. CASE \E d \in Events : Claim(d)
    BY <2>1 DEF Claim, Due, IInv, TypeOK
  <2>2. CASE ToRecord /\ Write
    <3>1. status[lane.event] = "DELIVERING" /\ status' = [status EXCEPT ![lane.event] = Verdict]
      BY <2>2, WriteIsFirst DEF Write
    <3>2. QED
      BY <3>1 DEF IInv, TypeOK
  <2>3. CASE status' = status
    BY <2>3
  <2>4. QED
    BY <2>1, <2>2, <2>3
       DEF Next, Commit, LeaseExpires, BackoffEnds, Answer, Record, RecordUnacknowledged,
           RecordFails, RecordCollides, Lose
<1>2. QED
  BY <1>1, Inductive, PTL DEF Spec, OutcomeIsFinal
=============================================================================
