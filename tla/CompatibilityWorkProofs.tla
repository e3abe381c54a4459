----------------------- MODULE CompatibilityWorkProofs -----------------------
(***************************************************************************)
(* Proofs about CompatibilityWork, for any items, harnesses, dispatchers   *)
(* and bounds.  BoundInv holds of all work; QueueInv adds what holds of the  *)
(* work that no webhook harness owns.                                      *)
(***************************************************************************)
EXTENDS CompatibilityWork, FiniteSetTheorems, TLAPS

-----------------------------------------------------------------------------
(* Lemmas about the tasks of the items. *)

\* The number the next task of an item gets.
LEMMA ClaimsAreCounted ==
  ASSUME TypeOK, NEW i \in Items
  PROVE  IsFiniteSet(ClaimsOf(i)) /\ Cardinality(ClaimsOf(i)) \in Nat
<1>1. ClaimsOf(i) \in SUBSET tasks /\ IsFiniteSet(tasks)
  BY DEF ClaimsOf, TypeOK
<1>2. IsFiniteSet(ClaimsOf(i))
  BY <1>1, FS_Subset
<1>3. QED
  BY <1>2, FS_CardinalityType

\* Rebinding changes only the bound revision of the item's current task.
LEMMA ReboundTasks ==
  ASSUME TypeOK, NEW i \in Items
  PROVE  /\ Rebound(i) \subseteq AgentTasks
         /\ IsFiniteSet(Rebound(i))
         /\ \A t \in Rebound(i) : \E o \in tasks :
              /\ t.item = o.item /\ t.n = o.n /\ t.by = o.by /\ t.completed = o.completed
              /\ t.replanned = o.replanned
              /\ t.bound = IF o.item = i /\ o.n = current[i] /\ o.bound = AssumedRevision
                           THEN RevisionOf[i] ELSE o.bound
         /\ \A o \in tasks : \E t \in Rebound(i) :
              t.item = o.item /\ t.n = o.n /\ t.by = o.by /\ t.completed = o.completed
<1> DEFINE move(o) == IF o.item = i /\ o.n = current[i] /\ o.bound = AssumedRevision
                      THEN [o EXCEPT !.bound = RevisionOf[i]] ELSE o
           f == [o \in tasks |-> move(o)]
<1>1. Rebound(i) = { f[o] : o \in tasks }
  BY DEF Rebound
<1>2. IsFiniteSet(tasks)
  BY DEF TypeOK
<1>3. IsFiniteSet(Rebound(i))
  <2> DEFINE T == { f[o] : o \in tasks }
             g == [o \in tasks |-> f[o]]
  <2>1. g \in Surjection(tasks, T)
    BY DEF Surjection
  <2>2. QED
    BY <1>1, <1>2, <2>1, FS_Surjection
<1>4. ASSUME NEW o \in tasks
      PROVE  /\ move(o) \in AgentTasks
             /\ move(o).item = o.item /\ move(o).n = o.n
             /\ move(o).by = o.by /\ move(o).completed = o.completed
             /\ move(o).replanned = o.replanned
             /\ move(o).bound = IF o.item = i /\ o.n = current[i] /\ o.bound = AssumedRevision
                                THEN RevisionOf[i] ELSE o.bound
  <2>1. o \in AgentTasks /\ RevisionOf[i] \in Nat \ {0}
    BY ItemsAssumption DEF TypeOK
  <2>2. QED
    BY <2>1 DEF AgentTasks
<1>5. Rebound(i) = { move(o) : o \in tasks }
  BY DEF Rebound
<1> HIDE DEF move
<1>6. QED
  BY <1>3, <1>4, <1>5

-----------------------------------------------------------------------------
(* Every deployment. *)

\* A submitted item has evidence, every task is bound to a confirmed row, which
\* is the one it started on or its item's if no plan was approved for it, and an
\* item has no task before it is created.
BoundInv ==
  /\ TypeOK
  /\ VerifiedWorkIsBound
  /\ CurrentTaskIsOpen
  /\ \A i \in Items : state[i] = "AWAITING_APPROVAL" => i \in evidence
  /\ AssumedRevision \in rows
  /\ \A t \in tasks : /\ t.bound \in rows
                      /\ t.replanned \/ t.bound \in {AssumedRevision, RevisionOf[t.item]}
  /\ \A i \in Items : state[i] = "ABSENT" => current[i] = 0

\* A step that leaves tasks, rows, owners and evidence alone and moves items
\* only to states that promise nothing, or from VERIFIED to COMPLETED.
LEMMA MoveBound ==
  ASSUME BoundInv,
         UNCHANGED <<owner, current, evidence, tasks, rows>>,
         state' \in [Items -> WorkStates],
         \A i \in Items : \/ state'[i] = state[i]
                          \/ state'[i] \notin {"AWAITING_APPROVAL", "VERIFIED", "COMPLETED", "ABSENT"}
                          \/ state[i] = "VERIFIED" /\ state'[i] = "COMPLETED",
         harness' \in [Harnesses -> {"NONE", "ACTIVE", "DISABLED"}],
         attempts' \in [Items -> 0..MaxDispatches],
         lane' \in [Dispatchers -> Deliveries \cup {Idle}],
         faults' \in 0..MaxFaults
  PROVE  BoundInv'
<1>1. TypeOK'
  BY DEF BoundInv, TypeOK
<1>2. VerifiedWorkIsBound'
  BY DEF BoundInv, VerifiedWorkIsBound, ClaimsOf
<1>3. CurrentTaskIsOpen'
  BY DEF BoundInv, CurrentTaskIsOpen
<1>4. QED
  BY <1>1, <1>2, <1>3 DEF BoundInv

LEMMA DispatcherBound == ASSUME BoundInv, DispatcherNext PROVE BoundInv'
<1> USE DEF BoundInv
<1>a. faults < MaxFaults => faults + 1 \in 0..MaxFaults
  BY LimitsAssumption DEF TypeOK
<1>1. ASSUME NEW d \in Dispatchers, NEW i \in Items, Dispatch(d, i)
      PROVE  BoundInv'
  <2>1. attempts' \in [Items -> 0..MaxDispatches]
    BY <1>1, LimitsAssumption DEF Dispatch, TypeOK
  <2>2. lane' \in [Dispatchers -> Deliveries \cup {Idle}]
    <3>1. [item |-> i, attempt |-> attempts[i] + 1, step |-> "POSTING"] \in Deliveries
      BY DEF TypeOK, Deliveries
    <3>2. QED
      BY <1>1, <3>1 DEF Dispatch, TypeOK
  <2>3. QED
    BY <1>1, <2>1, <2>2, MoveBound DEF Dispatch, Move, taskVars, TypeOK, WorkStates
<1>2. ASSUME NEW d \in Dispatchers, NEW o \in {"ACCEPTED", "REFUSED"}, Answer(d, o)
      PROVE  BoundInv'
  <2>1. lane' \in [Dispatchers -> Deliveries \cup {Idle}]
    BY <1>2 DEF Answer, TypeOK, Deliveries
  <2>2. QED
    BY <1>2, <2>1, MoveBound DEF Answer, itemVars, taskVars, TypeOK
<1>3. ASSUME NEW d \in Dispatchers, lane[d] # Idle
      PROVE  lane[d].item \in Items
  BY <1>3 DEF TypeOK, Deliveries
<1>4. ASSUME NEW d \in Dispatchers, RecordAccepted(d)
      PROVE  BoundInv'
  <2>1. lane[d] # Idle
    BY <1>4 DEF RecordAccepted
  <2>2. QED
    BY <1>3, <1>4, <2>1, MoveBound
    DEF RecordAccepted, Acknowledge, Move, taskVars, TypeOK, WorkStates
<1>5. ASSUME NEW d \in Dispatchers, RecordAcceptedFails(d)
      PROVE  BoundInv'
  <2>1. lane[d] # Idle
    BY <1>5 DEF RecordAcceptedFails
  <2>2. lane' \in [Dispatchers -> Deliveries \cup {Idle}]
    BY <1>5, <2>1 DEF RecordAcceptedFails, TypeOK, Deliveries
  <2>3. QED
    BY <1>a, <1>3, <1>5, <2>1, <2>2, MoveBound
    DEF RecordAcceptedFails, Acknowledge, Move, taskVars, TypeOK, WorkStates
<1>6. ASSUME NEW d \in Dispatchers, RecordRefused(d)
      PROVE  BoundInv'
  <2>1. lane[d] # Idle
    BY <1>6 DEF RecordRefused
  <2>2. QED
    BY <1>3, <1>6, <2>1, MoveBound DEF RecordRefused, Move, taskVars, TypeOK, WorkStates
<1>7. ASSUME NEW d \in Dispatchers, LoseDelivery(d)
      PROVE  BoundInv'
  BY <1>a, <1>7, MoveBound DEF LoseDelivery, itemVars, taskVars, TypeOK
<1>8. ASSUME NEW d \in Dispatchers, NEW stale \in SUBSET Items, RecoverStale(d, stale)
      PROVE  BoundInv'
  BY <1>8, MoveBound DEF RecoverStale, taskVars, loopVars, TypeOK, WorkStates
<1>9. QED
  BY <1>1, <1>2, <1>4, <1>5, <1>6, <1>7, <1>8 DEF DispatcherNext

\* A claim starts a new task of its own.
LEMMA ClaimBound ==
  ASSUME BoundInv, NEW h \in Harnesses, NEW i \in Items, Claim(h, i)
  PROVE  BoundInv'
<1> DEFINE n == Cardinality(ClaimsOf(i)) + 1
           new == [item |-> i, n |-> n, by |-> h, bound |-> AssumedRevision,
                   replanned |-> FALSE, completed |-> FALSE]
<1>1. n \in Nat \ {0} /\ n \in 0..MaxClaims
  BY ClaimsAreCounted, LimitsAssumption DEF BoundInv, Claim
<1>2. new \in AgentTasks
  BY <1>1 DEF AgentTasks, AssumedRevision
<1>3. IsFiniteSet(tasks \cup {new})
  BY FS_AddElement DEF BoundInv, TypeOK
<1>4. /\ tasks' = tasks \cup {new}
      /\ current' = [current EXCEPT ![i] = n]
      /\ owner' = [owner EXCEPT ![i] = h]
      /\ state' = [state EXCEPT ![i] = "ACKNOWLEDGED"]
      /\ UNCHANGED <<harness, attempts, evidence, rows, lane, faults>>
  BY DEF Claim, Move, loopVars
<1> HIDE DEF n
<1>5. TypeOK'
  BY <1>1, <1>2, <1>3, <1>4 DEF BoundInv, TypeOK, WorkStates
<1>6. VerifiedWorkIsBound'
  BY <1>4 DEF BoundInv, TypeOK, VerifiedWorkIsBound, ClaimsOf
<1>7. CurrentTaskIsOpen'
  <2>1. SUFFICES ASSUME NEW j \in Items, current'[j] # 0
                 PROVE  \E t \in tasks' : /\ t.item = j /\ t.n = current'[j]
                                          /\ t.by = owner'[j] /\ ~t.completed
    BY DEF CurrentTaskIsOpen
  <2>2. CASE j = i
    <3>1. new.item = j /\ new.n = current'[j] /\ new.by = owner'[j] /\ ~new.completed
      BY <1>4, <2>2 DEF BoundInv, TypeOK
    <3>2. QED
      BY <1>4, <3>1
  <2>3. CASE j # i
    BY <1>4, <2>1, <2>3 DEF BoundInv, TypeOK, CurrentTaskIsOpen
  <2>4. QED
    BY <2>2, <2>3
<1>8. \A j \in Items : /\ state'[j] = "AWAITING_APPROVAL" => j \in evidence'
                       /\ state'[j] = "ABSENT" => current'[j] = 0
  BY <1>4 DEF BoundInv, TypeOK
<1>9. \A t \in tasks' : /\ t.bound \in rows
                        /\ t.replanned \/ t.bound \in {AssumedRevision, RevisionOf[t.item]}
  <2>1. new.bound = AssumedRevision
    OBVIOUS
  <2>2. QED
    BY <1>4, <2>1 DEF BoundInv
<1>10. QED
  BY <1>4, <1>5, <1>6, <1>7, <1>8, <1>9 DEF BoundInv

\* Completing a task leaves the current task of every item alone.
LEMMA CompleteTaskBound ==
  ASSUME BoundInv, NEW h \in Harnesses, NEW t \in tasks, CompleteTask(h, t)
  PROVE  BoundInv'
<1> DEFINE done == [t EXCEPT !.completed = TRUE]
<1>1. t \in AgentTasks
  BY DEF BoundInv, TypeOK
<1>2. /\ done \in AgentTasks
      /\ done.item = t.item /\ done.n = t.n /\ done.by = t.by /\ done.bound = t.bound
      /\ done.replanned = t.replanned
  BY <1>1 DEF AgentTasks
<1> HIDE DEF done
<1>3. tasks' = (tasks \ {t}) \cup {done} /\ current[t.item] # t.n
  BY DEF CompleteTask, done
<1>4. UNCHANGED <<harness, state, owner, attempts, current, evidence, rows, lane, faults>>
  BY DEF CompleteTask, itemVars, loopVars
<1>5. IsFiniteSet(tasks')
  <2>1. IsFiniteSet(tasks \ {t})
    BY FS_RemoveElement DEF BoundInv, TypeOK
  <2>2. QED
    BY <1>3, <2>1, FS_AddElement
<1>6. TypeOK'
  BY <1>2, <1>3, <1>4, <1>5 DEF BoundInv, TypeOK
<1>7. VerifiedWorkIsBound'
  BY <1>2, <1>3, <1>4 DEF BoundInv, VerifiedWorkIsBound, ClaimsOf
<1>8. CurrentTaskIsOpen'
  BY <1>2, <1>3, <1>4 DEF BoundInv, CurrentTaskIsOpen
<1>9. QED
  BY <1>2, <1>3, <1>4, <1>6, <1>7, <1>8 DEF BoundInv

LEMMA HarnessBound == ASSUME BoundInv, HarnessNext PROVE BoundInv'
<1> USE DEF BoundInv
<1>1. ASSUME NEW h \in Harnesses, Register(h) \/ Disable(h)
      PROVE  BoundInv'
  BY <1>1, MoveBound DEF Register, Disable, itemVars, taskVars, loopVars, TypeOK
<1>2. ASSUME NEW h \in Harnesses, NEW i \in Items, Checkpoint(h, i)
      PROVE  BoundInv'
  BY <1>2, MoveBound DEF Checkpoint, Move, taskVars, loopVars, TypeOK, WorkStates
<1>3. ASSUME NEW h \in Harnesses, NEW i \in Items,
             NEW outcome \in {"BLOCKED", "INCOMPATIBLE"}, Incident(h, i, outcome)
      PROVE  BoundInv'
  BY <1>3, MoveBound DEF Incident, Move, taskVars, loopVars, TypeOK, WorkStates
<1>4. ASSUME NEW h \in Harnesses, NEW i \in Items, Result(h, i)
      PROVE  BoundInv'
  <2>1. /\ state' = [state EXCEPT ![i] = "AWAITING_APPROVAL"]
        /\ evidence' = evidence \cup {i}
        /\ UNCHANGED <<harness, owner, attempts, current, tasks, rows, lane, faults>>
    BY <1>4 DEF Result, Move, taskVars, loopVars
  <2>2. TypeOK'
    BY <2>1 DEF TypeOK, WorkStates
  <2>3. VerifiedWorkIsBound' /\ CurrentTaskIsOpen'
    BY <2>1 DEF TypeOK, VerifiedWorkIsBound, CurrentTaskIsOpen, ClaimsOf
  <2>4. QED
    BY <2>1, <2>2, <2>3 DEF TypeOK
<1>5. QED
  BY <1>1, <1>2, <1>3, <1>4, ClaimBound, CompleteTaskBound DEF HarnessNext

\* Approval confirms the revision and moves the current task to it.
LEMMA ApproveBound ==
  ASSUME BoundInv, NEW i \in Items, Approve(i)
  PROVE  BoundInv'
<1>1. /\ state[i] = "AWAITING_APPROVAL"
      /\ state' = [state EXCEPT ![i] = "VERIFIED"]
      /\ rows' = rows \cup {RevisionOf[i]}
      /\ tasks' = Rebound(i)
      /\ UNCHANGED <<harness, owner, attempts, current, evidence, lane, faults>>
  BY DEF Approve, Move, loopVars
<1>2. TypeOK'
  <2>1. tasks' \subseteq AgentTasks /\ IsFiniteSet(tasks')
    <3>1. TypeOK /\ tasks' = Rebound(i)
      BY <1>1 DEF BoundInv
    <3>2. QED
      BY <3>1, ReboundTasks
  <2>2. rows' \subseteq Nat \ {0}
    <3>1. RevisionOf[i] \in Nat \ {0}
      BY ItemsAssumption
    <3>2. rows \subseteq Nat \ {0} /\ rows' = rows \cup {RevisionOf[i]}
      BY <1>1 DEF BoundInv, TypeOK
    <3>3. QED
      BY <3>1, <3>2
  <2>3. state' \in [Items -> WorkStates]
    BY <1>1 DEF BoundInv, TypeOK, WorkStates
  <2>4. QED
    BY <1>1, <2>1, <2>2, <2>3 DEF BoundInv, TypeOK
<1>3. ASSUME NEW t \in tasks'
      PROVE  /\ t.bound \in rows'
             /\ t.replanned \/ t.bound \in {AssumedRevision, RevisionOf[t.item]}
             /\ t.item = i /\ t.n = current[i] => t.bound = RevisionOf[i] \/ t.replanned
             /\ t.item # i => \E o \in tasks : /\ t.item = o.item /\ t.n = o.n
                                              /\ t.bound = o.bound /\ t.replanned = o.replanned
  <2>1. PICK o \in tasks :
          /\ t.item = o.item /\ t.n = o.n /\ t.replanned = o.replanned
          /\ t.bound = IF o.item = i /\ o.n = current[i] /\ o.bound = AssumedRevision
                       THEN RevisionOf[i] ELSE o.bound
    BY <1>1, ReboundTasks DEF BoundInv
  <2>2. /\ o.bound \in rows
        /\ o.replanned \/ o.bound \in {AssumedRevision, RevisionOf[o.item]}
    BY DEF BoundInv
  <2>3. QED
    BY <1>1, <2>1, <2>2
<1>4. VerifiedWorkIsBound'
  <2>1. SUFFICES ASSUME NEW j \in Items, state'[j] \in {"VERIFIED", "COMPLETED"}
                 PROVE  /\ j \in evidence' /\ RevisionOf[j] \in rows'
                        /\ \A t \in tasks' : t.item = j /\ t.n = current'[j]
                             => t.bound \in rows' /\ (t.bound = RevisionOf[j] \/ t.replanned)
    BY DEF VerifiedWorkIsBound, ClaimsOf
  <2>2. CASE j = i
    BY <1>1, <1>3, <2>2 DEF BoundInv
  <2>3. CASE j # i
    BY <1>1, <1>3, <2>1, <2>3 DEF BoundInv, TypeOK, VerifiedWorkIsBound, ClaimsOf
  <2>4. QED
    BY <2>2, <2>3
<1>5. CurrentTaskIsOpen'
  <2>1. SUFFICES ASSUME NEW j \in Items, current[j] # 0
                 PROVE  \E t \in tasks' : /\ t.item = j /\ t.n = current[j]
                                          /\ t.by = owner[j] /\ ~t.completed
    BY <1>1 DEF CurrentTaskIsOpen
  <2>2. PICK o \in tasks : o.item = j /\ o.n = current[j] /\ o.by = owner[j] /\ ~o.completed
    BY <2>1 DEF BoundInv, CurrentTaskIsOpen
  <2>3. QED
    BY <1>1, <2>2, ReboundTasks DEF BoundInv
<1>6. QED
  BY <1>1, <1>2, <1>3, <1>4, <1>5 DEF BoundInv, TypeOK

LEMMA OperatorBound == ASSUME BoundInv, OperatorNext PROVE BoundInv'
<1> USE DEF BoundInv
<1>1. ASSUME NEW i \in Items, NEW review \in BOOLEAN, Create(i, review)
      PROVE  BoundInv'
  <2>1. PICK h \in Harnesses \cup {Nobody} : owner' = [owner EXCEPT ![i] = h]
    BY <1>1 DEF Create, Active
  <2>2. /\ state[i] = "ABSENT" /\ current[i] = 0
        /\ \/ state' = [state EXCEPT ![i] = "PENDING"]
           \/ state' = [state EXCEPT ![i] = "REVIEW_REQUIRED"]
        /\ UNCHANGED <<harness, attempts, current, evidence, tasks, rows, lane, faults>>
    BY <1>1 DEF Create, Move, taskVars, loopVars
  <2>3. TypeOK'
    BY <2>1, <2>2 DEF TypeOK, WorkStates
  <2>4. VerifiedWorkIsBound'
    BY <2>2 DEF TypeOK, VerifiedWorkIsBound, ClaimsOf
  <2>5. CurrentTaskIsOpen'
    BY <2>1, <2>2 DEF TypeOK, CurrentTaskIsOpen
  <2>6. QED
    BY <2>2, <2>3, <2>4, <2>5 DEF TypeOK
<1>2. ASSUME NEW i \in Items, Complete(i) \/ Cancel(i) \/ Fail(i) \/ Expire(i)
      PROVE  BoundInv'
  BY <1>2, MoveBound
  DEF Complete, Cancel, Fail, Expire, Decide, Move, taskVars, loopVars, TypeOK, WorkStates
<1>3. QED
  BY <1>1, <1>2, ApproveBound DEF OperatorNext

\* A plan moves one open task to the row it confirms, and marks it.
LEMMA PlanBound ==
  ASSUME BoundInv, NEW t \in tasks, NEW revision \in Changes, Replan(t, revision)
  PROVE  BoundInv'
<1> DEFINE moved == [t EXCEPT !.bound = revision, !.replanned = TRUE]
<1>1. t \in AgentTasks /\ revision \in Nat \ {0}
  BY ItemsAssumption DEF BoundInv, TypeOK
<1>2. /\ moved \in AgentTasks
      /\ moved.item = t.item /\ moved.n = t.n /\ moved.by = t.by
      /\ moved.completed = t.completed
      /\ moved.bound = revision /\ moved.replanned
  BY <1>1 DEF AgentTasks
<1> HIDE DEF moved
<1>3. /\ ~t.completed
      /\ tasks' = (tasks \ {t}) \cup {moved}
      /\ rows' = rows \cup {revision}
      /\ UNCHANGED <<harness, state, owner, attempts, current, evidence, lane, faults>>
  BY DEF Replan, moved, itemVars, loopVars
<1>4. IsFiniteSet(tasks')
  <2>1. IsFiniteSet(tasks \ {t})
    BY FS_RemoveElement DEF BoundInv, TypeOK
  <2>2. QED
    BY <1>3, <2>1, FS_AddElement
<1>5. TypeOK'
  BY <1>1, <1>2, <1>3, <1>4 DEF BoundInv, TypeOK
<1>6. \A s \in tasks' : /\ s.bound \in rows'
                        /\ s.replanned \/ s \in tasks
  BY <1>2, <1>3 DEF BoundInv
<1>7. VerifiedWorkIsBound'
  BY <1>3, <1>6 DEF BoundInv, VerifiedWorkIsBound, ClaimsOf
<1>8. CurrentTaskIsOpen'
  <2>1. SUFFICES ASSUME NEW j \in Items, current[j] # 0
                 PROVE  \E s \in tasks' : /\ s.item = j /\ s.n = current[j]
                                          /\ s.by = owner[j] /\ ~s.completed
    BY <1>3 DEF CurrentTaskIsOpen
  <2>2. PICK o \in tasks : o.item = j /\ o.n = current[j] /\ o.by = owner[j] /\ ~o.completed
    BY <2>1 DEF BoundInv, CurrentTaskIsOpen
  <2>3. QED
    BY <1>2, <1>3, <2>2
<1>9. QED
  BY <1>3, <1>5, <1>6, <1>7, <1>8 DEF BoundInv

LEMMA BoundInit == Init => BoundInv
<1> SUFFICES ASSUME Init PROVE BoundInv
  OBVIOUS
<1>1. IsFiniteSet(tasks)
  BY FS_EmptySet DEF Init
<1>2. QED
  BY <1>1, LimitsAssumption
  DEF Init, BoundInv, TypeOK, VerifiedWorkIsBound, CurrentTaskIsOpen, WorkStates, AssumedRevision

LEMMA BoundNext == BoundInv /\ [Next]_vars => BoundInv'
<1>1. ASSUME BoundInv, UNCHANGED vars
      PROVE  BoundInv'
  BY <1>1, MoveBound DEF vars, BoundInv, TypeOK
<1>2. QED
  BY <1>1, DispatcherBound, HarnessBound, OperatorBound, PlanBound DEF Next, PlanNext

\* In every deployment the columns are well typed, verified work is tested,
\* confirmed and bound, and the task of a work item stays open.
THEOREM WorkIsSound == Spec => []BoundInv
<1>1. QED
  BY BoundInit, BoundNext, PTL DEF Spec

\* Verified and completed work is tested and confirmed, and its task is bound to
\* the item's row or, once replanned, to another confirmed one.
COROLLARY VerifiedWork == Spec => []VerifiedWorkIsBound
<1>1. BoundInv => VerifiedWorkIsBound
  BY DEF BoundInv
<1>2. QED
  BY WorkIsSound, <1>1, PTL

\* The approval lifecycle of a work item's task cannot be bypassed.
COROLLARY CurrentTask == Spec => []CurrentTaskIsOpen
<1>1. BoundInv => CurrentTaskIsOpen
  BY DEF BoundInv
<1>2. QED
  BY WorkIsSound, <1>1, PTL

-----------------------------------------------------------------------------
(* Work that no webhook harness owns. *)

\* Only the work of webhook harnesses is posted, so a late outcome concerns no
\* other; and other work that has a task has left the queue for good.
QueueInv ==
  /\ BoundInv
  /\ \A d \in Dispatchers : lane[d] # Idle => owner[lane[d].item] \in Webhooks
  /\ \A i \in Items : state[i] = "ABSENT" => owner[i] = Nobody
  /\ \A t \in tasks : /\ state[t.item] # "ABSENT"
                      /\ owner[t.item] \notin Webhooks => state[t.item] \notin Queue
  /\ PolledWorkIsClaimedOnce

\* What a step may do to the state of an item.
Requeues(i) == owner[i] \notin Webhooks /\ state[i] \notin Queue \cup {"ABSENT"} /\ state'[i] \in Queue

\* A step that only moves items, and none that is not a webhook harness's into
\* the queue from outside it.
LEMMA MoveQueue ==
  ASSUME QueueInv, BoundInv', UNCHANGED <<tasks, owner>>,
         \A i \in Items : ~Requeues(i) /\ (state'[i] = "ABSENT" => state[i] = "ABSENT"),
         \A d \in Dispatchers : \/ lane'[d] = Idle
                                \/ lane[d] # Idle /\ lane'[d].item = lane[d].item
                                \/ owner[lane'[d].item] \in Webhooks
  PROVE  QueueInv'
<1>1. \A t \in tasks : t.item \in Items
  BY DEF QueueInv, BoundInv, TypeOK, AgentTasks
<1>2. (\A d \in Dispatchers : lane[d] # Idle => owner[lane[d].item] \in Webhooks)'
  BY DEF QueueInv
<1>3. (\A t \in tasks : /\ state[t.item] # "ABSENT"
                        /\ owner[t.item] \notin Webhooks => state[t.item] \notin Queue)'
  BY <1>1 DEF QueueInv, Requeues
<1>4. QED
  BY <1>1, <1>2, <1>3 DEF QueueInv, PolledWorkIsClaimedOnce

LEMMA DispatcherQueue ==
  ASSUME QueueInv, BoundInv', DispatcherNext
  PROVE  QueueInv' /\ \A i \in Items : ~Requeues(i)
<1>1. PICK d \in Dispatchers :
        \/ \E i \in Items : Dispatch(d, i)
        \/ \E outcome \in {"ACCEPTED", "REFUSED"} : Answer(d, outcome)
        \/ RecordAccepted(d) \/ RecordAcceptedFails(d) \/ RecordRefused(d)
        \/ LoseDelivery(d)
        \/ \E stale \in SUBSET Items : RecoverStale(d, stale)
  BY DEF DispatcherNext
<1>2. /\ state \in [Items -> WorkStates] /\ lane \in [Dispatchers -> Deliveries \cup {Idle}]
      /\ \A c \in Dispatchers : lane[c] # Idle => lane[c].item \in Items
  BY DEF QueueInv, BoundInv, TypeOK, Deliveries
<1>3. SUFFICES /\ UNCHANGED <<tasks, owner>>
               /\ \A i \in Items : ~Requeues(i) /\ (state'[i] = "ABSENT" => state[i] = "ABSENT")
               /\ \A c \in Dispatchers : \/ lane'[c] = Idle
                                         \/ lane[c] # Idle /\ lane'[c].item = lane[c].item
                                         \/ owner[lane'[c].item] \in Webhooks
  BY MoveQueue
<1>4. ASSUME NEW i \in Items, Dispatch(d, i)
      PROVE  /\ UNCHANGED <<tasks, owner>>
             /\ state[i] = "PENDING" /\ state' = [state EXCEPT ![i] = "DISPATCHED"]
             /\ \A c \in Dispatchers : \/ lane'[c] = lane[c]
                                       \/ lane'[c].item = i /\ owner[i] \in Webhooks
  BY <1>2, <1>4 DEF Dispatch, Move, taskVars
<1>5. ASSUME NEW outcome \in {"ACCEPTED", "REFUSED"}, Answer(d, outcome)
      PROVE  /\ UNCHANGED <<tasks, owner, state>>
             /\ \A c \in Dispatchers : \/ lane'[c] = lane[c]
                                       \/ lane[c] # Idle /\ lane'[c].item = lane[c].item
  <2>1. lane[d] \in Deliveries /\ lane' = [lane EXCEPT ![d] = [lane[d] EXCEPT !.step = outcome]]
    BY <1>2, <1>5 DEF Answer
  <2>2. [lane[d] EXCEPT !.step = outcome].item = lane[d].item
    BY <2>1 DEF Deliveries
  <2>3. QED
    BY <1>2, <1>5, <2>1, <2>2 DEF Answer, itemVars, taskVars
<1>6. ASSUME RecordAccepted(d) \/ RecordRefused(d)
      PROVE  /\ UNCHANGED <<tasks, owner>>
             /\ lane[d] # Idle /\ lane' = [lane EXCEPT ![d] = Idle]
             /\ \E s \in WorkStates \ {"ABSENT"} :
                  state' = state \/ state' = [state EXCEPT ![lane[d].item] = s]
  BY <1>2, <1>6 DEF RecordAccepted, RecordRefused, Acknowledge, Move, taskVars, WorkStates
<1>7. ASSUME RecordAcceptedFails(d)
      PROVE  /\ UNCHANGED <<tasks, owner>>
             /\ lane[d] # Idle /\ lane' = [lane EXCEPT ![d].step = "REFUSED"]
             /\ state' = state \/ state' = [state EXCEPT ![lane[d].item] = "ACKNOWLEDGED"]
  BY <1>2, <1>7 DEF RecordAcceptedFails, Acknowledge, Move, taskVars
<1>8. ASSUME LoseDelivery(d)
      PROVE  UNCHANGED <<tasks, owner, state>> /\ lane' = [lane EXCEPT ![d] = Idle]
  BY <1>8 DEF LoseDelivery, itemVars, taskVars
<1>9. ASSUME NEW stale \in SUBSET Items, RecoverStale(d, stale)
      PROVE  /\ UNCHANGED <<tasks, owner, lane>>
             /\ \A i \in Items : \/ state'[i] = state[i]
                                 \/ state[i] = "DISPATCHED" /\ state'[i] = "PENDING"
  BY <1>9 DEF RecoverStale, taskVars, loopVars
<1>10. CASE \E i \in Items : Dispatch(d, i)
  BY <1>2, <1>4, <1>10 DEF Requeues, Queue
<1>11. CASE \E outcome \in {"ACCEPTED", "REFUSED"} : Answer(d, outcome)
  BY <1>5, <1>11 DEF Requeues
<1>12. CASE RecordAccepted(d) \/ RecordRefused(d)
  BY <1>2, <1>6, <1>12 DEF Requeues, QueueInv
<1>13. CASE RecordAcceptedFails(d)
  <2>1. [lane[d] EXCEPT !.step = "REFUSED"].item = lane[d].item
    <3>1. lane[d] \in Deliveries
      BY <1>2, <1>7, <1>13
    <3>2. QED
      BY <3>1 DEF Deliveries
  <2>2. QED
    BY <1>2, <1>7, <1>13, <2>1 DEF Requeues, Queue
<1>14. CASE LoseDelivery(d)
  BY <1>2, <1>8, <1>14 DEF Requeues
<1>15. CASE \E stale \in SUBSET Items : RecoverStale(d, stale)
  BY <1>9, <1>15 DEF Requeues, Queue
<1>16. QED
  BY <1>1, <1>10, <1>11, <1>12, <1>13, <1>14, <1>15

LEMMA HarnessQueue ==
  ASSUME QueueInv, BoundInv', HarnessNext
  PROVE  QueueInv' /\ \A i \in Items : ~Requeues(i)
<1>1. /\ \A t \in tasks : t.item \in Items
      /\ state \in [Items -> WorkStates] /\ owner \in [Items -> Harnesses \cup {Nobody}]
      /\ Nobody \notin Webhooks
  BY ItemsAssumption DEF QueueInv, BoundInv, TypeOK, AgentTasks
<1>2. ASSUME NEW h \in Harnesses, NEW i \in Items, Claim(h, i)
      PROVE  QueueInv' /\ state' = [state EXCEPT ![i] = "ACKNOWLEDGED"]
  <2>1. /\ state[i] \in Queue /\ owner[i] \in {h, Nobody}
        /\ state' = [state EXCEPT ![i] = "ACKNOWLEDGED"]
        /\ owner' = [owner EXCEPT ![i] = h]
        /\ lane' = lane
        /\ \E new : new.item = i /\ tasks' = tasks \cup {new}
    <3> DEFINE new == [item |-> i, n |-> Cardinality(ClaimsOf(i)) + 1, by |-> h,
                       bound |-> AssumedRevision, replanned |-> FALSE, completed |-> FALSE]
    <3>1. tasks' = tasks \cup {new} /\ new.item = i
      BY <1>2 DEF Claim
    <3>2. QED
      BY <1>2, <3>1 DEF Claim, Move, loopVars
  <2>2. h \notin Webhooks => \A t \in tasks : t.item # i
    BY <1>1, <2>1 DEF QueueInv
  <2>3. PolledWorkIsClaimedOnce'
    BY <1>1, <2>1, <2>2 DEF QueueInv, PolledWorkIsClaimedOnce
  <2>4. (\A t \in tasks : /\ state[t.item] # "ABSENT"
                          /\ owner[t.item] \notin Webhooks => state[t.item] \notin Queue)'
    BY <1>1, <2>1 DEF QueueInv, Queue
  <2>5. (\A d \in Dispatchers : lane[d] # Idle => owner[lane[d].item] \in Webhooks)'
    <3>1. \A d \in Dispatchers : lane[d] # Idle => lane[d].item \in Items
      BY DEF QueueInv, BoundInv, TypeOK, Deliveries
    <3>2. QED
      BY <1>1, <2>1, <3>1 DEF QueueInv
  <2>6. (\A j \in Items : state[j] = "ABSENT" => owner[j] = Nobody)'
    BY <1>1, <2>1 DEF QueueInv
  <2>7. QED
    BY <2>1, <2>3, <2>4, <2>5, <2>6 DEF QueueInv
<1>3. ASSUME NEW h \in Harnesses, NEW t \in tasks, CompleteTask(h, t)
      PROVE  QueueInv' /\ UNCHANGED state
  <2>1. /\ tasks' = (tasks \ {t}) \cup {[t EXCEPT !.completed = TRUE]}
        /\ UNCHANGED <<state, owner, lane>>
    BY <1>3 DEF CompleteTask, itemVars, loopVars
  <2>2. [t EXCEPT !.completed = TRUE].item = t.item
    <3>1. t \in AgentTasks
      BY DEF QueueInv, BoundInv, TypeOK
    <3>2. QED
      BY <3>1 DEF AgentTasks
  <2> DEFINE done == [t EXCEPT !.completed = TRUE]
  <2> HIDE DEF done
  <2>3. PolledWorkIsClaimedOnce'
    <3>1. tasks' = (tasks \ {t}) \cup {done} /\ done.item = t.item /\ owner' = owner
      BY <2>1, <2>2 DEF done
    <3>2. QED
      BY <3>1 DEF QueueInv, PolledWorkIsClaimedOnce
  <2>4. (\A s \in tasks : /\ state[s.item] # "ABSENT"
                          /\ owner[s.item] \notin Webhooks => state[s.item] \notin Queue)'
    BY <2>1, <2>2 DEF QueueInv
  <2>5. QED
    BY <2>1, <2>3, <2>4 DEF QueueInv
<1>4. ASSUME NEW h \in Harnesses,
             \/ Register(h) \/ Disable(h)
             \/ \E i \in Items : \/ Checkpoint(h, i) \/ Result(h, i)
                                 \/ \E outcome \in {"BLOCKED", "INCOMPATIBLE"} :
                                      Incident(h, i, outcome)
      PROVE  /\ UNCHANGED <<tasks, owner, lane>>
             /\ \A i \in Items : \/ state'[i] = state[i]
                                 \/ state'[i] \notin Queue \cup {"ABSENT"}
  BY <1>1, <1>4 DEF Register, Disable, Checkpoint, Result, Incident, Move,
                    itemVars, taskVars, loopVars, Queue
<1>5. QED
  <2>1. CASE \E h \in Harnesses, i \in Items : Claim(h, i)
    BY <1>1, <1>2, <2>1 DEF Requeues, Queue
  <2>2. CASE \E h \in Harnesses, t \in tasks : CompleteTask(h, t)
    BY <1>3, <2>2 DEF Requeues
  <2>3. CASE /\ UNCHANGED <<tasks, owner, lane>>
             /\ \A i \in Items : \/ state'[i] = state[i]
                                 \/ state'[i] \notin Queue \cup {"ABSENT"}
    BY <2>3, MoveQueue DEF Requeues
  <2>4. QED
    BY <1>4, <2>1, <2>2, <2>3 DEF HarnessNext

LEMMA OperatorQueue ==
  ASSUME QueueInv, BoundInv', OperatorNext
  PROVE  QueueInv' /\ \A i \in Items : ~Requeues(i)
<1>1. state \in [Items -> WorkStates] /\ owner \in [Items -> Harnesses \cup {Nobody}]
  BY DEF QueueInv, BoundInv, TypeOK
<1>2. ASSUME NEW i \in Items, NEW review \in BOOLEAN, Create(i, review)
      PROVE  QueueInv' /\ \A j \in Items : ~Requeues(j)
  <2>1. /\ state[i] = "ABSENT" /\ owner[i] = Nobody
        /\ \E s \in {"PENDING", "REVIEW_REQUIRED"} : state' = [state EXCEPT ![i] = s]
        /\ \E h : owner' = [owner EXCEPT ![i] = h]
        /\ UNCHANGED <<tasks, lane>>
    BY <1>2 DEF Create, Move, taskVars, loopVars, QueueInv
  <2>2. /\ \A t \in tasks : t.item \in Items /\ t.item # i
        /\ \A d \in Dispatchers : lane[d] # Idle => lane[d].item \in Items \ {i}
    <3>1. \A t \in tasks : t.item \in Items
      BY DEF QueueInv, BoundInv, TypeOK, AgentTasks
    <3>2. \A d \in Dispatchers : lane[d] # Idle => lane[d].item \in Items
      BY DEF QueueInv, BoundInv, TypeOK, Deliveries
    <3>3. Nobody \notin Webhooks
      BY ItemsAssumption
    <3>4. QED
      BY <2>1, <3>1, <3>2, <3>3 DEF QueueInv
  <2>3. PolledWorkIsClaimedOnce'
    BY <1>1, <2>1, <2>2 DEF QueueInv, PolledWorkIsClaimedOnce
  <2>4. (\A t \in tasks : /\ state[t.item] # "ABSENT"
                          /\ owner[t.item] \notin Webhooks => state[t.item] \notin Queue)'
    BY <1>1, <2>1, <2>2 DEF QueueInv
  <2>5. (\A d \in Dispatchers : lane[d] # Idle => owner[lane[d].item] \in Webhooks)'
    BY <1>1, <2>1, <2>2 DEF QueueInv
  <2>6. (\A j \in Items : state[j] = "ABSENT" => owner[j] = Nobody)'
    BY <1>1, <2>1 DEF QueueInv
  <2>7. \A j \in Items : ~Requeues(j)
    BY <1>1, <2>1 DEF Requeues
  <2>8. QED
    BY <2>3, <2>4, <2>5, <2>6, <2>7 DEF QueueInv
<1>3. ASSUME NEW i \in Items, Complete(i) \/ Cancel(i) \/ Fail(i) \/ Expire(i)
      PROVE  QueueInv' /\ \A j \in Items : ~Requeues(j)
  <2>1. /\ UNCHANGED <<tasks, owner, lane>>
        /\ \A j \in Items : \/ state'[j] = state[j]
                            \/ state'[j] \notin Queue \cup {"ABSENT"}
    BY <1>1, <1>3 DEF Complete, Cancel, Fail, Expire, Decide, Move, taskVars, loopVars, Queue
  <2>2. QED
    BY <2>1, MoveQueue DEF Requeues
<1>4. ASSUME NEW i \in Items, Approve(i)
      PROVE  QueueInv' /\ \A j \in Items : ~Requeues(j)
  <2>1. /\ state' = [state EXCEPT ![i] = "VERIFIED"] /\ tasks' = Rebound(i)
        /\ UNCHANGED <<owner, lane>>
    BY <1>4 DEF Approve, Move, loopVars
  <2>2. \A j \in Items : state'[j] = state[j] \/ state'[j] = "VERIFIED"
    BY <1>1, <2>1
  <2> DEFINE move(o) == IF o.item = i /\ o.n = current[i] /\ o.bound = AssumedRevision
                        THEN [o EXCEPT !.bound = RevisionOf[i]] ELSE o
  <2>3. tasks' = { move(o) : o \in tasks }
    BY <2>1 DEF Rebound
  <2>4. \A o \in tasks : o.item \in Items /\ move(o).item = o.item
    BY DEF QueueInv, BoundInv, TypeOK, AgentTasks
  <2> HIDE DEF move
  <2>5. PolledWorkIsClaimedOnce'
    BY <2>1, <2>3, <2>4 DEF QueueInv, PolledWorkIsClaimedOnce
  <2>6. (\A t \in tasks : /\ state[t.item] # "ABSENT"
                          /\ owner[t.item] \notin Webhooks => state[t.item] \notin Queue)'
    BY <2>1, <2>2, <2>3, <2>4 DEF QueueInv, Queue
  <2>7. (\A j \in Items : state[j] = "ABSENT" => owner[j] = Nobody)'
    BY <2>1, <2>2 DEF QueueInv
  <2>8. QED
    BY <2>1, <2>2, <2>5, <2>6, <2>7 DEF QueueInv, Requeues, Queue
<1>5. QED
  BY <1>2, <1>3, <1>4 DEF OperatorNext

\* Plans move tasks, not items.
LEMMA PlanQueue ==
  ASSUME QueueInv, BoundInv', PlanNext
  PROVE  QueueInv' /\ \A i \in Items : ~Requeues(i)
<1>1. PICK t \in tasks, revision \in Changes : Replan(t, revision)
  BY DEF PlanNext
<1> DEFINE moved == [t EXCEPT !.bound = revision, !.replanned = TRUE]
<1>2. moved.item = t.item
  <2>1. t \in AgentTasks
    BY DEF QueueInv, BoundInv, TypeOK
  <2>2. QED
    BY <2>1 DEF AgentTasks
<1> HIDE DEF moved
<1>3. tasks' = (tasks \ {t}) \cup {moved} /\ UNCHANGED <<state, owner, lane>>
  BY <1>1 DEF Replan, moved, itemVars, loopVars
<1>4. PolledWorkIsClaimedOnce'
  BY <1>2, <1>3 DEF QueueInv, PolledWorkIsClaimedOnce
<1>5. (\A s \in tasks : /\ state[s.item] # "ABSENT"
                        /\ owner[s.item] \notin Webhooks => state[s.item] \notin Queue)'
  BY <1>2, <1>3 DEF QueueInv
<1>6. \A i \in Items : ~Requeues(i)
  BY <1>3 DEF Requeues
<1>7. QED
  BY <1>3, <1>4, <1>5, <1>6 DEF QueueInv

LEMMA QueueInit == Init => QueueInv
<1>1. QED
  BY BoundInit DEF Init, QueueInv, PolledWorkIsClaimedOnce

LEMMA QueueNext ==
  ASSUME QueueInv, [Next]_vars
  PROVE  QueueInv' /\ \A i \in Items : ~Requeues(i)
<1>1. BoundInv'
  BY BoundNext DEF QueueInv
<1>2. CASE UNCHANGED vars
  BY <1>1, <1>2, MoveQueue DEF vars, Requeues
<1>3. QED
  BY <1>1, <1>2, DispatcherQueue, HarnessQueue, OperatorQueue, PlanQueue DEF Next

\* An obligation that no webhook harness owns becomes at most one task.
THEOREM ClaimedOnce == Spec => []PolledWorkIsClaimedOnce
<1>1. QueueInv /\ [Next]_vars => QueueInv'
  BY QueueNext
<1>2. QueueInv => PolledWorkIsClaimedOnce
  BY DEF QueueInv
<1>3. QED
  BY QueueInit, <1>1, <1>2, PTL DEF Spec

\* Nothing brings escalated or ended work back to the queue that no webhook
\* harness owns.
THEOREM NotRevived == Spec => PolledWorkIsNotRevived
<1>1. QueueInv /\ [Next]_vars => QueueInv'
  BY QueueNext
<1>2. QueueInv /\ [Next]_vars =>
        [\A i \in Items :
           /\ owner[i] \notin Webhooks
           /\ state[i] \in {"BLOCKED", "INCOMPATIBLE", "FAILED", "EXPIRED", "CANCELLED"}
           => state'[i] \notin Queue]_vars
  BY QueueNext DEF Requeues, Queue
<1>3. QED
  BY QueueInit, <1>1, <1>2, PTL DEF Spec, PolledWorkIsNotRevived

\* Every row of the queue, its leases and attempts, and the harnesses that hold
\* them keep their types, whatever dispatchers, harnesses and operators do.
THEOREM TypeSafety == Spec => []TypeOK
<1>1. BoundInv => TypeOK
  BY DEF BoundInv
<1>2. QED
  BY WorkIsSound, <1>1, PTL
=============================================================================
