------------------------ MODULE ReconciliationProofs ------------------------
(***************************************************************************)
(* Proofs about Reconciliation, for any sets of tasks, contracts, events   *)
(* and workers and any bounds.                                             *)
(*                                                                         *)
(* TypeInv is inductive by itself.  LineageInv relates drifts, bindings    *)
(* and the registry and is inductive relative to TypeInv; the uniqueness   *)
(* and backing of compatibility work and the bound on re-interruptions     *)
(* follow the same way.  These hold in every deployment.  SettledInv adds  *)
(* what only manual approval keeps; it and, from it, the refinement of     *)
(* Interventions are proved under ManualDeployment.                        *)
(***************************************************************************)
EXTENDS Reconciliation, FiniteSetTheorems, TLAPS

\* Only committed changes reach the inbox, and a worker records failures only
\* of events it claimed there.
InboxBacked ==
  /\ \A e \in Events : inbox[e].status # "ABSENT" => outbox[e] # NoEvent
  /\ \A w \in Workers : failing[w] # NoEvent => inbox[failing[w]].status # "ABSENT"

LedgerInv == LedgerTypeOK /\ InboxBacked

TypeInv == TypeOK /\ InboxBacked

LEMMA TypesOfTheLedger == TypeInv => LedgerInv
BY DEF TypeInv, TypeOK, LedgerInv

-----------------------------------------------------------------------------
(* Lemmas about the operators of the model. *)

\* The image of a finite set under a function is finite.
LEMMA FiniteImage ==
  ASSUME NEW S, IsFiniteSet(S), NEW f
  PROVE  IsFiniteSet({ f[x] : x \in S })
<1> DEFINE T == { f[x] : x \in S }
           g == [x \in S |-> f[x]]
<1>1. g \in Surjection(S, T)
  BY DEF Surjection
<1>2. QED
  BY <1>1, FS_Surjection

\* Resolving drifts changes only their active flag.
LEMMA ResolveType ==
  ASSUME LedgerTypeOK, NEW ds
  PROVE  /\ Resolve(ds) \subseteq DriftEvents
         /\ IsFiniteSet(Resolve(ds))
<1> DEFINE f == [d \in drifts |-> IF d \in ds THEN [d EXCEPT !.active = FALSE] ELSE d]
<1>1. Resolve(ds) = { f[d] : d \in drifts }
  BY DEF Resolve
<1>2. IsFiniteSet(Resolve(ds))
  <2>1. IsFiniteSet(drifts)
    BY DEF LedgerTypeOK
  <2> HIDE DEF f
  <2>2. QED
    BY <1>1, <2>1, FiniteImage
<1>3. ASSUME NEW d \in drifts
      PROVE  (IF d \in ds THEN [d EXCEPT !.active = FALSE] ELSE d) \in DriftEvents
  BY DEF LedgerTypeOK, DriftEvents
<1>4. QED
  BY <1>2, <1>3 DEF Resolve

\* Resolved drifts keep their identity.
LEMMA ResolveKeeps ==
  ASSUME LedgerTypeOK, NEW ds, NEW d \in Resolve(ds)
  PROVE  \E o \in drifts : /\ d.task = o.task /\ d.source = o.source
                           /\ d.revision = o.revision /\ d.event = o.event
                           /\ d.at = o.at
                           /\ d.active => o.active /\ o = d /\ o \notin ds
                           /\ ~d.active => ~o.active \/ o \in ds
<1>1. PICK o \in drifts : d = IF o \in ds THEN [o EXCEPT !.active = FALSE] ELSE o
  BY DEF Resolve
<1>2. o \in DriftEvents
  BY DEF LedgerTypeOK
<1>3. QED
  BY <1>1, <1>2 DEF DriftEvents

\* New drifts of a committed change are well formed and finitely many.
LEMMA NewDriftsType ==
  ASSUME LedgerTypeOK, NEW e \in Events, outbox[e] # NoEvent
  PROVE  /\ NewDrifts(e) \subseteq DriftEvents
         /\ IsFiniteSet(NewDrifts(e))
<1> DEFINE f == [t \in Affected(e) |->
                  [task |-> t, source |-> ProviderOf[outbox[e].contract],
                   revision |-> outbox[e].revision, event |-> e,
                   at |-> Cardinality(drifts) + 1, active |-> TRUE]]
<1>1. outbox[e] \in ChangeEvents
  BY DEF LedgerTypeOK
<1>2. Cardinality(drifts) + 1 \in Nat
  <2>1. IsFiniteSet(drifts)
    BY DEF LedgerTypeOK
  <2>2. Cardinality(drifts) \in Nat
    BY <2>1, FS_CardinalityType
  <2>3. QED
    BY <2>2
<1>3. Affected(e) \in SUBSET Tasks
  BY DEF Affected
<1>4. IsFiniteSet(Affected(e))
  <2>1. IsFiniteSet(Tasks)
    BY SetsAssumption
  <2>2. QED
    BY <1>3, <2>1, FS_Subset
<1>5. NewDrifts(e) = { f[t] : t \in Affected(e) }
  BY DEF NewDrifts
<1>6. IsFiniteSet(NewDrifts(e))
  <2> HIDE DEF f
  <2>1. QED
    BY <1>4, <1>5, FiniteImage
<1>7. NewDrifts(e) \subseteq DriftEvents
  <2>1. ASSUME NEW t \in Affected(e)
        PROVE  [task |-> t, source |-> ProviderOf[outbox[e].contract],
                revision |-> outbox[e].revision, event |-> e,
                at |-> Cardinality(drifts) + 1, active |-> TRUE] \in DriftEvents
    <3>1. /\ t \in Tasks
          /\ outbox[e].contract \in Contracts
          /\ outbox[e].revision \in Revisions
      BY <1>1, <1>3 DEF ChangeEvents
    <3>2. ProviderOf[outbox[e].contract] \in Services
      BY <3>1, SetsAssumption
    <3>3. QED
      BY <1>2, <3>1, <3>2 DEF DriftEvents
  <2>2. QED
    BY <2>1 DEF NewDrifts
<1>8. QED
  BY <1>6, <1>7

LEMMA NewObligationsType ==
  ASSUME LedgerTypeOK, NEW e \in Events, NEW c \in Contracts, NEW r \in Revisions
  PROVE  NewObligations(e, c, r) \subseteq WorkItems
BY DEF NewObligations, WorkItems, LedgerTypeOK

LEMMA ObligationsOfType ==
  ASSUME LedgerTypeOK, NEW e \in Events, outbox[e] # NoEvent
  PROVE  ObligationsOf(e) \subseteq WorkItems
BY NewObligationsType DEF ObligationsOf, LedgerTypeOK, ChangeEvents

\* The handler of an inbox event preserves the types of what it writes.
LEMMA HandleEventType ==
  ASSUME LedgerInv, NEW e \in Events, HandleEvent(e)
  PROVE  /\ outbox[e] # NoEvent /\ outbox[e] \in ChangeEvents
         /\ work' \subseteq WorkItems
         /\ drifts' \subseteq DriftEvents /\ IsFiniteSet(drifts')
         /\ status' \in [Tasks -> Statuses]
         /\ inbox' \in [Events -> Inboxes]
         /\ UNCHANGED <<latest, retired, outbox, binding, confirmed, checked, claims>>
         /\ \A f \in Events : inbox'[f].status = "ABSENT" <=> inbox[f].status = "ABSENT"
<1>1. outbox[e] # NoEvent /\ outbox[e] \in ChangeEvents
  BY DEF HandleEvent, Claimable, LedgerInv, LedgerTypeOK, InboxBacked
<1>2. work' \subseteq WorkItems
  BY <1>1, ObligationsOfType DEF HandleEvent, CreateWork, LedgerInv, LedgerTypeOK
<1>3. drifts' \subseteq DriftEvents /\ IsFiniteSet(drifts')
  <2>1. drifts \subseteq DriftEvents /\ IsFiniteSet(drifts)
    BY DEF LedgerInv, LedgerTypeOK
  <2>2. NewDrifts(e) \subseteq DriftEvents /\ IsFiniteSet(NewDrifts(e))
    BY <1>1, NewDriftsType DEF LedgerInv
  <2>3. IsFiniteSet(drifts \cup NewDrifts(e))
    BY <2>1, <2>2, FS_Union
  <2>4. drifts' = drifts \cup NewDrifts(e) \/ drifts' = drifts
    BY DEF HandleEvent
  <2>5. QED
    BY <2>1, <2>2, <2>3, <2>4
<1>4. status' \in [Tasks -> Statuses]
  BY DEF HandleEvent, LedgerInv, LedgerTypeOK, Statuses
<1>5. inbox' \in [Events -> Inboxes]
  BY DEF HandleEvent, LedgerInv, LedgerTypeOK, Inboxes, InboxStatuses
<1>6. UNCHANGED <<latest, retired, outbox, binding, confirmed, checked, claims>>
  BY DEF HandleEvent, registryVars
<1>7. \A f \in Events : inbox'[f].status = "ABSENT" <=> inbox[f].status = "ABSENT"
  BY DEF HandleEvent, Claimable, LedgerInv, LedgerTypeOK, Inboxes
<1>8. QED
  BY <1>1, <1>2, <1>3, <1>4, <1>5, <1>6, <1>7

\* Work inserted with a publication, a retirement or an inventory review.
LEMMA RegistryWorkType ==
  ASSUME LedgerInv, NEW rows, rows \subseteq WorkItems, CreateWork(rows)
  PROVE  work' \subseteq WorkItems
BY DEF CreateWork, LedgerInv, LedgerTypeOK

RegistryKeeps ==
  /\ retired' \subseteq Contracts
  /\ outbox' \in [Events -> ChangeEvents \cup {NoEvent}]
  /\ work' \subseteq WorkItems
  /\ UNCHANGED <<inboxVars, taskVars>>
  /\ \A e \in Events : outbox[e] # NoEvent => outbox'[e] = outbox[e]
  /\ \A c \in Contracts : latest'[c] >= latest[c]
  /\ latest' \in [Contracts -> Nat]

\* A publication preserves the types, only adds a change event and raises
\* the revision of one contract, be it the first.
LEMMA PublishStep ==
  ASSUME LedgerInv, NEW c \in Contracts, NEW e \in Events, NEW b \in BOOLEAN,
         Publish(c, e, b)
  PROVE  /\ RegistryKeeps
         /\ latest[c] + 1 \in Revisions
         /\ Change(c, latest[c] + 1, b, FALSE) \in ChangeEvents
<1> USE DEF LedgerInv
<1>1. latest[c] + 1 \in Revisions /\ latest[c] \in Nat
  BY DEF LedgerTypeOK, Revisions
<1>2. Change(c, latest[c] + 1, b, FALSE) \in ChangeEvents
  BY <1>1 DEF Change, ChangeEvents
<1>3. NewObligations(e, c, latest[c] + 1) \subseteq WorkItems
  BY <1>1, NewObligationsType
<1>4. work' \subseteq WorkItems
  BY <1>3, RegistryWorkType DEF Publish
<1>5. outbox' \in [Events -> ChangeEvents \cup {NoEvent}]
  BY <1>2 DEF Publish, LedgerTypeOK
<1>6. latest' \in [Contracts -> Nat] /\ \A d \in Contracts : latest'[d] >= latest[d]
  BY <1>1 DEF Publish, LedgerTypeOK
<1>7. QED
  BY <1>1, <1>2, <1>4, <1>5, <1>6 DEF Publish, LedgerTypeOK, RegistryKeeps

\* The registry's transactions preserve the types, only add change events and
\* only raise revisions.
LEMMA RegistryStep ==
  ASSUME TypeInv, RegistryNext
  PROVE  RegistryKeeps /\ latest' \in [Contracts -> Revisions]
<1>0. LedgerInv
  BY TypesOfTheLedger
<1> USE <1>0 DEF LedgerInv, TypeInv, TypeOK
<1> DEFINE Goal == RegistryKeeps /\ latest' \in [Contracts -> Revisions]
<1>1. ASSUME NEW c \in Contracts
      PROVE  latest[c] \in Revisions /\ latest[c] + 1 \in Revisions
  BY DEF Revisions
<1>2. ASSUME NEW c \in Contracts, NEW b \in BOOLEAN, NEW i \in BOOLEAN
      PROVE  /\ Change(c, latest[c], b, i) \in ChangeEvents
             /\ Change(c, latest[c] + 1, b, i) \in ChangeEvents
  BY <1>1 DEF Change, ChangeEvents
<1>3. ASSUME NEW c \in Contracts, NEW e \in Events
      PROVE  /\ NewObligations(e, c, latest[c]) \subseteq WorkItems
             /\ NewObligations(e, c, latest[c] + 1) \subseteq WorkItems
  BY <1>1, NewObligationsType
<1>4. ASSUME NEW c \in Contracts, NEW e \in Events, NEW b \in BOOLEAN, Publish(c, e, b)
      PROVE  Goal
  <2>1. latest' \in [Contracts -> Revisions]
    BY <1>1, <1>4 DEF Publish
  <2>2. QED
    BY <1>4, <2>1, PublishStep
<1>5. ASSUME NEW c \in Contracts, NEW e \in Events, Retire(c, e)
      PROVE  Goal
  <2>1. work' \subseteq WorkItems
    BY <1>3, <1>5, RegistryWorkType DEF Retire
  <2>2. outbox' \in [Events -> ChangeEvents \cup {NoEvent}]
    BY <1>2, <1>5 DEF Retire, LedgerTypeOK
  <2>3. /\ latest' \in [Contracts -> Revisions] /\ latest' \in [Contracts -> Nat]
        /\ \A d \in Contracts : latest'[d] >= latest[d]
    BY <1>1, <1>5 DEF Retire, LedgerTypeOK, Revisions
  <2>4. QED
    BY <1>5, <2>1, <2>2, <2>3 DEF Retire, LedgerTypeOK, RegistryKeeps
<1>6. ASSUME NEW missing \in SUBSET Contracts, NEW id \in [missing -> Events],
             ReviewMissing(missing, id)
      PROVE  Goal
  <2>1. UNION { NewObligations(id[c], c, latest[c]) : c \in missing } \subseteq WorkItems
    BY <1>3
  <2>2. work' \subseteq WorkItems
    BY <1>6, <2>1, RegistryWorkType DEF ReviewMissing
  <2>3. ASSUME NEW e \in Events
        PROVE  outbox'[e] \in ChangeEvents \cup {NoEvent}
    BY <1>2, <1>6 DEF ReviewMissing, LedgerTypeOK
  <2>4. outbox' \in [Events -> ChangeEvents \cup {NoEvent}]
    BY <1>6, <2>3 DEF ReviewMissing
  <2>5. \A e \in Events : outbox[e] # NoEvent => outbox'[e] = outbox[e]
    BY <1>6 DEF ReviewMissing
  <2>6. \A c \in Contracts : latest'[c] >= latest[c]
    BY <1>6 DEF ReviewMissing, LedgerTypeOK
  <2>7. QED
    BY <1>6, <2>2, <2>4, <2>5, <2>6 DEF ReviewMissing, LedgerTypeOK, RegistryKeeps
<1>7. QED
  BY <1>4, <1>5, <1>6 DEF RegistryNext

InboxKeeps ==
  /\ UNCHANGED <<latest, retired, outbox, binding, confirmed, checked, claims>>
  /\ inbox' \in [Events -> Inboxes]
  /\ failing' \in [Workers -> Events \cup {NoEvent}]
  /\ faults' \in 0..MaxFaults
  /\ status' \in [Tasks -> Statuses]
  /\ drifts' \subseteq DriftEvents /\ IsFiniteSet(drifts')
  /\ work' \subseteq WorkItems
  /\ InboxBacked'

\* The feed and the workers preserve the types of what they write.
LEMMA InboxStep ==
  ASSUME LedgerInv, InboxNext
  PROVE  InboxKeeps
<1> USE DEF LedgerInv
<1>a. faults < MaxFaults => faults + 1 \in 0..MaxFaults
  BY BoundsAssumption DEF LedgerTypeOK
<1>1. ASSUME NEW e \in Events, Ingest(e)
      PROVE  InboxKeeps
  BY <1>1 DEF Ingest, LedgerTypeOK, InboxBacked, InboxKeeps, Inboxes, InboxStatuses,
              registryVars, taskVars
<1>2. ASSUME NEW w \in Workers, NEW e \in Events, Process(w, e)
      PROVE  InboxKeeps
  BY <1>2, HandleEventType DEF Process, LedgerTypeOK, InboxBacked, InboxKeeps
<1>3. ASSUME NEW w \in Workers, NEW e \in Events, CommitLost(w, e)
      PROVE  InboxKeeps
  <2>1. inbox'[e].status # "ABSENT"
    BY <1>3 DEF CommitLost, HandleEvent, LedgerTypeOK
  <2>2. QED
    BY <1>a, <1>3, <2>1, HandleEventType DEF CommitLost, LedgerTypeOK, InboxBacked, InboxKeeps
<1>4. ASSUME NEW w \in Workers, NEW e \in Events, Abort(w, e)
      PROVE  InboxKeeps
  BY <1>a, <1>4 DEF Abort, Claimable, LedgerTypeOK, InboxBacked, InboxKeeps,
                    registryVars, taskVars
<1>5. ASSUME NEW w \in Workers, NEW e \in Events, Collide(w, e)
      PROVE  InboxKeeps
  BY <1>5 DEF Collide, Claimable, LedgerTypeOK, InboxBacked, InboxKeeps,
              registryVars, taskVars
<1>6. ASSUME NEW w \in Workers, RecordFailure(w)
      PROVE  InboxKeeps
  <2>1. failing[w] \in Events
    BY <1>6 DEF RecordFailure, LedgerTypeOK
  <2>2. inbox' \in [Events -> Inboxes]
    BY <1>6, <2>1 DEF RecordFailure, LedgerTypeOK, Inboxes, InboxStatuses
  <2>3. InboxBacked'
    BY <1>6, <2>1 DEF RecordFailure, LedgerTypeOK, InboxBacked, registryVars
  <2>4. QED
    BY <1>6, <2>2, <2>3 DEF RecordFailure, LedgerTypeOK, InboxKeeps, registryVars, taskVars
<1>7. ASSUME NEW w \in Workers, LoseFailure(w)
      PROVE  InboxKeeps
  BY <1>a, <1>7 DEF LoseFailure, LedgerTypeOK, InboxBacked, InboxKeeps, registryVars, taskVars
<1>8. QED
  BY <1>1, <1>2, <1>3, <1>4, <1>5, <1>6, <1>7 DEF InboxNext

TaskKeeps ==
  /\ UNCHANGED <<registryVars, inboxVars, work>>
  /\ status' \in [Tasks -> Statuses]
  /\ binding' \in [Tasks -> [Contracts -> Nat]]
  /\ drifts' \subseteq DriftEvents /\ IsFiniteSet(drifts')
  /\ confirmed' \in [Contracts -> SUBSET Revisions]
  /\ checked' \subseteq Runners
  /\ claims' \in [Tasks -> WorkItems \cup {NoWork}]

\* Rebinding preserves the types of bindings and dependency rows.
LEMMA RebindType ==
  ASSUME LedgerInv, NEW t \in Tasks, NEW p, NEW r \in Revisions, Rebind(t, p, r)
  PROVE  /\ binding' \in [Tasks -> [Contracts -> Nat]]
         /\ confirmed' \in [Contracts -> SUBSET Revisions]
<1>1. r \in Nat
  BY DEF Revisions
<1>2. QED
  BY <1>1 DEF Rebind, LedgerInv, LedgerTypeOK

\* So does creating a task, for whatever revisions of the contracts.
LEMMA CreateTaskType ==
  ASSUME LedgerInv, NEW t \in Tasks, NEW deps, CreateTask(t, deps),
         \A c \in Contracts : c \in DOMAIN deps => deps[c] \in Revisions
  PROVE  /\ status' \in [Tasks -> Statuses]
         /\ binding' \in [Tasks -> [Contracts -> Nat]]
         /\ confirmed' \in [Contracts -> SUBSET Revisions]
<1>1. \A c \in Contracts : c \in DOMAIN deps => deps[c] \in Nat
  BY DEF Revisions
<1>2. QED
  BY <1>1 DEF CreateTask, LedgerInv, LedgerTypeOK, Statuses

\* One transaction on a task, whoever asks for it and with whatever arguments.
TaskTransaction(t, deps, id, auto) ==
  \/ Register(t, deps) \/ StartReplanning(t) \/ Submit(t, id, auto)
  \/ Approve(t) \/ Reject(t) \/ Complete(t)
  \/ RunnerCheck(t) \/ RunnerSave(t)

\* The tasks' transactions preserve the types of what they write.
LEMMA TransactionStep ==
  ASSUME LedgerInv, NEW t \in Tasks, NEW deps, NEW id, NEW auto,
         TaskTransaction(t, deps, id, auto)
  PROVE  TaskKeeps
<1> USE DEF LedgerInv
<1>1. ASSUME Register(t, deps)
      PROVE  TaskKeeps
  <2>1. ASSUME NEW c \in Contracts, c \in DOMAIN deps
        PROVE  deps[c] \in Revisions
    <3>1. deps[c] \in confirmed[c] \/ deps[c] \in 1..latest[c]
      BY <1>1, <2>1 DEF Register
    <3>2. QED
      BY <3>1 DEF LedgerTypeOK, Revisions
  <2>2. QED
    BY <1>1, <2>1, CreateTaskType DEF Register, CreateTask, LedgerTypeOK, TaskKeeps
<1>2. ASSUME StartReplanning(t)
      PROVE  TaskKeeps
  BY <1>2 DEF StartReplanning, LedgerTypeOK, TaskKeeps, Statuses
<1>3. ASSUME Submit(t, id, auto)
      PROVE  TaskKeeps
  <2>1. PICK plan \in IF id \in DriftsOf(t) THEN {id} ELSE Newest(DriftsOf(t)) :
          IF auto THEN drifts' = Resolve({id}) /\ Rebind(t, plan.source, plan.revision)
                  ELSE UNCHANGED <<drifts, binding, confirmed>>
    BY <1>3 DEF Submit
  <2>2. plan \in drifts
    BY <2>1 DEF DriftsOf, Newest
  <2>3. plan.revision \in Revisions
    BY <2>2 DEF LedgerTypeOK, DriftEvents
  <2>4. CASE auto
    BY <1>3, <2>1, <2>3, <2>4, RebindType, ResolveType DEF Submit, LedgerTypeOK, TaskKeeps, Statuses
  <2>5. CASE ~auto
    BY <1>3, <2>1, <2>5 DEF Submit, LedgerTypeOK, TaskKeeps, Statuses
  <2>6. QED
    BY <2>4, <2>5
<1>4. ASSUME Approve(t)
      PROVE  TaskKeeps
  <2>1. drifts' \subseteq DriftEvents /\ IsFiniteSet(drifts')
    BY <1>4, ResolveType DEF Approve
  <2>2. /\ binding' \in [Tasks -> [Contracts -> Nat]]
        /\ confirmed' \in [Contracts -> SUBSET Revisions]
    <3>1. CASE \E d \in ActiveDriftsOf(t) : Rebind(t, d.source, d.revision)
      <4>1. PICK d \in ActiveDriftsOf(t) : Rebind(t, d.source, d.revision)
        BY <3>1
      <4>2. d.revision \in Revisions
        BY DEF ActiveDriftsOf, DriftsOf, LedgerTypeOK, DriftEvents
      <4>3. QED
        BY <4>1, <4>2, RebindType
    <3>2. CASE UNCHANGED <<binding, confirmed>>
      BY <3>2 DEF LedgerTypeOK
    <3>3. QED
      BY <1>4, <3>1, <3>2 DEF Approve
  <2>3. QED
    BY <1>4, <2>1, <2>2 DEF Approve, LedgerTypeOK, TaskKeeps, Statuses
<1>5. ASSUME Reject(t)
      PROVE  TaskKeeps
  BY <1>5 DEF Reject, LedgerTypeOK, TaskKeeps, Statuses
<1>6. ASSUME Complete(t)
      PROVE  TaskKeeps
  BY <1>6 DEF Complete, LedgerTypeOK, TaskKeeps, Statuses
<1>7. ASSUME RunnerCheck(t)
      PROVE  TaskKeeps
  BY <1>7 DEF RunnerCheck, LedgerTypeOK, TaskKeeps
<1>8. ASSUME RunnerSave(t)
      PROVE  TaskKeeps
  BY <1>8 DEF RunnerSave, LedgerTypeOK, TaskKeeps, Statuses
<1>9. QED
  BY <1>1, <1>2, <1>3, <1>4, <1>5, <1>6, <1>7, <1>8 DEF TaskTransaction

LEMMA TaskStep ==
  ASSUME LedgerInv, TaskNext
  PROVE  TaskKeeps
BY TransactionStep DEF TaskNext, TaskTransaction

\* Dependencies, claims of work items and their approvals write no drift.
LEMMA WorkItemStep ==
  ASSUME LedgerInv, WorkNext
  PROVE  TaskKeeps /\ drifts' = drifts
<1> USE DEF LedgerInv
<1>1. ASSUME NEW c \in Contracts, NEW r \in 1..latest[c], PersistDependency(c, r)
      PROVE  TaskKeeps /\ drifts' = drifts
  <2>1. r \in Revisions
    BY DEF LedgerTypeOK, Revisions
  <2>2. QED
    BY <1>1, <2>1 DEF PersistDependency, LedgerTypeOK, TaskKeeps
<1>2. ASSUME NEW w \in work, ApproveItem(w)
      PROVE  TaskKeeps /\ drifts' = drifts
  <2>1. w.revision \in Revisions /\ w.revision \in Nat /\ w.contract \in Contracts
    BY DEF LedgerTypeOK, WorkItems, Revisions
  <2>2. binding' \in [Tasks -> [Contracts -> Nat]]
    BY <1>2, <2>1 DEF ApproveItem, Claimants, LedgerTypeOK
  <2>3. QED
    BY <1>2, <2>1, <2>2 DEF ApproveItem, LedgerTypeOK, TaskKeeps
<1>3. ASSUME NEW w \in work, NEW t \in Tasks, ClaimWork(t, w)
      PROVE  TaskKeeps /\ drifts' = drifts
  <2>1. w \in WorkItems /\ w.dep \in Revisions
    BY DEF LedgerTypeOK, WorkItems
  <2> DEFINE deps == [c \in {w.contract} |-> w.dep]
  <2>2. CreateTask(t, deps) /\ \A c \in Contracts : c \in DOMAIN deps => deps[c] \in Revisions
    BY <1>3, <2>1 DEF ClaimWork
  <2>3. claims' \in [Tasks -> WorkItems \cup {NoWork}]
    BY <1>3, <2>1 DEF ClaimWork, LedgerTypeOK
  <2> HIDE DEF deps
  <2>4. QED
    BY <2>2, <2>3, CreateTaskType DEF CreateTask, LedgerTypeOK, TaskKeeps
<1>4. QED
  BY <1>1, <1>2, <1>3 DEF WorkNext

\* The invariant of the ledger follows from what these lemmas say of a step.
LEMMA LedgerIsKept ==
  ASSUME LedgerInv, RegistryKeeps \/ InboxKeeps \/ TaskKeeps
  PROVE  LedgerInv'
<1>1. CASE RegistryKeeps
  BY <1>1 DEF RegistryKeeps, LedgerInv, LedgerTypeOK, InboxBacked, inboxVars, taskVars
<1>2. CASE InboxKeeps
  BY <1>2 DEF InboxKeeps, LedgerInv, LedgerTypeOK
<1>3. CASE TaskKeeps
  BY <1>3 DEF TaskKeeps, LedgerInv, LedgerTypeOK, InboxBacked, registryVars, inboxVars
<1>4. QED
  BY <1>1, <1>2, <1>3

-----------------------------------------------------------------------------
(* Type correctness. *)

\* The type invariant holds initially.
LEMMA TypeInit == Init => TypeInv
<1> SUFFICES ASSUME Init PROVE TypeInv
  OBVIOUS
<1>1. IsFiniteSet(drifts)
  BY FS_EmptySet DEF Init
<1>2. QED
  BY <1>1, BoundsAssumption
  DEF Init, TypeInv, TypeOK, LedgerTypeOK, InboxBacked, Revisions, Statuses, Inboxes, InboxStatuses

LEMMA TypeNext == TypeInv /\ [Next]_vars => TypeInv'
<1> SUFFICES ASSUME TypeInv, [Next]_vars PROVE TypeInv'
  OBVIOUS
<1>1. CASE RegistryNext
  BY <1>1, RegistryStep
  DEF RegistryKeeps, TypeInv, TypeOK, LedgerTypeOK, InboxBacked, inboxVars, taskVars
<1>2. CASE InboxNext
  BY <1>2, InboxStep, TypesOfTheLedger DEF InboxKeeps, TypeInv, TypeOK, LedgerTypeOK
<1>3. CASE TaskNext \/ WorkNext
  BY <1>3, TaskStep, WorkItemStep, TypesOfTheLedger
  DEF TaskKeeps, TypeInv, TypeOK, LedgerTypeOK, InboxBacked, registryVars, inboxVars
<1>4. CASE UNCHANGED vars
  BY <1>4 DEF vars, TypeInv, TypeOK, LedgerTypeOK, InboxBacked
<1>5. QED
  BY <1>1, <1>2, <1>3, <1>4 DEF Next

\* Every column always holds a value of its type, and a worker only ever works
\* on, or reports the failure of, a change that was committed.
THEOREM TypeCorrect == Spec => []TypeInv
<1>1. QED
  BY TypeInit, TypeNext, PTL DEF Spec

COROLLARY TypeSafety == Spec => []TypeOK
<1>1. TypeInv => TypeOK
  BY DEF TypeInv
<1>2. QED
  BY TypeCorrect, <1>1, PTL

-----------------------------------------------------------------------------
(* Drifts, bindings and the registry agree, in every deployment. *)

ChangesArePublished ==
  \A e \in Events : outbox[e] # NoEvent
    => outbox[e].revision <= latest[outbox[e].contract]

ConfirmedArePublished ==
  \A c \in Contracts : \A r \in confirmed[c] : r <= latest[c]

WorkIsPublished ==
  \A w \in work : w.revision <= latest[w.contract]

\* A drift was raised for a committed change of a contract the task is bound to.
DriftLineage ==
  \A d \in drifts :
    /\ outbox[d.event] # NoEvent
    /\ d.source = ProviderOf[outbox[d.event].contract]
    /\ d.revision = outbox[d.event].revision
    /\ binding[d.task][outbox[d.event].contract] # 0

LineageInv ==
  /\ ChangesArePublished /\ ConfirmedArePublished /\ WorkIsPublished
  /\ DriftLineage /\ BindingIntegrity

\* Rebinding by one of a task's drifts moves exactly the drift's own contract:
\* the foreign key lets no other contract of the provider be bound.
LEMMA RebindMovesOneContract ==
  ASSUME TypeInv, LineageInv, NEW t \in Tasks, NEW d \in drifts, d.task = t,
         Rebind(t, d.source, d.revision)
  PROVE  LET c == outbox[d.event].contract IN
         /\ c \in Contracts
         /\ binding[t][c] # 0
         /\ binding' = [binding EXCEPT ![t][c] = d.revision]
         /\ confirmed' = [confirmed EXCEPT ![c] = @ \cup {d.revision}]
<1> DEFINE c == outbox[d.event].contract
           bound == { b \in Contracts : ProviderOf[b] = d.source /\ binding[t][b] # 0 }
<1>1. d.event \in Events /\ outbox[d.event] # NoEvent
  BY DEF TypeInv, TypeOK, LedgerTypeOK, DriftEvents, LineageInv, DriftLineage
<1>2. c \in Contracts
  BY <1>1 DEF TypeInv, TypeOK, LedgerTypeOK, ChangeEvents
<1>3. c \in bound
  BY <1>2 DEF LineageInv, DriftLineage
<1>4. bound = {c}
  BY <1>3 DEF Rebind
<1>5. binding' = [binding EXCEPT ![t] =
                    [b \in Contracts |-> IF b \in bound THEN d.revision ELSE @[b]]]
  BY DEF Rebind
<1>6. binding' = [binding EXCEPT ![t][c] = d.revision]
  BY <1>2, <1>4, <1>5 DEF TypeInv, TypeOK, LedgerTypeOK
<1>7. confirmed' = [b \in Contracts |->
                      confirmed[b] \cup (IF b \in bound THEN {d.revision} ELSE {})]
  BY DEF Rebind
<1>8. confirmed' = [confirmed EXCEPT ![c] = @ \cup {d.revision}]
  BY <1>2, <1>4, <1>7 DEF TypeInv, TypeOK, LedgerTypeOK
<1>9. QED
  BY <1>2, <1>3, <1>6, <1>8

\* Registry transactions keep the lineage.
LEMMA RegistryLineage == ASSUME TypeInv, LineageInv, RegistryNext PROVE LineageInv'
<1>1. RegistryKeeps
  BY RegistryStep
<1>2. ASSUME NEW e \in Events, outbox'[e] # NoEvent
      PROVE  outbox'[e].revision <= latest'[outbox'[e].contract]
  <2>1. CASE outbox[e] # NoEvent
    <3>1. outbox[e].contract \in Contracts /\ outbox[e].revision \in Nat
      BY <2>1 DEF TypeInv, TypeOK, LedgerTypeOK, ChangeEvents, Revisions
    <3>2. /\ outbox'[e] = outbox[e]
          /\ latest'[outbox[e].contract] >= latest[outbox[e].contract]
      BY <1>1, <2>1, <3>1 DEF RegistryKeeps
    <3>3. /\ latest[outbox[e].contract] \in Nat
          /\ latest'[outbox[e].contract] \in Nat
      BY <1>1, <3>1 DEF TypeInv, TypeOK, LedgerTypeOK, Revisions, RegistryKeeps
    <3>4. QED
      BY <2>1, <3>1, <3>2, <3>3 DEF LineageInv, ChangesArePublished
  <2>2. CASE outbox[e] = NoEvent
    <3>1. ASSUME NEW c \in Contracts, NEW f \in Events, NEW b \in BOOLEAN, Publish(c, f, b)
          PROVE  outbox'[e].revision <= latest'[outbox'[e].contract]
      BY <1>2, <2>2, <3>1 DEF Publish, Change, TypeInv, TypeOK, LedgerTypeOK, Revisions
    <3>2. ASSUME NEW c \in Contracts, NEW f \in Events, Retire(c, f)
          PROVE  outbox'[e].revision <= latest'[outbox'[e].contract]
      BY <1>2, <2>2, <3>2 DEF Retire, Change, TypeInv, TypeOK, LedgerTypeOK, Revisions
    <3>3. ASSUME NEW missing \in SUBSET Contracts, NEW id \in [missing -> Events],
                 ReviewMissing(missing, id)
          PROVE  outbox'[e].revision <= latest'[outbox'[e].contract]
      <4>1. PICK c \in missing : outbox'[e] = Change(c, latest[c], TRUE, TRUE)
        BY <1>2, <2>2, <3>3 DEF ReviewMissing
      <4>2. QED
        BY <3>3, <4>1 DEF ReviewMissing, Change, TypeInv, TypeOK, LedgerTypeOK, Revisions
    <3>4. QED
      BY <3>1, <3>2, <3>3 DEF RegistryNext
  <2>3. QED
    BY <2>1, <2>2
<1>3. ConfirmedArePublished'
  BY <1>1 DEF RegistryKeeps, LineageInv, ConfirmedArePublished, taskVars, TypeInv, TypeOK, LedgerTypeOK, Revisions
<1>4. DriftLineage'
  BY <1>1 DEF RegistryKeeps, LineageInv, DriftLineage, taskVars, TypeInv, TypeOK, LedgerTypeOK, DriftEvents
<1>5. BindingIntegrity'
  BY <1>1 DEF RegistryKeeps, LineageInv, BindingIntegrity, taskVars, TypeInv, TypeOK, LedgerTypeOK, Revisions
<1>6. ASSUME NEW w \in work'
      PROVE  w.revision <= latest'[w.contract]
  <2>1. CASE w \in work
    <3>1. w.contract \in Contracts /\ w.revision \in Nat
      BY <2>1 DEF TypeInv, TypeOK, LedgerTypeOK, WorkItems, Revisions
    <3>2. latest[w.contract] \in Nat /\ latest'[w.contract] \in Nat
      BY <1>1, <3>1 DEF TypeInv, TypeOK, LedgerTypeOK, RegistryKeeps
    <3>3. latest'[w.contract] >= latest[w.contract]
      BY <1>1, <3>1 DEF RegistryKeeps
    <3>4. QED
      BY <2>1, <3>1, <3>2, <3>3 DEF LineageInv, WorkIsPublished
  <2>2. CASE w \notin work
    <3>1. ASSUME NEW c \in Contracts, NEW e \in Events, NEW b \in BOOLEAN, Publish(c, e, b)
          PROVE  w.revision <= latest'[w.contract]
      <4>1. w \in NewObligations(e, c, latest[c] + 1)
        BY <2>2, <3>1 DEF Publish, CreateWork
      <4>2. w.contract = c /\ w.revision = latest[c] + 1
        BY <4>1 DEF NewObligations
      <4>3. latest'[c] = latest[c] + 1 /\ latest[c] \in Nat
        BY <3>1 DEF Publish, TypeInv, TypeOK, LedgerTypeOK
      <4>4. QED
        BY <4>2, <4>3
    <3>2. ASSUME NEW c \in Contracts, NEW e \in Events, Retire(c, e)
          PROVE  w.revision <= latest'[w.contract]
      <4>1. w \in NewObligations(e, c, latest[c] + 1)
        BY <2>2, <3>2 DEF Retire, CreateWork
      <4>2. w.contract = c /\ w.revision = latest[c] + 1
        BY <4>1 DEF NewObligations
      <4>3. latest'[c] = latest[c] + 1 /\ latest[c] \in Nat
        BY <3>2 DEF Retire, TypeInv, TypeOK, LedgerTypeOK
      <4>4. QED
        BY <4>2, <4>3
    <3>3. ASSUME NEW missing \in SUBSET Contracts, NEW id \in [missing -> Events],
                 ReviewMissing(missing, id)
          PROVE  w.revision <= latest'[w.contract]
      <4>1. PICK c \in missing : w \in NewObligations(id[c], c, latest[c])
        BY <2>2, <3>3 DEF ReviewMissing, CreateWork
      <4>2. w.contract = c /\ w.revision = latest[c]
        BY <4>1 DEF NewObligations
      <4>3. latest' = latest /\ latest[c] \in Nat
        BY <3>3 DEF ReviewMissing, TypeInv, TypeOK, LedgerTypeOK
      <4>4. QED
        BY <4>2, <4>3
    <3>4. QED
      BY <3>1, <3>2, <3>3 DEF RegistryNext
  <2>3. QED
    BY <2>1, <2>2
<1>7. QED
  BY <1>2, <1>3, <1>4, <1>5, <1>6 DEF LineageInv, ChangesArePublished, WorkIsPublished

\* What HandleEvent adds to the drifts is bound below the change it handles.
LEMMA HandledDrifts ==
  ASSUME TypeInv, NEW e \in Events, HandleEvent(e), NEW d \in drifts', d \notin drifts
  PROVE  LET c == outbox[e].contract IN
         /\ d \in NewDrifts(e)
         /\ outbox[e].intervention
         /\ d.event = e /\ d.source = ProviderOf[c] /\ d.revision = outbox[e].revision
         /\ d.active /\ d.task \in Affected(e)
         /\ binding[d.task][c] # 0 /\ binding[d.task][c] <= d.revision
<1>1. d \in NewDrifts(e) /\ outbox[e].intervention
  BY DEF HandleEvent
<1>2. PICK t \in Affected(e) : d.task = t /\ d.event = e /\ d.active
          /\ d.source = ProviderOf[outbox[e].contract] /\ d.revision = outbox[e].revision
  BY <1>1 DEF NewDrifts
<1>3. outbox[e] \in ChangeEvents
  BY HandleEventType, TypesOfTheLedger
<1>4. binding[t][outbox[e].contract] # 0 /\ binding[t][outbox[e].contract] <= outbox[e].revision
  BY <1>3 DEF Affected, TypeInv, TypeOK, LedgerTypeOK, ChangeEvents, Revisions
<1>5. QED
  BY <1>1, <1>2, <1>4

\* A step of the workers either handles an event or leaves tasks, drifts and
\* work alone.
LEMMA InboxEffect ==
  ASSUME InboxNext
  PROVE  (\E e \in Events : HandleEvent(e)) \/ UNCHANGED <<status, drifts, work>>
BY DEF InboxNext, Ingest, Process, CommitLost, Abort, Collide, RecordFailure,
       LoseFailure, taskVars

LEMMA InboxLineage == ASSUME TypeInv, LineageInv, InboxNext PROVE LineageInv'
<1>1. InboxKeeps
  BY InboxStep, TypesOfTheLedger
<1>2. DriftLineage'
  <2>1. CASE \E e \in Events : HandleEvent(e)
    <3>1. PICK e \in Events : HandleEvent(e)
      BY <2>1
    <3>2. outbox[e] # NoEvent /\ outbox' = outbox /\ binding' = binding
      BY <1>1, <3>1, HandleEventType, TypesOfTheLedger DEF InboxKeeps
    <3>3. QED
      BY <3>1, <3>2, HandledDrifts DEF DriftLineage, LineageInv
  <2>2. CASE UNCHANGED <<status, drifts, work>>
    BY <1>1, <2>2 DEF InboxKeeps, DriftLineage, LineageInv
  <2>3. QED
    BY <2>1, <2>2, InboxEffect
<1>3. WorkIsPublished'
  <2>1. ASSUME NEW e \in Events, HandleEvent(e), NEW w \in work', w \notin work
        PROVE  w.revision <= latest'[w.contract]
    <3>1. w \in NewObligations(e, outbox[e].contract, outbox[e].revision)
      BY <2>1 DEF HandleEvent, CreateWork, ObligationsOf
    <3>2. w.contract = outbox[e].contract /\ w.revision = outbox[e].revision
      BY <3>1 DEF NewObligations
    <3>3. outbox[e] # NoEvent
      BY <2>1, HandleEventType, TypesOfTheLedger
    <3>4. QED
      BY <1>1, <3>2, <3>3 DEF InboxKeeps, LineageInv, ChangesArePublished
  <2>2. latest' = latest
    BY <1>1 DEF InboxKeeps
  <2>3. QED
    BY <2>1, <2>2, InboxEffect DEF LineageInv, WorkIsPublished
<1>4. QED
  BY <1>1, <1>2, <1>3
  DEF InboxKeeps, LineageInv, ChangesArePublished, ConfirmedArePublished, BindingIntegrity

\* Resolving or keeping drifts and rebinding by one of the task's own drifts
\* keeps the lineage: what a plan does to the tables.
LEMMA PlanLineage ==
  ASSUME TypeInv, LineageInv, NEW t \in Tasks, NEW d \in drifts, d.task = t,
         NEW ds, drifts' = Resolve(ds), Rebind(t, d.source, d.revision),
         UNCHANGED <<registryVars, work>>
  PROVE  LineageInv'
<1> DEFINE c == outbox[d.event].contract
<1>1. /\ c \in Contracts
      /\ binding[t][c] # 0
      /\ binding' = [binding EXCEPT ![t][c] = d.revision]
      /\ confirmed' = [confirmed EXCEPT ![c] = @ \cup {d.revision}]
  BY RebindMovesOneContract
<1>2. latest' = latest /\ outbox' = outbox /\ work' = work
  BY DEF registryVars
<1>3. d.revision \in Revisions /\ d.revision # 0 /\ d.revision <= latest[c]
  <2>1. d \in DriftEvents
    BY DEF TypeInv, TypeOK, LedgerTypeOK
  <2>2. d.event \in Events /\ outbox[d.event] # NoEvent /\ d.revision = outbox[d.event].revision
    BY <2>1 DEF LineageInv, DriftLineage, DriftEvents
  <2>3. QED
    BY <2>1, <2>2 DEF LineageInv, ChangesArePublished, DriftEvents, Revisions
<1>4. ConfirmedArePublished'
  BY <1>1, <1>2, <1>3 DEF LineageInv, ConfirmedArePublished, TypeInv, TypeOK, LedgerTypeOK
<1>5. BindingIntegrity'
  BY <1>1, <1>2, <1>3 DEF LineageInv, BindingIntegrity, TypeInv, TypeOK, LedgerTypeOK
<1>6. DriftLineage'
  <2>1. SUFFICES ASSUME NEW x \in drifts'
                 PROVE  /\ outbox'[x.event] # NoEvent
                        /\ x.source = ProviderOf[outbox'[x.event].contract]
                        /\ x.revision = outbox'[x.event].revision
                        /\ binding'[x.task][outbox'[x.event].contract] # 0
    BY DEF DriftLineage
  <2>2. PICK o \in drifts : /\ x.task = o.task /\ x.source = o.source
                            /\ x.revision = o.revision /\ x.event = o.event
    BY ResolveKeeps DEF TypeInv, TypeOK
  <2>3. o \in DriftEvents
    BY DEF TypeInv, TypeOK, LedgerTypeOK
  <2>4. /\ outbox[o.event] # NoEvent
        /\ o.source = ProviderOf[outbox[o.event].contract]
        /\ o.revision = outbox[o.event].revision
        /\ binding[o.task][outbox[o.event].contract] # 0
    BY DEF LineageInv, DriftLineage
  <2>5. outbox[o.event].contract \in Contracts /\ o.task \in Tasks
    BY <2>3, <2>4 DEF DriftEvents, TypeInv, TypeOK, LedgerTypeOK, ChangeEvents
  <2>6. binding'[o.task][outbox[o.event].contract] # 0
    BY <1>1, <1>3, <2>4, <2>5 DEF TypeInv, TypeOK, LedgerTypeOK
  <2>7. QED
    BY <1>2, <2>2, <2>4, <2>6
<1>7. QED
  BY <1>2, <1>4, <1>5, <1>6 DEF LineageInv, ChangesArePublished, WorkIsPublished

\* So does creating a task bound to published revisions.
LEMMA CreateLineage ==
  ASSUME TypeInv, LineageInv, NEW t \in Tasks, NEW deps, CreateTask(t, deps),
         \A c \in Contracts : c \in DOMAIN deps =>
            deps[c] \in Revisions /\ deps[c] # 0 /\ deps[c] <= latest[c]
  PROVE  LineageInv'
<1>1. UNCHANGED <<latest, outbox, drifts, work>>
  BY DEF CreateTask, registryVars
<1>2. ASSUME NEW c \in Contracts
      PROVE  /\ confirmed'[c] = confirmed[c] \cup (IF c \in DOMAIN deps THEN {deps[c]} ELSE {})
             /\ binding'[t][c] = (IF c \in DOMAIN deps THEN deps[c] ELSE binding[t][c])
             /\ \A u \in Tasks : u # t => binding'[u][c] = binding[u][c]
  BY DEF CreateTask, TypeInv, TypeOK, LedgerTypeOK
<1>3. ConfirmedArePublished'
  BY <1>1, <1>2 DEF LineageInv, ConfirmedArePublished
<1>4. BindingIntegrity'
  BY <1>1, <1>2 DEF LineageInv, BindingIntegrity
<1>5. DriftLineage'
  <2>1. SUFFICES ASSUME NEW d \in drifts
                 PROVE  binding'[d.task][outbox[d.event].contract] # 0
    BY <1>1 DEF DriftLineage, LineageInv
  <2>2. d.task \in Tasks /\ d.event \in Events /\ outbox[d.event] # NoEvent
    BY DEF LineageInv, DriftLineage, TypeInv, TypeOK, LedgerTypeOK, DriftEvents
  <2>3. outbox[d.event].contract \in Contracts
    BY <2>2 DEF TypeInv, TypeOK, LedgerTypeOK, ChangeEvents
  <2>4. binding[d.task][outbox[d.event].contract] # 0
    BY DEF LineageInv, DriftLineage
  <2>5. QED
    BY <1>2, <2>2, <2>3, <2>4
<1>6. QED
  BY <1>1, <1>3, <1>4, <1>5 DEF LineageInv, ChangesArePublished, WorkIsPublished

\* The tasks' transactions keep the lineage.
LEMMA TaskLineage == ASSUME TypeInv, LineageInv, TaskNext PROVE LineageInv'
<1> USE DEF TypeInv
<1>a. UNCHANGED <<registryVars, work>>
  BY TaskStep, TypesOfTheLedger DEF TaskKeeps
<1>b. ASSUME UNCHANGED <<binding, drifts, confirmed>>
      PROVE  LineageInv'
  BY <1>a, <1>b DEF registryVars, LineageInv, ChangesArePublished, WorkIsPublished,
                    ConfirmedArePublished, DriftLineage, BindingIntegrity
<1>1. ASSUME NEW t \in Tasks, NEW deps \in Dependencies, Register(t, deps)
      PROVE  LineageInv'
  <2>1. ASSUME NEW c \in Contracts, c \in DOMAIN deps
        PROVE  deps[c] \in Revisions /\ deps[c] # 0 /\ deps[c] <= latest[c]
    <3>1. deps[c] \in confirmed[c] \/ deps[c] \in 1..latest[c]
      BY <1>1, <2>1 DEF Register
    <3>2. QED
      BY <3>1 DEF LineageInv, ConfirmedArePublished, TypeOK, LedgerTypeOK, Revisions
  <2>2. QED
    BY <1>1, <2>1, CreateLineage DEF Register
<1>2. ASSUME NEW t \in Tasks, NEW id, NEW auto, Submit(t, id, auto)
      PROVE  LineageInv'
  <2>1. PICK plan \in IF id \in DriftsOf(t) THEN {id} ELSE Newest(DriftsOf(t)) :
          IF auto THEN drifts' = Resolve({id}) /\ Rebind(t, plan.source, plan.revision)
                  ELSE UNCHANGED <<drifts, binding, confirmed>>
    BY <1>2 DEF Submit
  <2>2. plan \in drifts /\ plan.task = t
    BY <2>1 DEF DriftsOf, Newest
  <2>3. CASE auto
    <3>1. drifts' = Resolve({id}) /\ Rebind(t, plan.source, plan.revision)
      BY <2>1, <2>3
    <3>2. QED
      BY <1>a, <2>2, <3>1, PlanLineage
  <2>4. CASE ~auto
    BY <1>b, <2>1, <2>4
  <2>5. QED
    BY <2>3, <2>4
<1>3. ASSUME NEW t \in Tasks, Approve(t)
      PROVE  LineageInv'
  <2>1. CASE \E d \in ActiveDriftsOf(t) : Rebind(t, d.source, d.revision)
    <3>1. PICK d \in ActiveDriftsOf(t) : Rebind(t, d.source, d.revision)
      BY <2>1
    <3>2. d \in drifts /\ d.task = t
      BY DEF ActiveDriftsOf, DriftsOf
    <3>3. drifts' = Resolve(ActiveDriftsOf(t))
      BY <1>3 DEF Approve
    <3>4. QED
      BY <1>a, <3>1, <3>2, <3>3, PlanLineage
  <2>2. CASE ActiveDriftsOf(t) = {} /\ UNCHANGED <<binding, confirmed>>
    <3>1. drifts' = drifts
      BY <1>3, <2>2 DEF Approve, Resolve
    <3>2. QED
      BY <1>b, <2>2, <3>1
  <2>3. QED
    BY <1>3, <2>1, <2>2 DEF Approve
<1>4. ASSUME NEW t \in Tasks,
             \/ StartReplanning(t) \/ Reject(t) \/ Complete(t)
             \/ RunnerCheck(t) \/ RunnerSave(t)
      PROVE  LineageInv'
  BY <1>b, <1>4 DEF StartReplanning, Reject, Complete, RunnerCheck, RunnerSave
<1>5. QED
  BY <1>1, <1>2, <1>3, <1>4 DEF TaskNext

\* Dependencies are persisted and items approved at published revisions only.
LEMMA WorkLineage == ASSUME TypeInv, LineageInv, WorkNext PROVE LineageInv'
<1>a. UNCHANGED <<latest, outbox, work, drifts>>
  BY WorkItemStep, TypesOfTheLedger DEF TaskKeeps, registryVars
<1>b. \A c \in Contracts : latest[c] \in Nat
  BY DEF TypeInv, TypeOK, LedgerTypeOK
<1>1. ASSUME NEW c \in Contracts, NEW r \in 1..latest[c], PersistDependency(c, r)
      PROVE  LineageInv'
  <2>1. /\ confirmed' = [confirmed EXCEPT ![c] = @ \cup {r}]
        /\ binding' = binding /\ r <= latest[c]
    BY <1>b, <1>1 DEF PersistDependency
  <2>2. QED
    BY <1>a, <2>1 DEF LineageInv, ChangesArePublished, ConfirmedArePublished,
          WorkIsPublished, DriftLineage, BindingIntegrity, TypeInv, TypeOK, LedgerTypeOK
<1>2. ASSUME NEW w \in work, ApproveItem(w)
      PROVE  LineageInv'
  <2>1. /\ w.contract \in Contracts /\ w.revision \in Revisions /\ w.revision # 0
        /\ w.revision <= latest[w.contract]
    BY DEF LineageInv, WorkIsPublished, TypeInv, TypeOK, LedgerTypeOK, WorkItems, Revisions
  <2>2. confirmed' = [confirmed EXCEPT ![w.contract] = @ \cup {w.revision}]
    BY <1>2 DEF ApproveItem
  <2>3. ASSUME NEW u \in Tasks, NEW c \in Contracts
        PROVE  \/ binding'[u][c] = binding[u][c]
               \/ c = w.contract /\ binding[u][c] = w.dep /\ binding'[u][c] = w.revision
    BY <1>2, <2>1 DEF ApproveItem, Claimants, TypeInv, TypeOK, LedgerTypeOK
  <2>4. ConfirmedArePublished'
    BY <1>a, <2>1, <2>2 DEF LineageInv, ConfirmedArePublished, TypeInv, TypeOK, LedgerTypeOK
  <2>5. BindingIntegrity'
    BY <1>a, <2>1, <2>2, <2>3 DEF LineageInv, BindingIntegrity, TypeInv, TypeOK, LedgerTypeOK
  <2>6. DriftLineage'
    <3>1. SUFFICES ASSUME NEW d \in drifts
                   PROVE  binding'[d.task][outbox[d.event].contract] # 0
      BY <1>a DEF DriftLineage, LineageInv
    <3>2. d.task \in Tasks /\ d.event \in Events /\ outbox[d.event] # NoEvent
      BY DEF LineageInv, DriftLineage, TypeInv, TypeOK, LedgerTypeOK, DriftEvents
    <3>3. outbox[d.event].contract \in Contracts
      BY <3>2 DEF TypeInv, TypeOK, LedgerTypeOK, ChangeEvents
    <3>4. binding[d.task][outbox[d.event].contract] # 0
      BY DEF LineageInv, DriftLineage
    <3>5. QED
      BY <2>1, <2>3, <3>2, <3>3, <3>4
  <2>7. QED
    BY <1>a, <2>4, <2>5, <2>6 DEF LineageInv, ChangesArePublished, WorkIsPublished
<1>3. ASSUME NEW w \in work, NEW t \in Tasks, ClaimWork(t, w)
      PROVE  LineageInv'
  <2>1. w.contract \in Contracts /\ w.dep \in confirmed[w.contract]
    BY <1>3 DEF ClaimWork, TypeInv, TypeOK, LedgerTypeOK, WorkItems
  <2>2. w.dep \in Revisions /\ w.dep # 0 /\ w.dep <= latest[w.contract]
    BY <2>1 DEF LineageInv, ConfirmedArePublished, TypeInv, TypeOK, LedgerTypeOK, Revisions
  <2>3. QED
    BY <1>3, <2>2, CreateLineage DEF ClaimWork
<1>4. QED
  BY <1>1, <1>2, <1>3 DEF WorkNext

LEMMA LineageNext == TypeInv /\ LineageInv /\ [Next]_vars => LineageInv'
<1>1. ASSUME LineageInv, UNCHANGED vars
      PROVE  LineageInv'
  BY <1>1 DEF vars, LineageInv, ChangesArePublished, ConfirmedArePublished,
              WorkIsPublished, DriftLineage, BindingIntegrity
<1>2. QED
  BY <1>1, RegistryLineage, InboxLineage, TaskLineage, WorkLineage DEF Next

LEMMA LineageInit == Init => LineageInv
BY DEF Init, LineageInv, ChangesArePublished, ConfirmedArePublished, WorkIsPublished,
       DriftLineage, BindingIntegrity

\* Drifts, bindings, confirmed rows and the registry agree in every deployment,
\* automatic, demo or runner-driven.
THEOREM Lineage == Spec => []LineageInv
<1>1. QED
  BY TypeCorrect, LineageInit, LineageNext, PTL DEF Spec

\* No task is ever bound to an unconfirmed or an unpublished revision.
COROLLARY BindingsAreSound == Spec => []BindingIntegrity
<1>1. LineageInv => BindingIntegrity
  BY DEF LineageInv
<1>2. QED
  BY Lineage, <1>1, PTL

-----------------------------------------------------------------------------
(* Compatibility work. *)

Key(w) == <<w.contract, w.revision, w.dep>>

\* The rows a transaction proposes are new keys, each announced by one event.
Fresh(rows) ==
  /\ \A n \in rows, w \in work : Key(n) # Key(w)
  /\ \A m, n \in rows : Key(m) = Key(n) => m.event = n.event

LEMMA ObligationsAreFresh ==
  ASSUME NEW e, NEW c, NEW r
  PROVE  Fresh(NewObligations(e, c, r))
BY DEF Fresh, Key, NewObligations

\* Inserting fresh rows whose events are free keeps both keys unique.
LEMMA FreshWorkIsUnique ==
  ASSUME ObligationsUnique, NEW rows, Fresh(rows), CreateWork(rows)
  PROVE  ObligationsUnique'
BY DEF ObligationsUnique, Fresh, Key, CreateWork, KeysFree

\* Every step that writes work inserts fresh rows.
LEMMA WorkStep ==
  ASSUME TypeInv, Next
  PROVE  (\E rows : Fresh(rows) /\ CreateWork(rows)) \/ UNCHANGED work
<1>a. Fresh({})
  BY DEF Fresh
<1>1. ASSUME NEW c \in Contracts, NEW e \in Events, NEW b \in BOOLEAN, Publish(c, e, b)
      PROVE  \E rows : Fresh(rows) /\ CreateWork(rows)
  BY <1>a, <1>1, ObligationsAreFresh DEF Publish
<1>2. ASSUME NEW c \in Contracts, NEW e \in Events, Retire(c, e)
      PROVE  \E rows : Fresh(rows) /\ CreateWork(rows)
  BY <1>2, ObligationsAreFresh DEF Retire
<1>3. ASSUME NEW missing \in SUBSET Contracts, NEW id \in [missing -> Events],
             ReviewMissing(missing, id)
      PROVE  \E rows : Fresh(rows) /\ CreateWork(rows)
  <2> DEFINE rows == UNION { NewObligations(id[c], c, latest[c]) : c \in missing }
  <2>1. Fresh(rows)
    BY DEF Fresh, Key, NewObligations
  <2>2. QED
    BY <1>3, <2>1 DEF ReviewMissing
<1>4. CASE InboxNext
  <2>1. ASSUME NEW e \in Events, HandleEvent(e)
        PROVE  \E rows : Fresh(rows) /\ CreateWork(rows)
    BY <1>a, <2>1, ObligationsAreFresh DEF HandleEvent, ObligationsOf
  <2>2. QED
    BY <1>4, <2>1, InboxEffect
<1>5. CASE TaskNext \/ WorkNext
  BY <1>5, TaskStep, WorkItemStep, TypesOfTheLedger DEF TaskKeeps
<1>6. QED
  BY <1>1, <1>2, <1>3, <1>4, <1>5 DEF Next, RegistryNext

LEMMA ObligationsNext ==
  TypeInv /\ ObligationsUnique /\ [Next]_vars => ObligationsUnique'
<1>1. ASSUME ObligationsUnique, UNCHANGED work
      PROVE  ObligationsUnique'
  BY <1>1 DEF ObligationsUnique
<1>2. QED
  BY <1>1, WorkStep, FreshWorkIsUnique DEF vars

\* Whatever is announced, redelivered or reprocessed, a consumer never has two
\* obligations for one event or for one revision and dependency.
THEOREM NoDuplicateObligations == Spec => []ObligationsUnique
<1>1. Init => ObligationsUnique
  BY DEF Init, ObligationsUnique
<1>2. QED
  BY TypeCorrect, ObligationsNext, <1>1, PTL DEF Spec

\* Work is never deleted.
LEMMA WorkGrows ==
  ASSUME TypeInv, [Next]_vars
  PROVE  work \subseteq work'
BY WorkStep DEF CreateWork, vars

\* A drift of the next state is one of this state's or was just raised.
LEMMA DriftStep ==
  ASSUME TypeInv, [Next]_vars, NEW d \in drifts'
  PROVE  \/ \E o \in drifts : d.event = o.event /\ d.revision = o.revision
         \/ \E e \in Events : HandleEvent(e) /\ d \notin drifts
<1>1. CASE RegistryNext
  BY <1>1, RegistryStep DEF RegistryKeeps, taskVars
<1>2. CASE InboxNext
  BY <1>2, InboxEffect
<1>3. CASE TaskNext
  <2>1. drifts' = drifts \/ \E ds : drifts' = Resolve(ds)
    BY <1>3 DEF TaskNext, Register, CreateTask, StartReplanning, Submit, Approve, Reject,
                Complete, RunnerCheck, RunnerSave
  <2>2. QED
    BY <2>1, ResolveKeeps DEF TypeInv, TypeOK
<1>4. CASE WorkNext \/ UNCHANGED vars
  BY <1>4, WorkItemStep, TypesOfTheLedger DEF vars
<1>5. QED
  BY <1>1, <1>2, <1>3, <1>4 DEF Next

\* A committed change event is never altered.
LEMMA OutboxIsImmutable ==
  ASSUME TypeInv, [Next]_vars, NEW e \in Events, outbox[e] # NoEvent
  PROVE  outbox'[e] = outbox[e]
BY RegistryStep, InboxStep, TypesOfTheLedger, TaskStep, WorkItemStep
DEF Next, RegistryKeeps, InboxKeeps, TaskKeeps, registryVars, vars

LEMMA BackingNext ==
  TypeInv /\ LineageInv /\ DriftsAreBackedByWork /\ [Next]_vars => DriftsAreBackedByWork'
<1> SUFFICES ASSUME TypeInv, LineageInv, DriftsAreBackedByWork, [Next]_vars,
                    NEW d \in drifts'
             PROVE  \E w \in work' : /\ w.contract = outbox'[d.event].contract
                                     /\ w.revision = d.revision
  BY DEF DriftsAreBackedByWork
<1>1. CASE \E o \in drifts : d.event = o.event /\ d.revision = o.revision
  <2>1. PICK o \in drifts : d.event = o.event /\ d.revision = o.revision
    BY <1>1
  <2>2. o.event \in Events /\ outbox[o.event] # NoEvent
    BY DEF LineageInv, DriftLineage, TypeInv, TypeOK, LedgerTypeOK, DriftEvents
  <2>3. outbox'[o.event] = outbox[o.event]
    BY <2>2, OutboxIsImmutable
  <2>4. QED
    BY <2>1, <2>3, WorkGrows DEF DriftsAreBackedByWork
<1>2. CASE \E e \in Events : HandleEvent(e) /\ d \notin drifts
  <2>1. PICK e \in Events : HandleEvent(e) /\ d \notin drifts
    BY <1>2
  <2> DEFINE c == outbox[e].contract
             r == outbox[e].revision
             t == d.task
  <2>2. /\ outbox[e].intervention /\ d.event = e /\ d.revision = r
        /\ t \in Affected(e) /\ binding[t][c] # 0
    BY <2>1, HandledDrifts
  <2>3. outbox' = outbox /\ outbox[e] \in ChangeEvents
    BY <2>1, HandleEventType, TypesOfTheLedger
  <2>4. binding[t][c] \in confirmed[c]
    BY <2>2, <2>3 DEF LineageInv, BindingIntegrity, Affected, ChangeEvents
  <2>5. work' = work \cup NewObligations(e, c, r)
    BY <2>1, <2>2 DEF HandleEvent, CreateWork, ObligationsOf
  <2>6. CASE \E w \in work : <<w.contract, w.revision, w.dep>> = <<c, r, binding[t][c]>>
    BY <2>2, <2>3, <2>5, <2>6
  <2>7. CASE ~ \E w \in work : <<w.contract, w.revision, w.dep>> = <<c, r, binding[t][c]>>
    <3>1. [contract |-> c, revision |-> r, dep |-> binding[t][c], event |-> e]
            \in NewObligations(e, c, r)
      BY <2>4, <2>7 DEF NewObligations
    <3>2. QED
      BY <2>2, <2>3, <2>5, <3>1
  <2>8. QED
    BY <2>6, <2>7
<1>3. QED
  BY <1>1, <1>2, DriftStep

\* An interrupted task's consumer always has compatibility work for the same
\* contract revision.
THEOREM DriftsAreBacked == Spec => []DriftsAreBackedByWork
<1>1. Init => DriftsAreBackedByWork
  BY DEF Init, DriftsAreBackedByWork
<1>2. QED
  BY TypeCorrect, Lineage, BackingNext, <1>1, PTL DEF Spec

-----------------------------------------------------------------------------
(* The inbox. *)

NoRewind ==
  \A e \in Events :
    inbox[e].status # "ABSENT" =>
      /\ inbox'[e].attempts >= inbox[e].attempts
      /\ inbox'[e].status \in {"ABSENT", "RECEIVED"} => inbox'[e] = inbox[e]

LEMMA InboxAdvances == ASSUME TypeInv, [Next]_vars PROVE NoRewind
<1>a. ASSUME inbox' = inbox
      PROVE  NoRewind
  BY <1>a DEF NoRewind, TypeInv, TypeOK, LedgerTypeOK, Inboxes
<1>1. ASSUME NEW e \in Events, Ingest(e)
      PROVE  NoRewind
  BY <1>1 DEF Ingest, NoRewind, TypeInv, TypeOK, LedgerTypeOK, Inboxes
<1>2. ASSUME NEW e \in Events, HandleEvent(e)
      PROVE  NoRewind
  BY <1>2 DEF HandleEvent, NoRewind, TypeInv, TypeOK, LedgerTypeOK, Inboxes
<1>3. ASSUME NEW w \in Workers, RecordFailure(w)
      PROVE  NoRewind
  BY <1>3 DEF RecordFailure, NoRewind, TypeInv, TypeOK, LedgerTypeOK, Inboxes
<1>4. CASE InboxNext
  BY <1>4, <1>a, <1>1, <1>2, <1>3 DEF InboxNext, Process, CommitLost, Abort, Collide, LoseFailure
<1>5. CASE RegistryNext \/ TaskNext \/ WorkNext \/ UNCHANGED vars
  BY <1>5, <1>a, RegistryStep, TaskStep, WorkItemStep, TypesOfTheLedger DEF RegistryKeeps, TaskKeeps, inboxVars, vars
<1>6. QED
  BY <1>4, <1>5 DEF Next

\* No redelivery, failure or late failure record rewinds a consumed event.
THEOREM InboxIsMonotone == Spec => InboxNeverRewinds
<1>1. TypeInv /\ [Next]_vars => [NoRewind]_vars
  BY InboxAdvances
<1>2. QED
  BY TypeCorrect, <1>1, PTL DEF Spec, InboxNeverRewinds, NoRewind

-----------------------------------------------------------------------------
(* Attempts and repeated interruptions. *)

\* An event that was not handled yet has used no attempt; afterwards every
\* interruption of a task by it has cost two, except the last one while the
\* event is still PROCESSED: to be handled again it first has to fail.
AttemptsInv ==
  /\ \A e \in Events :
       inbox[e].status \in {"ABSENT", "RECEIVED"} => inbox[e].attempts = 0
  /\ \A t \in Tasks, e \in Events :
       LET k == Cardinality(DriftsBy(t, e)) IN
       /\ 2 * k <= inbox[e].attempts + (IF inbox[e].status = "PROCESSED" THEN 1 ELSE 0)
       /\ k <= 1 \/ 2 * k <= MaxAttempts + 1

LEMMA DriftsByFinite ==
  ASSUME TypeOK, NEW t, NEW e
  PROVE  IsFiniteSet(DriftsBy(t, e)) /\ Cardinality(DriftsBy(t, e)) \in Nat
<1>1. IsFiniteSet(drifts) /\ DriftsBy(t, e) \in SUBSET drifts
  BY DEF TypeOK, LedgerTypeOK, DriftsBy, DriftsOf
<1>2. IsFiniteSet(DriftsBy(t, e))
  BY <1>1, FS_Subset
<1>3. QED
  BY <1>2, FS_CardinalityType

\* Resolving drifts may merge two rows but never adds one.
LEMMA ResolveCount ==
  ASSUME TypeOK, NEW ds, drifts' = Resolve(ds), NEW t, NEW e
  PROVE  Cardinality(DriftsBy(t, e)') <= Cardinality(DriftsBy(t, e))
<1> DEFINE S == DriftsBy(t, e)
           f == [d \in S |-> IF d \in ds THEN [d EXCEPT !.active = FALSE] ELSE d]
           T == { f[d] : d \in S }
<1>1. DriftsBy(t, e)' = T
  <2>1. ASSUME NEW d \in drifts
        PROVE  LET r == IF d \in ds THEN [d EXCEPT !.active = FALSE] ELSE d IN
               r.task = d.task /\ r.event = d.event
    BY DEF TypeOK, LedgerTypeOK, DriftEvents
  <2>2. QED
    BY <2>1 DEF DriftsBy, DriftsOf, Resolve
<1>2. f \in Surjection(S, T)
  BY DEF Surjection
<1>3. IsFiniteSet(S)
  BY DriftsByFinite
<1> HIDE DEF f, S
<1>4. Cardinality(T) <= Cardinality(S)
  BY <1>2, <1>3, FS_Surjection
<1>5. QED
  BY <1>1, <1>4 DEF S

\* Handling an event raises at most one drift per task, and only its own.
LEMMA HandleCount ==
  ASSUME TypeInv, NEW f \in Events, HandleEvent(f), NEW t \in Tasks, NEW e \in Events
  PROVE  Cardinality(DriftsBy(t, e)')
           <= Cardinality(DriftsBy(t, e)) + (IF e = f THEN 1 ELSE 0)
<1> DEFINE S == DriftsBy(t, e)
           n == [task |-> t, source |-> ProviderOf[outbox[f].contract],
                 revision |-> outbox[f].revision, event |-> f,
                 at |-> Cardinality(drifts) + 1, active |-> TRUE]
<1>1. drifts' = drifts \/ drifts' = drifts \cup NewDrifts(f)
  BY DEF HandleEvent
<1>2. ASSUME NEW d \in NewDrifts(f), d.task = t
      PROVE  d = n
  BY <1>2 DEF NewDrifts
<1>3. \A d \in NewDrifts(f) : d.event = f
  BY DEF NewDrifts
<1>4. \/ DriftsBy(t, e)' = S
      \/ e = f /\ DriftsBy(t, e)' = S \cup {n}
  <2>1. ASSUME drifts' = drifts \cup NewDrifts(f)
        PROVE  DriftsBy(t, e)' = S \cup { d \in NewDrifts(f) : d.task = t /\ d.event = e }
    BY <2>1 DEF DriftsBy, DriftsOf
  <2>2. \/ { d \in NewDrifts(f) : d.task = t /\ d.event = e } = {}
        \/ e = f /\ { d \in NewDrifts(f) : d.task = t /\ d.event = e } = {n}
    BY <1>2, <1>3
  <2>3. drifts' = drifts => DriftsBy(t, e)' = S
    BY DEF DriftsBy, DriftsOf
  <2>4. QED
    BY <1>1, <2>1, <2>2, <2>3
<1>5. IsFiniteSet(S) /\ Cardinality(S) \in Nat
  BY DriftsByFinite DEF TypeInv
<1>6. Cardinality(S \cup {n}) <= Cardinality(S) + 1
  <2> HIDE DEF S, n
  <2>1. Cardinality(S \cup {n}) = IF n \in S THEN Cardinality(S) ELSE Cardinality(S) + 1
    BY <1>5, FS_AddElement
  <2>2. QED
    BY <1>5, <2>1
<1>7. CASE DriftsBy(t, e)' = S
  BY <1>5, <1>7
<1>8. CASE e = f /\ DriftsBy(t, e)' = S \cup {n}
  BY <1>6, <1>8
<1>9. QED
  BY <1>4, <1>7, <1>8

\* No other step raises a drift.
LEMMA CountStep ==
  ASSUME TypeInv, [Next]_vars, \A f \in Events : ~HandleEvent(f),
         NEW t \in Tasks, NEW e \in Events
  PROVE  Cardinality(DriftsBy(t, e)') <= Cardinality(DriftsBy(t, e))
<1>1. drifts' = drifts \/ \E ds : drifts' = Resolve(ds)
  <2>1. CASE RegistryNext
    BY <2>1, RegistryStep DEF RegistryKeeps, taskVars
  <2>2. CASE InboxNext
    BY <2>2, InboxEffect
  <2>3. CASE TaskNext
    BY <2>3 DEF TaskNext, Register, CreateTask, StartReplanning, Submit, Approve, Reject,
                Complete, RunnerCheck, RunnerSave
  <2>4. CASE WorkNext \/ UNCHANGED vars
    BY <2>4, WorkItemStep, TypesOfTheLedger DEF vars
  <2>5. QED
    BY <2>1, <2>2, <2>3, <2>4 DEF Next
<1>2. CASE drifts' = drifts
  <2>1. DriftsBy(t, e)' = DriftsBy(t, e)
    BY <1>2 DEF DriftsBy, DriftsOf
  <2>2. Cardinality(DriftsBy(t, e)) \in Nat
    BY DriftsByFinite DEF TypeInv
  <2>3. QED
    BY <2>1, <2>2
<1>3. QED
  BY <1>1, <1>2, ResolveCount DEF TypeInv

\* What one step does to one row of the inbox: nothing, its arrival, the record
\* of a failure, or the handling of the event.
LEMMA RowStep ==
  ASSUME TypeInv, [Next]_vars, NEW e \in Events
  PROVE  \/ inbox'[e] = inbox[e]
         \/ /\ inbox[e].status = "ABSENT"
            /\ inbox'[e] = [status |-> "RECEIVED", attempts |-> 0]
         \/ inbox'[e] = [status |-> "FAILED", attempts |-> inbox[e].attempts + 1]
         \/ HandleEvent(e)
<1> USE DEF TypeInv, TypeOK, LedgerTypeOK
<1>1. ASSUME NEW f \in Events, Ingest(f)
      PROVE  \/ inbox'[e] = inbox[e]
             \/ /\ inbox[e].status = "ABSENT"
                /\ inbox'[e] = [status |-> "RECEIVED", attempts |-> 0]
  BY <1>1 DEF Ingest
<1>2. ASSUME NEW f \in Events, HandleEvent(f)
      PROVE  inbox'[e] = inbox[e] \/ HandleEvent(e)
  BY <1>2 DEF HandleEvent
<1>3. ASSUME NEW w \in Workers, RecordFailure(w)
      PROVE  \/ inbox'[e] = inbox[e]
             \/ inbox'[e] = [status |-> "FAILED", attempts |-> inbox[e].attempts + 1]
  BY <1>3 DEF RecordFailure
<1>4. CASE InboxNext
  BY <1>4, <1>1, <1>2, <1>3 DEF InboxNext, Process, CommitLost, Abort, Collide, LoseFailure
<1>5. CASE RegistryNext \/ TaskNext \/ WorkNext \/ UNCHANGED vars
  BY <1>5, RegistryStep, TaskStep, WorkItemStep, TypesOfTheLedger DEF RegistryKeeps, TaskKeeps, inboxVars, vars
<1>6. QED
  BY <1>4, <1>5 DEF Next

\* HandleEvent's own row: claimed while it was retryable, and PROCESSED after.
LEMMA HandledRow ==
  ASSUME TypeInv, NEW e \in Events, HandleEvent(e)
  PROVE  /\ \/ inbox[e].status = "RECEIVED"
            \/ inbox[e].status = "FAILED" /\ inbox[e].attempts < MaxAttempts
         /\ inbox'[e] = [status |-> "PROCESSED", attempts |-> inbox[e].attempts + 1]
BY DEF HandleEvent, Claimable, TypeInv, TypeOK, LedgerTypeOK

LEMMA AttemptsNext == TypeInv /\ AttemptsInv /\ [Next]_vars => AttemptsInv'
<1> SUFFICES ASSUME TypeInv, AttemptsInv, [Next]_vars
             PROVE  AttemptsInv'
  OBVIOUS
<1>1. \A e \in Events : inbox[e] \in Inboxes
  BY DEF TypeInv, TypeOK, LedgerTypeOK
<1>2. ASSUME NEW e \in Events
      PROVE  inbox'[e].status \in {"ABSENT", "RECEIVED"} => inbox'[e].attempts = 0
  <2>1. CASE HandleEvent(e)
    <3>1. inbox'[e] = [status |-> "PROCESSED", attempts |-> inbox[e].attempts + 1]
      BY <2>1, HandledRow
    <3>2. inbox'[e].status = "PROCESSED"
      BY <3>1
    <3>3. QED
      BY <3>2
  <2>2. CASE ~HandleEvent(e)
    <3>1. inbox[e].status \in {"ABSENT", "RECEIVED"} => inbox[e].attempts = 0
      BY DEF AttemptsInv
    <3>2. \/ inbox'[e] = inbox[e]
          \/ inbox'[e] = [status |-> "RECEIVED", attempts |-> 0]
          \/ inbox'[e] = [status |-> "FAILED", attempts |-> inbox[e].attempts + 1]
      BY <2>2, RowStep
    <3>3. QED
      BY <3>1, <3>2
  <2>3. QED
    BY <2>1, <2>2
<1>3. ASSUME NEW t \in Tasks, NEW e \in Events
      PROVE  LET k == Cardinality(DriftsBy(t, e)') IN
             /\ 2 * k <= inbox'[e].attempts + (IF inbox'[e].status = "PROCESSED" THEN 1 ELSE 0)
             /\ k <= 1 \/ 2 * k <= MaxAttempts + 1
  <2> DEFINE k == Cardinality(DriftsBy(t, e))
             l == Cardinality(DriftsBy(t, e)')
  <2>1. /\ 2 * k <= inbox[e].attempts + (IF inbox[e].status = "PROCESSED" THEN 1 ELSE 0)
        /\ k <= 1 \/ 2 * k <= MaxAttempts + 1
    BY DEF AttemptsInv
  <2>2. k \in Nat
    BY DriftsByFinite DEF TypeInv
  <2>3. l \in Nat
    <3>1. TypeOK'
      BY TypeNext DEF TypeInv
    <3>2. (IsFiniteSet(drifts) /\ DriftsBy(t, e) \in SUBSET drifts)'
      BY <3>1 DEF TypeOK, LedgerTypeOK, DriftsBy, DriftsOf
    <3>3. IsFiniteSet(DriftsBy(t, e)')
      BY <3>2, FS_Subset
    <3>4. QED
      BY <3>3, FS_CardinalityType
  <2>4. inbox[e].attempts \in Nat /\ MaxAttempts \in Nat
    BY <1>1, BoundsAssumption DEF Inboxes
  <2> HIDE DEF k, l
  <2>5. CASE HandleEvent(e)
    <3>1. l <= k + 1
      BY <2>5, HandleCount DEF k, l
    <3>2. /\ \/ inbox[e].status = "RECEIVED" /\ inbox[e].attempts = 0
             \/ inbox[e].status = "FAILED" /\ inbox[e].attempts < MaxAttempts
          /\ inbox'[e] = [status |-> "PROCESSED", attempts |-> inbox[e].attempts + 1]
      BY <2>5, HandledRow DEF AttemptsInv
    <3>3. QED
      BY <2>1, <2>2, <2>3, <2>4, <3>1, <3>2 DEF l
  <2>6. CASE ~HandleEvent(e)
    <3>1. l <= k
      <4>1. CASE \E f \in Events : HandleEvent(f)
        <5>1. PICK f \in Events : HandleEvent(f)
          BY <4>1
        <5>2. e # f
          BY <2>6, <5>1
        <5>3. l <= k + (IF e = f THEN 1 ELSE 0)
          BY <5>1, HandleCount DEF k, l
        <5>4. QED
          BY <2>2, <5>2, <5>3
      <4>2. CASE \A f \in Events : ~HandleEvent(f)
        BY <4>2, CountStep DEF k, l
      <4>3. QED
        BY <4>1, <4>2
    <3>2. \/ inbox'[e] = inbox[e]
          \/ /\ inbox[e].status = "ABSENT" /\ inbox[e].attempts = 0
             /\ inbox'[e] = [status |-> "RECEIVED", attempts |-> 0]
          \/ inbox'[e] = [status |-> "FAILED", attempts |-> inbox[e].attempts + 1]
      BY <2>6, RowStep DEF AttemptsInv
    <3>3. QED
      BY <2>1, <2>2, <2>3, <2>4, <3>1, <3>2 DEF l
  <2>7. QED
    BY <2>5, <2>6
<1>4. QED
  BY <1>2, <1>3 DEF AttemptsInv

LEMMA AttemptsInit == Init => AttemptsInv
<1> SUFFICES ASSUME Init PROVE AttemptsInv
  OBVIOUS
<1>1. \A t \in Tasks, e \in Events : DriftsBy(t, e) = {}
  BY DEF Init, DriftsBy, DriftsOf
<1>2. Cardinality({}) = 0
  BY FS_EmptySet
<1>3. \A t \in Tasks, e \in Events : Cardinality(DriftsBy(t, e)) = 0
  BY <1>1, <1>2
<1>4. \A e \in Events : inbox[e].status = "ABSENT" /\ inbox[e].attempts = 0
  BY DEF Init
<1>5. QED
  BY <1>3, <1>4 DEF AttemptsInv

\* In every deployment, with any number of workers and of faults, an event
\* interrupts a task at most once for each two attempts it uses.
THEOREM BoundedReinterruptions == Spec => []ReinterruptionsAreBounded
<1>1. TypeInv /\ AttemptsInv => ReinterruptionsAreBounded
  <2> SUFFICES ASSUME TypeInv, AttemptsInv, NEW t \in Tasks, NEW e \in Events
               PROVE  LET k == Cardinality(DriftsBy(t, e)) IN
                      /\ 2 * k <= inbox[e].attempts + 1
                      /\ k <= 1 \/ 2 * k <= MaxAttempts + 1
    BY DEF ReinterruptionsAreBounded
  <2>1. Cardinality(DriftsBy(t, e)) \in Nat /\ inbox[e].attempts \in Nat
    BY DriftsByFinite DEF TypeInv, TypeOK, LedgerTypeOK, Inboxes
  <2>2. QED
    BY <2>1 DEF AttemptsInv
<1>2. QED
  BY TypeCorrect, AttemptsInit, AttemptsNext, <1>1, PTL DEF Spec

-----------------------------------------------------------------------------
(* Manual approval: what the default deployment adds. *)

\* should_auto_reconcile is false, harnesses never register a task_id again,
\* and the agent runner's checkpoint helper is not in use.
ManualDeployment ==
  TRUE \notin AutoChoices /\ ReuseTaskIds = FALSE /\ Runners = {}

\* A task that is not registered has no rows in other tables.
UnregisteredIsBlank ==
  \A t \in Tasks : status[t] = "NONE"
    => DriftsOf(t) = {} /\ \A c \in Contracts : binding[t][c] = 0

\* Only an approval closes a drift, and an approved task is never replanned
\* again: while a task is replanning all its drifts are open.
ClosedDriftsAreFinal ==
  \A d \in drifts : ~d.active => status[d.task] \in {"RECONCILED", "COMPLETED"}

\* An open drift is never behind the binding of a task that registered.  It may
\* be behind that of a work item's task, once the item is approved.
OpenDriftsAreAhead ==
  \A d \in drifts : d.active /\ claims[d.task] = NoWork
                     => binding[d.task][outbox[d.event].contract] <= d.revision

SettledInv ==
  /\ SettledTasksHaveNoActiveDrift
  /\ InterruptedTasksHaveActiveDrift
  /\ UnregisteredIsBlank
  /\ ClosedDriftsAreFinal
  /\ OpenDriftsAreAhead

Inv == TypeInv /\ LineageInv /\ SettledInv

\* What a step does not do to the bindings of registered tasks.
NoRegress ==
  \A t \in Tasks, c \in Contracts : claims[t] = NoWork => binding'[t][c] >= binding[t][c]

\* Neither the registry nor a worker without an event to handle touches tasks.
LEMMA IdleSettled ==
  ASSUME Inv, UNCHANGED <<status, binding, drifts, claims>>,
         \A e \in Events : outbox[e] # NoEvent => outbox'[e] = outbox[e]
  PROVE  SettledInv'
<1>1. OpenDriftsAreAhead'
  <2>1. ASSUME NEW d \in drifts
        PROVE  outbox'[d.event] = outbox[d.event]
    BY DEF Inv, LineageInv, DriftLineage, TypeInv, TypeOK, LedgerTypeOK, DriftEvents
  <2>2. QED
    BY <2>1 DEF Inv, SettledInv, OpenDriftsAreAhead
<1>2. QED
  BY <1>1 DEF Inv, SettledInv, SettledTasksHaveNoActiveDrift,
              InterruptedTasksHaveActiveDrift, UnregisteredIsBlank,
              ClosedDriftsAreFinal, ActiveDriftsOf, DriftsOf

\* Raising the drifts of one event interrupts exactly the tasks that get one.
LEMMA HandleSettled ==
  ASSUME Inv, NEW e \in Events, HandleEvent(e)
  PROVE  SettledInv'
<1>1. UNCHANGED <<outbox, binding, claims>> /\ outbox[e] \in ChangeEvents
  BY HandleEventType, TypesOfTheLedger DEF Inv
<1>2. CASE outbox[e].intervention
  <2>1. /\ drifts' = drifts \cup NewDrifts(e)
        /\ status' = [t \in Tasks |-> IF t \in Affected(e) THEN "REPLAN_REQUIRED" ELSE status[t]]
    BY <1>2 DEF HandleEvent
  <2>2. ASSUME NEW t \in Tasks, t \in Affected(e)
        PROVE  /\ status'[t] = "REPLAN_REQUIRED" /\ status[t] \in Interruptible
               /\ \E d \in drifts' : d.task = t /\ d.active
    <3>1. status'[t] = "REPLAN_REQUIRED" /\ status[t] \in Interruptible
      BY <2>1, <2>2 DEF Affected
    <3> DEFINE d == [task |-> t, source |-> ProviderOf[outbox[e].contract],
                     revision |-> outbox[e].revision, event |-> e,
                     at |-> Cardinality(drifts) + 1, active |-> TRUE]
    <3>2. d \in drifts'
      BY <2>1, <2>2 DEF NewDrifts
    <3>3. d.task = t /\ d.active
      OBVIOUS
    <3>4. QED
      BY <3>1, <3>2, <3>3
  <2>3. ASSUME NEW t \in Tasks, t \notin Affected(e)
        PROVE  /\ status'[t] = status[t]
               /\ \A d \in drifts' : d.task = t => d \in drifts
    BY <2>1, <2>3 DEF NewDrifts
  <2>4. ASSUME NEW d \in drifts', d \notin drifts
        PROVE  /\ d.active /\ d.task \in Affected(e) /\ d.event = e
               /\ binding[d.task][outbox[e].contract] <= d.revision
    BY <2>4, HandledDrifts DEF Inv
  <2>5. SettledTasksHaveNoActiveDrift'
    BY <2>1, <2>2, <2>3 DEF Inv, SettledInv, SettledTasksHaveNoActiveDrift,
                            ActiveDriftsOf, DriftsOf
  <2>6. InterruptedTasksHaveActiveDrift'
    BY <2>1, <2>2, <2>3 DEF Inv, SettledInv, InterruptedTasksHaveActiveDrift,
                            ActiveDriftsOf, DriftsOf
  <2>7. UnregisteredIsBlank'
    BY <1>1, <2>2, <2>3 DEF Inv, SettledInv, UnregisteredIsBlank, DriftsOf
  <2>8. ClosedDriftsAreFinal'
    <3>1. SUFFICES ASSUME NEW d \in drifts', ~d.active
                   PROVE  status'[d.task] \in {"RECONCILED", "COMPLETED"}
      BY DEF ClosedDriftsAreFinal
    <3>2. d \in drifts /\ d.task \in Tasks
      BY <2>4, <3>1 DEF Inv, TypeInv, TypeOK, LedgerTypeOK, DriftEvents
    <3>3. status[d.task] \in {"RECONCILED", "COMPLETED"}
      BY <3>1, <3>2 DEF Inv, SettledInv, ClosedDriftsAreFinal
    <3>4. QED
      BY <2>2, <2>3, <3>2, <3>3 DEF Interruptible
  <2>9. OpenDriftsAreAhead'
    BY <1>1, <2>4 DEF Inv, SettledInv, OpenDriftsAreAhead
  <2>10. QED
    BY <2>5, <2>6, <2>7, <2>8, <2>9 DEF SettledInv
<1>3. CASE ~outbox[e].intervention
  BY <1>1, <1>3, IdleSettled DEF HandleEvent
<1>4. QED
  BY <1>2, <1>3

\* A transaction that only moves the status of t between two states that both
\* need an open drift, both forbid one, or do not care.
LEMMA MoveSettled ==
  ASSUME Inv, NEW t \in Tasks, NEW s,
         status' = [status EXCEPT ![t] = s],
         UNCHANGED <<binding, drifts, outbox, claims>>,
         s # "NONE",
         s \in {"OPTIMISTIC_EXECUTING", "RECONCILED", "COMPLETED"} => ActiveDriftsOf(t) = {},
         s \in {"REPLAN_REQUIRED", "AWAITING_APPROVAL"} => ActiveDriftsOf(t) # {},
         s \notin {"RECONCILED", "COMPLETED"} => \A d \in DriftsOf(t) : d.active
  PROVE  SettledInv'
<1>1. \A u \in Tasks : status'[u] = IF u = t THEN s ELSE status[u]
  BY DEF Inv, TypeInv, TypeOK, LedgerTypeOK
<1>2. \A d \in drifts : d.task \in Tasks
  BY DEF Inv, TypeInv, TypeOK, LedgerTypeOK, DriftEvents
<1>3. SettledTasksHaveNoActiveDrift' /\ InterruptedTasksHaveActiveDrift'
  BY <1>1 DEF Inv, SettledInv, SettledTasksHaveNoActiveDrift,
              InterruptedTasksHaveActiveDrift, ActiveDriftsOf, DriftsOf
<1>4. UnregisteredIsBlank'
  BY <1>1 DEF Inv, SettledInv, UnregisteredIsBlank, DriftsOf
<1>5. ClosedDriftsAreFinal'
  BY <1>1, <1>2 DEF Inv, SettledInv, ClosedDriftsAreFinal, DriftsOf
<1>6. OpenDriftsAreAhead'
  BY DEF Inv, SettledInv, OpenDriftsAreAhead
<1>7. QED
  BY <1>3, <1>4, <1>5, <1>6 DEF SettledInv

\* While a task is replanning or awaiting approval, all its drifts are open.
LEMMA UnsettledDriftsAreOpen ==
  ASSUME Inv, NEW t \in Tasks, status[t] \notin {"RECONCILED", "COMPLETED"}
  PROVE  \A d \in DriftsOf(t) : d.active
BY DEF Inv, SettledInv, ClosedDriftsAreFinal, DriftsOf

\* Approval closes every open drift of the task and rebinds it forward.
LEMMA ApproveSettled ==
  ASSUME Inv, NEW t \in Tasks, Approve(t)
  PROVE  SettledInv' /\ NoRegress
<1>1. /\ status' = [status EXCEPT ![t] = "RECONCILED"]
      /\ drifts' = Resolve(ActiveDriftsOf(t))
      /\ outbox' = outbox /\ claims' = claims
  BY DEF Approve, registryVars
<1>2. status[t] = "AWAITING_APPROVAL" /\ ActiveDriftsOf(t) # {}
  BY DEF Approve, Inv, SettledInv, InterruptedTasksHaveActiveDrift
<1>3. PICK d \in ActiveDriftsOf(t) : Rebind(t, d.source, d.revision)
  BY <1>2 DEF Approve
<1>4. d \in drifts /\ d.task = t /\ d.active
  BY DEF ActiveDriftsOf, DriftsOf
<1> DEFINE k == outbox[d.event].contract
<1>5. k \in Contracts /\ binding' = [binding EXCEPT ![t][k] = d.revision]
  BY <1>3, <1>4, RebindMovesOneContract DEF Inv
<1>6. /\ claims[t] = NoWork => binding[t][k] <= d.revision
      /\ d.revision \in Nat /\ binding[t][k] \in Nat
  BY <1>4, <1>5 DEF Inv, SettledInv, OpenDriftsAreAhead, TypeInv, TypeOK, LedgerTypeOK, DriftEvents, Revisions
<1>7. NoRegress
  BY <1>5, <1>6 DEF NoRegress, Inv, TypeInv, TypeOK, LedgerTypeOK
<1>8. ASSUME NEW x \in drifts'
      PROVE  \E o \in drifts : /\ x.task = o.task /\ x.revision = o.revision
                               /\ x.event = o.event /\ o.task \in Tasks
                               /\ x.active => o.active /\ o = x /\ x.task # t
                               /\ ~x.active => ~o.active \/ o.task = t
  <2>1. PICK o \in drifts : /\ x.task = o.task /\ x.revision = o.revision /\ x.event = o.event
                            /\ x.active => o.active /\ o = x /\ o \notin ActiveDriftsOf(t)
                            /\ ~x.active => ~o.active \/ o \in ActiveDriftsOf(t)
    BY <1>1, ResolveKeeps DEF Inv, TypeInv, TypeOK
  <2>2. o.task \in Tasks
    BY DEF Inv, TypeInv, TypeOK, LedgerTypeOK, DriftEvents
  <2>3. QED
    BY <2>1, <2>2 DEF ActiveDriftsOf, DriftsOf
<1>9. ASSUME NEW o \in drifts, o.active, o.task # t
      PROVE  o \in drifts'
  BY <1>1, <1>9 DEF Resolve, ActiveDriftsOf, DriftsOf
<1>10. \A u \in Tasks : status'[u] = IF u = t THEN "RECONCILED" ELSE status[u]
  BY <1>1 DEF Inv, TypeInv, TypeOK, LedgerTypeOK
<1>11. SettledTasksHaveNoActiveDrift'
  BY <1>8, <1>10 DEF Inv, SettledInv, SettledTasksHaveNoActiveDrift, ActiveDriftsOf, DriftsOf
<1>12. InterruptedTasksHaveActiveDrift'
  BY <1>9, <1>10 DEF Inv, SettledInv, InterruptedTasksHaveActiveDrift, ActiveDriftsOf, DriftsOf
<1>13. UnregisteredIsBlank'
  <2>1. \A u \in Tasks : status'[u] = "NONE" => u # t /\ status[u] = "NONE"
    BY <1>10
  <2>2. \A u \in Tasks : u # t => binding'[u] = binding[u]
    BY <1>5 DEF Inv, TypeInv, TypeOK, LedgerTypeOK
  <2>3. QED
    BY <1>8, <2>1, <2>2 DEF Inv, SettledInv, UnregisteredIsBlank, DriftsOf
<1>14. ClosedDriftsAreFinal'
  BY <1>8, <1>10 DEF Inv, SettledInv, ClosedDriftsAreFinal
<1>15. OpenDriftsAreAhead'
  <2>1. \A u \in Tasks : u # t => binding'[u] = binding[u]
    BY <1>5 DEF Inv, TypeInv, TypeOK, LedgerTypeOK
  <2>2. QED
    BY <1>1, <1>8, <2>1 DEF Inv, SettledInv, OpenDriftsAreAhead
<1>16. QED
  BY <1>7, <1>11, <1>12, <1>13, <1>14, <1>15 DEF SettledInv

\* A task is created when nothing refers to it yet.
LEMMA CreateSettled ==
  ASSUME Inv, NEW t \in Tasks, NEW deps, CreateTask(t, deps), status[t] = "NONE",
         binding' \in [Tasks -> [Contracts -> Nat]],
         \A u \in Tasks \ {t} : claims'[u] = claims[u]
  PROVE  SettledInv' /\ NoRegress
<1>1. DriftsOf(t) = {} /\ \A c \in Contracts : binding[t][c] = 0
  BY DEF Inv, SettledInv, UnregisteredIsBlank
<1>2. drifts' = drifts /\ outbox' = outbox
  BY DEF CreateTask, registryVars
<1>3. \A u \in Tasks : u # t => binding'[u] = binding[u] /\ status'[u] = status[u]
  BY DEF CreateTask, Inv, TypeInv, TypeOK, LedgerTypeOK
<1>4. status'[t] = "OPTIMISTIC_EXECUTING"
  BY DEF CreateTask, Inv, TypeInv, TypeOK, LedgerTypeOK
<1>5. \A d \in drifts : d.task # t /\ d.task \in Tasks
  BY <1>1 DEF DriftsOf, Inv, TypeInv, TypeOK, LedgerTypeOK, DriftEvents
<1>6. NoRegress
  <2>1. \A c \in Contracts : binding'[t][c] \in Nat /\ binding'[t][c] >= binding[t][c]
    BY <1>1
  <2>2. \A u \in Tasks, c \in Contracts : binding[u][c] \in Nat
    BY DEF Inv, TypeInv, TypeOK, LedgerTypeOK
  <2>3. QED
    BY <1>3, <2>1, <2>2 DEF NoRegress
<1>7. SettledTasksHaveNoActiveDrift' /\ InterruptedTasksHaveActiveDrift'
  BY <1>2, <1>3, <1>4, <1>5 DEF Inv, SettledInv, SettledTasksHaveNoActiveDrift,
        InterruptedTasksHaveActiveDrift, ActiveDriftsOf, DriftsOf
<1>8. UnregisteredIsBlank' /\ ClosedDriftsAreFinal'
  BY <1>2, <1>3, <1>4, <1>5 DEF Inv, SettledInv, UnregisteredIsBlank,
        ClosedDriftsAreFinal, DriftsOf
<1>9. OpenDriftsAreAhead'
  BY <1>2, <1>3, <1>5 DEF Inv, SettledInv, OpenDriftsAreAhead
<1>10. QED
  BY <1>6, <1>7, <1>8, <1>9 DEF SettledInv

\* Harnesses register a task_id once.
LEMMA RegisterSettled ==
  ASSUME ManualDeployment, Inv, NEW t \in Tasks, NEW deps \in Dependencies, Register(t, deps)
  PROVE  SettledInv' /\ NoRegress
<1>1. CreateTask(t, deps) /\ status[t] = "NONE" /\ claims' = claims
  BY DEF Register, ManualDeployment
<1>2. TaskNext
  BY DEF TaskNext
<1>3. binding' \in [Tasks -> [Contracts -> Nat]]
  BY <1>2, TaskStep, TypesOfTheLedger DEF Inv, TaskKeeps
<1>4. QED
  BY <1>1, <1>3, CreateSettled

\* Persisting a dependency or approving an item moves no status and no drift; an
\* item's approval binds no task that registered.
LEMMA WorkSettled ==
  ASSUME Inv, WorkNext
  PROVE  SettledInv' /\ NoRegress
<1>a. /\ UNCHANGED <<latest, outbox, drifts>>
      /\ binding' \in [Tasks -> [Contracts -> Nat]]
  BY WorkItemStep, TypesOfTheLedger DEF Inv, TaskKeeps, registryVars
<1>1. ASSUME NEW c \in Contracts, NEW r, PersistDependency(c, r)
      PROVE  SettledInv' /\ NoRegress
  <2>1. UNCHANGED <<status, binding, drifts, claims, outbox>>
    BY <1>1, <1>a DEF PersistDependency
  <2>2. NoRegress
    BY <2>1 DEF NoRegress, Inv, TypeInv, TypeOK, LedgerTypeOK
  <2>3. QED
    BY <2>1, <2>2, IdleSettled
<1>2. ASSUME NEW w \in work, ApproveItem(w)
      PROVE  SettledInv' /\ NoRegress
  <2>1. w \in WorkItems /\ w # NoWork /\ w.dep # 0
    BY SetsAssumption DEF Inv, TypeInv, TypeOK, LedgerTypeOK, WorkItems, Revisions
  <2>2. UNCHANGED <<status, claims>>
    BY <1>2 DEF ApproveItem
  <2>3. ASSUME NEW u \in Tasks, claims[u] = NoWork \/ \A c \in Contracts : binding[u][c] = 0
        PROVE  binding'[u] = binding[u]
    BY <1>2, <2>1, <2>3 DEF ApproveItem, Claimants, Inv, TypeInv, TypeOK, LedgerTypeOK, WorkItems
  <2>4. NoRegress
    BY <2>3 DEF NoRegress, Inv, TypeInv, TypeOK, LedgerTypeOK
  <2>5. \A d \in drifts : d.task \in Tasks
    BY DEF Inv, TypeInv, TypeOK, LedgerTypeOK, DriftEvents
  <2>6. OpenDriftsAreAhead'
    BY <1>a, <2>2, <2>3, <2>5 DEF Inv, SettledInv, OpenDriftsAreAhead
  <2>7. UnregisteredIsBlank'
    BY <1>a, <2>2, <2>3 DEF Inv, SettledInv, UnregisteredIsBlank, DriftsOf
  <2>8. QED
    BY <1>a, <2>2, <2>4, <2>6, <2>7 DEF Inv, SettledInv, SettledTasksHaveNoActiveDrift,
          InterruptedTasksHaveActiveDrift, ClosedDriftsAreFinal, ActiveDriftsOf, DriftsOf
<1>3. ASSUME NEW w \in work, NEW t \in Tasks, ClaimWork(t, w)
      PROVE  SettledInv' /\ NoRegress
  <2>1. /\ status[t] = "NONE" /\ CreateTask(t, [c \in {w.contract} |-> w.dep])
        /\ \A u \in Tasks \ {t} : claims'[u] = claims[u]
    BY <1>3 DEF ClaimWork, Inv, TypeInv, TypeOK, LedgerTypeOK
  <2>2. QED
    BY <1>a, <2>1, CreateSettled
<1>4. QED
  BY <1>1, <1>2, <1>3 DEF WorkNext

\* Under manual approval the tasks' transactions keep the invariant and never
\* lower a registered task's binding.
LEMMA TaskSettled ==
  ASSUME ManualDeployment, Inv, TaskNext
  PROVE  SettledInv' /\ NoRegress
<1> DEFINE Goal == SettledInv' /\ NoRegress
<1>a. ASSUME binding' = binding, SettledInv'
      PROVE  Goal
  BY <1>a DEF NoRegress, Inv, TypeInv, TypeOK, LedgerTypeOK
<1>1. ASSUME NEW t \in Tasks, StartReplanning(t) \/ Reject(t)
      PROVE  Goal
  <2>1. status[t] \notin {"NONE", "RECONCILED", "COMPLETED"}
    BY <1>1 DEF StartReplanning, Reject
  <2>2. /\ status' = [status EXCEPT ![t] = "REPLANNING"]
        /\ UNCHANGED <<binding, drifts, outbox, claims>>
    BY <1>1 DEF StartReplanning, Reject, registryVars
  <2>3. QED
    BY <1>a, <2>1, <2>2, MoveSettled, UnsettledDriftsAreOpen
<1>2. ASSUME NEW t \in Tasks, NEW id, NEW auto \in AutoChoices, Submit(t, id, auto)
      PROVE  Goal
  <2>1. auto = FALSE
    BY BoundsAssumption DEF ManualDeployment
  <2>2. PICK plan \in IF id \in DriftsOf(t) THEN {id} ELSE Newest(DriftsOf(t)) :
          UNCHANGED <<drifts, binding, confirmed>>
    BY <1>2, <2>1 DEF Submit
  <2>3. plan \in DriftsOf(t) /\ status[t] = "REPLANNING"
    BY <1>2, <2>2 DEF Newest, Submit
  <2>4. \A d \in DriftsOf(t) : d.active
    BY <2>3, UnsettledDriftsAreOpen
  <2>5. ActiveDriftsOf(t) # {}
    BY <2>3, <2>4 DEF ActiveDriftsOf
  <2>6. /\ status' = [status EXCEPT ![t] = "AWAITING_APPROVAL"]
        /\ UNCHANGED <<binding, drifts, outbox, claims>>
    BY <1>2, <2>1, <2>2 DEF Submit, registryVars
  <2>7. SettledInv'
    BY <2>4, <2>5, <2>6, MoveSettled
  <2>8. QED
    BY <1>a, <2>6, <2>7
<1>3. ASSUME NEW t \in Tasks, Complete(t)
      PROVE  Goal
  <2>1. ActiveDriftsOf(t) = {}
    BY <1>3 DEF Complete, Inv, SettledInv, SettledTasksHaveNoActiveDrift
  <2>2. /\ status' = [status EXCEPT ![t] = "COMPLETED"]
        /\ UNCHANGED <<binding, drifts, outbox, claims>>
    BY <1>3 DEF Complete, registryVars
  <2>3. SettledInv'
    BY <2>1, <2>2, MoveSettled
  <2>4. QED
    BY <1>a, <2>2, <2>3
<1>4. ASSUME NEW t \in Tasks, RunnerCheck(t)
      PROVE  Goal
  BY <1>4 DEF RunnerCheck, ManualDeployment
<1>5. ASSUME NEW t \in Tasks, RunnerSave(t)
      PROVE  Goal
  BY <1>5 DEF RunnerSave, ManualDeployment, Inv, TypeInv, TypeOK, LedgerTypeOK
<1>6. QED
  BY <1>1, <1>2, <1>3, <1>4, <1>5, RegisterSettled, ApproveSettled DEF TaskNext

LEMMA SettledNext ==
  ASSUME ManualDeployment, Inv, [Next]_vars
  PROVE  SettledInv' /\ NoRegress
<1>a. ASSUME binding' = binding, SettledInv'
      PROVE  NoRegress
  BY <1>a DEF NoRegress, Inv, TypeInv, TypeOK, LedgerTypeOK
<1>1. CASE RegistryNext
  <2>1. /\ UNCHANGED <<status, binding, drifts, claims>>
        /\ \A e \in Events : outbox[e] # NoEvent => outbox'[e] = outbox[e]
    BY <1>1, RegistryStep DEF Inv, RegistryKeeps, taskVars
  <2>2. QED
    BY <1>a, <2>1, IdleSettled
<1>2. CASE InboxNext
  <2>1. UNCHANGED <<binding, outbox, claims>>
    BY <1>2, InboxStep, TypesOfTheLedger DEF Inv, InboxKeeps
  <2>2. QED
    BY <1>2, <1>a, <2>1, InboxEffect, IdleSettled, HandleSettled DEF Inv
<1>3. CASE TaskNext
  BY <1>3, TaskSettled
<1>4. CASE WorkNext
  BY <1>4, WorkSettled
<1>5. CASE UNCHANGED vars
  BY <1>5, <1>a, IdleSettled DEF vars
<1>6. QED
  BY <1>1, <1>2, <1>3, <1>4, <1>5 DEF Next

LEMMA SettledInit == Init => SettledInv
BY DEF Init, SettledInv, SettledTasksHaveNoActiveDrift, InterruptedTasksHaveActiveDrift,
       UnregisteredIsBlank, ClosedDriftsAreFinal, OpenDriftsAreAhead, ActiveDriftsOf, DriftsOf

\* Under manual approval every task's status agrees with its open drifts.
THEOREM ManualReconciliation == ASSUME ManualDeployment PROVE Spec => []Inv
<1>1. Init => Inv
  BY TypeInit, LineageInit, SettledInit DEF Inv
<1>2. Inv /\ [Next]_vars => Inv'
  BY TypeNext, LineageNext, SettledNext DEF Inv
<1>3. QED
  BY <1>1, <1>2, PTL DEF Spec

\* A settled task has no intervention left open.
COROLLARY SettledTasks ==
  ASSUME ManualDeployment PROVE Spec => []SettledTasksHaveNoActiveDrift
<1>1. Inv => SettledTasksHaveNoActiveDrift
  BY DEF Inv, SettledInv
<1>2. QED
  BY ManualReconciliation, <1>1, PTL

\* An interrupted task has a drift to replan for.
COROLLARY InterruptedTasks ==
  ASSUME ManualDeployment PROVE Spec => []InterruptedTasksHaveActiveDrift
<1>1. Inv => InterruptedTasksHaveActiveDrift
  BY DEF Inv, SettledInv
<1>2. QED
  BY ManualReconciliation, <1>1, PTL

\* No transaction moves a registered task's assumed revision backwards: not a plan
\* approved while several drifts are open, and not a work item approved meanwhile.
THEOREM ForwardOnly ==
  ASSUME ManualDeployment PROVE Spec => BindingsNeverRegress
<1>1. Inv /\ [Next]_vars => [NoRegress]_vars
  BY SettledNext
<1>2. QED
  BY ManualReconciliation, <1>1, PTL DEF Spec, BindingsNeverRegress, NoRegress

-----------------------------------------------------------------------------
(* The refinement of Interventions under manual approval, for any number of  *)
(* tasks, contracts, changes and workers: the initial states map to the      *)
(* initial state, and from a state of the inductive invariant every          *)
(* transaction maps to a step of Interventions or to a stutter.              *)

MappedPhase == [t \in Tasks |-> PhaseOf(t)]
MappedOpen  == [t \in Tasks |-> OpenOf(t)]

LEMMA InitialStatesMap == Init => Mesh!Init
BY DEF Init, Mesh!Init, AnnouncedChanges, PhaseOf, OpenOf, ActiveDriftsOf, DriftsOf

\* Without a new or resolved drift nothing is opened or closed.
LEMMA OpenUnchanged ==
  ASSUME UNCHANGED drifts PROVE MappedOpen' = MappedOpen
BY DEF MappedOpen, OpenOf, ActiveDriftsOf, DriftsOf

\* Publications and retirements announce; nothing else of Interventions moves.
LEMMA RegistryImplements ==
  ASSUME Inv, UNCHANGED <<status, drifts>>,
         \A e \in Events : outbox[e] # NoEvent => outbox'[e] = outbox[e]
  PROVE  Mesh!Announce
<1>1. MappedPhase' = MappedPhase /\ MappedOpen' = MappedOpen
  BY OpenUnchanged DEF MappedPhase, PhaseOf
<1>2. AnnouncedChanges \subseteq AnnouncedChanges' /\ AnnouncedChanges' \subseteq Events
  BY DEF AnnouncedChanges
<1>3. AnnouncedChanges' = AnnouncedChanges \cup AnnouncedChanges'
  BY <1>2
<1>4. QED
  BY <1>1, <1>2, <1>3 DEF Mesh!Announce, MappedPhase, MappedOpen

\* Handling a change that needs an intervention interrupts the affected tasks.
LEMMA HandlingImplements ==
  ASSUME Inv, NEW e \in Events, HandleEvent(e)
  PROVE  Mesh!Interrupt(e) \/ UNCHANGED <<AnnouncedChanges, MappedPhase, MappedOpen>>
<1>1. outbox' = outbox /\ AnnouncedChanges' = AnnouncedChanges /\ outbox[e] # NoEvent
  BY HandleEventType, TypesOfTheLedger DEF Inv, AnnouncedChanges
<1>2. CASE ~outbox[e].intervention
  <2>1. UNCHANGED <<status, drifts>>
    BY <1>2 DEF HandleEvent
  <2>2. QED
    BY <1>1, <2>1, OpenUnchanged DEF MappedPhase, PhaseOf
<1>3. CASE outbox[e].intervention
  <2>1. /\ drifts' = drifts \cup NewDrifts(e)
        /\ status' = [t \in Tasks |-> IF t \in Affected(e) THEN "REPLAN_REQUIRED" ELSE status[t]]
    BY <1>3 DEF HandleEvent
  <2>2. e \in AnnouncedChanges
    BY <1>1, <1>3 DEF AnnouncedChanges
  <2>3. ASSUME NEW t \in Affected(e)
        PROVE  t \in Tasks /\ PhaseOf(t) \in {"RUNNING", "HALTED"} /\ PhaseOf(t)' = "HALTED"
    BY <2>1 DEF Affected, Interruptible, PhaseOf
  <2>4. ASSUME NEW t \in Tasks, t \notin Affected(e)
        PROVE  PhaseOf(t)' = PhaseOf(t)
    <3>1. status'[t] = status[t]
      BY <2>1, <2>4
    <3>2. QED
      BY <3>1 DEF PhaseOf
  <2>5. ASSUME NEW t \in Tasks, t \notin Affected(e)
        PROVE  OpenOf(t)' = OpenOf(t)
    <3>1. ActiveDriftsOf(t)' = ActiveDriftsOf(t)
      BY <2>1, <2>5 DEF ActiveDriftsOf, DriftsOf, NewDrifts
    <3>2. QED
      BY <3>1 DEF OpenOf
  <2>6. ASSUME NEW t \in Affected(e)
        PROVE  OpenOf(t)' = OpenOf(t) \cup {e}
    <3> DEFINE d == [task |-> t, source |-> ProviderOf[outbox[e].contract],
                     revision |-> outbox[e].revision, event |-> e,
                     at |-> Cardinality(drifts) + 1, active |-> TRUE]
    <3>1. d \in NewDrifts(e) /\ d.task = t /\ d.active /\ d.event = e
      BY DEF NewDrifts
    <3>2. \A x \in NewDrifts(e) : x.event = e
      BY DEF NewDrifts
    <3>3. ActiveDriftsOf(t)' = ActiveDriftsOf(t) \cup
                                 { x \in NewDrifts(e) : x.task = t /\ x.active }
      BY <2>1 DEF ActiveDriftsOf, DriftsOf
    <3> HIDE DEF d
    <3>4. QED
      BY <3>1, <3>2, <3>3 DEF OpenOf
  <2>7. Mesh!Interrupt(e)
    <3>1. Affected(e) \in SUBSET Mesh!UnderWay
      BY <2>3 DEF Mesh!UnderWay
    <3>2. MappedPhase' = [t \in Tasks |-> IF t \in Affected(e) THEN "HALTED" ELSE MappedPhase[t]]
      BY <2>3, <2>4 DEF MappedPhase
    <3>3. MappedOpen' = [t \in Tasks |-> IF t \in Affected(e)
                                         THEN MappedOpen[t] \cup {e} ELSE MappedOpen[t]]
      BY <2>5, <2>6 DEF MappedOpen
    <3>4. QED
      BY <1>1, <2>2, <3>1, <3>2, <3>3 DEF Mesh!Interrupt, MappedPhase, MappedOpen
  <2>8. QED
    BY <2>7
<1>4. QED
  BY <1>2, <1>3

\* A transaction that moves the status of one task and leaves its drifts alone.
LEMMA MoveMaps ==
  ASSUME Inv, NEW t \in Tasks, NEW s,
         status' = [status EXCEPT ![t] = s], UNCHANGED <<drifts, outbox>>
  PROVE  /\ AnnouncedChanges' = AnnouncedChanges
         /\ MappedPhase' = [MappedPhase EXCEPT ![t] = PhaseOf(t)']
         /\ MappedOpen' = MappedOpen
         /\ status'[t] = s
<1>1. AnnouncedChanges' = AnnouncedChanges
  BY DEF AnnouncedChanges
<1>2. status'[t] = s /\ \A u \in Tasks \ {t} : status'[u] = status[u]
  BY DEF Inv, TypeInv, TypeOK, LedgerTypeOK
<1>3. ASSUME NEW u \in Tasks \ {t}
      PROVE  PhaseOf(u)' = PhaseOf(u)
  BY <1>2 DEF PhaseOf
<1>4. MappedPhase' = [MappedPhase EXCEPT ![t] = PhaseOf(t)']
  BY <1>3 DEF MappedPhase
<1>5. QED
  BY <1>1, <1>2, <1>4, OpenUnchanged

\* An approval settles the task and closes all it has open.
LEMMA ApprovalImplements ==
  ASSUME Inv, NEW t \in Tasks, Approve(t)
  PROVE  Mesh!Settle(t)
<1>1. /\ status' = [status EXCEPT ![t] = "RECONCILED"]
      /\ drifts' = Resolve(ActiveDriftsOf(t))
      /\ outbox' = outbox
  BY DEF Approve, registryVars
<1>2. status[t] = "AWAITING_APPROVAL" /\ ActiveDriftsOf(t) # {}
  BY DEF Approve, Inv, SettledInv, InterruptedTasksHaveActiveDrift
<1>3. AnnouncedChanges' = AnnouncedChanges
  BY <1>1 DEF AnnouncedChanges
<1>4. status'[t] = "RECONCILED" /\ \A u \in Tasks \ {t} : status'[u] = status[u]
  BY <1>1 DEF Inv, TypeInv, TypeOK, LedgerTypeOK
<1>5. PhaseOf(t) = "HALTED" /\ PhaseOf(t)' = "SETTLED" /\ OpenOf(t) # {}
  BY <1>2, <1>4 DEF PhaseOf, OpenOf
<1>6. ASSUME NEW u \in Tasks \ {t}
      PROVE  PhaseOf(u)' = PhaseOf(u)
  BY <1>4 DEF PhaseOf
<1>7. ActiveDriftsOf(t)' = {}
  <2>1. SUFFICES ASSUME NEW d \in drifts', d.task = t, d.active PROVE FALSE
    BY DEF ActiveDriftsOf, DriftsOf
  <2>2. d \in drifts /\ d \notin ActiveDriftsOf(t)
    BY <1>1, <2>1, ResolveKeeps DEF Inv, TypeInv, TypeOK
  <2>3. QED
    BY <2>1, <2>2 DEF ActiveDriftsOf, DriftsOf
<1>8. ASSUME NEW u \in Tasks \ {t}
      PROVE  ActiveDriftsOf(u)' = ActiveDriftsOf(u)
  <2>1. ASSUME NEW d \in drifts', d.task = u, d.active
        PROVE  d \in drifts
    BY <1>1, <2>1, ResolveKeeps DEF Inv, TypeInv, TypeOK
  <2>2. ASSUME NEW d \in drifts, d.task = u, d.active
        PROVE  d \in drifts'
    BY <1>1, <2>2 DEF Resolve, ActiveDriftsOf, DriftsOf
  <2>3. QED
    BY <2>1, <2>2 DEF ActiveDriftsOf, DriftsOf
<1>9. MappedPhase' = [MappedPhase EXCEPT ![t] = "SETTLED"]
  BY <1>5, <1>6 DEF MappedPhase
<1>10. MappedOpen' = [MappedOpen EXCEPT ![t] = {}]
  BY <1>7, <1>8 DEF MappedOpen, OpenOf
<1>11. QED
  BY <1>3, <1>5, <1>9, <1>10 DEF Mesh!Settle, MappedPhase, MappedOpen

\* A created task joins.
LEMMA CreationImplements ==
  ASSUME Inv, NEW t \in Tasks, NEW deps, CreateTask(t, deps), status[t] = "NONE"
  PROVE  Mesh!Join(t)
<1>1. status' = [status EXCEPT ![t] = "OPTIMISTIC_EXECUTING"] /\ UNCHANGED <<drifts, outbox>>
  BY DEF CreateTask, registryVars
<1>2. PhaseOf(t) = "ABSENT" /\ PhaseOf(t)' = "RUNNING"
  <2>1. status'[t] = "OPTIMISTIC_EXECUTING"
    BY <1>1, MoveMaps
  <2>2. QED
    BY <2>1 DEF PhaseOf
<1>3. QED
  BY <1>1, <1>2, MoveMaps DEF Mesh!Join, MappedPhase, MappedOpen

\* A claim of a work item creates a task; nothing else about work items is seen.
LEMMA WorkImplements ==
  ASSUME Inv, WorkNext
  PROVE  Mesh!Next
<1>1. UNCHANGED <<drifts, outbox>>
  BY WorkItemStep, TypesOfTheLedger DEF Inv, TaskKeeps, registryVars
<1>2. ASSUME status' = status
      PROVE  Mesh!Next
  BY <1>1, <1>2, RegistryImplements DEF Mesh!Next
<1>3. ASSUME NEW w \in work, NEW t \in Tasks, ClaimWork(t, w)
      PROVE  Mesh!Next
  BY <1>3, CreationImplements DEF ClaimWork, Mesh!Next
<1>4. QED
  BY <1>2, <1>3 DEF WorkNext, PersistDependency, ApproveItem

\* Every other operation on a task joins it, halts it, finishes it or stutters.
LEMMA TaskImplements ==
  ASSUME ManualDeployment, Inv, TaskNext
  PROVE  Mesh!Next \/ UNCHANGED Mesh!mesh
<1> DEFINE Goal == Mesh!Next \/ UNCHANGED Mesh!mesh
<1>1. ASSUME NEW t \in Tasks, NEW deps, Register(t, deps)
      PROVE  Goal
  BY <1>1, CreationImplements DEF Register, ManualDeployment, Mesh!Next
<1>2. ASSUME NEW t \in Tasks, StartReplanning(t)
      PROVE  Goal
  <2>1. status' = [status EXCEPT ![t] = "REPLANNING"] /\ UNCHANGED <<drifts, outbox>>
    BY <1>2 DEF StartReplanning, registryVars
  <2>2. PhaseOf(t) \in {"RUNNING", "HALTED"} /\ PhaseOf(t)' = "HALTED"
    <3>1. status'[t] = "REPLANNING"
      BY <2>1, MoveMaps
    <3>2. status[t] \in {"REPLAN_REQUIRED", "OPTIMISTIC_EXECUTING", "REPLANNING"}
      BY <1>2 DEF StartReplanning
    <3>3. QED
      BY <3>1, <3>2 DEF PhaseOf
  <2>3. CASE PhaseOf(t) = "RUNNING"
    <3>1. Mesh!Halt(t)
      BY <2>1, <2>2, <2>3, MoveMaps DEF Mesh!Halt, MappedPhase, MappedOpen
    <3>2. QED
      BY <3>1 DEF Mesh!Next
  <2>4. CASE PhaseOf(t) = "HALTED"
    BY <2>1, <2>2, <2>4, MoveMaps DEF Mesh!mesh, MappedPhase, MappedOpen
  <2>5. QED
    BY <2>2, <2>3, <2>4
<1>3. ASSUME NEW t \in Tasks, NEW id, NEW auto \in AutoChoices, Submit(t, id, auto)
      PROVE  Goal
  <2>1. auto = FALSE
    BY BoundsAssumption DEF ManualDeployment
  <2>2. status' = [status EXCEPT ![t] = "AWAITING_APPROVAL"] /\ UNCHANGED <<drifts, outbox>>
    BY <1>3, <2>1 DEF Submit, registryVars
  <2>3. PhaseOf(t) = "HALTED" /\ PhaseOf(t)' = "HALTED"
    BY <1>3, <2>2, MoveMaps DEF Submit, PhaseOf
  <2>4. QED
    BY <2>2, <2>3, MoveMaps DEF Mesh!mesh, MappedPhase, MappedOpen
<1>4. ASSUME NEW t \in Tasks, Approve(t)
      PROVE  Goal
  BY <1>4, ApprovalImplements DEF Mesh!Next
<1>5. ASSUME NEW t \in Tasks, Reject(t)
      PROVE  Goal
  <2>1. status' = [status EXCEPT ![t] = "REPLANNING"] /\ UNCHANGED <<drifts, outbox>>
    BY <1>5 DEF Reject, registryVars
  <2>2. PhaseOf(t) = "HALTED" /\ PhaseOf(t)' = "HALTED"
    BY <1>5, <2>1, MoveMaps DEF Reject, PhaseOf
  <2>3. QED
    BY <2>1, <2>2, MoveMaps DEF Mesh!mesh, MappedPhase, MappedOpen
<1>6. ASSUME NEW t \in Tasks, Complete(t)
      PROVE  Goal
  <2>1. status' = [status EXCEPT ![t] = "COMPLETED"] /\ UNCHANGED <<drifts, outbox>>
    BY <1>6 DEF Complete, registryVars
  <2>2. PhaseOf(t) \in {"RUNNING", "SETTLED"} /\ PhaseOf(t)' = "SETTLED"
    <3>1. status'[t] = "COMPLETED"
      BY <2>1, MoveMaps
    <3>2. status[t] \in {"OPTIMISTIC_EXECUTING", "RECONCILED", "COMPLETED"}
      BY <1>6 DEF Complete
    <3>3. QED
      BY <3>1, <3>2 DEF PhaseOf
  <2>3. CASE PhaseOf(t) = "RUNNING"
    <3>1. OpenOf(t) = {}
      BY <1>6 DEF Complete, OpenOf, Inv, SettledInv, SettledTasksHaveNoActiveDrift
    <3>2. Mesh!Finish(t)
      BY <2>1, <2>2, <2>3, <3>1, MoveMaps DEF Mesh!Finish, MappedPhase, MappedOpen
    <3>3. QED
      BY <3>2 DEF Mesh!Next
  <2>4. CASE PhaseOf(t) = "SETTLED"
    BY <2>1, <2>2, <2>4, MoveMaps DEF Mesh!mesh, MappedPhase, MappedOpen
  <2>5. QED
    BY <2>2, <2>3, <2>4
<1>7. ASSUME NEW t \in Tasks, RunnerCheck(t) \/ RunnerSave(t)
      PROVE  Goal
  BY <1>7 DEF RunnerCheck, RunnerSave, ManualDeployment, Inv, TypeInv, TypeOK, LedgerTypeOK
<1>8. QED
  BY <1>1, <1>2, <1>3, <1>4, <1>5, <1>6, <1>7 DEF TaskNext

LEMMA StepImplements ==
  ASSUME ManualDeployment, Inv, [Next]_vars
  PROVE  [Mesh!Next]_(Mesh!mesh)
<1>1. CASE RegistryNext
  <2>1. /\ UNCHANGED <<status, drifts>>
        /\ \A e \in Events : outbox[e] # NoEvent => outbox'[e] = outbox[e]
    BY <1>1, RegistryStep DEF Inv, RegistryKeeps, taskVars
  <2>2. QED
    BY <2>1, RegistryImplements DEF Mesh!Next
<1>2. CASE InboxNext
  <2>1. outbox' = outbox
    BY <1>2, InboxStep, TypesOfTheLedger DEF Inv, InboxKeeps
  <2>2. CASE \E e \in Events : HandleEvent(e)
    BY <2>2, HandlingImplements DEF Mesh!Next, Mesh!mesh, MappedPhase, MappedOpen
  <2>3. CASE UNCHANGED <<status, drifts>>
    BY <2>1, <2>3, RegistryImplements DEF Mesh!Next
  <2>4. QED
    BY <1>2, <2>2, <2>3, InboxEffect DEF Inv
<1>3. CASE TaskNext
  BY <1>3, TaskImplements
<1>4. CASE WorkNext
  BY <1>4, WorkImplements
<1>5. CASE UNCHANGED vars
  BY <1>5, RegistryImplements DEF vars, Mesh!Next
<1>6. QED
  BY <1>1, <1>2, <1>3, <1>4, <1>5 DEF Next

\* Under manual approval the coordinator keeps the promise of Interventions: a
\* task is halted by the step that opens an intervention on it, for a committed
\* change that needs one, and goes on only by the step that closes all of them.
THEOREM Refinement ==
  ASSUME ManualDeployment PROVE Spec => ImplementsInterventions
<1>1. Inv /\ [Next]_vars => [Mesh!Next]_(Mesh!mesh)
  BY StepImplements
<1>2. QED
  BY InitialStatesMap, ManualReconciliation, <1>1, PTL
     DEF Spec, ImplementsInterventions, Mesh!Spec
=============================================================================
