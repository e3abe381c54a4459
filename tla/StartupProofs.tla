---------------------------- MODULE StartupProofs ----------------------------
(***************************************************************************)
(* Safety of migration at startup, for any number of coordinators, images, *)
(* versions and mishaps.  A coordinator decides on its snapshot of the     *)
(* ledger; the invariant is that a recorded version keeps its checksum, so *)
(* that the snapshot is never wrong about what it has, only incomplete,    *)
(* and that a loop has every version before the one it is at.              *)
(***************************************************************************)
EXTENDS Startup, TLAPS

\* What a snapshot has is in the ledger.
SnapshotsAreTrue ==
  \A c \in Coordinators : \A v \in Versions :
    seen[c][v] # NotApplied => ledger[v] = seen[c][v]

\* What a loop has passed is recorded, with the checksum of the loop's image.
PassedIsRecorded ==
  \A c \in Coordinators : phase[c] = "MIGRATING" =>
    \A v \in 1..(next[c] - 1) : ledger[v] = Disk[c][v]

Inv ==
  /\ StartupTypeOK /\ SnapshotsAreTrue /\ PassedIsRecorded
  /\ MigrationsRunOnceInOrder /\ ServedSchemaIsOwn
  /\ \A c \in Coordinators \ Demo : phase[c] = "RECOVERING" =>
       \A v \in 1..Newest[c] : ledger[v] = Disk[c][v]

\* The ledger only grows.
Grows == \A v \in Versions : ledger[v] # NotApplied => ledger'[v] = ledger[v]

LEMMA OwnVersions ==
  ASSUME NEW c \in Coordinators
  PROVE  Newest[c] \in Nat /\ Newest[c] <= MaxVersion
BY StartupAssumption

LEMMA InitInv == Init => Inv
<1> SUFFICES ASSUME Init PROVE Inv
  OBVIOUS
<1>1. StartupTypeOK
  BY StartupAssumption, OwnVersions DEF Init, StartupTypeOK
<1>2. QED
  BY <1>1 DEF Init, Inv, SnapshotsAreTrue, PassedIsRecorded, MigrationsRunOnceInOrder,
              ServedSchemaIsOwn

\* A step that changes no more than the phase of c, to one that promises less.
LEMMA PhaseStep ==
  ASSUME Inv, NEW c \in Coordinators, NEW p \in {"DOWN", "READING"},
         Goto(c, p), UNCHANGED <<ledger, ran, seen, next>>, faults' \in 0..MaxFaults
  PROVE  Inv'
<1>1. StartupTypeOK'
  BY DEF Inv, StartupTypeOK, Goto
<1>2. phase'[c] = p /\ \A d \in Coordinators \ {c} : phase'[d] = phase[d]
  BY DEF Inv, StartupTypeOK, Goto
<1>3. SnapshotsAreTrue' /\ PassedIsRecorded' /\ MigrationsRunOnceInOrder'
  BY <1>2 DEF Inv, SnapshotsAreTrue, PassedIsRecorded, MigrationsRunOnceInOrder
<1>4. QED
  BY <1>1, <1>2, <1>3 DEF Inv, ServedSchemaIsOwn

\* Whatever fails, a coordinator gives up into a phase it may be in.
LEMMA GivenUp ==
  ASSUME Inv, NEW c \in Coordinators, NEW p \in {"RECOVERING", "SERVING"},
         GiveUp(c, p), UNCHANGED <<ledger, ran, seen, next>>, faults' \in 0..MaxFaults
  PROVE  Inv'
<1>1. CASE c \notin Demo
  BY <1>1, PhaseStep DEF GiveUp
<1>2. CASE c \in Demo
  <2>1. phase' = [phase EXCEPT ![c] = p]
    BY <1>2 DEF GiveUp, Goto
  <2>2. StartupTypeOK'
    BY <2>1 DEF Inv, StartupTypeOK
  <2>3. phase'[c] = p /\ \A d \in Coordinators \ {c} : phase'[d] = phase[d]
    BY <2>1 DEF Inv, StartupTypeOK
  <2>4. SnapshotsAreTrue' /\ PassedIsRecorded' /\ MigrationsRunOnceInOrder'
    BY <2>3 DEF Inv, SnapshotsAreTrue, PassedIsRecorded, MigrationsRunOnceInOrder
  <2>5. QED
    BY <1>2, <2>2, <2>3, <2>4 DEF Inv, ServedSchemaIsOwn
<1>3. QED
  BY <1>1, <1>2

\* The transaction of a script keeps what concerns the ledger, and the type.
LEMMA CommitKeeps ==
  ASSUME Inv, NEW c \in Coordinators, Missing(c), Commit(c)
  PROVE  /\ ledger' \in [Versions -> Checksums \cup {NotApplied}]
         /\ ran' \in [Versions -> Nat]
         /\ Grows /\ MigrationsRunOnceInOrder'
         /\ next[c] \in Versions /\ ledger'[next[c]] = Disk[c][next[c]]
<1>1. /\ next[c] \in Versions /\ next[c] \in Nat
      /\ phase[c] = "MIGRATING" /\ ledger[next[c]] = NotApplied
  BY OwnVersions, StartupAssumption DEF Missing, Pending, Commit, Versions, Inv, StartupTypeOK
<1>2. Disk[c][next[c]] \in Checksums /\ Disk[c][next[c]] # NotApplied
  BY <1>1, StartupAssumption
<1>3. /\ ledger' = [ledger EXCEPT ![next[c]] = Disk[c][next[c]]]
      /\ ran' = [ran EXCEPT ![next[c]] = @ + 1]
  BY DEF Commit
<1>4. ledger \in [Versions -> Checksums \cup {NotApplied}] /\ ran \in [Versions -> Nat]
  BY DEF Inv, StartupTypeOK
<1>5. ledger' \in [Versions -> Checksums \cup {NotApplied}] /\ ran' \in [Versions -> Nat]
  BY <1>1, <1>2, <1>3, <1>4
<1>6. Grows
  BY <1>1, <1>3, <1>4 DEF Grows
<1>7. ledger'[next[c]] = Disk[c][next[c]] /\ ran'[next[c]] = ran[next[c]] + 1
  BY <1>1, <1>3, <1>4
<1>8. \A u \in 1..(next[c] - 1) : u \in Versions /\ ledger[u] # NotApplied
  <2>1. TAKE u \in 1..(next[c] - 1)
  <2>2. u \in Versions
    BY <1>1, StartupAssumption DEF Versions
  <2>3. ledger[u] = Disk[c][u]
    BY <1>1 DEF Inv, PassedIsRecorded
  <2>4. QED
    BY <2>2, <2>3, StartupAssumption
<1>9. ASSUME NEW v \in Versions
      PROVE  /\ ran'[v] = (IF ledger'[v] = NotApplied THEN 0 ELSE 1)
             /\ ledger'[v] # NotApplied => \A u \in 1..(v - 1) : ledger'[u] # NotApplied
  <2>1. CASE v = next[c]
    <3>1. ran[v] = 0
      BY <1>1, <2>1 DEF Inv, MigrationsRunOnceInOrder
    <3>2. \A u \in 1..(v - 1) : ledger'[u] # NotApplied
      BY <1>6, <1>8, <2>1 DEF Grows
    <3>3. QED
      BY <1>2, <1>7, <2>1, <3>1, <3>2
  <2>2. CASE v # next[c]
    <3>1. ledger'[v] = ledger[v] /\ ran'[v] = ran[v]
      BY <1>3, <1>4, <2>2
    <3>2. \A u \in 1..(v - 1) : u \in Versions
      BY StartupAssumption DEF Versions
    <3>3. QED
      BY <1>6, <3>1, <3>2 DEF Inv, MigrationsRunOnceInOrder, Grows
  <2>3. QED
    BY <2>1, <2>2
<1>10. QED
  BY <1>1, <1>5, <1>6, <1>7, <1>9 DEF MigrationsRunOnceInOrder

\* Facts about recorded versions survive a ledger that grows.
LEMMA GrowthKeeps ==
  ASSUME Inv, Grows
  PROVE  /\ \A c \in Coordinators : \A v \in Versions :
              seen[c][v] # NotApplied => ledger'[v] = seen[c][v]
         /\ \A c \in Coordinators, v \in Versions :
              ledger[v] = Disk[c][v] => ledger'[v] = Disk[c][v]
<1>1. \A c \in Coordinators, v \in Versions : Disk[c][v] # NotApplied
  BY StartupAssumption
<1>2. QED
  BY <1>1 DEF Inv, SnapshotsAreTrue, Grows

LEMMA ApplyStep ==
  ASSUME Inv, NEW c \in Coordinators, Apply(c) PROVE Inv'
<1>1. /\ Missing(c) /\ Commit(c) /\ next' = [next EXCEPT ![c] = @ + 1]
      /\ UNCHANGED <<phase, seen, faults>>
  BY DEF Apply
<1>2. /\ ledger' \in [Versions -> Checksums \cup {NotApplied}]
      /\ ran' \in [Versions -> Nat]
      /\ Grows /\ MigrationsRunOnceInOrder'
      /\ next[c] \in Versions /\ ledger'[next[c]] = Disk[c][next[c]]
  BY <1>1, CommitKeeps
<1>3. next \in [Coordinators -> Nat] /\ \A d \in Coordinators : next[d] \in 1..(Newest[d] + 1)
  BY DEF Inv, StartupTypeOK
<1>4. next[c] <= Newest[c]
  BY <1>1 DEF Missing, Pending
<1>5. /\ next' \in [Coordinators -> Nat]
      /\ \A d \in Coordinators : next'[d] \in 1..(Newest[d] + 1)
  BY <1>1, <1>3, <1>4, OwnVersions
<1>6. StartupTypeOK'
  BY <1>1, <1>2, <1>5 DEF Inv, StartupTypeOK
<1>7. SnapshotsAreTrue'
  BY <1>1, <1>2, GrowthKeeps DEF SnapshotsAreTrue
<1>8. ASSUME NEW d \in Coordinators, phase[d] = "MIGRATING", NEW v \in 1..(next'[d] - 1)
      PROVE  ledger'[v] = Disk[d][v]
  <2>1. v \in Versions
    BY <1>5, OwnVersions, StartupAssumption DEF Versions
  <2>2. CASE d = c /\ v = next[c]
    BY <1>2, <2>2
  <2>3. CASE ~(d = c /\ v = next[c])
    <3>1. v \in 1..(next[d] - 1)
      BY <1>1, <1>3, <2>3
    <3>2. ledger[v] = Disk[d][v]
      BY <1>8, <3>1 DEF Inv, PassedIsRecorded
    <3>3. QED
      BY <1>2, <2>1, <3>2, GrowthKeeps
  <2>4. QED
    BY <2>2, <2>3
<1>9. PassedIsRecorded'
  BY <1>1, <1>8 DEF PassedIsRecorded
<1>10. ASSUME NEW d \in Coordinators \ Demo, phase[d] \in {"RECOVERING", "SERVING"},
              NEW v \in 1..Newest[d]
       PROVE  ledger'[v] = Disk[d][v]
  <2>1. v \in Versions
    BY OwnVersions, StartupAssumption DEF Versions
  <2>2. ledger[v] = Disk[d][v]
    BY <1>10 DEF Inv, ServedSchemaIsOwn
  <2>3. QED
    BY <1>2, <2>1, <2>2, GrowthKeeps
<1>11. QED
  BY <1>1, <1>2, <1>6, <1>7, <1>9, <1>10 DEF Inv, ServedSchemaIsOwn

LEMMA FaultStep ==
  ASSUME Inv, NEW c \in Coordinators, Fault(c) PROVE Inv'
<1>1. /\ GiveUp(c, "RECOVERING") /\ faults' \in 0..MaxFaults
      /\ phase[c] \in {"READING", "MIGRATING"} /\ UNCHANGED <<seen, next>>
  BY StartupAssumption DEF Fault, Mishap, Inv, StartupTypeOK
<1>2. CASE UNCHANGED <<ledger, ran>>
  BY <1>1, <1>2, GivenUp
<1>3. CASE Missing(c) /\ Commit(c)
  <2>1. /\ ledger' \in [Versions -> Checksums \cup {NotApplied}]
        /\ ran' \in [Versions -> Nat]
        /\ Grows /\ MigrationsRunOnceInOrder'
    BY <1>3, CommitKeeps
  <2>2. PICK p \in {"RECOVERING", "DOWN"} :
          /\ phase' = [phase EXCEPT ![c] = p]
          /\ p = "RECOVERING" => c \in Demo
    BY <1>1 DEF GiveUp, Goto
  <2>3. phase'[c] = p /\ \A d \in Coordinators \ {c} : phase'[d] = phase[d]
    BY <2>2 DEF Inv, StartupTypeOK
  <2>4. StartupTypeOK'
    BY <1>1, <2>1, <2>2 DEF Inv, StartupTypeOK
  <2>5. SnapshotsAreTrue'
    BY <1>1, <2>1, GrowthKeeps DEF SnapshotsAreTrue
  <2>6. ASSUME NEW d \in Coordinators, phase'[d] = "MIGRATING", NEW v \in 1..(next[d] - 1)
        PROVE  ledger'[v] = Disk[d][v]
    <3>1. phase[d] = "MIGRATING" /\ ledger[v] = Disk[d][v]
      BY <2>3, <2>6 DEF Inv, PassedIsRecorded
    <3>2. v \in Versions
      BY OwnVersions, StartupAssumption DEF Versions, Inv, StartupTypeOK
    <3>3. QED
      BY <2>1, <3>1, <3>2, GrowthKeeps
  <2>7. PassedIsRecorded'
    BY <1>1, <2>6 DEF PassedIsRecorded
  <2>8. ASSUME NEW d \in Coordinators \ Demo, phase'[d] \in {"RECOVERING", "SERVING"},
               NEW v \in 1..Newest[d]
        PROVE  ledger'[v] = Disk[d][v]
    <3>1. ledger[v] = Disk[d][v]
      BY <2>2, <2>3, <2>8 DEF Inv, ServedSchemaIsOwn
    <3>2. v \in Versions
      BY OwnVersions, StartupAssumption DEF Versions
    <3>3. QED
      BY <2>1, <3>1, <3>2, GrowthKeeps
  <2>9. QED
    BY <2>1, <2>4, <2>5, <2>7, <2>8 DEF Inv, ServedSchemaIsOwn
<1>4. QED
  BY <1>2, <1>3 DEF Fault

\* Steps of a loop that change neither the ledger nor the scripts run.
LEMMA LoopStep ==
  ASSUME Inv, NEW c \in Coordinators, ReadLedger(c) \/ Skip(c) \/ InitDone(c) \/ Serve(c)
  PROVE  Inv'
<1>1. UNCHANGED <<ledger, ran, faults>>
  BY DEF ReadLedger, Skip, InitDone, Serve
<1>2. MigrationsRunOnceInOrder'
  BY <1>1 DEF Inv, MigrationsRunOnceInOrder
<1>3. CASE ReadLedger(c)
  <2>1. /\ seen' = [seen EXCEPT ![c] = ledger] /\ next' = [next EXCEPT ![c] = 1]
        /\ phase' = [phase EXCEPT ![c] = "MIGRATING"]
    BY <1>3 DEF ReadLedger, Goto
  <2>2. StartupTypeOK'
    BY <1>1, <2>1, OwnVersions DEF Inv, StartupTypeOK
  <2>3. /\ seen'[c] = ledger /\ next'[c] = 1 /\ phase'[c] = "MIGRATING"
        /\ \A d \in Coordinators \ {c} :
             seen'[d] = seen[d] /\ next'[d] = next[d] /\ phase'[d] = phase[d]
    BY <2>1 DEF Inv, StartupTypeOK
  <2>4. SnapshotsAreTrue' /\ PassedIsRecorded'
    BY <1>1, <2>3 DEF Inv, SnapshotsAreTrue, PassedIsRecorded
  <2>5. QED
    BY <1>1, <1>2, <2>2, <2>3, <2>4 DEF Inv, ServedSchemaIsOwn
<1>4. CASE Skip(c)
  <2>1. /\ next' = [next EXCEPT ![c] = @ + 1] /\ UNCHANGED <<seen, phase>>
        /\ next[c] <= Newest[c] /\ seen[c][next[c]] = Disk[c][next[c]]
    BY <1>4 DEF Skip, Pending
  <2>2. next[c] \in Versions /\ next[c] \in Nat
    BY <2>1, OwnVersions, StartupAssumption DEF Inv, StartupTypeOK, Versions
  <2>3. next'[c] = next[c] + 1 /\ \A d \in Coordinators \ {c} : next'[d] = next[d]
    BY <2>1 DEF Inv, StartupTypeOK
  <2>4. StartupTypeOK'
    <3>1. next' \in [Coordinators -> Nat]
      BY <2>1, <2>2 DEF Inv, StartupTypeOK
    <3>2. \A d \in Coordinators : next'[d] \in 1..(Newest[d] + 1)
      BY <2>1, <2>2, <2>3, OwnVersions DEF Inv, StartupTypeOK
    <3>3. QED
      BY <1>1, <2>1, <3>1, <3>2 DEF Inv, StartupTypeOK
  <2>5. ledger[next[c]] = Disk[c][next[c]]
    BY <2>1, <2>2, StartupAssumption DEF Inv, SnapshotsAreTrue
  <2>6. ASSUME NEW d \in Coordinators, phase[d] = "MIGRATING", NEW v \in 1..(next'[d] - 1)
        PROVE  ledger[v] = Disk[d][v]
    <3>1. CASE d = c /\ v = next[c]
      BY <2>5, <3>1
    <3>2. CASE ~(d = c /\ v = next[c])
      <4>1. v \in 1..(next[d] - 1)
        BY <2>2, <2>3, <3>2 DEF Inv, StartupTypeOK
      <4>2. QED
        BY <2>6, <4>1 DEF Inv, PassedIsRecorded
    <3>3. QED
      BY <3>1, <3>2
  <2>7. SnapshotsAreTrue' /\ PassedIsRecorded'
    BY <1>1, <2>1, <2>6 DEF Inv, SnapshotsAreTrue, PassedIsRecorded
  <2>8. QED
    BY <1>1, <1>2, <2>1, <2>4, <2>7 DEF Inv, ServedSchemaIsOwn
<1>5. CASE InitDone(c) \/ Serve(c)
  <2>1. PICK p \in {"RECOVERING", "SERVING"} : phase' = [phase EXCEPT ![c] = p]
    BY <1>5 DEF InitDone, Serve, Goto
  <2>2. phase'[c] = p /\ \A d \in Coordinators \ {c} : phase'[d] = phase[d]
    BY <2>1 DEF Inv, StartupTypeOK
  <2>3. UNCHANGED <<seen, next>>
    BY <1>5 DEF InitDone, Serve
  <2>4. StartupTypeOK'
    BY <1>1, <2>1, <2>3 DEF Inv, StartupTypeOK
  <2>5. SnapshotsAreTrue' /\ PassedIsRecorded'
    BY <1>1, <2>2, <2>3 DEF Inv, SnapshotsAreTrue, PassedIsRecorded
  <2>6. ASSUME c \notin Demo, NEW v \in 1..Newest[c]
        PROVE  ledger[v] = Disk[c][v]
    <3>1. CASE InitDone(c)
      <4>1. v \in 1..(next[c] - 1) /\ phase[c] = "MIGRATING"
        BY <3>1, OwnVersions DEF InitDone, Inv, StartupTypeOK
      <4>2. QED
        BY <4>1 DEF Inv, PassedIsRecorded
    <3>2. CASE Serve(c)
      BY <2>6, <3>2 DEF Serve, Inv
    <3>3. QED
      BY <1>5, <3>1, <3>2
  <2>7. QED
    BY <1>1, <1>2, <2>2, <2>4, <2>5, <2>6 DEF Inv, ServedSchemaIsOwn
<1>6. QED
  BY <1>3, <1>4, <1>5

LEMMA NextInv == Inv /\ [Next]_vars => Inv'
<1> SUFFICES ASSUME Inv, [Next]_vars PROVE Inv'
  OBVIOUS
<1>1. faults \in 0..MaxFaults
  BY DEF Inv, StartupTypeOK
<1>2. ASSUME NEW c \in Coordinators, Start(c) PROVE Inv'
  BY <1>1, <1>2, PhaseStep DEF Start
<1>3. ASSUME NEW c \in Coordinators, RejectChecksum(c) \/ LoseRace(c) PROVE Inv'
  BY <1>1, <1>3, GivenUp DEF RejectChecksum, LoseRace
<1>4. ASSUME NEW c \in Coordinators, RecoveryFails(c) PROVE Inv'
  <2>1. GiveUp(c, "SERVING") /\ UNCHANGED <<ledger, ran, seen, next>>
    BY <1>4 DEF RecoveryFails
  <2>2. faults' \in 0..MaxFaults
    BY <1>1, <1>4, StartupAssumption DEF RecoveryFails, Mishap
  <2>3. QED
    BY <2>1, <2>2, GivenUp
<1>5. ASSUME NEW c \in Coordinators, Halt(c) PROVE Inv'
  <2>1. Goto(c, "DOWN") /\ UNCHANGED <<ledger, ran, seen, next>>
    BY <1>5 DEF Halt
  <2>2. faults' \in 0..MaxFaults
    BY <1>1, <1>5, StartupAssumption DEF Halt, Mishap
  <2>3. QED
    BY <2>1, <2>2, PhaseStep
<1>6. CASE UNCHANGED vars
  BY <1>6 DEF vars, Inv, StartupTypeOK, SnapshotsAreTrue, PassedIsRecorded,
              MigrationsRunOnceInOrder, ServedSchemaIsOwn
<1>7. QED
  BY <1>2, <1>3, <1>4, <1>5, <1>6, ApplyStep, FaultStep, LoopStep DEF Next, Proceed

Safe == Init /\ [][Next]_vars

LEMMA Invariance == FairStartup => []Inv
<1>1. FairStartup => Safe
  BY PTL DEF FairStartup, Safe
<1>2. Safe => []Inv
  BY InitInv, NextInv, PTL DEF Safe
<1>3. QED
  BY <1>1, <1>2

\* However many coordinators start, fail and die, the state of the ledger and
\* of every lifespan (get_applied_migrations, migrate_db) is well typed.
THEOREM TypeSafety == FairStartup => []StartupTypeOK
BY Invariance, PTL DEF Inv

\* migrate_db runs the script of a recorded version exactly once and records
\* versions in order, for any number of coordinators, images and mishaps.
THEOREM OnceInOrder == FairStartup => []MigrationsRunOnceInOrder
BY Invariance, PTL DEF Inv

\* A coordinator outside demo mode serves only on the schema of its own files.
THEOREM OwnSchema == FairStartup => []ServedSchemaIsOwn
BY Invariance, PTL DEF Inv
=============================================================================
