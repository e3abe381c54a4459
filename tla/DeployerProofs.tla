--------------------------- MODULE DeployerProofs ---------------------------
(***************************************************************************)
(* Theorems about Deployer for every number of services, promotions,       *)
(* crashes and faults:                                                     *)
(*   TypeSafety      every state is well typed;                            *)
(*   GateHolds       whatever is live, in backup or running passed the     *)
(*                   test gate of its own service;                         *)
(*   JournalIsAhead  without overlapping promotions a missing live         *)
(*                   directory can be restored from what the journal names.*)
(*   HealthyIsServed without overlaps and crashes a promotion reported     *)
(*                   healthy is live and is what its port serves;          *)
(*   FailedPromotionsLeaveNoTrace  without overlaps, crashes and faults    *)
(*                   the newest healthy release is live between promotions.*)
(***************************************************************************)
EXTENDS Deployer, FiniteSetTheorems, TLAPS

USE ServicesAssumption, NamesAssumption, BoundsAssumption

-----------------------------------------------------------------------------
(* Types. *)

\* recover_if_needed leaves well-typed directories and journal.
LEMMA RecoverTypes ==
  ASSUME TypeOK, Recover
  PROVE  /\ live' \in [Services -> Directories] /\ backup' \in [Services -> Directories]
         /\ staged' \subseteq Promotions
         /\ journal' \in Journals \cup {NoJournal}
<1>1. CASE journal = NoJournal /\ UNCHANGED <<dirVars, journal>>
  BY <1>1 DEF TypeOK, dirVars
<1>2. CASE journal # NoJournal /\ Restore(journal.of) /\ journal' = NoJournal
  <2>1. journal.of \in Promotions
    BY <1>2 DEF TypeOK, Journals
  <2>. QED
    BY <1>2, <2>1 DEF TypeOK, Restore, Directories, Releases
<1>. QED
  BY <1>1, <1>2 DEF Recover

\* A started process runs one of the directories or the working copy.
LEMMA StartTypes ==
  ASSUME TypeOK, NEW s \in Services, NEW dir \in Directories, StartFrom(s, dir)
  PROVE  /\ serving' \in [Services -> Directories \cup {Checkout}]
         /\ owned' \subseteq Services
BY DEF TypeOK, StartFrom, CodeIn, processVars

\* One step of Deployer keeps the types.
LEMMA TypesStep ==
  ASSUME TypeOK, [Next]_vars
  PROVE  TypeOK'
<1> USE DEF Directories, Releases
<1>1. CASE UNCHANGED vars
  BY <1>1 DEF TypeOK, vars
<1>2. ASSUME NEW p \in Promotions, Begin(p) PROVE TypeOK'
  BY <1>2, RecoverTypes DEF TypeOK, Begin, Goto, rowVars, processVars, Active
<1>3. ASSUME NEW p \in Promotions, NEW b \in BOOLEAN, Allocate(p, b) PROVE TypeOK'
  <2>1. PICK v \in 1..Cardinality(Promotions) : version' = [version EXCEPT ![p] = v]
    BY <1>3 DEF Allocate
  <2>2. v \in Nat
    BY FS_CardinalityType
  <2>. QED
    BY <1>3, <2>1, <2>2 DEF TypeOK, Allocate, Goto, dirVars, processVars, boundVars, Active
<1>4. ASSUME NEW p \in Promotions, NEW b \in BOOLEAN, Stage(p, b) PROVE TypeOK'
  BY <1>4 DEF TypeOK, Stage, Goto, rowVars, processVars, boundVars, Active, Uninterrupted
<1>5. ASSUME NEW p \in Promotions, Intend(p) PROVE TypeOK'
  <2>1. [of |-> p, state |-> "IN_PROGRESS"] \in Journals
    BY DEF Journals
  <2>. QED
    BY <1>5, <2>1 DEF TypeOK, Intend, Goto, dirVars, rowVars, processVars, boundVars,
                      Active, Uninterrupted
<1>6. ASSUME NEW p \in Promotions, ClearBackup(p) PROVE TypeOK'
  BY <1>6 DEF TypeOK, ClearBackup, Goto, rowVars, processVars, boundVars, Active, Uninterrupted
<1>7. ASSUME NEW p \in Promotions, MoveLive(p) PROVE TypeOK'
  BY <1>7 DEF TypeOK, MoveLive, Goto, rowVars, processVars, boundVars, Active, Uninterrupted
<1>8. ASSUME NEW p \in Promotions, MoveStaged(p) PROVE TypeOK'
  BY <1>8 DEF TypeOK, MoveStaged, Goto, rowVars, processVars, boundVars, Active
<1>9. ASSUME NEW p \in Promotions, CutoverFails(p) PROVE TypeOK'
  <2>1. live' \in [Services -> Directories] /\ backup' \in [Services -> Directories]
    BY <1>9 DEF TypeOK, CutoverFails
  <2>2. [of |-> p, state |-> "UNRECOVERABLE"] \in Journals
    BY DEF Journals
  <2>3. journal' \in {journal, NoJournal, [of |-> p, state |-> "UNRECOVERABLE"]}
    BY <1>9 DEF CutoverFails
  <2>4. pc' \in [Promotions -> Active \cup {"idle", "ended"}]
    BY <1>9 DEF TypeOK, CutoverFails, Goto, Active
  <2>5. faults' \in 0..MaxFaults
    BY <1>9 DEF TypeOK, CutoverFails, Fault
  <2>. QED
    BY <1>9, <2>1, <2>2, <2>3, <2>4, <2>5 DEF TypeOK, CutoverFails, rowVars, processVars, boundVars
<1>10. ASSUME NEW p \in Promotions, Restart(p) PROVE TypeOK'
  BY <1>10, StartTypes DEF TypeOK, Restart, Goto, dirVars, rowVars, boundVars, Active
<1>11. ASSUME NEW p \in Promotions, NEW b \in BOOLEAN, Poll(p, b) PROVE TypeOK'
  BY <1>11 DEF TypeOK, Poll, Goto, dirVars, rowVars, processVars, boundVars, Active, Uninterrupted
<1>12. ASSUME NEW p \in Promotions, RemoveLive(p) PROVE TypeOK'
  BY <1>12 DEF TypeOK, RemoveLive, Goto, rowVars, processVars, boundVars, Active, Uninterrupted
<1>13. ASSUME NEW p \in Promotions, RestoreBackup(p) PROVE TypeOK'
  BY <1>13, StartTypes DEF TypeOK, RestoreBackup, Goto, rowVars, boundVars, Active
<1>14. ASSUME NEW p \in Promotions, RollbackFails(p) PROVE TypeOK'
  BY <1>14 DEF TypeOK, RollbackFails, Fault, Goto, rowVars, processVars, boundVars
<1>15. ASSUME NEW p \in Promotions, Settle(p) PROVE TypeOK'
  BY <1>15 DEF TypeOK, Settle, Goto, dirVars, processVars, boundVars
<1>16. ASSUME NEW p \in Promotions, CallFails(p) PROVE TypeOK'
  BY <1>16 DEF TypeOK, CallFails, Fault, Goto, dirVars, rowVars, processVars, boundVars
<1>17. CASE RecoveryFails
  BY <1>17 DEF TypeOK, RecoveryFails, Fault, Journals, dirVars, rowVars, processVars, boundVars
<1>18. CASE Crash
  <2>1. live' \in [Services -> Directories] /\ backup' \in [Services -> Directories]
    BY <1>18 DEF TypeOK, Crash, HalfRemoved
  <2>2. pc' \in [Promotions -> Active \cup {"idle", "ended"}]
    BY <1>18 DEF TypeOK, Crash
  <2>3. serving' \in [Services -> Directories \cup {Checkout}]
    BY <1>18 DEF TypeOK, Crash
  <2>4. crashes' \in 0..MaxCrashes
    BY <1>18 DEF TypeOK, Crash
  <2>. QED
    BY <1>18, <2>1, <2>2, <2>3, <2>4 DEF TypeOK, Crash, rowVars
<1>19. ASSUME NEW ready \in BOOLEAN, Startup(ready) PROVE TypeOK'
  <2>1. /\ serving' \in [Services -> Directories \cup {Checkout}]
        /\ owned' \subseteq Services
    <3>1. CASE journal = NoJournal
      BY <1>19, <3>1 DEF Startup, TypeOK, processVars
    <3>2. CASE journal # NoJournal
      <4> DEFINE s == ServiceOf[journal.of]
      <4>1. s \in Services
        BY <3>2 DEF TypeOK, Journals
      <4>2. live'[s] \in Directories
        BY <1>19, <4>1, RecoverTypes DEF Startup
      <4>3. CASE StartFrom(s, live'[s])
        BY <4>1, <4>2, <4>3, StartTypes
      <4>4. CASE /\ serving' \in {serving, [serving EXCEPT ![s] = IF @ = NoDir THEN CodeIn(live'[s]) ELSE @]}
                 /\ UNCHANGED owned
        BY <4>1, <4>2, <4>4 DEF TypeOK, CodeIn
      <4>. QED
        BY <1>19, <3>2, <4>3, <4>4 DEF Startup
    <3>. QED
      BY <3>1, <3>2
  <2>. QED
    BY <1>19, <2>1, RecoverTypes DEF TypeOK, Startup, rowVars, boundVars
<1>. QED
  BY <1>1, <1>2, <1>3, <1>4, <1>5, <1>6, <1>7, <1>8, <1>9, <1>10, <1>11, <1>12, <1>13,
     <1>14, <1>15, <1>16, <1>17, <1>18, <1>19 DEF Next, PromotionNext

\* Every reachable state of the deployer is well typed.
THEOREM TypeSafety == Spec => []TypeOK
<1>1. Init => TypeOK
  <2> HAVE Init
  <2>1. live \in [Services -> Directories] /\ backup \in [Services -> Directories]
    BY DEF Init, Directories, Releases
  <2>2. serving \in [Services -> Directories \cup {Checkout}]
    BY DEF Init, Directories
  <2>3. crashes \in 0..MaxCrashes /\ faults \in 0..MaxFaults
    BY DEF Init
  <2>4. pc \in [Promotions -> Active \cup {"idle", "ended"}]
    BY DEF Init
  <2>5. version \in [Promotions -> Nat]
    BY DEF Init
  <2>6. row \in [Promotions -> {"NONE", "VALIDATING", "HEALTHY", "FAILED"}]
    BY DEF Init
  <2>. QED
    BY <2>1, <2>2, <2>3, <2>4, <2>5, <2>6 DEF Init, TypeOK
<1>2. TypeOK /\ [Next]_vars => TypeOK'
  BY TypesStep
<1>. QED
  BY <1>1, <1>2, PTL DEF Spec

-----------------------------------------------------------------------------
(* The test gate. *)

\* r is not a promotion's release, or it passed the gate of service s.
Passed(s, r) == r \in Promotions => r \in tested /\ ServiceOf[r] = s

\* What is in deployments/staged, and every call on its way to the cutover, has
\* passed the gate; so has whatever is in place or running.
GateInv ==
  /\ staged \subseteq tested
  /\ \A p \in Promotions :
       pc[p] \in {"staged", "intended", "cleared", "moved"} => p \in tested
  /\ \A s \in Services : Passed(s, live[s]) /\ Passed(s, backup[s]) /\ Passed(s, serving[s])

\* recover_if_needed moves what passed to the service it passed for.
LEMMA RecoverGate ==
  ASSUME TypeOK, GateInv, Recover, tested' = tested
  PROVE  /\ staged' \subseteq tested'
         /\ \A s \in Services : Passed(s, live[s])' /\ Passed(s, backup[s])'
<1>1. CASE journal = NoJournal /\ UNCHANGED <<dirVars, journal>>
  BY <1>1 DEF GateInv, Passed, dirVars
<1>2. CASE journal # NoJournal /\ Restore(journal.of)
  <2>1. journal.of \in Promotions
    BY <1>2 DEF TypeOK, Journals
  <2>. QED
    BY <1>2, <2>1 DEF TypeOK, GateInv, Passed, Restore
<1>. QED
  BY <1>1, <1>2 DEF Recover

\* A started process runs what is in the service's directory.
LEMMA StartGate ==
  ASSUME TypeOK, GateInv, tested' = tested,
         NEW s \in Services, NEW dir, StartFrom(s, dir), Passed(s, dir)
  PROVE  \A t \in Services : Passed(t, serving[t])'
BY DEF TypeOK, GateInv, Passed, StartFrom, CodeIn, processVars, Directories, Releases

\* One step of Deployer keeps GateInv.
LEMMA GateStep ==
  ASSUME TypeOK, GateInv, [Next]_vars
  PROVE  GateInv'
<1>1. CASE UNCHANGED vars
  BY <1>1 DEF GateInv, Passed, vars
<1>2. ASSUME NEW p \in Promotions, Begin(p) PROVE GateInv'
  BY <1>2, RecoverGate DEF TypeOK, GateInv, Passed, Begin, Goto, processVars
<1>3. ASSUME NEW p \in Promotions, NEW b \in BOOLEAN, Allocate(p, b) PROVE GateInv'
  BY <1>3 DEF TypeOK, GateInv, Passed, Allocate, Goto, dirVars, processVars
<1>4. ASSUME NEW p \in Promotions, NEW b \in BOOLEAN, Stage(p, b) PROVE GateInv'
  BY <1>4 DEF TypeOK, GateInv, Passed, Stage, Goto, processVars
<1>5. ASSUME NEW p \in Promotions, Intend(p) PROVE GateInv'
  BY <1>5 DEF TypeOK, GateInv, Passed, Intend, Goto, dirVars, processVars
<1>6. ASSUME NEW p \in Promotions, ClearBackup(p) PROVE GateInv'
  BY <1>6 DEF TypeOK, GateInv, Passed, ClearBackup, Goto, processVars
<1>7. ASSUME NEW p \in Promotions, MoveLive(p) PROVE GateInv'
  BY <1>7 DEF TypeOK, GateInv, Passed, MoveLive, Goto, processVars
<1>8. ASSUME NEW p \in Promotions, MoveStaged(p) PROVE GateInv'
  BY <1>8 DEF TypeOK, GateInv, Passed, MoveStaged, Goto, processVars
<1>9. ASSUME NEW p \in Promotions, CutoverFails(p) PROVE GateInv'
  <2>1. \A q \in Promotions : pc'[q] \in {"staged", "intended", "cleared", "moved"} => q \in tested'
    BY <1>9 DEF TypeOK, GateInv, CutoverFails, Goto
  <2>2. \A s \in Services : Passed(s, live[s])' /\ Passed(s, backup[s])'
    BY <1>9 DEF TypeOK, GateInv, Passed, CutoverFails
  <2>. QED
    BY <1>9, <2>1, <2>2 DEF GateInv, Passed, CutoverFails, processVars
<1>10. ASSUME NEW p \in Promotions, Restart(p) PROVE GateInv'
  <2>1. Passed(ServiceOf[p], live[ServiceOf[p]])
    BY DEF GateInv
  <2>2. \A t \in Services : Passed(t, serving[t])'
    BY <1>10, <2>1, StartGate DEF Restart
  <2>. QED
    BY <1>10, <2>2 DEF TypeOK, GateInv, Passed, Restart, Goto, dirVars
<1>11. ASSUME NEW p \in Promotions, NEW b \in BOOLEAN, Poll(p, b) PROVE GateInv'
  BY <1>11 DEF TypeOK, GateInv, Passed, Poll, Goto, dirVars, processVars
<1>12. ASSUME NEW p \in Promotions, RemoveLive(p) PROVE GateInv'
  BY <1>12 DEF TypeOK, GateInv, Passed, RemoveLive, Goto, processVars
<1>13. ASSUME NEW p \in Promotions, RestoreBackup(p) PROVE GateInv'
  <2>1. Passed(ServiceOf[p], backup[ServiceOf[p]])
    BY DEF GateInv
  <2>2. \A t \in Services : Passed(t, serving[t])'
    BY <1>13, <2>1, StartGate DEF RestoreBackup
  <2>. QED
    BY <1>13, <2>2 DEF TypeOK, GateInv, Passed, RestoreBackup, Goto
<1>14. ASSUME NEW p \in Promotions, RollbackFails(p) PROVE GateInv'
  BY <1>14 DEF TypeOK, GateInv, Passed, RollbackFails, Goto, processVars
<1>15. ASSUME NEW p \in Promotions, Settle(p) PROVE GateInv'
  BY <1>15 DEF TypeOK, GateInv, Passed, Settle, Goto, dirVars, processVars
<1>16. ASSUME NEW p \in Promotions, CallFails(p) PROVE GateInv'
  BY <1>16 DEF TypeOK, GateInv, Passed, CallFails, Goto, dirVars, processVars
<1>17. CASE RecoveryFails
  BY <1>17 DEF GateInv, Passed, RecoveryFails, dirVars, processVars
<1>18. CASE Crash
  <2>1. \A q \in Promotions : pc'[q] \in {"staged", "intended", "cleared", "moved"} => q \in tested'
    BY <1>18 DEF TypeOK, GateInv, Crash, Active, Uninterrupted
  <2>2. \A s \in Services : Passed(s, live[s])' /\ Passed(s, backup[s])'
    BY <1>18 DEF TypeOK, GateInv, Passed, Crash, HalfRemoved
  <2>3. \A s \in Services : Passed(s, serving[s])'
    BY <1>18 DEF TypeOK, GateInv, Passed, Crash
  <2>. QED
    BY <1>18, <2>1, <2>2, <2>3 DEF GateInv, Crash
<1>19. ASSUME NEW ready \in BOOLEAN, Startup(ready) PROVE GateInv'
  <2>1. /\ staged' \subseteq tested'
        /\ \A s \in Services : Passed(s, live[s])' /\ Passed(s, backup[s])'
    BY <1>19, RecoverGate DEF Startup
  <2>2. \A t \in Services : Passed(t, serving[t])'
    <3>1. CASE journal = NoJournal
      BY <1>19, <3>1 DEF Startup, GateInv, Passed, processVars
    <3>2. CASE journal # NoJournal
      <4> DEFINE s == ServiceOf[journal.of]
      <4>1. s \in Services
        BY <3>2 DEF TypeOK, Journals
      <4>2. Passed(s, live'[s])
        BY <1>19, <2>1, <4>1 DEF Startup, Passed
      <4>3. CASE StartFrom(s, live'[s])
        BY <1>19, <4>1, <4>2, <4>3, StartGate DEF Startup
      <4>4. CASE serving' \in {serving, [serving EXCEPT ![s] = IF @ = NoDir THEN CodeIn(live'[s]) ELSE @]}
        BY <1>19, <4>1, <4>2, <4>4 DEF Startup, TypeOK, GateInv, Passed, CodeIn, Directories, Releases
      <4>. QED
        BY <1>19, <3>2, <4>3, <4>4 DEF Startup
    <3>. QED
      BY <3>1, <3>2
  <2>. QED
    BY <1>19, <2>1, <2>2 DEF Startup, GateInv
<1>. QED
  BY <1>1, <1>2, <1>3, <1>4, <1>5, <1>6, <1>7, <1>8, <1>9, <1>10, <1>11, <1>12, <1>13,
     <1>14, <1>15, <1>16, <1>17, <1>18, <1>19 DEF Next, PromotionNext

\* No crash, failure or overlap of promotions puts a snapshot in place that did
\* not pass the test gate of its own service.
THEOREM GateHolds == Spec => []ReleasesPassTheirGate
<1>1. Init => GateInv
  BY DEF Init, GateInv, Passed
<1>2. TypeOK /\ GateInv /\ [Next]_vars => GateInv'
  BY GateStep
<1>3. GateInv => ReleasesPassTheirGate
  BY DEF GateInv, Passed, ReleasesPassTheirGate
<1>. QED
  BY <1>1, <1>2, <1>3, TypeSafety, PTL DEF Spec

-----------------------------------------------------------------------------
(* The journal, as long as promotions do not overlap. *)

Own(p) == [of |-> p, state |-> "IN_PROGRESS"]

OneAtATime ==
  \A p, q \in Promotions : pc[p] \in Active /\ pc[q] \in Active => p = q

\* The journal is empty until the intent is recorded, and names the promotion
\* from there to its verdict.
JournalOf(p) ==
  /\ pc[p] \in {"allocating", "allocated", "staged"} => journal = NoJournal
  /\ pc[p] \in {"intended", "cleared", "moved", "starting", "polling", "removing", "removed"}
       => journal = Own(p)

\* What the directories of its service hold at each step of a cutover.
DirectoriesOf(p) ==
  LET s == ServiceOf[p] IN
  /\ pc[p] = "intended" => (p \in prior <=> live[s] # NoDir)
  /\ pc[p] = "cleared" => p \in prior /\ live[s] # NoDir
  /\ pc[p] = "moved" => IF p \in prior THEN backup[s] # NoDir ELSE live[s] = NoDir
  /\ pc[p] \in {"intended", "cleared", "moved"} /\ s \notin Fresh => p \in prior
  /\ pc[p] \in {"starting", "polling", "removing"} => live[s] # NoDir
  /\ pc[p] \in {"removing", "removed"} => backup[s] # NoDir

Covered(s) ==
  live[s] = NoDir => /\ journal # NoJournal
                     /\ ServiceOf[journal.of] = s
                     /\ backup[s] # NoDir

AllCovered == \A s \in Services \ Fresh : Covered(s)

SequentialInv ==
  ~overlapped =>
    /\ OneAtATime
    /\ \A p \in Promotions : JournalOf(p) /\ DirectoriesOf(p)
    /\ AllCovered

\* A step of the promotion in progress has to care for itself only.
LEMMA OneMoves ==
  ASSUME TypeOK, SequentialInv, ~overlapped,
         NEW p \in Promotions, pc[p] \in Active, NEW label, Goto(p, label),
         JournalOf(p)', DirectoriesOf(p)', AllCovered'
  PROVE  SequentialInv'
<1>1. \A q \in Promotions \ {p} : pc'[q] = pc[q] /\ pc[q] \notin Active
  BY DEF SequentialInv, OneAtATime, TypeOK, Goto
<1>2. OneAtATime'
  BY <1>1 DEF OneAtATime
<1>3. \A q \in Promotions \ {p} : JournalOf(q)' /\ DirectoriesOf(q)'
  BY <1>1 DEF JournalOf, DirectoriesOf, Active, Uninterrupted
<1>. QED
  BY <1>2, <1>3 DEF SequentialInv

\* A promotion that leaves directories and journal alone on its way to a label
\* at which nothing is demanded of them.
LEMMA OneLeaves ==
  ASSUME TypeOK, SequentialInv, ~overlapped,
         NEW p \in Promotions, pc[p] \in Active,
         NEW label \in {"passed", "rejected", "ended"}, Goto(p, label), AllCovered'
  PROVE  SequentialInv'
<1>1. pc'[p] = label
  BY DEF TypeOK, Goto
<1>2. JournalOf(p)' /\ DirectoriesOf(p)'
  BY <1>1 DEF JournalOf, DirectoriesOf
<1>. QED
  BY <1>2, OneMoves

\* Recovery leaves every service with a live directory, and no journal.
LEMMA RecoverCovers ==
  ASSUME TypeOK, AllCovered, Recover
  PROVE  /\ journal' = NoJournal
         /\ AllCovered'
<1>1. CASE journal = NoJournal /\ UNCHANGED <<dirVars, journal>>
  BY <1>1 DEF AllCovered, Covered, dirVars
<1>2. CASE journal # NoJournal /\ Restore(journal.of) /\ journal' = NoJournal
  <2>1. journal.of \in Promotions
    BY <1>2 DEF TypeOK, Journals
  <2>2. \A s \in Services \ Fresh : live'[s] # NoDir
    BY <1>2, <2>1 DEF TypeOK, AllCovered, Covered, Restore
  <2>. QED
    BY <1>2, <2>2 DEF AllCovered, Covered
<1>. QED
  BY <1>1, <1>2 DEF Recover

\* While the coordinator is down no promotion is in progress.
DownIsIdle == ~up => \A p \in Promotions : pc[p] \notin Active

LEMMA DownStep ==
  ASSUME DownIsIdle, [Next]_vars
  PROVE  DownIsIdle'
<1>1. CASE UNCHANGED vars
  BY <1>1 DEF DownIsIdle, vars
<1>2. CASE PromotionNext
  BY <1>2 DEF DownIsIdle, PromotionNext, Turn, Begin, Allocate, Stage, Intend, ClearBackup, MoveLive,
              MoveStaged, CutoverFails, Restart, Poll, RemoveLive, RestoreBackup, RollbackFails,
              Settle, CallFails
<1>3. CASE RecoveryFails
  BY <1>3 DEF DownIsIdle, RecoveryFails
<1>4. CASE Crash
  BY <1>4 DEF Crash, DownIsIdle, Active, Uninterrupted
<1>5. ASSUME NEW ready \in BOOLEAN, Startup(ready) PROVE DownIsIdle'
  BY <1>5 DEF Startup, DownIsIdle
<1>. QED
  BY <1>1, <1>2, <1>3, <1>4, <1>5 DEF Next

\* overlapped never becomes false again.
LEMMA OverlapStays ==
  ASSUME overlapped, [Next]_vars
  PROVE  overlapped'
<1>1. CASE UNCHANGED vars
  BY <1>1 DEF vars
<1>2. CASE PromotionNext
  BY <1>2 DEF PromotionNext, Begin, Allocate, Stage, Intend, ClearBackup, MoveLive, MoveStaged,
              CutoverFails, Restart, Poll, RemoveLive, RestoreBackup, RollbackFails, Settle,
              CallFails, boundVars
<1>3. CASE RecoveryFails \/ Crash \/ \E ready \in BOOLEAN : Startup(ready)
  BY <1>3 DEF RecoveryFails, Crash, Startup, boundVars
<1>. QED
  BY <1>1, <1>2, <1>3 DEF Next

\* One step of Deployer keeps SequentialInv.
LEMMA SequentialStep ==
  ASSUME TypeOK, SequentialInv, DownIsIdle, [Next]_vars, ~overlapped'
  PROVE  SequentialInv'
<1>0. ~overlapped
  BY OverlapStays
<1>a. AllCovered /\ OneAtATime /\ \A p \in Promotions : JournalOf(p) /\ DirectoriesOf(p)
  BY <1>0 DEF SequentialInv
<1>1. CASE UNCHANGED vars
  BY <1>1, <1>a DEF SequentialInv, OneAtATime, JournalOf, DirectoriesOf, AllCovered, Covered, vars
<1>2. ASSUME NEW p \in Promotions, Begin(p) PROVE SequentialInv'
  <2>1. journal' = NoJournal /\ AllCovered'
    BY <1>2, <1>a, RecoverCovers DEF Begin
  <2>2. pc'[p] = "allocating" /\ \A q \in Promotions \ {p} : pc'[q] = pc[q] /\ pc[q] \notin Active
    BY <1>2 DEF Begin, TypeOK, Goto, InProgress
  <2>3. OneAtATime'
    BY <2>2 DEF OneAtATime
  <2>4. \A q \in Promotions : JournalOf(q)' /\ DirectoriesOf(q)'
    BY <2>1, <2>2 DEF JournalOf, DirectoriesOf, Active, Uninterrupted
  <2>. QED
    BY <2>1, <2>3, <2>4 DEF SequentialInv
<1>3. ASSUME NEW p \in Promotions, NEW b \in BOOLEAN, Allocate(p, b) PROVE SequentialInv'
  <2>1. AllCovered'
    BY <1>3, <1>a DEF Allocate, AllCovered, Covered, dirVars
  <2>2. JournalOf(p)' /\ DirectoriesOf(p)'
    BY <1>3, <1>a DEF Allocate, TypeOK, Goto, JournalOf, DirectoriesOf, dirVars
  <2>. QED
    BY <1>0, <1>3, <2>1, <2>2, OneMoves DEF Allocate, Active
<1>4. ASSUME NEW p \in Promotions, NEW b \in BOOLEAN, Stage(p, b) PROVE SequentialInv'
  <2>1. AllCovered'
    BY <1>4, <1>a DEF Stage, AllCovered, Covered
  <2>2. JournalOf(p)' /\ DirectoriesOf(p)'
    BY <1>4, <1>a DEF Stage, TypeOK, Goto, JournalOf, DirectoriesOf
  <2>. QED
    BY <1>0, <1>4, <2>1, <2>2, OneMoves DEF Stage, Active
<1>5. ASSUME NEW p \in Promotions, Intend(p) PROVE SequentialInv'
  <2>1. journal = NoJournal /\ \A s \in Services \ Fresh : live[s] # NoDir
    BY <1>5, <1>a DEF Intend, JournalOf, AllCovered, Covered
  <2>2. AllCovered'
    BY <1>5, <2>1 DEF Intend, AllCovered, Covered, dirVars
  <2>3. JournalOf(p)' /\ DirectoriesOf(p)'
    BY <1>5, <2>1 DEF Intend, TypeOK, Goto, JournalOf, DirectoriesOf, Own, dirVars
  <2>. QED
    BY <1>0, <1>5, <2>2, <2>3, OneMoves DEF Intend, Active, Uninterrupted
<1>6. ASSUME NEW p \in Promotions, ClearBackup(p) PROVE SequentialInv'
  <2>1. \A s \in Services \ Fresh : live[s] # NoDir
    BY <1>6, <1>a DEF ClearBackup, AllCovered, Covered, JournalOf, DirectoriesOf, Own
  <2>2. AllCovered'
    BY <1>6, <2>1 DEF ClearBackup, AllCovered, Covered
  <2>3. JournalOf(p)' /\ DirectoriesOf(p)'
    BY <1>6, <1>a DEF ClearBackup, TypeOK, Goto, JournalOf, DirectoriesOf
  <2>. QED
    BY <1>0, <1>6, <2>2, <2>3, OneMoves DEF ClearBackup, Active, Uninterrupted
<1>7. ASSUME NEW p \in Promotions, MoveLive(p) PROVE SequentialInv'
  <2>1. journal = Own(p) /\ live[ServiceOf[p]] # NoDir /\ p \in prior
    BY <1>7, <1>a DEF MoveLive, JournalOf, DirectoriesOf
  <2>2. Own(p).of = p /\ Own(p) # NoJournal
    BY DEF Own, Journals
  <2>3. AllCovered'
    BY <1>7, <1>a, <2>1, <2>2 DEF MoveLive, TypeOK, AllCovered, Covered
  <2>4. JournalOf(p)' /\ DirectoriesOf(p)'
    BY <1>7, <2>1 DEF MoveLive, TypeOK, Goto, JournalOf, DirectoriesOf, Own
  <2>. QED
    BY <1>0, <1>7, <2>3, <2>4, OneMoves DEF MoveLive, Active, Uninterrupted
<1>8. ASSUME NEW p \in Promotions, MoveStaged(p) PROVE SequentialInv'
  <2>1. AllCovered'
    BY <1>8, <1>a DEF MoveStaged, TypeOK, AllCovered, Covered
  <2>2. JournalOf(p)' /\ DirectoriesOf(p)'
    BY <1>8, <1>a DEF MoveStaged, TypeOK, Goto, JournalOf, DirectoriesOf, Own
  <2>. QED
    BY <1>0, <1>8, <2>1, <2>2, OneMoves DEF MoveStaged, Active, Uninterrupted
<1>9. ASSUME NEW p \in Promotions, CutoverFails(p) PROVE SequentialInv'
  <2> DEFINE s == ServiceOf[p]
  <2>1. journal = Own(p) /\ Own(p) # NoJournal /\ Own(p).of = p
    BY <1>9, <1>a DEF CutoverFails, JournalOf, Own, Journals
  <2>2. \A t \in Services \ Fresh : t # s => live[t] # NoDir
    BY <1>a, <2>1 DEF AllCovered, Covered
  <2>3. AllCovered'
    <3>1. CASE /\ pc[p] = "intended" /\ p \in prior
               /\ UNCHANGED <<live, journal>>
      <4>1. live[s] # NoDir
        BY <1>a, <3>1 DEF DirectoriesOf
      <4>. QED
        BY <2>2, <3>1, <4>1 DEF AllCovered, Covered
    <3>2. CASE UNCHANGED <<live, backup, journal>>
      BY <1>a, <3>2 DEF AllCovered, Covered
    <3>3. CASE /\ pc[p] = "moved" /\ p \in prior
               /\ live' = [live EXCEPT ![s] = backup[s]]
      <4>1. backup[s] # NoDir
        BY <1>a, <3>3 DEF DirectoriesOf
      <4>. QED
        BY <2>2, <3>3, <4>1 DEF TypeOK, AllCovered, Covered
    <3>4. CASE /\ journal' = [of |-> p, state |-> "UNRECOVERABLE"]
               /\ UNCHANGED <<live, backup>>
      <4>1. journal' # NoJournal /\ journal'.of = p
        BY <3>4 DEF Journals
      <4>. QED
        BY <1>a, <2>1, <3>4, <4>1 DEF AllCovered, Covered
    <3>5. CASE /\ pc[p] = "moved" /\ p \notin prior
               /\ UNCHANGED <<live, backup>>
      <4>1. s \in Fresh
        BY <1>a, <3>5 DEF DirectoriesOf
      <4>. QED
        BY <2>2, <3>5, <4>1 DEF AllCovered, Covered
    <3>. QED
      BY <1>9, <3>1, <3>2, <3>3, <3>4, <3>5 DEF CutoverFails
  <2>. QED
    BY <1>0, <1>9, <2>3, OneLeaves DEF CutoverFails, Active, Uninterrupted
<1>10. ASSUME NEW p \in Promotions, Restart(p) PROVE SequentialInv'
  <2>1. AllCovered'
    BY <1>10, <1>a DEF Restart, AllCovered, Covered, dirVars
  <2>2. JournalOf(p)' /\ DirectoriesOf(p)'
    BY <1>10, <1>a DEF Restart, TypeOK, Goto, JournalOf, DirectoriesOf, Own, dirVars
  <2>. QED
    BY <1>0, <1>10, <2>1, <2>2, OneMoves DEF Restart, Active
<1>11. ASSUME NEW p \in Promotions, NEW b \in BOOLEAN, Poll(p, b) PROVE SequentialInv'
  <2>1. AllCovered'
    BY <1>11, <1>a DEF Poll, AllCovered, Covered, dirVars
  <2>2. JournalOf(p)' /\ DirectoriesOf(p)'
    BY <1>11, <1>a DEF Poll, TypeOK, Goto, JournalOf, DirectoriesOf, Own, dirVars
  <2>. QED
    BY <1>0, <1>11, <2>1, <2>2, OneMoves DEF Poll, Active
<1>12. ASSUME NEW p \in Promotions, RemoveLive(p) PROVE SequentialInv'
  <2>1. journal = Own(p) /\ backup[ServiceOf[p]] # NoDir
    BY <1>12, <1>a DEF RemoveLive, JournalOf, DirectoriesOf
  <2>2. Own(p).of = p /\ Own(p) # NoJournal
    BY DEF Own, Journals
  <2>3. AllCovered'
    BY <1>12, <1>a, <2>1, <2>2 DEF RemoveLive, TypeOK, AllCovered, Covered
  <2>4. JournalOf(p)' /\ DirectoriesOf(p)'
    BY <1>12, <2>1 DEF RemoveLive, TypeOK, Goto, JournalOf, DirectoriesOf, Own
  <2>. QED
    BY <1>0, <1>12, <2>3, <2>4, OneMoves DEF RemoveLive, Active, Uninterrupted
<1>13. ASSUME NEW p \in Promotions, RestoreBackup(p) PROVE SequentialInv'
  <2>1. backup[ServiceOf[p]] # NoDir /\ journal = Own(p) /\ Own(p).of = p
    BY <1>13, <1>a DEF RestoreBackup, JournalOf, DirectoriesOf, Own
  <2>2. AllCovered'
    BY <1>13, <1>a, <2>1 DEF RestoreBackup, TypeOK, AllCovered, Covered
  <2>. QED
    BY <1>0, <1>13, <2>2, OneLeaves DEF RestoreBackup, Active, Uninterrupted
<1>14. ASSUME NEW p \in Promotions, RollbackFails(p) PROVE SequentialInv'
  <2>1. AllCovered'
    BY <1>14, <1>a DEF RollbackFails, TypeOK, AllCovered, Covered
  <2>. QED
    BY <1>0, <1>14, <2>1, OneLeaves DEF RollbackFails, Active, Uninterrupted
<1>15. ASSUME NEW p \in Promotions, Settle(p) PROVE SequentialInv'
  <2>1. AllCovered'
    BY <1>15, <1>a DEF Settle, AllCovered, Covered, dirVars
  <2>. QED
    BY <1>0, <1>15, <2>1, OneLeaves DEF Settle, Active
<1>16. ASSUME NEW p \in Promotions, CallFails(p) PROVE SequentialInv'
  <2>1. AllCovered'
    BY <1>16, <1>a DEF CallFails, AllCovered, Covered, dirVars
  <2>. QED
    BY <1>0, <1>16, <2>1, OneLeaves DEF CallFails, Active, Uninterrupted
<1>17. CASE RecoveryFails
  <2> DEFINE s == ServiceOf[journal.of]
  <2>1. journal' # NoJournal /\ journal'.of = journal.of
    BY <1>17 DEF RecoveryFails, TypeOK, Journals
  <2>2. AllCovered'
    BY <1>17, <1>a, <2>1 DEF RecoveryFails, AllCovered, Covered, dirVars
  <2>3. \A p \in Promotions : JournalOf(p)' /\ DirectoriesOf(p)'
    <3> TAKE p \in Promotions
    <3>1. pc[p] \notin {"intended", "cleared", "moved", "removing", "removed"} /\ pc' = pc
      BY <1>17 DEF RecoveryFails, Uninterrupted
    <3>2. pc[p] \notin {"allocating", "allocated", "staged"}
      BY <1>17, <1>a DEF RecoveryFails, JournalOf
    <3>3. pc[p] \notin {"starting", "polling"}
      BY <1>17, <1>a DEF RecoveryFails, JournalOf, DirectoriesOf, Own
    <3>. QED
      BY <3>1, <3>2, <3>3 DEF JournalOf, DirectoriesOf
  <2>. QED
    BY <1>17, <1>a, <2>2, <2>3 DEF RecoveryFails, SequentialInv, OneAtATime
<1>18. CASE Crash
  <2>1. \A p \in Promotions : pc'[p] \notin Active
    BY <1>18 DEF Crash, Active, Uninterrupted
  <2>2. OneAtATime' /\ \A p \in Promotions : JournalOf(p)' /\ DirectoriesOf(p)'
    BY <2>1 DEF OneAtATime, JournalOf, DirectoriesOf, Active, Uninterrupted
  <2>3. AllCovered'
    BY <1>18, <1>a DEF Crash, HalfRemoved, TypeOK, AllCovered, Covered
  <2>. QED
    BY <2>2, <2>3 DEF SequentialInv
<1>19. ASSUME NEW ready \in BOOLEAN, Startup(ready) PROVE SequentialInv'
  <2>1. journal' = NoJournal /\ AllCovered'
    BY <1>19, <1>a, RecoverCovers DEF Startup
  <2>2. \A p \in Promotions : pc'[p] \notin Active
    BY <1>19 DEF Startup, DownIsIdle
  <2>3. OneAtATime' /\ \A p \in Promotions : JournalOf(p)' /\ DirectoriesOf(p)'
    BY <2>2 DEF OneAtATime, JournalOf, DirectoriesOf, Active, Uninterrupted
  <2>. QED
    BY <2>1, <2>3 DEF SequentialInv
<1>. QED
  BY <1>1, <1>2, <1>3, <1>4, <1>5, <1>6, <1>7, <1>8, <1>9, <1>10, <1>11, <1>12, <1>13,
     <1>14, <1>15, <1>16, <1>17, <1>18, <1>19 DEF Next, PromotionNext

\* Nothing is in progress and every service that ever had one has a live directory.
LEMMA SequentialInit == Init => SequentialInv /\ DownIsIdle
<1> HAVE Init
<1>1. \A p \in Promotions : pc[p] \notin Active
  BY DEF Init, Active, Uninterrupted
<1>2. OneAtATime /\ \A p \in Promotions : JournalOf(p) /\ DirectoriesOf(p)
  BY <1>1 DEF OneAtATime, JournalOf, DirectoriesOf, Active, Uninterrupted
<1>3. AllCovered
  BY DEF Init, AllCovered, Covered
<1>. QED
  BY <1>1, <1>2, <1>3 DEF SequentialInv, DownIsIdle

\* Without overlapping promotions the journal follows the cutover step by step.
LEMMA JournalIsKept == Spec => []SequentialInv
<1>1. TypeOK /\ SequentialInv /\ DownIsIdle /\ [Next]_vars => SequentialInv' /\ DownIsIdle'
  <2>1. ASSUME TypeOK, SequentialInv, DownIsIdle, [Next]_vars, overlapped'
        PROVE  SequentialInv'
    BY <2>1 DEF SequentialInv
  <2>. QED
    BY <2>1, SequentialStep, DownStep
<1>. QED
  BY <1>1, SequentialInit, TypeSafety, PTL DEF Spec

\* Whatever crashes and failing file operations led there: without overlapping
\* promotions a service that has lost its live directory is named by the journal,
\* and there is a backup to recover it from.
THEOREM JournalIsAhead == Spec => []JournalCoversMissingLive
<1>1. SequentialInv => JournalCoversMissingLive
  BY DEF SequentialInv, AllCovered, Covered, JournalCoversMissingLive
<1>. QED
  BY <1>1, JournalIsKept, PTL

-----------------------------------------------------------------------------
(* What the poll of a promotion talks to, as long as nothing crashes. *)

\* The coordinator is up and its supervisor knows every process.
Supervised == up /\ \A s \in Services : serving[s] # NoDir => s \in owned

\* From the cutover to the verdict the release is live, and from the restart on
\* it is what the port serves.
ServedBy(p) ==
  LET s == ServiceOf[p] IN
  /\ pc[p] \in {"starting", "polling", "passed"} => live[s] = p
  /\ pc[p] \in {"polling", "passed"} => serving[s] = p

ServedInv ==
  crashes = 0 => Supervised /\ (~overlapped => \A p \in Promotions : ServedBy(p))

\* A step of the promotion in progress that does not bring it to a label at
\* which something is demanded of its process.
LEMMA ServedElsewhere ==
  ASSUME TypeOK, SequentialInv, ~overlapped, Supervised',
         NEW p \in Promotions, pc[p] \in Active, NEW label, Goto(p, label), ServedBy(p)'
  PROVE  ServedInv'
<1>1. \A q \in Promotions \ {p} : pc'[q] = pc[q] /\ pc[q] \notin Active
  BY DEF SequentialInv, OneAtATime, TypeOK, Goto
<1>2. \A q \in Promotions \ {p} : ServedBy(q)'
  BY <1>1 DEF ServedBy, Active
<1>. QED
  BY <1>2 DEF ServedInv

\* A supervised service restarts from the directory it is given.
LEMMA SupervisedStart ==
  ASSUME TypeOK, Supervised, NEW s \in Services, NEW dir \in Directories, StartFrom(s, dir), up' = up
  PROVE  Supervised' /\ (dir # NoDir => serving'[s] = dir)
BY DEF TypeOK, Supervised, StartFrom, CodeIn

\* One step of Deployer keeps ServedInv.
LEMMA ServedStep ==
  ASSUME TypeOK, SequentialInv, ServedInv, [Next]_vars
  PROVE  ServedInv'
<1> SUFFICES ASSUME crashes' = 0
             PROVE  ServedInv'
  BY DEF ServedInv
<1>0. crashes = 0 /\ Supervised
  <2>1. crashes = 0
    <3>1. CASE PromotionNext
      BY <3>1 DEF PromotionNext, Begin, Allocate, Stage, Intend, ClearBackup, MoveLive, MoveStaged,
                  CutoverFails, Restart, Poll, RemoveLive, RestoreBackup, RollbackFails, Settle,
                  CallFails, boundVars
    <3>2. CASE RecoveryFails \/ (\E ready \in BOOLEAN : Startup(ready)) \/ UNCHANGED vars
      BY <3>2 DEF RecoveryFails, Startup, boundVars, vars
    <3>3. ~Crash
      BY DEF Crash, TypeOK
    <3>. QED
      BY <3>1, <3>2, <3>3 DEF Next
  <2>. QED
    BY <2>1 DEF ServedInv
<1>a. ~overlapped => \A p \in Promotions : ServedBy(p)
  BY <1>0 DEF ServedInv
<1>b. ASSUME Supervised', overlapped'
      PROVE  ServedInv'
  BY <1>b DEF ServedInv
<1>c. ~overlapped' => ~overlapped
  BY OverlapStays
<1>1. CASE UNCHANGED vars
  BY <1>1, <1>0, <1>a DEF ServedInv, ServedBy, Supervised, vars
<1>2. ASSUME NEW p \in Promotions, Begin(p) PROVE ServedInv'
  <2>1. Supervised'
    BY <1>0, <1>2 DEF Begin, Supervised, processVars
  <2>2. ASSUME ~overlapped'
        PROVE  \A q \in Promotions : ServedBy(q)'
    <3>1. pc'[p] = "allocating" /\ \A q \in Promotions \ {p} : pc'[q] = pc[q] /\ pc[q] \notin Active
      BY <1>2, <2>2 DEF Begin, TypeOK, Goto, InProgress
    <3>. QED
      BY <3>1 DEF ServedBy, Active
  <2>. QED
    BY <2>1, <2>2 DEF ServedInv
<1>3. ASSUME NEW p \in Promotions, pc[p] \in Active,
             NEW label \in (Active \ {"starting", "polling", "passed"}) \cup {"ended"},
             Goto(p, label), UNCHANGED <<processVars, up>>
      PROVE  ServedInv'
  <2>1. Supervised'
    BY <1>0, <1>3 DEF Supervised, processVars
  <2>2. ServedBy(p)'
    BY <1>3 DEF TypeOK, Goto, ServedBy
  <2>. QED
    BY <1>3, <1>b, <1>c, <2>1, <2>2, ServedElsewhere
<1>4. ASSUME NEW p \in Promotions, NEW b \in BOOLEAN, Allocate(p, b) \/ Stage(p, b)
      PROVE  ServedInv'
  BY <1>3, <1>4 DEF Allocate, Stage, Active, Uninterrupted
<1>5. ASSUME NEW p \in Promotions,
             \/ Intend(p) \/ ClearBackup(p) \/ MoveLive(p) \/ RemoveLive(p) \/ Settle(p)
             \/ CutoverFails(p) \/ RollbackFails(p) \/ CallFails(p)
      PROVE  ServedInv'
  BY <1>3, <1>5 DEF Intend, ClearBackup, MoveLive, RemoveLive, Settle, CutoverFails,
                    RollbackFails, CallFails, Active, Uninterrupted
<1>6. ASSUME NEW p \in Promotions, MoveStaged(p) PROVE ServedInv'
  <2>1. Supervised'
    BY <1>0, <1>6 DEF MoveStaged, Supervised, processVars
  <2>2. ServedBy(p)'
    BY <1>6 DEF MoveStaged, TypeOK, Goto, ServedBy
  <2>. QED
    BY <1>6, <1>b, <1>c, <2>1, <2>2, ServedElsewhere DEF MoveStaged, Active, Uninterrupted
<1>7. ASSUME NEW p \in Promotions, Restart(p) PROVE ServedInv'
  <2> DEFINE s == ServiceOf[p]
  <2>1. live[s] \in Directories /\ StartFrom(s, live[s]) /\ up' = up /\ live' = live
    BY <1>7 DEF Restart, TypeOK, dirVars
  <2>2. Supervised' /\ (live[s] # NoDir => serving'[s] = live[s])
    BY <1>0, <2>1, SupervisedStart
  <2>3. ~overlapped => ServedBy(p)'
    <3>1. ~overlapped => live[s] = p
      BY <1>7, <1>a DEF Restart, ServedBy
    <3>2. p # NoDir
      BY NamesAssumption
    <3>. QED
      BY <2>1, <2>2, <3>1, <3>2 DEF ServedBy
  <2>. QED
    BY <1>7, <1>b, <1>c, <2>2, <2>3, ServedElsewhere DEF Restart, Active
<1>8. ASSUME NEW p \in Promotions, NEW b \in BOOLEAN, Poll(p, b) PROVE ServedInv'
  <2>1. Supervised'
    BY <1>0, <1>8 DEF Poll, Supervised, processVars
  <2>2. ~overlapped => ServedBy(p)'
    BY <1>8, <1>a DEF Poll, ServedBy, dirVars, processVars
  <2>. QED
    BY <1>8, <1>b, <1>c, <2>1, <2>2, ServedElsewhere DEF Poll, Active
<1>9. ASSUME NEW p \in Promotions, RestoreBackup(p) PROVE ServedInv'
  <2>1. Supervised'
    BY <1>0, <1>9, SupervisedStart DEF RestoreBackup, TypeOK
  <2>2. ServedBy(p)'
    BY <1>9 DEF RestoreBackup, TypeOK, Goto, ServedBy
  <2>. QED
    BY <1>9, <1>b, <1>c, <2>1, <2>2, ServedElsewhere DEF RestoreBackup, Active, Uninterrupted
<1>10. CASE RecoveryFails
  BY <1>10, <1>0, <1>a DEF RecoveryFails, dirVars, processVars, boundVars, ServedInv, ServedBy, Supervised
<1>11. ~Crash /\ \A ready \in BOOLEAN : ~Startup(ready)
  BY <1>0 DEF Crash, Startup, Supervised, TypeOK
<1>. QED
  BY <1>1, <1>2, <1>4, <1>5, <1>6, <1>7, <1>8, <1>9, <1>10, <1>11 DEF Next, PromotionNext

\* As long as no crash left a process behind and promotions do not overlap, a
\* release reported HEALTHY is the one that was polled, whatever failed on the way.
THEOREM HealthyIsServed == Spec => HealthyReleasesAreServed
<1> DEFINE A == ~overlapped /\ crashes = 0 =>
                  \A p \in Promotions : row[p] # "HEALTHY" /\ row'[p] = "HEALTHY"
                    => live[ServiceOf[p]] = p /\ serving[ServiceOf[p]] = p
<1>1. Init => ServedInv
  BY DEF Init, ServedInv, ServedBy, Supervised
<1>2. TypeOK /\ SequentialInv /\ ServedInv /\ [Next]_vars => ServedInv'
  BY ServedStep
<1>3. TypeOK /\ ServedInv /\ [Next]_vars => [A]_vars
  <2> SUFFICES ASSUME TypeOK, ServedInv, Next, ~overlapped, crashes = 0,
                      NEW p \in Promotions, row[p] # "HEALTHY", row'[p] = "HEALTHY"
               PROVE  live[ServiceOf[p]] = p /\ serving[ServiceOf[p]] = p
    OBVIOUS
  <2>1. Settle(p) /\ pc[p] = "passed"
    <3>1. CASE PromotionNext
      <4>1. ASSUME NEW q \in Promotions, NEW b \in BOOLEAN, Allocate(q, b)
            PROVE  FALSE
        BY <4>1 DEF Allocate, TypeOK
      <4>2. ASSUME NEW q \in Promotions, Settle(q)
            PROVE  Settle(p) /\ pc[p] = "passed"
        BY <4>2 DEF Settle, TypeOK
      <4>. QED
        BY <3>1, <4>1, <4>2 DEF PromotionNext, Begin, Stage, Intend, ClearBackup, MoveLive,
             MoveStaged, CutoverFails, Restart, Poll, RemoveLive, RestoreBackup, RollbackFails,
             CallFails, rowVars
    <3>2. CASE RecoveryFails \/ Crash \/ \E ready \in BOOLEAN : Startup(ready)
      BY <3>2 DEF RecoveryFails, Crash, Startup, rowVars
    <3>. QED
      BY <3>1, <3>2 DEF Next
  <2>. QED
    BY <2>1 DEF ServedInv, ServedBy
<1>. QED
  BY <1>1, <1>2, <1>3, TypeSafety, JournalIsKept, PTL DEF Spec, HealthyReleasesAreServed

-----------------------------------------------------------------------------
(* What is live between promotions, as long as nothing crashes or fails. *)

\* r is the newest healthy release of s, or what s started with.
IsNewest(s, r) ==
  /\ \A p \in HealthyOf(s) :
       (\A q \in HealthyOf(s) : version[q] <= version[p]) => r = p
  /\ HealthyOf(s) = {} /\ s \notin Fresh => r = Initial

\* The directories of a service are in transit from the move of the live one to
\* the verdict.
InTransit == {"moved", "starting", "polling", "passed", "removing", "removed"}

\* Where the release that was live before is, while p's own takes its place.
Before(p) == IF p \in prior THEN backup[ServiceOf[p]] ELSE NoDir

CleanOf(p) ==
  /\ pc[p] \in Active \ {"allocating"}
       => \A q \in Promotions \ {p} : version[q] < version[p]
  /\ pc[p] \in InTransit => /\ IsNewest(ServiceOf[p], Before(p))
                            /\ p \in prior => Before(p) # NoDir
  /\ pc[p] \in {"removing", "removed"} => p \in prior

\* Only a cutover under way needs the journal: any other one it could name has a
\* live directory, and recovery leaves it alone.
NothingToRecover ==
  journal # NoJournal /\ (\A p \in Promotions : pc[p] \notin Uninterrupted)
    => live[ServiceOf[journal.of]] # NoDir

\* Only a call that has ended is reported healthy.
VerdictIsLast == \A p \in Promotions : row[p] = "HEALTHY" => pc[p] = "ended"

CleanInv ==
  ~overlapped /\ crashes = 0 /\ faults = 0 =>
    /\ \A p \in Promotions : CleanOf(p)
    /\ \A s \in Services :
         (\A p \in Promotions : ServiceOf[p] = s => pc[p] \notin InTransit)
           => IsNewest(s, live[s])
    /\ NothingToRecover

\* If s was to have no live directory, no release is owed to it.
LEMMA NothingIsOwed ==
  ASSUME NEW s \in Services, IsNewest(s, NoDir), NEW r
  PROVE  IsNewest(s, r)
BY DEF IsNewest, HealthyOf

LEMMA VerdictStep ==
  ASSUME TypeOK, VerdictIsLast, [Next]_vars
  PROVE  VerdictIsLast'
<1>1. CASE UNCHANGED vars
  BY <1>1 DEF VerdictIsLast, vars
<1>2. ASSUME NEW p \in Promotions, NEW b \in BOOLEAN, Allocate(p, b) PROVE VerdictIsLast'
  BY <1>2 DEF VerdictIsLast, Allocate, Goto, TypeOK
<1>3. ASSUME NEW p \in Promotions, Settle(p) PROVE VerdictIsLast'
  BY <1>3 DEF VerdictIsLast, Settle, Goto, TypeOK
<1>4. ASSUME NEW p \in Promotions, NEW label, pc[p] # "ended", Goto(p, label), row' = row
      PROVE  VerdictIsLast'
  BY <1>4 DEF VerdictIsLast, Goto, TypeOK
<1>5. ASSUME NEW p \in Promotions,
             \/ \E b \in BOOLEAN : Stage(p, b) \/ Poll(p, b)
             \/ Begin(p) \/ Intend(p) \/ ClearBackup(p) \/ MoveLive(p) \/ MoveStaged(p)
             \/ CutoverFails(p) \/ Restart(p) \/ RemoveLive(p) \/ RestoreBackup(p)
             \/ RollbackFails(p) \/ CallFails(p)
      PROVE  VerdictIsLast'
  <2>1. pc[p] # "ended" /\ row' = row /\ \E label : Goto(p, label)
    BY <1>5 DEF Begin, Stage, Poll, Intend, ClearBackup, MoveLive, MoveStaged, CutoverFails,
                Restart, RemoveLive, RestoreBackup, RollbackFails, CallFails, rowVars
  <2>. QED
    BY <1>4, <2>1
<1>6. CASE Crash
  BY <1>6 DEF VerdictIsLast, Crash, rowVars, TypeOK, Active, Uninterrupted
<1>7. CASE RecoveryFails \/ \E ready \in BOOLEAN : Startup(ready)
  BY <1>7 DEF VerdictIsLast, RecoveryFails, Startup, rowVars
<1>. QED
  BY <1>1, <1>2, <1>3, <1>5, <1>6, <1>7 DEF Next, PromotionNext

\* A step of the promotion in progress that leaves rows and versions alone has
\* to care for itself, for its service and for the journal.
LEMMA CleanMoves ==
  ASSUME TypeOK, SequentialInv, CleanInv, ~overlapped, crashes = 0, faults = 0,
         NEW p \in Promotions, pc[p] \in Active, NEW label, Goto(p, label),
         UNCHANGED rowVars,
         \A t \in Services \ {ServiceOf[p]} : live'[t] = live[t],
         CleanOf(p)', NothingToRecover',
         label \notin InTransit => IsNewest(ServiceOf[p], live'[ServiceOf[p]])
  PROVE  CleanInv'
<1>1. \A q \in Promotions \ {p} : pc'[q] = pc[q] /\ pc[q] \notin Active
  BY DEF SequentialInv, OneAtATime, TypeOK, Goto
<1>2. pc'[p] = label
  BY DEF TypeOK, Goto
<1>3. \A q \in Promotions \ {p} : CleanOf(q)'
  BY <1>1 DEF CleanOf, InTransit, Active, Uninterrupted
<1>4. ASSUME NEW s \in Services, \A q \in Promotions : ServiceOf[q] = s => pc'[q] \notin InTransit
      PROVE  IsNewest(s, live[s])'
  <2>1. IsNewest(s, live'[s])
    <3>1. CASE s = ServiceOf[p]
      BY <1>2, <1>4, <3>1
    <3>2. CASE s # ServiceOf[p]
      <4>1. \A q \in Promotions : ServiceOf[q] = s => pc[q] \notin InTransit
        BY <1>1, <1>4, <3>2
      <4>. QED
        BY <3>2, <4>1 DEF CleanInv
    <3>. QED
      BY <3>1, <3>2
  <2>. QED
    BY <2>1 DEF IsNewest, HealthyOf, rowVars
<1>. QED
  BY <1>3, <1>4 DEF CleanInv

\* Outside a cutover recovery finds every live directory in place.
LEMMA RecoverKeeps ==
  ASSUME TypeOK, NothingToRecover, Recover, \A p \in Promotions : pc[p] \notin Uninterrupted
  PROVE  live' = live /\ journal' = NoJournal
<1>1. CASE journal = NoJournal /\ UNCHANGED <<dirVars, journal>>
  BY <1>1 DEF dirVars
<1>2. CASE journal # NoJournal /\ Restore(journal.of) /\ journal' = NoJournal
  <2>1. journal.of \in Promotions
    BY <1>2 DEF TypeOK, Journals
  <2>. QED
    BY <1>2, <2>1 DEF TypeOK, NothingToRecover, Restore
<1>. QED
  BY <1>1, <1>2 DEF Recover

\* One step of Deployer keeps CleanInv.
LEMMA CleanStep ==
  ASSUME TypeOK, SequentialInv, ServedInv, VerdictIsLast, CleanInv, [Next]_vars
  PROVE  CleanInv'
<1> SUFFICES ASSUME ~overlapped', crashes' = 0, faults' = 0
             PROVE  CleanInv'
  BY DEF CleanInv
<1>0. ~overlapped /\ crashes = 0 /\ faults = 0
  <2>1. ~overlapped
    BY OverlapStays
  <2>2. faults = 0
    <3>1. CASE PromotionNext
      BY <3>1 DEF PromotionNext, Begin, Allocate, Stage, Intend, ClearBackup, MoveLive, MoveStaged,
                  CutoverFails, Restart, Poll, RemoveLive, RestoreBackup, RollbackFails, Settle,
                  CallFails, Fault, TypeOK
    <3>2. CASE RecoveryFails \/ Crash \/ (\E ready \in BOOLEAN : Startup(ready)) \/ UNCHANGED vars
      BY <3>2 DEF RecoveryFails, Crash, Startup, Fault, vars, TypeOK
    <3>. QED
      BY <3>1, <3>2 DEF Next
  <2>3. crashes = 0
    <3>1. CASE PromotionNext
      BY <3>1 DEF PromotionNext, Begin, Allocate, Stage, Intend, ClearBackup, MoveLive, MoveStaged,
                  CutoverFails, Restart, Poll, RemoveLive, RestoreBackup, RollbackFails, Settle,
                  CallFails, boundVars
    <3>2. CASE RecoveryFails \/ (\E ready \in BOOLEAN : Startup(ready)) \/ UNCHANGED vars
      BY <3>2 DEF RecoveryFails, Startup, boundVars, vars
    <3>3. ~Crash
      BY DEF Crash, TypeOK
    <3>. QED
      BY <3>1, <3>2, <3>3 DEF Next
  <2>. QED
    BY <2>1, <2>2, <2>3
<1>a. /\ OneAtATime /\ \A p \in Promotions : JournalOf(p) /\ DirectoriesOf(p) /\ CleanOf(p) /\ ServedBy(p)
      /\ NothingToRecover /\ up
      /\ \A s \in Services : (\A p \in Promotions : ServiceOf[p] = s => pc[p] \notin InTransit)
                               => IsNewest(s, live[s])
  BY <1>0 DEF SequentialInv, ServedInv, Supervised, CleanInv
<1>b. ASSUME NEW p \in Promotions, pc[p] \in Active \ InTransit
      PROVE  IsNewest(ServiceOf[p], live[ServiceOf[p]])
  <2>1. \A q \in Promotions : pc[q] \notin InTransit
    BY <1>a, <1>b DEF OneAtATime, InTransit, Active, Uninterrupted
  <2>. QED
    BY <1>a, <2>1
<1>c. ASSUME NEW p \in Promotions, pc[p] \in Active
      PROVE  \A q \in Promotions \ {p} : pc[q] \notin Uninterrupted
  BY <1>a, <1>c DEF OneAtATime, Active
<1>d. ASSUME NEW p \in Promotions, NEW label, Goto(p, label), label \in Uninterrupted
      PROVE  NothingToRecover'
  BY <1>d DEF NothingToRecover, Goto, TypeOK
<1>e. ASSUME NEW p \in Promotions, pc[p] \in Active \ Uninterrupted, NEW label, Goto(p, label),
             UNCHANGED <<live, journal>>
      PROVE  NothingToRecover'
  <2>1. \A q \in Promotions : pc[q] \notin Uninterrupted
    BY <1>c, <1>e
  <2>. QED
    BY <1>a, <1>e, <2>1 DEF NothingToRecover
<1>1. CASE UNCHANGED vars
  BY <1>0, <1>1, <1>a DEF CleanInv, CleanOf, Before, IsNewest, HealthyOf, NothingToRecover, vars
<1>2. ASSUME NEW p \in Promotions, Begin(p) PROVE CleanInv'
  <2>1. \A q \in Promotions : pc[q] \notin Active
    BY <1>2 DEF Begin, InProgress
  <2>2. live' = live /\ journal' = NoJournal
    BY <1>2, <1>a, <2>1, RecoverKeeps DEF Begin, Active
  <2>3. pc'[p] = "allocating" /\ \A q \in Promotions \ {p} : pc'[q] = pc[q]
    BY <1>2 DEF Begin, TypeOK, Goto
  <2>4. \A q \in Promotions : CleanOf(q)'
    BY <2>1, <2>3 DEF CleanOf, InTransit, Active, Uninterrupted
  <2>5. \A s \in Services : IsNewest(s, live[s])
    BY <1>a, <2>1 DEF InTransit, Active, Uninterrupted
  <2>6. \A s \in Services : IsNewest(s, live[s])'
    BY <1>2, <2>2, <2>5 DEF Begin, IsNewest, HealthyOf, rowVars
  <2>. QED
    BY <2>2, <2>4, <2>6 DEF CleanInv, NothingToRecover
<1>3. ASSUME NEW p \in Promotions, NEW b \in BOOLEAN, Allocate(p, b) PROVE CleanInv'
  <2>1. /\ pc[p] = "allocating" /\ row[p] # "HEALTHY" /\ row'[p] # "HEALTHY"
        /\ \A q \in Promotions \ {p} : /\ pc'[q] = pc[q] /\ pc[q] \notin Active
                                       /\ row'[q] = row[q] /\ version'[q] = version[q]
        /\ pc'[p] \in {"allocated", "ended"}
        /\ UNCHANGED <<live, journal>>
    BY <1>3, <1>a DEF Allocate, Goto, TypeOK, VerdictIsLast, OneAtATime, dirVars, Active
  <2>2. \A q \in Promotions \ {p} : version'[q] < version'[p]
    BY <1>3, <2>1 DEF Allocate, IsNextVersion, TypeOK
  <2>3. \A q \in Promotions : CleanOf(q)'
    BY <2>1, <2>2 DEF CleanOf, InTransit, Active, Uninterrupted
  <2>4. \A s \in Services : IsNewest(s, live[s])
    <3>1. \A q \in Promotions : pc[q] \notin InTransit
      BY <2>1 DEF InTransit, Active, Uninterrupted
    <3>. QED
      BY <1>a, <3>1
  <2>5. ASSUME NEW s \in Services
        PROVE  IsNewest(s, live[s])'
    <3>1. /\ HealthyOf(s)' = HealthyOf(s)
          /\ \A q \in HealthyOf(s) : version'[q] = version[q]
      BY <2>1 DEF HealthyOf
    <3>. QED
      BY <2>1, <2>4, <3>1 DEF IsNewest
  <2>6. NothingToRecover'
    BY <1>3, <1>e, <2>1 DEF Allocate, Active, Uninterrupted
  <2>. QED
    BY <2>3, <2>5, <2>6 DEF CleanInv
<1>4. ASSUME NEW p \in Promotions, NEW b \in BOOLEAN, Stage(p, b) PROVE CleanInv'
  <2>1. NothingToRecover'
    BY <1>4, <1>e DEF Stage, Active, Uninterrupted
  <2>2. CleanOf(p)'
    BY <1>4, <1>a DEF Stage, Goto, TypeOK, CleanOf, InTransit, Active, Uninterrupted, rowVars
  <2>3. IsNewest(ServiceOf[p], live[ServiceOf[p]])
    BY <1>4, <1>b DEF Stage, InTransit, Active, Uninterrupted
  <2>. QED
    BY <1>0, <1>4, <2>1, <2>2, <2>3, CleanMoves DEF Stage, Active
<1>5. ASSUME NEW p \in Promotions, Intend(p) PROVE CleanInv'
  <2>1. NothingToRecover'
    BY <1>5, <1>d DEF Intend, Uninterrupted
  <2>2. CleanOf(p)'
    BY <1>5, <1>a DEF Intend, Goto, TypeOK, CleanOf, InTransit, Active, Uninterrupted, rowVars
  <2>3. IsNewest(ServiceOf[p], live[ServiceOf[p]])
    BY <1>5, <1>b DEF Intend, InTransit, Active, Uninterrupted
  <2>. QED
    BY <1>0, <1>5, <2>1, <2>2, <2>3, CleanMoves DEF Intend, Active, Uninterrupted, dirVars
<1>6. ASSUME NEW p \in Promotions, ClearBackup(p) PROVE CleanInv'
  <2>1. NothingToRecover'
    BY <1>6, <1>d DEF ClearBackup, Uninterrupted
  <2>2. IsNewest(ServiceOf[p], live[ServiceOf[p]])
    BY <1>6, <1>b DEF ClearBackup, InTransit, Active, Uninterrupted
  <2>3. p \notin prior => live[ServiceOf[p]] = NoDir
    BY <1>6, <1>a DEF ClearBackup, DirectoriesOf
  <2>4. p \notin prior => IsNewest(ServiceOf[p], Before(p))'
    BY <1>6, <2>2, <2>3 DEF ClearBackup, Before, IsNewest, HealthyOf, rowVars
  <2>5. CleanOf(p)'
    BY <1>6, <1>a, <2>4 DEF ClearBackup, Goto, TypeOK, CleanOf, InTransit, Active, Uninterrupted, rowVars
  <2>. QED
    BY <1>0, <1>6, <2>1, <2>2, <2>5, CleanMoves DEF ClearBackup, Active, Uninterrupted
<1>7. ASSUME NEW p \in Promotions, MoveLive(p) PROVE CleanInv'
  <2> DEFINE s == ServiceOf[p]
  <2>1. NothingToRecover'
    BY <1>7, <1>d DEF MoveLive, Uninterrupted
  <2>2. IsNewest(s, live[s]) /\ live[s] # NoDir /\ p \in prior
    BY <1>7, <1>a, <1>b DEF MoveLive, DirectoriesOf, InTransit, Active, Uninterrupted
  <2>3. Before(p)' = live[s] /\ Before(p)' # NoDir /\ IsNewest(s, Before(p))'
    BY <1>7, <2>2 DEF MoveLive, Before, IsNewest, HealthyOf, rowVars, TypeOK
  <2>4. CleanOf(p)'
    BY <1>7, <1>a, <2>3 DEF MoveLive, Goto, TypeOK, CleanOf, InTransit, Active, Uninterrupted, rowVars
  <2>5. \A t \in Services \ {s} : live'[t] = live[t]
    BY <1>7 DEF MoveLive, TypeOK
  <2>. QED
    BY <1>0, <1>7, <2>1, <2>4, <2>5, CleanMoves DEF MoveLive, InTransit, Active, Uninterrupted
<1>8. ASSUME NEW p \in Promotions, MoveStaged(p) PROVE CleanInv'
  <2> DEFINE s == ServiceOf[p]
  <2>1. NothingToRecover'
    <3>1. journal' = Own(p) /\ Own(p).of = p /\ live'[s] = p /\ p # NoDir
      BY <1>8, <1>a, NamesAssumption DEF MoveStaged, JournalOf, Own, TypeOK
    <3>. QED
      BY <3>1 DEF NothingToRecover
  <2>2. CleanOf(p)'
    <3>1. Before(p)' = Before(p) /\ (p \in prior => Before(p) # NoDir) /\ IsNewest(s, Before(p))
      BY <1>8, <1>a DEF MoveStaged, Before, CleanOf, InTransit
    <3>2. IsNewest(s, Before(p))'
      BY <1>8, <3>1 DEF MoveStaged, IsNewest, HealthyOf, rowVars
    <3>. QED
      BY <1>8, <1>a, <3>1, <3>2 DEF MoveStaged, Goto, TypeOK, CleanOf, InTransit, Active, Uninterrupted, rowVars
  <2>3. \A t \in Services \ {s} : live'[t] = live[t]
    BY <1>8 DEF MoveStaged, TypeOK
  <2>. QED
    BY <1>0, <1>8, <2>1, <2>2, <2>3, CleanMoves DEF MoveStaged, InTransit, Active, Uninterrupted
<1>9. ASSUME NEW p \in Promotions,
             pc[p] \in InTransit, NEW label \in InTransit, Goto(p, label),
             UNCHANGED <<backup, prior, rowVars>>,
             label \in {"removing", "removed"} => p \in prior,
             \A t \in Services \ {ServiceOf[p]} : live'[t] = live[t],
             NothingToRecover'
      PROVE  CleanInv'
  <2>1. pc[p] \in Active
    BY <1>9 DEF InTransit, Active, Uninterrupted
  <2>2. Before(p)' = Before(p) /\ (p \in prior => Before(p) # NoDir) /\ IsNewest(ServiceOf[p], Before(p))
    BY <1>9, <1>a DEF Before, CleanOf
  <2>3. IsNewest(ServiceOf[p], Before(p))'
    BY <1>9, <2>2 DEF IsNewest, HealthyOf, rowVars
  <2>4. CleanOf(p)'
    BY <1>9, <1>a, <2>2, <2>3 DEF Goto, TypeOK, CleanOf, InTransit, Active, Uninterrupted, rowVars
  <2>. QED
    BY <1>0, <1>9, <2>1, <2>4, CleanMoves
<1>10. ASSUME NEW p \in Promotions, Restart(p) PROVE CleanInv'
  <2>1. NothingToRecover'
    BY <1>10, <1>e DEF Restart, dirVars, Active, Uninterrupted
  <2>. QED
    BY <1>10, <1>9, <2>1 DEF Restart, dirVars, InTransit
<1>11. ASSUME NEW p \in Promotions, NEW b \in BOOLEAN, Poll(p, b) PROVE CleanInv'
  <2>1. NothingToRecover'
    BY <1>11, <1>e DEF Poll, dirVars, Active, Uninterrupted
  <2>2. CASE pc'[p] \in InTransit
    BY <1>11, <1>9, <2>1, <2>2 DEF Poll, Goto, TypeOK, dirVars, InTransit
  <2>3. CASE pc'[p] \notin InTransit
    <3>1. /\ ~b /\ (p \notin prior \/ backup[ServiceOf[p]] = NoDir) /\ pc'[p] = "rejected"
          /\ Goto(p, "rejected") /\ pc[p] = "polling" /\ UNCHANGED <<dirVars, rowVars>>
      BY <1>11, <2>3 DEF Poll, Goto, TypeOK, InTransit
    <3>2. Before(p) = NoDir /\ IsNewest(ServiceOf[p], Before(p))
      BY <1>a, <3>1 DEF CleanOf, Before, InTransit
    <3>3. IsNewest(ServiceOf[p], live[ServiceOf[p]])
      BY <3>2, NothingIsOwed
    <3>4. CleanOf(p)'
      BY <1>a, <3>1 DEF CleanOf, InTransit, Active, Uninterrupted, rowVars
    <3>. QED
      BY <1>0, <2>1, <3>1, <3>3, <3>4, CleanMoves DEF dirVars, Active
  <2>. QED
    BY <2>2, <2>3
<1>12. ASSUME NEW p \in Promotions, RemoveLive(p) PROVE CleanInv'
  <2>1. NothingToRecover'
    BY <1>12, <1>d DEF RemoveLive, Uninterrupted
  <2>2. p \in prior
    BY <1>12, <1>a DEF RemoveLive, CleanOf
  <2>. QED
    BY <1>12, <1>9, <2>1, <2>2 DEF RemoveLive, InTransit, TypeOK
<1>13. ASSUME NEW p \in Promotions, RestoreBackup(p) PROVE CleanInv'
  <2> DEFINE s == ServiceOf[p]
  <2>1. /\ p \in prior /\ IsNewest(s, backup[s]) /\ backup[s] # NoDir
        /\ journal = Own(p) /\ Own(p).of = p
    BY <1>13, <1>a DEF RestoreBackup, CleanOf, Before, JournalOf, Own, InTransit
  <2>2. live'[s] = backup[s] /\ \A t \in Services \ {s} : live'[t] = live[t]
    BY <1>13 DEF RestoreBackup, TypeOK
  <2>3. NothingToRecover'
    BY <1>13, <2>1, <2>2 DEF RestoreBackup, NothingToRecover
  <2>4. CleanOf(p)'
    BY <1>13, <1>a DEF RestoreBackup, Goto, TypeOK, CleanOf, InTransit, Active, Uninterrupted, rowVars
  <2>. QED
    BY <1>0, <1>13, <2>1, <2>2, <2>3, <2>4, CleanMoves DEF RestoreBackup, Active, Uninterrupted
<1>14. ASSUME NEW p \in Promotions, Settle(p) PROVE CleanInv'
  <2> DEFINE s == ServiceOf[p]
  <2>1. /\ pc[p] \in {"passed", "rejected"} /\ row[p] # "HEALTHY"
        /\ pc'[p] = "ended"
        /\ \A q \in Promotions \ {p} : /\ pc'[q] = pc[q] /\ pc[q] \notin Active
                                       /\ row'[q] = row[q]
        /\ UNCHANGED <<live, journal, version>>
        /\ row'[p] = "HEALTHY" <=> pc[p] = "passed"
    BY <1>14, <1>a DEF Settle, Goto, TypeOK, VerdictIsLast, OneAtATime, dirVars, Active
  <2>2. NothingToRecover'
    BY <1>14, <1>e, <2>1 DEF Settle, Active, Uninterrupted
  <2>3. \A q \in Promotions : CleanOf(q)'
    BY <2>1 DEF CleanOf, InTransit, Active, Uninterrupted
  <2>4. \A t \in Services \ {s} : IsNewest(t, live[t])
    <3>1. \A t \in Services \ {s}, q \in Promotions : ServiceOf[q] = t => pc[q] \notin InTransit
      BY <2>1 DEF InTransit, Active, Uninterrupted
    <3>. QED
      BY <1>a, <3>1
  <2>5. \A t \in Services \ {s} : IsNewest(t, live[t])'
    <3>1. \A t \in Services \ {s} : HealthyOf(t)' = HealthyOf(t)
      BY <2>1 DEF HealthyOf
    <3>. QED
      BY <2>1, <2>4, <3>1 DEF IsNewest
  <2>6. IsNewest(s, live[s])'
    <3>1. CASE pc[p] = "passed"
      <4>1. live[s] = p /\ \A q \in Promotions \ {p} : version[q] < version[p]
        BY <1>a, <3>1 DEF ServedBy, CleanOf, Active
      <4>2. p \in HealthyOf(s)'
        BY <2>1, <3>1 DEF HealthyOf
      <4>3. \A q \in HealthyOf(s)' : q \in Promotions
        BY DEF HealthyOf
      <4>4. \A q \in Promotions : version[q] \in Nat
        BY DEF TypeOK
      <4>. QED
        BY <2>1, <4>1, <4>2, <4>3, <4>4 DEF IsNewest
    <3>2. CASE pc[p] = "rejected"
      <4>1. IsNewest(s, live[s])
        BY <1>b, <3>2 DEF InTransit, Active
      <4>2. HealthyOf(s)' = HealthyOf(s)
        BY <2>1, <3>2 DEF HealthyOf
      <4>. QED
        BY <2>1, <4>1, <4>2 DEF IsNewest
    <3>. QED
      BY <2>1, <3>1, <3>2
  <2>. QED
    BY <2>2, <2>3, <2>5, <2>6 DEF CleanInv
<1>15. ~Crash /\ \A ready \in BOOLEAN : ~Startup(ready)
  BY <1>0, <1>a DEF Crash, Startup, TypeOK
<1>16. ~RecoveryFails /\ \A p \in Promotions : ~CutoverFails(p) /\ ~RollbackFails(p) /\ ~CallFails(p)
  BY <1>0 DEF RecoveryFails, CutoverFails, RollbackFails, CallFails, Fault, TypeOK
<1>. QED
  BY <1>1, <1>2, <1>3, <1>4, <1>5, <1>6, <1>7, <1>8, <1>10, <1>11, <1>12, <1>13, <1>14,
     <1>15, <1>16 DEF Next, PromotionNext

\* Whatever is blocked, fails its tests or is rolled back: between promotions the
\* newest healthy release of every service is live.
THEOREM FailedPromotionsLeaveNoTrace == Spec => []LiveIsNewestHealthy
<1>1. Init => ServedInv /\ VerdictIsLast /\ CleanInv
  <2> HAVE Init
  <2>1. \A p \in Promotions : CleanOf(p)
    BY DEF Init, CleanOf, InTransit, Active, Uninterrupted
  <2>2. \A s \in Services : IsNewest(s, live[s])
    BY DEF Init, IsNewest, HealthyOf
  <2>. QED
    BY <2>1, <2>2 DEF Init, ServedInv, ServedBy, Supervised, VerdictIsLast, CleanInv, NothingToRecover
<1>2. TypeOK /\ SequentialInv /\ ServedInv /\ VerdictIsLast /\ CleanInv /\ [Next]_vars
        => ServedInv' /\ VerdictIsLast' /\ CleanInv'
  BY ServedStep, VerdictStep, CleanStep
<1>3. CleanInv => LiveIsNewestHealthy
  <2> SUFFICES ASSUME CleanInv, InProgress = {}, ~overlapped, crashes = 0, faults = 0,
                      NEW s \in Services
               PROVE  IsNewest(s, live[s])
    BY DEF LiveIsNewestHealthy, IsNewest
  <2>1. \A p \in Promotions : pc[p] \notin InTransit
    BY DEF InProgress, InTransit, Active, Uninterrupted
  <2>. QED
    BY <2>1 DEF CleanInv
<1>. QED
  BY <1>1, <1>2, <1>3, TypeSafety, JournalIsKept, PTL DEF Spec
=============================================================================
