------------------------------ MODULE Deployer ------------------------------
(***************************************************************************)
(* promote_deployment: the compatibility gate, the snapshot and its tests, *)
(* the journaled cutover of the staged, live and backup directories of a   *)
(* service, the restart, the readiness poll and the rollback; the journal  *)
(* recovery that runs at startup and before every promotion; crashes of    *)
(* the coordinator and failing file or database operations.                *)
(*                                                                         *)
(* Promotions are coroutines of one event loop.  What one of them does     *)
(* between two awaits is not interleaved with the others but may be cut    *)
(* off by a crash, so each file operation of such a section is an action   *)
(* of its own and Turn(p) keeps the others out of it.                      *)
(***************************************************************************)
EXTENDS Integers, FiniteSets

CONSTANTS
  Services,      \* ALLOWED_SERVICES
  Fresh,         \* the services that have no live directory yet
  Promotions,    \* calls of promote_deployment, and the releases they stage
  ServiceOf,     \* the service each call promotes
  MaxOverlap,    \* bound: promotions in progress at once
  MaxCrashes,    \* bound: crashes of the coordinator
  MaxFaults,     \* bound: failing file and database operations
  Initial,       \* the release that was live before
  Checkout,      \* the working copy of the service under repos/
  Partial,       \* a directory that rmtree removed only in part
  NoDir, NoJournal

Releases == Promotions \cup {Initial, Partial}
Directories == Releases \cup {NoDir}

Journals == [of : Promotions, state : {"IN_PROGRESS", "UNRECOVERABLE"}]

\* Sections without an await, one label per file operation to come.
Uninterrupted == {"staged", "intended", "cleared", "moved", "removing", "removed"}

Active == Uninterrupted \cup {"allocating", "allocated", "starting", "polling",
                              "passed", "rejected"}

ASSUME ServicesAssumption ==
  /\ ServiceOf \in [Promotions -> Services]
  /\ IsFiniteSet(Promotions)

ASSUME NamesAssumption ==
  /\ {Initial, Checkout, Partial, NoDir} \cap Promotions = {}
  /\ Initial # Partial /\ Initial # NoDir /\ Partial # NoDir
  /\ Checkout \notin Directories
  /\ NoJournal \notin Journals

ASSUME BoundsAssumption == MaxOverlap \in Nat /\ MaxCrashes \in Nat /\ MaxFaults \in Nat

VARIABLES
  live,        \* per service: deployments/live
  backup,      \* per service: deployments/backup
  staged,      \* promotions whose snapshot is whole and in deployments/staged
  journal,     \* .cutover_journal.json, one file for all services
  row,         \* deployments.status
  version,     \* deployments.reload_version, 0 for no row
  pc,          \* where each call of promote_deployment is
  prior,       \* calls that found a live directory (has_prior_live)
  tested,      \* calls whose snapshot passed the test gate
  serving,     \* per service: what the process on its port was started from
  owned,       \* services whose process the supervisor knows
  up,          \* is the coordinator running?
  overlapped,  \* history: did a promotion begin while another was in progress?
  crashes, faults

dirVars == <<live, backup, staged>>
rowVars == <<row, version>>
processVars == <<serving, owned>>
boundVars == <<overlapped, crashes>>
vars == <<live, backup, staged, journal, row, version, pc, prior, tested,
          serving, owned, up, overlapped, crashes, faults>>

InProgress == { p \in Promotions : pc[p] \in Active }

Turn(p) == up /\ \A q \in Promotions \ {p} : pc[q] \notin Uninterrupted

Goto(p, label) == pc' = [pc EXCEPT ![p] = label]

Fault == faults < MaxFaults /\ faults' = faults + 1

-----------------------------------------------------------------------------
(* Journal recovery and supervision. *)

\* recover_if_needed of an IN_PROGRESS journal.
Restore(p) ==
  LET s == ServiceOf[p] IN
  /\ live' = [live EXCEPT ![s] = IF @ # NoDir THEN @
                                 ELSE IF backup[s] # NoDir THEN backup[s]
                                 ELSE IF p \in staged THEN p ELSE NoDir]
  /\ backup' = IF live[s] = NoDir THEN [backup EXCEPT ![s] = NoDir] ELSE backup
  /\ staged' = IF live[s] = NoDir /\ backup[s] = NoDir THEN staged \ {p} ELSE staged

\* An UNRECOVERABLE journal makes the caller raise instead.
Recover ==
  \/ journal = NoJournal /\ UNCHANGED <<dirVars, journal>>
  \/ /\ journal # NoJournal /\ journal.state = "IN_PROGRESS"
     /\ Restore(journal.of)
     /\ journal' = NoJournal

\* The rename of the recovery fails, at startup or in a promotion about to
\* begin; either raises, and does so until an operator removes the journal.
RecoveryFails ==
  /\ \A p \in Promotions : pc[p] \notin Uninterrupted
  /\ journal # NoJournal /\ journal.state = "IN_PROGRESS"
  /\ live[ServiceOf[journal.of]] = NoDir
  /\ backup[ServiceOf[journal.of]] # NoDir \/ journal.of \in staged
  /\ Fault
  /\ journal' = [of |-> journal.of, state |-> "UNRECOVERABLE"]
  /\ UNCHANGED <<dirVars, rowVars, pc, prior, tested, processVars, up, boundVars>>

\* What a process started from a service's directory runs: without a directory
\* it is the working copy.
CodeIn(dir) == IF dir = NoDir THEN Checkout ELSE dir

\* Variant: start_service without the stop finds the service running.
StartOnly(s, dir) ==
  /\ serving' = IF serving[s] = NoDir THEN [serving EXCEPT ![s] = CodeIn(dir)] ELSE serving
  /\ owned' = IF serving[s] = NoDir THEN owned \cup {s} ELSE owned

\* restart_service.  A process the supervisor does not know keeps the port, so
\* the new one exits at once.
StartFrom(s, dir) ==
  IF s \in owned \/ serving[s] = NoDir
  THEN serving' = [serving EXCEPT ![s] = CodeIn(dir)] /\ owned' = owned \cup {s}
  ELSE UNCHANGED processVars

-----------------------------------------------------------------------------
(* Promotion: from the gate to the snapshot. *)

Begin(p) ==
  /\ Turn(p) /\ pc[p] = "idle"
  /\ Cardinality(InProgress) < MaxOverlap
  /\ Recover
  /\ overlapped' = (overlapped \/ InProgress # {})
  /\ Goto(p, "allocating")
  /\ UNCHANGED <<rowVars, prior, tested, processVars, up, crashes, faults>>

\* MAX(reload_version) + 1.
IsNextVersion(v) ==
  /\ \A q \in Promotions : version[q] < v
  /\ v = 1 \/ \E q \in Promotions : version[q] = v - 1

\* The gate and the version allocation are one transaction; a blocked
\* deployment is recorded as FAILED.
Allocate(p, blocked) ==
  /\ Turn(p) /\ pc[p] = "allocating"
  /\ \E v \in 1..Cardinality(Promotions) :
       IsNextVersion(v) /\ version' = [version EXCEPT ![p] = v]
  /\ row' = [row EXCEPT ![p] = IF blocked THEN "FAILED" ELSE "VALIDATING"]
  /\ Goto(p, IF blocked THEN "ended" ELSE "allocated")
  /\ UNCHANGED <<dirVars, journal, prior, tested, processVars, up, boundVars, faults>>

\* Variant: the snapshot goes on whatever its tests say.
StageAnyway(p, passed) ==
  /\ Turn(p) /\ pc[p] = "allocated"
  /\ staged' = staged \cup {p}
  /\ tested' = IF passed THEN tested \cup {p} ELSE tested
  /\ Goto(p, "staged")
  /\ UNCHANGED <<live, backup, journal, rowVars, prior, processVars, up, boundVars, faults>>

\* extract_commit_snapshot and run_service_test_gate; neither awaits.
Stage(p, passed) ==
  /\ Turn(p) /\ pc[p] = "allocated"
  /\ IF passed THEN staged' = staged \cup {p} /\ tested' = tested \cup {p}
               ELSE UNCHANGED <<staged, tested>>
  /\ Goto(p, IF passed THEN "staged" ELSE "rejected")
  /\ UNCHANGED <<live, backup, journal, rowVars, prior, processVars, up, boundVars, faults>>

-----------------------------------------------------------------------------
(* Promotion: the cutover. *)

\* Variant: the directories are moved without a record of the intent.
IntendUnrecorded(p) ==
  /\ Turn(p) /\ pc[p] = "staged"
  /\ prior' = IF live[ServiceOf[p]] # NoDir THEN prior \cup {p} ELSE prior \ {p}
  /\ Goto(p, "intended")
  /\ UNCHANGED <<dirVars, journal, rowVars, tested, processVars, up, boundVars, faults>>

\* record_intent replaces whatever the journal said.
Intend(p) ==
  /\ Turn(p) /\ pc[p] = "staged"
  /\ prior' = IF live[ServiceOf[p]] # NoDir THEN prior \cup {p} ELSE prior \ {p}
  /\ journal' = [of |-> p, state |-> "IN_PROGRESS"]
  /\ Goto(p, "intended")
  /\ UNCHANGED <<dirVars, rowVars, tested, processVars, up, boundVars, faults>>

ClearBackup(p) ==
  /\ Turn(p) /\ pc[p] = "intended"
  /\ backup' = IF p \in prior THEN [backup EXCEPT ![ServiceOf[p]] = NoDir] ELSE backup
  /\ Goto(p, IF p \in prior THEN "cleared" ELSE "moved")
  /\ UNCHANGED <<live, staged, journal, rowVars, prior, tested, processVars, up, boundVars, faults>>

MoveLive(p) ==
  /\ Turn(p) /\ pc[p] = "cleared"
  /\ backup' = [backup EXCEPT ![ServiceOf[p]] = live[ServiceOf[p]]]
  /\ live' = [live EXCEPT ![ServiceOf[p]] = NoDir]
  /\ Goto(p, "moved")
  /\ UNCHANGED <<staged, journal, rowVars, prior, tested, processVars, up, boundVars, faults>>

MoveStaged(p) ==
  /\ Turn(p) /\ pc[p] = "moved"
  /\ live' = [live EXCEPT ![ServiceOf[p]] = p]
  /\ staged' = staged \ {p}
  /\ Goto(p, "starting")
  /\ UNCHANGED <<backup, journal, rowVars, prior, tested, processVars, up, boundVars, faults>>

\* A file operation of the cutover raises.  The handler moves the backup back
\* when the live directory is gone; it clears the journal when that worked or
\* when there was nothing to restore.
CutoverFails(p) ==
  LET s == ServiceOf[p] IN
  /\ Turn(p) /\ pc[p] \in {"intended", "cleared", "moved"}
  /\ Fault
  /\ \/ /\ pc[p] = "intended" /\ p \in prior /\ backup[s] # NoDir
        /\ backup' \in {backup, [backup EXCEPT ![s] = Partial]}
        /\ UNCHANGED <<live, journal>>
     \/ /\ pc[p] = "cleared"
        /\ UNCHANGED <<live, backup, journal>>
     \/ /\ pc[p] = "moved" /\ p \in prior
        /\ live' = [live EXCEPT ![s] = backup[s]]
        /\ backup' = [backup EXCEPT ![s] = NoDir]
        /\ journal' = NoJournal
     \/ /\ pc[p] = "moved" /\ p \in prior
        /\ journal' = [of |-> p, state |-> "UNRECOVERABLE"]
        /\ UNCHANGED <<live, backup>>
     \/ /\ pc[p] = "moved" /\ p \notin prior
        /\ journal' = NoJournal
        /\ UNCHANGED <<live, backup>>
  /\ Goto(p, "rejected")
  /\ UNCHANGED <<staged, rowVars, prior, tested, processVars, up, boundVars>>

-----------------------------------------------------------------------------
(* Promotion: restart, poll, rollback, verdict. *)

Restart(p) ==
  /\ Turn(p) /\ pc[p] = "starting"
  /\ StartFrom(ServiceOf[p], live[ServiceOf[p]])
  /\ Goto(p, "polling")
  /\ UNCHANGED <<dirVars, journal, rowVars, prior, tested, up, boundVars, faults>>

\* Variant: an unhealthy release is reported and left where it is.
PollOnly(p, healthy) ==
  /\ Turn(p) /\ pc[p] = "polling"
  /\ Goto(p, IF healthy THEN "passed" ELSE "rejected")
  /\ UNCHANGED <<dirVars, journal, rowVars, prior, tested, processVars, up, boundVars, faults>>

\* poll_service_readiness asks whatever process answers on the port.
Poll(p, healthy) ==
  /\ Turn(p) /\ pc[p] = "polling"
  /\ Goto(p, IF healthy THEN "passed"
             ELSE IF p \in prior /\ backup[ServiceOf[p]] # NoDir THEN "removing"
             ELSE "rejected")
  /\ UNCHANGED <<dirVars, journal, rowVars, prior, tested, processVars, up, boundVars, faults>>

RemoveLive(p) ==
  /\ Turn(p) /\ pc[p] = "removing"
  /\ live' = [live EXCEPT ![ServiceOf[p]] = NoDir]
  /\ Goto(p, "removed")
  /\ UNCHANGED <<backup, staged, journal, rowVars, prior, tested, processVars, up, boundVars, faults>>

RestoreBackup(p) ==
  /\ Turn(p) /\ pc[p] = "removed"
  /\ live' = [live EXCEPT ![ServiceOf[p]] = backup[ServiceOf[p]]]
  /\ backup' = [backup EXCEPT ![ServiceOf[p]] = NoDir]
  /\ StartFrom(ServiceOf[p], backup[ServiceOf[p]])
  /\ Goto(p, "rejected")
  /\ UNCHANGED <<staged, journal, rowVars, prior, tested, up, boundVars, faults>>

\* rmtree ignores its errors and the rename to what is left raises, or the
\* rename raises after a complete rmtree: the call ends without a verdict.
RollbackFails(p) ==
  /\ Turn(p) /\ pc[p] \in {"removing", "removed"}
  /\ Fault
  /\ live' = IF pc[p] = "removing" THEN [live EXCEPT ![ServiceOf[p]] = Partial] ELSE live
  /\ Goto(p, "ended")
  /\ UNCHANGED <<backup, staged, journal, rowVars, prior, tested, processVars, up, boundVars>>

\* The final transaction, or _mark_deployment_failed_with_outbox.
Settle(p) ==
  /\ Turn(p) /\ pc[p] \in {"passed", "rejected"}
  /\ row' = [row EXCEPT ![p] = IF pc[p] = "passed" THEN "HEALTHY" ELSE "FAILED"]
  /\ Goto(p, "ended")
  /\ UNCHANGED <<dirVars, journal, version, prior, tested, processVars, up, boundVars, faults>>

\* A transaction, the write of the journal or the start of the process raises.
CallFails(p) ==
  /\ Turn(p) /\ pc[p] \in {"allocating", "staged", "starting", "passed", "rejected"}
  /\ Fault
  /\ Goto(p, "ended")
  /\ UNCHANGED <<dirVars, journal, rowVars, prior, tested, processVars, up, boundVars>>

-----------------------------------------------------------------------------
(* Crash and startup. *)

\* A crash may interrupt an rmtree.
HalfRemoved ==
  \/ UNCHANGED <<live, backup>>
  \/ \E p \in prior : /\ pc[p] = "intended" /\ backup[ServiceOf[p]] # NoDir
                      /\ backup' = [backup EXCEPT ![ServiceOf[p]] = Partial]
                      /\ UNCHANGED live
  \/ \E p \in prior : /\ pc[p] = "removing"
                      /\ live' = [live EXCEPT ![ServiceOf[p]] = Partial]
                      /\ UNCHANGED backup

\* The services' processes survive a crash of the coordinator alone, and then
\* its supervisor no longer knows them; a shutdown stops them.
Crash ==
  /\ up /\ crashes < MaxCrashes
  /\ up' = FALSE /\ crashes' = crashes + 1
  /\ pc' = [p \in Promotions |-> IF pc[p] \in Active THEN "ended" ELSE pc[p]]
  /\ HalfRemoved
  /\ serving' \in {serving, [s \in Services |-> NoDir]}
  /\ owned' = {}
  /\ UNCHANGED <<staged, journal, rowVars, prior, tested, overlapped, faults>>

\* lifespan outside demo mode: recover, start the recovered service and wait
\* for it; when it is not ready the startup raises, and what it started is left
\* running or not.
Startup(ready) ==
  /\ ~up
  /\ Recover
  /\ up' = (ready \/ journal = NoJournal)
  /\ IF journal = NoJournal THEN UNCHANGED processVars
     ELSE LET s == ServiceOf[journal.of] IN
          \/ ready /\ StartFrom(s, live'[s])
          \/ /\ ~ready
             /\ serving' \in {serving, [serving EXCEPT ![s] = IF @ = NoDir THEN CodeIn(live'[s]) ELSE @]}
             /\ UNCHANGED owned
  /\ UNCHANGED <<rowVars, pc, prior, tested, boundVars, faults>>

-----------------------------------------------------------------------------

Init ==
  /\ live = [s \in Services |-> IF s \in Fresh THEN NoDir ELSE Initial]
  /\ backup = [s \in Services |-> NoDir]
  /\ staged = {}
  /\ journal = NoJournal
  /\ row = [p \in Promotions |-> "NONE"]
  /\ version = [p \in Promotions |-> 0]
  /\ pc = [p \in Promotions |-> "idle"]
  /\ prior = {} /\ tested = {}
  /\ serving = [s \in Services |-> NoDir] /\ owned = {}
  /\ up = TRUE /\ overlapped = FALSE
  /\ crashes = 0 /\ faults = 0

PromotionNext ==
  \E p \in Promotions :
    \/ Begin(p) \/ Intend(p) \/ ClearBackup(p) \/ MoveLive(p) \/ MoveStaged(p)
    \/ \E b \in BOOLEAN : Allocate(p, b) \/ Stage(p, b) \/ Poll(p, b)
    \/ Restart(p) \/ RemoveLive(p) \/ RestoreBackup(p) \/ Settle(p)
    \/ CutoverFails(p) \/ RollbackFails(p) \/ CallFails(p)

Next ==
  \/ PromotionNext
  \/ RecoveryFails \/ Crash
  \/ \E ready \in BOOLEAN : Startup(ready)

Spec == Init /\ [][Next]_vars
-----------------------------------------------------------------------------
(* Properties. *)

\* The directories, the journal, the rows and the locals hold values of their
\* types.
TypeOK ==
  /\ live \in [Services -> Directories] /\ backup \in [Services -> Directories]
  /\ staged \subseteq Promotions
  /\ journal \in Journals \cup {NoJournal}
  /\ row \in [Promotions -> {"NONE", "VALIDATING", "HEALTHY", "FAILED"}]
  /\ version \in [Promotions -> Nat]
  /\ pc \in [Promotions -> Active \cup {"idle", "ended"}]
  /\ prior \subseteq Promotions /\ tested \subseteq Promotions
  /\ serving \in [Services -> Directories \cup {Checkout}] /\ owned \subseteq Services
  /\ up \in BOOLEAN /\ overlapped \in BOOLEAN
  /\ crashes \in 0..MaxCrashes /\ faults \in 0..MaxFaults

\* Whatever is live, kept as a backup or running passed the test gate of its
\* own service: no recovery, rollback or overlap of promotions lets another
\* snapshot through (deployer.py:1032-1058, 282-296, 1125-1132).
ReleasesPassTheirGate ==
  \A s \in Services : \A r \in {live[s], backup[s], serving[s]} \cap Promotions :
    r \in tested /\ ServiceOf[r] = s

\* Write-ahead: as long as promotions do not overlap, a service whose live
\* directory is missing is named by the journal, and its backup or staged
\* directory is there to recover from, whatever crashes and failing renames
\* led there (deployer.py:190).
JournalCoversMissingLive ==
  ~overlapped =>
    \A s \in Services \ Fresh :
      live[s] = NoDir =>
        /\ journal # NoJournal
        /\ ServiceOf[journal.of] = s
        /\ backup[s] # NoDir

\* A promotion reported HEALTHY polled its own release, as long as no crash has
\* left a process behind and promotions do not overlap (deployer.py:1112-1122).
HealthyReleasesAreServed ==
  [][~overlapped /\ crashes = 0 =>
       \A p \in Promotions :
         row[p] # "HEALTHY" /\ row'[p] = "HEALTHY"
           => live[ServiceOf[p]] = p /\ serving[ServiceOf[p]] = p]_vars

HealthyOf(s) == { p \in Promotions : ServiceOf[p] = s /\ row[p] = "HEALTHY" }

\* Between promotions the newest healthy release of a service is live, or the
\* one it started with: a failed promotion leaves no trace, as long as nothing
\* crashes, fails or overlaps (deployer.py:1060-1148).
LiveIsNewestHealthy ==
  InProgress = {} /\ ~overlapped /\ crashes = 0 /\ faults = 0 =>
    \A s \in Services :
      /\ \A p \in HealthyOf(s) :
           (\A q \in HealthyOf(s) : version[q] <= version[p]) => live[s] = p
      /\ HealthyOf(s) = {} /\ s \notin Fresh => live[s] = Initial
=============================================================================
