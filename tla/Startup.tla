------------------------------- MODULE Startup -------------------------------
(***************************************************************************)
(* Coordinators starting against one database: lifespan (coordinator/      *)
(* app.py) runs init_db, which reads the ledger of applied migrations,     *)
(* compares checksums and applies what is missing in the order of the      *)
(* files, each script in one transaction with its ledger row.  Nothing     *)
(* keeps two coordinators, perhaps of different images, from doing so at   *)
(* once; the primary key of the ledger is what decides.                    *)
(*                                                                         *)
(* The database is external: a transaction's script and its row are taken  *)
(* to commit together, and a client may lose the reply to a commit.  The   *)
(* recovery of an interrupted cutover is the Deployer's; here it succeeds  *)
(* or fails.                                                               *)
(***************************************************************************)
EXTENDS Integers

CONSTANTS
  Coordinators,  \* processes, each of one image
  MaxVersion,    \* the newest migration of all images
  Newest,        \* the newest migration of each image; it has them all to there
  Disk,          \* checksum of each migration file of an image
  Checksums,
  Demo,          \* coordinators in demo mode, which start whatever fails
  MaxFaults,     \* bound: database faults, failed recoveries and crashes
  NotApplied

Versions == 1..MaxVersion

ASSUME StartupAssumption ==
  /\ MaxVersion \in Nat /\ Newest \in [Coordinators -> 0..MaxVersion]
  /\ Demo \subseteq Coordinators
  /\ Disk \in [Coordinators -> [Versions -> Checksums]]
  /\ NotApplied \notin Checksums /\ MaxFaults \in Nat

VARIABLES
  ledger,  \* schema_migrations: the checksum of each applied version
  ran,     \* how often the script of a version took effect
  phase,   \* of each coordinator's lifespan
  seen,    \* the ledger as its get_applied_migrations read it
  next,    \* the migration file its loop is at
  faults   \* mishaps so far

vars == <<ledger, ran, phase, seen, next, faults>>

StartupTypeOK ==
  /\ ledger \in [Versions -> Checksums \cup {NotApplied}]
  /\ ran \in [Versions -> Nat]
  /\ phase \in [Coordinators -> {"DOWN", "READING", "MIGRATING", "RECOVERING", "SERVING"}]
  /\ seen \in [Coordinators -> [Versions -> Checksums \cup {NotApplied}]]
  /\ next \in [Coordinators -> Nat]
  /\ \A c \in Coordinators : next[c] \in 1..(Newest[c] + 1)
  /\ faults \in 0..MaxFaults

Goto(c, p) == phase' = [phase EXCEPT ![c] = p]

\* An exception in a step of lifespan: logged and passed over in demo mode, the
\* end of the process otherwise.
GiveUp(c, afterwards) == Goto(c, IF c \in Demo THEN afterwards ELSE "DOWN")

Mishap == faults < MaxFaults /\ faults' = faults + 1

Pending(c) == phase[c] = "MIGRATING" /\ next[c] <= Newest[c]

-----------------------------------------------------------------------------
(* One coordinator. *)

Start(c) ==
  /\ phase[c] = "DOWN"
  /\ Goto(c, "READING")
  /\ UNCHANGED <<ledger, ran, seen, next, faults>>

\* Variant: the applied versions are read once and kept for later starts.
ReadOnce(c) ==
  /\ phase[c] = "READING"
  /\ seen' = IF next[c] = 1 THEN [seen EXCEPT ![c] = ledger] ELSE seen
  /\ next' = [next EXCEPT ![c] = 1]
  /\ Goto(c, "MIGRATING")
  /\ UNCHANGED <<ledger, ran, faults>>

ReadLedger(c) ==
  /\ phase[c] = "READING"
  /\ seen' = [seen EXCEPT ![c] = ledger]
  /\ next' = [next EXCEPT ![c] = 1]
  /\ Goto(c, "MIGRATING")
  /\ UNCHANGED <<ledger, ran, faults>>

\* A version of the snapshot is passed over if the file has not changed.
Skip(c) ==
  /\ Pending(c) /\ seen[c][next[c]] = Disk[c][next[c]]
  /\ next' = [next EXCEPT ![c] = @ + 1]
  /\ UNCHANGED <<ledger, ran, phase, seen, faults>>

RejectChecksum(c) ==
  /\ Pending(c) /\ seen[c][next[c]] \notin {NotApplied, Disk[c][next[c]]}
  /\ GiveUp(c, "RECOVERING")
  /\ UNCHANGED <<ledger, ran, seen, next, faults>>

Missing(c) == Pending(c) /\ seen[c][next[c]] = NotApplied

\* Variant: the script commits on its own, before its row is inserted.
CommitFirst(c) ==
  /\ ran' = [ran EXCEPT ![next[c]] = @ + 1]
  /\ ledger' = [ledger EXCEPT ![next[c]] = IF @ = NotApplied THEN Disk[c][next[c]] ELSE @]

\* The transaction of one script: its effects and its row.
Commit(c) ==
  /\ ledger[next[c]] = NotApplied
  /\ ledger' = [ledger EXCEPT ![next[c]] = Disk[c][next[c]]]
  /\ ran' = [ran EXCEPT ![next[c]] = @ + 1]

Apply(c) ==
  /\ Missing(c) /\ Commit(c)
  /\ next' = [next EXCEPT ![c] = @ + 1]
  /\ UNCHANGED <<phase, seen, faults>>

\* Variant: a version that another coordinator has just applied is passed over.
TakeForApplied(c) ==
  /\ Missing(c) /\ ledger[next[c]] # NotApplied
  /\ next' = [next EXCEPT ![c] = @ + 1]
  /\ UNCHANGED <<ledger, ran, phase, seen, faults>>

\* The row exists by now: the insert violates the primary key.
LoseRace(c) ==
  /\ Missing(c) /\ ledger[next[c]] # NotApplied
  /\ GiveUp(c, "RECOVERING")
  /\ UNCHANGED <<ledger, ran, seen, next, faults>>

\* Any statement may fail, and the reply to a commit may be lost.
Fault(c) ==
  /\ phase[c] \in {"READING", "MIGRATING"} /\ Mishap
  /\ GiveUp(c, "RECOVERING")
  /\ \/ UNCHANGED <<ledger, ran>>
     \/ Missing(c) /\ Commit(c)
  /\ UNCHANGED <<seen, next>>

InitDone(c) ==
  /\ phase[c] = "MIGRATING" /\ next[c] > Newest[c]
  /\ Goto(c, "RECOVERING")
  /\ UNCHANGED <<ledger, ran, seen, next, faults>>

\* Cutover recovery, then the workers are spawned and requests are served.
Serve(c) ==
  /\ phase[c] = "RECOVERING"
  /\ Goto(c, "SERVING")
  /\ UNCHANGED <<ledger, ran, seen, next, faults>>

RecoveryFails(c) ==
  /\ phase[c] = "RECOVERING" /\ Mishap
  /\ GiveUp(c, "SERVING")
  /\ UNCHANGED <<ledger, ran, seen, next>>

\* A crash, or the orderly shutdown of one that serves.
Halt(c) ==
  /\ phase[c] # "DOWN"
  /\ Mishap
  /\ Goto(c, "DOWN")
  /\ UNCHANGED <<ledger, ran, seen, next>>

-----------------------------------------------------------------------------
Init ==
  /\ ledger = [v \in Versions |-> NotApplied]
  /\ ran = [v \in Versions |-> 0]
  /\ phase = [c \in Coordinators |-> "DOWN"]
  /\ seen = [c \in Coordinators |-> [v \in Versions |-> NotApplied]]
  /\ next = [c \in Coordinators |-> 1]
  /\ faults = 0

\* What lifespan does by itself, once the process is started.
Proceed(c) ==
  \/ ReadLedger(c) \/ Skip(c) \/ RejectChecksum(c) \/ Apply(c) \/ LoseRace(c)
  \/ InitDone(c) \/ Serve(c)

Next ==
  \E c \in Coordinators :
    Start(c) \/ Proceed(c) \/ Fault(c) \/ RecoveryFails(c) \/ Halt(c)

\* A process runs on, and somebody starts a coordinator that is down again.
FairStartup ==
  /\ Init /\ [][Next]_vars
  /\ \A c \in Coordinators : WF_vars(Start(c)) /\ WF_vars(Proceed(c))

-----------------------------------------------------------------------------
(* Properties. *)

\* However many coordinators start at once, fail or die, the script of a
\* recorded version took effect exactly once, of an unrecorded one never, and
\* no version is recorded before those it builds on.
MigrationsRunOnceInOrder ==
  \A v \in Versions :
    /\ ran[v] = (IF ledger[v] = NotApplied THEN 0 ELSE 1)
    /\ ledger[v] # NotApplied => \A u \in 1..(v - 1) : ledger[u] # NotApplied

\* A coordinator outside demo mode serves on the schema its own files make:
\* every one of them is recorded, with the checksum of its file.
ServedSchemaIsOwn ==
  \A c \in Coordinators \ Demo : phase[c] = "SERVING" =>
    \A v \in 1..Newest[c] : ledger[v] = Disk[c][v]

\* A lost race is not fatal: a coordinator whose files agree with the ledger
\* gets to serve again and again, whoever applied the versions.
AgreeingCoordinatorsServe ==
  \A c \in Coordinators :
    [](\A v \in 1..Newest[c] : ledger[v] \in {NotApplied, Disk[c][v]}) =>
      []<>(phase[c] = "SERVING")
=============================================================================
