---------------------------- MODULE Interventions ----------------------------
(***************************************************************************)
(* What the coordinator promises the agents that work on a consumer, with  *)
(* nothing of how it keeps it: no inbox, no drift rows, no plans and no    *)
(* approvals.  A change that needs an intervention is announced; it may    *)
(* halt tasks that are under way, any number of them in one step; a halted *)
(* task goes no further until all its interventions are settled, which one *)
(* step does for all of them; a settled task is not interrupted again.     *)
(***************************************************************************)
CONSTANTS
  Tasks,
  Changes    \* changes that need an intervention

VARIABLES
  announced, \* the changes that have been announced
  phase,     \* of each task
  open       \* the changes each task has still to answer

mesh == <<announced, phase, open>>

Phases == {"ABSENT", "RUNNING", "HALTED", "SETTLED"}

Init ==
  /\ announced = {}
  /\ phase = [t \in Tasks |-> "ABSENT"]
  /\ open = [t \in Tasks |-> {}]

Announce ==
  /\ \E new \in SUBSET Changes : announced' = announced \cup new
  /\ UNCHANGED <<phase, open>>

Join(t) ==
  /\ phase[t] = "ABSENT"
  /\ phase' = [phase EXCEPT ![t] = "RUNNING"]
  /\ UNCHANGED <<announced, open>>

UnderWay == { t \in Tasks : phase[t] \in {"RUNNING", "HALTED"} }

Interrupt(c) ==
  /\ c \in announced
  /\ \E halted \in SUBSET UnderWay :
       /\ phase' = [t \in Tasks |-> IF t \in halted THEN "HALTED" ELSE phase[t]]
       /\ open' = [t \in Tasks |-> IF t \in halted THEN open[t] \cup {c} ELSE open[t]]
  /\ UNCHANGED announced

\* A task may ask for a new plan of its own accord.
Halt(t) ==
  /\ phase[t] = "RUNNING"
  /\ phase' = [phase EXCEPT ![t] = "HALTED"]
  /\ UNCHANGED <<announced, open>>

Settle(t) ==
  /\ phase[t] = "HALTED" /\ open[t] # {}
  /\ phase' = [phase EXCEPT ![t] = "SETTLED"]
  /\ open' = [open EXCEPT ![t] = {}]
  /\ UNCHANGED announced

Finish(t) ==
  /\ phase[t] = "RUNNING" /\ open[t] = {}
  /\ phase' = [phase EXCEPT ![t] = "SETTLED"]
  /\ UNCHANGED <<announced, open>>

Next ==
  \/ Announce
  \/ \E c \in Changes : Interrupt(c)
  \/ \E t \in Tasks : Join(t) \/ Halt(t) \/ Settle(t) \/ Finish(t)

Spec == Init /\ [][Next]_mesh
=============================================================================
