-------------------------- MODULE MCReconciliation --------------------------
(* Instances of Reconciliation for TLC: who provides which contract. *)
EXTENDS Reconciliation, TLC

CONSTANTS c1, c2, s1, s2

\* One contract, or two of one provider: then one rebinding concerns both.
OneContract == (c1 :> s1)
OneProvider == (c1 :> s1) @@ (c2 :> s1)

\* The default deployment (DEMO_AUTO_RECONCILE is false), and any.
Manual == {FALSE}
Either == {TRUE, FALSE}

\* Tasks, workers and event ids start alike and are never ordered; a task in
\* Runners is set apart, so instances with a runner leave the tasks out.
Symmetry == Permutations(Tasks) \cup Permutations(Workers) \cup Permutations(Events)
RunnerSymmetry == Permutations(Workers) \cup Permutations(Events)
=============================================================================
