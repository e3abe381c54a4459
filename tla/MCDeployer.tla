----------------------------- MODULE MCDeployer -----------------------------
(* Instances of Deployer for TLC: which service each promotion is for. *)
EXTENDS Deployer, TLC

CONSTANTS p1, p2, p3, s1, s2

\* Two promotions of one service and one of another.
TwoAndOne == (p1 :> s1) @@ (p2 :> s1) @@ (p3 :> s2)

Symmetry == Permutations({p1, p2})
=============================================================================
