------------------------- MODULE MCCompatibilityWork -------------------------
(* Instances of CompatibilityWork for TLC. *)
EXTENDS CompatibilityWork, TLC

CONSTANTS i1, i2

\* Two obligations of the same dependency, for the next two revisions.
OneItem  == (i1 :> 2)
TwoItems == (i1 :> 2) @@ (i2 :> 3)

\* Items differ by their revision; harnesses of one kind and dispatchers do not.
Symmetry == Permutations(Webhooks) \cup Permutations(Harnesses \ Webhooks)
              \cup Permutations(Dispatchers)
=============================================================================
