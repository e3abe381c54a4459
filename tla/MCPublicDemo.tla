--------------------------- MODULE MCPublicDemo ---------------------------
(* Instances of PublicDemo for TLC: one contract of one provider. *)
EXTENDS PublicDemo, TLC

CONSTANTS c1, s1

OneContract == (c1 :> s1)
Manual == {FALSE}
=============================================================================
