------------------------------ MODULE MCStartup ------------------------------
(* Two coordinators of the same image, and one of an older image in which the *)
(* first migration was edited; one of the first two runs in demo mode.        *)
EXTENDS Startup

CONSTANTS a, b, old

MCNewest == [c \in Coordinators |-> IF c = old THEN 2 ELSE 3]
MCDisk ==
  [c \in Coordinators |-> [v \in 1..3 |->
     IF c = old /\ v = 1 THEN "edited" ELSE "released"]]
=============================================================================
