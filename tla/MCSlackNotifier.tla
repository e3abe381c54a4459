--------------------------- MODULE MCSlackNotifier ---------------------------
(* Instances of SlackNotifier for TLC: the outbox rows and their order. *)
EXTENDS SlackNotifier

\* The quiet event is the newest in one instance and the oldest in the other.
Three == 1..3
Newest == {3}
Two == 1..2
Oldest == {1}
=============================================================================
