-------------------------- MODULE MCStateBroadcaster --------------------------
(* Attempts from a negative number to two, three updates per configuration.  *)
EXTENDS StateBroadcaster

MCTryCounts == -1..2
=============================================================================
