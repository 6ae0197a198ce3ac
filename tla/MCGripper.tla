------------------------------ MODULE MCGripper -----------------------------
(* Goals for GripperExample: those of the controller first, then those of   *)
(* others.  The second set leaves all of them to the controller, enough for *)
(* two activations beside the goals of the first.                           *)
EXTENDS GripperExample
MCGoals == 1..3
MCExampleGoals == 1..2
MCClientKinds == {"command"}
AgainGoals == 1..4
=============================================================================
