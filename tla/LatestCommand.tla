---------------------------- MODULE LatestCommand ----------------------------
(***************************************************************************)
(* What the command heartbeat of the delta-pose client promises, whatever  *)
(* its threads do: the arm is given only the latest command, an overtaken  *)
(* one never follows a newer one, a command that is not replaced does get  *)
(* delivered, and nothing is delivered once commanding has ended.          *)
(***************************************************************************)
CONSTANTS
  Commands,  \* the pairs of a target pose and a gripper value
  NoCommand  \* no command is held; none of Commands

VARIABLES
  current,   \* the command to hold, or NoCommand
  delivered  \* the last pair given to the arm

vars == <<current, delivered>>

Init == current = NoCommand /\ delivered = NoCommand

Hold(c) ==
  /\ current' = c
  /\ UNCHANGED delivered

Release ==
  /\ current' = NoCommand
  /\ UNCHANGED delivered

Deliver ==
  /\ current # NoCommand
  /\ delivered' = current
  /\ UNCHANGED current

Next == (\E c \in Commands : Hold(c)) \/ Release \/ Deliver

SafeSpec == Init /\ [][Next]_vars
Spec == SafeSpec /\ WF_vars(Deliver)
===============================================================================
