---------------------------- MODULE GraspEpisode ----------------------------
(***************************************************************************)
(* What one deployment of the delta-pose client does to the gripper, seen  *)
(* from outside: at most one grasp, closed without interruption until its  *)
(* width and its lift are confirmed, opened only after that, and reported  *)
(* as completed only after the opening.                                    *)
(***************************************************************************)
VARIABLES
  stage,   \* how far the episode has come
  fingers  \* the command the gripper is held at

vars == <<stage, fingers>>

Init ==
  /\ stage = "approach"
  /\ fingers \in {"open", "closed"}

\* A run that starts with closed fingers may open them before its grasp.
Empty ==
  /\ stage = "approach"
  /\ fingers' = "open"
  /\ UNCHANGED stage

Close ==
  /\ stage = "approach"
  /\ fingers = "open"
  /\ fingers' = "closed"
  /\ stage' = "closing"

Validate ==
  /\ stage = "closing"
  /\ stage' = "lifting"
  /\ UNCHANGED fingers

Confirm ==
  /\ stage \in {"closing", "lifting"}
  /\ stage' = "holding"
  /\ UNCHANGED fingers

Release ==
  /\ stage = "holding"
  /\ fingers' = "open"
  /\ stage' = "releasing"

Complete ==
  /\ stage = "releasing"
  /\ stage' = "completed"
  /\ UNCHANGED fingers

\* Any failure, or the end of the steps, ends the episode.
End ==
  /\ stage # "completed"
  /\ stage' = "ended"
  /\ UNCHANGED fingers

Next == Empty \/ Close \/ Validate \/ Confirm \/ Release \/ Complete \/ End

Spec == Init /\ [][Next]_vars
===============================================================================
