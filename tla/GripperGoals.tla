---------------------------- MODULE GripperGoals ----------------------------
(***************************************************************************)
(* What the gripper action server promises of every goal: it is accepted,  *)
(* may be asked to cancel, and then gets exactly one result; "canceled"    *)
(* only if it was asked to.  While the server serves, no goal waits for    *)
(* ever.                                                                   *)
(***************************************************************************)
CONSTANT Goals
VARIABLES goal, serving

Live == {"executing", "canceling"}
Over == {"succeeded", "aborted", "canceled"}

Init == goal = [g \in Goals |-> "none"] /\ serving = TRUE

Accept(g) == /\ goal[g] = "none"
             /\ goal' = [goal EXCEPT ![g] = "executing"]
             /\ UNCHANGED serving

Cancel(g) == /\ goal[g] = "executing"
             /\ goal' = [goal EXCEPT ![g] = "canceling"]
             /\ UNCHANGED serving

Answer(g) == \E result \in Over :
               /\ goal[g] \in Live
               /\ result = "canceled" => goal[g] = "canceling"
               /\ goal' = [goal EXCEPT ![g] = result]
               /\ UNCHANGED serving

Leave == serving /\ serving' = FALSE /\ UNCHANGED goal

Next == Leave \/ \E g \in Goals : Accept(g) \/ Cancel(g) \/ Answer(g)

SafeSpec == Init /\ [][Next]_<<goal, serving>>
Spec == /\ SafeSpec
        /\ \A g \in Goals : WF_<<goal, serving>>(serving /\ Answer(g))
=============================================================================
