--------------------------- MODULE GripperExample ---------------------------
(***************************************************************************)
(* The gripper example controller with the action server it drives, and    *)
(* other clients of the same server.  The controller manager is external:  *)
(* activation and deactivation run in its update thread, result callbacks  *)
(* in its executor; a callback that fails or throws finalizes the          *)
(* controller.                                                             *)
(***************************************************************************)
EXTENDS GripperServer

CONSTANTS
  ExampleGoals,   \* goals left for the controller (a bound)
  ClientKinds,    \* the actions other clients use
  MaxActivations  \* a bound

VARIABLES
  example,      \* lifecycle state of the controller
  ordered,      \* ordered_gripper_state
  called,       \* goals whose result callback has run
  activations

exampleVars == <<example, ordered, called, activations>>
vars == <<serverVars, exampleVars>>

ASSUME GoalsAssumption == 
  Goals \subseteq Nat /\ IsFiniteSet(Goals) /\ ExampleGoals \subseteq Goals /\ ClientKinds \subseteq Kinds
ASSUME ActivationsAssumption == MaxActivations \in Nat

TypeOK ==
  /\ ServerTypeOK
  /\ example \in {"inactive", "active", "deactivating", "finalized"}
  /\ ordered \in {"open", "closed"}
  /\ called \subseteq ExampleGoals
  /\ activations \in 0..MaxActivations

(* Configured: the clients exist, the callbacks are assigned. *)
Init ==
  /\ ServerInit
  /\ example = "inactive" /\ ordered = "closed" /\ called = {} /\ activations = 0

(* toggleGripperState, openGripper and graspGripper: one goal is sent, the  *)
(* state is a static variable and outlives every activation.                *)
Toggle ==
  /\ \E g \in ExampleGoals : /\ \A h \in ExampleGoals : goal[h] = "idle" => g <= h
                          /\ Send(g, IF ordered = "closed" THEN "move" ELSE "grasp")
  /\ ordered' = IF ordered = "closed" THEN "open" ELSE "closed"
  /\ UNCHANGED <<thread, motion, lock, executor, stop, ok, alive>>

(* on_activate: both servers answer within their time, or it fails. *)
Activate ==
  /\ example = "inactive" /\ activations < MaxActivations
  /\ activations' = activations + 1
  /\ IF Serving THEN example' = "active" /\ Toggle
                ELSE example' = "finalized" /\ UNCHANGED <<serverVars, ordered>>
  /\ UNCHANGED called

(* Variant: every activation has added a callback, and each sends a goal. *)
ResultOfEach(g) ==
  /\ g \in ExampleGoals \ called /\ goal[g] \in Terminal
  /\ called' = called \cup {g}
  /\ \/ \E next \in SUBSET {h \in ExampleGoals : goal[h] = "idle"} :
          /\ Cardinality(next) = activations
          /\ goal' = [h \in Goals |-> IF h \in next THEN "sent" ELSE goal[h]]
          /\ kind' = [h \in Goals |-> IF h \in next THEN "grasp" ELSE kind[h]]
     \/ kind[g] # "grasp" /\ goal[g] # "succeeded" /\ UNCHANGED <<goal, kind>>
  /\ UNCHANGED <<thread, motion, lock, executor, stop, ok, alive, example, ordered, activations>>

(* The result callbacks: a move goes on after a success only, a grasp       *)
(* always, in whatever state the controller is by then.                     *)
Result(g) ==
  /\ g \in ExampleGoals \ called /\ goal[g] \in Terminal
  /\ called' = called \cup {g}
  /\ IF kind[g] = "grasp" \/ goal[g] = "succeeded" THEN Toggle ELSE UNCHANGED <<serverVars, ordered>>
  /\ UNCHANGED <<example, activations>>

(* on_deactivate asks the stop service if it is there, and waits for the    *)
(* answer without a limit.                                                  *)
Deactivate ==
  /\ example = "active"
  /\ \/ /\ Serving /\ stop # "asked"
        /\ stop' = "asked" /\ example' = "deactivating"
     \/ UNCHANGED stop /\ example' = "inactive"
  /\ UNCHANGED <<kind, goal, thread, motion, lock, executor, ok, alive, ordered, called, activations>>

(* result.get() a second time throws, for a future gives its value once. *)
DeactivateThrows ==
  /\ example = "deactivating" /\ stop = "answered"
  /\ example' = "finalized" /\ stop' = "none"
  /\ UNCHANGED <<kind, goal, thread, motion, lock, executor, ok, alive, ordered, called, activations>>

(* Another client sends a goal. *)
ClientSends ==
  /\ \E g \in Goals \ ExampleGoals, k \in ClientKinds : Send(g, k)
  /\ UNCHANGED <<thread, motion, lock, executor, stop, ok, alive, exampleVars>>

Next ==
  \/ ServerNext /\ UNCHANGED exampleVars
  \/ Activate \/ Deactivate \/ DeactivateThrows \/ ClientSends
  \/ \E g \in ExampleGoals : Result(g)

Spec == Init /\ [][Next]_vars
FairSpec == Spec /\ ServerFairness /\ WF_vars(DeactivateThrows)

-----------------------------------------------------------------------------
(* Properties.                                                             *)

Waiting == {g \in ExampleGoals : goal[g] # "idle" /\ g \notin called}

(* The controller drives the gripper with one goal after the other: it      *)
(* never has more goals under way than it has been activated times,         *)
(* whatever becomes of them.                                                *)
OneGoalPerActivation == Cardinality(Waiting) <= activations

(* on_deactivate, which holds up the update thread of the arm, comes to an  *)
(* end as long as the gripper server serves, whatever its executor, its     *)
(* timer and the goals of others do.                                        *)
DeactivateReturns == (example = "deactivating") ~> (example # "deactivating" \/ ~Serving)
=============================================================================
