---------------------------- MODULE ControllerSetup ----------------------------
(***************************************************************************)
(* on_configure of the example controllers, in the service thread of the   *)
(* controller manager, against the parameter services of the arm and the   *)
(* node that holds the robot description.  Every controller is a script of *)
(* what it asks for, in the order of its code.                             *)
(***************************************************************************)
EXTENDS ParamServices, Sequences

CONSTANTS
  Manager,   \* the client whose calls on_configure makes
  Behavior   \* the full collision behaviour

ASSUME SetupAssumption == Manager \in Clients /\ Behavior \in Params

VARIABLES
  kind,   \* the controller
  life,   \* its life cycle state, "configuring" while on_configure runs
  todo,   \* what on_configure has still to ask for
  named   \* robot_description_ has a robot's name, hence arm_id_ is one

setupVars == <<serviceVars, kind, life, todo, named>>

-----------------------------------------------------------------------------
(* The scripts.  "gains": both gain arrays have seven entries, or FAILURE;  *)
(* "description": the description, whatever comes; "filled": the same, but  *)
(* ERROR when it is empty; "behavior": set_full_collision_behavior, sent at *)
(* once; "services": wait for the services; "checked": the call, its answer *)
(* looked at.                                                               *)

JointPositionAsks == <<"description">>
\* Under Gazebo there is no arm to set the behaviour of.
JointVelocityAsks(gazebo) == IF gazebo THEN <<"filled">> ELSE <<"filled", "behavior">>
JointImpedanceAsks == <<"gains", "description">>
CartesianPoseAsks == <<"behavior", "description">>
CartesianVelocityAsks == <<"behavior">>
CartesianElbowAsks == <<"behavior", "description">>
CartesianOrientationAsks == <<"behavior", "description">>
ElbowAsks == <<"behavior", "description">>
MoveToStartAsks == <<"gains">>
GravityAsks == <<>>
ModelAsks == <<>>
WithIKAsks == <<"gains", "services", "checked", "description">>

Asks(k) ==
  CASE k = "joint_position"       -> JointPositionAsks
    [] k = "joint_velocity"       -> JointVelocityAsks(FALSE)
    [] k = "joint_velocity_gazebo" -> JointVelocityAsks(TRUE)
    [] k = "joint_impedance"      -> JointImpedanceAsks
    [] k = "cartesian_pose"       -> CartesianPoseAsks
    [] k = "cartesian_velocity"   -> CartesianVelocityAsks
    [] k = "cartesian_elbow"      -> CartesianElbowAsks
    [] k = "cartesian_orientation" -> CartesianOrientationAsks
    [] k = "elbow"                -> ElbowAsks
    [] k = "move_to_start"        -> MoveToStartAsks
    [] k = "gravity_compensation" -> GravityAsks
    [] k = "model"                -> ModelAsks
    [] k = "with_ik"              -> WithIKAsks

Kinds == {"joint_position", "joint_velocity", "joint_velocity_gazebo", "joint_impedance",
          "cartesian_pose", "cartesian_velocity", "cartesian_elbow", "cartesian_orientation",
          "elbow", "move_to_start", "gravity_compensation", "model", "with_ik"}

Questions == {"gains", "description", "filled", "behavior", "services", "checked"}

SetupTypeOK ==
  /\ ServiceTypeOK
  /\ kind \in Kinds
  /\ life \in {"unconfigured", "configuring", "inactive", "finalized"}
  /\ todo \in Seq(Questions) /\ Len(todo) <= 4
  /\ named \in BOOLEAN
  /\ todo # <<>> => life = "configuring"
  /\ call[Manager].at # "none" => life = "configuring"

SetupInit ==
  /\ ServiceInit
  /\ kind \in Kinds
  /\ life = "unconfigured" /\ todo = <<>> /\ named = FALSE

-----------------------------------------------------------------------------
(* The script is worked off.                                               *)

Asking(question) == alive /\ todo # <<>> /\ Head(todo) = question
Proceeds == todo' = Tail(todo) /\ UNCHANGED life
Leaves(state) == todo' = <<>> /\ life' = state
ServicesOnlyCalled == UNCHANGED <<init, thread, nodes, ok, alive, value, recovery>>

(* configure_controller (external); an inactive controller is cleaned up    *)
(* first, which no example controller has a handler for.                    *)
Configure ==
  /\ alive /\ ok /\ (init = "done" \/ kind = "joint_velocity_gazebo")
  /\ life \in {"unconfigured", "inactive"}
  /\ life' = "configuring" /\ todo' = Asks(kind)
  /\ UNCHANGED <<serviceVars, kind, named>>

ReadGains ==
  /\ Asking("gains")
  /\ Proceeds \/ Leaves("unconfigured")
  /\ UNCHANGED <<serviceVars, kind, named>>

(* The parameter client's wait_for_service and get_parameters.  A missing   *)
(* parameter leaves the description of an earlier configure; one that does  *)
(* not parse, or has no name, leaves the arm without a name.                *)
GetDescription ==
  /\ Asking("description") \/ Asking("filled")
  /\ ok
  /\ \/ Proceeds /\ named' \in BOOLEAN
     \/ Asking("filled") /\ Leaves("finalized") /\ named' = FALSE
  /\ UNCHANGED <<serviceVars, kind>>

(* async_send_request with the default behaviour. *)
SendBehavior ==
  /\ Asking("behavior") \/ Asking("checked")
  /\ Ask(Manager, Behavior)
  /\ Asking("checked") => call'[Manager].at = "sent"
  /\ ServicesOnlyCalled /\ UNCHANGED <<kind, life, todo, named>>

(* Both services are there, or rclcpp is shut down. *)
WaitForServices ==
  /\ Asking("services")
  /\ \/ ok /\ "service" \in nodes /\ Proceeds
     \/ ~ok /\ Leaves("finalized")
  /\ UNCHANGED <<serviceVars, kind, named>>

(* future.get() returns.  What most controllers test is that there is an    *)
(* answer, not what it says.                                                *)
BehaviorSet ==
  /\ Asking("behavior") \/ Asking("checked")
  /\ At(Manager, "answered")
  /\ call' = [call EXCEPT ![Manager] = NoCall]
  /\ IF Asking("checked") /\ ~call[Manager].success THEN Leaves("finalized") ELSE Proceeds
  /\ ServicesOnlyCalled /\ UNCHANGED <<kind, named>>

(* on_configure returns SUCCESS. *)
Configured ==
  /\ alive /\ life = "configuring" /\ todo = <<>>
  /\ life' = "inactive"
  /\ UNCHANGED <<serviceVars, kind, todo, named>>

(* Another client (external): one call in all. *)
OtherAsks ==
  /\ \E c \in Clients \ {Manager}, p \in Params : Ask(c, p)
  /\ ServicesOnlyCalled /\ UNCHANGED <<kind, life, todo, named>>

Configuring ==
  \/ ReadGains \/ GetDescription \/ SendBehavior \/ WaitForServices \/ BehaviorSet \/ Configured

SetupNext ==
  \/ Configure \/ Configuring \/ OtherAsks
  \/ ServiceNext /\ UNCHANGED <<kind, life, todo, named>>

(* on_configure goes on whenever it can; the node with the description      *)
(* answers.                                                                 *)
SetupSpec ==
  /\ SetupInit /\ [][SetupNext]_setupVars
  /\ ServiceFairness /\ WF_setupVars(Configuring)

-----------------------------------------------------------------------------
(* Properties.                                                             *)

(* on_configure blocks the controller manager, and returns: whatever the    *)
(* other clients and a running error recovery do, while the arm's nodes     *)
(* serve, and unless the request was sent before the service was known.     *)
ConfigureReturns ==
  (life = "configuring") ~> (life # "configuring" \/ At(Manager, "lost") \/ ~Serving)

(* A controller whose collision behaviour was refused is not configured.    *)
RefusedIsNotConfigured ==
  [][At(Manager, "answered") /\ ~call[Manager].success /\ call'[Manager] # call[Manager]
       => life' = "finalized"]_setupVars
=============================================================================
