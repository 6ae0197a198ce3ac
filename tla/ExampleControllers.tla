--------------------------- MODULE ExampleControllers ---------------------------
(***************************************************************************)
(* The example controllers of franka_example_controllers from their         *)
(* configuration on: activation, the update in every cycle of the           *)
(* controller manager, deactivation, activation again.  What tells the      *)
(* controllers apart is one record each; on_configure is ControllerSetup.   *)
(***************************************************************************)
EXTENDS SemanticComponents, FiniteSets

CONSTANTS
  Poses,      \* where the arm can stand
  Goal,       \* the pose of move_to_start
  MoveTime,   \* cycles its motion takes
  MaxLoans,   \* bound: activations
  MaxTime,    \* bound: cycles
  MaxAsked    \* bound: requests to the inverse kinematics that can be pending

NoPose == "no pose"

ASSUME ControllerAssumption ==
  /\ NoPose \notin Poses /\ Goal \in Poses /\ MoveTime \in Nat
  /\ MaxLoans \in Nat /\ MaxTime \in Nat /\ MaxAsked \in Nat

NoCommand == [from |-> NoPose, elapsed |-> 0]
Torn == [from |-> "torn", elapsed |-> 0]

VARIABLES
  kind,     \* the controller
  life,     \* "inactive", "active", or "crashed" when the process has ended
  loan,     \* number of the loan of interfaces: one per activation
  part,     \* references of its semantic component
  model,    \* FrankaRobotModel: its references, and the loan its pointers came from
  motion,   \* initialization_flag_, the initial pose and time, elapsed_time_
  ik,       \* pending requests to the inverse kinematics, joint_positions_desired_
  out,      \* command of this activation, return value of update, process_finished
  arm,      \* where the arm stands, robot_time
  history   \* of this activation: pose then, pose at the first update, time then

vars == <<kind, life, loan, part, model, motion, ik, out, arm, history>>

-----------------------------------------------------------------------------
(* The controllers.  part, elbow: the semantic component and how it is made; *)
(* sends: update passes elbow values; reads: what it measures with the       *)
(* component; origin: when it takes the pose its motion starts from; clock:  *)
(* what elapsed_time_ is; remade: on_configure makes the component anew.     *)

Joints(origin, clock) ==
  [part |-> "none", elbow |-> FALSE, sends |-> FALSE, reads |-> "joints",
   origin |-> origin, clock |-> clock, remade |-> FALSE]

Cartesian(component, elbow, sends, reads, remade) ==
  [part |-> component, elbow |-> elbow, sends |-> sends, reads |-> reads,
   origin |-> "update", clock |-> "robot", remade |-> remade]

JointPosition == Joints("update", "robot")
JointVelocity == Joints("none", "period")
JointImpedance == Joints("activate", "period")
MoveToStart == Joints("activate", "wall")
GravityCompensation == Joints("none", "none")
ModelReader == [Joints("none", "none") EXCEPT !.reads = "model"]
CartesianPose == Cartesian("pose", FALSE, FALSE, "pose", FALSE)
CartesianOrientation == Cartesian("pose", FALSE, FALSE, "pose", FALSE)
\* Variant: k_elbow_activated_ of the Cartesian elbow controller is false.
CartesianElbowUnclaimed == Cartesian("pose", FALSE, TRUE, "elbow", TRUE)
CartesianElbow == Cartesian("pose", TRUE, TRUE, "elbow", TRUE)
Elbow == Cartesian("velocity", TRUE, TRUE, "elbow", TRUE)
CartesianVelocity ==
  [Cartesian("velocity", FALSE, FALSE, "nothing", TRUE) EXCEPT
     !.origin = "none", !.clock = "period"]
WithIK == Cartesian("pose", FALSE, FALSE, "pose", FALSE)

Controllers ==
  [joint_position |-> JointPosition, joint_velocity |-> JointVelocity,
   joint_impedance |-> JointImpedance, move_to_start |-> MoveToStart,
   gravity_compensation |-> GravityCompensation, model |-> ModelReader,
   cartesian_pose |-> CartesianPose, cartesian_orientation |-> CartesianOrientation,
   cartesian_elbow |-> CartesianElbow, elbow |-> Elbow,
   cartesian_velocity |-> CartesianVelocity, with_ik |-> WithIK]

It == Controllers[kind]
HasPart == It.part # "none"
HasModel == kind \in {"model", "with_ik"}

Init ==
  /\ kind \in DOMAIN Controllers
  /\ life = "inactive" /\ loan = 0
  /\ part = Released
  /\ model = [refs |-> <<>>, of |-> 0]
  /\ motion = [first |-> TRUE, origin |-> NoPose, start |-> 0, elapsed |-> 0]
  /\ ik = [asked |-> {}, desired |-> NoCommand]
  /\ out = [command |-> NoCommand, accepted |-> TRUE, finished |-> FALSE]
  /\ arm \in [at : Poses, now : {0}]
  /\ history = [activated |-> NoPose, updated |-> NoPose, since |-> 0]

-----------------------------------------------------------------------------
(* on_configure once more: a component made there starts empty.  The        *)
(* component that is made in on_init keeps what it has.                     *)
Reconfigure ==
  /\ life = "inactive"
  /\ part' = IF It.remade THEN Released ELSE part
  /\ model' = IF HasModel THEN [refs |-> <<>>, of |-> 0] ELSE model
  /\ UNCHANGED <<kind, life, loan, motion, ik, out, arm, history>>

\* Variant: the flag of the first update is not set again.
StartedOnce ==
  [first |-> motion.first, elapsed |-> 0,
   origin |-> IF It.origin = "activate" THEN arm.at ELSE motion.origin,
   start |-> IF It.clock = "wall" THEN arm.now ELSE motion.start]

(* on_activate with newly lent interfaces: the component's references, the  *)
(* flag, or the pose right now.                                             *)
Started ==
  [first |-> TRUE, elapsed |-> 0,
   origin |-> IF It.origin = "activate" THEN arm.at ELSE motion.origin,
   start |-> IF It.clock = "wall" THEN arm.now ELSE motion.start]

Assigned ==
  IF ~HasPart THEN part
  ELSE [states |-> AssignState(part.states, loan'),
        commands |-> IF kind = "with_ik" THEN part.commands
                     ELSE AssignCommand(part.commands, loan')]

Activate ==
  /\ life = "inactive" /\ loan < MaxLoans
  /\ life' = "active" /\ loan' = loan + 1
  /\ part' = Assigned
  /\ model' = IF HasModel THEN [model EXCEPT !.refs = AssignState(@, loan')] ELSE model
  /\ motion' = Started
  /\ out' = [out EXCEPT !.command = NoCommand]
  /\ history' = [activated |-> arm.at, updated |-> NoPose, since |-> arm.now]
  /\ UNCHANGED <<kind, ik, arm>>

\* Variant: on_deactivate leaves the component alone.
DeactivateKeeps ==
  /\ life = "active" /\ life' = "inactive"
  /\ UNCHANGED <<kind, loan, part, model, motion, ik, out, arm, history>>

(* on_deactivate releases the component, where there is one; the robot      *)
(* model is released by the model example only.                             *)
Deactivate ==
  /\ life = "active" /\ life' = "inactive"
  /\ part' = Released
  /\ model' = IF kind = "model" THEN [model EXCEPT !.refs = <<>>] ELSE model
  /\ UNCHANGED <<kind, loan, motion, ik, out, arm, history>>

-----------------------------------------------------------------------------
(* A cycle: read, then the controller's update.                            *)

Read == arm' \in [at : Poses, now : {arm.now + 1}]

(* The first update takes the pose and the robot's time. *)
Origins ==
  IF ~(motion.first /\ It.origin = "update") THEN {motion.origin}
  ELSE IF HasPart THEN Current(part.states, loan, arm'.at, Poses)
  ELSE {arm'.at}

Elapsed ==
  CASE It.clock = "robot"  -> IF motion.first THEN 0 ELSE arm'.now - motion.start
    [] It.clock = "period" -> motion.elapsed + 1
    [] It.clock = "wall"   -> arm'.now - motion.start
    [] It.clock = "none"   -> 0

Moves ==
  \E pose \in Origins :
    motion' = [first |-> FALSE, origin |-> pose, elapsed |-> Elapsed,
               start |-> IF motion.first /\ It.clock = "robot" THEN arm'.now ELSE motion.start]

Commanded == [from |-> IF It.origin = "none" THEN NoPose ELSE motion'.origin,
          elapsed |-> motion'.elapsed]

Throws == It.reads = "elbow" /\ motion.first /\ ElbowThrows(It.elbow)

(* The motion generator: every joint has arrived, or had nowhere to go. *)
MotionFinished(origin, elapsed) == origin = Goal \/ elapsed >= MoveTime

(* Controllers without a semantic component set the interfaces themselves.  *)
(* move_to_start ends with no torque; process_finished is never taken back. *)
CommandJoints ==
  /\ ~HasPart /\ It.reads # "model"
  /\ LET over == kind = "move_to_start" /\ MotionFinished(motion'.origin, motion'.elapsed)
     IN out' = [command |-> IF over THEN NoCommand ELSE Commanded,
                accepted |-> TRUE, finished |-> out.finished \/ over]
  /\ UNCHANGED <<life, model, ik>>

(* Through the component; a refused command is an ERROR of update, and an   *)
(* exception of the component ends the process.                             *)
CommandCartesian ==
  /\ HasPart /\ kind # "with_ik"
  /\ IF Throws THEN life' = "crashed" /\ UNCHANGED out
     ELSE /\ UNCHANGED life
          /\ LET accepted == SetCommand(It.part, It.sends, It.elbow, part.commands)
             IN out' = [out EXCEPT !.accepted = accepted,
                                   !.command = IF accepted THEN Commanded ELSE @]
  /\ UNCHANGED <<model, ik>>

(* The pointers behind the robot model, taken at its first use. *)
UsesModel ==
  \E of \in IF model.of # 0 THEN {model.of} ELSE Found(model.refs, loan) :
    /\ life' = IF of = 0 THEN "crashed" ELSE life
    /\ model' = [model EXCEPT !.of = of]

ReadModel ==
  /\ kind = "model"
  /\ UsesModel
  /\ UNCHANGED <<out, ik>>

(* Every update asks for a solution, and the answers set                    *)
(* joint_positions_desired_ from another thread without a lock: with a      *)
(* request pending, what is read may be part old, part new.  No torque      *)
(* before the first answer.                                                 *)
CommandWithIK ==
  /\ kind = "with_ik"
  /\ ik' = [ik EXCEPT !.asked = IF Cardinality(@) < MaxAsked THEN @ \cup {Commanded} ELSE @]
  /\ IF ik.desired = NoCommand THEN UNCHANGED <<life, model, out>>
     ELSE /\ UsesModel
          /\ \E target \in {ik.desired} \cup IF ik.asked = {} THEN {} ELSE {Torn} :
               out' = [out EXCEPT !.command = target]

Cycle ==
  /\ life = "active" /\ arm.now < MaxTime
  /\ Read /\ Moves
  /\ CommandJoints \/ CommandCartesian \/ ReadModel \/ CommandWithIK
  /\ history' = [history EXCEPT !.updated = IF @ = NoPose THEN arm'.at ELSE @]
  /\ UNCHANGED <<kind, loan, part>>

(* A cycle without the controller. *)
Rest ==
  /\ life = "inactive" /\ arm.now < MaxTime
  /\ Read
  /\ UNCHANGED <<kind, life, loan, part, model, motion, ik, out, history>>

(* The answer to any pending request, in the thread of the executor. *)
Answer ==
  /\ life # "crashed"
  /\ \E r \in ik.asked :
       \/ ik' = [asked |-> ik.asked \ {r}, desired |-> r]
       \/ ik' = [ik EXCEPT !.asked = @ \ {r}]    \* no solution found
  /\ UNCHANGED <<kind, life, loan, part, model, motion, out, arm, history>>

Next == Reconfigure \/ Activate \/ Deactivate \/ Cycle \/ Rest \/ Answer

Spec == Init /\ [][Next]_vars

-----------------------------------------------------------------------------
(* Properties.                                                             *)

Commands == [from : Poses \cup {NoPose}, elapsed : 0..MaxTime]

TypeOK ==
  /\ kind \in DOMAIN Controllers
  /\ life \in {"inactive", "active", "crashed"}
  /\ loan \in 0..MaxLoans
  /\ part \in [states : Seq(1..MaxLoans), commands : Seq(1..MaxLoans)]
  /\ model \in [refs : Seq(1..MaxLoans), of : 0..MaxLoans]
  /\ motion \in [first : BOOLEAN, origin : Poses \cup {NoPose},
                 start : 0..MaxTime, elapsed : 0..MaxTime]
  /\ ik \in [asked : SUBSET Commands, desired : Commands]
  /\ out \in [command : Commands \cup {Torn}, accepted : BOOLEAN, finished : BOOLEAN]
  /\ arm \in [at : Poses, now : 0..MaxTime]

(* Whatever ran before it, a motion continues from where the arm stood when *)
(* this activation of the controller began (at on_activate, or at the first *)
(* update), and is no further along than the time since.  The controller    *)
(* with inverse kinematics has no such promise: it keeps the solution of an *)
(* earlier activation.                                                      *)
FollowsItsStart ==
  out.command # NoCommand /\ kind # "with_ik" =>
    /\ out.command.from \in { NoPose, IF It.origin = "activate" THEN history.activated
                                      ELSE history.updated }
    /\ out.command.elapsed <= arm.now - history.since

\* The robot model's first reference is one that an earlier activation left.
StaleModel == model.refs # <<>> /\ Head(model.refs) # loan

(* The component takes every command it is given, in the first activation   *)
(* and in the later ones, and update throws in one case only: the           *)
(* controller with inverse kinematics does not release the references of    *)
(* its robot model, and a first use of the model in a later activation goes *)
(* through those of an earlier one, which are destroyed.                    *)
CommandsAccepted ==
  /\ out.accepted
  /\ life = "crashed" => kind = "with_ik" /\ StaleModel

(* An active controller reads and writes the interfaces that it was lent    *)
(* this time, never those of an earlier activation, which are destroyed;    *)
(* nothing is kept of them while it is inactive.  The robot model of the    *)
(* controller with inverse kinematics is not released.                      *)
UsesItsLoan ==
  LET Refs == {part.states[i] : i \in DOMAIN part.states}
                \cup {part.commands[i] : i \in DOMAIN part.commands}
                \cup IF kind = "model" THEN {model.refs[i] : i \in DOMAIN model.refs} ELSE {}
  IN /\ life = "active" => Refs \subseteq {loan}
     /\ life = "inactive" => Refs = {}
=============================================================================
