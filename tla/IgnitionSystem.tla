--------------------------- MODULE IgnitionSystem ---------------------------
(***************************************************************************)
(* The simulated hardware of franka_gazebo (class IgnitionSystem): which   *)
(* interface drives each joint, and what one write sends to the simulator. *)
(*                                                                         *)
(* A command is known by the one who wrote it, a value sent to the         *)
(* simulator by the law that made it and by the author of its command.     *)
(***************************************************************************)
EXTENDS Naturals, Sequences

CONSTANTS
  Joints,        \* the joints of the hardware description
  Controllers,   \* the controllers that may write their commands
  Descriptions,  \* hardware descriptions: functions from joints to JointInfo
  NoJoint,       \* "mimics no joint"
  UnknownJoint   \* a joint that the description does not have

VARIABLES
  info,      \* the hardware description with what the simulated model has of it
  method,    \* joint_control_method: a set of interfaces stands for the bits
  command,   \* joint_position_cmd, joint_velocity_cmd, joint_effort_cmd: their author
  sim,       \* the components JointVelocityCmd and JointForceCmd of each joint
  imu        \* the IMU of the model

systemVars == <<info, method, command, sim, imu>>

Interfaces == {"position", "velocity", "effort"}
Authors == Controllers \cup {"initial"}
Laws == {"velocity", "position", "effort", "follow"}
NoComponent == <<"none", "initial">>
Zero == <<"zero", "initial">>
Values == {NoComponent, Zero} \cup (Laws \X Authors)

JointInfo ==
  [inModel: BOOLEAN, mimic: Joints \cup {NoJoint, UnknownJoint},
   states: Seq(Interfaces), badInitial: BOOLEAN, commands: SUBSET Interfaces]

ASSUME DescriptionAssumption == Descriptions \subseteq [Joints -> JointInfo]
ASSUME AuthorAssumption == "initial" \notin Controllers

SystemTypeOK ==
  /\ info \in Descriptions
  /\ method \in [Joints -> SUBSET Interfaces]
  /\ command \in [Joints -> [Interfaces -> Authors]]
  /\ sim \in [Joints -> [vel: Values, force: Values]]
  /\ imu \in {"absent", "silent", "named", "subscribed"}

-----------------------------------------------------------------------------
(* Construction: SafeEnum() and the value-initialised jointData.           *)

SystemInit ==
  /\ info \in Descriptions
  /\ method = [j \in Joints |-> {}]
  /\ command = [j \in Joints |-> [i \in Interfaces |-> "initial"]]
  /\ sim = [j \in Joints |-> [vel |-> NoComponent, force |-> NoComponent]]
  /\ imu = "absent"

(* A joint that the model does not have is skipped wherever joints are handled. *)
Simulated == {j \in Joints : info[j].inModel}
MimicJoints == {j \in Simulated : info[j].mimic # NoJoint}

(* find_if stops at the first state interface of the mimicked joint, and    *)
(* tests vel again where eff is meant.                                      *)
InterfacesToMimic(j) ==
  CASE Head(info[info[j].mimic].states) = "position" -> {"position"}
    [] Head(info[info[j].mimic].states) = "velocity" -> {"velocity", "effort"}
    [] Head(info[info[j].mimic].states) = "effort" -> {}

(* initSim throws out of the joint loop. *)
InitSimThrows ==
  \E j \in Simulated :
    \/ info[j].badInitial
    \/ info[j].mimic = UnknownJoint
    \/ info[j].mimic \in Joints /\ info[info[j].mimic].states = <<>>

(* The command handles of an effort interface set the EFFORT bit already;   *)
(* registerSensors finds the IMU if the model has one.                      *)
InitSim ==
  /\ method' = [j \in Joints |->
                  IF j \in Simulated /\ "effort" \in info[j].commands THEN {"effort"} ELSE {}]
  /\ imu' \in {"absent", "silent"}
  /\ UNCHANGED <<info, command, sim>>

(* export_command_interfaces: a mimic joint is exported under another name, *)
(* which perform_command_mode_switch does not look for.                     *)
Exported == {p \in Simulated \X Interfaces : p[2] \in info[p[1]].commands}
Switchable == {p \in Exported : p[1] \notin MimicJoints}

-----------------------------------------------------------------------------
(* perform_command_mode_switch.                                            *)

(* Variant: an interface that is stopped keeps its bit. *)
ClearedKeepsBits(bits, stop) == bits

(* The masks are conjunctions of two different bits, hence zero: whatever   *)
(* interface of a joint is stopped, all its bits are cleared.               *)
Cleared(bits, stop) == IF stop = {} THEN bits ELSE {}

OfJoint(interfaces, j) == {i \in Interfaces : <<j, i>> \in interfaces}

(* Variant: the interfaces are started before the others are stopped. *)
SwitchStartsFirst(start, stop) ==
  method' = [j \in Joints |-> Cleared(method[j] \cup OfJoint(start \cap Switchable, j),
                                      OfJoint(stop \cap Switchable, j))]

PerformCommandModeSwitch(start, stop) ==
  method' = [j \in Joints |-> Cleared(method[j], OfJoint(stop \cap Switchable, j))
                                \cup OfJoint(start \cap Switchable, j)]

-----------------------------------------------------------------------------
(* read: the joint states are copied; the topic of the IMU is subscribed to *)
(* as soon as it has a name.                                                *)

Read == imu' = IF imu = "named" THEN "subscribed" ELSE imu

(* The sensors system names the topic of the IMU at some time (external).  *)
NameTopic ==
  /\ imu = "silent"
  /\ imu' = "named"
  /\ UNCHANGED <<info, method, command, sim>>

(* Controllers write the interfaces they have claimed. *)
Commanded(author) ==
  command' = [j \in Joints |-> [i \in Interfaces |->
                IF \E c \in DOMAIN author : <<j, i>> \in author[c]
                THEN CHOOSE c \in DOMAIN author : <<j, i>> \in author[c]
                ELSE command[j][i]]]

-----------------------------------------------------------------------------
(* write.                                                                  *)

By(law, j) == <<law, command[j][law]>>

(* Variant: effort wins over the other modes. *)
DrivenEffortFirst(s, j) ==
  CASE "effort" \in method[j] ->
         [s EXCEPT !.force = IF @ = NoComponent THEN Zero ELSE By("effort", j)]
    [] method[j] = {"position"} -> [s EXCEPT !.vel = By("position", j)]
    [] "velocity" \in method[j] /\ "effort" \notin method[j] ->
         [s EXCEPT !.vel = IF @ = NoComponent THEN Zero ELSE By("velocity", j)]
    [] method[j] = {} -> [s EXCEPT !.vel = Zero]

(* One joint by its own mode: velocity before position before effort; the   *)
(* first write of a velocity or an effort only creates its component; an    *)
(* actuated joint without a mode is commanded to stand.                     *)
Driven(s, j) ==
  CASE "velocity" \in method[j] ->
         [s EXCEPT !.vel = IF @ = NoComponent THEN Zero ELSE By("velocity", j)]
    [] "position" \in method[j] /\ "velocity" \notin method[j] ->
         [s EXCEPT !.vel = By("position", j)]
    [] method[j] = {"effort"} ->
         [s EXCEPT !.force = IF @ = NoComponent THEN Zero ELSE By("effort", j)]
    [] method[j] = {} /\ info[j].commands # {} -> [s EXCEPT !.vel = Zero]
    [] OTHER -> s

(* A mimic joint follows the measured state of the joint it mimics. *)
Follows(s, j) ==
  [vel |-> IF "position" \in InterfacesToMimic(j) THEN <<"follow", "initial">>
           ELSE IF "velocity" \notin InterfacesToMimic(j) THEN s.vel
           ELSE IF s.vel = NoComponent THEN Zero ELSE <<"follow", "initial">>,
   force |-> IF "effort" \notin InterfacesToMimic(j) THEN s.force
             ELSE IF s.force = NoComponent THEN Zero ELSE <<"follow", "initial">>]

(* Variant: the mimic joints are set before the joints' own modes. *)
WrittenMimicFirst(j) == Driven(IF j \in MimicJoints THEN Follows(sim[j], j) ELSE sim[j], j)

Written(j) == IF j \in MimicJoints THEN Follows(Driven(sim[j], j), j) ELSE Driven(sim[j], j)

Write ==
  /\ sim' = [j \in Joints |-> IF j \in Simulated THEN Written(j) ELSE sim[j]]
  /\ UNCHANGED <<info, method, command, imu>>

(* The physics of the simulator uses up the commands of one step (external: *)
(* "Always set commands on joints, otherwise ... the joints tremble").      *)
UsedUp(value) == IF value = NoComponent THEN NoComponent ELSE Zero

Physics ==
  /\ sim' = [j \in Joints |-> [vel |-> UsedUp(sim[j].vel), force |-> UsedUp(sim[j].force)]]
  /\ UNCHANGED <<info, method, command, imu>>
=============================================================================
