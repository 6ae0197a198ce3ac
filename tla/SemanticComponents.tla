--------------------------- MODULE SemanticComponents ---------------------------
(***************************************************************************)
(* The semantic components of franka_semantic_components: lists of         *)
(* references to the interfaces that the controller manager has lent to a  *)
(* controller.  One block of references is assigned per activation; a      *)
(* block is known by the number of the loan it refers to.                  *)
(***************************************************************************)
EXTENDS Naturals, Sequences

(* The constructors: how many interfaces one block has. *)
PoseSize(elbow) == 16 + IF elbow THEN 2 ELSE 0
VelocitySize(elbow) == 6 + IF elbow THEN 2 ELSE 0

Size(part, elbow) == IF part = "pose" THEN PoseSize(elbow) ELSE VelocitySize(elbow)

(* assign_loaned_*_interfaces: get_ordered_interfaces (external) appends. *)
AssignState(refs, loan) == Append(refs, loan)
AssignCommand(refs, loan) == Append(refs, loan)

(* release_interfaces *)
Released == [states |-> <<>>, commands |-> <<>>]

(* set_values refuses a vector that has not room for exactly the references. *)
SetValues(room, commands, size) == room = Len(commands) * size

(* setCommand: with elbow values if the component was made with the elbow,  *)
(* and only then.                                                           *)
PoseCommand(withElbow, elbow, commands) ==
  /\ withElbow = elbow
  /\ SetValues(PoseSize(withElbow), commands, PoseSize(elbow))

VelocityCommand(withElbow, elbow, commands) ==
  /\ withElbow = elbow
  /\ SetValues(VelocitySize(withElbow), commands, VelocitySize(elbow))

SetCommand(part, withElbow, elbow, commands) ==
  IF part = "pose" THEN PoseCommand(withElbow, elbow, commands)
                   ELSE VelocityCommand(withElbow, elbow, commands)

(* getCurrent*: the values behind the first block.  A block of an earlier   *)
(* loan refers to destroyed objects: any value may be read.                 *)
Current(states, loan, measured, values) ==
  IF Head(states) = loan THEN {measured} ELSE values

(* The getters of the elbow throw without it. *)
ElbowThrows(elbow) == ~elbow

(* FrankaRobotModel::initialize: the pointers are taken from the first      *)
(* reference with the right name, among all that were ever assigned.        *)
(* Reading a destroyed one may find it, pass over it, or crash (0); with no *)
(* reference at all it throws.                                              *)
Found(refs, loan) ==
  IF refs = <<>> THEN {0} ELSE IF Head(refs) = loan THEN {loan} ELSE {Head(refs), loan, 0}
=============================================================================
