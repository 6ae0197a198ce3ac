--------------------------- MODULE MCFrankaHardware ---------------------------
(* Small instances of FrankaHardware: controllers as in the configurations   *)
(* of franka_example_controllers, and some that claim too little.            *)
EXTENDS FrankaHardware

\* All interfaces of the types T, and n foreign ones.
Whole(T, n) ==
  [t \in Types \union {Foreign} |->
     IF t \in T THEN Size[t] ELSE IF t = Foreign THEN n ELSE 0]

\* "swerve" asks for all efforts but for only one velocity, "gripper" for the
\* interface of another component, "empty" for every interface there is.
MCClaim ==
  [ effort      |-> Whole({Effort}, 0),
    velocity    |-> Whole({JVel}, 0),
    position    |-> Whole({JPos}, 0),
    cartvel     |-> Whole({CVel}, 0),
    cartvel_elb |-> Whole({CVel, Elbow}, 0),
    pose        |-> Whole({CPose}, 0),
    pose_elb    |-> Whole({CPose, Elbow}, 0),
    elbow       |-> Whole({Elbow}, 0),
    swerve      |-> [Whole({Effort}, 0) EXCEPT ![JVel] = 1],
    gripper     |-> Whole({}, 1),
    empty       |-> Whole(Types, 0) ]

SingleControllers ==
  {"effort", "position", "cartvel", "cartvel_elb", "pose", "pose_elb", "gripper", "empty"}
SingleClaim == [c \in SingleControllers |-> MCClaim[c]]

AnyControllers ==
  {"effort", "cartvel_elb", "pose", "elbow", "swerve"}
AnyClaim == [c \in AnyControllers |-> MCClaim[c]]
===============================================================================
