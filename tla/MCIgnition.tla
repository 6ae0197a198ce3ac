----------------------------- MODULE MCIgnition -----------------------------
(* Hardware descriptions and controllers for IgnitionControl.              *)
EXTENDS IgnitionControl

MCJoints == {"arm", "finger1", "finger2", "link"}
MCControllers == {"position", "velocity", "effort", "hand"}

MCClaim ==
  [c \in MCControllers |->
     IF c = "hand" THEN {<<"finger1", "position">>} ELSE {<<"arm", c>>}]

Joint(states, commands) ==
  [inModel |-> TRUE, mimic |-> NoJoint, states |-> states, badInitial |-> FALSE,
   commands |-> commands]
Mimic(of, commands) == [Joint(<<"position">>, commands) EXCEPT !.mimic = of]

Robot ==
  [j \in MCJoints |->
     CASE j = "arm" -> Joint(<<"velocity", "position", "effort">>, Interfaces)
       [] j = "finger1" -> Joint(<<"position">>, {"position"})
       [] j = "finger2" -> Mimic("finger1", {"position"})
       [] j = "link" -> Mimic("arm", {})]

(* A robot with a hand whose second finger mimics the first, and a link     *)
(* that mimics the arm, which gives its velocity first; an unknown joint to *)
(* mimic; an initial value that is no number; none of the joints simulated. *)
MCDescriptions ==
  {Robot,
   [Robot EXCEPT !["link"].mimic = UnknownJoint],
   [Robot EXCEPT !["arm"].badInitial = TRUE],
   [j \in MCJoints |-> [Robot[j] EXCEPT !.inModel = FALSE]]}
=============================================================================
