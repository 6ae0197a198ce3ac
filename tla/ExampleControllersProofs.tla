------------------------ MODULE ExampleControllersProofs ------------------------
(***************************************************************************)
(* Proofs about ExampleControllers for every set of poses, every duration  *)
(* of a motion and any number of activations and cycles.                   *)
(***************************************************************************)
EXTENDS ExampleControllers, SequenceTheorems, TLAPS

(* What the records of the controllers have in common.                      *)
Sound(r) ==
  /\ r.part \in {"none", "pose", "velocity"} /\ r.elbow \in BOOLEAN
  /\ r.origin \in {"none", "activate", "update"}
  /\ r.clock \in {"none", "robot", "period", "wall"}
  /\ r.part # "none" => r.sends = r.elbow
  /\ r.reads = "elbow" => r.elbow
  /\ r.reads = "model" => r.part = "none"

(* References are those of the present loan, in an active controller only.  *)
LoanInv ==
  /\ life = "active" =>
       /\ loan # 0
       /\ part.states = IF HasPart THEN <<loan>> ELSE <<>>
       /\ part.commands = IF HasPart /\ kind # "with_ik" THEN <<loan>> ELSE <<>>
       /\ kind = "model" => model.refs = <<loan>>
       /\ kind = "with_ik" => model.refs # <<>>
  /\ life = "inactive" =>
       /\ part.states = <<>> /\ part.commands = <<>>
       /\ kind = "model" => model.refs = <<>>

(* Where the motion of an active controller started, and when.              *)
MotionInv ==
  /\ history \in [activated : Poses \cup {NoPose}, updated : Poses \cup {NoPose}, since : Nat]
  /\ history.since <= arm.now /\ motion.start <= arm.now
  /\ life = "active" =>
       /\ motion.first <=> history.updated = NoPose
       /\ It.origin = "activate" => motion.origin = history.activated
       /\ It.origin = "update" /\ ~motion.first => motion.origin = history.updated
       /\ motion.elapsed <= arm.now - history.since
       /\ ~motion.first /\ It.clock = "robot" => history.since <= motion.start
       /\ It.clock = "wall" => history.since <= motion.start

IInv == TypeOK /\ LoanInv /\ MotionInv /\ CommandsAccepted /\ FollowsItsStart

-------------------------------------------------------------------------------
LEMMA SoundLemma ==
  ASSUME kind \in DOMAIN Controllers
  PROVE  /\ Sound(It)
         /\ kind = "with_ik" => HasPart
         /\ kind = "model" => It.reads = "model"
         /\ It.reads = "model" => kind = "model"
<1>1. /\ Sound(JointPosition) /\ Sound(JointVelocity) /\ Sound(JointImpedance)
      /\ Sound(MoveToStart) /\ Sound(GravityCompensation) /\ Sound(ModelReader)
  BY DEF Sound, JointPosition, JointVelocity, JointImpedance, MoveToStart, GravityCompensation,
     ModelReader, Joints
<1>2. /\ Sound(CartesianPose) /\ Sound(CartesianOrientation) /\ Sound(CartesianElbow)
      /\ Sound(Elbow) /\ Sound(CartesianVelocity) /\ Sound(WithIK)
  BY DEF Sound, CartesianPose, CartesianOrientation, CartesianElbow, Elbow, CartesianVelocity,
     WithIK, Cartesian
<1>3. kind \in {"joint_position", "joint_velocity", "joint_impedance", "move_to_start",
               "gravity_compensation", "model", "cartesian_pose", "cartesian_orientation",
               "cartesian_elbow", "elbow", "cartesian_velocity", "with_ik"}
  BY DEF Controllers
<1>4. /\ kind = "joint_position" => It = JointPosition
      /\ kind = "joint_velocity" => It = JointVelocity
      /\ kind = "joint_impedance" => It = JointImpedance
      /\ kind = "move_to_start" => It = MoveToStart
      /\ kind = "gravity_compensation" => It = GravityCompensation
      /\ kind = "model" => It = ModelReader
      /\ kind = "cartesian_pose" => It = CartesianPose
      /\ kind = "cartesian_orientation" => It = CartesianOrientation
      /\ kind = "cartesian_elbow" => It = CartesianElbow
      /\ kind = "elbow" => It = Elbow
      /\ kind = "cartesian_velocity" => It = CartesianVelocity
      /\ kind = "with_ik" => It = WithIK
  BY DEF It, Controllers
<1>5. Sound(It)
  BY <1>1, <1>2, <1>3, <1>4
<1>6. kind = "with_ik" => HasPart
  BY <1>4 DEF HasPart, WithIK, Cartesian
<1>7. kind = "model" => It.reads = "model"
  BY <1>4 DEF ModelReader, Joints
<1>8. /\ JointPosition.reads # "model" /\ JointVelocity.reads # "model"
      /\ JointImpedance.reads # "model" /\ MoveToStart.reads # "model"
      /\ GravityCompensation.reads # "model"
  BY DEF JointPosition, JointVelocity, JointImpedance, MoveToStart, GravityCompensation, Joints
<1>9. /\ CartesianPose.reads # "model" /\ CartesianOrientation.reads # "model"
      /\ CartesianElbow.reads # "model" /\ Elbow.reads # "model"
      /\ CartesianVelocity.reads # "model" /\ WithIK.reads # "model"
  BY DEF CartesianPose, CartesianOrientation, CartesianElbow, Elbow, CartesianVelocity, WithIK,
     Cartesian
<1>10. kind # "model" => It.reads # "model"
  BY <1>3, <1>4, <1>8, <1>9
<1> QED  BY <1>5, <1>6, <1>7, <1>10

LEMMA OneLoan ==
  ASSUME NEW l \in 1..MaxLoans
  PROVE  /\ Append(<<>>, l) = <<l>> /\ <<l>> \in Seq(1..MaxLoans) /\ <<>> \in Seq(1..MaxLoans)
         /\ <<l>> # <<>> /\ Head(<<l>>) = l /\ Len(<<l>>) = 1
         /\ \A i \in DOMAIN <<l>> : <<l>>[i] = l
  OBVIOUS

LEMMA InitLemma == Init => IInv
<1> SUFFICES ASSUME Init PROVE IInv
  OBVIOUS
<1> USE DEF Init
<1>1. <<>> \in Seq(1..MaxLoans)
  OBVIOUS
<1>2. MaxTime \in Nat /\ MaxLoans \in Nat
  BY ControllerAssumption
<1>3. NoCommand \in Commands
  BY <1>2 DEF NoCommand, Commands
<1>4. arm \in [at : Poses, now : 0..MaxTime] /\ arm.now = 0
  BY <1>2
<1>5. TypeOK
  BY <1>1, <1>2, <1>3, <1>4 DEF TypeOK, Released
<1>6. LoanInv
  BY DEF LoanInv, Released
<1>7. MotionInv
  BY <1>4 DEF MotionInv
<1> QED  BY <1>5, <1>6, <1>7 DEF IInv, CommandsAccepted, FollowsItsStart

-------------------------------------------------------------------------------
(* Between the updates.                                                     *)
LEMMA ReconfigureLemma ==
  ASSUME IInv, Reconfigure
  PROVE  IInv'
<1> USE DEF IInv
<1>1. /\ UNCHANGED <<kind, life, loan, motion, ik, out, arm, history>> /\ life = "inactive"
      /\ part' \in {Released, part} /\ model' \in {[refs |-> <<>>, of |-> 0], model}
  BY DEF Reconfigure
<1>2. <<>> \in Seq(1..MaxLoans) /\ 0 \in 0..MaxLoans
  BY ControllerAssumption
<1>3. TypeOK'
  <2> DEFINE Loans == Seq(1..MaxLoans)
  <2>1. part \in [states : Loans, commands : Loans] /\ model \in [refs : Loans, of : 0..MaxLoans]
    BY DEF TypeOK
  <2> HIDE DEF Loans
  <2>2. <<>> \in Loans
    BY <1>2 DEF Loans
  <2>3. Released \in [states : Loans, commands : Loans]
    BY <2>2 DEF Released
  <2>4. [refs |-> <<>>, of |-> 0] \in [refs : Loans, of : 0..MaxLoans]
    BY <1>2, <2>2
  <2>5. part' \in [states : Seq(1..MaxLoans), commands : Seq(1..MaxLoans)]
    BY <1>1, <2>1, <2>3 DEF Loans
  <2>6. model' \in [refs : Seq(1..MaxLoans), of : 0..MaxLoans]
    BY <1>1, <2>1, <2>4 DEF Loans
  <2> QED  BY <1>1, <2>5, <2>6 DEF TypeOK
<1>4. LoanInv'
  BY <1>1 DEF LoanInv, Released, HasPart, It
<1>5. MotionInv' /\ CommandsAccepted' /\ FollowsItsStart'
  BY <1>1 DEF MotionInv, CommandsAccepted, FollowsItsStart, It
<1> QED  BY <1>3, <1>4, <1>5

LEMMA DeactivateLemma ==
  ASSUME IInv, Deactivate
  PROVE  IInv'
<1> USE DEF IInv
<1>1. /\ UNCHANGED <<kind, loan, motion, ik, out, arm, history>> /\ life' = "inactive"
      /\ part' = Released
      /\ model' = IF kind = "model" THEN [model EXCEPT !.refs = <<>>] ELSE model
  BY DEF Deactivate
<1>2. <<>> \in Seq(1..MaxLoans)
  OBVIOUS
<1>3. model' \in [refs : Seq(1..MaxLoans), of : 0..MaxLoans]
      /\ (kind = "model" => model'.refs = <<>>)
  BY <1>1, <1>2 DEF TypeOK
<1>4. TypeOK'
  BY <1>1, <1>2, <1>3 DEF TypeOK, Released
<1>5. LoanInv'
  BY <1>1, <1>3 DEF LoanInv, Released
<1>6. MotionInv' /\ CommandsAccepted' /\ FollowsItsStart'
  BY <1>1 DEF MotionInv, CommandsAccepted, FollowsItsStart, It
<1> QED  BY <1>4, <1>5, <1>6

LEMMA RestLemma ==
  ASSUME IInv, Rest
  PROVE  IInv'
<1> USE DEF IInv
<1>1. /\ UNCHANGED <<kind, life, loan, part, model, motion, ik, out, history>>
      /\ life = "inactive" /\ arm.now < MaxTime
      /\ arm' \in [at : Poses, now : {arm.now + 1}]
  BY DEF Rest, Read
<1>2. arm.now \in 0..MaxTime /\ MaxTime \in Nat
  BY ControllerAssumption DEF TypeOK
<1>3. arm'.at \in Poses /\ arm'.now = arm.now + 1 /\ arm' \in [at : Poses, now : 0..MaxTime]
  BY <1>1, <1>2
<1>4. TypeOK'
  BY <1>1, <1>3 DEF TypeOK
<1>5. LoanInv' /\ CommandsAccepted'
  BY <1>1 DEF LoanInv, HasPart, It, CommandsAccepted
<1>6. history.since \in Nat /\ motion.start \in Nat /\ out.command.elapsed \in Int
  BY <1>2 DEF MotionInv, TypeOK, Commands, Torn
<1>7. MotionInv'
  BY <1>1, <1>2, <1>3, <1>6 DEF MotionInv
<1>8. FollowsItsStart'
  BY <1>1, <1>2, <1>3, <1>6 DEF FollowsItsStart, It
<1> QED  BY <1>4, <1>5, <1>7, <1>8

LEMMA AnswerLemma ==
  ASSUME IInv, Answer
  PROVE  IInv'
<1> USE DEF IInv
<1>1. UNCHANGED <<kind, life, loan, part, model, motion, out, arm, history>>
  BY DEF Answer
<1>2. ik' \in [asked : SUBSET Commands, desired : Commands]
  <2>1. ik \in [asked : SUBSET Commands, desired : Commands]
    BY DEF TypeOK
  <2>2. PICK r \in ik.asked : \/ ik' = [asked |-> ik.asked \ {r}, desired |-> r]
                             \/ ik' = [ik EXCEPT !.asked = @ \ {r}]
    BY DEF Answer
  <2> QED  BY <2>1, <2>2
<1> QED  BY <1>1, <1>2 DEF TypeOK, LoanInv, HasPart, It, MotionInv, CommandsAccepted,
         StaleModel, FollowsItsStart

LEMMA ActivateLemma ==
  ASSUME IInv, Activate
  PROVE  IInv'
<1> USE DEF IInv
<1>1. /\ UNCHANGED <<kind, ik, arm>> /\ life = "inactive" /\ life' = "active"
      /\ loan < MaxLoans /\ loan' = loan + 1 /\ part' = Assigned /\ motion' = Started
      /\ model' = IF HasModel THEN [model EXCEPT !.refs = AssignState(@, loan')] ELSE model
      /\ out' = [out EXCEPT !.command = NoCommand]
      /\ history' = [activated |-> arm.at, updated |-> NoPose, since |-> arm.now]
  BY DEF Activate
<1>2. loan \in 0..MaxLoans /\ arm.at \in Poses /\ arm.now \in 0..MaxTime /\ MaxTime \in Nat
      /\ MaxLoans \in Nat
  BY ControllerAssumption DEF TypeOK
<1>3. loan' \in 1..MaxLoans
  BY <1>1, <1>2
<1>4. part.states = <<>> /\ part.commands = <<>> /\ (kind = "model" => model.refs = <<>>)
  BY <1>1 DEF LoanInv
<1>5. part' = IF ~HasPart THEN part
              ELSE [states |-> <<loan'>>,
                    commands |-> IF kind = "with_ik" THEN <<>> ELSE <<loan'>>]
  BY <1>1, <1>3, <1>4, OneLoan DEF Assigned, AssignState, AssignCommand
<1>6. /\ part' \in [states : Seq(1..MaxLoans), commands : Seq(1..MaxLoans)]
      /\ part'.states = IF HasPart THEN <<loan'>> ELSE <<>>
      /\ part'.commands = IF HasPart /\ kind # "with_ik" THEN <<loan'>> ELSE <<>>
  BY <1>3, <1>4, <1>5, OneLoan, SoundLemma DEF TypeOK
<1>7. Append(model.refs, loan') \in Seq(1..MaxLoans)
  BY <1>3, AppendProperties DEF TypeOK
<1>8. /\ model' \in [refs : Seq(1..MaxLoans), of : 0..MaxLoans]
      /\ kind = "model" => model'.refs = <<loan'>>
      /\ kind = "with_ik" => model'.refs # <<>>
  <2>1. Append(model.refs, loan') # <<>>
    <3>1. model.refs \in Seq(1..MaxLoans)
      BY DEF TypeOK
    <3>2. Append(model.refs, loan') # <<>>
      BY <1>3, <3>1, AppendProperties
    <3> QED  BY <3>2
  <2> QED  BY <1>1, <1>3, <1>4, <1>7, <2>1, OneLoan DEF TypeOK, AssignState, HasModel
<1>9. /\ motion' \in [first : BOOLEAN, origin : Poses \cup {NoPose}, start : 0..MaxTime,
                      elapsed : 0..MaxTime]
      /\ motion'.first = TRUE /\ motion'.elapsed = 0
      /\ It.origin = "activate" => motion'.origin = arm.at
      /\ motion'.start \in {arm.now, motion.start}
      /\ It.clock = "wall" => motion'.start = arm.now
  BY <1>1, <1>2 DEF Started, TypeOK
<1>10. NoCommand \in Commands
  BY <1>2 DEF NoCommand, Commands
<1>11. /\ out' \in [command : Commands \cup {Torn}, accepted : BOOLEAN, finished : BOOLEAN]
       /\ out'.command = NoCommand /\ out'.accepted = out.accepted
  BY <1>1, <1>10 DEF TypeOK
<1>12. TypeOK'
  <2>1. /\ kind' \in DOMAIN Controllers /\ life' \in {"inactive", "active", "crashed"}
        /\ ik' \in [asked : SUBSET Commands, desired : Commands]
        /\ arm' \in [at : Poses, now : 0..MaxTime] /\ loan' \in 0..MaxLoans
    BY <1>1, <1>3 DEF TypeOK
  <2> QED  BY <2>1, <1>6, <1>8, <1>9, <1>11 DEF TypeOK
<1>13. LoanInv'
  BY <1>1, <1>3, <1>6, <1>8 DEF LoanInv, HasPart, It
<1>14. MotionInv'
  <2>1. history' \in [activated : Poses \cup {NoPose}, updated : Poses \cup {NoPose}, since : Nat]
    BY <1>1, <1>2
  <2>2. history'.activated = arm.at /\ history'.updated = NoPose /\ history'.since = arm.now
    BY <1>1
  <2>3. motion'.start <= arm.now
    BY <1>2, <1>9 DEF MotionInv
  <2> QED  BY <1>1, <1>2, <1>9, <2>1, <2>2, <2>3 DEF MotionInv, It
<1>15. CommandsAccepted' /\ FollowsItsStart'
  BY <1>1, <1>11 DEF CommandsAccepted, FollowsItsStart
<1> QED  BY <1>12, <1>13, <1>14, <1>15

-------------------------------------------------------------------------------
(* The update.  The motion starts where it should, and its time has passed. *)
LEMMA MovesLemma ==
  ASSUME IInv, Cycle
  PROVE  /\ arm' \in [at : Poses, now : 0..MaxTime] /\ arm'.now = arm.now + 1
         /\ motion' \in [first : BOOLEAN, origin : Poses \cup {NoPose}, start : 0..MaxTime,
                         elapsed : 0..MaxTime]
         /\ MotionInv'
         /\ motion'.elapsed <= arm'.now - history'.since
         /\ It.origin = "activate" => motion'.origin = history'.activated
         /\ It.origin = "update" => motion'.origin = history'.updated
<1> USE DEF IInv
<1>1. /\ life = "active" /\ arm.now < MaxTime /\ Moves
      /\ arm' \in [at : Poses, now : {arm.now + 1}]
      /\ history' = [history EXCEPT !.updated = IF @ = NoPose THEN arm'.at ELSE @]
      /\ UNCHANGED <<kind, loan, part>>
  BY DEF Cycle, Read
<1>2. arm.now \in 0..MaxTime /\ MaxTime \in Nat
  BY ControllerAssumption DEF TypeOK
<1>3. arm'.at \in Poses /\ arm'.now = arm.now + 1 /\ arm' \in [at : Poses, now : 0..MaxTime]
  BY <1>1, <1>2
<1>4. motion \in [first : BOOLEAN, origin : Poses \cup {NoPose}, start : 0..MaxTime,
                 elapsed : 0..MaxTime]
  BY DEF TypeOK
<1>5. /\ history.since \in Nat /\ history.since <= arm.now /\ motion.start <= arm.now
      /\ motion.elapsed <= arm.now - history.since
      /\ ~motion.first /\ It.clock = "robot" => history.since <= motion.start
      /\ It.clock = "wall" => history.since <= motion.start
  BY <1>1 DEF MotionInv
<1>6. PICK pose \in Origins :
        motion' = [first |-> FALSE, origin |-> pose, elapsed |-> Elapsed,
                   start |-> IF motion.first /\ It.clock = "robot" THEN arm'.now ELSE motion.start]
  BY <1>1 DEF Moves
<1>7. IF motion.first /\ It.origin = "update" THEN pose = arm'.at ELSE pose = motion.origin
  <2>1. CASE ~(motion.first /\ It.origin = "update")
    BY <1>6, <2>1 DEF Origins
  <2>2. CASE motion.first /\ It.origin = "update" /\ ~HasPart
    BY <1>6, <2>2 DEF Origins
  <2>3. CASE motion.first /\ It.origin = "update" /\ HasPart
    <3>1. part.states = <<loan>>
      BY <1>1, <2>3 DEF LoanInv
    <3>2. Head(part.states) = loan
      BY <3>1
    <3> QED  BY <1>6, <2>3, <3>2 DEF Origins, Current
  <2> QED  BY <2>1, <2>2, <2>3
<1>8. Elapsed \in 0..MaxTime /\ Elapsed <= arm'.now - history.since
  <2>1. It.clock \in {"none", "robot", "period", "wall"}
    BY SoundLemma DEF TypeOK, Sound
  <2>2. motion.start \in Nat /\ motion.elapsed \in Nat
    BY <1>4
  <2>3. CASE It.clock = "robot" /\ motion.first
    <3>1. Elapsed = 0
      BY <2>3 DEF Elapsed
    <3> QED  BY <1>2, <1>3, <1>5, <3>1
  <2>4. CASE (It.clock = "robot" /\ ~motion.first) \/ It.clock = "wall"
    <3>1. Elapsed = arm'.now - motion.start
      BY <2>4 DEF Elapsed
    <3> QED  BY <1>1, <1>2, <1>3, <1>5, <2>2, <2>4, <3>1
  <2>5. CASE It.clock = "period"
    <3>1. Elapsed = motion.elapsed + 1
      BY <2>5 DEF Elapsed
    <3> QED  BY <1>1, <1>2, <1>3, <1>5, <2>2, <3>1
  <2>6. CASE It.clock = "none"
    <3>1. Elapsed = 0
      BY <2>6 DEF Elapsed
    <3> QED  BY <1>2, <1>3, <1>5, <3>1
  <2> QED  BY <2>1, <2>3, <2>4, <2>5, <2>6
<1>9. /\ motion'.first = FALSE /\ motion'.origin = pose /\ motion'.elapsed = Elapsed
      /\ motion'.start = IF motion.first /\ It.clock = "robot" THEN arm'.now ELSE motion.start
  BY <1>6
<1>10. motion' \in [first : BOOLEAN, origin : Poses \cup {NoPose}, start : 0..MaxTime,
                   elapsed : 0..MaxTime]
  <2>1. pose \in Poses \cup {NoPose}
    BY <1>3, <1>4, <1>7
  <2>2. motion'.start \in 0..MaxTime
    BY <1>3, <1>4, <1>9
  <2> QED  BY <1>6, <1>8, <1>9, <2>1, <2>2
<1>11. /\ history' \in [activated : Poses \cup {NoPose}, updated : Poses \cup {NoPose}, since : Nat]
       /\ history'.since = history.since /\ history'.activated = history.activated
       /\ history'.updated = IF history.updated = NoPose THEN arm'.at ELSE history.updated
  BY <1>1, <1>3 DEF MotionInv
<1>12. history'.updated # NoPose
  BY <1>3, <1>11, ControllerAssumption
<1>13. It.origin = "activate" => pose = history'.activated
  BY <1>1, <1>7, <1>11 DEF MotionInv
<1>14. It.origin = "update" => pose = history'.updated
  <2>1. motion.first <=> history.updated = NoPose
    BY <1>1 DEF MotionInv
  <2> QED  BY <1>1, <1>7, <1>11, <2>1 DEF MotionInv
<1>15. motion'.start <= arm'.now /\ history'.since <= arm'.now
  <2>1. motion.start \in Nat
    BY <1>4
  <2> QED  BY <1>2, <1>3, <1>5, <1>9, <1>11, <2>1
<1>16. It.clock \in {"robot", "wall"} => history'.since <= motion'.start
  <2>1. motion.start \in Nat
    BY <1>4
  <2>2. CASE motion.first /\ It.clock = "robot"
    BY <1>2, <1>3, <1>5, <1>9, <1>11, <2>2
  <2>3. CASE ~(motion.first /\ It.clock = "robot")
    BY <1>5, <1>9, <1>11, <2>3
  <2> QED  BY <2>2, <2>3
<1>17. MotionInv'
  <2>1. It' = It
    BY <1>1 DEF It
  <2> QED  BY <1>8, <1>9, <1>11, <1>12, <1>13, <1>14, <1>15, <1>16, <2>1 DEF MotionInv
<1> QED  BY <1>3, <1>8, <1>9, <1>10, <1>11, <1>13, <1>14, <1>17

LEMMA CommandedLemma ==
  ASSUME IInv, Cycle
  PROVE  /\ Commanded \in Commands
         /\ Commanded.from \in {NoPose, IF It.origin = "activate" THEN history'.activated
                                        ELSE history'.updated}
         /\ Commanded.elapsed <= arm'.now - history'.since
<1>1. /\ motion' \in [first : BOOLEAN, origin : Poses \cup {NoPose}, start : 0..MaxTime,
                      elapsed : 0..MaxTime]
      /\ motion'.elapsed <= arm'.now - history'.since
      /\ It.origin = "activate" => motion'.origin = history'.activated
      /\ It.origin = "update" => motion'.origin = history'.updated
  BY MovesLemma
<1>2. /\ Commanded.elapsed = motion'.elapsed
      /\ Commanded.from = IF It.origin = "none" THEN NoPose ELSE motion'.origin
  BY DEF Commanded
<1>3. Commanded \in Commands
  BY <1>1 DEF Commanded, Commands
<1>4. It.origin \in {"none", "activate", "update"}
  BY SoundLemma DEF IInv, TypeOK, Sound
<1> QED  BY <1>1, <1>2, <1>3, <1>4

(* No getter throws, and the component takes the command.                   *)
LEMMA AcceptedLemma ==
  ASSUME IInv, life = "active", HasPart, kind # "with_ik"
  PROVE  ~Throws /\ SetCommand(It.part, It.sends, It.elbow, part.commands)
<1>1. Sound(It)
  BY SoundLemma DEF IInv, TypeOK
<1>2. ~Throws
  BY <1>1 DEF Throws, ElbowThrows, Sound
<1>3. It.sends = It.elbow /\ It.elbow \in BOOLEAN
  BY <1>1 DEF Sound, HasPart
<1>4. part.commands = <<loan>> /\ Len(<<loan>>) = 1
  BY DEF IInv, LoanInv
<1>5. PoseSize(It.elbow) \in Nat /\ VelocitySize(It.elbow) \in Nat
  BY <1>3 DEF PoseSize, VelocitySize
<1>6. SetValues(PoseSize(It.elbow), part.commands, PoseSize(It.elbow))
      /\ SetValues(VelocitySize(It.elbow), part.commands, VelocitySize(It.elbow))
  BY <1>4, <1>5 DEF SetValues
<1> QED  BY <1>2, <1>3, <1>6 DEF SetCommand, PoseCommand, VelocityCommand

LEMMA CycleLemma ==
  ASSUME IInv, Cycle
  PROVE  IInv'
<1>1. /\ life = "active" /\ UNCHANGED <<kind, loan, part>> /\ It' = It /\ HasPart' = HasPart
      /\ CommandJoints \/ CommandCartesian \/ ReadModel \/ CommandWithIK
  BY DEF Cycle, It, HasPart
<1>2. /\ arm' \in [at : Poses, now : 0..MaxTime] /\ arm'.now = arm.now + 1
      /\ motion' \in [first : BOOLEAN, origin : Poses \cup {NoPose}, start : 0..MaxTime,
                      elapsed : 0..MaxTime]
      /\ MotionInv'
  BY MovesLemma
<1>3. /\ out \in [command : Commands \cup {Torn}, accepted : BOOLEAN, finished : BOOLEAN]
      /\ ik \in [asked : SUBSET Commands, desired : Commands]
      /\ model \in [refs : Seq(1..MaxLoans), of : 0..MaxLoans]
      /\ out.accepted /\ loan \in 1..MaxLoans
  BY <1>1 DEF IInv, TypeOK, CommandsAccepted, LoanInv
<1>4. Commanded \in Commands
  BY CommandedLemma
(* What each of the four ways to command keeps.                             *)
<1> DEFINE Good == /\ out' \in [command : Commands \cup {Torn}, accepted : BOOLEAN,
                                finished : BOOLEAN]
                   /\ ik' \in [asked : SUBSET Commands, desired : Commands]
                   /\ model' \in [refs : Seq(1..MaxLoans), of : 0..MaxLoans]
                   /\ model'.refs = model.refs
                   /\ life' \in {"active", "crashed"}
                   /\ life' = "crashed" => kind = "with_ik" /\ StaleModel
                   /\ out'.accepted
                   /\ kind = "with_ik" \/ out'.command \in {out.command, NoCommand, Commanded}
<1>5. ASSUME CommandJoints PROVE Good
  <2>1. UNCHANGED <<life, model, ik>>
    BY <1>5 DEF CommandJoints
  <2>2. PICK over \in BOOLEAN :
          out' = [command |-> IF over THEN NoCommand ELSE Commanded,
                  accepted |-> TRUE, finished |-> out.finished \/ over]
    BY <1>5 DEF CommandJoints
  <2>3. (out.finished \/ over) \in BOOLEAN
    BY <1>3
  <2>4. /\ out' \in [command : Commands \cup {Torn}, accepted : BOOLEAN, finished : BOOLEAN]
        /\ out'.accepted /\ out'.command \in {NoCommand, Commanded}
    <3>1. NoCommand \in Commands
      BY ControllerAssumption DEF NoCommand, Commands
    <3> QED  BY <1>4, <2>2, <2>3, <3>1
  <2> QED  BY <1>1, <1>3, <2>1, <2>4
<1>6. ASSUME CommandCartesian PROVE Good
  <2>1. UNCHANGED <<model, ik>> /\ HasPart /\ kind # "with_ik"
    BY <1>6 DEF CommandCartesian
  <2>2. ~Throws /\ SetCommand(It.part, It.sends, It.elbow, part.commands)
    BY <1>1, <2>1, AcceptedLemma
  <2>3. UNCHANGED life /\ out' = [out EXCEPT !.accepted = TRUE, !.command = Commanded]
    BY <1>6, <2>2 DEF CommandCartesian
  <2>4. /\ out' \in [command : Commands \cup {Torn}, accepted : BOOLEAN, finished : BOOLEAN]
        /\ out'.accepted /\ out'.command = Commanded
    BY <1>3, <1>4, <2>3
  <2> QED  BY <1>1, <1>3, <2>1, <2>3, <2>4
<1>7. ASSUME UsesModel, kind \in {"model", "with_ik"}
      PROVE  /\ model' \in [refs : Seq(1..MaxLoans), of : 0..MaxLoans] /\ model'.refs = model.refs
             /\ life' \in {"active", "crashed"}
             /\ life' = "crashed" => kind = "with_ik" /\ StaleModel
  <2>1. PICK of \in IF model.of # 0 THEN {model.of} ELSE Found(model.refs, loan) :
          /\ life' = IF of = 0 THEN "crashed" ELSE life
          /\ model' = [model EXCEPT !.of = of]
    BY <1>7 DEF UsesModel
  <2>2. model.refs # <<>> => Head(model.refs) \in 1..MaxLoans
    BY <1>3, HeadTailProperties
  <2>3. of \in 0..MaxLoans
    BY <1>3, <2>1, <2>2, ControllerAssumption DEF Found
  <2>4. kind = "model" => of # 0
    <3>1. kind = "model" => model.refs = <<loan>>
      BY <1>1 DEF IInv, LoanInv
    <3>2. Head(<<loan>>) = loan /\ <<loan>> # <<>> /\ loan # 0
      BY <1>3, OneLoan
    <3> QED  BY <2>1, <3>1, <3>2 DEF Found
  <2>5. kind = "with_ik" /\ of = 0 => StaleModel
    <3>1. kind = "with_ik" => model.refs # <<>>
      BY <1>1 DEF IInv, LoanInv
    <3> QED  BY <1>3, <2>1, <3>1 DEF Found, StaleModel
  <2> QED  BY <1>1, <1>3, <1>7, <2>1, <2>3, <2>4, <2>5
<1>8. ASSUME ReadModel PROVE Good
  BY <1>1, <1>3, <1>7, <1>8 DEF ReadModel
<1>9. ASSUME CommandWithIK PROVE Good
  <2>1. kind = "with_ik"
    BY <1>9 DEF CommandWithIK
  <2>2. ik' \in [asked : SUBSET Commands, desired : Commands]
    <3>1. (IF Cardinality(ik.asked) < MaxAsked THEN ik.asked \cup {Commanded} ELSE ik.asked)
            \in SUBSET Commands
      BY <1>3, <1>4
    <3>2. ik' = [ik EXCEPT !.asked = IF Cardinality(ik.asked) < MaxAsked
                                     THEN ik.asked \cup {Commanded} ELSE ik.asked]
      BY <1>9 DEF CommandWithIK
    <3> QED  BY <1>3, <3>1, <3>2
  <2>3. CASE UNCHANGED <<life, model, out>>
    BY <1>1, <1>3, <2>1, <2>2, <2>3
  <2>4. CASE ~UNCHANGED <<life, model, out>>
    <3>1. UsesModel /\ \E target \in Commands \cup {Torn} : out' = [out EXCEPT !.command = target]
      <4>1. ik.desired \in Commands
        BY <1>3
      <4> QED  BY <1>9, <2>4, <4>1 DEF CommandWithIK
    <3>2. /\ out' \in [command : Commands \cup {Torn}, accepted : BOOLEAN, finished : BOOLEAN]
          /\ out'.accepted
      BY <1>3, <3>1
    <3> QED  BY <1>7, <2>1, <2>2, <3>1, <3>2
  <2> QED  BY <2>3, <2>4
<1>10. Good
  BY <1>1, <1>5, <1>6, <1>8, <1>9
<1>11. TypeOK'
  BY <1>1, <1>2, <1>10 DEF IInv, TypeOK
<1>12. LoanInv'
  BY <1>1, <1>10 DEF IInv, LoanInv
<1>13. CommandsAccepted'
  BY <1>1, <1>10 DEF CommandsAccepted, StaleModel
<1>14. FollowsItsStart'
  <2> SUFFICES ASSUME out'.command # NoCommand, kind # "with_ik"
               PROVE  /\ out'.command.from \in {NoPose, IF It.origin = "activate"
                                                       THEN history'.activated
                                                       ELSE history'.updated}
                      /\ out'.command.elapsed <= arm'.now - history'.since
    BY <1>1 DEF FollowsItsStart
  <2>1. CASE out'.command = Commanded
    BY <2>1, CommandedLemma
  <2>2. CASE out'.command = out.command
    <3>1. /\ out.command.from \in {NoPose, IF It.origin = "activate" THEN history.activated
                                           ELSE history.updated}
          /\ out.command.elapsed <= arm.now - history.since
      BY <2>2 DEF IInv, FollowsItsStart
    <3>2. /\ history'.activated = history.activated /\ history'.since = history.since
          /\ history'.updated = history.updated \/ history.updated = NoPose
      BY DEF Cycle, IInv, MotionInv
    <3>3. arm.now \in Nat /\ history.since \in Nat /\ out.command.elapsed \in Int
      BY <1>3 DEF IInv, TypeOK, MotionInv, Commands, Torn
    <3> QED  BY <1>2, <2>2, <3>1, <3>2, <3>3
  <2> QED  BY <1>10, <2>1, <2>2
<1> QED  BY <1>2, <1>11, <1>12, <1>13, <1>14 DEF IInv

LEMMA StepLemma == IInv /\ [Next]_vars => IInv'
<1> SUFFICES ASSUME IInv, [Next]_vars PROVE IInv'
  OBVIOUS
<1>1. CASE UNCHANGED vars
  BY <1>1 DEF vars, IInv, TypeOK, LoanInv, HasPart, It, MotionInv, CommandsAccepted,
     StaleModel, FollowsItsStart
<1> QED
  BY <1>1, ReconfigureLemma, ActivateLemma, DeactivateLemma, CycleLemma, RestLemma, AnswerLemma
  DEF Next

(* The values of every variable keep their types.                           *)
THEOREM TypeCorrect == Spec => []TypeOK
<1>1. IInv => TypeOK
  BY DEF IInv
<1> QED  BY <1>1, InitLemma, StepLemma, PTL DEF Spec

(* However often a controller is activated, a motion continues from where   *)
(* the arm stood in this activation and is no further than the time since.  *)
THEOREM MotionFollows == Spec => []FollowsItsStart
<1>1. IInv => FollowsItsStart
  BY DEF IInv
<1> QED  BY <1>1, InitLemma, StepLemma, PTL DEF Spec

(* In no activation is a command refused, and no controller's update throws *)
(* but that of the one with inverse kinematics, on a robot model that still *)
(* refers to an earlier activation.                                         *)
THEOREM NothingRefused == Spec => []CommandsAccepted
<1>1. IInv => CommandsAccepted
  BY DEF IInv
<1> QED  BY <1>1, InitLemma, StepLemma, PTL DEF Spec

(* The interfaces a controller uses are those it was lent this time.        *)
THEOREM LoanUsed == Spec => []UsesItsLoan
<1>1. IInv => UsesItsLoan
  <2> SUFFICES ASSUME IInv PROVE UsesItsLoan
    OBVIOUS
  <2>1. \A s \in {<<>>, <<loan>>} : \A i \in DOMAIN s : s[i] = loan
    OBVIOUS
  <2>2. DOMAIN <<>> = {}
    OBVIOUS
  <2>3. CASE life = "active"
    BY <2>1, <2>3 DEF IInv, LoanInv, UsesItsLoan
  <2>4. CASE life = "inactive"
    BY <2>2, <2>4 DEF IInv, LoanInv, UsesItsLoan
  <2>5. CASE life = "crashed"
    BY <2>5 DEF UsesItsLoan
  <2> QED  BY <2>3, <2>4, <2>5 DEF IInv, TypeOK
<1> QED  BY <1>1, InitLemma, StepLemma, PTL DEF Spec
=============================================================================
