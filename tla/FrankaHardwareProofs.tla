------------------------- MODULE FrankaHardwareProofs -------------------------
(***************************************************************************)
(* Proofs about FrankaHardware for every set of controllers, whatever they *)
(* claim and whatever caller and robot may do; the last section is about   *)
(* controllers that claim all of a type or none of it, under any caller.   *)
(***************************************************************************)
EXTENDS FrankaHardware, FiniteSetTheorems, TLAPS

HwType == [claimed : SUBSET Types, running : SUBSET Types, first : SUBSET Gated]
RobotType == [flags : SUBSET Modes, control : Modes \union {NoControl},
              aborted : BOOLEAN, reflex : BOOLEAN]
SwitchType == [hw : HwType, robot : RobotType, zeroed : SUBSET Types,
               restarted : SUBSET Types, threw : BOOLEAN]

FlagsMatch(r) == r.flags = IF r.control = NoControl THEN {} ELSE {r.control}
ElbowHeld(h) == Elbow \in h.running => h.running \intersect Cart # {}

\* What every stage of perform_command_mode_switch keeps; f is the set of
\* first-update flags before the switch.
StageInv(s, f) ==
  /\ s \in SwitchType
  /\ FlagsMatch(s.robot)
  /\ ElbowHeld(s.hw)
  /\ f \subseteq s.hw.first
  /\ s.restarted \subseteq s.zeroed \union s.hw.first

\* The inductive invariant: a stale buffer still waits for its first read.
IInv ==
  /\ TypeOK
  /\ ControlMatchesFlags
  /\ ElbowNeedsCartesian
  /\ stale \subseteq hw.first
  /\ NoStaleSetpoint

-------------------------------------------------------------------------------
\* Every type has an interface, and the elbow is no mode.
LEMMA TypesLemma ==
  /\ \A t \in Types : Size[t] \in Nat /\ Size[t] > 0 /\ Rank[t] \in Nat
  /\ Elbow \notin Modes /\ Cart \subseteq Modes /\ Modes \subseteq Types /\ Elbow \in Types
<1> USE DEF Types, Modes, Joint, Cart, Effort, JVel, JPos, Elbow, CVel, CPose
<1>1. \A t \in Types : Size[t] \in Nat /\ Size[t] > 0  BY DEF Size
<1>2. \A t \in Types : Rank[t] \in Nat  BY DEF Rank
<1> QED  BY <1>1, <1>2

LEMMA StopRobotLemma ==
  ASSUME NEW r \in RobotType, FlagsMatch(r)
  PROVE  /\ StopRobot(r) \in RobotType
         /\ StopRobot(r).flags = {}
         /\ StopRobot(r).control = NoControl
  BY DEF StopRobot, RobotType, FlagsMatch, NoControl, Modes, Joint, Cart

LEMMA StartControlLemma ==
  ASSUME NEW r \in RobotType, r.flags = {}, NEW m \in Modes
  PROVE  StartControl(m, r) \in RobotType /\ FlagsMatch(StartControl(m, r))
  BY DEF StartControl, RobotType, FlagsMatch, NoControl, Modes, Joint, Cart,
         Effort, JVel, JPos, CVel, CPose

LEMMA StartModeLemma ==
  ASSUME NEW f, NEW s, StageInv(s, f), NEW m \in Modes
  PROVE  StageInv(StartMode(m, s), f)
<1> DEFINE t == StartMode(m, s)
<1>1. t.robot = StartControl(m, StopRobot(s.robot))
  BY DEF StartMode, StageInv, SwitchType
<1>2. t.robot \in RobotType /\ FlagsMatch(t.robot)
  BY <1>1, StopRobotLemma, StartControlLemma DEF StageInv, SwitchType
<1>3. Started(m, s.hw) \subseteq Types /\ m \in Started(m, s.hw)
  BY DEF Started, Types
<1>4. /\ t.hw.running = s.hw.running \union Started(m, s.hw)
      /\ t.hw.first = s.hw.first \union (Started(m, s.hw) \intersect Gated)
      /\ t.hw.claimed = s.hw.claimed
      /\ t.zeroed = s.zeroed \union ({m} \ Gated)
      /\ t.restarted = s.restarted \union Started(m, s.hw)
      /\ t.threw = FALSE
      /\ t.hw \in HwType
  BY <1>3 DEF StartMode, StageInv, SwitchType, HwType
<1>5. t \in SwitchType
  BY <1>2, <1>3, <1>4 DEF StartMode, StageInv, SwitchType, Types
<1>6. ElbowHeld(t.hw)
  BY <1>4 DEF ElbowHeld, StageInv, Started, StartsElbow, Elbow, Modes, Joint, Cart,
              Effort, JVel, JPos, CVel, CPose
<1>7. t.restarted \subseteq t.zeroed \union t.hw.first
  BY <1>4 DEF StageInv, Started, Gated
<1> QED  BY <1>2, <1>4, <1>5, <1>6, <1>7 DEF StageInv

LEMMA StartFailsLemma ==
  ASSUME NEW f, NEW s, StageInv(s, f), NEW m \in Modes
  PROVE  StageInv(StartFails(m, s), f)
<1> DEFINE t == StartFails(m, s)
<1>1. /\ t.robot = StopRobot(s.robot)
      /\ t.hw = s.hw
      /\ t.zeroed = s.zeroed \union ({m} \ Gated)
      /\ t.restarted = s.restarted
      /\ t.threw = TRUE
  BY DEF StartFails, StageInv, SwitchType
<1>2. t.robot \in RobotType /\ FlagsMatch(t.robot)
  BY <1>1, StopRobotLemma DEF StageInv, SwitchType, FlagsMatch
<1>3. t \in SwitchType
  BY <1>1, <1>2 DEF StartFails, StageInv, SwitchType, Types
<1> QED  BY <1>1, <1>2, <1>3 DEF StageInv

LEMMA StopModeLemma ==
  ASSUME NEW f, NEW s, StageInv(s, f), NEW m \in Modes
  PROVE  StageInv(StopMode(m, s), f)
<1> DEFINE t == StopMode(m, s)
           gone == DropsElbow(m, s.hw)
<1>1. /\ t.robot = StopRobot(s.robot)
      /\ t.hw.running = s.hw.running \ ({m} \union gone)
      /\ t.hw.claimed = s.hw.claimed \ gone
      /\ t.hw.first = s.hw.first
      /\ t.hw \in HwType
      /\ t.zeroed = s.zeroed
      /\ t.restarted = s.restarted
      /\ t.threw = FALSE
  BY DEF StopMode, StageInv, SwitchType, HwType
<1>2. t.robot \in RobotType /\ FlagsMatch(t.robot)
  BY <1>1, StopRobotLemma DEF StageInv, SwitchType, FlagsMatch
<1>3. t \in SwitchType
  BY <1>1, <1>2 DEF StopMode, StageInv, SwitchType
<1>4. ElbowHeld(t.hw)
  BY <1>1 DEF ElbowHeld, StageInv, DropsElbow, Cart, Modes
<1> QED  BY <1>1, <1>2, <1>3, <1>4 DEF StageInv

\* What one stage does with mode m.
LEMMA StageCases ==
  ASSUME NEW m, NEW s, NEW failing
  PROVE  /\ s.threw => Stage(m, s, failing) = s
         /\ ~s.threw /\ m \in s.hw.claimed \ s.hw.running =>
              Stage(m, s, failing) = IF m \in failing THEN StartFails(m, s) ELSE StartMode(m, s)
         /\ ~s.threw /\ m \in s.hw.running \ s.hw.claimed =>
              Stage(m, s, failing) = StopMode(m, s)
         /\ m \notin s.hw.claimed \ s.hw.running /\ m \notin s.hw.running \ s.hw.claimed =>
              Stage(m, s, failing) = s
<1> DEFINE asked == m \in s.hw.claimed \ s.hw.running
           runs == m \in s.hw.running \ s.hw.claimed
<1>1. ~(asked /\ runs)
  OBVIOUS
<1>2. Stage(m, s, failing) =
        IF s.threw THEN s
        ELSE IF asked THEN IF m \in failing THEN StartFails(m, s) ELSE StartMode(m, s)
        ELSE IF runs THEN StopMode(m, s)
        ELSE s
  BY Zenon DEF Stage
<1> HIDE DEF asked, runs
<1> SUFFICES /\ s.threw => Stage(m, s, failing) = s
             /\ ~s.threw /\ asked =>
                  Stage(m, s, failing) = IF m \in failing THEN StartFails(m, s) ELSE StartMode(m, s)
             /\ ~s.threw /\ runs => Stage(m, s, failing) = StopMode(m, s)
             /\ ~asked /\ ~runs => Stage(m, s, failing) = s
  BY Zenon DEF asked, runs
<1> QED  BY <1>1, <1>2

LEMMA StageLemma ==
  ASSUME NEW f, NEW s, StageInv(s, f), NEW m \in Modes, NEW failing
  PROVE  StageInv(Stage(m, s, failing), f)
<1>1. Stage(m, s, failing) \in {s, StartFails(m, s), StartMode(m, s), StopMode(m, s)}
  BY StageCases
<1>2. /\ StageInv(StartFails(m, s), f) /\ StageInv(StartMode(m, s), f)
      /\ StageInv(StopMode(m, s), f)
  BY StartModeLemma, StartFailsLemma, StopModeLemma
<1> QED  BY <1>1, <1>2

LEMMA StagesLemma ==
  ASSUME NEW f, NEW s, StageInv(s, f), NEW failing
  PROVE  StageInv(Stages(s, failing), f)
<1> DEFINE s1 == Stage(Effort, s, failing)
           s2 == Stage(JVel, s1, failing)
           s3 == Stage(JPos, s2, failing)
           s4 == Stage(CVel, s3, failing)
<1>0. {Effort, JVel, JPos, CVel, CPose} \subseteq Modes
  BY DEF Modes, Joint, Cart
<1>1. StageInv(s1, f)  BY <1>0, StageLemma
<1>2. StageInv(s2, f)  BY <1>0, <1>1, StageLemma
<1>3. StageInv(s3, f)  BY <1>0, <1>2, StageLemma
<1>4. StageInv(s4, f)  BY <1>0, <1>3, StageLemma
<1> HIDE DEF s1, s2, s3, s4
<1>5. StageInv(Stage(CPose, s4, failing), f)  BY <1>0, <1>4, StageLemma
<1> QED  BY <1>5 DEF Stages, s1, s2, s3, s4

-------------------------------------------------------------------------------
(* What write hands to the robot *)

LEMMA ToWriteLemma ==
  ASSUME NEW run \in SUBSET Types, NEW first \in SUBSET Gated
  PROVE  /\ ToWrite(run, first) \subseteq Types
         /\ ToWrite(run, first) \intersect first = {}
  BY DEF ToWrite, Gated, Types, Modes, Joint, Cart, Effort, JVel, JPos, Elbow, CVel, CPose

LEMMA ReceiverLemma ==
  ASSUME NEW r \in RobotType, FlagsMatch(r), NEW cmd
  PROVE  Receiver(cmd, r.flags) \in Modes \union {NoControl}
<1>1. \A t \in Joint : {t} \intersect Joint = {t} /\ Rank[t] \in Nat
  BY DEF Rank, Joint, Effort, JVel, JPos, Elbow, CVel, CPose, Types, Modes, Cart
<1>2. CASE r.flags \intersect Joint = {}
  BY <1>2 DEF Receiver, Modes, Cart
<1>3. CASE r.flags \intersect Joint # {}
  <2> DEFINE J == r.flags \intersect Joint
  <2>1. J = {r.control} /\ r.control \in Joint
    BY <1>3 DEF FlagsMatch, RobotType
  <2>2. r.control \in J /\ \A u \in J : Rank[r.control] <= Rank[u]
    BY <1>1, <2>1
  <2>3. (CHOOSE t \in J : \A u \in J : Rank[t] <= Rank[u]) \in J
    BY <2>2
  <2> QED  BY <2>3 DEF Receiver, Modes, Cart
<1> QED  BY <1>2, <1>3

LEMMA WriteOutcomeLemma ==
  ASSUME TypeOK, ControlMatchesFlags
  PROVE  /\ WriteOutcome.op = "write"
         /\ WriteOutcome.res \in Outcomes
         /\ WriteOutcome.cmd \subseteq Types
         /\ WriteOutcome.cmd \intersect hw.first = {}
         /\ WriteOutcome.to \in Modes \union {NoControl}
         /\ WriteOutcome = [op |-> WriteOutcome.op, res |-> WriteOutcome.res,
                            cmd |-> WriteOutcome.cmd, to |-> WriteOutcome.to]
<1> DEFINE cmd == ToWrite(hw.running, hw.first)
           to == Receiver(cmd, robot.flags)
<1>1. cmd \subseteq Types /\ cmd \intersect hw.first = {}
  BY ToWriteLemma DEF TypeOK
<1>2. to \in Modes \union {NoControl}
  BY ReceiverLemma DEF TypeOK, RobotType, ControlMatchesFlags, FlagsMatch
<1>3. WriteResult(to) \in Outcomes
  BY DEF WriteResult, Outcomes
<1> HIDE DEF to
<1>4. RobotWrite(cmd) = [op |-> "write", res |-> WriteResult(to), cmd |-> cmd, to |-> to]
  BY DEF RobotWrite, to
<1> HIDE DEF cmd
<1>5. WriteOutcome = IF Infinite THEN Result("write", "error")
                     ELSE IF cmd = {} THEN Result("write", "idle")
                     ELSE RobotWrite(cmd)
  BY DEF WriteOutcome, cmd
<1> QED  BY <1>1, <1>2, <1>3, <1>4, <1>5 DEF Result, Outcomes

-------------------------------------------------------------------------------
(* The inductive invariant *)

LEMMA InitIInv == Init => IInv
  BY DEF Init, IInv, TypeOK, ControlMatchesFlags, ElbowNeedsCartesian, NoStaleSetpoint,
         Result, NoSwitch, Outcomes

LEMMA PrepareIInv ==
  ASSUME IInv, NEW start \in SUBSET Controllers, NEW stop \in SUBSET Controllers,
         Prepare(start, stop)
  PROVE  IInv'
<1> DEFINE starts == Counts(start)
           stops == Counts(stop)
           claimed == (hw.claimed \ Unclaimed(starts, stops)) \union NewlyClaimed(starts, stops)
<1>1. UNCHANGED <<robot, bad, stale, life, phase, loaded>>
  BY DEF Prepare
<1>2. /\ hw'.running = hw.running
      /\ hw'.first = hw.first
      /\ hw' \in HwType
  <2>1. NewlyClaimed(starts, stops) \subseteq Types
    BY DEF NewlyClaimed
  <2> HIDE DEF starts, stops
  <2>2. hw' = hw \/ hw' = [hw EXCEPT !.claimed = claimed]
    BY DEF Prepare, starts, stops
  <2> QED  BY <2>1, <2>2 DEF IInv, TypeOK, HwType
<1>3. pending' \in [start : SUBSET Controllers, stop : SUBSET Controllers]
  BY DEF Prepare, NoSwitch, IInv, TypeOK
<1>4. \E res \in {"ok", "error", "throw"} : out' = Result("prepare", res)
  BY DEF Prepare
<1> QED
  BY <1>1, <1>2, <1>3, <1>4
     DEF IInv, TypeOK, HwType, ControlMatchesFlags, ElbowNeedsCartesian, NoStaleSetpoint,
         Result, Outcomes

LEMMA PerformIInv ==
  ASSUME IInv, NEW failing, Perform(failing)
  PROVE  IInv'
<1> DEFINE s0 == [hw |-> hw, robot |-> robot, zeroed |-> {}, restarted |-> {},
                  threw |-> FALSE]
           s == Stages(s0, failing)
<1>1. StageInv(s0, hw.first)
  BY DEF StageInv, IInv, TypeOK, SwitchType, HwType, RobotType, FlagsMatch, ElbowHeld,
         ControlMatchesFlags, ElbowNeedsCartesian
<1>2. StageInv(s, hw.first)
  BY <1>1, StagesLemma
<1> HIDE DEF s
<1>3. /\ hw' = s.hw
      /\ robot' = s.robot
      /\ bad' = bad \ s.zeroed
      /\ stale' = (stale \union s.restarted) \ s.zeroed
      /\ out' = Result("perform", PerformResult(s))
      /\ loaded' = (loaded \ pending.stop) \union pending.start
      /\ pending' = NoSwitch
      /\ UNCHANGED <<life, phase>>
  BY DEF Perform, s
<1>4. PerformResult(s) \in {"ok", "error", "throw"}
  BY DEF PerformResult
<1>5. stale' \subseteq hw'.first
  BY <1>2, <1>3 DEF StageInv, IInv
<1>6. TypeOK'
  BY <1>2, <1>3, <1>4 DEF IInv, TypeOK, StageInv, SwitchType, HwType, RobotType, NoSwitch,
                          Result, Outcomes
<1>7. ControlMatchesFlags' /\ ElbowNeedsCartesian'
  BY <1>2, <1>3 DEF StageInv, FlagsMatch, ElbowHeld, ControlMatchesFlags, ElbowNeedsCartesian
<1>8. NoStaleSetpoint'
  BY <1>3, <1>4 DEF NoStaleSetpoint, Result
<1> QED  BY <1>5, <1>6, <1>7, <1>8 DEF IInv

LEMMA DoReadIInv ==
  ASSUME IInv, NEW op \in {"read", "activate"}, DoRead(op),
         UNCHANGED <<robot, pending, loaded>>,
         life' \in {"inactive", "active", "finalized"},
         phase' \in {"read", "update", "updated"}
  PROVE  IInv'
<1>1. /\ hw' \in HwType
      /\ hw'.running = hw.running
      /\ hw'.first = hw.first \ Seeded
  BY DEF DoRead, IInv, TypeOK, HwType
<1>2. out' = Result(op, "ok") /\ bad' = bad \ Seeded /\ stale' = stale \ Seeded
  BY DEF DoRead
<1> QED
  BY <1>1, <1>2 DEF IInv, TypeOK, HwType, ControlMatchesFlags, ElbowNeedsCartesian,
                    NoStaleSetpoint, Result, Outcomes

LEMMA UpdateIInv ==
  ASSUME IInv, NEW writers, NEW broken, Update(writers, broken),
         broken \subseteq writers, writers \subseteq Controllers
  PROVE  IInv'
<1>1. Written(broken) \subseteq Types
  BY DEF Written, Holds
<1> QED
  BY <1>1 DEF Update, IInv, TypeOK, ControlMatchesFlags, ElbowNeedsCartesian, NoStaleSetpoint

LEMMA WriteIInv ==
  ASSUME IInv, Write
  PROVE  IInv'
<1>1. /\ out'.op = "write"
      /\ out'.res \in Outcomes
      /\ out'.cmd \subseteq Types
      /\ out'.cmd \intersect hw.first = {}
      /\ out'.to \in Modes \union {NoControl}
      /\ out' = [op |-> out'.op, res |-> out'.res, cmd |-> out'.cmd, to |-> out'.to]
  BY WriteOutcomeLemma DEF Write, IInv
<1>2. life' \in {"inactive", "active", "finalized"} /\ phase' = "read"
  BY DEF Write, IInv, TypeOK
<1>3. UNCHANGED <<hw, robot, bad, stale, pending, loaded>>
  BY DEF Write
<1>4. out' \in [op : {"init", "prepare", "perform", "read", "write", "activate", "deactivate"},
                res : Outcomes, cmd : SUBSET Types, to : Modes \union {NoControl}]
  BY <1>1
<1>5. TypeOK'
  BY <1>2, <1>3, <1>4 DEF IInv, TypeOK
<1>6. NoStaleSetpoint'
  BY <1>1, <1>3 DEF IInv, NoStaleSetpoint
<1> QED  BY <1>3, <1>5, <1>6 DEF IInv, ControlMatchesFlags, ElbowNeedsCartesian

LEMMA RobotIInv ==
  ASSUME IInv, ReadThrows \/ Deactivate \/ Reflex \/ ErrorRecovery
  PROVE  IInv'
<1>1. CASE ReadThrows
  BY <1>1 DEF ReadThrows, IInv, TypeOK, ControlMatchesFlags, ElbowNeedsCartesian,
              NoStaleSetpoint, Result, Outcomes
<1>2. CASE Deactivate
  <2>1. StopRobot(robot) \in RobotType /\ FlagsMatch(StopRobot(robot))
    BY StopRobotLemma DEF IInv, TypeOK, ControlMatchesFlags, FlagsMatch, RobotType
  <2> QED
    BY <1>2, <2>1 DEF Deactivate, IInv, TypeOK, ControlMatchesFlags, ElbowNeedsCartesian,
                      NoStaleSetpoint, Result, Outcomes, RobotType, FlagsMatch
<1>3. CASE Reflex \/ ErrorRecovery
  <2>1. robot \in RobotType  BY DEF IInv, TypeOK, RobotType
  <2>2. /\ robot' \in RobotType
        /\ robot'.flags = robot.flags /\ robot'.control = robot.control
    BY <1>3, <2>1 DEF Reflex, ErrorRecovery, RobotType
  <2>3. UNCHANGED <<hw, bad, stale, life, phase, pending, loaded, out>>
    BY <1>3 DEF Reflex, ErrorRecovery
  <2>4. TypeOK'  BY <2>2, <2>3 DEF IInv, TypeOK, RobotType
  <2>5. ControlMatchesFlags'  BY <2>2 DEF IInv, ControlMatchesFlags
  <2> QED  BY <2>3, <2>4, <2>5 DEF IInv, ElbowNeedsCartesian, NoStaleSetpoint
<1> QED  BY <1>1, <1>2, <1>3

LEMMA StepIInv == IInv /\ [Next]_vars => IInv'
<1> SUFFICES ASSUME IInv, [Next]_vars
             PROVE  IInv'
  OBVIOUS
<1>1. ASSUME NEW start \in SUBSET (Controllers \ loaded), NEW stop \in SUBSET loaded,
             Prepare(start, stop)
      PROVE  IInv'
  BY <1>1, PrepareIInv DEF IInv, TypeOK
<1>2. ASSUME NEW failing \in SUBSET Starting, Perform(failing)
      PROVE  IInv'
  BY <1>2, PerformIInv
<1>3. CASE Read
  BY <1>3, DoReadIInv DEF Read, IInv, TypeOK
<1>4. ASSUME NEW writers \in SUBSET loaded, NEW broken \in SUBSET writers,
             Update(writers, broken)
      PROVE  IInv'
  BY <1>4, UpdateIInv DEF IInv, TypeOK
<1>5. CASE Write
  BY <1>5, WriteIInv
<1>6. CASE Activate
  BY <1>6, DoReadIInv DEF Activate, IInv, TypeOK
<1>7. CASE ReadThrows \/ Deactivate \/ Reflex \/ ErrorRecovery
  BY <1>7, RobotIInv
<1>8. CASE UNCHANGED vars
  BY <1>8 DEF vars, IInv, TypeOK, ControlMatchesFlags, ElbowNeedsCartesian, NoStaleSetpoint
<1> QED  BY <1>1, <1>2, <1>3, <1>4, <1>5, <1>6, <1>7, <1>8 DEF Next

-------------------------------------------------------------------------------
\* Every reachable state satisfies the inductive invariant, for every set of
\* controllers and claims and everything the caller and the robot may do.
THEOREM Invariant == Spec => []IInv
  BY InitIInv, StepIInv, PTL DEF Spec

\* The variables keep their types (franka_hardware_interface.hpp:74-186).
THEOREM TypeCorrect == Spec => []TypeOK
<1>1. IInv => TypeOK  BY DEF IInv
<1> QED  BY <1>1, Invariant, PTL

\* At every moment the active flags of Robot name the one control that
\* libfranka runs, or none (robot.cpp:66-119, 298-356).
THEOREM FlagsCorrect == Spec => []ControlMatchesFlags
<1>1. IInv => ControlMatchesFlags  BY DEF IInv
<1> QED  BY <1>1, Invariant, PTL

\* The elbow runs only together with a Cartesian mode, also after refused
\* requests and failed switches (franka_hardware_interface.cpp:385-428).
THEOREM ElbowCorrect == Spec => []ElbowNeedsCartesian
<1>1. IInv => ElbowNeedsCartesian  BY DEF IInv
<1> QED  BY <1>1, Invariant, PTL

\* No value of an earlier activation is ever sent to the arm, whatever the order
\* of switches, reads, updates and writes (franka_hardware_interface.cpp:181-262).
THEOREM SetpointsFresh == Spec => []NoStaleSetpoint
<1>1. IInv => NoStaleSetpoint  BY DEF IInv
<1> QED  BY <1>1, Invariant, PTL

-------------------------------------------------------------------------------
(* What a switch leaves behind, for any caller and robot *)

\* libfranka never runs a control whose mode the component does not count as
\* running, and a motion is aborted only under a control.
ControlIsRunning ==
  /\ robot.control # NoControl => robot.control \in hw.running
  /\ robot.aborted => robot.control # NoControl

\* A switch that throws, at whatever stage, has stopped the robot.
ThrowStopsRobot ==
  out.op = "perform" /\ out.res = "throw" => robot.control = NoControl

\* The stages of the modes in done have been passed; asked are the modes claimed.
PassInv(s, asked, done) ==
  /\ s \in SwitchType
  /\ s.hw.claimed \intersect Modes = asked
  /\ s.robot.control # NoControl => s.robot.control \in s.hw.running
  /\ s.robot.aborted => s.robot.control # NoControl
  /\ s.threw => s.robot.control = NoControl
  /\ ~s.threw => \A m \in done : m \in s.hw.running <=> m \in s.hw.claimed

SwitchInv == IInv /\ ControlIsRunning /\ ThrowStopsRobot /\ SwitchServesClaims

\* stopRobot leaves no control and no aborted motion, startControl one control.
LEMMA ControlLemma ==
  ASSUME NEW r \in RobotType, r.aborted => r.control # NoControl
  PROVE  /\ StopRobot(r) \in RobotType
         /\ StopRobot(r).control = NoControl /\ ~StopRobot(r).aborted
         /\ \A m \in Modes : /\ StartControl(m, StopRobot(r)) \in RobotType
                             /\ StartControl(m, StopRobot(r)).control = m
                             /\ ~StartControl(m, StopRobot(r)).aborted
<1>1. /\ StopRobot(r) \in RobotType
      /\ StopRobot(r).control = NoControl /\ ~StopRobot(r).aborted
  BY DEF StopRobot, RobotType
<1>2. ASSUME NEW q \in RobotType, NEW m \in Modes
      PROVE  /\ StartControl(m, q) \in RobotType
             /\ StartControl(m, q).control = m /\ ~StartControl(m, q).aborted
  BY DEF StartControl, RobotType
<1> QED  BY <1>1, <1>2

LEMMA PassStage ==
  ASSUME NEW asked, NEW done \in SUBSET Modes, NEW m \in Modes,
         NEW s, PassInv(s, asked, done), NEW failing
  PROVE  PassInv(Stage(m, s, failing), asked, done \union {m})
<1> DEFINE t == Stage(m, s, failing)
<1> SUFFICES PassInv(t, asked, done \union {m})
  OBVIOUS
<1>1. /\ s \in SwitchType /\ s.hw \in HwType /\ s.robot \in RobotType /\ s.threw \in BOOLEAN
      /\ s.robot.aborted => s.robot.control # NoControl
      /\ m \in Types /\ Elbow \notin Modes
  BY TypesLemma DEF PassInv, SwitchType
<1>2. /\ StopRobot(s.robot) \in RobotType
      /\ StopRobot(s.robot).control = NoControl /\ ~StopRobot(s.robot).aborted
      /\ StartControl(m, StopRobot(s.robot)) \in RobotType
      /\ StartControl(m, StopRobot(s.robot)).control = m
      /\ ~StartControl(m, StopRobot(s.robot)).aborted
  BY <1>1, ControlLemma
<1>3. CASE s.threw
  <2>1. t = s  BY <1>3, StageCases
  <2> HIDE DEF t
  <2> QED  BY <1>3, <2>1 DEF PassInv
<1>4. CASE ~s.threw /\ m \in s.hw.claimed \ s.hw.running /\ m \in failing
  <2>1. t = StartFails(m, s)  BY <1>4, StageCases
  <2> HIDE DEF t
  <2>2. /\ t.robot = StopRobot(s.robot) /\ t.hw = s.hw /\ t.threw = TRUE
        /\ t.zeroed = s.zeroed \union ({m} \ Gated) /\ t.restarted = s.restarted
    BY <2>1 DEF StartFails
  <2>3. t \in SwitchType
    BY <1>1, <1>2, <2>1 DEF StartFails, SwitchType
  <2> QED  BY <1>2, <2>2, <2>3 DEF PassInv
<1>5. CASE ~s.threw /\ m \in s.hw.claimed \ s.hw.running /\ m \notin failing
  <2>1. t = StartMode(m, s)  BY <1>5, StageCases
  <2> HIDE DEF t
  <2>2. Started(m, s.hw) \subseteq Types /\ Started(m, s.hw) \intersect Modes = {m}
    BY <1>1 DEF Started, Types
  <2>3. /\ t.robot = StartControl(m, StopRobot(s.robot)) /\ t.threw = FALSE
        /\ t.hw.claimed = s.hw.claimed
        /\ t.hw.running = s.hw.running \union Started(m, s.hw)
        /\ t.hw.first = s.hw.first \union (Started(m, s.hw) \intersect Gated)
        /\ t.hw = [claimed |-> t.hw.claimed, running |-> t.hw.running, first |-> t.hw.first]
        /\ t.zeroed = s.zeroed \union ({m} \ Gated)
        /\ t.restarted = s.restarted \union Started(m, s.hw)
    BY <2>1 DEF StartMode
  <2>4. t.hw \in HwType
    BY <1>1, <2>2, <2>3 DEF HwType
  <2>5. t \in SwitchType
    BY <1>1, <1>2, <2>1, <2>2, <2>3, <2>4 DEF StartMode, SwitchType
  <2>6. \A n \in done \union {m} : n \in t.hw.running <=> n \in t.hw.claimed
    BY <1>5, <2>2, <2>3 DEF PassInv
  <2>7. t.robot.control \in t.hw.running /\ ~t.robot.aborted
    BY <1>2, <2>2, <2>3
  <2> QED  BY <2>3, <2>5, <2>6, <2>7 DEF PassInv
<1>6. CASE ~s.threw /\ m \in s.hw.running \ s.hw.claimed
  <2> DEFINE gone == DropsElbow(m, s.hw)
  <2>1. t = StopMode(m, s)  BY <1>6, StageCases
  <2>2. gone \subseteq {Elbow}  BY DEF DropsElbow
  <2> HIDE DEF t, gone
  <2>3. /\ t.robot = StopRobot(s.robot) /\ t.threw = FALSE
        /\ t.hw.claimed = s.hw.claimed \ gone
        /\ t.hw.running = s.hw.running \ ({m} \union gone)
        /\ t.hw.first = s.hw.first
        /\ t.hw = [claimed |-> t.hw.claimed, running |-> t.hw.running, first |-> t.hw.first]
    BY <2>1 DEF StopMode, gone
  <2>4. t.hw \in HwType
    BY <1>1, <2>3 DEF HwType
  <2>5. t \in SwitchType
    BY <1>1, <1>2, <2>1, <2>4 DEF StopMode, SwitchType
  <2>6. \A n \in done \union {m} : n \in t.hw.running <=> n \in t.hw.claimed
    BY <1>1, <1>6, <2>2, <2>3 DEF PassInv
  <2>7. t.robot.control = NoControl /\ ~t.robot.aborted
    BY <1>2, <2>3
  <2>8. t.hw.claimed \intersect Modes = s.hw.claimed \intersect Modes
    BY <1>1, <2>2, <2>3
  <2> QED  BY <2>3, <2>5, <2>6, <2>7, <2>8 DEF PassInv
<1>7. CASE /\ ~s.threw
           /\ m \notin s.hw.claimed \ s.hw.running /\ m \notin s.hw.running \ s.hw.claimed
  <2>1. t = s  BY <1>7, StageCases
  <2> HIDE DEF t
  <2> QED  BY <1>7, <2>1 DEF PassInv
<1> QED  BY <1>1, <1>3, <1>4, <1>5, <1>6, <1>7

LEMMA PassStages ==
  ASSUME NEW asked, NEW s, PassInv(s, asked, {}), NEW failing
  PROVE  PassInv(Stages(s, failing), asked, Modes)
<1> DEFINE s1 == Stage(Effort, s, failing)
           s2 == Stage(JVel, s1, failing)
           s3 == Stage(JPos, s2, failing)
           s4 == Stage(CVel, s3, failing)
           s5 == Stage(CPose, s4, failing)
           d1 == {} \union {Effort}
           d2 == d1 \union {JVel}
           d3 == d2 \union {JPos}
           d4 == d3 \union {CVel}
           d5 == d4 \union {CPose}
<1>1. {Effort, JVel, JPos, CVel, CPose} \subseteq Modes /\ d5 = Modes
  BY DEF Modes, Joint, Cart
<1>2. /\ d1 \subseteq Modes /\ d2 \subseteq Modes /\ d3 \subseteq Modes /\ d4 \subseteq Modes
  BY <1>1
<1> HIDE DEF d1, d2, d3, d4, d5
<1>3. PassInv(s1, asked, d1)  BY <1>1, PassStage DEF d1
<1>4. PassInv(s2, asked, d2)  BY <1>1, <1>2, <1>3, PassStage DEF d2
<1>5. PassInv(s3, asked, d3)  BY <1>1, <1>2, <1>4, PassStage DEF d3
<1>6. PassInv(s4, asked, d4)  BY <1>1, <1>2, <1>5, PassStage DEF d4
<1>7. PassInv(s5, asked, d5)  BY <1>1, <1>2, <1>6, PassStage DEF d5
<1> QED  BY <1>1, <1>7 DEF Stages

\* The switch as a whole.
LEMMA PerformPass ==
  ASSUME SwitchInv, NEW failing, Perform(failing)
  PROVE  \E s : /\ PassInv(s, hw.claimed \intersect Modes, Modes)
                /\ hw' = s.hw /\ robot' = s.robot
                /\ out' = Result("perform", PerformResult(s))
<1> DEFINE s0 == [hw |-> hw, robot |-> robot, zeroed |-> {}, restarted |-> {},
                  threw |-> FALSE]
           s == Stages(s0, failing)
<1>1. PassInv(s0, hw.claimed \intersect Modes, {})
  BY DEF PassInv, SwitchType, HwType, RobotType, SwitchInv, IInv, TypeOK, ControlIsRunning
<1>2. PassInv(s, hw.claimed \intersect Modes, Modes)
  BY <1>1, PassStages
<1>3. hw' = s.hw /\ robot' = s.robot /\ out' = Result("perform", PerformResult(s))
  BY DEF Perform
<1> HIDE DEF s
<1> QED  BY <1>2, <1>3

LEMMA PerformSwitchInv ==
  ASSUME SwitchInv, NEW failing, Perform(failing)
  PROVE  SwitchInv'
<1>1. PICK s : /\ PassInv(s, hw.claimed \intersect Modes, Modes)
               /\ hw' = s.hw /\ robot' = s.robot
               /\ out' = Result("perform", PerformResult(s))
  BY PerformPass
<1>2. out'.res = "throw" <=> s.threw
  BY <1>1 DEF Result, PerformResult
<1>3. ControlIsRunning' /\ ThrowStopsRobot'
  BY <1>1, <1>2 DEF PassInv, ControlIsRunning, ThrowStopsRobot
<1>4. SwitchServesClaims'
  BY <1>1, <1>2 DEF PassInv, SwitchServesClaims
<1> QED  BY <1>3, <1>4, PerformIInv DEF SwitchInv

LEMMA StepSwitchInv == SwitchInv /\ [Next]_vars => SwitchInv'
<1> SUFFICES ASSUME SwitchInv, [Next]_vars
             PROVE  SwitchInv'
  OBVIOUS
<1>1. IInv'  BY StepIInv DEF SwitchInv
<1>2. hw \in HwType /\ robot \in RobotType
  BY DEF SwitchInv, IInv, TypeOK, HwType, RobotType
<1>3. ASSUME hw'.running = hw.running, UNCHANGED robot, out'.op # "perform"
      PROVE  SwitchInv'
  BY <1>1, <1>3 DEF SwitchInv, ControlIsRunning, ThrowStopsRobot, SwitchServesClaims
<1>4. ASSUME UNCHANGED <<hw, out>>, robot'.control = robot.control,
             robot'.aborted => robot'.control # NoControl
      PROVE  SwitchInv'
  BY <1>1, <1>4 DEF SwitchInv, ControlIsRunning, ThrowStopsRobot, SwitchServesClaims
<1>5. ASSUME NEW start, NEW stop, Prepare(start, stop)
      PROVE  SwitchInv'
  <2>1. hw'.running = hw.running /\ UNCHANGED robot
    BY <1>2, <1>5 DEF Prepare, HwType
  <2>2. out'.op # "perform"
    BY <1>5 DEF Prepare, Result
  <2> QED  BY <1>3, <2>1, <2>2
<1>6. ASSUME NEW failing, Perform(failing)
      PROVE  SwitchInv'
  BY <1>6, PerformSwitchInv
<1>7. CASE Read \/ Activate
  <2>1. hw'.running = hw.running /\ UNCHANGED robot /\ out'.op # "perform"
    BY <1>2, <1>7 DEF Read, Activate, DoRead, Result, HwType
  <2> QED  BY <1>3, <2>1
<1>8. CASE ReadThrows
  <2>1. UNCHANGED <<hw, robot>> /\ out'.op # "perform"
    BY <1>8 DEF ReadThrows, Result
  <2> QED  BY <1>3, <2>1
<1>9. CASE Write
  <2>1. UNCHANGED <<hw, robot>> /\ out' = WriteOutcome
    BY <1>9 DEF Write
  <2>2. out'.op = "write"
    BY <2>1, WriteOutcomeLemma DEF SwitchInv, IInv
  <2> QED  BY <1>3, <2>1, <2>2
<1>10. CASE Deactivate
  <2>1. robot' = StopRobot(robot) /\ UNCHANGED hw /\ out'.op # "perform"
    BY <1>10 DEF Deactivate, Result
  <2>2. robot'.control = NoControl /\ ~robot'.aborted
    BY <1>2, <2>1, ControlLemma DEF SwitchInv, ControlIsRunning
  <2> QED
    BY <1>1, <2>1, <2>2 DEF SwitchInv, ControlIsRunning, ThrowStopsRobot, SwitchServesClaims
<1>11. CASE Reflex \/ ErrorRecovery
  <2>1. robot'.control = robot.control /\ (robot'.aborted => robot'.control # NoControl)
    BY <1>2, <1>11 DEF Reflex, ErrorRecovery, RobotType, SwitchInv, ControlIsRunning
  <2>2. UNCHANGED <<hw, out>>
    BY <1>11 DEF Reflex, ErrorRecovery
  <2> QED  BY <1>4, <2>1, <2>2
<1>12. CASE \/ UNCHANGED vars
            \/ \E writers \in SUBSET loaded : \E broken \in SUBSET writers :
                 Update(writers, broken)
  <2>1. UNCHANGED <<hw, robot, out>>
    BY <1>12 DEF Update, vars
  <2> QED  BY <1>4, <2>1 DEF SwitchInv, ControlIsRunning
<1> QED  BY <1>5, <1>6, <1>7, <1>8, <1>9, <1>10, <1>11, <1>12 DEF Next

THEOREM SwitchInvariant == Spec => []SwitchInv
<1>1. Init => SwitchInv
  BY InitIInv
     DEF SwitchInv, Init, ControlIsRunning, ThrowStopsRobot, SwitchServesClaims, Result
<1> QED  BY <1>1, StepSwitchInv, PTL DEF Spec

\* Whatever is switched, fails or is aborted, the control libfranka runs is that
\* of a running mode, so write feeds it or the mode is stopped with it
\* (franka_hardware_interface.cpp:296-455, robot.cpp:66-119).
THEOREM ControlRuns == Spec => []ControlIsRunning
<1>1. SwitchInv => ControlIsRunning  BY DEF SwitchInv
<1> QED  BY <1>1, SwitchInvariant, PTL

\* A start that fails twice leaves the arm without a control, also when earlier
\* stages of the same switch had started one (perform_command_mode_switch).
THEOREM FailedSwitchStops == Spec => []ThrowStopsRobot
<1>1. SwitchInv => ThrowStopsRobot  BY DEF SwitchInv
<1> QED  BY <1>1, SwitchInvariant, PTL

\* A switch that does not throw leaves exactly the claimed modes running, for
\* several controllers at once and any mix of starts and stops
\* (perform_command_mode_switch).
THEOREM ClaimsServed == Spec => []SwitchServesClaims
<1>1. SwitchInv => SwitchServesClaims  BY DEF SwitchInv
<1> QED  BY <1>1, SwitchInvariant, PTL

-------------------------------------------------------------------------------
(* Which control a switch leaves *)

\* The modes whose running flag the stages so far have changed, since h.
Differs(s, h) ==
  ((s.hw.running \ h.running) \union (h.running \ s.hw.running)) \intersect Modes

\* Unless a stage threw, the last change decides the control; r is the robot before.
TrackInv(s, h, r, done) ==
  ~s.threw =>
    /\ Differs(s, h) \subseteq done
    /\ Differs(s, h) = {} => s.robot = r
    /\ \A m \in Differs(s, h) :
         (\A n \in Differs(s, h) : Rank[n] <= Rank[m]) =>
           s.robot.control = IF m \in s.hw.running THEN m ELSE NoControl

LEMMA TrackStage ==
  ASSUME NEW asked, NEW done \in SUBSET Modes, NEW m \in Modes \ done,
         \A n \in done : Rank[n] < Rank[m],
         NEW h, NEW r, NEW s, PassInv(s, asked, done), TrackInv(s, h, r, done),
         NEW failing
  PROVE  TrackInv(Stage(m, s, failing), h, r, done \union {m})
<1> DEFINE t == Stage(m, s, failing)
<1> SUFFICES ASSUME ~t.threw
             PROVE  TrackInv(t, h, r, done \union {m})
  BY DEF TrackInv
<1>1. /\ s.robot \in RobotType
      /\ s.robot.aborted => s.robot.control # NoControl
      /\ Elbow \notin Modes /\ \A n \in Modes : Rank[n] \in Nat
  BY TypesLemma DEF PassInv, SwitchType
<1>2. /\ StopRobot(s.robot).control = NoControl
      /\ StartControl(m, StopRobot(s.robot)).control = m
  BY <1>1, ControlLemma
<1>3. ASSUME ~s.threw,
             t.hw.running \intersect Modes = (s.hw.running \intersect Modes) \union {m}
               \/ t.hw.running \intersect Modes = (s.hw.running \intersect Modes) \ {m},
             m \in t.hw.running <=> m \notin s.hw.running,
             t.robot.control = IF m \in t.hw.running THEN m ELSE NoControl
      PROVE  TrackInv(t, h, r, done \union {m})
  <2> HIDE DEF t
  <2>1. Differs(s, h) \subseteq done /\ m \notin Differs(s, h)
    BY <1>3 DEF TrackInv
  <2>2. Differs(t, h) = Differs(s, h) \union {m}
    BY <1>3, <2>1 DEF Differs
  <2>3. ASSUME NEW k \in Differs(t, h), \A n \in Differs(t, h) : Rank[n] <= Rank[k]
        PROVE  k = m
    <3>1. Rank[m] <= Rank[k]  BY <2>2, <2>3
    <3>2. k \in done => Rank[k] < Rank[m] /\ Rank[k] \in Nat /\ Rank[m] \in Nat
      BY <1>1
    <3> QED  BY <2>1, <2>2, <2>3, <3>1, <3>2
  <2> QED  BY <1>3, <2>1, <2>2, <2>3 DEF TrackInv
<1>4. ASSUME t = s
      PROVE  TrackInv(t, h, r, done \union {m})
  <2> HIDE DEF t
  <2> QED  BY <1>4 DEF TrackInv
<1>5. CASE s.threw \/ (/\ m \notin s.hw.claimed \ s.hw.running
                      /\ m \notin s.hw.running \ s.hw.claimed)
  <2>1. t = s  BY <1>5, StageCases
  <2> QED  BY <1>4, <2>1
<1>6. CASE ~s.threw /\ m \in s.hw.claimed \ s.hw.running
  <2>1. m \in failing => t = StartFails(m, s)  BY <1>6, StageCases
  <2>2. m \notin failing => t = StartMode(m, s)  BY <1>6, StageCases
  <2>3. StartFails(m, s).threw = TRUE  BY DEF StartFails
  <2>4. t = StartMode(m, s)  BY <2>1, <2>2, <2>3
  <2> HIDE DEF t
  <2>5. Started(m, s.hw) \intersect Modes = {m}
    BY <1>1 DEF Started
  <2>6. /\ t.hw.running = s.hw.running \union Started(m, s.hw)
        /\ t.robot = StartControl(m, StopRobot(s.robot))
    BY <2>4 DEF StartMode
  <2>7. /\ t.hw.running \intersect Modes = (s.hw.running \intersect Modes) \union {m}
        /\ m \in t.hw.running /\ m \notin s.hw.running
        /\ t.robot.control = m
    BY <1>2, <1>6, <2>5, <2>6
  <2> USE DEF t
  <2> QED  BY <1>3, <1>6, <2>7
<1>7. CASE ~s.threw /\ m \in s.hw.running \ s.hw.claimed
  <2>1. t = StopMode(m, s)  BY <1>7, StageCases
  <2> HIDE DEF t
  <2>2. DropsElbow(m, s.hw) \intersect Modes = {}
    BY <1>1 DEF DropsElbow
  <2>3. /\ t.hw.running = s.hw.running \ ({m} \union DropsElbow(m, s.hw))
        /\ t.robot = StopRobot(s.robot)
    BY <2>1 DEF StopMode
  <2>4. /\ t.hw.running \intersect Modes = (s.hw.running \intersect Modes) \ {m}
        /\ m \notin t.hw.running /\ m \in s.hw.running
        /\ t.robot.control = NoControl
    BY <1>2, <1>7, <2>2, <2>3
  <2> USE DEF t
  <2> QED  BY <1>3, <1>7, <2>4
<1> QED  BY <1>5, <1>6, <1>7

LEMMA TrackStages ==
  ASSUME NEW asked, NEW h, NEW r, NEW s, PassInv(s, asked, {}), TrackInv(s, h, r, {}),
         NEW failing
  PROVE  TrackInv(Stages(s, failing), h, r, Modes)
<1> DEFINE s1 == Stage(Effort, s, failing)
           s2 == Stage(JVel, s1, failing)
           s3 == Stage(JPos, s2, failing)
           s4 == Stage(CVel, s3, failing)
           s5 == Stage(CPose, s4, failing)
           d1 == {} \union {Effort}
           d2 == d1 \union {JVel}
           d3 == d2 \union {JPos}
           d4 == d3 \union {CVel}
           d5 == d4 \union {CPose}
<1>1. /\ Effort \in Modes /\ JVel \in Modes \ d1 /\ JPos \in Modes \ d2
      /\ CVel \in Modes \ d3 /\ CPose \in Modes \ d4 /\ d5 = Modes
      /\ d1 \subseteq Modes /\ d2 \subseteq Modes /\ d3 \subseteq Modes /\ d4 \subseteq Modes
  BY DEF Modes, Joint, Cart, Effort, JVel, JPos, CVel, CPose
<1>2. /\ Rank[Effort] = 1 /\ Rank[JVel] = 2 /\ Rank[JPos] = 3
      /\ Rank[CVel] = 5 /\ Rank[CPose] = 6
  BY DEF Rank, Types, Modes, Joint, Cart, Effort, JVel, JPos, Elbow, CVel, CPose
<1>3. /\ \A n \in d1 : Rank[n] < Rank[JVel]
      /\ \A n \in d2 : Rank[n] < Rank[JPos]
      /\ \A n \in d3 : Rank[n] < Rank[CVel]
      /\ \A n \in d4 : Rank[n] < Rank[CPose]
  BY <1>2
<1> HIDE DEF d1, d2, d3, d4, d5
<1>4. PassInv(s1, asked, d1) /\ TrackInv(s1, h, r, d1)
  BY <1>1, PassStage, TrackStage DEF d1
<1>5. PassInv(s2, asked, d2) /\ TrackInv(s2, h, r, d2)
  BY <1>1, <1>3, <1>4, PassStage, TrackStage DEF d2
<1>6. PassInv(s3, asked, d3) /\ TrackInv(s3, h, r, d3)
  BY <1>1, <1>3, <1>5, PassStage, TrackStage DEF d3
<1>7. PassInv(s4, asked, d4) /\ TrackInv(s4, h, r, d4)
  BY <1>1, <1>3, <1>6, PassStage, TrackStage DEF d4
<1>8. TrackInv(s5, h, r, d5)
  BY <1>1, <1>3, <1>7, TrackStage DEF d5
<1> QED  BY <1>1, <1>8 DEF Stages

LEMMA PerformLeavesControl ==
  ASSUME SwitchInv, NEW failing, Perform(failing)
  PROVE  LeavesControl
<1> DEFINE s0 == [hw |-> hw, robot |-> robot, zeroed |-> {}, restarted |-> {},
                  threw |-> FALSE]
           s == Stages(s0, failing)
<1>1. PassInv(s0, hw.claimed \intersect Modes, {})
  BY DEF PassInv, SwitchType, HwType, RobotType, SwitchInv, IInv, TypeOK, ControlIsRunning
<1>2. PassInv(s, hw.claimed \intersect Modes, Modes)
  BY <1>1, PassStages
<1>3. TrackInv(s0, hw, robot, {})
  BY DEF TrackInv, Differs
<1>4. TrackInv(s, hw, robot, Modes)
  BY <1>1, <1>3, TrackStages
<1>5. hw' = s.hw /\ robot' = s.robot /\ out' = Result("perform", PerformResult(s))
  BY DEF Perform
<1> HIDE DEF s
<1>6. out'.res = "throw" <=> s.threw
  BY <1>5 DEF Result, PerformResult
<1>7. Changed = Differs(s, hw)
  BY <1>5 DEF Changed, Differs
<1> QED  BY <1>2, <1>4, <1>5, <1>6, <1>7 DEF LeavesControl, PassInv, TrackInv

LEMMA StepsControl == SwitchInv /\ [Next]_vars => ControlStep
<1> SUFFICES ASSUME SwitchInv, [Next]_vars
             PROVE  ControlStep
  OBVIOUS
<1>1. hw \in HwType /\ robot \in RobotType
  BY DEF SwitchInv, IInv, TypeOK, HwType, RobotType
<1>2. ASSUME NEW start, NEW stop, Prepare(start, stop)
      PROVE  ControlStep
  <2>1. hw'.running = hw.running /\ UNCHANGED robot /\ pending = NoSwitch
    BY <1>1, <1>2 DEF Prepare, HwType
  <2> QED  BY <2>1 DEF ControlStep
<1>3. ASSUME NEW failing, Perform(failing)
      PROVE  ControlStep
  <2>1. pending # NoSwitch /\ pending' = NoSwitch
    BY <1>3 DEF Perform
  <2> QED  BY <1>3, <2>1, PerformLeavesControl DEF ControlStep
<1>4. CASE Deactivate
  <2>1. robot' = StopRobot(robot) /\ life = "active" /\ life' = "inactive"
        /\ UNCHANGED <<hw, pending>>
    BY <1>4 DEF Deactivate
  <2>2. robot'.control = NoControl
    BY <1>1, <2>1, ControlLemma DEF SwitchInv, ControlIsRunning
  <2> QED  BY <2>1, <2>2 DEF ControlStep
<1>5. CASE Reflex \/ ErrorRecovery
  <2>1. robot'.control = robot.control /\ UNCHANGED <<hw, pending>>
    BY <1>1, <1>5 DEF Reflex, ErrorRecovery, RobotType
  <2> QED  BY <2>1 DEF ControlStep
<1>6. CASE Read \/ Activate
  <2>1. hw'.running = hw.running /\ UNCHANGED <<robot, pending>>
    BY <1>1, <1>6 DEF Read, Activate, DoRead, HwType
  <2> QED  BY <2>1 DEF ControlStep
<1>7. CASE \/ ReadThrows \/ Write \/ UNCHANGED vars
           \/ \E writers \in SUBSET loaded : \E broken \in SUBSET writers :
                Update(writers, broken)
  <2>1. UNCHANGED <<hw, robot, pending>>
    BY <1>7 DEF ReadThrows, Write, Update, vars
  <2> QED  BY <2>1 DEF ControlStep
<1> QED  BY <1>2, <1>3, <1>4, <1>5, <1>6, <1>7 DEF Next

\* Whatever is requested, fails or is aborted, a mode gets or loses its control
\* only by deactivation or in a switch, whose last change in the order of the
\* stages decides (perform_command_mode_switch, on_deactivate).
THEOREM ControlFollows == Spec => ControlFollowsSwitch
  BY SwitchInvariant, StepsControl, PTL DEF Spec, ControlFollowsSwitch

-------------------------------------------------------------------------------
(* Which control gets a command *)

\* Robot::writeOnce with one active flag finds its control or none.
LEMMA ReceiverIsActive ==
  ASSUME NEW c \in Modes, NEW cmd
  PROVE  Receiver(cmd, {c}) \in {c, NoControl}
<1>1. CASE c \in Joint
  <2>1. {c} \intersect Joint = {c} /\ Rank[c] \in Nat
    BY <1>1, TypesLemma
  <2>2. (CHOOSE t \in {c} \intersect Joint :
           \A u \in {c} \intersect Joint : Rank[t] <= Rank[u]) = c
    BY <2>1
  <2>3. c # CVel /\ c # CPose
    BY <1>1 DEF Joint, Effort, JVel, JPos, CVel, CPose
  <2> QED  BY <2>2, <2>3 DEF Receiver
<1>2. CASE c \in Cart
  <2>1. {c} \intersect Joint = {}
    BY <1>2 DEF Joint, Cart, Effort, JVel, JPos, CVel, CPose
  <2> QED  BY <1>2, <2>1 DEF Receiver, Cart
<1> QED  BY <1>1, <1>2 DEF Modes

\* Where one mode runs, what write hands over comes from its buffer.
LEMMA ToWriteOfOne ==
  ASSUME NEW run \in SUBSET Types, NEW first, NEW c, run \intersect Modes = {c},
         ToWrite(run, first) # {}
  PROVE  c \in ToWrite(run, first)
  BY DEF ToWrite, Types, Modes, Joint, Cart, Effort, JVel, JPos, Elbow, CVel, CPose

LEMMA WriteReaches ==
  ASSUME SwitchInv, Write
  PROVE  CommandReachesItsControl'
<1> DEFINE cmd == ToWrite(hw.running, hw.first)
           to == Receiver(cmd, robot.flags)
<1>1. out' = WriteOutcome /\ UNCHANGED hw
  BY DEF Write
<1>2. CASE Infinite \/ cmd = {}
  BY <1>1, <1>2 DEF WriteOutcome, Result, CommandReachesItsControl
<1>3. CASE ~Infinite /\ cmd # {}
  <2>1. out' = [op |-> "write", res |-> WriteResult(to), cmd |-> cmd, to |-> to]
    BY <1>1, <1>3 DEF WriteOutcome, RobotWrite
  <2>2. ASSUME WriteResult(to) = "sent"
        PROVE  /\ to \in hw.running
               /\ hw.running \intersect Modes = {to} => to \in cmd
    <3>1. robot.control # NoControl /\ to # NoControl
      BY <2>2 DEF WriteResult
    <3>2. robot.control \in Modes /\ robot.control \in hw.running
          /\ robot.flags = {robot.control} /\ hw.running \subseteq Types
      BY <3>1 DEF SwitchInv, IInv, TypeOK, ControlMatchesFlags, ControlIsRunning
    <3>3. to = robot.control
      BY <3>1, <3>2, ReceiverIsActive
    <3>4. hw.running \intersect Modes = {to} => to \in cmd
      BY <1>3, <3>2, ToWriteOfOne
    <3> QED  BY <3>2, <3>3, <3>4
  <2> HIDE DEF cmd, to
  <2> QED  BY <1>1, <2>1, <2>2 DEF CommandReachesItsControl
<1> QED  BY <1>2, <1>3

LEMMA StepReaches ==
  SwitchInv /\ CommandReachesItsControl /\ [Next]_vars => CommandReachesItsControl'
<1> SUFFICES ASSUME SwitchInv, CommandReachesItsControl, [Next]_vars
             PROVE  CommandReachesItsControl'
  OBVIOUS
<1>1. ASSUME out'.res # "sent" PROVE CommandReachesItsControl'
  BY <1>1 DEF CommandReachesItsControl
<1>2. ASSUME NEW start, NEW stop, Prepare(start, stop)
      PROVE  CommandReachesItsControl'
  <2>1. out'.res # "sent"  BY <1>2 DEF Prepare, Result
  <2> QED  BY <1>1, <2>1
<1>3. ASSUME NEW failing, Perform(failing)
      PROVE  CommandReachesItsControl'
  <2>1. out'.res # "sent"  BY <1>3 DEF Perform, Result, PerformResult
  <2> QED  BY <1>1, <2>1
<1>4. CASE Read \/ ReadThrows \/ Activate \/ Deactivate
  <2>1. out'.res # "sent"
    BY <1>4 DEF Read, ReadThrows, Activate, Deactivate, DoRead, Result
  <2> QED  BY <1>1, <2>1
<1>5. CASE Write
  BY <1>5, WriteReaches
<1>6. CASE \/ Reflex \/ ErrorRecovery \/ UNCHANGED vars
           \/ \E writers \in SUBSET loaded : \E broken \in SUBSET writers :
                Update(writers, broken)
  <2>1. UNCHANGED <<hw, out>>
    BY <1>6 DEF Reflex, ErrorRecovery, Update, vars
  <2> QED  BY <2>1 DEF CommandReachesItsControl
<1> QED  BY <1>2, <1>3, <1>4, <1>5, <1>6 DEF Next

\* A command is only ever sent to the control of a running mode, and where one
\* mode runs it is that mode's own command, although the buffer is chosen by the
\* running flags and the control by the active flags and the length alone
\* (write, Robot::writeOnce).
THEOREM CommandReaches == Spec => []CommandReachesItsControl
<1>1. Init => CommandReachesItsControl
  BY DEF Init, Result, CommandReachesItsControl
<1> QED  BY <1>1, StepReaches, SwitchInvariant, PTL DEF Spec

-------------------------------------------------------------------------------
(* Any number of controllers at once, and any caller, when every controller *)
(* claims all of a type or none of it.                                      *)

WholeClaims ==
  \A c \in Controllers, t \in Types : Claim[c][t] \in {0, Size[t]}

\* What is loaded once the prepared switch is performed.
After == (loaded \ pending.stop) \union pending.start

NoneShared(cs) == \A c \in cs, d \in cs : c # d => Holds[c] \intersect Holds[d] = {}

\* A switch that does not throw leaves exactly the modes of the loaded
\* controllers running.
SwitchServesModes ==
  out.op = "perform" /\ out.res # "throw" =>
    hw.running \intersect Modes = Written(loaded) \intersect Modes

\* The modes claimed are those of the controllers to be; a request is not
\* refused half way.
ClaimsInv ==
  /\ SwitchInv
  /\ NoneShared(loaded) /\ NoneShared(After)
  /\ hw.claimed \intersect Modes = Written(After) \intersect Modes
  /\ out.op = "perform" => pending = NoSwitch
  /\ out.op = "prepare" => out.res # "throw"

\* The count over a set in which one controller at most asks for type t: the
\* recursion has one solution, since two would differ on a least set.
LEMMA CountsOfMany ==
  ASSUME NEW cs \in SUBSET Controllers, NEW t \in Types \union {Foreign},
         NEW c, \A d \in cs \ {c} : Claim[d][t] = 0
  PROVE  Counts(cs)[t] = IF c \in cs THEN Claim[c][t] ELSE 0
<1> DEFINE f(x) == Claim[x][t]
           F(g) == [s \in SUBSET cs |-> IF s = {} THEN 0
                     ELSE f(CHOOSE x \in s : TRUE) + g[s \ {CHOOSE x \in s : TRUE}]]
           it == CHOOSE g : g = F(g)
           w == [s \in SUBSET cs |-> IF c \in s THEN f(c) ELSE 0]
           T == {s \in SUBSET cs : it[s] # w[s]}
<1>1. (c \in cs => f(c) \in Nat) /\ \A d \in cs : d # c => f(d) = 0
  BY FrankaAssumption
<1>2. w = F(w)
  <2>1. ASSUME NEW s \in SUBSET cs, s # {}
        PROVE  w[s] = f(CHOOSE x \in s : TRUE) + w[s \ {CHOOSE x \in s : TRUE}]
    <3> DEFINE x == CHOOSE y \in s : TRUE
    <3>1. x \in s  BY <2>1
    <3> HIDE DEF x, f
    <3>2. w[s] = f(x) + w[s \ {x}]
      <4>1. CASE x = c
        BY <1>1, <3>1, <4>1
      <4>2. CASE x # c
        BY <1>1, <3>1, <4>2
      <4> QED  BY <4>1, <4>2
    <3> QED  BY <3>2 DEF x
  <2>2. w[{}] = 0  OBVIOUS
  <2> QED  BY <2>1, <2>2
<1>3. it = F(it)  BY <1>2
<1> HIDE DEF it
<1>4. T = {}
  <2> SUFFICES ASSUME T # {} PROVE FALSE  OBVIOUS
  <2>1. IsWellFoundedOn(StrictSubsetOrdering(cs), SUBSET cs)
    <3>1. IsFiniteSet(cs)  BY FrankaAssumption, FS_Subset
    <3>2. FiniteSubsetsOf(cs) = SUBSET cs  BY <3>1, FS_FiniteSubsetsOfFinite
    <3> QED  BY <3>2, FS_StrictSubsetOrderingWellFounded
  <2>2. T \subseteq SUBSET cs  OBVIOUS
  <2> HIDE DEF T
  <2>3. PICK s \in T : \A r \in T : <<r, s>> \notin StrictSubsetOrdering(cs)
    BY <2>1, <2>2, WFMin
  <2> USE DEF T
  <2> DEFINE x == CHOOSE y \in s : TRUE
  <2>4. s # {}
    BY <1>2, <1>3, <2>3
  <2>5. x \in s  BY <2>4
  <2>6. it[s] = f(x) + it[s \ {x}] /\ w[s] = f(x) + w[s \ {x}]
    BY <1>2, <1>3, <2>2, <2>3, <2>4
  <2> HIDE DEF x
  <2>7. <<s \ {x}, s>> \in StrictSubsetOrdering(cs)
    BY <2>2, <2>3, <2>5 DEF StrictSubsetOrdering
  <2>8. it[s \ {x}] = w[s \ {x}]
    BY <2>2, <2>3, <2>7
  <2> QED  BY <2>3, <2>6, <2>8
<1>5. it[cs] = w[cs]  BY <1>4
<1>6. MapThenSumSet(f, cs) = it[cs]
  BY DEF MapThenSumSet, MapThenFoldSet, it
<1> QED  BY <1>5, <1>6 DEF Counts

LEMMA WrittenLemma ==
  /\ Written({}) = {}
  /\ \A c \in Controllers : Written({c}) = Holds[c]
  /\ \A cs \in SUBSET Controllers : Written(cs) \subseteq Types
<1>1. \A c \in Controllers : Holds[c] \subseteq Types  BY DEF Holds
<1> QED  BY <1>1 DEF Written

\* What a request counts, type by type, when no two of its controllers share a type.
LEMMA CountsLemma ==
  ASSUME WholeClaims, NEW cs \in SUBSET Controllers, NoneShared(cs), NEW t \in Types
  PROVE  Counts(cs)[t] = IF t \in Written(cs) THEN Size[t] ELSE 0
<1>1. CASE t \notin Written(cs)
  <2>1. \A d \in cs : Claim[d][t] = 0
    BY <1>1 DEF Written, Holds, WholeClaims
  <2>2. Counts(cs)[t] = IF t \in cs THEN Claim[t][t] ELSE 0
    BY <2>1, CountsOfMany
  <2> QED  BY <1>1, <2>1, <2>2
<1>2. CASE t \in Written(cs)
  <2>1. PICK c \in cs : t \in Holds[c]  BY <1>2 DEF Written
  <2>2. \A d \in cs \ {c} : Claim[d][t] = 0
    BY <2>1 DEF NoneShared, Holds, WholeClaims
  <2>3. Claim[c][t] = Size[t]  BY <2>1 DEF Holds
  <2>4. Counts(cs)[t] = IF c \in cs THEN Claim[c][t] ELSE 0
    BY <2>2, CountsOfMany
  <2> QED  BY <1>2, <2>3, <2>4
<1> QED  BY <1>1, <1>2

\* What prepare makes of a request of whole types: nothing is refused.
LEMMA RequestLemma ==
  ASSUME WholeClaims, NEW start \in SUBSET Controllers, NoneShared(start),
         NEW stop \in SUBSET Controllers, NoneShared(stop)
  PROVE  /\ Wrong(Counts(start), Counts(stop)) = {}
         /\ Unclaimed(Counts(start), Counts(stop)) = Written(stop)
         /\ NewlyClaimed(Counts(start), Counts(stop)) = Written(start)
<1> DEFINE starts == Counts(start)
           stops == Counts(stop)
<1> SUFFICES /\ Wrong(starts, stops) = {}
             /\ Unclaimed(starts, stops) = Written(stop)
             /\ NewlyClaimed(starts, stops) = Written(start)
  OBVIOUS
<1>1. \A t \in Types : /\ starts[t] = IF t \in Written(start) THEN Size[t] ELSE 0
                       /\ stops[t] = IF t \in Written(stop) THEN Size[t] ELSE 0
  BY CountsLemma
<1>2. Written(start) \subseteq Types /\ Written(stop) \subseteq Types
  BY WrittenLemma
<1>3. \A t \in Types : Size[t] # 0  BY TypesLemma
<1> HIDE DEF starts, stops
<1>4. Wrong(starts, stops) = {}
  BY <1>1 DEF Wrong
<1>5. Unclaimed(starts, stops) = {t \in Types : stops[t] = Size[t]}
  BY <1>4 DEF Unclaimed
<1>6. NewlyClaimed(starts, stops) = {t \in Types : starts[t] = Size[t]}
  BY <1>4 DEF NewlyClaimed
<1> QED  BY <1>1, <1>2, <1>3, <1>4, <1>5, <1>6

\* The caller never asks for two controllers of one type.
LEMMA NotInConflict ==
  ASSUME NEW cs \in SUBSET Controllers, (cs \X cs) \intersect Conflict = {}
  PROVE  NoneShared(cs)
<1> SUFFICES ASSUME NEW c \in cs, NEW d \in cs, c # d, NEW t \in Holds[c] \intersect Holds[d]
             PROVE  FALSE
  BY DEF NoneShared
<1>1. t \in Types /\ Claim[c][t] = Size[t] /\ Claim[d][t] = Size[t]
  BY DEF Holds
<1>2. Claim[c][t] + Claim[d][t] > Size[t]
  BY <1>1, TypesLemma
<1>3. <<c, d>> \in Conflict
  BY <1>1, <1>2 DEF Conflict
<1> QED  BY <1>3

\* What writes after one request, when nobody shares.
LEMMA WrittenAfter ==
  ASSUME NEW old \in SUBSET Controllers, NoneShared(old), NEW stop \in SUBSET old,
         NEW start \in SUBSET Controllers
  PROVE  (Written(old) \ Written(stop)) \union Written(start) = Written((old \ stop) \union start)
<1>1. ASSUME NEW t \in Written(old) \ Written(stop)
      PROVE  t \in Written((old \ stop) \union start)
  BY DEF Written
<1>2. ASSUME NEW c \in old \ stop, NEW t \in Holds[c]
      PROVE  t \in Written(old) \ Written(stop)
  BY DEF Written, NoneShared
<1>3. Written((old \ stop) \union start) = Written(old \ stop) \union Written(start)
  BY DEF Written
<1>4. Written(old \ stop) \subseteq Written(old) \ Written(stop)
  BY <1>2 DEF Written
<1>5. Written(old) \ Written(stop) \subseteq Written(old \ stop)
  BY DEF Written
<1> QED  BY <1>3, <1>4, <1>5

LEMMA ClaimsPrepare ==
  ASSUME WholeClaims, ClaimsInv,
         NEW start \in SUBSET (Controllers \ loaded), NEW stop \in SUBSET loaded,
         Prepare(start, stop)
  PROVE  ClaimsInv'
<1> DEFINE after == (loaded \ stop) \union start
           starts == Counts(start)
           stops == Counts(stop)
<1>1. /\ loaded \subseteq Controllers /\ start \subseteq Controllers /\ stop \subseteq Controllers
      /\ after \subseteq Controllers
      /\ pending = NoSwitch /\ After = loaded /\ UNCHANGED loaded
  BY DEF Prepare, ClaimsInv, SwitchInv, IInv, TypeOK, After, NoSwitch
<1>2. SwitchInv'
  <2>1. [Next]_vars  BY DEF Next
  <2> QED  BY <2>1, StepSwitchInv DEF ClaimsInv
<1>3. NoneShared(loaded) /\ NoneShared(after)
  <2>1. (after \X after) \intersect Conflict = {}  BY DEF Prepare, MayRequest
  <2> QED  BY <1>1, <2>1, NotInConflict DEF ClaimsInv
<1>4. NoneShared(start) /\ NoneShared(stop)
  BY <1>3 DEF NoneShared
<1>5. /\ Wrong(starts, stops) = {}
      /\ Unclaimed(starts, stops) = Written(stop)
      /\ NewlyClaimed(starts, stops) = Written(start)
  BY <1>1, <1>4, RequestLemma
<1> HIDE DEF starts, stops
<1>6. CASE Total(Counts(start)) = AllStarted
  <2>1. UNCHANGED <<hw, pending>> /\ out' = Result("prepare", "error")
    BY <1>6 DEF Prepare
  <2>2. After' = After /\ Written(After)' = Written(After)
    BY <1>1, <2>1 DEF After, Written
  <2> QED  BY <1>1, <1>2, <2>1, <2>2 DEF ClaimsInv, NoneShared, Result
<1>7. CASE Total(Counts(start)) # AllStarted
  <2>1. /\ hw' = [hw EXCEPT !.claimed = (@ \ Written(stop)) \union Written(start)]
        /\ pending' = [start |-> start, stop |-> stop]
        /\ out' = Result("prepare", "ok")
    BY <1>5, <1>7 DEF Prepare, starts, stops
  <2>2. After' = after /\ Written(After)' = Written(after)
    BY <1>1, <2>1 DEF After, Written
  <2>3. hw'.claimed = (hw.claimed \ Written(stop)) \union Written(start)
    BY <2>1 DEF ClaimsInv, SwitchInv, IInv, TypeOK
  <2>4. (Written(loaded) \ Written(stop)) \union Written(start) = Written(after)
    BY <1>1, <1>3, WrittenAfter
  <2>5. hw.claimed \intersect Modes = Written(loaded) \intersect Modes
    BY <1>1 DEF ClaimsInv
  <2>6. hw'.claimed \intersect Modes = Written(after) \intersect Modes
    BY <2>3, <2>4, <2>5
  <2>7. NoneShared(loaded)' /\ NoneShared(After)'
    BY <1>1, <1>3, <2>2 DEF NoneShared
  <2> QED  BY <1>2, <2>1, <2>2, <2>6, <2>7 DEF ClaimsInv, Result
<1> QED  BY <1>6, <1>7

LEMMA ClaimsPerform ==
  ASSUME ClaimsInv, NEW failing \in SUBSET Starting, Perform(failing)
  PROVE  ClaimsInv'
<1>1. SwitchInv'
  BY PerformSwitchInv DEF ClaimsInv
<1>2. PICK s : /\ PassInv(s, hw.claimed \intersect Modes, Modes)
               /\ hw' = s.hw /\ robot' = s.robot
               /\ out' = Result("perform", PerformResult(s))
  BY PerformPass DEF ClaimsInv
<1>3. loaded' = After /\ pending' = NoSwitch
  BY DEF Perform, After
<1>4. After' = After /\ Written(After)' = Written(After)
  BY <1>3 DEF After, NoSwitch, Written
<1>5. hw'.claimed \intersect Modes = hw.claimed \intersect Modes
  BY <1>2 DEF PassInv
<1>6. out'.op = "perform"
  BY <1>2 DEF Result
<1>7. NoneShared(loaded)' /\ NoneShared(After)'
  BY <1>3, <1>4 DEF ClaimsInv, NoneShared
<1> QED  BY <1>1, <1>3, <1>4, <1>5, <1>6, <1>7 DEF ClaimsInv

\* Neither the claims nor the controllers change in a step of the other kinds.
LEMMA ClaimsFrame ==
  ASSUME ClaimsInv, SwitchInv', UNCHANGED <<loaded, pending>>, hw'.claimed = hw.claimed,
         out'.op \notin {"prepare", "perform"} \/ out' = out
  PROVE  ClaimsInv'
<1>1. After' = After /\ Written(After)' = Written(After)
  BY DEF After, Written
<1>2. NoneShared(loaded)' /\ NoneShared(After)'
  BY <1>1 DEF ClaimsInv, NoneShared
<1> QED  BY <1>1, <1>2 DEF ClaimsInv

LEMMA ClaimsStep ==
  ASSUME WholeClaims, ClaimsInv, [Next]_vars
  PROVE  ClaimsInv'
<1>1. SwitchInv'  BY StepSwitchInv DEF ClaimsInv
<1>2. hw \in HwType /\ TypeOK /\ ControlMatchesFlags
  BY DEF ClaimsInv, SwitchInv, IInv, TypeOK, HwType
<1>3. ASSUME NEW start \in SUBSET (Controllers \ loaded), NEW stop \in SUBSET loaded,
             Prepare(start, stop)
      PROVE  ClaimsInv'
  BY <1>3, ClaimsPrepare
<1>4. ASSUME NEW failing \in SUBSET Starting, Perform(failing)
      PROVE  ClaimsInv'
  BY <1>4, ClaimsPerform
<1>5. CASE Read \/ Activate \/ ReadThrows
  <2>1. hw'.claimed = hw.claimed
    BY <1>2, <1>5 DEF Read, Activate, ReadThrows, DoRead, HwType
  <2>2. UNCHANGED <<loaded, pending>> /\ out'.op \notin {"prepare", "perform"}
    BY <1>5 DEF Read, Activate, ReadThrows, DoRead, Result
  <2> QED  BY <1>1, <2>1, <2>2, ClaimsFrame
<1>6. CASE Write
  <2>1. UNCHANGED <<hw, loaded, pending>> /\ out' = WriteOutcome
    BY <1>6 DEF Write
  <2>2. out'.op = "write"
    BY <1>2, <2>1, WriteOutcomeLemma
  <2> QED  BY <1>1, <2>1, <2>2, ClaimsFrame
<1>7. CASE Deactivate
  <2>1. UNCHANGED <<hw, loaded, pending>> /\ out'.op = "deactivate"
    BY <1>7 DEF Deactivate, Result
  <2> QED  BY <1>1, <2>1, ClaimsFrame
<1>8. CASE \/ Reflex \/ ErrorRecovery \/ UNCHANGED vars
           \/ \E writers \in SUBSET loaded : \E broken \in SUBSET writers :
                Update(writers, broken)
  <2>1. UNCHANGED <<hw, loaded, pending, out>>
    BY <1>8 DEF Reflex, ErrorRecovery, Update, vars
  <2> QED  BY <1>1, <2>1, ClaimsFrame
<1> QED  BY <1>3, <1>4, <1>5, <1>6, <1>7, <1>8 DEF Next

THEOREM ClaimsInvariant ==
  ASSUME WholeClaims
  PROVE  Spec => []ClaimsInv
<1>1. ASSUME Init PROVE ClaimsInv
  <2>1. Init => SwitchInv
    BY InitIInv
       DEF SwitchInv, Init, ControlIsRunning, ThrowStopsRobot, SwitchServesClaims, Result
  <2>2. After = {} /\ loaded = {}  BY <1>1 DEF Init, After, NoSwitch
  <2> QED  BY <1>1, <2>1, <2>2, WrittenLemma DEF Init, ClaimsInv, NoneShared, Result
<1> QED  BY <1>1, ClaimsStep, PTL DEF Spec

\* However many controllers are active at once and however they are swapped,
\* a switch that does not throw leaves exactly the modes of the loaded
\* controllers running, although it goes by counts of interfaces and works in
\* five stages that see each other's effects; the elbow is not promised
\* (prepare_ and perform_command_mode_switch).
THEOREM SwitchServesTogether ==
  ASSUME WholeClaims
  PROVE  Spec => []SwitchServesModes
<1>1. ClaimsInv => SwitchServesModes
  <2> SUFFICES ASSUME ClaimsInv, out.op = "perform", out.res # "throw"
               PROVE  hw.running \intersect Modes = Written(loaded) \intersect Modes
    BY DEF SwitchServesModes
  <2>1. After = loaded
    BY DEF ClaimsInv, SwitchInv, IInv, TypeOK, After, NoSwitch
  <2> QED  BY <2>1 DEF ClaimsInv, SwitchInv, SwitchServesClaims
<1> QED  BY <1>1, ClaimsInvariant, PTL
===============================================================================
