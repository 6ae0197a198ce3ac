---------------------------- MODULE FrankaHardware ----------------------------
(***************************************************************************)
(* The ros2_control hardware component of the arm                          *)
(* (franka_hardware_interface.cpp) together with the Robot wrapper around  *)
(* libfranka (robot.cpp): claiming and starting command modes, the         *)
(* real-time read / update / write cycle, activation, faults.              *)
(*                                                                         *)
(* The controller manager that calls the component is external.  What it   *)
(* is allowed to do is the constant Liberties, so that each run says under *)
(* which caller its properties hold.                                       *)
(***************************************************************************)
EXTENDS Integers, FiniteSetsExt

CONSTANTS
  Controllers, \* the controllers the controller manager has loaded
  Claim,       \* how many command interfaces of each type a controller asks for
  Liberties,   \* what the caller and the robot may do, see AllLiberties
  MaxSwitch    \* bound: controllers started plus stopped by one request

\* The interface types, named as in the command interface table.
Effort == "effort"
JVel   == "velocity"
JPos   == "position"
Elbow  == "elbow_command"
CVel   == "cartesian_velocity"
CPose  == "cartesian_pose_command"

Joint == {Effort, JVel, JPos}
Cart  == {CVel, CPose}
Modes == Joint \union Cart          \* each has an active control of its own
Types == Modes \union {Elbow}
Gated == {JPos, CPose, Elbow}       \* not written before a read has seeded them
NoControl == "none"

\* Place in command_interfaces_info_, the order prepare visits the types in.
Rank == [t \in Types |-> CASE t = Effort -> 1 [] t = JVel -> 2 [] t = JPos -> 3
                           [] t = Elbow -> 4 [] t = CVel -> 5 [] t = CPose -> 6]

\* Lengths of the command buffers, in doubles.
Size == [t \in Types |-> CASE t \in Joint -> 7 [] t = Elbow -> 2
                           [] t = CVel -> 6 [] t = CPose -> 16]

\* Interfaces that this component does not export: other hardware's.
Foreign == "foreign"

\* max_number_start_interfaces
AllStarted == 45

AllLiberties ==
  { "together",     \* several controllers may be active at once
    "forward_swap", \* one request may stop a mode and start a later one
    "any_swap",     \* one request may stop and start anything
    "deactivate",   \* the component may be deactivated under a controller
    "fault",        \* reflexes, lost connections, starts that fail twice
    "nonfinite" }   \* a controller may write NaN or infinity

ASSUME FrankaAssumption ==
  /\ IsFiniteSet(Controllers)
  /\ Claim \in [Controllers -> [Types \union {Foreign} -> Nat]]
  /\ Liberties \subseteq AllLiberties
  /\ MaxSwitch \in Nat

VARIABLES
  hw,      \* [claimed, running, first]: the claim, running and first-update flags
  robot,   \* [flags, control, aborted, reflex]: class Robot and the arm behind it
  bad,     \* the command buffers that hold a NaN or an infinity
  stale,   \* history: buffers not rewritten since their control was started
  life,    \* lifecycle state of the component
  phase,   \* where the real-time cycle stands
  pending, \* the prepared switch the cycle has still to perform
  loaded,  \* controllers the controller manager holds active
  out      \* [op, res, cmd, to]: the last call, its result and what it sent

vars == <<hw, robot, bad, stale, life, phase, pending, loaded, out>>

NoSwitch == [start |-> {}, stop |-> {}]
Alive == life \in {"inactive", "active"}

Result(op, res) == [op |-> op, res |-> res, cmd |-> {}, to |-> NoControl]

-------------------------------------------------------------------------------
(* prepare_command_mode_switch                                             *)

\* contains_interface_type with count_if: what the controllers cs ask for, per type.
Counts(cs) ==
  [t \in Types \union {Foreign} |-> MapThenSumSet(LAMBDA c : Claim[c][t], cs)]

Total(counts) == MapThenSumSet(LAMBDA t : counts[t], Types \union {Foreign})

\* A type is wrong when only some of its interfaces are given; the loop throws
\* at the first wrong one, where a complete stop has still been applied.
Wrong(starts, stops) ==
  {t \in Types : starts[t] \notin {0, Size[t]} \/ stops[t] \notin {0, Size[t]}}

Unclaimed(starts, stops) ==
  {t \in Types : /\ stops[t] = Size[t]
                 /\ \A w \in Wrong(starts, stops) : Rank[t] <= Rank[w]}

NewlyClaimed(starts, stops) ==
  {t \in Types : /\ starts[t] = Size[t]
                 /\ \A w \in Wrong(starts, stops) : Rank[t] < Rank[w]}

\* The requests the controller manager makes: it stops active controllers and
\* starts inactive ones whose interfaces nobody else keeps.
Asks == [c \in Controllers |-> {t \in Types : Claim[c][t] > 0}]
Conflict == {p \in Controllers \X Controllers :
               p[1] # p[2] /\ \E t \in Types : Claim[p[1]][t] + Claim[p[2]][t] > Size[t]}
Before(T, U) == \A t \in T, u \in U : Rank[t] < Rank[u]

MayRequest(start, stop) ==
  LET after == (loaded \ stop) \union start IN
  /\ Cardinality(start \union stop) \in 1..MaxSwitch
  /\ (after \X after) \intersect Conflict = {}
  /\ "together" \in Liberties \/ Cardinality(after) <= 1
  /\ \/ start = {} \/ stop = {} \/ "any_swap" \in Liberties
     \/ /\ "forward_swap" \in Liberties
        /\ \A c \in start, d \in stop :
             Elbow \notin Asks[d] /\ Before(Asks[d], Asks[c])

Prepare(start, stop) ==
  /\ Alive
  /\ pending = NoSwitch
  /\ MayRequest(start, stop)
  /\ IF Total(Counts(start)) = AllStarted
       THEN /\ out' = Result("prepare", "error")
            /\ UNCHANGED <<hw, pending>>
       ELSE LET starts == Counts(start)
                stops == Counts(stop)
            IN /\ hw' = [hw EXCEPT !.claimed = (@ \ Unclaimed(starts, stops))
                                              \union NewlyClaimed(starts, stops)]
               /\ IF Wrong(starts, stops) = {}
                    THEN /\ pending' = [start |-> start, stop |-> stop]
                         /\ out' = Result("prepare", "ok")
                    ELSE /\ pending' = NoSwitch
                         /\ out' = Result("prepare", "throw")
  /\ UNCHANGED <<robot, bad, stale, life, phase, loaded>>

-------------------------------------------------------------------------------
(* perform_command_mode_switch: five stages, each seeing what the ones     *)
(* before it have done.  A stage works on the record                       *)
(* [hw, robot, zeroed, restarted, threw].                                  *)

\* Variant: the active flags survive the stop.
StopRobotKeepsFlags(r) == [r EXCEPT !.control = NoControl, !.aborted = FALSE]

\* Robot::stopRobot
StopRobot(r) ==
  IF r.control # NoControl
    THEN [r EXCEPT !.flags = {}, !.control = NoControl, !.aborted = FALSE]
    ELSE r

\* Robot::initialize*Interface when the start, or the start after a recovery, works.
StartControl(m, r) ==
  [r EXCEPT !.flags = @ \union {m}, !.control = m, !.aborted = FALSE, !.reflex = FALSE]

\* The elbow starts with a Cartesian mode if it is claimed and not running yet.
StartsElbow(m, h) == m \in Cart /\ Elbow \in h.claimed \ h.running
Started(m, h) == {m} \union (IF StartsElbow(m, h) THEN {Elbow} ELSE {})

\* Variant: the first-update flags are not set again.
StartModeUngated(m, s) ==
  [hw |-> [s.hw EXCEPT !.running = @ \union Started(m, s.hw)],
   robot |-> StartControl(m, StopRobot(s.robot)),
   zeroed |-> s.zeroed \union ({m} \ Gated),
   restarted |-> s.restarted \union Started(m, s.hw),
   threw |-> FALSE]

StartMode(m, s) ==
  [hw |-> [claimed |-> s.hw.claimed,
           running |-> s.hw.running \union Started(m, s.hw),
           first |-> s.hw.first \union (Started(m, s.hw) \intersect Gated)],
   robot |-> StartControl(m, StopRobot(s.robot)),
   zeroed |-> s.zeroed \union ({m} \ Gated),
   restarted |-> s.restarted \union Started(m, s.hw),
   threw |-> FALSE]

\* Variant: the running flag is set before the control is started.
StartFailsRunning(m, s) ==
  [hw |-> [s.hw EXCEPT !.running = @ \union {m}], robot |-> StopRobot(s.robot),
   zeroed |-> s.zeroed, restarted |-> s.restarted, threw |-> TRUE]

\* initialize*Interface throws after stopRobot: the flags of this stage stay as they are.
StartFails(m, s) ==
  [hw |-> s.hw, robot |-> StopRobot(s.robot), zeroed |-> s.zeroed \union ({m} \ Gated),
   restarted |-> s.restarted, threw |-> TRUE]

\* Variant: the elbow outlives the Cartesian mode it was started with.
DropsNoElbow(m, h) == {}

\* Stopping a Cartesian mode takes a running elbow with it.
DropsElbow(m, h) == IF m \in Cart THEN h.running \intersect {Elbow} ELSE {}

\* Variants: the robot is not stopped; the running flag is not reset.
StopModeKeepsControl(m, s) ==
  [s EXCEPT !.hw = [@ EXCEPT !.claimed = @ \ DropsElbow(m, s.hw),
                             !.running = @ \ ({m} \union DropsElbow(m, s.hw))]]
StopModeStillRunning(m, s) == [s EXCEPT !.robot = StopRobot(@)]

StopMode(m, s) ==
  [hw |-> [claimed |-> s.hw.claimed \ DropsElbow(m, s.hw),
           running |-> s.hw.running \ ({m} \union DropsElbow(m, s.hw)),
           first |-> s.hw.first],
   robot |-> StopRobot(s.robot), zeroed |-> s.zeroed, restarted |-> s.restarted,
   threw |-> FALSE]

Stage(m, s, failing) ==
  IF s.threw THEN s
  ELSE IF m \in s.hw.claimed \ s.hw.running
    THEN IF m \in failing THEN StartFails(m, s) ELSE StartMode(m, s)
  ELSE IF m \in s.hw.running \ s.hw.claimed THEN StopMode(m, s)
  ELSE s

\* Variant: the Cartesian modes are switched before the joint modes.
StagesSwapped(s0, failing) ==
  LET s1 == Stage(CVel, s0, failing)
      s2 == Stage(CPose, s1, failing)
      s3 == Stage(Effort, s2, failing)
      s4 == Stage(JVel, s3, failing)
  IN Stage(JPos, s4, failing)

Stages(s0, failing) ==
  LET s1 == Stage(Effort, s0, failing)
      s2 == Stage(JVel, s1, failing)
      s3 == Stage(JPos, s2, failing)
      s4 == Stage(CVel, s3, failing)
  IN Stage(CPose, s4, failing)

PerformResult(s) ==
  IF s.threw THEN "throw"
  ELSE IF Elbow \in s.hw.claimed /\ s.hw.claimed \intersect Cart = {} THEN "error"
  ELSE "ok"

Starting == (hw.claimed \ hw.running) \intersect Modes

\* The real-time cycle performs a prepared switch before or after the
\* controllers' update; whatever the result, the controllers change over.
Perform(failing) ==
  /\ Alive
  /\ pending # NoSwitch
  /\ phase \in {"update", "updated"}
  /\ failing # {} => "fault" \in Liberties
  /\ LET s == Stages([hw |-> hw, robot |-> robot, zeroed |-> {}, restarted |-> {},
                      threw |-> FALSE], failing)
     IN /\ hw' = s.hw
        /\ robot' = s.robot
        /\ bad' = bad \ s.zeroed
        /\ stale' = (stale \union s.restarted) \ s.zeroed
        /\ out' = Result("perform", PerformResult(s))
  /\ loaded' = (loaded \ pending.stop) \union pending.start
  /\ pending' = NoSwitch
  /\ UNCHANGED <<life, phase>>

-------------------------------------------------------------------------------
(* read, the controllers' update, write                                    *)

\* Variant: the elbow command is not seeded.
SeededButElbow == (hw.first \intersect hw.running) \ {Elbow}

\* initializePositionCommands: seed the running buffers still waiting for it.
Seeded == hw.first \intersect hw.running

DoRead(op) ==
  /\ hw' = [hw EXCEPT !.first = @ \ Seeded]
  /\ bad' = bad \ Seeded
  /\ stale' = stale \ Seeded
  /\ out' = Result(op, "ok")

\* readOnceActiveControl throws once the motion is aborted; any read may lose the robot.
ReadMayThrow == robot.aborted \/ "fault" \in Liberties

Read ==
  /\ Alive
  /\ phase = "read"
  /\ ~robot.aborted
  /\ DoRead("read")
  /\ phase' = "update"
  /\ UNCHANGED <<robot, life, pending, loaded>>

ReadThrows ==
  /\ Alive
  /\ phase = "read"
  /\ ReadMayThrow
  /\ life' = "finalized"
  /\ out' = Result("read", "throw")
  /\ UNCHANGED <<hw, robot, bad, stale, phase, pending, loaded>>

\* Controllers write the buffers of the types they hold completely.
Holds == [c \in Controllers |-> {t \in Types : Claim[c][t] = Size[t]}]
Written(cs) == UNION {Holds[c] : c \in cs}

\* Each active controller may write its buffers in its update, broken of them badly.
Update(writers, broken) ==
  /\ Alive
  /\ phase = "update"
  /\ broken # {} => "nonfinite" \in Liberties
  /\ bad' = (bad \ Written(writers)) \union Written(broken)
  /\ stale' = stale \ Written(writers)
  /\ phase' = "updated"
  /\ UNCHANGED <<hw, robot, life, pending, loaded, out>>

\* The if-else chain of write: the buffers it hands to Robot::writeOnce.
ToWrite(run, first) ==
  IF JVel \in run THEN {JVel}
  ELSE IF Effort \in run THEN {Effort}
  ELSE IF JPos \in run \ first THEN {JPos}
  ELSE IF CVel \in run /\ Elbow \in run \ first THEN {CVel, Elbow}
  ELSE IF CPose \in run \ first /\ Elbow \in run \ first THEN {CPose, Elbow}
  ELSE IF CPose \in run \ first THEN {CPose}
  ELSE IF CVel \in run /\ Elbow \notin run THEN {CVel}
  ELSE {}

\* Robot::writeOnce picks the receiving control by the active flags and the
\* length of the command, not by which buffer the command came from.
Primary(cmd) == CHOOSE t \in cmd : t # Elbow
Receiver(cmd, flags) ==
  LET n == Size[Primary(cmd)] IN
  IF Elbow \notin cmd
    THEN IF flags \intersect Joint # {} /\ n <= 7
           THEN CHOOSE t \in flags \intersect Joint :
                  \A u \in flags \intersect Joint : Rank[t] <= Rank[u]
         ELSE IF CVel \in flags /\ n <= 6 THEN CVel
         ELSE IF CPose \in flags /\ n <= 16 THEN CPose
         ELSE NoControl
    ELSE IF CVel \in flags /\ n = 6 THEN CVel
         ELSE IF CPose \in flags /\ n = 16 THEN CPose
         ELSE NoControl

WriteResult(to) ==
  IF robot.control = NoControl THEN "not_started"
  ELSE IF to = NoControl THEN "unknown_size"
  ELSE IF robot.aborted THEN "aborted"
  ELSE "sent"

RobotWrite(cmd) ==
  LET to == Receiver(cmd, robot.flags) IN
  [op |-> "write", res |-> WriteResult(to), cmd |-> cmd, to |-> to]

\* hasInfinite looks at every buffer, running or not.
Infinite == bad # {}

WriteOutcome ==
  LET cmd == ToWrite(hw.running, hw.first) IN
  IF Infinite THEN Result("write", "error")
  ELSE IF cmd = {} THEN Result("write", "idle")
  ELSE RobotWrite(cmd)

\* An error or an exception out of write finalizes the component.
Write ==
  /\ Alive
  /\ phase = "updated"
  /\ out' = WriteOutcome
  /\ life' = IF WriteOutcome.res \in {"idle", "sent"} THEN life ELSE "finalized"
  /\ phase' = "read"
  /\ UNCHANGED <<hw, robot, bad, stale, pending, loaded>>

-------------------------------------------------------------------------------
(* Activation, deactivation, and the arm itself                            *)

Activate ==
  /\ life = "inactive"
  /\ ~robot.aborted
  /\ DoRead("activate")
  /\ life' = "active"
  /\ UNCHANGED <<robot, phase, pending, loaded>>

Deactivate ==
  /\ life = "active"
  /\ (loaded = {} /\ pending = NoSwitch) \/ "deactivate" \in Liberties
  /\ robot' = StopRobot(robot)
  /\ life' = "inactive"
  /\ out' = Result("deactivate", "ok")
  /\ UNCHANGED <<hw, bad, stale, phase, pending, loaded>>

\* The arm stops by itself: the active control's motion is aborted.
Reflex ==
  /\ "fault" \in Liberties
  /\ ~robot.reflex
  /\ robot' = [robot EXCEPT !.reflex = TRUE, !.aborted = robot.control # NoControl]
  /\ UNCHANGED <<hw, bad, stale, life, phase, pending, loaded, out>>

\* ActionServer::errorRecoveryAction, on the executor's thread.
ErrorRecovery ==
  /\ robot.reflex
  /\ robot' = [robot EXCEPT !.reflex = FALSE]
  /\ UNCHANGED <<hw, bad, stale, life, phase, pending, loaded, out>>

-------------------------------------------------------------------------------
Init ==
  /\ hw = [claimed |-> {}, running |-> {}, first |-> Gated]
  /\ robot = [flags |-> {}, control |-> NoControl, aborted |-> FALSE, reflex |-> FALSE]
  /\ bad = {}
  /\ stale = {}
  /\ life = "inactive"
  /\ phase = "read"
  /\ pending = NoSwitch
  /\ loaded = {}
  /\ out = Result("init", "ok")

Next ==
  \/ \E start \in SUBSET (Controllers \ loaded), stop \in SUBSET loaded : Prepare(start, stop)
  \/ \E failing \in SUBSET Starting : Perform(failing)
  \/ Read
  \/ ReadThrows
  \/ \E writers \in SUBSET loaded : \E broken \in SUBSET writers : Update(writers, broken)
  \/ Write
  \/ Activate
  \/ Deactivate
  \/ Reflex
  \/ ErrorRecovery

Spec == Init /\ [][Next]_vars

\* The controller manager's update thread runs its cycle for ever, and finds an
\* aborted motion when it reads; requests, switches, activation and other faults
\* are not promised.
Cycle ==
  \/ Read
  \/ robot.aborted /\ ReadThrows
  \/ \E writers \in SUBSET loaded : \E broken \in SUBSET writers : Update(writers, broken)
  \/ Write
FairSpec == Spec /\ WF_vars(Cycle)

-------------------------------------------------------------------------------
(* Properties                                                              *)

Outcomes == {"ok", "error", "throw", "idle", "sent", "aborted", "not_started", "unknown_size"}

TypeOK ==
  /\ hw \in [claimed : SUBSET Types, running : SUBSET Types, first : SUBSET Gated]
  /\ robot \in [flags : SUBSET Modes, control : Modes \union {NoControl},
               aborted : BOOLEAN, reflex : BOOLEAN]
  /\ bad \subseteq Types
  /\ stale \subseteq Types
  /\ life \in {"inactive", "active", "finalized"}
  /\ phase \in {"read", "update", "updated"}
  /\ pending \in [start : SUBSET Controllers, stop : SUBSET Controllers]
  /\ loaded \subseteq Controllers
  /\ out \in [op : {"init", "prepare", "perform", "read", "write", "activate", "deactivate"},
             res : Outcomes, cmd : SUBSET Types, to : Modes \union {NoControl}]

\* The five *_interface_active_ flags of Robot never disagree with the active
\* control libfranka runs: at most one is set, and it is that control's, also
\* after starts that failed, reflexes and overlapping modes (robot.cpp:66-119).
ControlMatchesFlags ==
  robot.flags = IF robot.control = NoControl THEN {} ELSE {robot.control}

\* The elbow never runs without a Cartesian mode, whatever was claimed, refused
\* or lost on the way (franka_hardware_interface.cpp:377-421).
ElbowNeedsCartesian ==
  Elbow \in hw.running => hw.running \intersect Cart # {}

\* No setpoint left over from an earlier activation reaches the arm: a buffer
\* is zeroed, measured or written by a controller after its mode was started
\* and before it is sent (initializeCommand and the guards of write).
NoStaleSetpoint ==
  out.res = "sent" => out.cmd \intersect stale = {}

\* The modes whose running flag a step changes.
Changed ==
  ((hw'.running \ hw.running) \union (hw.running \ hw'.running)) \intersect Modes

\* What the performing of a switch does to the control: none is left when it
\* throws; the last mode that it starts or stops, in the order of the stages,
\* leaves its own control or none, also when an earlier stage started another
\* one or when another mode still runs; where nothing changes the control stays.
LeavesControl ==
  IF out'.res = "throw" THEN robot'.control = NoControl
  ELSE /\ Changed = {} => UNCHANGED robot
       /\ \A m \in Changed :
            (\A n \in Changed : Rank[n] <= Rank[m]) =>
              robot'.control = IF m \in hw'.running THEN m ELSE NoControl

ControlStep ==
  IF pending # NoSwitch /\ pending' = NoSwitch THEN LeavesControl
  ELSE /\ hw'.running = hw.running
       /\ \/ robot'.control = robot.control
          \/ life = "active" /\ life' = "inactive" /\ robot'.control = NoControl

\* For any caller, a mode that runs loses its control, or gets it, only in a
\* switch, by the rule above, or by deactivation: no prepare, refused or not, no
\* fault, recovery or write does it, and what becomes of the swap of two modes is
\* decided by their order in the table (franka_hardware_interface.cpp:351-432).
ControlFollowsSwitch == [][ControlStep]_vars

\* A command is sent to a control whose mode runs; and it comes from the buffer
\* of that mode, unless several modes run: write then chooses one of them and
\* Robot::writeOnce another (franka_hardware_interface.cpp:237-260, robot.cpp:77-157).
CommandReachesItsControl ==
  out.res = "sent" =>
    /\ out.to \in hw.running
    /\ hw.running \intersect Modes = {out.to} => out.to \in out.cmd

\* A switch that does not throw has served every claim of a mode, those that a
\* refused request or a failed switch has left behind included, and runs no mode
\* that is not claimed (franka_hardware_interface.cpp:351-497).
SwitchServesClaims ==
  out.op = "perform" /\ out.res # "throw" =>
    hw.running \intersect Modes = hw.claimed \intersect Modes

\* write is never called with a mode running and no control started
\* (robot.cpp:78), where one controller is active at a time and swaps go forward.
WriteFindsControl == out.res # "not_started"

\* Every interface that runs is sent to the arm, or stops running, or the
\* component is finalized by a fault: the first-update flags cannot block a mode
\* or the elbow for ever (franka_hardware_interface.cpp:181-262).
RunningIsServed ==
  \A t \in Types :
    t \in hw.running ~> \/ t \notin hw.running
                        \/ out.res = "sent" /\ t \in out.cmd
                        \/ life = "finalized"
===============================================================================
