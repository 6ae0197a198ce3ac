--------------------------- MODULE IgnitionControl --------------------------
(***************************************************************************)
(* The simulator plugin of franka_gazebo (IgnitionROS2ControlPlugin): its  *)
(* configuration with all its early returns, the iterations of the         *)
(* simulator, and its end.  The controller manager is external: in update  *)
(* it lets the active controllers write, then performs a requested switch. *)
(***************************************************************************)
EXTENDS IgnitionSystem, Integers

CONSTANTS
  Claim,          \* the joint interfaces each controller claims
  MayShareJoints, \* may two active controllers claim interfaces of one joint?
  ControlPeriod,  \* control_period_ in simulation steps, when the rate is known
  OneSecond,      \* its value until then
  MaxRewind,      \* how far the simulation time may be set back
  MaxRewinds      \* and how often

VARIABLES
  stage,      \* where Configure is; "configured"; "returned" early; or the end
  thread,     \* thread_executor_spin_
  manager,    \* is controller_manager_ set?
  rate,       \* has the update rate been read?
  rosOk,      \* rclcpp::ok()
  gravityOk,  \* does the chain of kdl_model_ have the seven joints of the arm?
  hardware,   \* state of the component in the resource manager
  phase,      \* place in an iteration of the simulator
  since,      \* simulation time minus last_update_sim_time_ros_
  rewinds,    \* how often the simulation time was set back
  active,     \* active controllers
  updated,    \* those that have been updated since their activation
  request     \* switch the controller manager has accepted

pluginVars == <<stage, thread, manager, rate, rosOk, gravityOk>>
cycleVars == <<hardware, phase, since, rewinds, active, updated, request>>
vars == <<systemVars, pluginVars, cycleVars>>

ASSUME PeriodAssumption == /\ ControlPeriod \in Nat \ {0} /\ OneSecond \in Nat \ {0}
                           /\ MaxRewind \in Nat /\ MaxRewinds \in Nat
ASSUME ClaimAssumption == Claim \in [Controllers -> SUBSET (Joints \X Interfaces)]
ASSUME ShareAssumption == MayShareJoints \in BOOLEAN

NoRequest == [start |-> {}, stop |-> {}]
Period == IF rate THEN ControlPeriod ELSE OneSecond
Returned == {"returned", "configured"}

TypeOK ==
  /\ SystemTypeOK
  /\ stage \in {"new", "urdf", "parse", "hardware", "manager", "destroyed", "crashed"} \cup Returned
  /\ thread \in {"none", "joinable", "joined"}
  /\ {manager, rate, rosOk, gravityOk} \subseteq BOOLEAN
  /\ hardware \in {"none", "active", "finalized"}
  /\ phase \in {"ready", "written", "simulated"}
  /\ since \in -(MaxRewind * MaxRewinds)..Period
  /\ rewinds \in 0..MaxRewinds
  /\ active \subseteq Controllers /\ updated \subseteq active
  /\ request \in [start: SUBSET Controllers, stop: SUBSET Controllers]

Init ==
  /\ SystemInit
  /\ stage = "new" /\ thread = "none" /\ rosOk = TRUE
  /\ manager = FALSE /\ rate = FALSE /\ gravityOk = FALSE
  /\ hardware = "none" /\ phase = "ready" /\ since = 0 /\ rewinds = 0
  /\ active = {} /\ updated = {} /\ request = NoRequest

-----------------------------------------------------------------------------
(* Configure, up to each wait and each early return.                       *)

(* No model, or no parameter file: nothing has been set up yet. *)
ConfigureInvalid ==
  /\ stage = "new"
  /\ stage' = "returned"
  /\ UNCHANGED <<systemVars, thread, manager, rate, rosOk, gravityOk, cycleVars>>

(* The node is made and the executor thread started; then the joints of the *)
(* model are looked at (GetEnabledJoints).                                  *)
EnabledJoints == Simulated

Configure ==
  /\ stage = "new"
  /\ thread' = "joinable"
  /\ stage' = IF EnabledJoints = {} THEN "returned" ELSE "urdf"
  /\ UNCHANGED <<systemVars, manager, rate, rosOk, gravityOk, cycleVars>>

(* getURDF: the service of the robot description is there and answers.  An  *)
(* empty or failed answer is asked for again, whether ROS is running or not *)
(* (a stuttering step); after a shutdown no answer comes any more.          *)
GetURDF ==
  /\ stage = "urdf" /\ rosOk
  /\ stage' = "parse"
  /\ UNCHANGED <<systemVars, thread, manager, rate, rosOk, gravityOk, cycleVars>>

(* Interrupted while waiting for the service: `return 0` makes a string of  *)
(* a null pointer, which throws a logic_error that Configure does not catch. *)
GetURDFInterrupted ==
  /\ stage = "urdf" /\ ~rosOk
  /\ stage' = "crashed"
  /\ UNCHANGED <<systemVars, thread, manager, rate, rosOk, gravityOk, cycleVars>>

(* The URDF is parsed: "returned" for the runtime_error that is caught; no  *)
(* chain to the tip link is an invalid_argument, which is not.              *)
ParseURDF ==
  /\ stage = "parse"
  /\ stage' \in {"hardware", "returned", "crashed"}
  /\ gravityOk' \in IF stage' = "hardware" THEN BOOLEAN ELSE {FALSE}
  /\ UNCHANGED <<systemVars, thread, manager, rate, rosOk, cycleVars>>

(* The loader fails, or initSim returns false (a component without joints). *)
LoadHardwareFails ==
  /\ stage = "hardware"
  /\ stage' = "returned"
  /\ UNCHANGED <<systemVars, thread, manager, rate, rosOk, gravityOk, cycleVars>>

(* The hardware plugin cannot be created: configuration goes on without it. *)
LoadHardwareSkips ==
  /\ stage = "hardware"
  /\ stage' = "manager"
  /\ UNCHANGED <<systemVars, thread, manager, rate, rosOk, gravityOk, cycleVars>>

LoadHardware ==
  /\ stage = "hardware"
  /\ IF InitSimThrows
       THEN stage' = "crashed" /\ UNCHANGED <<systemVars, hardware>>
       ELSE stage' = "manager" /\ InitSim /\ hardware' = "active"
  /\ UNCHANGED <<thread, manager, rate, rosOk, gravityOk, phase, since, rewinds,
                 active, updated, request>>

(* The controller manager may lack the parameter update_rate. *)
CreateManager ==
  /\ stage = "manager"
  /\ manager' = TRUE
  /\ rate' \in BOOLEAN
  /\ stage' = IF rate' THEN "configured" ELSE "returned"
  /\ UNCHANGED <<systemVars, thread, rosOk, gravityOk, cycleVars>>

(* A shutdown of ROS matters while Configure waits for the description. *)
Shutdown ==
  /\ rosOk /\ stage = "urdf"
  /\ rosOk' = FALSE
  /\ UNCHANGED <<systemVars, stage, thread, manager, rate, gravityOk, cycleVars>>

(* ~IgnitionROS2ControlPlugin leaves early when there is no controller      *)
(* manager; a std::thread that is destroyed joinable ends the process.      *)
Destroy ==
  /\ stage \in Returned /\ phase = "ready"
  /\ stage' = "destroyed"
  /\ thread' = IF manager THEN "joined" ELSE thread
  /\ UNCHANGED <<systemVars, manager, rate, rosOk, gravityOk, cycleVars>>

-----------------------------------------------------------------------------
(* An iteration of the simulator: PreUpdate, physics, PostUpdate.          *)

Running == stage \in Returned /\ manager

(* PreUpdate writes in every iteration; time stands still while the         *)
(* simulation is paused (dt = 0).  A failing gravity computation makes      *)
(* write return an error before it has written anything, which finalizes    *)
(* the component.                                                           *)
PreUpdate(dt) ==
  /\ Running /\ phase = "ready"
  /\ phase' = "written"
  /\ since' = since + dt
  /\ IF hardware = "active" /\ gravityOk
       THEN Write /\ UNCHANGED hardware
       ELSE /\ hardware' = IF hardware = "active" THEN "finalized" ELSE hardware
            /\ UNCHANGED systemVars
  /\ UNCHANGED <<pluginVars, rewinds, active, updated, request>>

Simulate ==
  /\ phase = "written"
  /\ phase' = "simulated"
  /\ Physics
  /\ UNCHANGED <<pluginVars, hardware, since, rewinds, active, updated, request>>

Claims(cs) == UNION {Claim[c] : c \in cs}

(* read, then update with its switch. *)
Cycle ==
  /\ Commanded([c \in active |-> Claim[c]])
  /\ active' = (active \ request.stop) \cup request.start
  /\ updated' = active \ request.stop
  /\ request' = NoRequest
  /\ IF hardware = "active"
       THEN /\ Read
            /\ PerformCommandModeSwitch(Claims(request.start), Claims(request.stop))
       ELSE UNCHANGED <<imu, method>>
  /\ UNCHANGED <<info, sim>>

(* Variant: the time of the last update is stored in every iteration. *)
PostUpdateStoresAlways ==
  /\ phase = "simulated"
  /\ phase' = "ready"
  /\ since' = 0
  /\ IF since >= Period THEN Cycle ELSE UNCHANGED <<systemVars, active, updated, request>>
  /\ UNCHANGED <<pluginVars, hardware, rewinds>>

(* PostUpdate reads and updates when the control period has passed. *)
PostUpdate ==
  /\ phase = "simulated"
  /\ phase' = "ready"
  /\ IF since >= Period
       THEN since' = 0 /\ Cycle
       ELSE UNCHANGED <<systemVars, since, active, updated, request>>
  /\ UNCHANGED <<pluginVars, hardware, rewinds>>

-----------------------------------------------------------------------------
(* What happens around the plugin.                                         *)

Conflict(c, d) ==
  \/ Claim[c] \cap Claim[d] # {}
  \/ ~MayShareJoints /\ \E p \in Claim[c], q \in Claim[d] : p[1] = q[1]

(* A client of the controller manager asks for a switch. *)
RequestSwitch ==
  \E start \in SUBSET (Controllers \ active), stop \in SUBSET active :
    LET after == (active \ stop) \cup start IN
    /\ Running /\ request = NoRequest
    /\ start \cup stop # {}
    /\ Claims(start) \subseteq Exported /\ hardware = "active"
    /\ \A c \in after, d \in after : c # d => ~Conflict(c, d)
    /\ request' = [start |-> start, stop |-> stop]
    /\ UNCHANGED <<systemVars, pluginVars, hardware, phase, since, rewinds, active, updated>>

(* The simulation time is set back. *)
Rewind ==
  /\ Running /\ phase = "ready" /\ rewinds < MaxRewinds
  /\ \E by \in 1..MaxRewind : since' = since - by
  /\ rewinds' = rewinds + 1
  /\ UNCHANGED <<systemVars, pluginVars, hardware, phase, active, updated, request>>

TopicNamed == Running /\ NameTopic /\ UNCHANGED <<pluginVars, cycleVars>>

Over == stage \in {"destroyed", "crashed"} \/ (stage = "returned" /\ ~manager)
Stop == Over /\ UNCHANGED vars

Next ==
  \/ ConfigureInvalid \/ Configure \/ GetURDF \/ GetURDFInterrupted \/ ParseURDF
  \/ LoadHardwareFails \/ LoadHardwareSkips \/ LoadHardware \/ CreateManager
  \/ Shutdown \/ Destroy
  \/ \E dt \in {0, 1} : PreUpdate(dt)
  \/ Simulate \/ PostUpdate
  \/ RequestSwitch \/ Rewind \/ TopicNamed
  \/ Stop

Spec == Init /\ [][Next]_vars

(* The simulator iterates and is not paused for ever; the IMU's topic is    *)
(* named.  Neither configuration nor the end is promised.                   *)
FairSpec == /\ Spec
            /\ SF_vars(PreUpdate(1))
            /\ WF_vars(Simulate)
            /\ WF_vars(PostUpdate)

-----------------------------------------------------------------------------
(* Properties.                                                             *)

JustWritten == Running /\ phase = "written" /\ hardware = "active"
Sources(j) == {sim[j].vel, sim[j].force}

(* A joint that an updated controller has claimed is driven by the law of   *)
(* an interface that controller has claimed (or held still by the first     *)
(* write of a mode), whatever modes ran on it before: write's order of      *)
(* precedence and the bits left behind by switches agree.                   *)
ServedIsClaimed ==
  JustWritten =>
    \A c \in updated : \A p \in Claim[c] \cap Switchable :
      \A v \in Sources(p[1]) \ {NoComponent, Zero} :
        \E i \in OfJoint(Claim[c], p[1]) : v = <<i, c>>

(* A claimed joint is never dropped to the fallback of an unclaimed one:    *)
(* the interface of every active controller keeps its bit until it is       *)
(* stopped.                                                                 *)
ClaimKeepsMethod ==
  Running /\ hardware = "active" =>
    \A p \in Claims(active) \cap Switchable : p[2] \in method[p[1]]

(* A command of a controller that has been stopped moves a joint only       *)
(* between the activation of its successor and that controller's first      *)
(* update: after that, and once nobody claims the joint, it is gone.        *)
NothingFromTheStopped ==
  JustWritten =>
    \A j \in Simulated : \A v \in Sources(j) :
      v[2] \in Controllers \ active =>
        \E c \in active \ updated : \E i \in Interfaces : <<j, i>> \in Claim[c]

(* A joint that mimics the position of another follows it after every       *)
(* write, whatever its own mode or the fallback has set before.             *)
MimicFollows ==
  JustWritten =>
    \A j \in MimicJoints :
      "position" \in InterfacesToMimic(j) => sim[j].vel = <<"follow", "initial">>

(* As long as the plugin runs, a requested switch is performed and the      *)
(* controllers are updated, also after the simulation time was set back.    *)
SwitchPerformed == (request # NoRequest) ~> (request = NoRequest \/ Over)
=============================================================================
