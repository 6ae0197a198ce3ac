# A verification development for the Franka VLA workspace

TLA+ models of the parts of this workspace that decide when the arm and the
gripper move, the TLC configurations that check them on small instances, and
TLAPS proofs of what must hold for every instance. Every definition is
translated from the source; the source lines are in `PROJECT.json` (`map`).

    tlasany M.tla                        parse
    tlc -workers 2 -config X.cfg MC.tla  model-check
    tlapm XProofs.tla                    prove

## 1. The system

    policy server  <--websocket-->  delta-pose client  --/target_pose, gripper-->  Cartesian controller
    (GPU machine)                   (loop + heartbeat)                              gripper adapter
                                                                                        |
       controller manager: read -> controllers' update -> write, switches               v
                      |                                                         gripper action server
                      v
       FrankaHardwareInterface -> Robot -> libfranka -> arm

The controllers of the Cartesian target and the recorder come from git
submodules that are not in this tree; they appear as "whoever subscribes".

### Components, state, operations, hazards

| Component | State | Operations | Interacts with | Hard behaviour | What makes it correct |
| --- | --- | --- | --- | --- | --- |
| Arm hardware interface (`franka_hardware_interface.cpp`) | claim, running and first-update flags of six interface types; six command buffers; lifecycle state | `prepare_`/`perform_command_mode_switch`, `read`, `write`, `on_activate`, `on_deactivate` | called by the controller manager, one real-time thread; calls Robot | stages of one switch in fixed order; requests refused or failing half way; elbow shared by two modes; restarted modes with old buffers | flags agree with the running control; no stale setpoint; a successful switch runs what the controllers claim; nothing is blocked for ever |
| Robot wrapper (`robot.cpp`) | active control, five active flags, mutexes | `readOnce`, `writeOnce`, `stopRobot`, `initialize*`, parameter setters, `automaticErrorRecovery` | called by the hardware interface, the services, the recovery action | starts that fail after a stop; reflexes that abort a motion; dispatch by flags and command length | one active control at most, and its flag; a command reaches the control it is meant for |
| Error recovery action, parameter services, executor (`franka_action_server.cpp`, `franka_param_service_server.*`, `franka_executor.cpp`) | the executor's thread and nodes, parameters of the robot, calls under way | one action, seven services, start and end of the executor | clients, among them `on_configure` of the controllers; call Robot beside the real-time thread | a recovery that occupies the executor; lost requests; exceptions that end the process; join of a thread that may not have started | an answer for every call, and a true one; start and end do not hang |
| Command heartbeat (client script) | held command and its generation, active flag, two locks, last messages | `set_held_command`, `stop_held_command`, `_publish_held_command` | main thread and timer thread; two topics | copies taken under one lock and published under another; publishing fails; stopping while a callback runs | whole pairs, latest command only, nothing after the stop, no stall |
| Delta-pose loop (client script) | grasp phase with its clocks, filter, latch, hold anchor, target, chunk, steps | request, respond, act, hold, wait for release, the ends | policy server, observations, heartbeat | votes counted over requests while the grasp changes; deadlines looked at late; a server that fails or stays silent | fingers move only when voted and allowed; one grasp per run; the target bounded or frozen while closing; the run ends |
| Temporal ensembler (client script) | the last chunks with their start steps | `add_and_ensemble` | between response and votes | alignment by absolute step, window, weights | only actions of the same step are combined |
| Gripper action server (`gripper_action_server.*`) | goals, one thread and one blocking call per goal, last gripper state and its lock | four actions, cancel, stop service, state timer | one libfranka gripper | concurrent goals; a cancel stops another's motion; a lock held while the gripper is read; exceptions in detached threads | one result per goal, after its motion; no goal waits for ever |
| Policy server and client (`websocket_policy_*.py`) | last activity; one connection each | handshake, route, idle shutdown; connect, predict | delta clients, probes | inference blocks every connection and the watchdog | one answer per request, to its sender, in order |
| Return utility, move utility | command pose, correction round | lift, move, correct, open | pose topic, gripper topic | feedback from stale poses; bounded rounds | inside the workspace; fingers open only after convergence |
| Delta-joint client | joint target, steps | request, act, publish | policy server | integrates its own target only | joint limits; bounded steps |
| Leader arm reader | zero, target and published angles | calibrate, read, smooth, publish | serial bus | servos that do not answer | angles relative to a real zero |
| Gripper example controller | static toggle, action and service clients | toggle on results, activate, deactivate | gripper action server, controller manager | goals sent from callbacks in any state; an unbounded wait in the thread that updates the arm | one goal per activation; deactivation returns |
| Example controllers of the arm (twelve) | first-update flag, pose and time of the start, semantic component, robot model, solution of the inverse kinematics | `on_configure`, `on_activate`, `update`, `on_deactivate` | parameter services, description, controller manager, inverse kinematics | second activation with the state of the first; requests refused or lost; answers from another thread | motion from where the arm stands; no command refused; no reference to a returned interface |
| Semantic components | references to lent interfaces, pointers of the robot model | assign, release, get, set | controllers | references that outlive the loan; vectors whose size must match | as the controllers |
| Robot state broadcaster | message, number of attempts, publisher thread | `on_configure`, `update` with `trylock` | RealtimePublisher | try-lock against a thread that sleeps with and without the lock | whole messages, in order, none lost |
| Gazebo hardware (`ign_system.cpp`, `ign_ros2_control_plugin.cpp`) | control-method bits and commands per joint, mimic joints, executor thread, time of the last update | `Configure`, `PreUpdate`, `PostUpdate`, mode switch, `read`, `write`, destructor | simulator, controller manager | bit masks of the switch; several modes on one joint; simulation time paused or set back; early returns | the law that drives a joint is one its controller has claimed; switches are performed |
| Quest bridge, probes | none or one value | copies | - | - | - |
| Descriptions, launch files, camera compose files, vendored model runtime | - | - | - | - | - |

`PROJECT.json` lists the same parts with their status, and under `hazards` the
things in this code that are hard to test, each at its line and with the
properties that would show it going wrong.

## 2. The modules

| Module | What it is |
| --- | --- |
| `FrankaHardware` | the hardware interface and the Robot wrapper, under a controller manager of adjustable freedom |
| `FrankaHardwareProofs` | its theorems |
| `MCFrankaHardware` | controllers for TLC, for any caller and for a single controller |
| `LatestCommand` | what a command heartbeat promises |
| `HeldCommand` | the heartbeat of the client script, at the granularity of its locks |
| `HeldCommandProofs` | its theorems, and that it implements the safety part of `LatestCommand` |
| `MCHeldCommand` | two commands for TLC |
| `GraspEpisode` | what one deployment does to the gripper, seen from outside |
| `GraspClient` | the deployment loop of the client script |
| `GraspClientProofs` | its theorems, and that it implements `GraspEpisode` |
| `MCGraspClient` | command lines for TLC |
| `IgnitionSystem` | the simulated hardware: mode bits, mode switch, `write` |
| `IgnitionControl` | the plugin around it: configuration, iterations, end |
| `IgnitionProofs` | theorems of both |
| `MCIgnition` | a robot with a hand, and broken descriptions |
| `GripperGoals` | what an action server promises of its goals |
| `GripperServer` | the gripper action server, at the granularity of its threads |
| `GripperExample` | the toggling controller, composed with the server |
| `GripperProofs`, `MCGripper` | theorems of both; goals for TLC |
| `ParamServices` | parameter services, recovery action and executor |
| `ControllerSetup` | `on_configure` of every example controller, composed with the services |
| `ControllerSetupProofs`, `MCControllerSetup` | theorems of both; clients for TLC |
| `SemanticComponents` | the operators of the semantic components, no state of its own |
| `ExampleControllers` | the example controllers from their configuration on |
| `ExampleControllersProofs`, `MCExampleControllers` | its theorems; poses for TLC |
| `StateBroadcaster` | the broadcaster and the thread of its publisher |
| `StateBroadcasterProofs`, `MCStateBroadcaster` | its theorems; numbers of attempts for TLC |

Definitions marked "Variant" in a module are altered copies of the definition
that follows them, as a plausible mistake would leave it. No specification uses
them. Substituting one must violate a property, which shows that the property
depends on the code (`mutants` in `PROJECT.json`).

### FrankaHardware

State: `hw` holds the `*_claimed_`, `*_running_` and `first_*_update_` members
as three sets of interface types; `robot` the active flags and the active
control of class Robot, and whether the arm has aborted its motion (`aborted`)
or waits for a recovery (`reflex`); `bad` and `stale` abstract the buffers to
what the properties tell apart: does a buffer hold a NaN or an infinity, and is
its content from before the last start of its mode. `phase` is the place in the
cycle of the controller manager, `pending` a prepared switch, `loaded` the
active controllers, `out` the last call with its result.

`Prepare` counts interfaces per type and throws at the first incomplete one
after changing the claims of those before it, as the loop at 471-494 does.
`Perform` composes five `Stage`s in the order of the source, each working on
what the ones before left behind; a start that fails skips the rest. `Read`
seeds the running buffers that still wait for it, `Update` lets each active
controller write or not write its buffers, `Write` combines the if-else chain of
`write` (`ToWrite`) with the dispatch of `Robot::writeOnce` (`Receiver`), which
decide independently. `Activate`, `Deactivate`, `Reflex` and `ErrorRecovery`
may come between any two steps.

The environment is the constant `Liberties`: several controllers at once,
swaps, deactivation under load, faults, non-finite values. The controller
manager is external and modelled from ros2_control as shipped with ROS 2
Humble: an error of `prepare` drops the request; the result of `perform` does
not keep the controllers from changing over; an error or exception of `read` or
`write` finalizes the component; inactive components are read and written too;
two controllers that want the same interface are never active together. None of
this keeps controllers of different modes from being active together or from being
swapped in either direction; both are liberties of `hardware_any`.

What a switch does to the control is stated for all of them by
`ControlFollowsSwitch`: the last change in the order of the stages leaves its own
control or none. For a swap forward in the table that is the control of the new
mode, for a backward swap none, and a mode stopped after another was started
takes the other's control with it. `CommandReachesItsControl` says that no command
goes to the control of a mode that does not run, and that the independent choices of
`write` and `Robot::writeOnce` agree where one mode runs; `SwitchServesClaims`
what a successful switch runs, leftovers of refused requests included.

### HeldCommand and LatestCommand

One step per lock operation or message. Setting the command and taking
`_command_lock` for it is one step, because nothing else happens under that
lock there. `seen[p]` is the local copy of thread `p` in
`_publish_held_command`, `gen` the generation counter that is compared again
under both locks. `PublishRaises` is an exception out of `publish`: the `with`
blocks release the locks, the timer thread dies (rclpy raises the callback's
exception out of `spin`), main unwinds to `stop_held_command`.

`LatestCommand` has two variables: the command in force and the last one
delivered. The mapping is `current = held.cmd` while the heartbeat is active
and `delivered = gripper`; the pose is not part of it, `PairsWhole` covers it.

### GraspClient and GraspEpisode

`main` of the client with `--execute` and a gripper, one action per stretch of
code between two waits: `Request` (loop head with `update_active_grasp`),
`Respond` (debouncing, hold transition, how many actions of the chunk are
executed), `Excessive` (an action beyond the norms ends the run before the first
is executed), `Act` (latch, enforcement,
candidate, clip, closing limit, publishing, grasp bookkeeping), `Hold` (the
action period and the second check), `AwaitRelease` (one turn of
`wait_for_physical_release`), and the ends: `Finish`, `ServerFails`,
`Interrupt`, and the abort branch of every action above.

Poses are reduced to their height, because only heights take part in decisions
beyond "outside the workspace", which is a nondeterministic `outside`. Widths
are the classes of `classify_grasp_width`. Clocks are ages, capped one past the
moment they expire; between two looks at the clock any of `args.delays` ticks
passes. The server's chunk is reduced to the consensus of its gripper values,
and the value of each action as it is executed; both are free. The command line
is one record, constrained by `ArgsAssumption` as `main` checks it. `votes` is a
history variable that recounts the requests independently of the filter.
`DeadlinesHold` relates the clocks to the phase after every look, however late.

`GraspEpisode` is the promise: approach, close once, validate, confirm, release,
complete, or end at any point, and the fingers move at these points only.

### IgnitionSystem and IgnitionControl

`method[j]` is the set of bits of `joint_control_method`; a command is known by
its author, a value sent to the simulator by the law that made it and the author
of its command, so that "who moves this joint, and how" can be asked of every
write. `Cleared` is the mask as it is: `VELOCITY & EFFORT` and the like are
conjunctions of different bits, hence zero, and stopping one interface of a joint
clears all. `Driven` is the if-else chain of `write`, `Follows` the mimic pass
behind it. `IgnitionControl` has one action per stretch of `Configure` up to
each wait or early return, then `PreUpdate`, physics, `PostUpdate` in turn; the
controller manager inside `PostUpdate` lets the active controllers write and
then performs a switch. Two active controllers do not share a joint
(`MayShareJoints = FALSE`), which is how the description's controllers are made;
with shared joints the precedence of `write` decides for one of them.

### GripperServer, GripperExample and GripperGoals

The executor thread takes goals, cancels, the stop service and the timer; each
goal has a detached thread (`thread[g]`) and a blocking call of libfranka
(`motion[g]`) in a thread of `std::async`. `stop` of libfranka ends whatever
motion runs, or returns false, which the callers in the loops ignore; then the
motion goes on, and it is the later `get()` of the future that waits for it. A turn of
the loop of `execute*Command` is two steps, the look at the result (`Loop`) and the
look for a cancel (`Look`), because the result may come between them. The timer's
callback holds the executor from when it fires (`TimerFires`) and waits for the state
lock there (`TimerLocks`). `alive` turns false where an
exception leaves a detached thread. `GripperExample` adds the controller and
another client; its goals are taken in order from a bounded supply.
`GripperGoals` is the promise: accepted, perhaps canceled, one result; the
mapping hides everything but goals and whether the server serves.

### ParamServices and ControllerSetup

`ParamServices` follows `on_init` from the connection to the two added nodes,
the thread of the executor, and a call of a service from the client through
take, set and answer. The seven services share the default callback group of
their node, so they run one at a time; the action has its own node, so it may run
beside them, with the second thread of the executor. `ControllerSetup` gives each
controller its script of questions in the order of its `on_configure`, worked
off by one client of the services. A request to a service that is not discovered
is lost (`"lost"`), which is the one way in which `ConfigureReturns` allows
`on_configure` not to return while the nodes serve. The constructor of the executor
polls until its thread spins; `PollsForEver` is the state in which rclcpp was shut down
before it saw that, and `StartsAndEnds` says that it is the only hang.

### SemanticComponents and ExampleControllers

A block of references to lent interfaces is the number of its loan, one per
activation; reading a block of an earlier loan reads destroyed objects, hence
any value. One record per controller says what tells it apart: which component
with or without elbow, when it takes the pose its motion starts from, which clock it
uses, whether `on_configure` makes the component anew. A command is the pose and
the elapsed time it is computed from, in place of the numbers. The answers of the
inverse kinematics come at any time, from another thread, into
`joint_positions_desired_`, which `update` may read half written (`Torn`).

### StateBroadcaster

`update` step by step: attempts of `trylock`, stamp, values, `unlockAndPublish`,
the other topics; and the loop of RealtimePublisher (external, as in realtime_tools
of ROS 2 Humble): look under the lock, sleep, copy, send. The copy is two steps, so that
a message torn between two cycles would be seen. A message is the pair of cycles
its stamp and its values come from.

## 3. The runs

| Run | Instance | Shows |
| --- | --- | --- |
| `hardware_any` | an effort and two Cartesian controllers (one with the elbow), an elbow-only one, and one that claims too little; all liberties but non-finite values | `ControlMatchesFlags`, `ElbowNeedsCartesian`, `NoStaleSetpoint`, `CommandReachesItsControl`, `SwitchServesClaims`, `ControlFollowsSwitch` under the freest caller |
| `hardware_single` | eight controllers, one active at a time, under the fair cycle; forward swaps, faults, non-finite values | `WriteFindsControl`, `RunningIsServed` |
| `heartbeat` | two commands, three replacements | all properties of `HeldCommand`, the refinement of `LatestCommand` with its fairness |
| `grasp` | three command lines: default, two actions per chunk, started closed without debouncing and hold | all properties of `GraspClient`, the refinement of `GraspEpisode` |
| `gazebo` | an arm with three interfaces, a finger and two mimic joints; three broken descriptions | `ServedIsClaimed`, `ClaimKeepsMethod`, `NothingFromTheStopped`, `MimicFollows`, `SwitchPerformed` |
| `gripper` | two goals of the controller, one of another client, one activation | `AnsweredMeansStill`, `DeactivateReturns`, the refinement of `GripperGoals` |
| `gripper_again` | four goals of the controller, two activations | `OneGoalPerActivation`, with goals of the first activation under way in the second |
| `setup` | thirteen scripts, one other client, two executor threads | `AnswersAreTrue`, `CallsAreAnswered`, `StartsAndEnds`, `ConfigureReturns` |
| `controllers` | twelve controllers, three activations, six cycles, two poses | `FollowsItsStart`, `CommandsAccepted`, `UsesItsLoan` |
| `broadcaster` | -1 to 2 attempts, three updates | `SentIsReleased`, `ReleasedIsSent` |
| `configure_refused` | as `setup` | violation: configured although the behaviour was refused |
| `grasp_silent` | a server that may stay silent | violation: the run never ends |

The violations are listed under `findings` with the text they contradict.

### Bounds

- `MaxSwitch` = 2 controllers per request: every property relates at most two
  modes and the elbow, and a swap needs one stop and one start.
- `hardware_any` takes two Cartesian controllers, the effort controller, the elbow
  alone and an incomplete claim. A backward swap, a joint and a Cartesian mode that run
  together (section 5 tells what `write` and `Robot::writeOnce` then do) and a claim
  left by an incomplete request all occur in it. The stages treat the other joint modes
  like the effort mode; the proofs cover every set of controllers.
- `MaxSets` = 3: a thread can sleep through two replacements of the command it
  copied, the second of which may bring back an equal command.
- `MCGraspClient`: eight steps are enough for three votes to close, the width,
  the lift, three votes to open, and two to spare; seven with two votes and six
  with one; "completed" is reachable with every command line. Delays of 0, 1 and 3 ticks pass none, one or all of the
  deadlines between two looks. Three heights give "below, at, above", and a lift
  or descent of one step. Times are capped (`Capped`) one past the moment at
  which they decide.
- `MCIgnition`: a control period of two steps lets a write come between an
  update and the next; one reset of the time by one step makes the difference negative.
- `MCGripper`: two motions and a canceled one at once are what `stop` can mix up.
  The run with liveness has one activation; the run with two leaves all four goals
  to the controller, so that each activation can have one under way and one more sent
  from its result. The proofs cover any set of goals and any number of activations.
- `MCControllerSetup`: one other client can hold the callback group, one recovery a
  thread. `Threads` = 2 is the least the executor can have.
- `MaxLoans` = 3: the third activation is the first after a deactivation that
  itself followed another; `MaxTime` = 6 leaves each two cycles.
- `StateBroadcaster`: two attempts reach "first", "last" and "one too many"; with
  zero or a negative number none is made, or the configuration fails.
- Deadlock is checked in `heartbeat`, `grasp`, `gazebo` and
  `grasp_silent`. The others may really stop: a finalized component or controller,
  an ended process, a bound reached, all goals used up.

### Fairness

- `FrankaHardware!FairSpec`: weak fairness of the cycle, because the update
  thread of the controller manager runs it at a fixed rate; a read that finds
  an aborted motion is part of it. Requests, switches, activation and other faults are
  not promised.
- `HeldCommand!FairSpec`: each thread inside `_publish_held_command` proceeds
  (the locks are held for a few statements), the timer ticks, and main stops
  after an exception of its own. That main sets commands or stops otherwise is not
  promised, nor that it comes back to `raise_if_failed`: it may wait in
  `predict_action` for ever. `HeartbeatGoesOn` therefore names the state in which the
  timer's thread is dead and main has not looked (`Unnoticed`).
- `GraspClient!FairSpec`: the client's thread runs, and the server answers or
  drops the connection. The second half is an assumption on the server: the code
  has no timeout, which `SilentServerSpec` and `grasp_silent` show.
- `IgnitionControl!FairSpec`: the simulator iterates and is not paused for ever
  (strong fairness of `PreUpdate(1)`, because steps of time and pauses alternate).
- `GripperServer!ServerFairness`: started callbacks and threads proceed, calls of
  libfranka return; strong fairness where a thread waits for the lock of the
  timer or a request for an executor that is idle now and then. That clients
  cancel, or the timer fires, is not promised.
- `ParamServices!ServiceFairness`: threads run and setters return; strong
  fairness of `Take`, because the callback group is free only now and then. A
  recovery need not end, except when the executor is being destroyed, which
  waits for it. `ControllerSetup!SetupSpec` adds that `on_configure` goes on.
- `StateBroadcaster!Spec`: both threads run, and the loop meets the mutex free at
  some time (strong fairness of `LoopLocks`).

## 4. The proofs

`FrankaHardwareProofs`, from `FrankaAssumption` (a finite set of controllers,
claims that are numbers): `TypeCorrect`, `FlagsCorrect`, `ElbowCorrect`,
`SetpointsFresh`. The inductive invariant `IInv` adds one conjunct to the checked
ones: a stale buffer still waits for its first read (`stale \subseteq hw.first`).
Without it `NoStaleSetpoint` is not inductive, since `write` does not look at
`stale` but at the first-update flags. A switch is five stages, so the argument
is an invariant of the stages (`StageInv`): each stage keeps the flags of Robot
matched, the elbow with a Cartesian mode, the first-update flags that were set,
and every restarted buffer either zeroed or waiting. One lemma per outcome of a
stage (`StartModeLemma`, `StartFailsLemma`, `StopModeLemma`), `StagesLemma` chains
five of them, one lemma per action, and `StepIInv` collects them.

Its second part goes through the same stages for what a switch leaves behind, still
for any caller and any faults: `ControlRuns`, `FailedSwitchStops` and
`ClaimsServed`. `SwitchInv` collects the three; the invariant of the stages is `PassInv`,
which says of the modes already passed that they run exactly if they are claimed
(`PassStage` for one stage, `PassStages` for the five). It is here that a later
stage could undo an earlier one: `ControlRuns` says that the mode then is not left
with libfranka, `ClaimsServed` that it still counts as running.

The third part is about several controllers at once, under `WholeClaims`: every
controller claims all interfaces of a type or none. `SwitchServesTogether` follows the
request from `prepare`, which only sees counts of interfaces, to the modes that run.
`ClaimsInv` says that what the component counts as claimed is what the controllers to
be claim, and that they share nothing, since the controller manager lends an
interface once. The count over any finite set of controllers is `CountsOfMany`.
It is a recursive function, and the induction theorems of the library do not apply;
the lemma takes a least set on which the count is wrong (`WFMin` and the strict subset order)
and removes one controller from it. `RequestLemma` turns the counts of a request
into its sets of types, `WrittenAfter` says that they are the claims of the
controllers to be. The theorem speaks of modes: whether the elbow of one of several
controllers runs depends on the order of the requests and is not promised.

The control itself has two theorems, both for any controllers, any caller and any
faults. `ControlFollows` goes through the five stages once more: `TrackInv` says of the stages
already passed that the last of them that changed its mode decides what the
control is, and that nothing has changed where the flags have not (`TrackStage`,
`TrackStages`); the other actions change neither the running modes nor, but for
deactivation, the control. `CommandReaches` puts the two choices of a write side by side:
`ReceiverIsActive` says that `Robot::writeOnce` only sends to the control whose flag is
set, which `ControlIsRunning` makes that of a running mode, and `ToWriteOfOne` that the
if-else chain of `write` takes the buffer of the one mode that runs.

`WriteFindsControl` is only model-checked, for one controller at a time and forward
swaps: for other callers it is false (section 5).

`GraspClientProofs`, from `ArgsAssumption`, which is what `main` checks of the
command line: `TypeCorrect`, `OneGrasp`, `HoldExplained`, `ClosingIsBounded`,
`HoldStill`, `CloseVoted`, `ReleaseVoted`, `DeadlinesKept`, `ClientIsEpisode`,
`HeartbeatCorrect` and `OutcomeCorrect`. None of the
checked properties is inductive, because each is decided in one part of the loop
and used in another. `FilterInv` compares the filter with the history variable:
the debounced state is the fingers' command except before the first action of a
chunk that changes it, and then the votes are there. `ReleaseInv` is its
counterpart for opening, `LatchInv` says that a chunk in hand while a grasp is
validated keeps the fingers closed, `PhaseInv` places the grasp and the ends in the
loop, `HoldInv` gives the reason of a hold wherever the loop stands, `OriginInv`
keeps the place of the close in the workspace. `LookLemma` says what one look at a
measurement can make of a grasp, and every action that looks cites it. The
refinement goes by the same stretches of the loop (`LookIsEpisode`,
`FingersIsEpisode`, `AwaitIsEpisode`, `LoopIsEpisode`). `ReleaseVoted` and
`ClientIsEpisode` ask for `args.latch`: with `--disable-gripper-close-latch` the
policy may open the fingers at any time, as that option says. `HeartbeatAgrees` is
inductive by itself: every place of the loop that re-anchors, rebases or clips the
target also tells the heartbeat before it waits for the policy server.
`DeadlinesKept` goes through one look (`WidthInTime`, `LiftInTime`, `LookInTime`) and
rests on `main`'s check that the close timeout lies behind the delay of the first width
check. `OutcomeIsTrue` needs the invariant where a run ends: a completed run has a
confirmed and released grasp, a finished one none or one that it holds.

`IgnitionProofs`, from the assumptions of both modules, for every description,
every set of controllers and any number of resets of the time: `TypeCorrect`,
`ClaimKeepsItsBit`, `ClaimIsServed`, `StoppedIsGone` and `MimicsFollow`. `SwitchInv`
keeps the controllers of a request apart from each other until it is performed.
`MethodInv` and `KeepInv` are the two directions of "the bits are those of the
active controllers": a bit is set for an active controller or is the effort bit of
`initSim` whose command nobody has written, and, where no joint is shared, a claimed
interface has its bit. `CommandInv` says that an updated controller's commands are
in the buffers, `MimicInv` that a mimic joint has no bit but that of `initSim`.
`ClaimKeepsItsBit` and `ClaimIsServed` ask for `~MayShareJoints`: with shared joints
the mask that clears all bits takes the neighbour's as well. `StoppedIsGone`
asks for `MimicsHaveNoEffort` (section 5).

`HeldCommandProofs`, from `HeldAssumption`: `TypeCorrect`, `PairsCorrect`,
`SetCorrect`, `StopCorrect`, `HeartbeatImplementsLatest`, `PublishesCorrect` and
`LocksOrdered`. `IInv` says who owns
which lock (`LocksHeld`), that a copy of the current generation is the current
command (`CopyAgrees`), that past the check nothing can change it
(`CheckedIsHeld`), and that nobody overtakes the main thread
(`MainIsCurrent`). Delivery in the refinement is `PublishGripper`, which by
`CheckedIsHeld` sends the command in force; `PublishesCorrect` adds the pose, sent one step
earlier. `LocksOrdered` follows from `LocksHeld`: the command lock is taken for
publishing only by the owner of the publish lock, so the threads do not wait for each other.

`GripperProofs`, from `GoalsAssumption` and `ActivationsAssumption` (finite sets, any
goals, and a `stop` that may stop nothing): `TypeCorrect`, `AnsweredStill`, `OneGoal`, `ServerImplementsGoals` and `ResultsFinal`. `GoalInv(g)`
ties what the client knows of a goal to its thread and to the motion: no thread
while it is idle or sent, an ended thread and no running motion once it has a
result, a result at hand where the thread finishes. The `stop` of one goal touches
the others only by ending a motion that runs, so one lemma for all of them
(`OneGoalLemma`) lifts the step of one thread to every goal. `OneGoal` counts: the
waiting goals of the controller whose result callback has not run are at most its
activations (`WaitingLemma` and a cardinality argument). In the refinement, a thread or an
executor step is the abstract answer, cancel or stutter of its goal
(`ServerImplements`); sending and the timer are invisible (`SendIsHidden`,
`ToggleIsHidden`). `ResultsFinal` is read off the refinement: it proves of the steps of
`GripperGoals` (`PromiseLemma`) what a client relies on, that a result stays what it is and
"canceled" follows only an accepted cancellation, and carries it to the server.

`ControllerSetupProofs`, from `ServiceAssumption` and `SetupAssumption`:
`ServicesCorrect`, `SuccessIsTrue` and `SetupCorrect`. `CallsInv` says that of the
callbacks in the exclusive group one runs at a time, and that what a setter has
successfully set is still set when its callback answers, which is false for two
callbacks at once; `NodesInv` and `EndedInv` say who may still ask. `ScriptInv`
places every script in its list of questions.

`ExampleControllersProofs`, from `ControllerAssumption`: `TypeCorrect`, `MotionFollows`,
`NothingRefused` and `LoanUsed`. A record of a controller is arbitrary, so
`SoundLemma` first states what the twelve have in common. `LoanInv`: an active
controller refers to exactly one block of the present loan, an inactive one to
none. `MotionInv`: the first-update flag is set exactly until the first update,
the origin is the pose at the activation or at that update, and the elapsed time
does not exceed the time since. `NothingRefused` leaves one crash: the controller with inverse
kinematics, when its robot model still refers to an earlier loan (`StaleModel`).

`StateBroadcasterProofs`, from `BroadcasterAssumption`: `TypeCorrect` and
`SendsWhatIsReleased`. `LocksInv`: the mutex and the turn tell where both threads
are. `HandedInv`: what is handed over and not yet sent is in the message under the
lock, in the copy of the loop, or nowhere.

Only model-checked: liveness (`RunningIsServed`, `HeartbeatGoesOn`, `RunEnds`,
`SwitchPerformed`, `DeactivateReturns`, `CallsAreAnswered`, `StartsAndEnds`,
`ConfigureReturns`, `ReleasedIsSent`, and the fairness part of `ImplementsLatest` and
`ImplementsGoals`), which is out of the prover's reach, and `WriteFindsControl`. The
type invariants are proved and no run spends time on them. Every
other safety property of a passing run is the subject of a theorem. The facts that the
theorems add to those properties (`ControlIsRunning`, `ThrowStopsRobot`,
`SwitchServesModes`, `HeartbeatAgrees`, `OutcomeIsTrue`,
`PublishesInForce`, `NoLockCycle`, `ResultsAreFinal`) are defined beside their
proofs; TLC found no violation of them on the instances of the runs either, and of those
about switches on five controllers of whole types, some of them sharing interfaces.

## 5. Observations

Met while modelling; no run reports them as findings.

Arm hardware. A switch stops its modes in the order of a table, after it has
started others in the same order: a swap to a mode earlier in the table loses
the control it just started, and the next write throws "Control hasn't been
started". `hardware_single` therefore allows forward swaps only;
`ControlFollowsSwitch` states the rule for both directions. With two modes running,
`write` takes the buffer of the first in its chain and `Robot::writeOnce` the
control whose flag is set: an effort and a Cartesian velocity controller running together
reach the branch "This part should not be reached" (robot.cpp:117), since seven
values arrive where six are expected, and a velocity and a position controller send
the values of one as commands of the other. The claims that an incomplete request has
changed before it throws stay, and the next switch, for whatever controllers, starts
or stops them.

Grasp client. A hold anchored outside the workspace is clipped once, by the next
action: `HoldFreezes` therefore speaks of an anchor inside, and in `grasp` one
command line anchors below the floor. When publishing kills the timer's thread while
main waits in `predict_action`, nothing is published any more and nobody notices until
the server answers. A lift first seen after its
deadline is confirmed all the same. `--max-grasp-attempts` above 1 has no effect:
`OneAttempt` holds for every value.

Gazebo hardware. Stopping one interface of a joint clears all of the joint's
methods (`VELOCITY & EFFORT` is zero); the second `if (vel)` at ign_system.cpp:301 is meant to be `if (eff)`, and the
`find_if` around it stops at the first state interface. Interfaces named
`..._mimic` match nothing in a switch: a mimic joint with an effort command
interface would keep the effort bit that `initSim` sets, and the command of a
stopped controller would go on moving it; no description here has one. Between a switch and the first update the buffer
of the last controller is written. `joint_efforts[i]` (ign_system.cpp:714) is out of
range beyond seven joints. The plugin's `return 0` makes a `std::string` of a null pointer,
without `update_rate` the period is never read, and the destructor returns
before it joins the thread when there is no controller manager
(ign_ros2_control_plugin.cpp:229).

Gripper. The result of `gripper_->stop()` in the cancel branches is ignored
(gripper_action_server.hpp:163, gripper_action_server.cpp:222): when it is false the goal is
reported canceled only after its motion has run to its end. When the context is shut down, the thread that polls leaves its loop and
still waits in the destructor of its future. The example controller calls
`result.get()` twice on one future (gripper_example_controller.cpp:95): the second
call throws and the controller is finalized. Its callbacks go on sending goals after
`on_deactivate`, which is why `OneGoalPerActivation` counts activations.

Services and setup. A request sent before the server is discovered is lost, and
`get()` then blocks the thread of the controller manager for ever. If rclcpp is shut
down after the executor's thread was started and before the constructor has seen
it spin, `spin` returns and the constructor polls for ever (franka_executor.cpp:20-25).
Exceptions of
libfranka other than the two that are caught end the process. A missing robot description
leaves the earlier one. `parseVersion` lets `invalid_argument` escape.

Example controllers. The inverse-kinematics controller keeps the earlier
solution while a request is pending, and its requests can pile up;
`joint_positions_desired_` is written by another thread while it is read. Its
`on_deactivate` does not release the references of the robot model
(joint_impedance_with_ik_example_controller.cpp:296-300): a first use of the model in a later
activation goes through destroyed interfaces and may throw out of `update`.
`process_finished` of move_to_start is set in the real-time update and never reset. The
results of `assign_loaned_state_interfaces` are ignored. The column-major matrix is
written through the pointer of a vector that has reserved capacity and size 0
(franka_cartesian_pose_interface.cpp:75).

State broadcaster. `lock_try_count` = 0 passes the check `< 0`, although the message asks for
more than 0, and nothing is ever published. `lock_update_success` changes the return
value only. The names of links hold the root twice, so index 8 (`kFlangeLinkIndex`)
is link 7 where link 0 is the root. The constructor of `FrankaRobotState` may throw outside the `try`.

## 6. Not modelled

- Numerics: filters, rate limiters, rotations, interpolation, gravity
  compensation, the control laws, the neural network, image processing. Their
  outputs are arbitrary values, or the inputs they are made from.
- The conversions of `translation_utils.cpp` and the names of links and frames in
  the state message: copies field by field.
- The class `Model` and the read side of `Robot` (`model.hpp`, `robot.hpp`):
  they hand calls to libfranka.
- Parsing of parameters, startup and the checks of the client's command line
  (they are the assumptions and the initial states).
- Data races between the real-time thread and other threads inside Robot.
- Everything in section 1 whose `status` is `not_modelled`, with the reasons given
  in `PROJECT.json`; Git submodules are empty in this tree.

## 7. What could follow

1. Proofs: `WriteFindsControl` under the weakest condition on the caller that the
   order of the stages allows; the elbow of several controllers at once; the
   promises of `GraspEpisode` as theorems of the deployment loop, through the refinement.
2. `TemporalEnsemble`: the ensembler against a reference definition over bounded
   chunks: only actions of the same absolute step are combined.
3. `PolicyServer`: connections on one event loop, inference that blocks it, idle
   shutdown; then `GraspClient` composed with it and with `HeldCommand`.
4. `ReturnToStandard`: workspace on every command, opening after convergence,
   bounded rounds.
