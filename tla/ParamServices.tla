----------------------------- MODULE ParamServices ----------------------------
(***************************************************************************)
(* The nodes that FrankaHardwareInterface::on_init starts beside the       *)
(* real-time loop: the parameter services, the error recovery action, and  *)
(* the executor that serves both in threads of its own.  A parameter of    *)
(* the robot is known by the client who set it last.                       *)
(***************************************************************************)
EXTENDS Naturals, FiniteSets

CONSTANTS
  Clients,  \* who may call a parameter service, one call at a time each
  Params,   \* the parameters, one service each
  Factory,  \* nobody has set the parameter
  Threads   \* threads of the MultiThreadedExecutor, two at least

ASSUME ServiceAssumption == Factory \notin Clients /\ Threads \in Nat \ {0, 1}

VARIABLES
  init,      \* how far on_init is, then the life of the component
  thread,    \* executor_spin_
  nodes,     \* nodes added to the executor
  ok,        \* rclcpp::ok()
  alive,     \* the process
  call,      \* call of each client: [at, param, success]
  value,     \* parameters of the robot
  recovery   \* the goal of the error recovery action

serviceVars == <<init, thread, nodes, ok, alive, call, value, recovery>>

NoCall == [at |-> "none", param |-> Factory, success |-> FALSE]

Running == {c \in Clients : call[c].at \in {"running", "set"}}
Busy == Cardinality(Running) + IF recovery = "running" THEN 1 ELSE 0

(* The types; the services' callback group runs one callback at a time, and *)
(* the executor's threads are gone only when nothing is being executed.     *)
ServiceTypeOK ==
  /\ init \in {"connect", "waiting", "adding", "done", "failed", "destroying", "destroyed"}
  /\ thread \in {"none", "starting", "spinning", "canceled", "ended"}
  /\ nodes \subseteq {"service", "action"}
  /\ {ok, alive} \subseteq BOOLEAN
  /\ call \in [Clients -> [at : {"none", "lost", "sent", "running", "set", "answered"},
                           param : Params \cup {Factory}, success : BOOLEAN]]
  /\ value \in [Params -> Clients \cup {Factory}]
  /\ recovery \in {"none", "sent", "running"}
  /\ \A c, d \in Running : c = d
  /\ thread = "ended" => Running = {} /\ recovery # "running"

ServiceInit ==
  /\ init = "connect" /\ thread = "none" /\ nodes = {} /\ ok = TRUE /\ alive = TRUE
  /\ call = [c \in Clients |-> NoCall]
  /\ value = [p \in Params |-> Factory]
  /\ recovery = "none"

-----------------------------------------------------------------------------
(* on_init, the executor's constructor and destructor, its thread.         *)

(* A wrong or missing version, no robot_ip, no connection to the robot; a   *)
(* version that is no version leaves on_init as an exception nobody catches. *)
OnInitFails ==
  /\ alive /\ init = "connect" /\ init' = "failed"
  /\ alive' \in BOOLEAN
  /\ UNCHANGED <<thread, nodes, ok, call, value, recovery>>

(* Connected: the service node is made, and FrankaExecutor starts its       *)
(* thread and waits for it.                                                 *)
StartExecutor ==
  /\ alive /\ init = "connect" /\ init' = "waiting" /\ thread' = "starting"
  /\ UNCHANGED <<nodes, ok, alive, call, value, recovery>>

(* run *)
Spin ==
  /\ alive /\ thread = "starting" /\ thread' = "spinning"
  /\ UNCHANGED <<init, nodes, ok, alive, call, value, recovery>>

(* The constructor polls "spinning" every 100 ms: it may miss all of it. *)
SeesSpinning ==
  /\ alive /\ init = "waiting" /\ thread = "spinning"
  /\ init' = "adding" /\ nodes' = {"service"}
  /\ UNCHANGED <<thread, ok, alive, call, value, recovery>>

(* The action node is made and added; on_init returns. *)
AddAction ==
  /\ alive /\ init = "adding"
  /\ init' = "done" /\ nodes' = nodes \cup {"action"}
  /\ UNCHANGED <<thread, ok, alive, call, value, recovery>>

(* spin returns when it was canceled or rclcpp is shut down, once the       *)
(* callbacks that are being executed have returned.                         *)
SpinReturns ==
  /\ alive /\ (thread = "canceled" \/ (thread = "spinning" /\ ~ok))
  /\ Busy = 0
  /\ thread' = "ended"
  /\ UNCHANGED <<init, nodes, ok, alive, call, value, recovery>>

(* Variant: the destructor joins a thread it has not canceled. *)
DestroyWithoutCancel ==
  /\ alive /\ init = "done" /\ init' = "destroying"
  /\ UNCHANGED <<thread, nodes, ok, alive, call, value, recovery>>

(* ~FrankaExecutor: shutdown cancels the executor if it spins, then join. *)
Destroy ==
  /\ alive /\ init = "done" /\ init' = "destroying"
  /\ thread' = IF thread = "spinning" THEN "canceled" ELSE thread
  /\ UNCHANGED <<nodes, ok, alive, call, value, recovery>>

Joined ==
  /\ alive /\ init = "destroying" /\ thread = "ended"
  /\ init' = "destroyed"
  /\ UNCHANGED <<thread, nodes, ok, alive, call, value, recovery>>

ShutDown ==
  /\ alive /\ ok /\ ok' = FALSE
  /\ UNCHANGED <<init, thread, nodes, alive, call, value, recovery>>

-----------------------------------------------------------------------------
(* A parameter service.  All of them are in the one mutually exclusive     *)
(* callback group of their node.                                           *)

(* Variant: the executor has one thread. *)
ExecutesAlone == alive /\ thread = "spinning" /\ ok /\ Busy < 1

(* A thread of the executor is free for another callback. *)
Executes == alive /\ thread = "spinning" /\ ok /\ Busy < Threads

At(c, place) == call[c].at = place
Goes(c, place) == call' = [call EXCEPT ![c].at = place]

(* The clients: a call to a service that is not discovered yet is lost. *)
Ask(c, p) ==
  /\ At(c, "none")
  /\ \E at \in {"sent", "lost"} :
       call' = [call EXCEPT ![c] = [at |-> at, param |-> p, success |-> FALSE]]

(* Variant: recovery and services share one callback group. *)
TakeAlone(c) ==
  /\ Executes /\ "service" \in nodes
  /\ At(c, "sent") /\ Running = {} /\ recovery # "running"
  /\ Goes(c, "running")
  /\ UNCHANGED <<init, thread, nodes, ok, alive, value, recovery>>

(* The service takes a request and its callback starts. *)
Take(c) ==
  /\ Executes /\ "service" \in nodes
  /\ At(c, "sent") /\ Running = {}
  /\ Goes(c, "running")
  /\ UNCHANGED <<init, thread, nodes, ok, alive, value, recovery>>

(* The callback's setter of Robot, with write_mutex_, which nothing but     *)
(* these callbacks takes.  libfranka (external) has set the parameter, has  *)
(* refused it (CommandException), or lost the connection before or after    *)
(* (NetworkException); success of setGenericRobotParam follows.             *)
Set(c) ==
  /\ alive /\ At(c, "running")
  /\ \E success, done \in BOOLEAN :
       /\ success => done
       /\ value' = IF done THEN [value EXCEPT ![call[c].param] = c] ELSE value
       /\ call' = [call EXCEPT ![c].at = "set", ![c].success = success]
  /\ UNCHANGED <<init, thread, nodes, ok, alive, recovery>>

(* Any other exception leaves the callback and a thread of the executor. *)
SetThrows(c) ==
  /\ alive /\ At(c, "running")
  /\ alive' = FALSE
  /\ UNCHANGED <<init, thread, nodes, ok, call, value, recovery>>

(* Variant: every caught exception is answered like a success. *)
RespondAlways(c) ==
  /\ alive /\ At(c, "set")
  /\ call' = [call EXCEPT ![c].at = "answered", ![c].success = TRUE]
  /\ UNCHANGED <<init, thread, nodes, ok, alive, value, recovery>>

Respond(c) ==
  /\ alive /\ At(c, "set")
  /\ Goes(c, "answered")
  /\ UNCHANGED <<init, thread, nodes, ok, alive, value, recovery>>

-----------------------------------------------------------------------------
(* The error recovery action, in the callback group of its own node.       *)

SendRecovery ==
  /\ alive /\ recovery = "none" /\ recovery' = "sent"
  /\ UNCHANGED <<init, thread, nodes, ok, alive, call, value>>

(* The goal is accepted, and the callback that accepted it runs the whole   *)
(* recovery: no cancel is taken meanwhile.                                  *)
Recover ==
  /\ Executes /\ "action" \in nodes
  /\ recovery = "sent"
  /\ recovery' = "running"
  /\ UNCHANGED <<init, thread, nodes, ok, alive, call, value>>

(* succeed or abort; another exception ends the process. *)
RecoverEnds ==
  /\ alive /\ recovery = "running"
  /\ \/ recovery' = "none" /\ UNCHANGED alive
     \/ alive' = FALSE /\ UNCHANGED recovery
  /\ UNCHANGED <<init, thread, nodes, ok, call, value>>

ServeOne(c) == Take(c) \/ Set(c) \/ SetThrows(c) \/ Respond(c)
Starts == StartExecutor \/ Spin \/ SeesSpinning \/ AddAction
Ends == SpinReturns \/ Joined

ServiceNext ==
  \/ OnInitFails \/ Starts \/ Destroy \/ Ends \/ ShutDown
  \/ SendRecovery \/ Recover \/ RecoverEnds
  \/ \E c \in Clients : ServeOne(c)

(* Threads run and calls of libfranka return, except that nothing is        *)
(* assumed of how long a recovery takes, unless the executor is destroyed.  *)
ServiceFairness ==
  /\ WF_serviceVars(Spin) /\ WF_serviceVars(SeesSpinning) /\ WF_serviceVars(AddAction)
  /\ WF_serviceVars(Ends) /\ WF_serviceVars(init = "destroying" /\ RecoverEnds)
  /\ \A c \in Clients : /\ SF_serviceVars(Take(c))
                        /\ WF_serviceVars(Set(c) \/ SetThrows(c))
                        /\ WF_serviceVars(Respond(c))

Serving == alive /\ ok /\ init \in {"waiting", "adding", "done"}

-----------------------------------------------------------------------------
(* Properties.                                                             *)

(* A client that is told "success" has its value in the robot at that       *)
(* moment: no other client's call of the same service got between the       *)
(* setter and the answer, and no failure was reported as success.           *)
AnswersAreTrue ==
  [][\A c \in Clients : At(c, "set") /\ call'[c].at = "answered" /\ call'[c].success
       => value[call[c].param] = c]_serviceVars

(* Every call that reached the node is answered while the process serves,   *)
(* however long an error recovery takes beside it.                          *)
CallsAreAnswered ==
  \A c \in Clients : At(c, "sent") ~> (At(c, "answered") \/ ~Serving)

(* rclcpp was shut down before the constructor's poll had seen the executor *)
(* spin: it polls for ever.                                                 *)
PollsForEver == init = "waiting" /\ thread = "ended"

(* on_init gets through the executor's constructor unless the poll came too *)
(* late for an executor that a shutdown of rclcpp had already ended, which  *)
(* is its one way to hang; the destructor never hangs in join.              *)
StartsAndEnds ==
  /\ (init = "waiting") ~> (init = "done" \/ PollsForEver \/ ~alive)
  /\ [](PollsForEver => ~ok)
  /\ (init = "destroying") ~> (init = "destroyed" \/ ~alive)
=============================================================================
