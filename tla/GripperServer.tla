---------------------------- MODULE GripperServer ---------------------------
(***************************************************************************)
(* The gripper action server of franka_gripper.  One executor thread takes *)
(* goals, cancel requests, the stop service and the state timer; every     *)
(* goal gets a detached thread, and that one a further thread for the      *)
(* blocking call of libfranka.  One gripper serves them all.               *)
(***************************************************************************)
EXTENDS Naturals, FiniteSets

CONSTANT Goals   \* identities of goals

VARIABLES
  kind,      \* action of a goal
  goal,      \* state of its goal handle; "sent" is on its way to the server
  thread,    \* place of its thread in execute*Command
  motion,    \* its blocking call: running, or what result it has left
  lock,      \* gripper_state_mutex_: free, or held by the timer callback
  executor,  \* what the executor thread is doing
  stop,      \* the call of the stop service
  ok,        \* rclcpp::ok()
  alive      \* the process

serverVars == <<kind, goal, thread, motion, lock, executor, stop, ok, alive>>

Kinds == {"homing", "move", "grasp", "command"}
Terminal == {"succeeded", "aborted", "canceled"}

ServerTypeOK ==
  /\ kind \in [Goals -> Kinds]
  /\ goal \in [Goals -> {"idle", "sent", "executing", "canceling"} \cup Terminal]
  /\ thread \in [Goals -> {"none", "decide", "wait", "look", "stop", "get", "finish", "ended"}]
  /\ motion \in [Goals -> {"none", "running", "true", "false"}]
  /\ lock \in {"free", "timer"}
  /\ executor \in {"idle", "locking", "reading", "stopping"}
  /\ stop \in {"none", "asked", "running", "answered"}
  /\ {ok, alive} \subseteq BOOLEAN

(* The constructor, once the gripper is connected and its state was read. *)
ServerInit ==
  /\ kind = [g \in Goals |-> "homing"]
  /\ goal = [g \in Goals |-> "idle"]
  /\ thread = [g \in Goals |-> "none"]
  /\ motion = [g \in Goals |-> "none"]
  /\ lock = "free" /\ executor = "idle" /\ stop = "none"
  /\ ok = TRUE /\ alive = TRUE

Send(g, k) == goal[g] = "idle" /\ goal' = [goal EXCEPT ![g] = "sent"] /\ kind' = [kind EXCEPT ![g] = k]

-----------------------------------------------------------------------------
(* The executor thread.                                                    *)

Serving == alive /\ ok
Idle == Serving /\ executor = "idle"

(* handleGoal accepts everything; the goal's thread is started. *)
Accept(g) ==
  /\ Idle /\ goal[g] = "sent"
  /\ goal' = [goal EXCEPT ![g] = "executing"]
  /\ thread' = [thread EXCEPT ![g] = IF kind[g] = "command" THEN "decide" ELSE "wait"]
  /\ motion' = [motion EXCEPT ![g] = IF kind[g] = "command" THEN "none" ELSE "running"]
  /\ UNCHANGED <<kind, lock, executor, stop, ok, alive>>

(* handleCancel accepts every request for a goal that is not over. *)
Cancel(g) ==
  /\ Idle /\ goal[g] = "executing"
  /\ goal' = [goal EXCEPT ![g] = "canceling"]
  /\ UNCHANGED <<kind, thread, motion, lock, executor, stop, ok, alive>>

(* publishGripperState: the timer callback waits for the lock, takes it,    *)
(* reads the state from the gripper with the lock held, and publishes.      *)
TimerFires ==
  /\ Idle
  /\ executor' = "locking"
  /\ UNCHANGED <<kind, goal, thread, motion, lock, stop, ok, alive>>

TimerLocks ==
  /\ alive /\ executor = "locking" /\ lock = "free"
  /\ executor' = "reading" /\ lock' = "timer"
  /\ UNCHANGED <<kind, goal, thread, motion, stop, ok, alive>>

(* Variant: an exception of readOnce leaves the lock taken. *)
PublishStateUnguarded ==
  /\ alive /\ executor = "reading"
  /\ executor' = "idle" /\ lock' \in {"free", "timer"}
  /\ UNCHANGED <<kind, goal, thread, motion, stop, ok, alive>>

(* An exception of readOnce is caught: the old state is published. *)
PublishState ==
  /\ alive /\ executor = "reading"
  /\ executor' = "idle" /\ lock' = "free"
  /\ UNCHANGED <<kind, goal, thread, motion, stop, ok, alive>>

StopService ==
  /\ Idle /\ stop = "asked"
  /\ executor' = "stopping" /\ stop' = "running"
  /\ UNCHANGED <<kind, goal, thread, motion, lock, ok, alive>>

(* gripper_->stop() ends whatever motion is running (external). *)
Halted == [g \in Goals |-> IF motion[g] = "running" THEN "false" ELSE motion[g]]

(* stopServiceCallback answers, also when stop fails or throws. *)
StopServiceAnswers ==
  /\ alive /\ executor = "stopping"
  /\ executor' = "idle" /\ stop' = "answered"
  /\ motion' = Halted \/ UNCHANGED motion
  /\ UNCHANGED <<kind, goal, thread, lock, ok, alive>>

-----------------------------------------------------------------------------
(* The thread of a goal.                                                   *)

At(g, place) == alive /\ thread[g] = place
Goto(g, place) == thread' = [thread EXCEPT ![g] = place]
Becomes(g, state) == goal' = [goal EXCEPT ![g] = state]

(* onExecuteGripperCommand, under the lock: out of range, there already, or *)
(* a move or a grasp by the width that was last read.                       *)
Decide(g) ==
  /\ At(g, "decide") /\ lock = "free"
  /\ \/ \E state \in {"aborted", "succeeded"} :
          Becomes(g, state) /\ Goto(g, "ended") /\ UNCHANGED motion
     \/ /\ Goto(g, "wait")
        /\ motion' = [motion EXCEPT ![g] = "running"]
        /\ UNCHANGED goal
  /\ UNCHANGED <<kind, lock, executor, stop, ok, alive>>

Ready(g) == motion[g] \in {"true", "false"}

(* The loop: resultIsReady times out or not; then rclcpp::ok().  Without ok  *)
(* the thread ends and the goal has no result.                              *)
Loop(g) ==
  /\ At(g, "wait")
  /\ Goto(g, IF ~ok THEN "ended" ELSE IF Ready(g) THEN "finish" ELSE "look")
  /\ UNCHANGED <<kind, goal, motion, lock, executor, stop, ok, alive>>

(* Then is_canceling(), when the result may have come after all; otherwise  *)
(* feedback, under the lock, and another turn.                              *)
Look(g) ==
  /\ At(g, "look")
  /\ \/ goal[g] = "canceling" /\ Goto(g, "stop")
     \/ goal[g] # "canceling" /\ lock = "free" /\ Goto(g, "wait")
  /\ UNCHANGED <<kind, goal, motion, lock, executor, stop, ok, alive>>

(* gripper_->stop() in the goal's thread stops the motion of any goal, or   *)
(* returns false, which is ignored, and the motion goes on; an exception of *)
(* it leaves the thread, and that ends the process.                         *)
CancelStops(g) ==
  /\ At(g, "stop")
  /\ \/ Goto(g, "get") /\ (motion' = Halted \/ UNCHANGED motion) /\ UNCHANGED alive
     \/ alive' = FALSE /\ UNCHANGED <<thread, motion>>
  /\ UNCHANGED <<kind, goal, lock, executor, stop, ok>>

(* result_future.get() takes the result, then canceled. *)
Taken(g) == motion' = [motion EXCEPT ![g] = "none"]

\* Variant: the result is not waited for after stop.
CancelAnswersAtOnce(g) ==
  /\ At(g, "get")
  /\ Goto(g, "ended") /\ Becomes(g, "canceled")
  /\ UNCHANGED <<kind, motion, lock, executor, stop, ok, alive>>

CancelAnswers(g) ==
  /\ At(g, "get") /\ Ready(g)
  /\ Taken(g)
  /\ Goto(g, "ended") /\ Becomes(g, "canceled")
  /\ UNCHANGED <<kind, lock, executor, stop, ok, alive>>

(* The result after the loop; a gripper command adds the width, locked. *)
Finish(g) ==
  /\ At(g, "finish")
  /\ kind[g] = "command" => lock = "free"
  /\ Taken(g)
  /\ Goto(g, "ended")
  /\ Becomes(g, IF motion[g] = "true" THEN "succeeded" ELSE "aborted")
  /\ UNCHANGED <<kind, lock, executor, stop, ok, alive>>

(* withResultGenerator: the call of libfranka returns true or false, or     *)
(* throws, which is a false result with a message (external: when).         *)
MotionEnds(g) ==
  /\ alive /\ motion[g] = "running"
  /\ \E result \in {"true", "false"} : motion' = [motion EXCEPT ![g] = result]
  /\ UNCHANGED <<kind, goal, thread, lock, executor, stop, ok, alive>>

Shutdown ==
  /\ Serving
  /\ ok' = FALSE
  /\ UNCHANGED <<kind, goal, thread, motion, lock, executor, stop, alive>>

ThreadStep(g) ==
  Decide(g) \/ Loop(g) \/ Look(g) \/ CancelStops(g) \/ CancelAnswers(g) \/ Finish(g)

ExecutorStep == TimerLocks \/ PublishState \/ StopService \/ StopServiceAnswers

ServerNext ==
  \/ TimerFires \/ ExecutorStep \/ Shutdown
  \/ \E g \in Goals : Accept(g) \/ Cancel(g) \/ ThreadStep(g) \/ MotionEnds(g)

(* The threads run; a thread that waits for the lock gets it in the end,    *)
(* and an executor that is often idle comes to each waiting request.        *)
(* Calls of libfranka return.                                               *)
ServerFairness ==
  /\ WF_serverVars(TimerLocks \/ PublishState \/ StopServiceAnswers)
  /\ SF_serverVars(StopService)
  /\ \A g \in Goals : SF_serverVars(ThreadStep(g)) /\ WF_serverVars(MotionEnds(g))

-----------------------------------------------------------------------------
(* Properties.                                                             *)

(* A goal that has its result moves no finger any more: the blocking call   *)
(* made for it has returned, also when the goal was canceled, whether stop  *)
(* stopped anything or returned false, and while other goals, their cancels *)
(* and the stop service were at work on the same gripper.                   *)
AnsweredMeansStill == \A g \in Goals : goal[g] \in Terminal => motion[g] # "running"

Handle == [g \in Goals |-> IF goal[g] \in {"idle", "sent"} THEN "none" ELSE goal[g]]
Promise == INSTANCE GripperGoals WITH goal <- Handle, serving <- Serving

(* Whatever is asked of the one gripper at the same time, every goal gets   *)
(* one result, "canceled" only on request, and as long as the server serves *)
(* it gets it at some time.                                                 *)
ImplementsGoals == Promise!Spec
=============================================================================
