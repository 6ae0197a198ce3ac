----------------------------- MODULE HeldCommand -----------------------------
(***************************************************************************)
(* The command heartbeat of starvla_franka_delta_pose_client.py: the main  *)
(* thread replaces the held command and publishes it at once; a timer on a *)
(* background executor publishes the held command again and again, also    *)
(* while the main thread waits for the policy server.  Two locks:          *)
(* _command_lock for the held command, _publish_lock for the publishers.   *)
(***************************************************************************)
EXTENDS Integers

CONSTANTS
  Commands,  \* the pairs of a target pose and a gripper value
  NoCommand, \* before the first command
  MaxSets    \* bound: how often the main thread replaces the command

ASSUME HeldAssumption ==
  /\ NoCommand \notin Commands
  /\ MaxSets \in Nat

Main == "main"
Timer == "timer"
Threads == {Main, Timer}
Free == "free"

VARIABLES
  held,        \* [cmd, active, gen]: _held_*, _held_command_active, _generation
  seen,        \* what a thread in _publish_held_command has copied: [cmd, gen]
  pc,          \* where each thread stands
  commandLock, \* owner of _command_lock between two steps
  publishLock, \* owner of _publish_lock
  pose,        \* last command sent on the target pose topic
  gripper      \* last command sent on the gripper topic

vars == <<held, seen, pc, commandLock, publishLock, pose, gripper>>

At(p, l) == pc[p] = l
Go(p, l) == pc' = [pc EXCEPT ![p] = l]

-------------------------------------------------------------------------------
(* The main thread *)

\* Variant: set_held_command leaves publishing to the timer.
SetHeldQuietly(c) ==
  /\ At(Main, "idle")
  /\ commandLock = Free
  /\ held.gen < MaxSets
  /\ held' = [cmd |-> c, active |-> TRUE, gen |-> held.gen + 1]
  /\ UNCHANGED <<pc, seen, commandLock, publishLock, pose, gripper>>

\* set_held_command(publish_immediately=True), up to the call that publishes.
SetHeld(c) ==
  /\ At(Main, "idle")
  /\ commandLock = Free
  /\ held.gen < MaxSets
  /\ held' = [cmd |-> c, active |-> TRUE, gen |-> held.gen + 1]
  /\ Go(Main, "called")
  /\ UNCHANGED <<seen, commandLock, publishLock, pose, gripper>>

\* Variant: the heartbeat is stopped without looking at the lock.
StopUnlocked ==
  /\ pc[Main] \in {"idle", "raised"}
  /\ held' = [cmd |-> held.cmd, active |-> FALSE, gen |-> held.gen + 1]
  /\ Go(Main, "done")
  /\ UNCHANGED <<seen, commandLock, publishLock, pose, gripper>>

\* stop_held_command, in the finally of main: at the end or after any exception.
Stop ==
  /\ pc[Main] \in {"idle", "raised"}
  /\ commandLock = Free
  /\ held' = [cmd |-> held.cmd, active |-> FALSE, gen |-> held.gen + 1]
  /\ Go(Main, "done")
  /\ UNCHANGED <<seen, commandLock, publishLock, pose, gripper>>

-------------------------------------------------------------------------------
(* _publish_held_command, in either thread *)

\* Variant: a one-shot timer.
TickOnce ==
  /\ At(Timer, "idle")
  /\ gripper = NoCommand
  /\ Go(Timer, "called")
  /\ UNCHANGED <<held, seen, commandLock, publishLock, pose, gripper>>

\* The timer's callback group runs one callback at a time.
Tick ==
  /\ At(Timer, "idle")
  /\ Go(Timer, "called")
  /\ UNCHANGED <<held, seen, commandLock, publishLock, pose, gripper>>

Copy(p) ==
  /\ At(p, "called")
  /\ commandLock = Free
  /\ IF held.active
       THEN seen' = [seen EXCEPT ![p] = [cmd |-> held.cmd, gen |-> held.gen]] /\ Go(p, "copied")
       ELSE UNCHANGED seen /\ Go(p, "idle")
  /\ UNCHANGED <<held, commandLock, publishLock, pose, gripper>>

TakePublishLock(p) ==
  /\ At(p, "copied")
  /\ publishLock = Free
  /\ publishLock' = p
  /\ Go(p, "locked")
  /\ UNCHANGED <<held, seen, commandLock, pose, gripper>>

\* Variant: the command lock is not held while publishing.
CheckAndUnlock(p) ==
  /\ At(p, "locked")
  /\ commandLock = Free
  /\ IF held.active /\ seen[p].gen = held.gen
       THEN Go(p, "checked") /\ UNCHANGED publishLock
       ELSE publishLock' = Free /\ Go(p, "idle")
  /\ UNCHANGED <<held, seen, commandLock, pose, gripper>>

\* Under both locks: give up when the command was replaced or stopped meanwhile.
Check(p) ==
  /\ At(p, "locked")
  /\ commandLock = Free
  /\ IF held.active /\ seen[p].gen = held.gen
       THEN commandLock' = p /\ Go(p, "checked") /\ UNCHANGED publishLock
       ELSE publishLock' = Free /\ Go(p, "idle") /\ UNCHANGED commandLock
  /\ UNCHANGED <<held, seen, pose, gripper>>

\* Variant: the locks are released between the two messages.
PublishPoseAndUnlock(p) ==
  /\ At(p, "checked")
  /\ pose' = seen[p].cmd
  /\ commandLock' = Free
  /\ publishLock' = Free
  /\ Go(p, "posed")
  /\ UNCHANGED <<held, seen, gripper>>

PublishPose(p) ==
  /\ At(p, "checked")
  /\ pose' = seen[p].cmd
  /\ Go(p, "posed")
  /\ UNCHANGED <<held, seen, commandLock, publishLock, gripper>>

PublishGripper(p) ==
  /\ At(p, "posed")
  /\ gripper' = seen[p].cmd
  /\ commandLock' = Free
  /\ publishLock' = Free
  /\ Go(p, "idle")
  /\ UNCHANGED <<held, seen, pose>>

\* publish raises (the ROS context is gone): the with blocks release both locks;
\* the executor's spin ends, or the exception unwinds main to its finally.
PublishRaises(p) ==
  /\ pc[p] \in {"checked", "posed"}
  /\ commandLock' = Free
  /\ publishLock' = Free
  /\ Go(p, IF p = Main THEN "raised" ELSE "dead")
  /\ UNCHANGED <<held, seen, pose, gripper>>

Publish(p) ==
  Copy(p) \/ TakePublishLock(p) \/ Check(p) \/ PublishPose(p) \/ PublishGripper(p)

-------------------------------------------------------------------------------
Init ==
  /\ held = [cmd |-> NoCommand, active |-> FALSE, gen |-> 0]
  /\ seen = [p \in Threads |-> [cmd |-> NoCommand, gen |-> 0]]
  /\ pc = [p \in Threads |-> "idle"]
  /\ commandLock = Free
  /\ publishLock = Free
  /\ pose = NoCommand
  /\ gripper = NoCommand

\* The client has ended and its executor is shut down between two callbacks.
Ended ==
  /\ At(Main, "done")
  /\ pc[Timer] \in {"idle", "dead"}
  /\ UNCHANGED vars

Next ==
  \/ \E c \in Commands : SetHeld(c)
  \/ Stop
  \/ Tick
  \/ \E p \in Threads : Copy(p)
  \/ \E p \in Threads : TakePublishLock(p)
  \/ \E p \in Threads : Check(p)
  \/ \E p \in Threads : PublishPose(p)
  \/ \E p \in Threads : PublishGripper(p)
  \/ \E p \in Threads : PublishRaises(p)
  \/ Ended

Spec == Init /\ [][Next]_vars

\* A thread inside _publish_held_command goes on, the timer keeps ticking, and
\* main leaves after an exception.  Nothing brings main back to the publisher
\* otherwise: it may wait in predict_action for ever (line 1369), and only when it
\* comes back does raise_if_failed report an executor that has died.
Fairness ==
  /\ \A p \in Threads : WF_vars(Publish(p))
  /\ WF_vars(Tick)
  /\ WF_vars(Stop /\ At(Main, "raised"))
FairSpec == Spec /\ Fairness

-------------------------------------------------------------------------------
(* Properties *)

Inside == {"idle", "called", "copied", "locked", "checked", "posed"}

TypeOK ==
  /\ held \in [cmd : Commands \union {NoCommand}, active : BOOLEAN, gen : Nat]
  /\ seen \in [Threads -> [cmd : Commands \union {NoCommand}, gen : Nat]]
  /\ pc \in [Threads -> Inside \union {"raised", "done", "dead"}]
  /\ pc[Main] # "dead"
  /\ pc[Timer] \notin {"raised", "done"}
  /\ commandLock \in Threads \union {Free}
  /\ publishLock \in Threads \union {Free}
  /\ pose \in Commands \union {NoCommand}
  /\ gripper \in Commands \union {NoCommand}

\* Between two publications that did not fail, the pose and the gripper value
\* last sent belong to one command: the two threads never interleave their
\* pairs (the comment at lines 1243-1245).
PairsWhole ==
  (\A p \in Threads : pc[p] \notin {"posed", "raised", "dead", "done"}) => pose = gripper

\* When set_held_command has returned, the arm has been sent that very command,
\* whatever the timer was publishing meanwhile.
SetDelivers ==
  At(Main, "idle") /\ held.active => pose = held.cmd /\ gripper = held.cmd

\* Once stop_held_command has returned nothing is published any more, not even
\* by a timer callback that had copied its command before ("without publishing
\* any replacement robot command").
NothingAfterStop ==
  [][At(Main, "done") => UNCHANGED <<pose, gripper>>]_vars

\* The heartbeat does what LatestCommand promises.
Latest == INSTANCE LatestCommand WITH
  current <- IF held.active THEN held.cmd ELSE NoCommand,
  delivered <- gripper
ImplementsLatest == Latest!Spec

\* The heartbeat does not stall: publishing goes on for ever unless the command
\* is stopped, or a publish has killed the timer's thread and main, which would
\* notice, never comes back to the publisher; the two nested locks, the
\* generations and exceptions in main never stall it (lines 1166-1262).
Publishing == \E p \in Threads : PublishGripper(p)
Unnoticed == At(Timer, "dead") /\ At(Main, "idle")
HeartbeatGoesOn == []<><<Publishing>>_vars \/ <>[](~held.active) \/ <>[]Unnoticed
===============================================================================
