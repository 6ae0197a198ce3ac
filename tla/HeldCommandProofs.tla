-------------------------- MODULE HeldCommandProofs --------------------------
(***************************************************************************)
(* Proofs about the command heartbeat, for every set of commands and any   *)
(* number of replacements.                                                 *)
(***************************************************************************)
EXTENDS HeldCommand, TLAPS

\* Who is where owns which lock.
LocksHeld ==
  \A p \in Threads :
    /\ pc[p] \in {"checked", "posed"} <=> commandLock = p
    /\ pc[p] \in {"locked", "checked", "posed"} <=> publishLock = p

\* A copy is never newer than the held command, and one of the same
\* generation is a copy of it.
CopyAgrees(p) ==
  pc[p] \in {"copied", "locked", "checked", "posed"} =>
    /\ seen[p].gen <= held.gen
    /\ held.active /\ seen[p].gen = held.gen => seen[p].cmd = held.cmd

\* Past the check the copy is the held command.
CheckedIsHeld(p) ==
  /\ pc[p] \in {"checked", "posed"} => held.active /\ seen[p].cmd = held.cmd
  /\ pc[p] = "posed" => pose = seen[p].cmd

\* Nobody overtakes the main thread while it publishes its own command.
MainIsCurrent ==
  /\ pc[Main] \in {"called", "copied", "locked"} => held.active
  /\ pc[Main] \in {"copied", "locked"} => seen[Main].gen = held.gen
  /\ At(Main, "done") => ~held.active
  /\ held.active => held.cmd \in Commands

IInv ==
  /\ TypeOK
  /\ LocksHeld
  /\ \A p \in Threads : CopyAgrees(p) /\ CheckedIsHeld(p)
  /\ MainIsCurrent
  /\ PairsWhole
  /\ SetDelivers

-------------------------------------------------------------------------------
LEMMA InitIInv == Init => IInv
  BY HeldAssumption
     DEF Init, IInv, TypeOK, Inside, LocksHeld, CopyAgrees, CheckedIsHeld, MainIsCurrent,
         PairsWhole, SetDelivers, At, Threads, Main, Timer, Free

LEMMA SetIInv ==
  ASSUME IInv, NEW c \in Commands, SetHeld(c)
  PROVE  IInv'
  BY DEF SetHeld, Go, IInv, TypeOK, Inside, LocksHeld, CopyAgrees, CheckedIsHeld,
         MainIsCurrent, PairsWhole, SetDelivers, At, Threads, Main, Timer, Free

LEMMA StopIInv ==
  ASSUME IInv, Stop
  PROVE  IInv'
<1>1. /\ held' \in [cmd : Commands \union {NoCommand}, active : BOOLEAN, gen : Nat]
      /\ held'.active = FALSE
      /\ held'.gen = held.gen + 1
  BY DEF Stop, IInv, TypeOK
<1>2. /\ pc' = [pc EXCEPT ![Main] = "done"]
      /\ pc[Main] \in {"idle", "raised"}
      /\ UNCHANGED <<seen, commandLock, publishLock, pose, gripper>>
  BY DEF Stop, Go
<1>3. /\ pc'[Main] = "done"
      /\ pc'[Timer] = pc[Timer]
      /\ pc' \in [Threads -> Inside \union {"raised", "done", "dead"}]
  BY <1>2 DEF IInv, TypeOK, Threads, Main, Timer
<1>4. pc[Timer] \notin {"checked", "posed"}
  BY DEF Stop, IInv, LocksHeld, Threads, Timer, Free
<1>5. TypeOK'
  BY <1>1, <1>2, <1>3 DEF IInv, TypeOK
<1>6. LocksHeld'
  BY <1>2, <1>3 DEF IInv, LocksHeld, Threads
<1>7. \A p \in Threads : CopyAgrees(p)' /\ CheckedIsHeld(p)'
  BY <1>1, <1>2, <1>3, <1>4 DEF IInv, TypeOK, CopyAgrees, CheckedIsHeld, Threads
<1> QED
  BY <1>1, <1>2, <1>3, <1>5, <1>6, <1>7
     DEF IInv, MainIsCurrent, PairsWhole, SetDelivers, At, Threads

LEMMA CopyIInv ==
  ASSUME IInv, NEW p \in Threads, Copy(p) \/ (p = Timer /\ Tick) \/ TakePublishLock(p)
  PROVE  IInv'
<1>1. CASE Tick
  BY <1>1 DEF Tick, Go, IInv, TypeOK, Inside, LocksHeld, CopyAgrees, CheckedIsHeld,
         MainIsCurrent, PairsWhole, SetDelivers, At, Threads, Main, Timer, Free
<1>2. CASE Copy(p)
  BY <1>2 DEF Copy, Go, IInv, TypeOK, Inside, LocksHeld, CopyAgrees, CheckedIsHeld,
         MainIsCurrent, PairsWhole, SetDelivers, At, Threads, Main, Timer, Free
<1>3. CASE TakePublishLock(p)
  BY <1>3 DEF TakePublishLock, Go, IInv, TypeOK, Inside, LocksHeld, CopyAgrees,
         CheckedIsHeld, MainIsCurrent, PairsWhole, SetDelivers, At, Threads, Main, Timer, Free
<1> QED  BY <1>1, <1>2, <1>3

LEMMA CheckIInv ==
  ASSUME IInv, NEW p \in Threads, Check(p)
  PROVE  IInv'
  BY DEF Check, Go, IInv, TypeOK, Inside, LocksHeld, CopyAgrees, CheckedIsHeld,
         MainIsCurrent, PairsWhole, SetDelivers, At, Threads, Main, Timer, Free

LEMMA PublishIInv ==
  ASSUME IInv, NEW p \in Threads, PublishPose(p) \/ PublishGripper(p) \/ PublishRaises(p)
  PROVE  IInv'
<1>1. CASE PublishPose(p)
  BY <1>1 DEF PublishPose, Go, IInv, TypeOK, Inside, LocksHeld, CopyAgrees, CheckedIsHeld,
         MainIsCurrent, PairsWhole, SetDelivers, At, Threads, Main, Timer, Free
<1>2. CASE PublishGripper(p)
  BY <1>2 DEF PublishGripper, Go, IInv, TypeOK, Inside, LocksHeld, CopyAgrees,
         CheckedIsHeld, MainIsCurrent, PairsWhole, SetDelivers, At, Threads, Main, Timer, Free
<1>3. CASE PublishRaises(p)
  BY <1>3 DEF PublishRaises, Go, IInv, TypeOK, Inside, LocksHeld, CopyAgrees,
         CheckedIsHeld, MainIsCurrent, PairsWhole, SetDelivers, At, Threads, Main, Timer, Free
<1> QED  BY <1>1, <1>2, <1>3

LEMMA StepIInv == IInv /\ [Next]_vars => IInv'
<1> SUFFICES ASSUME IInv, [Next]_vars
             PROVE  IInv'
  OBVIOUS
<1>1. CASE \E c \in Commands : SetHeld(c)
  BY <1>1, SetIInv
<1>2. CASE Stop
  BY <1>2, StopIInv
<1>3. CASE Tick \/ \E p \in Threads : Copy(p) \/ TakePublishLock(p)
  BY <1>3, CopyIInv DEF Threads
<1>4. CASE \E p \in Threads : Check(p)
  BY <1>4, CheckIInv
<1>5. CASE \E p \in Threads : PublishPose(p) \/ PublishGripper(p) \/ PublishRaises(p)
  BY <1>5, PublishIInv
<1>6. CASE UNCHANGED vars
  BY <1>6 DEF vars, IInv, TypeOK, LocksHeld, CopyAgrees, CheckedIsHeld, MainIsCurrent,
              PairsWhole, SetDelivers, At
<1> QED  BY <1>1, <1>2, <1>3, <1>4, <1>5, <1>6 DEF Next, Ended

\* The inductive invariant holds in every reachable state.
THEOREM Invariant == Spec => []IInv
  BY InitIInv, StepIInv, PTL DEF Spec

\* The variables keep their types (lines 935-1013).
THEOREM TypeCorrect == Spec => []TypeOK
<1>1. IInv => TypeOK  BY DEF IInv
<1> QED  BY <1>1, Invariant, PTL

\* The two threads never interleave their pairs of messages (lines 1243-1258).
THEOREM PairsCorrect == Spec => []PairsWhole
<1>1. IInv => PairsWhole  BY DEF IInv
<1> QED  BY <1>1, Invariant, PTL

\* set_held_command does not return before its command has been sent (1166-1193).
THEOREM SetCorrect == Spec => []SetDelivers
<1>1. IInv => SetDelivers  BY DEF IInv
<1> QED  BY <1>1, Invariant, PTL

-------------------------------------------------------------------------------
\* After stop_held_command nothing is published any more (lines 1195-1199): a
\* thread past the check owns the command lock, and the check fails from then on.
THEOREM StopCorrect == Spec => NothingAfterStop
<1>1. IInv /\ [Next]_vars => [At(Main, "done") => UNCHANGED <<pose, gripper>>]_vars
  <2> SUFFICES ASSUME IInv, Next, At(Main, "done")
               PROVE  UNCHANGED <<pose, gripper>>
    OBVIOUS
  <2>1. \A p \in Threads : pc[p] \notin {"checked", "posed"}
    BY DEF IInv, CheckedIsHeld, MainIsCurrent
  <2> QED
    BY <2>1 DEF Next, SetHeld, Stop, Tick, Copy, TakePublishLock, Check, PublishPose,
                PublishGripper, PublishRaises, Ended, At, vars
<1> QED  BY <1>1, Invariant, PTL DEF Spec, NothingAfterStop

\* Every step of the heartbeat is a step of LatestCommand or changes nothing
\* that it speaks of: the arm is given the latest command or none
\* (lines 1166-1258).
THEOREM HeartbeatImplementsLatest == Spec => Latest!SafeSpec
<1>1. Init => Latest!Init
  BY DEF Init, Latest!Init
<1>2. IInv /\ [Next]_vars => [Latest!Next]_Latest!vars
  <2> SUFFICES ASSUME IInv, [Next]_vars
               PROVE  [Latest!Next]_Latest!vars
    OBVIOUS
  <2>1. CASE \E c \in Commands : SetHeld(c)
    BY <2>1 DEF SetHeld, Latest!Next, Latest!Hold
  <2>2. CASE Stop
    BY <2>2 DEF Stop, IInv, TypeOK, Latest!Next, Latest!Release
  <2>3. CASE \E p \in Threads : PublishGripper(p)
    <3> PICK p \in Threads : PublishGripper(p)
      BY <2>3
    <3>1. held.active /\ gripper' = held.cmd /\ held' = held
      BY DEF PublishGripper, At, IInv, CheckedIsHeld
    <3>2. held.cmd # NoCommand
      BY <3>1, HeldAssumption DEF IInv, MainIsCurrent
    <3> QED  BY <3>1, <3>2 DEF Latest!Next, Latest!Deliver
  <2>4. CASE UNCHANGED <<held, gripper>>
    BY <2>4 DEF Latest!vars
  <2> QED
    BY <2>1, <2>2, <2>3, <2>4 DEF Next, Tick, Copy, TakePublishLock, Check, PublishPose,
                                  PublishRaises, Ended, vars
<1> QED  BY <1>1, <1>2, Invariant, PTL DEF Spec, Latest!SafeSpec

-------------------------------------------------------------------------------
\* A message is sent only of the command in force: when a pose or a gripper value
\* goes out, the heartbeat is not stopped and the value is the held command's.
InForceStep ==
  /\ pose' # pose => held.active /\ pose' = held.cmd
  /\ gripper' # gripper => held.active /\ gripper' = held.cmd /\ gripper' = pose
PublishesInForce == [][InForceStep]_vars

\* The two threads never wait for each other: who owns the command lock owns the
\* publish lock too and only sends and leaves, and who waits for the command lock
\* with the publish lock in hand finds it free.
NoLockCycle ==
  /\ \A p \in Threads : commandLock = p => publishLock = p /\ pc[p] \in {"checked", "posed"}
  /\ \A p \in Threads : pc[p] = "locked" => commandLock = Free
  /\ publishLock # Free => \E p \in Threads : pc[p] \in {"locked", "checked", "posed"}

\* Between the two messages of a pair no command is replaced or stopped, and a
\* message goes out only of the command in force (lines 1230-1258).
THEOREM PublishesCorrect == Spec => PublishesInForce
<1>1. IInv /\ Next => InForceStep
  <2> SUFFICES ASSUME IInv, Next
               PROVE  InForceStep
    OBVIOUS
  <2>1. \A p \in Threads : CheckedIsHeld(p)
    BY DEF IInv
  <2>2. ASSUME NEW p \in Threads, PublishPose(p)
        PROVE  UNCHANGED gripper /\ held.active /\ pose' = held.cmd
    BY <2>1, <2>2 DEF PublishPose, At, CheckedIsHeld
  <2>3. ASSUME NEW p \in Threads, PublishGripper(p)
        PROVE  UNCHANGED pose /\ held.active /\ gripper' = held.cmd /\ gripper' = pose
    BY <2>1, <2>3 DEF PublishGripper, At, CheckedIsHeld
  <2>4. \/ pose' = pose /\ gripper' = gripper
        \/ \E p \in Threads : PublishPose(p) \/ PublishGripper(p)
    BY DEF Next, SetHeld, Stop, Tick, Copy, TakePublishLock, Check, PublishRaises, Ended, vars
  <2> QED  BY <2>2, <2>3, <2>4 DEF InForceStep
<1> QED  BY <1>1, Invariant, PTL DEF Spec, PublishesInForce

\* The locks are taken in one order by both threads and released together, also
\* when a publish raises (lines 1230-1258).
THEOREM LocksOrdered == Spec => []NoLockCycle
<1>1. IInv => NoLockCycle
  <2> SUFFICES ASSUME IInv
               PROVE  NoLockCycle
    OBVIOUS
  <2>1. TypeOK /\ LocksHeld  BY DEF IInv
  <2>2. \A p, q \in Threads : publishLock = p /\ publishLock = q => p = q
    OBVIOUS
  <2> QED  BY <2>1, <2>2 DEF TypeOK, LocksHeld, NoLockCycle, Threads, Main, Timer, Free
<1> QED  BY <1>1, Invariant, PTL
===============================================================================
