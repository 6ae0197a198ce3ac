----------------------------- MODULE GripperProofs -----------------------------
(***************************************************************************)
(* Proofs about the gripper action server and its example controller for   *)
(* every set of goals, every mix of actions and any number of activations. *)
(***************************************************************************)
EXTENDS GripperExample, FiniteSetTheorems, TLAPS

(* A goal's handle, its thread and its motion go together.                  *)
GoalInv(g) ==
  /\ goal[g] \in {"idle", "sent"} <=> thread[g] = "none"
  /\ goal[g] \in Terminal => thread[g] = "ended" /\ motion[g] # "running"
  /\ thread[g] \in {"none", "decide"} => motion[g] = "none"
  /\ thread[g] = "finish" => motion[g] \in {"true", "false"}
  /\ thread[g] \in {"stop", "get"} => goal[g] = "canceling"

GoalsInv == \A g \in Goals : GoalInv(g)

IInv == TypeOK /\ GoalsInv

(* What a step leaves to one goal.                                          *)
Same(g) == goal'[g] = goal[g] /\ thread'[g] = thread[g] /\ motion'[g] = motion[g]
Stopped(g) ==
  /\ goal'[g] = goal[g] /\ thread'[g] = thread[g]
  /\ motion'[g] = motion[g] \/ (motion[g] = "running" /\ motion'[g] = "false")

-------------------------------------------------------------------------------
LEMMA InitLemma == Init => IInv
  BY ActivationsAssumption
  DEF Init, ServerInit, IInv, TypeOK, ServerTypeOK, GoalsInv, GoalInv, Kinds, Terminal

LEMMA StoppedLemma ==
  ASSUME NEW g \in Goals, GoalInv(g), Stopped(g)
  PROVE  GoalInv(g)'
  BY DEF GoalInv, Stopped, Terminal

LEMMA SameLemma ==
  ASSUME NEW g \in Goals, Same(g)
  PROVE  Stopped(g)
  BY DEF Stopped, Same

(* Everything else that an action of one goal leaves alone.                 *)
Others(g) == \A h \in Goals \ {g} : Stopped(h)

LEMMA OneGoalLemma ==
  ASSUME NEW g \in Goals, GoalsInv, Others(g), GoalInv(g)'
  PROVE  GoalsInv'
  BY StoppedLemma DEF GoalsInv, Others

LEMMA HaltedLemma ==
  ASSUME TypeOK, UNCHANGED <<goal, thread>>, motion' = Halted \/ UNCHANGED motion
  PROVE  /\ \A g \in Goals : Stopped(g)
         /\ motion' \in [Goals -> {"none", "running", "true", "false"}]
  BY DEF TypeOK, ServerTypeOK, Halted, Stopped

-------------------------------------------------------------------------------
(* The steps of the server.                                                 *)
LEMMA ExecutorLemma ==
  ASSUME IInv, NEW g \in Goals, Accept(g) \/ Cancel(g)
  PROVE  GoalsInv' /\ ServerTypeOK'
<1>1. /\ GoalInv(g) /\ goal \in [Goals -> {"idle", "sent", "executing", "canceling"} \cup Terminal]
      /\ thread \in [Goals -> {"none", "decide", "wait", "look", "stop", "get", "finish", "ended"}]
      /\ motion \in [Goals -> {"none", "running", "true", "false"}]
  BY DEF IInv, TypeOK, ServerTypeOK, GoalsInv
<1>2. CASE Accept(g)
  <2>1. Others(g)
    BY <1>1, <1>2 DEF Accept, Others, Stopped
  <2>2. GoalInv(g)'
    BY <1>1, <1>2 DEF Accept, GoalInv, Terminal
  <2>3. ServerTypeOK'
    BY <1>2 DEF Accept, IInv, TypeOK, ServerTypeOK
  <2> QED  BY <2>1, <2>2, <2>3, OneGoalLemma DEF IInv
<1>3. CASE Cancel(g)
  <2>1. Others(g)
    BY <1>1, <1>3 DEF Cancel, Others, Stopped
  <2>2. GoalInv(g)'
    BY <1>1, <1>3 DEF Cancel, GoalInv, Terminal
  <2>3. ServerTypeOK'
    BY <1>3 DEF Cancel, IInv, TypeOK, ServerTypeOK
  <2> QED  BY <2>1, <2>2, <2>3, OneGoalLemma DEF IInv
<1> QED  BY <1>2, <1>3

LEMMA ServiceLemma ==
  ASSUME IInv, TimerFires \/ ExecutorStep \/ Shutdown
  PROVE  GoalsInv' /\ ServerTypeOK'
<1>1. /\ UNCHANGED <<kind, goal, thread>>
      /\ motion' = Halted \/ UNCHANGED motion
  BY DEF TimerFires, ExecutorStep, TimerLocks, PublishState, StopService, StopServiceAnswers, Shutdown
<1>2. /\ lock' \in {"free", "timer"} /\ executor' \in {"idle", "locking", "reading", "stopping"}
      /\ stop' \in {"none", "asked", "running", "answered"} /\ {ok', alive'} \subseteq BOOLEAN
  BY DEF IInv, TypeOK, ServerTypeOK, TimerFires, ExecutorStep, TimerLocks, PublishState, StopService,
         StopServiceAnswers, Shutdown
<1>3. /\ \A g \in Goals : Stopped(g)
      /\ motion' \in [Goals -> {"none", "running", "true", "false"}]
  <2>1. TypeOK
    BY DEF IInv
  <2> QED  BY <1>1, <2>1, HaltedLemma
<1>4. GoalsInv'
  BY <1>3, StoppedLemma DEF IInv, GoalsInv
<1>5. ServerTypeOK'
  BY <1>1, <1>2, <1>3 DEF IInv, TypeOK, ServerTypeOK
<1> QED  BY <1>4, <1>5

LEMMA ThreadLemma ==
  ASSUME IInv, NEW g \in Goals, ThreadStep(g) \/ MotionEnds(g)
  PROVE  GoalsInv' /\ ServerTypeOK'
<1>1. /\ GoalInv(g) /\ goal \in [Goals -> {"idle", "sent", "executing", "canceling"} \cup Terminal]
      /\ thread \in [Goals -> {"none", "decide", "wait", "look", "stop", "get", "finish", "ended"}]
      /\ motion \in [Goals -> {"none", "running", "true", "false"}]
  BY DEF IInv, TypeOK, ServerTypeOK, GoalsInv
<1>2. CASE Decide(g)
  <2>1. Others(g)
    BY <1>1, <1>2 DEF Decide, Becomes, Goto, Others, Stopped
  <2>2. GoalInv(g)'
    BY <1>1, <1>2 DEF Decide, At, Becomes, Goto, GoalInv, Terminal
  <2>3. ServerTypeOK'
    BY <1>2 DEF Decide, Becomes, Goto, IInv, TypeOK, ServerTypeOK, Terminal
  <2> QED  BY <2>1, <2>2, <2>3, OneGoalLemma DEF IInv
<1>3. CASE Loop(g)
  <2>1. Others(g)
    BY <1>1, <1>3 DEF Loop, Goto, Others, Stopped
  <2>2. GoalInv(g)'
    BY <1>1, <1>3 DEF Loop, At, Goto, Ready, GoalInv, Terminal
  <2>3. ServerTypeOK'
    BY <1>3 DEF Loop, Goto, IInv, TypeOK, ServerTypeOK
  <2> QED  BY <2>1, <2>2, <2>3, OneGoalLemma DEF IInv
<1>4. CASE CancelStops(g)
  <2>1. CASE Goto(g, "get") /\ (motion' = Halted \/ UNCHANGED motion) /\ UNCHANGED alive
    <3>1. Others(g)
      BY <1>1, <1>4, <2>1 DEF CancelStops, Goto, Halted, Others, Stopped
    <3>2. GoalInv(g)'
      BY <1>1, <1>4, <2>1 DEF CancelStops, At, Goto, Halted, GoalInv, Terminal
    <3>3. motion' \in [Goals -> {"none", "running", "true", "false"}]
      BY <1>1, <2>1 DEF Halted
    <3>4. ServerTypeOK'
      BY <1>4, <2>1, <3>3 DEF CancelStops, Goto, IInv, TypeOK, ServerTypeOK
    <3> QED  BY <3>1, <3>2, <3>4, OneGoalLemma DEF IInv
  <2>2. CASE alive' = FALSE /\ UNCHANGED <<thread, motion>>
    <3>1. \A h \in Goals : Stopped(h)
      BY <1>4, <2>2 DEF CancelStops, Stopped
    <3>2. ServerTypeOK'
      BY <1>4, <2>2 DEF CancelStops, IInv, TypeOK, ServerTypeOK
    <3> QED  BY <3>1, <3>2, StoppedLemma DEF IInv, GoalsInv
  <2> QED  BY <1>4, <2>1, <2>2 DEF CancelStops
<1>5. CASE CancelAnswers(g)
  <2>1. Others(g)
    BY <1>1, <1>5 DEF CancelAnswers, Taken, Becomes, Goto, Others, Stopped
  <2>2. GoalInv(g)'
    BY <1>1, <1>5 DEF CancelAnswers, At, Taken, Becomes, Goto, GoalInv, Terminal
  <2>3. ServerTypeOK'
    BY <1>5 DEF CancelAnswers, Taken, Becomes, Goto, IInv, TypeOK, ServerTypeOK, Terminal
  <2> QED  BY <2>1, <2>2, <2>3, OneGoalLemma DEF IInv
<1>6. CASE Finish(g)
  <2>1. Others(g)
    BY <1>1, <1>6 DEF Finish, Taken, Becomes, Goto, Others, Stopped
  <2>2. GoalInv(g)'
    BY <1>1, <1>6 DEF Finish, At, Taken, Becomes, Goto, GoalInv, Terminal
  <2>3. ServerTypeOK'
    BY <1>6 DEF Finish, Taken, Becomes, Goto, IInv, TypeOK, ServerTypeOK, Terminal
  <2> QED  BY <2>1, <2>2, <2>3, OneGoalLemma DEF IInv
<1>7. CASE MotionEnds(g)
  <2>1. Others(g)
    BY <1>1, <1>7 DEF MotionEnds, Others, Stopped
  <2>2. GoalInv(g)'
    BY <1>1, <1>7 DEF MotionEnds, GoalInv, Terminal
  <2>3. ServerTypeOK'
    BY <1>7 DEF MotionEnds, IInv, TypeOK, ServerTypeOK
  <2> QED  BY <2>1, <2>2, <2>3, OneGoalLemma DEF IInv
<1>8. CASE Look(g)
  <2>1. Others(g)
    BY <1>1, <1>8 DEF Look, Goto, Others, Stopped
  <2>2. GoalInv(g)'
    BY <1>1, <1>8 DEF Look, At, Goto, GoalInv, Terminal
  <2>3. ServerTypeOK'
    BY <1>8 DEF Look, Goto, IInv, TypeOK, ServerTypeOK
  <2> QED  BY <2>1, <2>2, <2>3, OneGoalLemma DEF IInv
<1> QED  BY <1>2, <1>3, <1>4, <1>5, <1>6, <1>7, <1>8 DEF ThreadStep

(* A goal is sent.                                                          *)
LEMMA SendLemma ==
  ASSUME IInv, NEW g \in Goals, NEW k \in Kinds, Send(g, k),
         UNCHANGED <<thread, motion, lock, executor, stop, ok, alive>>
  PROVE  GoalsInv' /\ ServerTypeOK'
<1>1. goal[g] = "idle" /\ goal' = [goal EXCEPT ![g] = "sent"] /\ kind' = [kind EXCEPT ![g] = k]
  BY DEF Send
<1>2. ServerTypeOK'
  BY <1>1 DEF IInv, TypeOK, ServerTypeOK
<1>3. GoalsInv'
  BY <1>1 DEF IInv, TypeOK, ServerTypeOK, GoalsInv, GoalInv, Terminal
<1> QED  BY <1>2, <1>3

LEMMA ToggleLemma ==
  ASSUME IInv, Toggle
  PROVE  GoalsInv' /\ ServerTypeOK' /\ ordered' \in {"open", "closed"}
<1>1. PICK g \in ExampleGoals : Send(g, IF ordered = "closed" THEN "move" ELSE "grasp")
  BY DEF Toggle
<1>2. g \in Goals /\ (IF ordered = "closed" THEN "move" ELSE "grasp") \in Kinds
  BY GoalsAssumption DEF Kinds
<1> QED  BY <1>1, <1>2, SendLemma DEF Toggle

LEMMA StepLemma == IInv /\ [Next]_vars => IInv'
<1> SUFFICES ASSUME IInv, [Next]_vars PROVE IInv'
  OBVIOUS
<1>1. ASSUME GoalsInv', ServerTypeOK', UNCHANGED exampleVars
      PROVE  IInv'
  BY <1>1 DEF IInv, TypeOK, exampleVars
<1>2. ASSUME GoalsInv', ServerTypeOK', UNCHANGED <<called, activations>>,
             ordered' \in {"open", "closed"},
             example' \in {"inactive", "active", "deactivating", "finalized"}
      PROVE  IInv'
  BY <1>2 DEF IInv, TypeOK
<1>3. ASSUME UNCHANGED serverVars
      PROVE  GoalsInv' /\ ServerTypeOK'
  BY <1>3 DEF serverVars, IInv, TypeOK, ServerTypeOK, GoalsInv, GoalInv
<1>4. CASE ServerNext /\ UNCHANGED exampleVars
  <2>1. GoalsInv' /\ ServerTypeOK'
    BY <1>4, ExecutorLemma, ServiceLemma, ThreadLemma DEF ServerNext
  <2> QED  BY <1>1, <1>4, <2>1
<1>5. CASE Activate
  <2>1. GoalsInv' /\ ServerTypeOK' /\ ordered' \in {"open", "closed"}
    BY <1>3, <1>5, ToggleLemma DEF Activate, IInv, TypeOK
  <2>2. called' = called /\ activations' \in 0..MaxActivations
        /\ example' \in {"active", "finalized"}
    BY <1>5, ActivationsAssumption DEF Activate, IInv, TypeOK
  <2> QED  BY <2>1, <2>2 DEF IInv, TypeOK
<1>6. CASE Deactivate
  <2>1. /\ UNCHANGED <<goal, thread, motion, ordered, called, activations>>
        /\ example' \in {"deactivating", "inactive"}
    BY <1>6 DEF Deactivate
  <2>2. ServerTypeOK'
    BY <1>6 DEF Deactivate, IInv, TypeOK, ServerTypeOK
  <2>3. GoalsInv'
    BY <2>1 DEF IInv, GoalsInv, GoalInv
  <2> QED  BY <2>1, <2>2, <2>3 DEF IInv, TypeOK
<1>7. CASE DeactivateThrows
  <2>1. UNCHANGED <<goal, thread, motion, ordered, called, activations>> /\ example' = "finalized"
    BY <1>7 DEF DeactivateThrows
  <2>2. ServerTypeOK'
    BY <1>7 DEF DeactivateThrows, IInv, TypeOK, ServerTypeOK
  <2>3. GoalsInv'
    BY <2>1 DEF IInv, GoalsInv, GoalInv
  <2> QED  BY <2>1, <2>2, <2>3 DEF IInv, TypeOK
<1>8. CASE ClientSends
  <2>1. GoalsInv' /\ ServerTypeOK'
    BY <1>8, SendLemma, GoalsAssumption DEF ClientSends
  <2> QED  BY <1>1, <1>8, <2>1 DEF ClientSends
<1>9. ASSUME NEW g \in ExampleGoals, Result(g)
      PROVE  IInv'
  <2>1. GoalsInv' /\ ServerTypeOK' /\ ordered' \in {"open", "closed"}
    BY <1>3, <1>9, ToggleLemma DEF Result, IInv, TypeOK
  <2>2. called' \subseteq ExampleGoals /\ UNCHANGED <<example, activations>>
    BY <1>9 DEF Result, IInv, TypeOK
  <2> QED  BY <2>1, <2>2 DEF IInv, TypeOK
<1>10. CASE UNCHANGED vars
  BY <1>1, <1>3, <1>10 DEF vars
<1> QED  BY <1>4, <1>5, <1>6, <1>7, <1>8, <1>9, <1>10 DEF Next

(* The values of the server and of the controller keep their types.         *)
THEOREM TypeCorrect == Spec => []TypeOK
<1>1. IInv => TypeOK
  BY DEF IInv
<1> QED  BY <1>1, InitLemma, StepLemma, PTL DEF Spec

(* A goal that has its result moves no finger any more, for every number of *)
(* goals that drive, cancel and stop the gripper at the same time, and      *)
(* whatever stop returned to them.                                          *)
THEOREM AnsweredStill == Spec => []AnsweredMeansStill
<1>1. IInv => AnsweredMeansStill
  BY DEF IInv, GoalsInv, GoalInv, AnsweredMeansStill
<1> QED  BY <1>1, InitLemma, StepLemma, PTL DEF Spec

-------------------------------------------------------------------------------
(* One goal per activation.                                                 *)

(* What the actions of the server leave: goals that were never sent stay so. *)
LEMMA WaitingLemma ==
  ASSUME IInv, ServerNext, UNCHANGED called
  PROVE  Waiting' = Waiting
<1> USE DEF IInv, TypeOK, ServerTypeOK, Terminal
<1>1. ASSUME NEW g \in Goals, NEW state \in {"executing", "canceling"} \cup Terminal,
             goal[g] # "idle", goal' = [goal EXCEPT ![g] = state]
      PROVE  Waiting' = Waiting
  BY <1>1, GoalsAssumption DEF Waiting
<1>2. ASSUME UNCHANGED goal
      PROVE  Waiting' = Waiting
  BY <1>2 DEF Waiting
<1>3. CASE TimerFires \/ ExecutorStep \/ Shutdown
  BY <1>2, <1>3 DEF TimerFires, ExecutorStep, TimerLocks, PublishState, StopService, StopServiceAnswers, Shutdown
<1>4. ASSUME NEW g \in Goals, Accept(g) \/ Cancel(g)
      PROVE  Waiting' = Waiting
  BY <1>1, <1>4 DEF Accept, Cancel
<1>5. ASSUME NEW g \in Goals, ThreadStep(g) \/ MotionEnds(g)
      PROVE  Waiting' = Waiting
  <2>1. thread[g] # "none" => goal[g] # "idle"
    BY DEF GoalsInv, GoalInv
  <2>2. CASE Decide(g)
    BY <1>1, <1>2, <2>1, <2>2 DEF Decide, At, Becomes
  <2>3. CASE CancelAnswers(g)
    BY <1>1, <2>1, <2>3 DEF CancelAnswers, At, Becomes
  <2>4. CASE Finish(g)
    BY <1>1, <2>1, <2>4 DEF Finish, At, Becomes
  <2>5. CASE Loop(g) \/ Look(g) \/ CancelStops(g) \/ MotionEnds(g)
    BY <1>2, <2>5 DEF Loop, Look, CancelStops, MotionEnds
  <2> QED  BY <1>5, <2>2, <2>3, <2>4, <2>5 DEF ThreadStep
<1> QED  BY <1>3, <1>4, <1>5 DEF ServerNext

LEMMA WaitingFinite == IsFiniteSet(Waiting) /\ Cardinality(Waiting) \in Nat
  BY GoalsAssumption, FS_Subset, FS_CardinalityType DEF Waiting

(* Toggle adds one goal that was idle.                                      *)
LEMMA ToggleAdds ==
  ASSUME IInv, Toggle
  PROVE  \E h \in ExampleGoals : /\ goal[h] = "idle"
                                /\ \A g \in ExampleGoals : goal'[g] # "idle" <=> g = h \/ goal[g] # "idle"
  BY GoalsAssumption DEF Toggle, Send, IInv, TypeOK, ServerTypeOK

LEMMA OneMore ==
  ASSUME NEW S, NEW T, NEW h, IsFiniteSet(S), T \subseteq S \cup {h}
  PROVE  /\ IsFiniteSet(T) /\ Cardinality(T) \in Nat /\ Cardinality(S) \in Nat
         /\ Cardinality(T) <= Cardinality(S) + 1
<1>1. /\ IsFiniteSet(S \cup {h}) /\ Cardinality(S) \in Nat
      /\ Cardinality(S \cup {h}) \in Nat
      /\ Cardinality(S \cup {h}) <= Cardinality(S) + 1
  <2>1. /\ IsFiniteSet(S \cup {h})
        /\ Cardinality(S \cup {h}) = IF h \in S THEN Cardinality(S) ELSE Cardinality(S) + 1
    BY FS_AddElement
  <2>2. Cardinality(S) \in Nat /\ Cardinality(S \cup {h}) \in Nat
    BY <2>1, FS_CardinalityType
  <2> QED  BY <2>1, <2>2
<1>2. IsFiniteSet(T) /\ Cardinality(T) <= Cardinality(S \cup {h}) /\ Cardinality(T) \in Nat
  BY <1>1, FS_Subset, FS_CardinalityType
<1> QED  BY <1>1, <1>2

LEMMA OneGoalStep == IInv /\ OneGoalPerActivation /\ [Next]_vars => OneGoalPerActivation'
<1> SUFFICES ASSUME IInv, OneGoalPerActivation, [Next]_vars PROVE OneGoalPerActivation'
  OBVIOUS
<1> USE DEF OneGoalPerActivation
<1>1. activations \in Nat
  BY ActivationsAssumption DEF IInv, TypeOK
<1>2. ASSUME Waiting' = Waiting, UNCHANGED activations
      PROVE  OneGoalPerActivation'
  BY <1>2
<1>3. CASE ServerNext /\ UNCHANGED exampleVars
  BY <1>2, <1>3, WaitingLemma DEF exampleVars
<1>4. CASE Activate
  <2>1. activations' = activations + 1 /\ called' = called
    BY <1>4 DEF Activate
  <2>2. CASE Toggle
    <3>1. PICK h \in ExampleGoals :
            \A g \in ExampleGoals : goal'[g] # "idle" <=> g = h \/ goal[g] # "idle"
      BY <2>2, ToggleAdds
    <3>2. Waiting' \subseteq Waiting \cup {h}
      BY <2>1, <3>1 DEF Waiting
    <3>3. Cardinality(Waiting') \in Nat /\ Cardinality(Waiting') <= Cardinality(Waiting) + 1
      BY <3>2, WaitingFinite, OneMore
    <3> QED  BY <1>1, <2>1, <3>3, WaitingFinite
  <2>3. CASE UNCHANGED serverVars
    <3>1. Waiting' = Waiting
      BY <2>1, <2>3 DEF Waiting, serverVars
    <3> QED  BY <1>1, <2>1, <3>1, WaitingFinite
  <2> QED  BY <1>4, <2>2, <2>3 DEF Activate
<1>5. ASSUME NEW g \in ExampleGoals, Result(g)
      PROVE  OneGoalPerActivation'
  <2>1. activations' = activations /\ called' = called \cup {g} /\ g \in Waiting
    BY <1>5 DEF Result, Waiting, Terminal
  <2>2. IsFiniteSet(Waiting \ {g}) /\ Cardinality(Waiting \ {g}) + 1 = Cardinality(Waiting)
        /\ Cardinality(Waiting \ {g}) \in Nat
    <3>1. IsFiniteSet(Waiting \ {g}) /\ Cardinality(Waiting \ {g}) = Cardinality(Waiting) - 1
      BY <2>1, WaitingFinite, FS_RemoveElement
    <3>2. Cardinality(Waiting \ {g}) \in Nat
      BY <3>1, FS_CardinalityType
    <3> QED  BY <3>1, <3>2, WaitingFinite
  <2>3. \E h : Waiting' \subseteq (Waiting \ {g}) \cup {h}
    <3>1. CASE Toggle
      <4>1. PICK h \in ExampleGoals :
              \A f \in ExampleGoals : goal'[f] # "idle" <=> f = h \/ goal[f] # "idle"
        BY <3>1, ToggleAdds
      <4> QED  BY <2>1, <4>1 DEF Waiting
    <3>2. CASE UNCHANGED serverVars
      <4>1. Waiting' \subseteq (Waiting \ {g}) \cup {g}
        BY <2>1, <3>2 DEF Waiting, serverVars
      <4> QED  BY <4>1
    <3> QED  BY <1>5, <3>1, <3>2 DEF Result
  <2>4. PICK h : Waiting' \subseteq (Waiting \ {g}) \cup {h}
    BY <2>3
  <2>5. Cardinality(Waiting') \in Nat /\ Cardinality(Waiting') <= Cardinality(Waiting \ {g}) + 1
    BY <2>2, <2>4, OneMore
  <2> QED  BY <1>1, <2>1, <2>2, <2>5, WaitingFinite
<1>6. CASE Deactivate \/ DeactivateThrows
  <2>1. UNCHANGED <<goal, called, activations>>
    BY <1>6 DEF Deactivate, DeactivateThrows
  <2> QED  BY <2>1 DEF Waiting
<1>7. CASE ClientSends
  <2>1. UNCHANGED <<called, activations>>
    BY <1>7 DEF ClientSends, exampleVars
  <2>2. \A g \in ExampleGoals : goal'[g] = goal[g]
    BY <1>7, GoalsAssumption DEF ClientSends, Send, IInv, TypeOK, ServerTypeOK
  <2>3. Waiting' = Waiting
    BY <2>1, <2>2 DEF Waiting
  <2> QED  BY <1>2, <2>1, <2>3
<1>8. CASE UNCHANGED vars
  BY <1>8 DEF vars, serverVars, exampleVars, Waiting
<1> QED  BY <1>3, <1>4, <1>5, <1>6, <1>7, <1>8 DEF Next

(* The example controller never has more goals under way than it has been   *)
(* activated times, for any number of goals and activations.                *)
THEOREM OneGoal == Spec => []OneGoalPerActivation
<1>1. Init => OneGoalPerActivation
  <2>1. ASSUME Init PROVE Waiting = {}
    BY <2>1, GoalsAssumption DEF Init, ServerInit, Waiting
  <2> QED  BY <2>1, FS_EmptySet DEF OneGoalPerActivation, Init
<1> QED  BY <1>1, InitLemma, StepLemma, OneGoalStep, PTL DEF Spec

-------------------------------------------------------------------------------
(* The refinement.                                                          *)

LEMMA ServerImplements ==
  ASSUME IInv, ServerNext
  PROVE  [Promise!Next]_<<Handle, Serving>>
<1> USE DEF IInv, TypeOK, ServerTypeOK
<1>1. ASSUME UNCHANGED goal, Serving' => Serving
      PROVE  [Promise!Next]_<<Handle, Serving>>
  BY <1>1, Zenon DEF Handle, Promise!Next, Promise!Leave, Serving, IInv, TypeOK, ServerTypeOK
<1>2. ASSUME NEW g \in Goals, Accept(g)
      PROVE  Promise!Accept(g)
  BY <1>2 DEF Accept, Handle, Promise!Accept, Serving, Idle
<1>3. ASSUME NEW g \in Goals, Cancel(g)
      PROVE  Promise!Cancel(g)
  BY <1>3 DEF Cancel, Handle, Promise!Cancel, Serving, Idle
<1>4. ASSUME NEW g \in Goals, NEW state \in Terminal, goal[g] \in {"executing", "canceling"},
             state = "canceled" => goal[g] = "canceling", Becomes(g, state), UNCHANGED <<ok, alive>>
      PROVE  Promise!Answer(g)
  BY <1>4 DEF Becomes, Handle, Terminal, Serving, Promise!Answer, Promise!Over, Promise!Live
<1>5. ASSUME NEW g \in Goals, ThreadStep(g) \/ MotionEnds(g)
      PROVE  [Promise!Next]_<<Handle, Serving>>
  <2>1. /\ thread[g] \in {"decide", "finish", "get"} => goal[g] \in {"executing", "canceling"}
        /\ thread[g] = "get" => goal[g] = "canceling"
    BY DEF GoalsInv, GoalInv, Terminal
  <2>2. CASE Decide(g)
    BY <1>1, <1>4, <2>1, <2>2 DEF Decide, At, Terminal, Serving, Promise!Next
  <2>3. CASE CancelAnswers(g)
    BY <1>4, <2>1, <2>3 DEF CancelAnswers, At, Terminal, Promise!Next
  <2>4. CASE Finish(g)
    BY <1>4, <2>1, <2>4 DEF Finish, At, Terminal, Promise!Next
  <2>5. CASE Loop(g) \/ Look(g) \/ CancelStops(g) \/ MotionEnds(g)
    <3>1. UNCHANGED <<goal, ok>> /\ (alive' => alive)
      BY <2>5 DEF Loop, Look, CancelStops, MotionEnds, At
    <3> QED  BY <1>1, <3>1 DEF Serving
  <2> QED  BY <1>5, <2>2, <2>3, <2>4, <2>5 DEF ThreadStep
<1>6. CASE TimerFires \/ ExecutorStep \/ Shutdown
  <2>1. UNCHANGED <<goal, alive>> /\ (ok' => ok)
    BY <1>6 DEF TimerFires, ExecutorStep, TimerLocks, PublishState, StopService, StopServiceAnswers, Shutdown
  <2> QED  BY <1>1, <2>1 DEF Serving
<1> QED  BY <1>2, <1>3, <1>5, <1>6 DEF ServerNext, Promise!Next

(* Sending a goal is not seen by the abstract server.                       *)
LEMMA SendIsHidden ==
  ASSUME IInv, NEW g \in Goals, NEW k, Send(g, k), UNCHANGED <<ok, alive>>
  PROVE  UNCHANGED <<Handle, Serving>>
  BY DEF Send, Handle, Serving, IInv, TypeOK, ServerTypeOK

LEMMA ToggleIsHidden ==
  ASSUME IInv, Toggle
  PROVE  UNCHANGED <<Handle, Serving>>
  BY SendIsHidden, GoalsAssumption DEF Toggle

(* Every step of the server and of its clients is a step of GripperGoals or *)
(* changes nothing that it speaks of: a goal gets one result, "canceled"    *)
(* only on request, for any number of goals.                                *)
THEOREM ServerImplementsGoals == Spec => Promise!SafeSpec
<1>1. Init => Promise!Init
  BY DEF Init, ServerInit, Handle, Serving, Promise!Init
<1>2. IInv /\ [Next]_vars => [Promise!Next]_<<Handle, Serving>>
  <2> SUFFICES ASSUME IInv, [Next]_vars
               PROVE  [Promise!Next]_<<Handle, Serving>>
    OBVIOUS
  <2>1. CASE ServerNext /\ UNCHANGED exampleVars
    BY <2>1, ServerImplements
  <2>2. CASE UNCHANGED <<goal, ok, alive>>
    BY <2>2 DEF Handle, Serving
  <2>3. CASE Activate
    BY <2>2, <2>3, ToggleIsHidden DEF Activate, serverVars
  <2>4. ASSUME NEW g \in ExampleGoals, Result(g)
        PROVE  UNCHANGED <<Handle, Serving>>
    BY <2>4, ToggleIsHidden DEF Result, serverVars, Handle, Serving
  <2>5. CASE ClientSends
    BY <2>5, SendIsHidden, GoalsAssumption DEF ClientSends
  <2>6. CASE Deactivate \/ DeactivateThrows
    BY <2>2, <2>6 DEF Deactivate, DeactivateThrows
  <2>7. CASE UNCHANGED vars
    BY <2>2, <2>7 DEF vars, serverVars
  <2> QED  BY <2>1, <2>3, <2>4, <2>5, <2>6, <2>7 DEF Next
<1> QED  BY <1>1, <1>2, InitLemma, StepLemma, PTL DEF Spec, Promise!SafeSpec

-------------------------------------------------------------------------------
(* What a client may rely on: a result stays what it is, whatever is still  *)
(* being asked of the gripper; "canceled" is the result of a goal whose     *)
(* cancellation was accepted; a goal that was accepted is not accepted      *)
(* again.                                                                   *)
ResultsAreFinal ==
  [][\A g \in Goals :
       /\ goal[g] \in Terminal => goal'[g] = goal[g]
       /\ goal'[g] = "canceled" => goal[g] \in {"canceling", "canceled"}
       /\ goal[g] \in {"executing", "canceling"} =>
            goal'[g] \in {"executing", "canceling"} \cup Terminal
       /\ goal[g] = "canceling" => goal'[g] # "executing"]_vars

(* Read off the abstract specification that the server implements: what one *)
(* of its steps does to a goal.                                             *)
LEMMA PromiseLemma ==
  ASSUME IInv, IInv', [Promise!Next]_<<Handle, Serving>>, NEW g \in Goals
  PROVE  /\ goal[g] \in Terminal => goal'[g] = goal[g]
         /\ goal'[g] = "canceled" => goal[g] \in {"canceling", "canceled"}
         /\ goal[g] \in {"executing", "canceling"} =>
              goal'[g] \in {"executing", "canceling"} \cup Terminal
         /\ goal[g] = "canceling" => goal'[g] # "executing"
<1>1. /\ Handle[g] = IF goal[g] \in {"idle", "sent"} THEN "none" ELSE goal[g]
      /\ Handle'[g] = IF goal'[g] \in {"idle", "sent"} THEN "none" ELSE goal'[g]
  BY DEF Handle
<1>2. /\ goal[g] \in {"idle", "sent", "executing", "canceling"} \cup Terminal
      /\ goal'[g] \in {"idle", "sent", "executing", "canceling"} \cup Terminal
  BY DEF IInv, TypeOK, ServerTypeOK
<1>3. CASE Handle'[g] = Handle[g]
  BY <1>1, <1>2, <1>3 DEF Terminal
<1>4. ASSUME Handle'[g] # Handle[g]
      PROVE  \/ Handle[g] = "none" /\ Handle'[g] = "executing"
             \/ Handle[g] = "executing" /\ Handle'[g] = "canceling"
             \/ /\ Handle[g] \in Promise!Live /\ Handle'[g] \in Promise!Over
                /\ Handle'[g] = "canceled" => Handle[g] = "canceling"
  <2>1. \A h \in Goals : \A v : [Handle EXCEPT ![h] = v][g] = IF h = g THEN v ELSE Handle[g]
    BY DEF Handle
  <2>2. ~Promise!Leave /\ ~UNCHANGED Handle
    BY <1>4 DEF Promise!Leave
  <2>3. PICK h \in Goals : Promise!Accept(h) \/ Promise!Cancel(h) \/ Promise!Answer(h)
    BY <2>2 DEF Promise!Next
  <2>4. CASE Promise!Accept(h)
    BY <1>4, <2>1, <2>4 DEF Promise!Accept
  <2>5. CASE Promise!Cancel(h)
    BY <1>4, <2>1, <2>5 DEF Promise!Cancel
  <2>6. CASE Promise!Answer(h)
    BY <1>4, <2>1, <2>6 DEF Promise!Answer
  <2> QED  BY <2>3, <2>4, <2>5, <2>6
<1>5. CASE Handle'[g] # Handle[g]
  BY <1>1, <1>2, <1>4, <1>5 DEF Terminal, Promise!Live, Promise!Over
<1> QED  BY <1>3, <1>5

(* One motor and one client thread per goal, and no goal is answered twice  *)
(* (gripper_action_server.hpp, executeAsync; handleCancel).                 *)
THEOREM ResultsFinal == Spec => ResultsAreFinal
<1>1. IInv /\ IInv' /\ [Promise!Next]_<<Handle, Serving>> =>
        \A g \in Goals :
          /\ goal[g] \in Terminal => goal'[g] = goal[g]
          /\ goal'[g] = "canceled" => goal[g] \in {"canceling", "canceled"}
          /\ goal[g] \in {"executing", "canceling"} =>
               goal'[g] \in {"executing", "canceling"} \cup Terminal
          /\ goal[g] = "canceling" => goal'[g] # "executing"
  BY PromiseLemma
<1> QED
  BY <1>1, InitLemma, StepLemma, ServerImplementsGoals, PTL
     DEF Spec, ResultsAreFinal, Promise!SafeSpec
=============================================================================
