------------------------- MODULE ControllerSetupProofs -------------------------
(***************************************************************************)
(* Proofs about ControllerSetup for every set of clients and parameters and *)
(* every number of executor threads.                                       *)
(***************************************************************************)
EXTENDS ControllerSetup, FiniteSetTheorems, SequenceTheorems, TLAPS

Places == {"none", "lost", "sent", "running", "set", "answered"}
CallType == [at : Places, param : Params \cup {Factory}, success : BOOLEAN]

(* One callback at a time, on a parameter that exists; what a setter has    *)
(* set is still set when its callback answers.                              *)
CallsInv ==
  /\ call \in [Clients -> CallType]
  /\ value \in [Params -> Clients \cup {Factory}]
  /\ \A c, d \in Running : c = d
  /\ \A c \in Clients : call[c].at # "none" => call[c].param \in Params
  /\ \A c \in Clients : call[c].at = "set" /\ call[c].success => value[call[c].param] = c

(* The rest of the nodes' state.                                            *)
NodesInv ==
  /\ init \in {"connect", "waiting", "adding", "done", "failed", "destroying", "destroyed"}
  /\ thread \in {"none", "starting", "spinning", "canceled", "ended"}
  /\ nodes \subseteq {"service", "action"}
  /\ ok \in BOOLEAN /\ alive \in BOOLEAN
  /\ recovery \in {"none", "sent", "running"}

EndedInv == thread = "ended" => Running = {} /\ recovery # "running"

IInv == CallsInv /\ NodesInv /\ EndedInv

-------------------------------------------------------------------------------
(* What a step does to one call.                                            *)
LEMMA GoesLemma ==
  ASSUME call \in [Clients -> CallType], NEW c \in Clients, NEW place \in Places, Goes(c, place)
  PROVE  /\ call' \in [Clients -> CallType]
         /\ call'[c].at = place
         /\ call'[c].param = call[c].param
         /\ call'[c].success = call[c].success
         /\ \A d \in Clients \ {c} : call'[d] = call[d]
<1>1. call' = [call EXCEPT ![c] = [call[c] EXCEPT !.at = place]]
  BY DEF Goes
<1>2. [call[c] EXCEPT !.at = place] \in CallType
  BY DEF CallType
<1> QED  BY <1>1, <1>2 DEF CallType

LEMMA AskLemma ==
  ASSUME CallsInv, NEW c \in Clients, NEW p \in Params, Ask(c, p), value' = value
  PROVE  CallsInv' /\ Running' = Running
<1>1. PICK at \in {"sent", "lost"} :
        call' = [call EXCEPT ![c] = [at |-> at, param |-> p, success |-> FALSE]]
  BY DEF Ask
<1>2. call[c].at = "none"
  BY DEF Ask, At
<1>3. [at |-> at, param |-> p, success |-> FALSE] \in CallType
  BY DEF CallType, Places
<1>4. call' \in [Clients -> CallType]
  BY <1>1, <1>3 DEF CallsInv
<1>5. /\ call'[c].at \in {"sent", "lost"} /\ call'[c].param = p
      /\ \A d \in Clients \ {c} : call'[d] = call[d]
  BY <1>1 DEF CallsInv
<1>6. Running' = Running
  BY <1>2, <1>5 DEF Running
<1> QED  BY <1>4, <1>5, <1>6 DEF CallsInv

LEMMA AnsweredLemma ==
  ASSUME CallsInv, NEW c \in Clients, At(c, "answered"), value' = value,
         call' = [call EXCEPT ![c] = NoCall]
  PROVE  CallsInv' /\ Running' = Running
<1>1. NoCall \in CallType /\ NoCall.at = "none"
  BY DEF NoCall, CallType, Places
<1>2. /\ call' \in [Clients -> CallType] /\ call'[c].at = "none"
      /\ \A d \in Clients \ {c} : call'[d] = call[d]
  BY <1>1 DEF CallsInv
<1>3. Running' = Running
  BY <1>2 DEF Running, At
<1> QED  BY <1>2, <1>3 DEF CallsInv

LEMMA TakeLemma ==
  ASSUME CallsInv, NEW c \in Clients, Take(c)
  PROVE  CallsInv'
<1>1. Goes(c, "running") /\ At(c, "sent") /\ Running = {} /\ value' = value
  BY DEF Take
<1>2. /\ call' \in [Clients -> CallType] /\ call'[c].at = "running"
      /\ call'[c].param = call[c].param
      /\ \A d \in Clients \ {c} : call'[d] = call[d]
  BY <1>1, GoesLemma DEF CallsInv, Places
<1>3. Running' = {c}
  BY <1>1, <1>2 DEF Running
<1> QED  BY <1>1, <1>2, <1>3 DEF CallsInv, At

LEMMA SetLemma ==
  ASSUME CallsInv, NEW c \in Clients, Set(c)
  PROVE  CallsInv' /\ Running' = Running
<1>1. PICK success \in BOOLEAN, done \in BOOLEAN :
        /\ success => done
        /\ value' = IF done THEN [value EXCEPT ![call[c].param] = c] ELSE value
        /\ call' = [call EXCEPT ![c].at = "set", ![c].success = success]
  BY DEF Set
<1>2. call[c].at = "running" /\ call[c].param \in Params /\ call[c] \in CallType
  BY DEF Set, At, CallsInv
<1> DEFINE new == [[call[c] EXCEPT !.at = "set"] EXCEPT !.success = success]
<1>3. new \in CallType /\ new.at = "set" /\ new.param = call[c].param /\ new.success = success
  BY <1>2 DEF CallType, Places
<1>4. call' = [call EXCEPT ![c] = new]
  BY <1>1 DEF CallsInv
<1>5. /\ call' \in [Clients -> CallType] /\ call'[c] = new
      /\ \A d \in Clients \ {c} : call'[d] = call[d]
  <2> HIDE DEF new
  <2> QED  BY <1>3, <1>4 DEF CallsInv
<1>6. Running' = Running /\ c \in Running
  BY <1>2, <1>3, <1>5 DEF Running
<1>7. \A d \in Clients \ {c} : call'[d].at # "set"
  BY <1>5, <1>6 DEF CallsInv, Running
<1>8. value' \in [Params -> Clients \cup {Factory}]
  BY <1>1 DEF CallsInv
<1>9. success => value'[call[c].param] = c
  BY <1>1, <1>2 DEF CallsInv
<1>10. \A d \in Clients : call'[d].at = "set" /\ call'[d].success => value'[call'[d].param] = d
  <2> SUFFICES ASSUME NEW d \in Clients, call'[d].at = "set", call'[d].success
               PROVE  value'[call'[d].param] = d
    OBVIOUS
  <2>1. d = c  BY <1>7
  <2> HIDE DEF new
  <2> QED  BY <1>3, <1>5, <1>9, <2>1
<1>11. \A d \in Clients : call'[d].at # "none" => call'[d].param \in Params
  <2> HIDE DEF new
  <2> QED  BY <1>2, <1>3, <1>5 DEF CallsInv
<1> HIDE DEF new
<1> QED  BY <1>5, <1>6, <1>8, <1>10, <1>11 DEF CallsInv

LEMMA RespondLemma ==
  ASSUME CallsInv, NEW c \in Clients, Respond(c)
  PROVE  CallsInv' /\ Running' \subseteq Running
<1>1. Goes(c, "answered") /\ At(c, "set") /\ value' = value
  BY DEF Respond
<1>2. /\ call' \in [Clients -> CallType] /\ call'[c].at = "answered"
      /\ call'[c].param = call[c].param
      /\ \A d \in Clients \ {c} : call'[d] = call[d]
  BY <1>1, GoesLemma DEF CallsInv, Places
<1>3. Running' \subseteq Running
  BY <1>2 DEF Running
<1> QED  BY <1>1, <1>2, <1>3 DEF CallsInv, At

(* Nothing is being executed when the executor's threads end.               *)
LEMMA BusyLemma ==
  ASSUME CallsInv, Busy = 0
  PROVE  Running = {} /\ recovery # "running"
<1>1. Cardinality(Running) \in Nat /\ (Running # {} => Cardinality(Running) = 1)
  <2>1. CASE Running = {}
    BY <2>1, FS_EmptySet
  <2>2. CASE Running # {}
    <3>1. PICK c : c \in Running
      BY <2>2
    <3>2. Running = {c}
      BY <3>1 DEF CallsInv
    <3> QED  BY <3>2, FS_Singleton
  <2> QED  BY <2>1, <2>2
<1>2. CASE recovery = "running"
  BY <1>1, <1>2 DEF Busy
<1>3. CASE recovery # "running"
  <2>1. Cardinality(Running) + 0 = 0
    BY <1>3 DEF Busy
  <2> QED  BY <1>1, <1>3, <2>1
<1> QED  BY <1>2, <1>3

LEMMA ServiceLemma ==
  ASSUME IInv, ServiceNext
  PROVE  IInv'
<1>1. CASE OnInitFails \/ StartExecutor \/ Spin \/ SeesSpinning \/ AddAction \/ Destroy
           \/ Joined \/ ShutDown \/ SendRecovery \/ RecoverEnds
  <2>1. UNCHANGED <<call, value>>
    BY <1>1 DEF OnInitFails, StartExecutor, Spin, SeesSpinning, AddAction, Destroy, Joined,
                ShutDown, SendRecovery, RecoverEnds
  <2>2. CallsInv' /\ Running' = Running
    BY <2>1 DEF IInv, CallsInv, Running
  <2>3. NodesInv' /\ (thread' = "ended" => thread = "ended")
        /\ (recovery' = "running" => recovery = "running")
    <3>1. CASE OnInitFails \/ StartExecutor \/ Spin \/ SeesSpinning \/ AddAction
      BY <3>1 DEF IInv, NodesInv, OnInitFails, StartExecutor, Spin, SeesSpinning, AddAction
    <3>2. CASE Destroy \/ Joined \/ ShutDown \/ SendRecovery \/ RecoverEnds
      BY <3>2 DEF IInv, NodesInv, Destroy, Joined, ShutDown, SendRecovery, RecoverEnds
    <3> QED  BY <1>1, <3>1, <3>2
  <2> QED  BY <2>2, <2>3 DEF IInv, EndedInv
<1>2. CASE SpinReturns
  <2>1. UNCHANGED <<call, value, recovery>> /\ Busy = 0
    BY <1>2 DEF SpinReturns
  <2>2. CallsInv' /\ Running' = Running
    BY <2>1 DEF IInv, CallsInv, Running
  <2>3. NodesInv'
    BY <1>2 DEF IInv, NodesInv, SpinReturns
  <2> QED  BY <2>1, <2>2, <2>3, BusyLemma DEF IInv, EndedInv
<1>3. CASE Recover
  <2>1. UNCHANGED <<call, value, thread>> /\ thread = "spinning"
    BY <1>3 DEF Recover, Executes
  <2>2. CallsInv' /\ NodesInv'
    BY <1>3, <2>1 DEF IInv, CallsInv, NodesInv, Running, Recover
  <2> QED  BY <2>1, <2>2 DEF IInv, EndedInv
<1>4. ASSUME NEW c \in Clients, ServeOne(c) PROVE IInv'
  <2>1. CASE Take(c)
    <3>1. NodesInv' /\ thread' = "spinning"
      BY <2>1 DEF IInv, NodesInv, Take, Executes
    <3> QED  BY <2>1, <3>1, TakeLemma DEF IInv, EndedInv
  <2>2. CASE Set(c)
    <3>1. NodesInv' /\ UNCHANGED <<thread, recovery>>
      BY <2>2 DEF IInv, NodesInv, Set
    <3> QED  BY <2>2, <3>1, SetLemma DEF IInv, EndedInv
  <2>3. CASE SetThrows(c)
    <3>1. NodesInv' /\ UNCHANGED <<thread, recovery, call, value>>
      BY <2>3 DEF IInv, NodesInv, SetThrows
    <3> QED  BY <3>1 DEF IInv, CallsInv, EndedInv, Running
  <2>4. CASE Respond(c)
    <3>1. NodesInv' /\ UNCHANGED <<thread, recovery>>
      BY <2>4 DEF IInv, NodesInv, Respond
    <3> QED  BY <2>4, <3>1, RespondLemma DEF IInv, EndedInv
  <2> QED  BY <1>4, <2>1, <2>2, <2>3, <2>4 DEF ServeOne
<1> QED  BY <1>1, <1>2, <1>3, <1>4 DEF ServiceNext, Starts, Ends

LEMMA InitLemma == SetupInit => IInv
<1> SUFFICES ASSUME SetupInit PROVE IInv
  OBVIOUS
<1> USE DEF SetupInit, ServiceInit
<1>1. NoCall \in CallType /\ NoCall.at = "none"
  BY DEF NoCall, CallType, Places
<1>2. call \in [Clients -> CallType] /\ \A c \in Clients : call[c].at = "none"
  BY <1>1
<1>3. Running = {}
  BY <1>2 DEF Running
<1>4. CallsInv
  BY <1>2, <1>3 DEF CallsInv
<1> QED  BY <1>4 DEF IInv, NodesInv, EndedInv

LEMMA StepLemma == IInv /\ [SetupNext]_setupVars => IInv'
<1> SUFFICES ASSUME IInv, [SetupNext]_setupVars PROVE IInv'
  OBVIOUS
<1>1. CASE UNCHANGED serviceVars
  BY <1>1 DEF serviceVars, IInv, CallsInv, NodesInv, EndedInv, Running
<1>2. CASE ServiceNext
  BY <1>2, ServiceLemma
<1>3. ASSUME ServicesOnlyCalled, CallsInv', Running' = Running PROVE IInv'
  BY <1>3 DEF ServicesOnlyCalled, IInv, NodesInv, EndedInv
<1>4. CASE SendBehavior
  BY <1>3, <1>4, AskLemma, SetupAssumption DEF SendBehavior, ServicesOnlyCalled, IInv
<1>5. CASE OtherAsks
  BY <1>3, <1>5, AskLemma DEF OtherAsks, ServicesOnlyCalled, IInv
<1>6. CASE BehaviorSet
  BY <1>3, <1>6, AnsweredLemma, SetupAssumption DEF BehaviorSet, ServicesOnlyCalled, IInv
<1>7. CASE Configured
  BY <1>1, <1>7 DEF Configured
<1> QED
  BY <1>1, <1>2, <1>4, <1>5, <1>6, <1>7
  DEF SetupNext, Configuring, Configure, ReadGains, GetDescription, WaitForServices,
      setupVars

(* The services' callbacks never overlap, and a thread of the executor that *)
(* has ended has left no callback behind, with any number of clients,       *)
(* parameters and threads.                                                  *)
THEOREM ServicesCorrect == SetupSpec => []ServiceTypeOK
<1>1. IInv => ServiceTypeOK
  BY DEF IInv, CallsInv, NodesInv, EndedInv, ServiceTypeOK, CallType, Places
<1> QED  BY <1>1, InitLemma, StepLemma, PTL DEF SetupSpec

(* Only the answer changes a call whose setter has run.                     *)
LEMMA OnlyRespond ==
  ASSUME IInv, [SetupNext]_setupVars, NEW c \in Clients, At(c, "set")
  PROVE  call'[c] = call[c] \/ Respond(c)
<1>1. CASE UNCHANGED call
  BY <1>1
<1>2. ASSUME NEW d \in Clients, NEW p \in Params, Ask(d, p)
      PROVE  call'[c] = call[c]
  BY <1>2 DEF IInv, CallsInv, Ask, At
<1>3. ASSUME call' = [call EXCEPT ![Manager] = NoCall], At(Manager, "answered")
      PROVE  call'[c] = call[c]
  BY <1>3 DEF IInv, CallsInv, At
<1>4. ASSUME NEW d \in Clients, ServeOne(d)
      PROVE  call'[c] = call[c] \/ Respond(c)
  <2>1. CASE Take(d)
    BY <2>1 DEF Take, Goes, At, IInv, CallsInv
  <2>2. CASE Set(d)
    <3>1. d # c /\ \E new \in CallType : call' = [call EXCEPT ![d] = new]
      <4>1. d # c
        BY <2>2 DEF Set, At
      <4>2. PICK success \in BOOLEAN :
              call' = [call EXCEPT ![d].at = "set", ![d].success = success]
        BY <2>2 DEF Set
      <4>3. [[call[d] EXCEPT !.at = "set"] EXCEPT !.success = success] \in CallType
        <5>1. call[d] \in CallType
          BY DEF IInv, CallsInv
        <5> QED  BY <5>1 DEF CallType, Places
      <4>4. call' = [call EXCEPT ![d] = [[call[d] EXCEPT !.at = "set"] EXCEPT !.success = success]]
        BY <4>2 DEF IInv, CallsInv
      <4> QED  BY <4>1, <4>3, <4>4
    <3> QED  BY <3>1 DEF IInv, CallsInv
  <2>3. CASE SetThrows(d)
    BY <2>3 DEF SetThrows
  <2>4. CASE Respond(d) /\ d # c
    BY <2>4 DEF Respond, Goes, IInv, CallsInv
  <2>5. CASE Respond(d) /\ d = c
    BY <2>5
  <2> QED  BY <1>4, <2>1, <2>2, <2>3, <2>4, <2>5 DEF ServeOne
<1>5. CASE ServiceNext
  <2>1. CASE \E d \in Clients : ServeOne(d)
    BY <1>4, <2>1
  <2>2. CASE ~\E d \in Clients : ServeOne(d)
    <3>1. UNCHANGED call
      BY <1>5, <2>2 DEF ServiceNext, Starts, Ends, OnInitFails, StartExecutor, Spin, SeesSpinning,
         AddAction, Destroy, Joined, SpinReturns, ShutDown, SendRecovery, Recover, RecoverEnds
    <3> QED  BY <3>1
  <2> QED  BY <2>1, <2>2
<1>6. CASE SendBehavior
  BY <1>2, <1>6, SetupAssumption DEF SendBehavior
<1>7. CASE OtherAsks
  BY <1>2, <1>7 DEF OtherAsks
<1>8. CASE BehaviorSet
  BY <1>3, <1>8 DEF BehaviorSet
<1> QED
  BY <1>1, <1>5, <1>6, <1>7, <1>8
  DEF SetupNext, Configuring, Configure, ReadGains, GetDescription, WaitForServices, Configured,
      setupVars, serviceVars

(* A client that is told "success" finds its value in the robot, with any   *)
(* number of clients, parameters and threads.                               *)
THEOREM SuccessIsTrue == SetupSpec => AnswersAreTrue
<1> DEFINE Told == \A c \in Clients :
                     At(c, "set") /\ call'[c].at = "answered" /\ call'[c].success
                       => value[call[c].param] = c
<1>1. IInv /\ [SetupNext]_setupVars => [Told]_serviceVars
  <2> SUFFICES ASSUME IInv, [SetupNext]_setupVars, NEW c \in Clients,
                      At(c, "set"), call'[c].at = "answered", call'[c].success
               PROVE  value[call[c].param] = c
    OBVIOUS
  <2>1. Respond(c)
    BY OnlyRespond DEF At
  <2>2. call'[c].success = call[c].success
    BY <2>1, GoesLemma DEF Respond, IInv, CallsInv, Places
  <2> QED  BY <2>2 DEF IInv, CallsInv, At
<1> QED  BY <1>1, InitLemma, StepLemma, PTL DEF SetupSpec, AnswersAreTrue

-------------------------------------------------------------------------------
(* on_configure: a call of its own is open only while its script stands at  *)
(* that question.                                                           *)
ScriptInv ==
  /\ kind \in Kinds /\ named \in BOOLEAN
  /\ life \in {"unconfigured", "configuring", "inactive", "finalized"}
  /\ todo \in Seq(Questions) /\ Len(todo) <= 4
  /\ todo # <<>> => life = "configuring"
  /\ call[Manager].at # "none" => todo # <<>> /\ Head(todo) \in {"behavior", "checked"}

LEMMA AsksLemma ==
  ASSUME NEW k \in Kinds
  PROVE  Asks(k) \in Seq(Questions) /\ Len(Asks(k)) <= 4
<1> DEFINE Script(s) == s \in Seq(Questions) /\ Len(s) <= 4
<1>1. Script(<<>>)
  OBVIOUS
<1>2. \A q \in Questions : Script(<<q>>)
  OBVIOUS
<1>3. \A q, r \in Questions : Script(<<q, r>>)
  OBVIOUS
<1>4. \A q, r, s, t \in Questions : Script(<<q, r, s, t>>)
  OBVIOUS
<1>5. {"gains", "description", "filled", "behavior", "services", "checked"} \subseteq Questions
  BY DEF Questions
<1>6. Script(JointVelocityAsks(TRUE)) /\ Script(JointVelocityAsks(FALSE))
  BY <1>2, <1>3, <1>5 DEF JointVelocityAsks
<1>7. /\ Script(JointPositionAsks) /\ Script(CartesianVelocityAsks) /\ Script(MoveToStartAsks)
      /\ Script(GravityAsks) /\ Script(ModelAsks)
  BY <1>1, <1>2, <1>5 DEF JointPositionAsks, CartesianVelocityAsks, MoveToStartAsks,
     GravityAsks, ModelAsks
<1>8. /\ Script(JointImpedanceAsks) /\ Script(CartesianPoseAsks) /\ Script(CartesianElbowAsks)
      /\ Script(CartesianOrientationAsks) /\ Script(ElbowAsks)
  BY <1>3, <1>5 DEF JointImpedanceAsks, CartesianPoseAsks, CartesianElbowAsks,
     CartesianOrientationAsks, ElbowAsks
<1>9. Script(WithIKAsks)
  BY <1>4, <1>5 DEF WithIKAsks
<1> HIDE DEF Script
<1>10. Script(Asks(k))
  BY <1>6, <1>7, <1>8, <1>9 DEF Kinds, Asks
<1> QED  BY <1>10 DEF Script

LEMMA ScriptLemma ==
  ASSUME ScriptInv, todo # <<>>
  PROVE  /\ life = "configuring"
         /\ Tail(todo) \in Seq(Questions) /\ Len(Tail(todo)) <= 4
  BY HeadTailProperties, LenProperties DEF ScriptInv

(* A step of on_configure that answers its question, or gives up.           *)
LEMMA AnsweredScript ==
  ASSUME ScriptInv, todo # <<>>, call'[Manager].at = "none", kind' = kind, named' \in BOOLEAN,
         Proceeds \/ Leaves("unconfigured") \/ Leaves("finalized")
  PROVE  ScriptInv'
<1>1. CASE Proceeds
  BY <1>1, ScriptLemma DEF ScriptInv, Proceeds
<1>2. CASE Leaves("unconfigured") \/ Leaves("finalized")
  <2>1. todo' = <<>> /\ life' \in {"unconfigured", "finalized"}
    BY <1>2 DEF Leaves
  <2>2. <<>> \in Seq(Questions) /\ Len(<<>>) <= 4
    OBVIOUS
  <2> QED  BY <2>1, <2>2 DEF ScriptInv
<1> QED  BY <1>1, <1>2

LEMMA ScriptStep ==
  ASSUME IInv, ScriptInv, [SetupNext]_setupVars
  PROVE  ScriptInv'
<1>1. CASE UNCHANGED <<kind, life, todo, named>> /\ call'[Manager].at = "none"
  BY <1>1 DEF ScriptInv
<1>2. CASE UNCHANGED <<kind, life, todo, named>> /\ call[Manager].at # "none"
  BY <1>2 DEF ScriptInv
<1>3. CASE ServiceNext /\ UNCHANGED <<kind, life, todo, named>>
  <2>1. CASE call[Manager].at = "none"
    <3>1. call'[Manager] = call[Manager]
      <4>1. CASE \E c \in Clients : ServeOne(c)
        <5>1. PICK c \in Clients : ServeOne(c)
          BY <4>1
        <5>2. c # Manager
          BY <2>1, <5>1 DEF ServeOne, Take, Set, SetThrows, Respond, At
        <5> QED  BY <5>1, <5>2, SetupAssumption
                 DEF ServeOne, Take, Set, SetThrows, Respond, Goes, IInv, CallsInv
      <4>2. CASE ~\E c \in Clients : ServeOne(c)
        BY <1>3, <4>2 DEF ServiceNext, Starts, Ends, OnInitFails, StartExecutor, Spin,
           SeesSpinning, AddAction, Destroy, Joined, SpinReturns, ShutDown, SendRecovery,
           Recover, RecoverEnds
      <4> QED  BY <4>1, <4>2
    <3> QED  BY <1>1, <1>3, <2>1, <3>1
  <2> QED  BY <1>2, <1>3, <2>1
<1>4. CASE OtherAsks
  <2>1. call'[Manager] = call[Manager]
    BY <1>4, SetupAssumption DEF OtherAsks, Ask, IInv, CallsInv
  <2> QED  BY <1>1, <1>2, <1>4, <2>1 DEF OtherAsks
<1>5. CASE Configure
  <2>1. call[Manager].at = "none" /\ call' = call
    BY <1>5 DEF Configure, ScriptInv, serviceVars
  <2>2. /\ kind' \in Kinds /\ named' \in BOOLEAN /\ life' = "configuring"
        /\ todo' = Asks(kind) /\ kind \in Kinds
    BY <1>5 DEF Configure, ScriptInv
  <2> QED  BY <2>1, <2>2, AsksLemma DEF ScriptInv
<1>6. CASE ReadGains \/ GetDescription \/ WaitForServices
  <2>1. /\ todo # <<>> /\ kind' = kind /\ named' \in BOOLEAN /\ call' = call
        /\ Head(todo) \notin {"behavior", "checked"}
        /\ Proceeds \/ Leaves("unconfigured") \/ Leaves("finalized")
    BY <1>6 DEF ReadGains, GetDescription, WaitForServices, Asking, ScriptInv, serviceVars
  <2>2. call'[Manager].at = "none"
    BY <2>1 DEF ScriptInv
  <2> QED  BY <2>1, <2>2, AnsweredScript
<1>7. CASE SendBehavior
  <2>1. /\ UNCHANGED <<kind, life, todo, named>>
        /\ todo # <<>> /\ Head(todo) \in {"behavior", "checked"}
    BY <1>7 DEF SendBehavior, Asking
  <2> QED  BY <2>1 DEF ScriptInv
<1>8. CASE BehaviorSet
  <2>1. /\ todo # <<>> /\ kind' = kind /\ named' \in BOOLEAN
        /\ Proceeds \/ Leaves("unconfigured") \/ Leaves("finalized")
    BY <1>8 DEF BehaviorSet, Asking, ScriptInv
  <2>2. call'[Manager].at = "none"
    BY <1>8, SetupAssumption DEF BehaviorSet, IInv, CallsInv, NoCall
  <2> QED  BY <2>1, <2>2, AnsweredScript
<1>9. CASE Configured
  <2>1. /\ UNCHANGED <<call, kind, todo, named>> /\ todo = <<>> /\ life' = "inactive"
    BY <1>9 DEF Configured, serviceVars
  <2> QED  BY <2>1 DEF ScriptInv
<1>10. CASE UNCHANGED setupVars
  BY <1>10 DEF setupVars, serviceVars, ScriptInv
<1> QED
  BY <1>3, <1>4, <1>5, <1>6, <1>7, <1>8, <1>9, <1>10 DEF SetupNext, Configuring

LEMMA ScriptInit == SetupInit => ScriptInv
<1> SUFFICES ASSUME SetupInit PROVE ScriptInv
  OBVIOUS
<1>1. call[Manager].at = "none"
  BY SetupAssumption DEF SetupInit, ServiceInit, NoCall
<1>2. todo = <<>> /\ <<>> \in Seq(Questions) /\ Len(<<>>) <= 4
  BY DEF SetupInit
<1> QED  BY <1>1, <1>2 DEF SetupInit, ScriptInv

(* on_configure, whichever controller runs it, has asked nothing that is    *)
(* still open when it returns.                                              *)
THEOREM SetupCorrect == SetupSpec => []SetupTypeOK
<1>1. IInv /\ ScriptInv => SetupTypeOK
  BY DEF IInv, CallsInv, NodesInv, EndedInv, ScriptInv, ServiceTypeOK, SetupTypeOK, CallType,
         Places
<1> QED  BY <1>1, InitLemma, StepLemma, ScriptInit, ScriptStep, PTL DEF SetupSpec
=============================================================================
