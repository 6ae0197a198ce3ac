---------------------------- MODULE IgnitionProofs ----------------------------
(***************************************************************************)
(* Proofs about IgnitionControl for every hardware description, every set  *)
(* of controllers with their claims, every control period and any number   *)
(* of rewinds.                                                             *)
(***************************************************************************)
EXTENDS IgnitionControl, TLAPS

\* No controller of cs conflicts with another one.
Peaceful(cs) == \A c \in cs, d \in cs : c # d => ~Conflict(c, d)

\* A joint that mimics another has no effort interface of its own.
MimicsHaveNoEffort ==
  \A d \in Descriptions, j \in Joints : d[j].mimic # NoJoint => "effort" \notin d[j].commands

-------------------------------------------------------------------------------
(* The inductive invariant *)

\* Before there is a controller manager nothing runs and nothing is commanded.
SetupInv ==
  /\ stage \in {"new", "urdf", "parse", "hardware", "manager"} => ~manager
  /\ ~manager =>
       /\ active = {} /\ updated = {} /\ request = NoRequest
       /\ phase = "ready" /\ since = 0 /\ rewinds = 0
       /\ command = [j \in Joints |-> [i \in Interfaces |-> "initial"]]

\* The time since the last update: at most the period, and less when an
\* iteration begins; every rewind takes at most MaxRewind off.
ClockInv ==
  /\ since >= -(MaxRewind * rewinds)
  /\ phase = "ready" => since < Period

\* The controllers that are active, and that will be after the switch.
SwitchInv ==
  /\ request.start \subseteq Controllers \ active
  /\ request.stop \subseteq active
  /\ Claims(active) \cup Claims(request.start) \subseteq Exported
  /\ Peaceful(active)
  /\ Peaceful((active \ request.stop) \cup request.start)

\* A bit is set for an active controller, or it is the effort bit of initSim,
\* which nobody has given a command to.
MethodInv ==
  hardware = "active" =>
    \A j \in Joints, i \in Interfaces :
      i \in method[j] =>
        \/ \E c \in active : <<j, i>> \in Claim[c]
        \/ i = "effort" /\ (j \notin MimicJoints => command[j][i] = "initial")

\* Of two interfaces of a joint that no two controllers may share, stopping one
\* does not clear the other.
KeepInv ==
  ~MayShareJoints /\ hardware = "active" =>
    \A c \in active, p \in Switchable : p \in Claim[c] => p[2] \in method[p[1]]

\* A mimic joint has no bit but that of initSim.
MimicInv ==
  hardware = "active" =>
    \A j \in MimicJoints : method[j] \subseteq {"effort"} \cap info[j].commands

\* What an updated controller claims holds its command.
CommandInv ==
  \A c \in updated, p \in Joints \X Interfaces : p \in Claim[c] => command[p[1]][p[2]] = c

\* The physics leaves no command behind.
SimInv ==
  phase # "written" =>
    \A j \in Joints : sim[j].vel \in {NoComponent, Zero} /\ sim[j].force \in {NoComponent, Zero}

\* What the write has just done.
WriteInv ==
  /\ MimicFollows
  /\ ~MayShareJoints => ServedIsClaimed
  /\ MimicsHaveNoEffort => NothingFromTheStopped

IInv ==
  /\ TypeOK
  /\ SetupInv
  /\ ClockInv
  /\ SwitchInv
  /\ MethodInv
  /\ KeepInv
  /\ MimicInv
  /\ CommandInv
  /\ SimInv
  /\ WriteInv

ConfigureStages == {"new", "urdf", "parse", "hardware", "manager"}

-------------------------------------------------------------------------------
(* What the operators of the model depend on *)

LEMMA InfoLemma ==
  ASSUME info' = info
  PROVE  /\ Simulated' = Simulated /\ MimicJoints' = MimicJoints
         /\ Exported' = Exported /\ Switchable' = Switchable
         /\ \A j : InterfacesToMimic(j)' = InterfacesToMimic(j)
<1>1. Simulated' = Simulated /\ MimicJoints' = MimicJoints
  BY DEF Simulated, MimicJoints
<1>2. Exported' = Exported  BY <1>1 DEF Exported
<1>3. Switchable' = Switchable  BY <1>1, <1>2 DEF Switchable
<1>4. \A j : InterfacesToMimic(j)' = InterfacesToMimic(j)
  BY DEF InterfacesToMimic
<1> QED  BY <1>1, <1>2, <1>3, <1>4

LEMMA ClaimLemma ==
  ASSUME NEW c \in Controllers
  PROVE  /\ Claim[c] \subseteq Joints \X Interfaces
         /\ \A p \in Claim[c] : p[1] \in Joints /\ p[2] \in Interfaces /\ p = <<p[1], p[2]>>
  BY ClaimAssumption

LEMMA SwitchableLemma ==
  ASSUME NEW p \in Switchable
  PROVE  /\ p[1] \in Joints /\ p[2] \in Interfaces /\ p = <<p[1], p[2]>>
         /\ p[1] \in Simulated /\ p[1] \notin MimicJoints
         /\ p \in Joints \X Interfaces
  BY DEF Switchable, Exported, Simulated

\* What is not touched stays as it was.
LEMMA FrameLemma ==
  ASSUME UNCHANGED <<info, method, command, active, updated>>,
         hardware' = "active" => hardware = "active"
  PROVE  /\ SwitchInv /\ request' = request => SwitchInv'
         /\ MethodInv => MethodInv'
         /\ KeepInv => KeepInv'
         /\ MimicInv => MimicInv'
         /\ CommandInv => CommandInv'
<1>1. /\ MimicJoints' = MimicJoints
      /\ Exported' = Exported /\ Switchable' = Switchable
  BY InfoLemma
<1>2. SwitchInv /\ request' = request => SwitchInv'
  BY <1>1 DEF SwitchInv, Claims, Peaceful, Conflict
<1>3. MethodInv => MethodInv'
  BY <1>1 DEF MethodInv
<1>4. (KeepInv => KeepInv') /\ (MimicInv => MimicInv') /\ (CommandInv => CommandInv')
  BY <1>1 DEF KeepInv, MimicInv, CommandInv
<1> QED  BY <1>2, <1>3, <1>4

LEMMA WriteFrameLemma ==
  ASSUME UNCHANGED <<info, sim, active, updated>>, JustWritten' => JustWritten, WriteInv
  PROVE  WriteInv'
<1>1. /\ Simulated' = Simulated /\ MimicJoints' = MimicJoints /\ Switchable' = Switchable
      /\ \A j : InterfacesToMimic(j)' = InterfacesToMimic(j)
  BY InfoLemma
<1>2. MimicFollows => MimicFollows'  BY <1>1 DEF MimicFollows
<1>3. ServedIsClaimed => ServedIsClaimed'
  BY <1>1 DEF ServedIsClaimed, Sources, OfJoint
<1>4. NothingFromTheStopped => NothingFromTheStopped'
  BY <1>1 DEF NothingFromTheStopped, Sources
<1> QED  BY <1>2, <1>3, <1>4 DEF WriteInv, MimicsHaveNoEffort

-------------------------------------------------------------------------------
(* One lemma per kind of step *)

LEMMA InitLemma == Init => IInv
<1> SUFFICES ASSUME Init PROVE IInv  OBVIOUS
<1> USE DEF Init, SystemInit
<1>1. TypeOK
  <2>1. SystemTypeOK  BY DEF SystemTypeOK, Values, Authors
  <2>2. 0 \in -(MaxRewind * MaxRewinds)..Period
    BY PeriodAssumption DEF Period
  <2>3. request \in [start : SUBSET Controllers, stop : SUBSET Controllers]
    BY DEF NoRequest
  <2>4. 0 \in 0..MaxRewinds  BY PeriodAssumption
  <2> QED  BY <2>1, <2>2, <2>3, <2>4 DEF TypeOK
<1>2. SetupInv  BY DEF SetupInv
<1>3. ClockInv  BY PeriodAssumption DEF ClockInv, Period
<1>4. SwitchInv  BY DEF SwitchInv, NoRequest, Claims, Peaceful
<1>5. MethodInv /\ KeepInv /\ MimicInv  BY DEF MethodInv, KeepInv, MimicInv
<1>6. CommandInv /\ SimInv  BY DEF CommandInv, SimInv
<1>7. WriteInv
  BY DEF WriteInv, MimicFollows, ServedIsClaimed, NothingFromTheStopped, JustWritten
<1> QED  BY <1>1, <1>2, <1>3, <1>4, <1>5, <1>6, <1>7 DEF IInv

\* Steps of Configure without a controller manager, Shutdown, Destroy.
LEMMA PluginLemma ==
  ASSUME IInv, UNCHANGED <<systemVars, cycleVars, manager, rate>>,
         stage' \in ConfigureStages \cup Returned \cup {"destroyed", "crashed"},
         thread' \in {"none", "joinable", "joined"}, rosOk' \in BOOLEAN, gravityOk' \in BOOLEAN,
         stage' \in ConfigureStages => ~manager,
         manager => stage' \in {stage, "destroyed"}
  PROVE  IInv'
<1> USE DEF IInv, systemVars, cycleVars
<1>1. TypeOK'
  BY DEF TypeOK, SystemTypeOK, ConfigureStages, Period
<1>2. SetupInv'  BY DEF SetupInv, ConfigureStages
<1>3. ClockInv'  BY DEF ClockInv, Period
<1>4. JustWritten' => JustWritten  BY DEF JustWritten, Running, Returned
<1>5. SimInv'  BY DEF SimInv
<1> QED  BY <1>1, <1>2, <1>3, <1>4, <1>5, FrameLemma, WriteFrameLemma

LEMMA LoadLemma ==
  ASSUME IInv, LoadHardware
  PROVE  IInv'
<1> USE DEF IInv
<1>1. stage = "hardware" /\ ~manager /\ UNCHANGED <<manager, rate, phase, since, rewinds,
                                                    active, updated, request, thread, rosOk, gravityOk>>
  BY DEF LoadHardware, SetupInv
<1>2. CASE InitSimThrows
  BY <1>1, <1>2, PluginLemma DEF LoadHardware, cycleVars, TypeOK, ConfigureStages
<1>3. CASE ~InitSimThrows
  <2>1. /\ stage' = "manager" /\ hardware' = "active"
        /\ method' = [j \in Joints |->
             IF j \in Simulated /\ "effort" \in info[j].commands THEN {"effort"} ELSE {}]
        /\ imu' \in {"absent", "silent"}
        /\ UNCHANGED <<info, command, sim>>
    BY <1>3 DEF LoadHardware, InitSim
  <2>2. /\ MimicJoints' = MimicJoints /\ Simulated' = Simulated
        /\ Switchable' = Switchable /\ Exported' = Exported
    BY <2>1, InfoLemma
  <2>3. TypeOK'
    BY <1>1, <2>1 DEF TypeOK, SystemTypeOK, Period, Interfaces
  <2>4. SetupInv'  BY <1>1, <2>1 DEF SetupInv
  <2>5. ClockInv'  BY <1>1 DEF ClockInv, Period
  <2>6. active = {} /\ updated = {} /\ phase = "ready"
        /\ command = [j \in Joints |-> [i \in Interfaces |-> "initial"]]
    BY <1>1 DEF SetupInv
  <2>7. SwitchInv'
    BY <1>1, <2>2 DEF SwitchInv, Claims, Peaceful, Conflict
  <2>8. MethodInv'
    BY <1>1, <2>1, <2>6 DEF MethodInv, Interfaces
  <2>9. KeepInv' /\ CommandInv'
    BY <1>1, <2>6 DEF KeepInv, CommandInv
  <2>10. MimicInv'
    BY <2>1, <2>2 DEF MimicInv, MimicJoints, Simulated
  <2>11. SimInv'  BY <1>1, <2>1 DEF SimInv
  <2>12. WriteInv'
    BY <1>1 DEF WriteInv, MimicFollows, ServedIsClaimed, NothingFromTheStopped, JustWritten, Running
  <2> QED  BY <2>3, <2>4, <2>5, <2>7, <2>8, <2>9, <2>10, <2>11, <2>12
<1> QED  BY <1>2, <1>3

LEMMA ManagerLemma ==
  ASSUME IInv, CreateManager
  PROVE  IInv'
<1> USE DEF IInv
<1>1. /\ ~manager /\ manager' /\ rate' \in BOOLEAN
      /\ stage' \in Returned /\ UNCHANGED <<systemVars, thread, rosOk, gravityOk, cycleVars>>
  BY DEF CreateManager, SetupInv, Returned
<1> USE <1>1 DEF systemVars, cycleVars
<1>2. phase = "ready" /\ since = 0 /\ rewinds = 0 /\ active = {} /\ updated = {}
  BY DEF SetupInv
<1>3. Period \in Nat /\ Period > 0 /\ Period' \in Nat /\ Period' > 0
  BY PeriodAssumption DEF Period
<1>4. TypeOK'
  <2>1. since' \in -(MaxRewind * MaxRewinds)..Period'
    BY <1>2, <1>3, PeriodAssumption
  <2> QED  BY <2>1 DEF TypeOK, SystemTypeOK
<1>5. SetupInv'  BY DEF SetupInv, Returned
<1>6. ClockInv'  BY <1>2, <1>3, PeriodAssumption DEF ClockInv
<1>7. Simulated' = Simulated /\ MimicJoints' = MimicJoints
      /\ Exported' = Exported /\ Switchable' = Switchable
  BY InfoLemma
<1>8. SwitchInv'  BY <1>7 DEF SwitchInv, Claims, Peaceful, Conflict
<1>9. MethodInv' /\ KeepInv' /\ MimicInv' /\ CommandInv' /\ SimInv'
  BY <1>7 DEF MethodInv, KeepInv, MimicInv, CommandInv, SimInv
<1>10. WriteInv'
  BY <1>2 DEF WriteInv, MimicFollows, ServedIsClaimed, NothingFromTheStopped, JustWritten
<1> QED  BY <1>4, <1>5, <1>6, <1>8, <1>9, <1>10

-------------------------------------------------------------------------------
(* One iteration of the simulator *)

Components == [vel : Values, force : Values]

LEMMA WrittenType ==
  ASSUME SystemTypeOK, NEW j \in Joints
  PROVE  Driven(sim[j], j) \in Components /\ Written(j) \in Components
<1>1. sim[j] \in Components /\ Zero \in Values /\ NoComponent \in Values
  BY DEF SystemTypeOK, Components, Values
<1>2. By("velocity", j) \in Values /\ By("position", j) \in Values /\ By("effort", j) \in Values
  BY DEF SystemTypeOK, By, Values, Laws, Interfaces
<1>3. <<"follow", "initial">> \in Values
  BY DEF Values, Laws, Authors
<1>4. Driven(sim[j], j) \in Components
  BY <1>1, <1>2 DEF Driven, Components
<1>5. \A s \in Components : Follows(s, j) \in Components
  BY <1>1, <1>3 DEF Follows, Components
<1> QED  BY <1>4, <1>5 DEF Written

\* A joint's own mode sends the command of an interface whose bit is set, and
\* an effort only when no other bit is.
LEMMA DrivenLemma ==
  ASSUME IInv, phase = "ready", NEW j \in Joints,
         NEW v \in {Driven(sim[j], j).vel, Driven(sim[j], j).force}, v \notin {NoComponent, Zero}
  PROVE  \E i \in method[j] :
           /\ i \in Interfaces /\ v = <<i, command[j][i]>>
           /\ i = "effort" => method[j] = {"effort"}
<1> DEFINE d == Driven(sim[j], j)
<1>1. /\ sim[j] \in [vel : Values, force : Values] /\ method[j] \subseteq Interfaces
      /\ sim[j].vel \in {NoComponent, Zero} /\ sim[j].force \in {NoComponent, Zero}
  BY DEF IInv, TypeOK, SystemTypeOK, SimInv
<1>2. CASE "velocity" \in method[j]
  <2>1. /\ d.vel \in {Zero, <<"velocity", command[j]["velocity"]>>}
        /\ d.force = sim[j].force
    BY <1>1, <1>2 DEF Driven, By
  <2> QED  BY <1>1, <1>2, <2>1
<1>3. CASE "position" \in method[j] /\ "velocity" \notin method[j]
  <2>1. /\ d.vel = <<"position", command[j]["position"]>>
        /\ d.force = sim[j].force
    BY <1>1, <1>3 DEF Driven, By
  <2> QED  BY <1>1, <1>3, <2>1
<1>4. CASE method[j] = {"effort"}
  <2>1. /\ d.force \in {Zero, <<"effort", command[j]["effort"]>>}
        /\ d.vel = sim[j].vel
    BY <1>1, <1>4 DEF Driven, By
  <2> QED  BY <1>1, <1>4, <2>1
<1>5. CASE method[j] = {}
  <2>1. d.vel \in {Zero, sim[j].vel} /\ d.force = sim[j].force
    BY <1>1, <1>5 DEF Driven
  <2> QED  BY <1>1, <2>1
<1>6. \/ "velocity" \in method[j] \/ "position" \in method[j]
      \/ method[j] = {"effort"} \/ method[j] = {}
  BY <1>1 DEF Interfaces
<1> QED  BY <1>2, <1>3, <1>4, <1>5, <1>6

LEMMA FollowsLemma ==
  ASSUME SystemTypeOK, NEW j \in MimicJoints,
         sim' = [k \in Joints |-> IF k \in Simulated THEN Written(k) ELSE sim[k]]
  PROVE  /\ "position" \in InterfacesToMimic(j) => sim'[j].vel = <<"follow", "initial">>
         /\ sim'[j].vel \in {<<"follow", "initial">>, Zero, Driven(sim[j], j).vel}
         /\ sim'[j].force \in {<<"follow", "initial">>, Zero, Driven(sim[j], j).force}
<1>1. j \in Joints /\ j \in Simulated  BY DEF MimicJoints, Simulated
<1>2. sim'[j] = Follows(Driven(sim[j], j), j)
  BY <1>1 DEF Written
<1> QED  BY <1>2 DEF Follows

\* A write serves the claims of the controllers that are active.
LEMMA WriteLemma ==
  ASSUME IInv, Running, phase = "ready", hardware = "active", Write,
         UNCHANGED <<active, updated>>
  PROVE  WriteInv'
<1>1. /\ sim' = [j \in Joints |-> IF j \in Simulated THEN Written(j) ELSE sim[j]]
      /\ UNCHANGED <<info, method, command, imu>>
  BY DEF Write
<1>2. /\ Simulated' = Simulated /\ MimicJoints' = MimicJoints /\ Switchable' = Switchable
      /\ \A j : InterfacesToMimic(j)' = InterfacesToMimic(j)
  BY <1>1, InfoLemma
<1>3. MimicFollows'
  BY <1>1, <1>2, FollowsLemma DEF MimicFollows, IInv, TypeOK
<1>4. ASSUME ~MayShareJoints PROVE ServedIsClaimed'
  <2> SUFFICES ASSUME NEW c \in updated, NEW p \in Claim[c] \cap Switchable,
                      NEW v \in {sim'[p[1]].vel, sim'[p[1]].force} \ {NoComponent, Zero}
               PROVE  \E i \in OfJoint(Claim[c], p[1]) : v = <<i, c>>
    BY <1>1, <1>2 DEF ServedIsClaimed, Sources, OfJoint
  <2> DEFINE j == p[1]
  <2>1. /\ j \in Joints /\ p[2] \in Interfaces /\ p = <<j, p[2]>>
        /\ j \in Simulated /\ j \notin MimicJoints
    BY SwitchableLemma
  <2>2. sim'[j] = Driven(sim[j], j)
    BY <1>1, <2>1 DEF Written
  <2>3. PICK i \in method[j] : /\ i \in Interfaces /\ v = <<i, command[j][i]>>
                               /\ i = "effort" => method[j] = {"effort"}
    <3>1. /\ v \in {Driven(sim[j], j).vel, Driven(sim[j], j).force}
          /\ v \notin {NoComponent, Zero}
      BY <2>2
    <3> HIDE DEF j
    <3> QED  BY <2>1, <3>1, DrivenLemma
  <2>4. c \in active /\ c \in Controllers  BY DEF IInv, TypeOK
  <2>5. <<j, i>> \in Claim[c]
    <3>1. CASE \E d \in active : <<j, i>> \in Claim[d]
      <4>1. PICK d \in active : <<j, i>> \in Claim[d]  BY <3>1
      <4>2. Conflict(c, d)
        <5> DEFINE q == <<j, i>>
        <5>1. q \in Claim[d] /\ p[1] = q[1]  BY <4>1
        <5> QED  BY <1>4, <5>1 DEF Conflict
      <4>3. c = d
        BY <2>4, <4>2 DEF IInv, SwitchInv, Peaceful
      <4> QED  BY <4>1, <4>3
    <3>2. CASE i = "effort"
      <4>1. p[2] \in method[j]  BY <1>4, <2>4 DEF IInv, KeepInv
      <4>2. p[2] = i  BY <2>3, <3>2, <4>1
      <4> QED  BY <2>1, <4>2
    <3> QED  BY <2>1, <2>3, <3>1, <3>2 DEF IInv, MethodInv
  <2>6. command[j][i] = c
    BY <2>1, <2>3, <2>5 DEF IInv, CommandInv
  <2> QED  BY <2>3, <2>5, <2>6 DEF OfJoint
<1>5. ASSUME MimicsHaveNoEffort PROVE NothingFromTheStopped'
  <2> SUFFICES ASSUME NEW j \in Simulated, NEW v \in {sim'[j].vel, sim'[j].force},
                      v[2] \in Controllers \ active
               PROVE  \E c \in active \ updated : \E i \in Interfaces : <<j, i>> \in Claim[c]
    BY <1>1, <1>2 DEF NothingFromTheStopped, Sources
  <2>1. j \in Joints  BY DEF Simulated
  <2>2. v \notin {NoComponent, Zero, <<"follow", "initial">>}
    BY AuthorAssumption DEF NoComponent, Zero
  <2>3. v \in {Driven(sim[j], j).vel, Driven(sim[j], j).force}
    <3>1. CASE j \in MimicJoints
      BY <1>1, <2>2, <3>1, FollowsLemma DEF IInv, TypeOK
    <3>2. CASE j \notin MimicJoints
      BY <1>1, <2>1, <3>2 DEF Written
    <3> QED  BY <3>1, <3>2
  <2>4. PICK i \in method[j] : i \in Interfaces /\ v = <<i, command[j][i]>>
    BY <2>1, <2>2, <2>3, DrivenLemma
  <2>5. command[j][i] \in Controllers \ active
    BY <2>4
  <2>6. j \notin MimicJoints
    <3>1. j \in MimicJoints => i = "effort" /\ i \in info[j].commands
      BY <2>4 DEF IInv, MimicInv
    <3> QED  BY <1>5, <2>1, <3>1 DEF MimicsHaveNoEffort, MimicJoints, IInv, TypeOK, SystemTypeOK
  <2>7. PICK c \in active : <<j, i>> \in Claim[c]
    BY <2>1, <2>4, <2>5, <2>6, AuthorAssumption DEF IInv, MethodInv
  <2>8. c \notin updated
    BY <2>1, <2>4, <2>5, <2>7 DEF IInv, CommandInv
  <2> QED  BY <2>4, <2>7, <2>8
<1> QED  BY <1>3, <1>4, <1>5 DEF WriteInv, MimicsHaveNoEffort

\* MaxRewind * rewinds, the only product.
LEMMA RewindLemma ==
  ASSUME NEW a \in Nat, NEW b \in Nat, NEW c \in Nat, b <= c
  PROVE  a * b \in Nat /\ a * b <= a * c /\ a * (b + 1) = a * b + a
  OBVIOUS

LEMMA PreUpdateLemma ==
  ASSUME IInv, NEW dt \in {0, 1}, PreUpdate(dt)
  PROVE  IInv'
<1>1. /\ Running /\ phase = "ready" /\ phase' = "written" /\ since' = since + dt
      /\ UNCHANGED <<pluginVars, rewinds, active, updated, request>>
  BY DEF PreUpdate
<1> USE <1>1 DEF pluginVars
<1>2. \/ hardware = "active" /\ hardware' = "active" /\ Write
      \/ hardware' # "active" /\ hardware' \in {hardware, "finalized"} /\ UNCHANGED systemVars
  BY DEF PreUpdate
<1>3. /\ UNCHANGED <<info, method, command, imu>>
      /\ hardware' = "active" => hardware = "active"
      /\ hardware' \in {hardware, "finalized"}
  BY <1>2 DEF Write, systemVars
<1>4. sim' \in [Joints -> Components]
  <2>1. sim \in [Joints -> Components]
    BY DEF IInv, TypeOK, SystemTypeOK, Components
  <2>2. ASSUME Write PROVE sim' \in [Joints -> Components]
    BY <2>1, <2>2, WrittenType DEF IInv, TypeOK, Write
  <2> QED  BY <1>2, <2>1, <2>2 DEF systemVars
<1>5. /\ since' \in -(MaxRewind * MaxRewinds)..Period'
      /\ since' >= -(MaxRewind * rewinds')
  BY PeriodAssumption DEF IInv, TypeOK, ClockInv, Period
<1>6. TypeOK'
  BY <1>3, <1>4, <1>5 DEF IInv, TypeOK, SystemTypeOK, Components
<1>7. SetupInv'  BY DEF IInv, SetupInv, Running, Returned
<1>8. ClockInv'  BY <1>5 DEF ClockInv
<1>9. SwitchInv' /\ MethodInv' /\ KeepInv' /\ MimicInv' /\ CommandInv'
  BY <1>3, FrameLemma DEF IInv
<1>10. SimInv'  BY DEF SimInv
<1>11. WriteInv'
  <2>1. CASE hardware = "active" /\ Write
    BY <2>1, WriteLemma
  <2>2. CASE hardware' # "active"
    BY <2>2 DEF WriteInv, MimicFollows, ServedIsClaimed, NothingFromTheStopped, JustWritten
  <2> QED  BY <1>2, <2>1, <2>2
<1> QED  BY <1>6, <1>7, <1>8, <1>9, <1>10, <1>11 DEF IInv

LEMMA SimulateLemma ==
  ASSUME IInv, Simulate
  PROVE  IInv'
<1>1. /\ phase = "written" /\ phase' = "simulated"
      /\ sim' = [j \in Joints |-> [vel |-> UsedUp(sim[j].vel), force |-> UsedUp(sim[j].force)]]
      /\ UNCHANGED <<info, method, command, imu>>
      /\ UNCHANGED <<pluginVars, hardware, since, rewinds, active, updated, request>>
  BY DEF Simulate, Physics
<1> USE <1>1 DEF pluginVars
<1>2. TypeOK'
  BY DEF IInv, TypeOK, SystemTypeOK, UsedUp, Values, Period
<1>3. SetupInv' /\ ClockInv'  BY DEF IInv, SetupInv, ClockInv, Period
<1>4. SwitchInv' /\ MethodInv' /\ KeepInv' /\ MimicInv' /\ CommandInv'
  BY FrameLemma DEF IInv
<1>5. SimInv'  BY DEF SimInv, UsedUp
<1>6. WriteInv'
  BY DEF WriteInv, MimicFollows, ServedIsClaimed, NothingFromTheStopped, JustWritten
<1> QED  BY <1>2, <1>3, <1>4, <1>5, <1>6 DEF IInv

\* The active controllers write what they have claimed.
LEMMA CommandedLemma ==
  ASSUME IInv, Commanded([c \in active |-> Claim[c]]), NEW j \in Joints, NEW i \in Interfaces
  PROVE  /\ (\E c \in active : <<j, i>> \in Claim[c]) =>
              command'[j][i] \in active /\ <<j, i>> \in Claim[command'[j][i]]
         /\ (\A c \in active : <<j, i>> \notin Claim[c]) => command'[j][i] = command[j][i]
<1>1. command'[j][i] =
        IF \E c \in active : <<j, i>> \in Claim[c]
          THEN CHOOSE c \in active : <<j, i>> \in Claim[c] ELSE command[j][i]
  BY DEF Commanded
<1> QED  BY <1>1

LEMMA CycleLemma ==
  ASSUME IInv, Cycle
  PROVE  /\ SystemTypeOK' /\ active' \subseteq Controllers /\ updated' \subseteq active'
         /\ hardware' = hardware =>
              SwitchInv' /\ MethodInv' /\ KeepInv' /\ MimicInv' /\ CommandInv'
<1>1. /\ Commanded([c \in active |-> Claim[c]])
      /\ active' = (active \ request.stop) \cup request.start
      /\ updated' = active \ request.stop
      /\ request' = NoRequest
      /\ UNCHANGED <<info, sim>>
  BY DEF Cycle
<1>2. /\ request.start \in SUBSET Controllers /\ request.stop \in SUBSET Controllers
      /\ active \subseteq Controllers
  BY DEF IInv, TypeOK
<1>3. /\ Simulated' = Simulated /\ MimicJoints' = MimicJoints
      /\ Exported' = Exported /\ Switchable' = Switchable
  BY <1>1, InfoLemma
<1> DEFINE stop(j) == OfJoint(Claims(request.stop) \cap Switchable, j)
           start(j) == OfJoint(Claims(request.start) \cap Switchable, j)
<1>4. /\ hardware = "active" =>
           method' = [j \in Joints |-> Cleared(method[j], stop(j)) \cup start(j)]
      /\ hardware # "active" => method' = method
      /\ imu' \in {imu, "subscribed"}
  BY DEF Cycle, Read, PerformCommandModeSwitch
<1>5. SystemTypeOK'
  <2>1. command' \in [Joints -> [Interfaces -> Authors]]
    <3>1. ASSUME NEW j \in Joints, NEW i \in Interfaces PROVE command'[j][i] \in Authors
      <4>1. command[j][i] \in Authors  BY DEF IInv, TypeOK, SystemTypeOK
      <4>2. command'[j][i] \in active \/ command'[j][i] = command[j][i]
        BY <1>1, CommandedLemma
      <4> QED  BY <1>2, <4>1, <4>2 DEF Authors
    <3> QED  BY <1>1, <3>1 DEF Commanded
  <2>2. method' \in [Joints -> SUBSET Interfaces]
    <3>1. \A j \in Joints : Cleared(method[j], stop(j)) \cup start(j) \subseteq Interfaces
      BY DEF IInv, TypeOK, SystemTypeOK, Cleared, OfJoint
    <3>2. method \in [Joints -> SUBSET Interfaces]
      BY DEF IInv, TypeOK, SystemTypeOK
    <3> HIDE DEF stop, start
    <3> QED  BY <1>4, <3>1, <3>2
  <2> QED  BY <1>1, <1>4, <2>1, <2>2 DEF IInv, TypeOK, SystemTypeOK
<1>6. active' \subseteq Controllers /\ updated' \subseteq active'
  BY <1>1, <1>2
<1>7. SwitchInv'
  <2>1. Claims(active') \subseteq Exported
    BY <1>1 DEF IInv, SwitchInv, Claims
  <2>2. Peaceful(active')
    BY <1>1 DEF IInv, SwitchInv
  <2> QED  BY <1>1, <1>3, <2>1, <2>2 DEF SwitchInv, NoRequest, Claims, Peaceful, Conflict
<1>8. CommandInv'
  <2> SUFFICES ASSUME NEW c \in updated', NEW p \in Joints \X Interfaces, p \in Claim[c]
               PROVE  command'[p[1]][p[2]] = c
    BY DEF CommandInv
  <2> DEFINE d == command'[p[1]][p[2]]
  <2>1. p[1] \in Joints /\ p[2] \in Interfaces /\ p = <<p[1], p[2]>> /\ c \in active
    BY <1>1
  <2>2. d \in active /\ p \in Claim[d]
    BY <1>1, <2>1, CommandedLemma
  <2>3. Conflict(c, d)  BY <2>2 DEF Conflict
  <2> QED  BY <2>1, <2>2, <2>3 DEF IInv, SwitchInv, Peaceful
\* A bit that is kept has no claimant among the stopped, mimic joints apart.
<1>9. ASSUME NEW j \in Joints \ MimicJoints, NEW i \in Interfaces, NEW c \in request.stop,
             <<j, i>> \in Claim[c]
      PROVE  stop(j) # {}
  <2>1. <<j, i>> \in Exported
    BY <1>9 DEF IInv, SwitchInv, Claims
  <2>2. <<j, i>> \in Switchable
    BY <1>9, <2>1 DEF Switchable
  <2> QED  BY <1>9, <2>2 DEF OfJoint, Claims
<1>10. ASSUME hardware = "active", hardware' = hardware PROVE MethodInv'
  <2> SUFFICES ASSUME NEW j \in Joints, NEW i \in Interfaces, i \in method'[j],
                      \A c \in active' : <<j, i>> \notin Claim[c]
               PROVE  i = "effort" /\ (j \notin MimicJoints => command'[j][i] = "initial")
    BY <1>3 DEF MethodInv
  <2>1. i \notin start(j)
    BY <1>1 DEF OfJoint, Claims
  <2>2. i \in method[j] /\ stop(j) = {}
    BY <1>4, <1>10, <2>1 DEF Cleared
  <2>3. CASE j \in MimicJoints
    BY <1>10, <2>2, <2>3 DEF IInv, MimicInv
  <2>4. CASE j \notin MimicJoints
    <3>1. \A c \in active : <<j, i>> \notin Claim[c]
      BY <1>1, <1>9, <2>2, <2>4
    <3>2. i = "effort" /\ command[j][i] = "initial"
      BY <1>10, <2>2, <2>4, <3>1 DEF IInv, MethodInv
    <3> QED  BY <1>1, <3>1, <3>2, CommandedLemma
  <2> QED  BY <2>3, <2>4
<1>11. ASSUME hardware = "active", hardware' = hardware PROVE KeepInv'
  <2> SUFFICES ASSUME ~MayShareJoints, NEW c \in active', NEW p \in Switchable, p \in Claim[c]
               PROVE  p[2] \in method'[p[1]]
    BY <1>3 DEF KeepInv
  <2>1. p[1] \in Joints /\ p[2] \in Interfaces /\ p = <<p[1], p[2]>>
    BY SwitchableLemma
  <2>2. CASE c \in request.start
    <3>1. p[2] \in start(p[1])
      BY <2>1, <2>2 DEF OfJoint, Claims
    <3> QED  BY <1>4, <1>11, <2>1, <3>1
  <2>3. CASE c \in active \ request.stop
    <3>1. p[2] \in method[p[1]]
      BY <1>11, <2>3 DEF IInv, KeepInv
    <3>2. stop(p[1]) = {}
      <4>1. ASSUME NEW d \in request.stop, NEW i \in Interfaces, <<p[1], i>> \in Claim[d]
            PROVE  FALSE
        <5> DEFINE q == <<p[1], i>>
        <5>1. q \in Claim[d] /\ p[1] = q[1]  BY <4>1
        <5>2. Conflict(c, d)  BY <5>1 DEF Conflict
        <5>3. d \in active /\ d # c  BY <2>3 DEF IInv, SwitchInv
        <5> QED  BY <2>3, <5>2, <5>3 DEF IInv, SwitchInv, Peaceful
      <4> QED  BY <4>1 DEF OfJoint, Claims
    <3> QED  BY <1>4, <1>11, <2>1, <3>1, <3>2 DEF Cleared
  <2> QED  BY <1>1, <2>2, <2>3
<1>12. ASSUME hardware = "active", hardware' = hardware PROVE MimicInv'
  <2> SUFFICES ASSUME NEW j \in MimicJoints
               PROVE  method'[j] \subseteq {"effort"} \cap info[j].commands
    BY <1>1, <1>3 DEF MimicInv
  <2>1. j \in Joints  BY DEF MimicJoints, Simulated
  <2>2. stop(j) = {} /\ start(j) = {}
    BY DEF OfJoint, Switchable
  <2> QED  BY <1>4, <1>12, <2>1, <2>2 DEF IInv, MimicInv, Cleared
<1>13. hardware' = hardware => MethodInv' /\ KeepInv' /\ MimicInv'
  BY <1>10, <1>11, <1>12 DEF MethodInv, KeepInv, MimicInv
<1> QED  BY <1>5, <1>6, <1>7, <1>8, <1>13

LEMMA PostUpdateLemma ==
  ASSUME IInv, PostUpdate
  PROVE  IInv'
<1>1. /\ phase = "simulated" /\ phase' = "ready"
      /\ UNCHANGED <<pluginVars, hardware, rewinds>>
  BY DEF PostUpdate
<1> USE <1>1 DEF pluginVars
<1>2. SetupInv'  BY DEF IInv, SetupInv
<1>3. WriteInv'
  BY DEF WriteInv, MimicFollows, ServedIsClaimed, NothingFromTheStopped, JustWritten
<1>4. CASE since >= Period
  <2>1. since' = 0 /\ Cycle  BY <1>4 DEF PostUpdate
  <2>2. /\ SystemTypeOK' /\ active' \subseteq Controllers /\ updated' \subseteq active'
        /\ SwitchInv' /\ MethodInv' /\ KeepInv' /\ MimicInv' /\ CommandInv'
    BY <2>1, CycleLemma
  <2>3. /\ since' \in -(MaxRewind * MaxRewinds)..Period'
        /\ since' >= -(MaxRewind * rewinds') /\ since' < Period'
    <3>1. MaxRewind * MaxRewinds \in Nat /\ MaxRewind * rewinds \in Nat
      BY PeriodAssumption DEF IInv, TypeOK
    <3>2. Period' \in Nat /\ Period' > 0
      BY PeriodAssumption DEF Period
    <3> QED  BY <2>1, <3>1, <3>2
  <2>4. request' = NoRequest  BY <2>1 DEF Cycle
  <2>5. TypeOK'
    BY <2>2, <2>3, <2>4 DEF IInv, TypeOK, NoRequest
  <2>6. SimInv'  BY <2>1 DEF IInv, SimInv, Cycle
  <2> QED  BY <1>2, <1>3, <2>2, <2>3, <2>5, <2>6 DEF IInv, ClockInv
<1>5. CASE ~(since >= Period)
  <2>1. UNCHANGED <<systemVars, since, active, updated, request>>
    BY <1>5 DEF PostUpdate
  <2> USE <2>1 DEF systemVars
  <2>2. TypeOK'  BY DEF IInv, TypeOK, SystemTypeOK, Period
  <2>3. ClockInv'
    BY <1>5, PeriodAssumption DEF IInv, TypeOK, ClockInv, Period
  <2>4. SwitchInv' /\ MethodInv' /\ KeepInv' /\ MimicInv' /\ CommandInv'
    BY FrameLemma DEF IInv
  <2>5. SimInv'  BY DEF IInv, SimInv
  <2> QED  BY <1>2, <1>3, <2>2, <2>3, <2>4, <2>5 DEF IInv
<1> QED  BY <1>4, <1>5

-------------------------------------------------------------------------------
(* What happens around the plugin *)

LEMMA RequestLemma ==
  ASSUME IInv, RequestSwitch
  PROVE  IInv'
<1>1. PICK start \in SUBSET (Controllers \ active), stop \in SUBSET active :
        /\ Running /\ Claims(start) \subseteq Exported
        /\ \A c \in (active \ stop) \cup start, d \in (active \ stop) \cup start :
             c # d => ~Conflict(c, d)
        /\ request' = [start |-> start, stop |-> stop]
        /\ UNCHANGED <<systemVars, pluginVars, hardware, phase, since, rewinds, active, updated>>
  BY DEF RequestSwitch
<1> USE <1>1 DEF systemVars, pluginVars
<1>2. TypeOK'  BY DEF IInv, TypeOK, SystemTypeOK, Period
<1>3. SetupInv' /\ ClockInv'
  BY DEF IInv, SetupInv, ClockInv, Period, Running
<1>4. SwitchInv'
  <2>1. Exported' = Exported  BY InfoLemma
  <2>2. Peaceful((active \ stop) \cup start)  BY DEF Peaceful
  <2> QED  BY <2>1, <2>2 DEF IInv, SwitchInv, Claims, Peaceful, Conflict
<1>5. MethodInv' /\ KeepInv' /\ MimicInv' /\ CommandInv'
  BY FrameLemma DEF IInv
<1>6. SimInv'  BY DEF IInv, SimInv
<1>7. WriteInv'
  BY WriteFrameLemma DEF IInv, JustWritten, Running
<1> QED  BY <1>2, <1>3, <1>4, <1>5, <1>6, <1>7 DEF IInv

LEMMA RewindStepLemma ==
  ASSUME IInv, Rewind
  PROVE  IInv'
<1>1. /\ Running /\ phase = "ready" /\ rewinds < MaxRewinds /\ rewinds' = rewinds + 1
      /\ UNCHANGED <<systemVars, pluginVars, hardware, phase, active, updated, request>>
  BY DEF Rewind
<1>2. PICK by \in 1..MaxRewind : since' = since - by
  BY DEF Rewind
<1> USE <1>1 DEF systemVars, pluginVars
<1>3. rewinds \in Nat /\ rewinds + 1 \in 0..MaxRewinds
  BY PeriodAssumption DEF IInv, TypeOK
<1>4. /\ MaxRewind * (rewinds + 1) = MaxRewind * rewinds + MaxRewind
      /\ MaxRewind * (rewinds + 1) <= MaxRewind * MaxRewinds
      /\ MaxRewind * (rewinds + 1) \in Nat /\ MaxRewind * MaxRewinds \in Nat
      /\ MaxRewind * rewinds \in Nat
  BY <1>3, RewindLemma, PeriodAssumption
<1>5. /\ since' >= -(MaxRewind * rewinds')
      /\ since' < Period' /\ since' \in -(MaxRewind * MaxRewinds)..Period'
  <2>1. since \in Int /\ Period' = Period /\ Period \in Nat
    BY PeriodAssumption DEF IInv, TypeOK, Period
  <2>2. since >= -(MaxRewind * rewinds) /\ since < Period
    BY DEF IInv, ClockInv
  <2> QED  BY <1>2, <1>4, <2>1, <2>2, PeriodAssumption
<1>6. TypeOK'  BY <1>3, <1>5 DEF IInv, TypeOK, SystemTypeOK
<1>7. SetupInv' /\ ClockInv'
  BY <1>5 DEF IInv, SetupInv, ClockInv, Running
<1>8. SwitchInv' /\ MethodInv' /\ KeepInv' /\ MimicInv' /\ CommandInv'
  BY FrameLemma DEF IInv
<1>9. SimInv'  BY DEF IInv, SimInv
<1>10. WriteInv'
  BY DEF WriteInv, MimicFollows, ServedIsClaimed, NothingFromTheStopped, JustWritten
<1> QED  BY <1>6, <1>7, <1>8, <1>9, <1>10 DEF IInv

LEMMA TopicLemma ==
  ASSUME IInv, TopicNamed
  PROVE  IInv'
<1>1. /\ imu' = "named" /\ UNCHANGED <<info, method, command, sim>>
      /\ UNCHANGED <<pluginVars, cycleVars>>
  BY DEF TopicNamed, NameTopic
<1> USE <1>1 DEF pluginVars, cycleVars
<1>2. TypeOK'  BY DEF IInv, TypeOK, SystemTypeOK, Period
<1>3. SetupInv' /\ ClockInv'  BY DEF IInv, SetupInv, ClockInv, Period
<1>4. SwitchInv' /\ MethodInv' /\ KeepInv' /\ MimicInv' /\ CommandInv'
  BY FrameLemma DEF IInv
<1>5. SimInv'  BY DEF IInv, SimInv
<1>6. WriteInv'  BY WriteFrameLemma DEF IInv, JustWritten, Running
<1> QED  BY <1>2, <1>3, <1>4, <1>5, <1>6 DEF IInv

\* The steps of Configure that set up neither hardware nor manager, and the end.
LEMMA ConfigureLemma ==
  ASSUME IInv,
         \/ ConfigureInvalid \/ Configure \/ GetURDF \/ GetURDFInterrupted \/ ParseURDF
         \/ LoadHardwareFails \/ LoadHardwareSkips \/ Shutdown \/ Destroy \/ Stop
  PROVE  IInv'
<1>1. /\ stage \in ConfigureStages \cup Returned \cup {"destroyed", "crashed"}
      /\ thread \in {"none", "joinable", "joined"} /\ rosOk \in BOOLEAN /\ gravityOk \in BOOLEAN
      /\ stage \in ConfigureStages => ~manager
  BY DEF IInv, TypeOK, SetupInv, ConfigureStages
<1> USE <1>1, PluginLemma DEF ConfigureStages, Returned
<1>2. CASE ConfigureInvalid \/ Configure
  BY <1>2 DEF ConfigureInvalid, Configure
<1>3. CASE GetURDF \/ GetURDFInterrupted
  BY <1>3 DEF GetURDF, GetURDFInterrupted
<1>4. CASE ParseURDF
  BY <1>4 DEF ParseURDF
<1>5. CASE LoadHardwareFails \/ LoadHardwareSkips
  BY <1>5 DEF LoadHardwareFails, LoadHardwareSkips
<1>6. CASE Shutdown \/ Destroy
  BY <1>6 DEF Shutdown, Destroy
<1>7. CASE Stop
  BY <1>7 DEF Stop, vars, pluginVars
<1> QED  BY <1>2, <1>3, <1>4, <1>5, <1>6, <1>7

LEMMA StepLemma == IInv /\ [Next]_vars => IInv'
<1> SUFFICES ASSUME IInv, [Next]_vars PROVE IInv'  OBVIOUS
<1>1. CASE UNCHANGED vars
  BY <1>1, PluginLemma
     DEF vars, pluginVars, IInv, TypeOK, SetupInv, ConfigureStages
<1>2. CASE Next
  BY <1>2, ConfigureLemma, LoadLemma, ManagerLemma, PreUpdateLemma, SimulateLemma,
     PostUpdateLemma, RequestLemma, RewindStepLemma, TopicLemma
  DEF Next
<1> QED  BY <1>1, <1>2

THEOREM Invariant == Spec => []IInv
<1> QED  BY InitLemma, StepLemma, PTL DEF Spec

-------------------------------------------------------------------------------
(* Safety *)

\* The variables stay in their types; in particular the time since the last
\* update never passes the control period (PreUpdate, PostUpdate).
THEOREM TypeCorrect == Spec => []TypeOK
<1>1. IInv => TypeOK  BY DEF IInv
<1> QED  BY <1>1, Invariant, PTL

\* Unless controllers may share a joint, the interface of an active controller
\* keeps its bit until that controller is stopped, although stopping any
\* interface of a joint clears all its bits (perform_command_mode_switch).
THEOREM ClaimKeepsItsBit ==
  ASSUME ~MayShareJoints
  PROVE  Spec => []ClaimKeepsMethod
<1>1. IInv => ClaimKeepsMethod
  BY DEF IInv, KeepInv, ClaimKeepsMethod, Claims
<1> QED  BY <1>1, Invariant, PTL

\* Unless controllers may share a joint, what drives a joint that an updated
\* controller has claimed is a command of that controller (write).
THEOREM ClaimIsServed ==
  ASSUME ~MayShareJoints
  PROVE  Spec => []ServedIsClaimed
<1>1. IInv => ServedIsClaimed  BY DEF IInv, WriteInv
<1> QED  BY <1>1, Invariant, PTL

\* Where no mimic joint has an effort interface, the command of a stopped
\* controller moves a joint only until its successor is updated, whatever
\* controllers share (perform_command_mode_switch, write).
THEOREM StoppedIsGone ==
  ASSUME MimicsHaveNoEffort
  PROVE  Spec => []NothingFromTheStopped
<1>1. IInv => NothingFromTheStopped  BY DEF IInv, WriteInv
<1> QED  BY <1>1, Invariant, PTL

\* After every write a joint that mimics the position of another one follows it.
THEOREM MimicsFollow == Spec => []MimicFollows
<1>1. IInv => MimicFollows  BY DEF IInv, WriteInv
<1> QED  BY <1>1, Invariant, PTL
===============================================================================
