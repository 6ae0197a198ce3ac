--------------------------- MODULE GraspClientProofs ---------------------------
(***************************************************************************)
(* Proofs about GraspClient for every command line, every workspace and    *)
(* every answer of the policy server.                                      *)
(***************************************************************************)
EXTENDS GraspClient, TLAPS

Phases == {"none", "closing", "lifting", "confirmed"}

GraspType(phases) ==
  [phase : phases, attempts : 0..args.max_attempts,
   origin : Positions \union {0}, low : Heights \union {0},
   age : 0..(args.width_timeout + 1), stable : -1..args.stable_time,
   lifted : 0..(args.lift_timeout + 1)]

\* One grasp, with closed fingers until it is released, and a release that is
\* waited for at once.
PhaseInv ==
  /\ grasp.phase = "none" <=> grasp.attempts = 0
  /\ grasp.attempts <= 1
  /\ grasp.phase \in Validating => last = Closed
  /\ last = Open => grasp.phase = "none" \/ chunk.release
  /\ chunk.release =>
       /\ pc \in {"holding", "releasing", "done"}
       /\ last = Open /\ grasp.phase = "confirmed" /\ anchor = NoAnchor
  /\ pc = "releasing" => chunk.release
  /\ outcome = "running" <=> pc # "done"

\* A chunk in hand while a grasp is validated keeps the fingers closed.
LatchInv ==
  /\ chunk.latch => last = Closed
  /\ pc \in {"request", "action", "holding"} /\ args.latch /\ grasp.phase \in Validating =>
       chunk.latch
  /\ pc \in {"request", "action"} => steps < args.max_steps
  /\ pc = "action" => chunk.left > 0

\* The debounced state is the fingers' command, except before the first action
\* of a chunk that has just changed it; then the votes are there.
FilterInv ==
  /\ args.confirmations = 1 => filter.state = last /\ filter.pending = NoConsensus
  /\ pc \in {"loop", "request", "holding", "releasing"} => filter.state = last
  /\ pc = "action" /\ chunk.first = Past => filter.state = last
  /\ pc = "action" /\ chunk.latch => filter.state = Closed
  /\ pc = "action" /\ last = Open /\ filter.state = Closed => votes.close >= args.confirmations
  /\ pc \in {"action", "holding"} /\ args.confirmations = 1 => votes.close >= 1
  /\ filter.pending = Closed => filter.count <= votes.close

\* With the latch, votes to open count for a confirmed grasp only.
ReleaseInv ==
  args.latch =>
    /\ filter.pending = Open /\ grasp.phase # "none" =>
         grasp.phase = "confirmed" /\ filter.count <= votes.open
    /\ pc = "action" /\ last = Closed /\ filter.state = Open /\ grasp.phase # "none" =>
         votes.open >= args.confirmations
    /\ pc \in {"action", "holding"} /\ args.confirmations = 1 /\ ~chunk.latch
         /\ grasp.phase = "confirmed" => votes.open >= 1

\* Why there is a hold, wherever the loop stands, and where it holds the arm.
HoldInv ==
  anchor # NoAnchor /\ pc # "done" =>
    /\ args.close_hold
    /\ held.z \in {anchor, Clip(anchor)}
    /\ last = Closed => grasp.phase = "closing"
    /\ last = Open =>
         \/ filter.pending = Closed
         \/ /\ pc = "action" /\ chunk.first # Past
            /\ IF args.confirmations > 1 THEN filter.state = Closed ELSE chunk.first = Closed

\* The fingers started to close in the workspace.
OriginInv == grasp.phase = "closing" => grasp.origin \in args.min_z..args.max_z

IInv ==
  /\ TypeOK
  /\ PhaseInv
  /\ LatchInv
  /\ FilterInv
  /\ ReleaseInv
  /\ HoldInv
  /\ OriginInv
  /\ ClosingBounded

\* What a look at a measurement makes of the grasp.
Looked(g) ==
  /\ g \in GraspType(Phases \union {"failed"})
  /\ g.attempts = grasp.attempts /\ g.origin = grasp.origin
  /\ last = Open => g.phase = grasp.phase
  /\ g.phase = "none" <=> grasp.phase = "none"
  /\ g.phase = "closing" => grasp.phase = "closing"
  /\ g.phase = "lifting" => grasp.phase \in Validating

-------------------------------------------------------------------------------
LEMMA ArgsLemma ==
  ASSUME args \in CommandLines
  PROVE  /\ args.confirmations \in Nat \ {0} /\ args.horizon \in Nat \ {0}
         /\ args.max_steps \in Nat /\ args.max_attempts \in Nat \ {0}
         /\ args.initial \in Grippers /\ args.latch \in BOOLEAN
         /\ args.min_z \in Int /\ args.max_z \in Int /\ args.min_z < args.max_z
         /\ args.width_timeout \in Nat /\ args.stable_time \in Nat \ {0}
         /\ args.lift_timeout \in Nat \ {0} /\ args.min_lift \in Nat \ {0}
         /\ args.check_delay \in Nat \ {0}
         /\ args.max_descent \in Nat \ {0} /\ args.max_lift \in Nat \ {0}
         /\ args.release_stable \in Nat \ {0} /\ args.release_timeout \in Nat
         /\ args.delays \subseteq Nat
         /\ Heights \subseteq Int /\ NoAnchor \notin Heights /\ Moves \subseteq Int
  BY ArgsAssumption

LEMMA AgedLemma ==
  ASSUME TypeOK, NEW dt \in args.delays
  PROVE  /\ Aged(grasp, dt) \in GraspType(Phases)
         /\ Aged(grasp, dt).phase = grasp.phase
         /\ Aged(grasp, dt).attempts = grasp.attempts
         /\ Aged(grasp, dt).origin = grasp.origin
<1>1. grasp \in GraspType(Phases)  BY DEF TypeOK, GraspType, Phases
<1>2. \A n \in Int, b \in Nat : n >= 0 => Capped(n + dt, b) \in 0..b
  BY ArgsLemma DEF TypeOK, Capped
<1> DEFINE age == IF grasp.phase = "closing" THEN Capped(grasp.age + dt, args.width_timeout + 1)
                  ELSE grasp.age
           stable == IF grasp.phase = "closing" /\ grasp.stable # Never
                     THEN Capped(grasp.stable + dt, args.stable_time) ELSE grasp.stable
           lifted == IF grasp.phase = "lifting" THEN Capped(grasp.lifted + dt, args.lift_timeout + 1)
                     ELSE grasp.lifted
<1>3. Aged(grasp, dt) = [grasp EXCEPT !.age = age, !.stable = stable, !.lifted = lifted]
  BY DEF Aged
<1>4. /\ age \in 0..(args.width_timeout + 1)
      /\ stable \in -1..args.stable_time
      /\ lifted \in 0..(args.lift_timeout + 1)
  <2>1. /\ grasp.age \in 0..(args.width_timeout + 1)
        /\ grasp.stable \in -1..args.stable_time
        /\ grasp.lifted \in 0..(args.lift_timeout + 1)
    BY <1>1 DEF GraspType
  <2>2. args.width_timeout \in Nat /\ args.stable_time \in Nat /\ args.lift_timeout \in Nat
    BY ArgsLemma DEF TypeOK
  <2>3. grasp.age \in Int /\ grasp.age >= 0 /\ args.width_timeout + 1 \in Nat
    BY <2>1, <2>2
  <2>4. age \in 0..(args.width_timeout + 1)  BY <1>2, <2>1, <2>3
  <2>5. grasp.stable # Never => Capped(grasp.stable + dt, args.stable_time) \in 0..args.stable_time
    <3>1. grasp.stable # Never => grasp.stable \in Int /\ grasp.stable >= 0
      BY <2>1, <2>2 DEF Never
    <3> QED  BY <1>2, <2>2, <3>1
  <2>6. stable \in -1..args.stable_time  BY <2>1, <2>2, <2>5
  <2>7. grasp.lifted \in Int /\ grasp.lifted >= 0 /\ args.lift_timeout + 1 \in Nat
    BY <2>1, <2>2
  <2>8. lifted \in 0..(args.lift_timeout + 1)  BY <1>2, <2>1, <2>7
  <2> QED  BY <2>4, <2>6, <2>8
<1> HIDE DEF age, stable, lifted
<1>5. Aged(grasp, dt) \in GraspType(Phases)  BY <1>1, <1>3, <1>4 DEF GraspType
<1>6. /\ Aged(grasp, dt).phase = grasp.phase
      /\ Aged(grasp, dt).attempts = grasp.attempts
      /\ Aged(grasp, dt).origin = grasp.origin
  BY <1>1, <1>3 DEF GraspType
<1> QED  BY <1>5, <1>6

LEMMA LiftLemma ==
  ASSUME TypeOK, NEW g \in GraspType(Phases), NEW m
  PROVE  /\ CheckedLift(g, m) \in GraspType(Phases \union {"failed"})
         /\ CheckedLift(g, m).phase \in {g.phase, "confirmed", "failed"}
         /\ CheckedLift(g, m).attempts = g.attempts
         /\ CheckedLift(g, m).origin = g.origin
  BY DEF CheckedLift, Failed, GraspType, Phases

LEMMA WidthLemma ==
  ASSUME TypeOK, NEW g \in GraspType(Phases), g.phase = "closing", NEW m \in Measurements
  PROVE  /\ CheckedWidth(g, m) \in GraspType(Phases \union {"failed"})
         /\ CheckedWidth(g, m).phase # "none"
         /\ CheckedWidth(g, m).attempts = g.attempts
         /\ CheckedWidth(g, m).origin = g.origin
<1> DEFINE h == [g EXCEPT !.low = IF m.z < @ THEN m.z ELSE @]
           l == [h EXCEPT !.phase = "lifting"]
<1>1. h \in GraspType(Phases) /\ h.phase = "closing" /\ h.attempts = g.attempts /\ h.origin = g.origin
  BY DEF GraspType, Measurements
<1>2. l \in GraspType(Phases) /\ l.phase = "lifting" /\ l.attempts = g.attempts /\ l.origin = g.origin
  BY <1>1 DEF GraspType, Phases
<1>3. /\ CheckedLift(l, m) \in GraspType(Phases \union {"failed"})
      /\ CheckedLift(l, m).phase # "none"
      /\ CheckedLift(l, m).attempts = g.attempts
      /\ CheckedLift(l, m).origin = g.origin
  BY <1>2, LiftLemma
<1>4. Never \in -1..args.stable_time /\ 0 \in -1..args.stable_time
  BY ArgsLemma DEF TypeOK, Never
<1>5. \A v \in -1..args.stable_time :
        /\ [h EXCEPT !.stable = v] \in GraspType(Phases)
        /\ [h EXCEPT !.stable = v].phase = "closing"
        /\ [h EXCEPT !.stable = v].attempts = g.attempts
        /\ [h EXCEPT !.stable = v].origin = g.origin
  BY <1>1 DEF GraspType
<1>6. /\ Failed(h) \in GraspType(Phases \union {"failed"}) /\ Failed(h).phase = "failed"
      /\ Failed(h).attempts = g.attempts /\ Failed(h).origin = g.origin
  BY <1>1 DEF GraspType, Failed
<1>7. \A x \in GraspType(Phases) : x \in GraspType(Phases \union {"failed"})
  BY DEF GraspType
<1>8. CheckedWidth(g, m) \in {h, [h EXCEPT !.stable = Never], [h EXCEPT !.stable = 0],
                               Failed(h), CheckedLift(l, m)}
  BY DEF CheckedWidth
<1> HIDE DEF h, l
<1> QED  BY <1>1, <1>3, <1>4, <1>5, <1>6, <1>7, <1>8

LEMMA LookLemma ==
  ASSUME TypeOK, NEW m \in Measurements, NEW dt \in args.delays
  PROVE  Looked(Checked(Aged(grasp, dt), m))
<1> DEFINE a == Aged(grasp, dt)
<1>1. /\ a \in GraspType(Phases) /\ a.phase = grasp.phase
      /\ a.attempts = grasp.attempts /\ a.origin = grasp.origin
  BY AgedLemma
<1> SUFFICES Looked(Checked(a, m))  OBVIOUS
<1> HIDE DEF a
<1>2. a \in GraspType(Phases \union {"failed"})  BY <1>1 DEF GraspType
<1>3. CASE last = Open \/ a.phase = "none"
  <2>1. Checked(a, m) = a  BY <1>3 DEF Checked
  <2> QED  BY <1>1, <1>2, <2>1 DEF Looked, Validating
<1>4. CASE ~(last = Open \/ a.phase = "none") /\ ~m.fresh
  <2>1. Checked(a, m) = Failed(a)  BY <1>4 DEF Checked
  <2>2. Failed(a) \in GraspType(Phases \union {"failed"}) /\ Failed(a).phase = "failed"
        /\ Failed(a).attempts = a.attempts /\ Failed(a).origin = a.origin
    BY <1>1 DEF Failed, GraspType
  <2> QED  BY <1>1, <1>4, <2>1, <2>2 DEF Looked
<1>5. CASE ~(last = Open \/ a.phase = "none") /\ m.fresh /\ a.phase = "closing"
  <2>1. Checked(a, m) = CheckedWidth(a, m)  BY <1>5 DEF Checked
  <2> QED  BY <1>1, <1>5, <2>1, WidthLemma DEF Looked, Validating
<1>6. CASE ~(last = Open \/ a.phase = "none") /\ m.fresh /\ a.phase # "closing"
  <2>1. Checked(a, m) = CheckedLift(a, m)  BY <1>6 DEF Checked
  <2> QED  BY <1>1, <1>6, <2>1, LiftLemma DEF Looked, Validating, GraspType, Phases
<1> QED  BY <1>3, <1>4, <1>5, <1>6

-------------------------------------------------------------------------------
(* One lemma per action *)

LEMMA InitLemma == Init => IInv
<1> SUFFICES ASSUME Init PROVE IInv  OBVIOUS
<1> USE ArgsLemma DEF Init
<1>1. TypeOK
  BY DEF TypeOK, Positions, Grippers, Never, NoConsensus
<1>2. PhaseInv /\ LatchInv
  BY DEF PhaseInv, LatchInv, Validating
<1>3. FilterInv /\ ReleaseInv
  BY DEF FilterInv, ReleaseInv, NoConsensus, Open, Closed
<1>4. HoldInv /\ OriginInv /\ ClosingBounded
  BY DEF HoldInv, OriginInv, ClosingBounded
<1> QED  BY <1>1, <1>2, <1>3, <1>4 DEF IInv

LEMMA EndLemma ==
  ASSUME IInv, pc # "done", args' = args,
         NEW result \in {"aborted", "finished", "completed"}, End(result)
  PROVE  IInv'
<1> USE DEF IInv, End
<1>1. TypeOK'
  BY DEF TypeOK, Positions
<1>2. PhaseInv' /\ LatchInv'
  BY DEF PhaseInv, LatchInv
<1>3. FilterInv' /\ ReleaseInv'
  BY DEF FilterInv, ReleaseInv
<1>4. HoldInv' /\ OriginInv' /\ ClosingBounded'
  BY DEF HoldInv, OriginInv, ClosingBounded
<1> QED  BY <1>1, <1>2, <1>3, <1>4

LEMMA FinishLemma ==
  ASSUME IInv, args' = args, Finish
  PROVE  IInv'
  BY EndLemma DEF Finish

\* What the look does to the hold and to the command.
LEMMA LeavesLemma ==
  ASSUME IInv, NEW m \in Measurements, NEW g, Looked(g), g.phase # "failed", pc # "done"
  PROVE  /\ g \in GraspType(Phases)
         /\ Anchor(g) \in {anchor, NoAnchor} /\ Anchor(g) \in Heights \union {NoAnchor}
         /\ Anchor(g) # NoAnchor /\ last = Closed => g.phase = "closing"
         /\ Anchor(g) # NoAnchor => Held(g, m) = held
         /\ Held(g, m) \in [z : Positions, gripper : Grippers] \union {NoCommand}
         /\ Target(g, m) \in Positions
         /\ g.phase = "closing" => Target(g, m) = target /\ Anchor(g) = anchor
<1>1. g \in GraspType(Phases) /\ g.phase \in Phases
  BY DEF Looked, GraspType
<1>2. Anchor(g) \in {anchor, NoAnchor} /\ Anchor(g) \in Heights \union {NoAnchor}
  BY DEF IInv, TypeOK, Anchor
<1>3. ASSUME Anchor(g) # NoAnchor, last = Closed PROVE g.phase = "closing"
  BY <1>1, <1>3 DEF IInv, HoldInv, Looked, Anchor, LeavesHold, Phases
<1>4. Anchor(g) # NoAnchor => Held(g, m) = held
  BY DEF Anchor, Held
<1>5. Held(g, m) \in [z : Positions, gripper : Grippers] \union {NoCommand}
  BY DEF IInv, TypeOK, Held, Measurements, Positions
<1>6. Target(g, m) \in Positions
  BY DEF IInv, TypeOK, Target, Measurements, Positions
<1>7. g.phase = "closing" => Target(g, m) = target /\ Anchor(g) = anchor
  BY DEF Target, Anchor, LeavesHold
<1> QED  BY <1>1, <1>2, <1>3, <1>4, <1>5, <1>6, <1>7

LEMMA RequestLemma ==
  ASSUME IInv, args' = args, NEW m \in Measurements, NEW dt \in args.delays, Request(m, dt)
  PROVE  IInv'
<1> DEFINE g == Checked(Aged(grasp, dt), m)
<1>1. Looked(g)  BY LookLemma DEF IInv
<1>2. CASE g.phase = "failed" \/ ~m.fresh
  BY <1>2, EndLemma DEF Request
<1>3. CASE ~(g.phase = "failed" \/ ~m.fresh)
  <2>1. /\ pc = "loop" /\ pc' = "request" /\ steps < args.max_steps
        /\ grasp' = g /\ anchor' = Anchor(g) /\ target' = Target(g, m) /\ held' = Held(g, m)
        /\ chunk' = [left |-> 0, first |-> Past, release |-> FALSE,
                     latch |-> args.latch /\ g.phase \in Validating]
        /\ UNCHANGED <<steps, filter, last, opening, votes, outcome>>
    BY <1>3 DEF Request
  <2> HIDE DEF g
  <2>2. /\ g \in GraspType(Phases)
        /\ Anchor(g) \in {anchor, NoAnchor} /\ Anchor(g) \in Heights \union {NoAnchor}
        /\ Anchor(g) # NoAnchor /\ last = Closed => g.phase = "closing"
        /\ Anchor(g) # NoAnchor => Held(g, m) = held
        /\ Held(g, m) \in [z : Positions, gripper : Grippers] \union {NoCommand}
        /\ Target(g, m) \in Positions
        /\ g.phase = "closing" => Target(g, m) = target /\ Anchor(g) = anchor
    BY <1>1, <1>3, <2>1, LeavesLemma
  <2>3. TypeOK'
    BY <2>1, <2>2, ArgsLemma DEF IInv, TypeOK, GraspType, Phases, Positions, Grippers
  <2>4. PhaseInv'
    BY <1>1, <2>1, <2>2 DEF IInv, PhaseInv, Looked, Validating
  <2>5. LatchInv'
    BY <1>1, <2>1 DEF IInv, PhaseInv, LatchInv, Looked, Validating
  <2>6. FilterInv'
    BY <2>1 DEF IInv, FilterInv
  <2>7. ReleaseInv'
    BY <1>1, <2>1, <2>2 DEF IInv, ReleaseInv, Looked, GraspType, Phases, Validating
  <2>8. HoldInv'
    BY <2>1, <2>2 DEF IInv, HoldInv, Clip
  <2>9. OriginInv' /\ ClosingBounded'
    BY <1>1, <2>1, <2>2 DEF IInv, OriginInv, ClosingBounded, Looked
  <2> QED  BY <2>3, <2>4, <2>5, <2>6, <2>7, <2>8, <2>9 DEF IInv
<1> QED  BY <1>2, <1>3

LEMMA HoldLemma ==
  ASSUME IInv, args' = args, NEW m \in Measurements, NEW dt \in args.delays,
         NEW fault \in BOOLEAN, Hold(m, dt, fault)
  PROVE  IInv'
<1> DEFINE g == Checked(Aged(grasp, dt), m)
<1>1. Looked(g)  BY LookLemma DEF IInv
<1>2. CASE fault \/ g.phase = "failed"
  BY <1>2, EndLemma DEF Hold
<1>3. CASE ~(fault \/ g.phase = "failed")
  <2>1. /\ pc = "holding"
        /\ grasp' = g /\ anchor' = Anchor(g) /\ target' = Target(g, m) /\ held' = Held(g, m)
        /\ opening' = [age |-> 0, stable |-> Never]
        /\ pc' = IF chunk.release THEN "releasing"
                 ELSE IF chunk.left > 0 /\ steps < args.max_steps THEN "action"
                 ELSE "loop"
        /\ UNCHANGED <<steps, chunk, filter, last, votes, outcome>>
    BY <1>3 DEF Hold
  <2> HIDE DEF g
  <2>2. /\ g \in GraspType(Phases)
        /\ Anchor(g) \in {anchor, NoAnchor} /\ Anchor(g) \in Heights \union {NoAnchor}
        /\ Anchor(g) # NoAnchor /\ last = Closed => g.phase = "closing"
        /\ Anchor(g) # NoAnchor => Held(g, m) = held
        /\ Held(g, m) \in [z : Positions, gripper : Grippers] \union {NoCommand}
        /\ Target(g, m) \in Positions
        /\ g.phase = "closing" => Target(g, m) = target /\ Anchor(g) = anchor
    BY <1>1, <1>3, <2>1, LeavesLemma
  <2>3. TypeOK'
    BY <2>1, <2>2, ArgsLemma DEF IInv, TypeOK, GraspType, Phases, Positions, Grippers, Never
  <2>4. PhaseInv'
    BY <1>1, <2>1, <2>2 DEF IInv, PhaseInv, Looked, Validating
  <2>5. LatchInv'
    BY <1>1, <2>1 DEF IInv, TypeOK, PhaseInv, LatchInv, Looked, Validating
  <2>6. FilterInv'
    <3>1. args.confirmations = 1 /\ pc' = "action" => votes.close >= 1
      BY <2>1 DEF IInv, FilterInv
    <3>2. pc' = "action" /\ last = Open => filter.state # Closed
      BY <2>1 DEF IInv, FilterInv, Open, Closed
    <3>3. pc' = "action" /\ chunk.latch => filter.state = Closed
      BY <2>1 DEF IInv, FilterInv, LatchInv
    <3> QED  BY <2>1, <3>1, <3>2, <3>3 DEF IInv, FilterInv
  <2>7. ReleaseInv'
    <3>1. ~(last = Closed /\ filter.state = Open)
      BY <2>1 DEF IInv, FilterInv, Open, Closed
    <3>2. g.phase \in Phases  BY <2>2 DEF GraspType
    <3>3. ASSUME args.latch, filter.pending = Open, g.phase # "none"
          PROVE  g.phase = "confirmed" /\ filter.count <= votes.open
      BY <1>1, <3>2, <3>3 DEF IInv, ReleaseInv, Looked, Phases, Validating
    <3>4. ASSUME args.latch, args.confirmations = 1, ~chunk.latch, g.phase = "confirmed"
          PROVE  votes.open >= 1
      <4>1. grasp.phase = "confirmed"
        BY <1>1, <2>1, <3>4 DEF IInv, TypeOK, LatchInv, Looked, Validating
      <4> QED  BY <2>1, <3>4, <4>1 DEF IInv, ReleaseInv
    <3> QED  BY <2>1, <3>1, <3>3, <3>4 DEF ReleaseInv
  <2>8. HoldInv'
    BY <2>1, <2>2 DEF IInv, HoldInv, Clip
  <2>9. OriginInv' /\ ClosingBounded'
    BY <1>1, <2>1, <2>2 DEF IInv, OriginInv, ClosingBounded, Looked
  <2> QED  BY <2>3, <2>4, <2>5, <2>6, <2>7, <2>8, <2>9 DEF IInv
<1> QED  BY <1>2, <1>3

LEMMA AwaitLemma ==
  ASSUME IInv, args' = args, NEW wide \in BOOLEAN, NEW fresh \in BOOLEAN,
         AwaitRelease(wide, fresh)
  PROVE  IInv'
<1> DEFINE stable == IF ~wide THEN Never ELSE IF opening.stable = Never THEN 0 ELSE opening.stable
<1>1. CASE ~fresh \/ stable >= args.release_stable \/ ReleaseExpired(opening.age)
  <2>1. \E result \in {"aborted", "completed"} : End(result)
    BY <1>1 DEF AwaitRelease
  <2>2. pc # "done"  BY DEF AwaitRelease
  <2> QED  BY <2>1, <2>2, EndLemma
<1>2. CASE ~(~fresh \/ stable >= args.release_stable \/ ReleaseExpired(opening.age))
  <2>1. /\ opening' = [age |-> Capped(opening.age + 1, args.release_timeout),
                       stable |-> IF stable = Never THEN Never ELSE stable + 1]
        /\ UNCHANGED <<pc, steps, chunk, filter, last, grasp, anchor, target, held, votes, outcome>>
    BY <1>2 DEF AwaitRelease
  <2>2. opening'.age \in 0..args.release_timeout
    BY <1>2, <2>1, ArgsLemma DEF IInv, TypeOK, Capped, ReleaseExpired
  <2>3. stable \in -1..args.release_stable /\ (stable = Never \/ stable \in 0..args.release_stable)
    BY ArgsLemma DEF IInv, TypeOK, Never
  <2>4. opening'.stable \in -1..args.release_stable
    BY <1>2, <2>1, <2>3, ArgsLemma DEF IInv, TypeOK, Never
  <2> HIDE DEF stable
  <2>5. TypeOK'
    BY <2>1, <2>2, <2>4 DEF IInv, TypeOK, Positions
  <2>6. /\ PhaseInv' /\ LatchInv' /\ FilterInv' /\ ReleaseInv' /\ HoldInv' /\ OriginInv'
        /\ ClosingBounded'
    BY <2>1 DEF IInv, PhaseInv, LatchInv, FilterInv, ReleaseInv, HoldInv, OriginInv,
       ClosingBounded, Clip
  <2> QED  BY <2>5, <2>6 DEF IInv
<1> QED  BY <1>1, <1>2

LEMMA RespondLemma ==
  ASSUME IInv, args' = args, NEW request \in Grippers \union {NoConsensus},
         NEW first \in Grippers, NEW n \in 1..args.horizon, NEW z \in Heights,
         Respond(request, first, n, z)
  PROVE  IInv'
<1> DEFINE candidate == IF args.confirmations > 1 THEN request = Closed ELSE first = Closed
           change == HoldTransition(candidate)
<1>1. /\ pc = "request" /\ pc' = "action"
      /\ filter' = IF args.confirmations > 1 THEN Debounced(request) ELSE filter
      /\ anchor' = IF change = "activate" THEN z
                   ELSE IF change = "cancel" THEN NoAnchor ELSE anchor
      /\ IF change \in {"activate", "cancel"}
           THEN target' = z /\ held' = [z |-> z, gripper |-> last]
           ELSE UNCHANGED <<target, held>>
      /\ votes' = Voted(request)
      /\ chunk' = [chunk EXCEPT !.left = n, !.first = first]
      /\ UNCHANGED <<steps, last, grasp, opening, outcome>>
  BY DEF Respond
<1>2. /\ chunk'.left = n /\ chunk'.first # Past /\ chunk'.first = first
      /\ chunk'.latch = chunk.latch /\ chunk'.release = chunk.release
      /\ chunk' \in [left : 0..args.horizon, first : Grippers \union {Past},
                    latch : BOOLEAN, release : BOOLEAN]
  <2>1. n \in 0..args.horizon /\ n > 0  BY ArgsLemma DEF IInv, TypeOK
  <2> QED  BY <1>1, <2>1 DEF IInv, TypeOK, Grippers, Open, Closed, Past
<1> ~chunk.release /\ steps < args.max_steps
  BY <1>1 DEF IInv, PhaseInv, LatchInv
<1>3. /\ votes' \in [close : 0..args.confirmations, open : 0..args.confirmations]
      /\ votes'.close = IF args.confirmations = 1 \/ request = Closed
                         THEN Capped(votes.close + 1, args.confirmations) ELSE 0
      /\ votes'.open = IF grasp.phase = "confirmed" /\ (args.confirmations = 1 \/ request = Open)
                        THEN Capped(votes.open + 1, args.confirmations) ELSE 0
  BY <1>1, ArgsLemma DEF IInv, TypeOK, Voted, Capped
<1>4. /\ filter'.state \in Grippers /\ filter'.pending \in Grippers \union {NoConsensus}
      /\ filter'.count \in 0..(args.confirmations - 1)
      /\ filter' = [state |-> filter'.state, pending |-> filter'.pending, count |-> filter'.count]
  BY <1>1, ArgsLemma DEF IInv, TypeOK, Debounced, NoConsensus, Open, Closed, Grippers
<1>5. ASSUME args.confirmations > 1, filter'.pending \in Grippers
      PROVE  /\ ~chunk.latch /\ filter'.pending = request /\ filter'.state = filter.state
             /\ request # filter.state
             /\ filter'.count = IF filter.pending = request THEN filter.count + 1 ELSE 1
  BY <1>1, <1>5 DEF Debounced, NoConsensus, Open, Closed, Grippers
<1>6. ASSUME args.confirmations > 1, filter'.state # filter.state, ~chunk.latch
      PROVE  /\ filter'.state = request /\ request \in Grippers
             /\ (IF filter.pending = request THEN filter.count + 1 ELSE 1) >= args.confirmations
  BY <1>1, <1>6 DEF Debounced, NoConsensus, Open, Closed, Grippers
<1>7. args.confirmations > 1 /\ chunk.latch => filter'.state = Closed
  BY <1>1 DEF Debounced
<1>8. filter.state = last /\ (chunk.latch => last = Closed)
  BY <1>1 DEF IInv, FilterInv, LatchInv
<1>9. args.confirmations = 1 \/ args.confirmations > 1
  BY ArgsLemma DEF IInv, TypeOK
<1>10. TypeOK'
  BY <1>1, <1>2, <1>3, <1>4 DEF IInv, TypeOK, Positions
<1>11. PhaseInv' /\ LatchInv'
  BY <1>1, <1>2, ArgsLemma DEF IInv, TypeOK, PhaseInv, LatchInv
<1>12. /\ filter.count \in Nat /\ filter.count + 1 <= args.confirmations
       /\ args.confirmations \in Nat /\ votes.close \in Nat /\ votes.open \in Nat
  BY ArgsLemma DEF IInv, TypeOK
<1>13. /\ request = Closed =>
            /\ args.confirmations > 0 => votes'.close >= 1
            /\ filter.count <= votes.close => filter.count + 1 <= votes'.close
       /\ request = Open /\ grasp.phase = "confirmed" =>
            /\ args.confirmations > 0 => votes'.open >= 1
            /\ filter.count <= votes.open => filter.count + 1 <= votes'.open
  BY <1>3, <1>12 DEF Capped
<1>14. FilterInv'
  <2>1. CASE args.confirmations = 1
    <3>1. votes'.close >= 1
      BY <1>3, <1>12, <2>1 DEF Capped
    <3> QED  BY <1>1, <1>2, <1>8, <2>1, <3>1 DEF IInv, FilterInv, Open, Closed, NoConsensus
  <2>2. CASE args.confirmations > 1
    <3>1. ASSUME last = Open, filter'.state = Closed
          PROVE  votes'.close >= args.confirmations
      <4>1. ~chunk.latch /\ filter'.state # filter.state
        BY <1>8, <3>1 DEF Open, Closed
      <4>2. request = Closed /\ filter.pending = Closed /\ filter.count + 1 >= args.confirmations
        BY <1>6, <1>12, <2>2, <3>1, <4>1
      <4>3. filter.count <= votes.close
        BY <4>2 DEF IInv, FilterInv
      <4>4. filter.count + 1 <= votes'.close
        BY <1>12, <1>13, <4>2, <4>3
      <4> QED  BY <1>3, <1>12, <4>2, <4>4
    <3>2. ASSUME filter'.pending = Closed
          PROVE  filter'.count <= votes'.close
      <4>1. /\ request = Closed
            /\ filter'.count = IF filter.pending = Closed THEN filter.count + 1 ELSE 1
        BY <1>5, <2>2, <3>2 DEF Grippers
      <4>2. filter.pending = Closed => filter.count <= votes.close
        BY DEF IInv, FilterInv
      <4>3. 1 <= votes'.close
        BY <1>12, <1>13, <2>2, <4>1
      <4> QED  BY <1>12, <1>13, <4>1, <4>2, <4>3
    <3>3. args.horizon \in Nat  BY ArgsLemma DEF IInv, TypeOK
    <3> QED  BY <1>1, <1>2, <1>7, <1>12, <2>2, <3>1, <3>2, <3>3 DEF FilterInv
  <2> QED  BY <1>9, <2>1, <2>2
<1>15. ReleaseInv'
  <2> SUFFICES ASSUME args.latch, grasp.phase # "none"
               PROVE  /\ filter'.pending = Open =>
                           grasp.phase = "confirmed" /\ filter'.count <= votes'.open
                      /\ last = Closed /\ filter'.state = Open => votes'.open >= args.confirmations
                      /\ args.confirmations = 1 /\ ~chunk.latch /\ grasp.phase = "confirmed" =>
                           votes'.open >= 1
    BY <1>1, <1>2 DEF ReleaseInv
  <2>1. grasp.phase = "confirmed" \/ chunk.latch
    BY <1>1 DEF IInv, TypeOK, LatchInv, Validating
  <2>2. filter.pending = Open => filter.count <= votes.open
    BY DEF IInv, ReleaseInv
  <2>3. CASE args.confirmations = 1
    <3>1. filter'.pending = NoConsensus /\ filter'.state = last
      BY <1>1, <2>3 DEF IInv, FilterInv
    <3>2. grasp.phase = "confirmed" => votes'.open >= 1
      BY <1>3, <1>12, <2>3 DEF Capped
    <3> QED  BY <3>1, <3>2 DEF Open, Closed, NoConsensus
  <2>4. CASE args.confirmations > 1
    <3>1. ASSUME filter'.pending = Open
          PROVE  grasp.phase = "confirmed" /\ filter'.count <= votes'.open
      <4>1. /\ request = Open /\ ~chunk.latch
            /\ filter'.count = IF filter.pending = Open THEN filter.count + 1 ELSE 1
        BY <1>5, <2>4, <3>1 DEF Grippers
      <4>2. 1 <= votes'.open
        BY <1>12, <1>13, <2>1, <2>4, <4>1
      <4> QED  BY <1>12, <1>13, <2>1, <2>2, <4>1, <4>2
    <3>2. ASSUME last = Closed, filter'.state = Open
          PROVE  votes'.open >= args.confirmations
      <4>1. ~chunk.latch /\ filter'.state # filter.state
        BY <1>7, <1>8, <2>4, <3>2 DEF Open, Closed
      <4>2. request = Open /\ filter.pending = Open /\ filter.count + 1 >= args.confirmations
        BY <1>6, <1>12, <2>4, <3>2, <4>1
      <4>3. filter.count + 1 <= votes'.open
        BY <1>12, <1>13, <2>1, <2>2, <4>1, <4>2
      <4> QED  BY <1>3, <1>12, <4>2, <4>3
    <3> QED  BY <2>4, <3>1, <3>2
  <2> QED  BY <1>9, <2>3, <2>4
<1>16. HoldInv'
  <2> SUFFICES ASSUME anchor' # NoAnchor
               PROVE  /\ args.close_hold
                      /\ held'.z \in {anchor', Clip(anchor')}
                      /\ last = Closed => grasp.phase = "closing"
                      /\ last = Open => IF args.confirmations > 1
                                          THEN filter'.pending = Closed \/ filter'.state = Closed
                                          ELSE first = Closed
    BY <1>1, <1>2, <1>9 DEF HoldInv, Clip
  <2>1. CASE change = "activate"
    <3>1. anchor' = z /\ held'.z = z /\ last = Open /\ candidate /\ args.close_hold
      BY <1>1, <2>1 DEF HoldTransition, IInv, TypeOK, Grippers
    <3>2. args.confirmations > 1 => filter'.pending = Closed \/ filter'.state = Closed
      BY <1>1, <1>8, <3>1 DEF Debounced, Open, Closed, NoConsensus
    <3> QED  BY <3>1, <3>2 DEF Open, Closed
  <2>2. CASE change # "activate"
    <3>1. /\ change # "cancel" /\ anchor' = anchor /\ anchor # NoAnchor /\ held' = held
      BY <1>1, <2>2
    <3>2. /\ args.close_hold
          /\ held.z \in {anchor, Clip(anchor)}
          /\ last = Closed => grasp.phase = "closing"
          /\ last = Open => filter.pending = Closed
      BY <1>1, <3>1 DEF IInv, HoldInv
    <3>3. last = Open => candidate
      <4>1. ASSUME last = Open PROVE grasp.phase \notin Validating
        BY <4>1 DEF IInv, PhaseInv, Open, Closed
      <4> QED  BY <3>1, <3>2, <4>1 DEF HoldTransition, Open, Closed
    <3>4. last = Open /\ args.confirmations > 1 =>
            filter'.pending = Closed \/ filter'.state = Closed
      BY <1>1, <1>8, <3>2, <3>3 DEF Debounced, Open, Closed, NoConsensus
    <3> QED  BY <3>1, <3>2, <3>3, <3>4
  <2> QED  BY <2>1, <2>2
<1>17. OriginInv' /\ ClosingBounded'
  <2>1. grasp.phase = "closing" => last = Closed
    BY DEF IInv, PhaseInv, Validating
  <2>2. grasp.phase = "closing" => change \notin {"activate", "cancel"}
    BY <2>1 DEF HoldTransition, Validating, Open, Closed
  <2> QED  BY <1>1, <2>2 DEF IInv, OriginInv, ClosingBounded
<1> QED  BY <1>10, <1>11, <1>14, <1>15, <1>16, <1>17 DEF IInv

\* A target within the workspace and, while the fingers close, near the origin.
LEMMA LimitLemma ==
  ASSUME IInv, NEW g, Looked(g), NEW c \in Int
  PROVE  /\ Limited(Clip(c), g) \in args.min_z..args.max_z
         /\ Anchor(g) # NoAnchor => Limited(Clip(c), g) = Clip(c)
         /\ g.phase = "closing" /\ Anchor(g) = NoAnchor =>
              Limited(Clip(c), g) \in (g.origin - args.max_descent)..(g.origin + args.max_lift)
<1>1. /\ args.min_z \in Int /\ args.max_z \in Int /\ args.min_z < args.max_z
      /\ args.max_descent \in Nat /\ args.max_lift \in Nat
  BY ArgsLemma DEF IInv, TypeOK
<1>2. Clip(c) \in args.min_z..args.max_z
  BY <1>1 DEF Clip
<1>3. g.phase = "closing" => g.origin \in args.min_z..args.max_z
  BY DEF IInv, OriginInv, Looked
<1> QED  BY <1>1, <1>2, <1>3 DEF Limited

\* The latch of an action is that of its chunk: what the debounced votes ask for
\* is what the fingers do.
LEMMA GripperLemma ==
  ASSUME IInv, pc = "action", NEW asked \in Grippers, Asks(asked), NEW g, Looked(g)
  PROVE  /\ Latches(g) => chunk.latch
         /\ Latched(asked, g) \in Grippers
         /\ last = Open => Latched(asked, g) = asked /\ ~Latches(g)
         /\ Latches(g) => Latched(asked, g) = Closed
         /\ args.confirmations > 1 => Latched(asked, g) = filter.state
<1>1. Latches(g) => chunk.latch
  BY DEF IInv, LatchInv, Latches, Looked, Validating
<1> QED  BY <1>1 DEF IInv, FilterInv, LatchInv, Asks, Latched, Grippers, Open, Closed

LEMMA ActLemma ==
  ASSUME IInv, args' = args, NEW m \in Measurements, NEW dt \in args.delays,
         NEW asked \in Grippers, NEW move \in Moves, NEW outside \in BOOLEAN,
         Act(asked, move, m, dt, outside)
  PROVE  IInv'
<1> DEFINE g == Checked(Aged(grasp, dt), m)
           gripper == Latched(asked, g)
           z == Limited(Clip(Candidate(g, m, move)), g)
<1>1. Looked(g)  BY LookLemma DEF IInv
<1>2. pc = "action" /\ Asks(asked)  BY DEF Act
<1>3. CASE g.phase = "failed" \/ ~Enforced(gripper, g) \/ outside
  BY <1>2, <1>3, EndLemma DEF Act
<1>4. CASE ~(g.phase = "failed" \/ ~Enforced(gripper, g) \/ outside)
  <2>1. /\ grasp' = IF Closes(gripper) THEN Grasped(g, z, m) ELSE g
        /\ anchor' = Anchor(g)
        /\ target' = z
        /\ filter' = [state |-> IF args.confirmations = 1 THEN gripper ELSE filter.state,
                      pending |-> IF Closes(gripper) THEN NoConsensus ELSE filter.pending,
                      count |-> IF Closes(gripper) THEN 0 ELSE filter.count]
        /\ chunk' = [chunk EXCEPT !.left = @ - 1, !.first = Past,
                                  !.latch = IF Closes(gripper) THEN args.latch ELSE Latches(g),
                                  !.release = Releases(gripper, g)]
        /\ last' = gripper
        /\ held' = [z |-> z, gripper |-> gripper]
        /\ steps' = steps + 1
        /\ pc' = "holding"
        /\ UNCHANGED <<opening, votes, outcome>>
    BY <1>4 DEF Act
  <2>2. /\ g \in GraspType(Phases)
        /\ Anchor(g) \in {anchor, NoAnchor} /\ Anchor(g) \in Heights \union {NoAnchor}
        /\ Anchor(g) # NoAnchor /\ last = Closed => g.phase = "closing"
        /\ Target(g, m) \in Positions
    BY <1>1, <1>2, <1>4, LeavesLemma
  <2>3. Candidate(g, m, move) \in Int
    BY <2>2, ArgsLemma DEF IInv, TypeOK, Candidate, Positions
  <2>4. /\ z \in args.min_z..args.max_z
        /\ Anchor(g) # NoAnchor => z = Clip(Anchor(g))
        /\ g.phase = "closing" /\ Anchor(g) = NoAnchor =>
             z \in (g.origin - args.max_descent)..(g.origin + args.max_lift)
    BY <1>1, <2>3, LimitLemma DEF Candidate
  <2>5. ~chunk.release /\ steps < args.max_steps /\ chunk.left > 0
    BY <1>2 DEF IInv, PhaseInv, LatchInv
  <2>6. /\ chunk'.left = chunk.left - 1 /\ chunk'.first = Past
        /\ chunk'.latch = IF Closes(gripper) THEN args.latch ELSE Latches(g)
        /\ chunk'.release = Releases(gripper, g)
        /\ chunk' \in [left : 0..args.horizon, first : Grippers \union {Past},
                    latch : BOOLEAN, release : BOOLEAN]
    <3>1. chunk.left - 1 \in 0..args.horizon
      BY <2>5, ArgsLemma DEF IInv, TypeOK
    <3>2. Latches(g) \in BOOLEAN /\ Releases(gripper, g) \in BOOLEAN /\ args.latch \in BOOLEAN
      BY ArgsLemma DEF IInv, TypeOK, Latches, Releases, Opens
    <3> QED  BY <2>1, <3>1, <3>2 DEF IInv, TypeOK
  <2>7. Latches(g) => chunk.latch
    BY <1>1, <1>2, GripperLemma
  <2>8. /\ gripper \in Grippers
        /\ last = Open => gripper = asked /\ ~Latches(g)
        /\ Latches(g) => gripper = Closed
        /\ args.confirmations > 1 => gripper = filter.state
    BY <1>1, <1>2, GripperLemma
  <2>9. last = Open => grasp.phase = "none" /\ g.phase = "none" /\ g.attempts = 0
    BY <1>1, <2>5 DEF IInv, PhaseInv, Looked
  <2>10. args.confirmations \in Nat /\ (args.confirmations = 1 \/ args.confirmations > 1)
    BY ArgsLemma DEF IInv, TypeOK
  <2>11. Enforced(gripper, g)  BY <1>4
  <2>12. filter'.state = gripper
    BY <2>1, <2>8, <2>10
  <2> HIDE DEF g, gripper, z
  <2>15. grasp' \in GraspType(Phases) => TypeOK'
    <3>1. z \in Positions /\ args.confirmations - 1 \in Nat
      BY <2>4, <2>10 DEF Positions
    <3>2. steps + 1 \in 0..args.max_steps
      BY <2>5, ArgsLemma DEF IInv, TypeOK
    <3>3. filter' \in [state : Grippers, pending : Grippers \union {NoConsensus},
                       count : 0..(args.confirmations - 1)]
      BY <2>1, <2>8, <2>10, <3>1 DEF IInv, TypeOK
    <3> QED  BY <2>1, <2>2, <2>6, <2>8, <3>1, <3>2, <3>3 DEF IInv, TypeOK, GraspType, Phases, Positions
  <2>13. CASE Closes(gripper)
    <3>1. /\ last = Open /\ gripper = Closed /\ last' = Closed /\ ~chunk'.release
          /\ grasp' = [phase |-> "closing", attempts |-> 1, origin |-> z, low |-> m.z,
                      age |-> 0, stable |-> Never, lifted |-> 0]
      <4>1. last = Open /\ gripper = Closed /\ last' = Closed
        BY <2>1, <2>13 DEF Closes
      <4>2. ~chunk'.release
        BY <2>6, <4>1 DEF Releases, Opens, Open, Closed
      <4>3. g.attempts + 1 = 1
        BY <2>9, <4>1
      <4> QED  BY <2>1, <2>13, <4>1, <4>2, <4>3 DEF Grasped
    <3>2. filter'.pending = NoConsensus /\ chunk'.latch = args.latch
      BY <2>1, <2>6, <2>13
    <3>3. 1 \in 0..args.max_attempts
      BY <2>9, <2>11, <2>13, ArgsLemma DEF IInv, TypeOK, Enforced
    <3>4. grasp' \in GraspType(Phases)
      BY <2>4, <3>1, <3>3, ArgsLemma DEF IInv, TypeOK, GraspType, Phases, Positions, Measurements, Never
    <3>5. TypeOK'
      BY <2>15, <3>4 DEF GraspType, Phases, TypeOK
    <3>6. PhaseInv' /\ LatchInv'
      BY <1>2, <2>1, <3>1, <3>2 DEF IInv, PhaseInv, LatchInv, Validating, Open, Closed
    <3>7. FilterInv' /\ ReleaseInv'
      BY <1>2, <2>1, <2>12, <3>1, <3>2
      DEF IInv, FilterInv, ReleaseInv, NoConsensus, Open, Closed
    <3>8. HoldInv' /\ OriginInv'
      BY <1>2, <2>1, <2>2, <2>4, <3>1 DEF IInv, HoldInv, OriginInv, Clip, Open, Closed
    <3>9. ClosingBounded'
      BY <2>1, <2>4, <3>1, ArgsLemma DEF IInv, TypeOK, ClosingBounded
    <3> QED  BY <3>5, <3>6, <3>7, <3>8, <3>9 DEF IInv
  <2>14. CASE ~Closes(gripper)
    <3>1. /\ grasp' = g /\ filter'.pending = filter.pending /\ filter'.count = filter.count
          /\ chunk'.latch = Latches(g)
          /\ (last = Open => gripper = Open)
      BY <2>1, <2>6, <2>8, <2>14 DEF Closes, Grippers
    <3>2. g.phase \in Phases /\ g.phase # "failed"
      BY <1>4, <2>2 DEF GraspType
    <3>3. Opens(gripper) => g.phase \in {"none", "confirmed"}
      BY <2>11, <3>2 DEF Enforced, Validating, Phases
    <3>4. TypeOK'
      BY <2>2, <2>15, <3>1 DEF GraspType, Phases, TypeOK
    <3>5. PhaseInv'
      <4>1. /\ g.phase = "none" <=> g.attempts = 0
            /\ g.attempts <= 1
            /\ g.phase \in Validating => last = Closed
        BY <1>1, <3>2 DEF IInv, PhaseInv, Looked, Phases, Validating
      <4>2. g.phase \in Validating => gripper = Closed
        BY <2>8, <3>3, <4>1 DEF Opens, Validating, Grippers
      <4>3. gripper = Open => g.phase = "none" \/ Releases(gripper, g)
        BY <2>8, <2>9, <3>3 DEF Releases, Opens, IInv, TypeOK, Grippers
      <4>4. Releases(gripper, g) => gripper = Open /\ g.phase = "confirmed" /\ Anchor(g) = NoAnchor
        BY <2>2 DEF Releases, Opens
      <4>5. outcome = "running"
        BY <1>2 DEF IInv, PhaseInv
      <4> QED  BY <2>1, <2>6, <3>1, <4>1, <4>2, <4>3, <4>4, <4>5 DEF PhaseInv
    <3>6. LatchInv'
      BY <1>2, <2>1, <2>8, <3>1 DEF IInv, LatchInv, Latches
    <3>7. FilterInv'
      BY <1>2, <2>1, <2>8, <2>12, <3>1 DEF IInv, FilterInv
    <3>8. ReleaseInv'
      <4>1. ASSUME args.latch, filter.pending = Open, g.phase # "none"
            PROVE  g.phase = "confirmed" /\ filter.count <= votes.open
        BY <1>1, <3>2, <4>1 DEF IInv, ReleaseInv, Looked, Phases, Validating
      <4>2. ASSUME args.latch, args.confirmations = 1, ~Latches(g), g.phase = "confirmed"
            PROVE  votes.open >= 1
        <5>1. ~chunk.latch /\ grasp.phase = "confirmed"
          BY <1>1, <1>2, <4>2 DEF IInv, TypeOK, LatchInv, Looked, Latches, Validating
        <5> QED  BY <1>2, <4>2, <5>1 DEF IInv, ReleaseInv
      <4> QED  BY <2>1, <3>1, <4>1, <4>2 DEF ReleaseInv
    <3>9. HoldInv'
      <4> SUFFICES ASSUME Anchor(g) # NoAnchor
                   PROVE  /\ args.close_hold
                          /\ z = Clip(anchor)
                          /\ gripper = Closed => g.phase = "closing"
                          /\ gripper = Open => filter.pending = Closed
        BY <2>1, <2>2, <3>1 DEF HoldInv, Clip
      <4>1. /\ args.close_hold /\ z = Clip(anchor)
            /\ last = Open =>
                 \/ filter.pending = Closed
                 \/ /\ chunk.first # Past
                    /\ IF args.confirmations > 1 THEN filter.state = Closed ELSE chunk.first = Closed
        BY <1>2, <2>2, <2>4 DEF IInv, HoldInv
      <4>2. gripper = Closed => last = Closed
        BY <2>14 DEF Closes, IInv, TypeOK, Grippers
      <4>3. gripper = Open => last = Open
        BY <2>2, <3>3 DEF Opens, IInv, TypeOK, Grippers
      <4>4. last = Open /\ gripper = Open => filter.pending = Closed
        BY <1>2, <2>8, <2>10, <4>1 DEF Asks, Open, Closed
      <4> QED  BY <2>2, <4>1, <4>2, <4>3, <4>4
    <3>10. OriginInv' /\ ClosingBounded'
      BY <1>1, <2>1, <2>4, <3>1 DEF IInv, OriginInv, ClosingBounded, Looked
    <3> QED  BY <3>4, <3>5, <3>6, <3>7, <3>8, <3>9, <3>10 DEF IInv
  <2> QED  BY <2>13, <2>14
<1> QED  BY <1>3, <1>4

LEMMA StepLemma == IInv /\ [Next]_vars => IInv'
<1> SUFFICES ASSUME IInv, [Next]_vars PROVE IInv'  OBVIOUS
<1>1. CASE UNCHANGED vars
  <2> USE <1>1 DEF vars
  <2>1. TypeOK'  BY DEF IInv, TypeOK, Positions
  <2>2. PhaseInv' /\ LatchInv' /\ FilterInv' /\ ReleaseInv'
    BY DEF IInv, PhaseInv, LatchInv, FilterInv, ReleaseInv
  <2>3. HoldInv' /\ OriginInv' /\ ClosingBounded'
    BY DEF IInv, HoldInv, OriginInv, ClosingBounded, Clip
  <2> QED  BY <2>1, <2>2, <2>3 DEF IInv
<1>2. CASE UNCHANGED args /\ Proceed
  <2>1. CASE Finish
    BY <1>2, <2>1, FinishLemma
  <2>2. CASE \E m \in Measurements, dt \in args.delays : Request(m, dt)
    BY <1>2, <2>2, RequestLemma
  <2>3. CASE \E m \in Measurements, dt \in args.delays, asked \in Grippers, move \in Moves,
               outside \in BOOLEAN : Act(asked, move, m, dt, outside)
    BY <1>2, <2>3, ActLemma
  <2>4. CASE \E m \in Measurements, dt \in args.delays, fault \in BOOLEAN : Hold(m, dt, fault)
    BY <1>2, <2>4, HoldLemma
  <2>5. CASE \E wide \in BOOLEAN, fresh \in BOOLEAN : AwaitRelease(wide, fresh)
    BY <1>2, <2>5, AwaitLemma
  <2>6. CASE Excessive
    BY <1>2, <2>6, EndLemma DEF Excessive
  <2> QED  BY <1>2, <2>1, <2>2, <2>3, <2>4, <2>5, <2>6 DEF Proceed
<1>3. CASE UNCHANGED args /\ Answer
  <2>1. CASE ServerFails
    BY <1>3, <2>1, EndLemma DEF ServerFails
  <2>2. CASE \E request \in Grippers \union {NoConsensus}, first \in Grippers,
               n \in 1..args.horizon, z \in Heights : Respond(request, first, n, z)
    BY <1>3, <2>2, RespondLemma
  <2> QED  BY <1>3, <2>1, <2>2 DEF Answer
<1>4. CASE UNCHANGED args /\ Interrupt
  BY <1>4, EndLemma DEF Interrupt
<1>5. CASE Ended
  BY <1>1, <1>5 DEF Ended
<1> QED  BY <1>1, <1>2, <1>3, <1>4, <1>5 DEF Next

THEOREM Invariant == Spec => []IInv
<1> QED  BY InitLemma, StepLemma, PTL DEF Spec

-------------------------------------------------------------------------------
(* Safety *)

\* The variables stay in their types; in particular no step is executed beyond
\* max_steps, and every commanded height is one that was measured or lies in
\* the workspace (the clip of main, lines 2284-2286).
THEOREM TypeCorrect == Spec => []TypeOK
<1>1. IInv => TypeOK  BY DEF IInv
<1> QED  BY <1>1, Invariant, PTL

\* A deployment closes the fingers at most once, whatever --max-grasp-attempts
\* allows (enforce_physical_grasp_transition, wait_for_physical_release).
THEOREM OneGrasp == Spec => []OneAttempt
<1>1. IInv => OneAttempt  BY DEF IInv, PhaseInv, OneAttempt
<1> QED  BY <1>1, Invariant, PTL

\* At the loop's head a close hold is there for votes to close that are being
\* counted, or for fingers that are closing (synchronized_close_hold_transition).
THEOREM HoldExplained == Spec => []HoldHasReason
<1>1. IInv => HoldHasReason
  BY DEF IInv, TypeOK, HoldInv, HoldHasReason, Grippers
<1> QED  BY <1>1, Invariant, PTL

\* Until the width is validated, an arm that is not held keeps its target near
\* the place where the fingers started to close (constrain_closing_target).
THEOREM ClosingIsBounded == Spec => []ClosingBounded
<1>1. IInv => ClosingBounded  BY DEF IInv
<1> QED  BY <1>1, Invariant, PTL

-------------------------------------------------------------------------------
(* What a step may do *)

\* Only an action moves the fingers, to what the latch makes of the request.
LEMMA FingersLemma ==
  ASSUME IInv, [Next]_vars, last' # last
  PROVE  \E asked \in Grippers, g \in GraspType(Phases \union {"failed"}) :
           /\ pc = "action" /\ Asks(asked) /\ Looked(g) /\ g.phase # "failed"
           /\ last' = Latched(asked, g)
           /\ Enforced(last', g)
           /\ pc' # "done" /\ outcome' = outcome
           /\ chunk'.release = Releases(last', g)
           /\ grasp'.phase = IF Closes(last') THEN "closing" ELSE g.phase
<1>1. \E m \in Measurements, dt \in args.delays, asked \in Grippers, move \in Moves,
         outside \in BOOLEAN : Act(asked, move, m, dt, outside)
  <2>1. \A result : ~End(result)  BY DEF End
  <2>2. ~Finish /\ ~Excessive /\ ~Interrupt /\ ~ServerFails
    BY <2>1 DEF Finish, Excessive, Interrupt, ServerFails
  <2>3. \A m, dt : ~Request(m, dt)  BY <2>1 DEF Request
  <2>4. \A m, dt, fault : ~Hold(m, dt, fault)  BY <2>1 DEF Hold
  <2>5. \A wide, fresh : ~AwaitRelease(wide, fresh)  BY <2>1 DEF AwaitRelease
  <2>6. \A request, first, n, z : ~Respond(request, first, n, z)
    BY <2>1 DEF Respond
  <2>7. Proceed  BY <2>2, <2>6 DEF Next, Answer, Ended, vars
  <2> QED  BY <2>2, <2>3, <2>4, <2>5, <2>7 DEF Proceed
<1>2. PICK m \in Measurements, dt \in args.delays, asked \in Grippers, move \in Moves,
           outside \in BOOLEAN : Act(asked, move, m, dt, outside)
  BY <1>1
<1> DEFINE g == Checked(Aged(grasp, dt), m)
<1>3. Looked(g) /\ g \in GraspType(Phases \union {"failed"})
  BY LookLemma DEF IInv, Looked
<1>4. pc = "action" /\ Asks(asked)  BY <1>2 DEF Act
<1>5. ~(g.phase = "failed" \/ ~Enforced(Latched(asked, g), g) \/ outside)
  BY <1>2 DEF Act, End
<1>6. /\ last' = Latched(asked, g)
      /\ pc' = "holding" /\ outcome' = outcome
      /\ chunk' = [chunk EXCEPT !.left = @ - 1, !.first = Past,
                                !.latch = IF Closes(last') THEN args.latch ELSE Latches(g),
                                !.release = Releases(last', g)]
      /\ grasp'.phase = IF Closes(last') THEN "closing" ELSE g.phase
  BY <1>2, <1>5 DEF Act, Grasped
<1>7. chunk'.release = Releases(last', g)
  BY <1>6 DEF IInv, TypeOK
<1> QED  BY <1>3, <1>4, <1>5, <1>6, <1>7

\* A grasp is released by an action only after its lift was confirmed, by a
\* chunk that was asked for after that.
LEMMA OpeningLemma ==
  ASSUME IInv, args.latch, pc = "action", grasp.phase # "none",
         NEW asked \in Grippers, Asks(asked), NEW g, Looked(g), g.phase # "failed",
         last = Closed, Latched(asked, g) = Open, Enforced(Open, g)
  PROVE  /\ grasp.phase = "confirmed" /\ g.phase = "confirmed" /\ ~chunk.latch
         /\ args.confirmations > 1 => filter.state = Open
<1>1. g.phase = "confirmed"
  BY DEF Looked, GraspType, Phases, Enforced, Opens, Validating
<1>2. ~Latches(g) /\ (args.confirmations > 1 => filter.state = Open)
  BY GripperLemma DEF Open, Closed
<1>3. ~chunk.latch  BY <1>2 DEF Latches
<1>4. grasp.phase \notin Validating
  BY <1>3 DEF IInv, LatchInv
<1>5. grasp.phase = "confirmed"
  BY <1>4 DEF IInv, TypeOK, Validating
<1> QED  BY <1>1, <1>2, <1>3, <1>5

LEMMA CloseStep ==
  ASSUME IInv, [Next]_vars, last = Open, last' = Closed
  PROVE  votes.close >= args.confirmations
<1>1. PICK asked \in Grippers, g \in GraspType(Phases \union {"failed"}) :
        pc = "action" /\ Asks(asked) /\ Looked(g) /\ last' = Latched(asked, g)
  BY FingersLemma DEF Open, Closed
<1>2. args.confirmations > 1 => filter.state = Closed
  BY <1>1, GripperLemma
<1>3. args.confirmations \in Nat /\ (args.confirmations = 1 \/ args.confirmations > 1)
  BY ArgsLemma DEF IInv, TypeOK
<1> QED  BY <1>1, <1>2, <1>3 DEF IInv, FilterInv

LEMMA ReleaseStep ==
  ASSUME IInv, args.latch, [Next]_vars, last = Closed, last' = Open, grasp.attempts > 0
  PROVE  votes.open >= args.confirmations
<1>1. PICK asked \in Grippers, g \in GraspType(Phases \union {"failed"}) :
        /\ pc = "action" /\ Asks(asked) /\ Looked(g) /\ g.phase # "failed"
        /\ last' = Latched(asked, g) /\ Enforced(last', g)
  BY FingersLemma DEF Open, Closed
<1>2. grasp.phase # "none"
  BY DEF IInv, PhaseInv
<1>3. /\ grasp.phase = "confirmed" /\ ~chunk.latch
      /\ args.confirmations > 1 => filter.state = Open
  BY <1>1, <1>2, OpeningLemma
<1>4. args.confirmations \in Nat /\ (args.confirmations = 1 \/ args.confirmations > 1)
  BY ArgsLemma DEF IInv, TypeOK
<1> QED  BY <1>1, <1>3, <1>4 DEF IInv, ReleaseInv

LEMMA HoldStep ==
  ASSUME IInv, IInv', [Next]_vars,
         anchor # NoAnchor, anchor' = anchor, Clip(anchor) = anchor, pc' # "done"
  PROVE  held'.z = held.z
<1>1. pc # "done" /\ args' = args
  <2>1. args' = args  BY DEF Next, vars
  <2>2. CASE UNCHANGED vars  BY <2>2 DEF vars
  <2>3. CASE Proceed
    <3>1. \A m, dt : Request(m, dt) => pc = "loop"  BY DEF Request
    <3>2. \A asked, move, m, dt, outside : Act(asked, move, m, dt, outside) => pc = "action"
      BY DEF Act
    <3>3. \A m, dt, fault : Hold(m, dt, fault) => pc = "holding"  BY DEF Hold
    <3>4. \A wide, fresh : AwaitRelease(wide, fresh) => pc = "releasing"  BY DEF AwaitRelease
    <3> QED  BY <2>1, <2>3, <3>1, <3>2, <3>3, <3>4 DEF Proceed, Finish, Excessive
  <2>4. CASE Answer
    BY <2>1, <2>4 DEF Answer, ServerFails, Respond
  <2> QED  BY <2>1, <2>2, <2>3, <2>4 DEF Next, Interrupt, Ended
<1>2. held.z = anchor
  BY <1>1 DEF IInv, HoldInv
<1>3. held'.z = anchor'
  BY <1>1 DEF IInv, HoldInv, Clip
<1> QED  BY <1>2, <1>3

LEMMA LatchStays == args.latch /\ [Next]_vars => args'.latch
  BY DEF Next, vars, Ended

\* The fingers close only on as many votes as configured, in a row: the filter
\* and the fingers never disagree in any other way (debounce_gripper_request).
THEOREM CloseVoted == Spec => CloseWasVoted
<1>1. IInv /\ [Next]_vars =>
        [last = Open /\ last' = Closed => votes.close >= args.confirmations]_vars
  BY CloseStep
<1> QED  BY <1>1, Invariant, PTL DEF Spec, CloseWasVoted

\* With the close latch, the default, a grasp is released only on votes from
\* requests made after its lift was confirmed.  Without it (the ablation switch
\* --disable-gripper-close-latch) votes are counted during the validation too.
THEOREM ReleaseVoted == Spec /\ args.latch => ReleaseWasVoted
<1>1. IInv /\ args.latch /\ [Next]_vars =>
        [last = Closed /\ last' = Open /\ grasp.attempts > 0 =>
           votes.open >= args.confirmations]_vars
  BY ReleaseStep
<1>2. args.latch /\ [Next]_vars => (args.latch)'
  BY LatchStays
<1> QED  BY <1>1, <1>2, Invariant, PTL DEF Spec, ReleaseWasVoted

\* An active close hold keeps the commanded height, wherever the loop stands
\* (synchronized_close_hold_transition, and every place that uses the anchor).
THEOREM HoldStill == Spec => HoldFreezes
<1>1. IInv /\ IInv' /\ [Next]_vars =>
        [anchor # NoAnchor /\ anchor' = anchor /\ Clip(anchor) = anchor /\ pc' # "done" =>
           held'.z = held.z]_vars
  BY HoldStep
<1> QED  BY <1>1, Invariant, PTL DEF Spec, HoldFreezes

-------------------------------------------------------------------------------
(* The refinement of GraspEpisode, one lemma per kind of step *)

EpisodeStep == [Episode!Next]_(Episode!vars)

\* The stage of a run that has not ended.
LEMMA StageLemma ==
  ASSUME IInv, pc # "done"
  PROVE  StageOf = IF chunk.release THEN "releasing"
                   ELSE IF grasp.phase = "none" THEN "approach"
                   ELSE IF grasp.phase = "confirmed" THEN "holding"
                   ELSE grasp.phase
  BY DEF IInv, PhaseInv, StageOf

LEMMA EndIsEpisode ==
  ASSUME IInv, pc # "done", NEW result \in {"aborted", "finished"}, End(result)
  PROVE  EpisodeStep
<1>1. StageOf # "completed"  BY DEF IInv, TypeOK, PhaseInv, StageOf
<1>2. StageOf' = "ended" /\ last' = last  BY DEF StageOf, End
<1> QED  BY <1>1, <1>2 DEF EpisodeStep, Episode!Next, Episode!End

\* A look that does not fail leaves the stage, validates or confirms.
LEMMA LookIsEpisode ==
  ASSUME IInv, IInv', pc # "done", pc' # "done", last' = last, chunk'.release = chunk.release,
         NEW g, Looked(g), g.phase # "failed", grasp'.phase = g.phase
  PROVE  EpisodeStep
<1>1. CASE chunk.release
  BY <1>1, StageLemma DEF EpisodeStep, Episode!vars, StageOf, IInv, PhaseInv
<1>2. CASE ~chunk.release
  <2>1. /\ g.phase \in Phases
        /\ g.phase = "none" <=> grasp.phase = "none"
        /\ g.phase = "closing" => grasp.phase = "closing"
        /\ g.phase = "lifting" => grasp.phase \in {"closing", "lifting"}
        /\ grasp.phase \in Phases
    BY DEF Looked, GraspType, Phases, Validating, IInv, TypeOK
  <2>2. /\ StageOf = IF grasp.phase = "none" THEN "approach"
                     ELSE IF grasp.phase = "confirmed" THEN "holding" ELSE grasp.phase
        /\ StageOf' = IF g.phase = "none" THEN "approach"
                      ELSE IF g.phase = "confirmed" THEN "holding" ELSE g.phase
    BY <1>2, StageLemma DEF IInv, PhaseInv, StageOf
  <2>3. \/ StageOf' = StageOf
        \/ StageOf = "closing" /\ StageOf' = "lifting"
        \/ StageOf \in {"closing", "lifting"} /\ StageOf' = "holding"
    <3>1. CASE g.phase = "none"  BY <2>1, <2>2, <3>1
    <3>2. CASE g.phase = "closing"  BY <2>1, <2>2, <3>2
    <3>3. CASE g.phase = "lifting"  BY <2>1, <2>2, <3>3
    <3>4. CASE g.phase = "confirmed"  BY <2>1, <2>2, <3>4 DEF Phases
    <3> QED  BY <2>1, <3>1, <3>2, <3>3, <3>4 DEF Phases
  <2> QED  BY <2>3 DEF EpisodeStep, Episode!vars, Episode!Next, Episode!Validate, Episode!Confirm
<1> QED  BY <1>1, <1>2

LEMMA FingersIsEpisode ==
  ASSUME IInv, IInv', args.latch, [Next]_vars, last' # last
  PROVE  EpisodeStep
<1>1. PICK asked \in Grippers, g \in GraspType(Phases \union {"failed"}) :
        /\ pc = "action" /\ Asks(asked) /\ Looked(g) /\ g.phase # "failed"
        /\ last' = Latched(asked, g)
        /\ Enforced(last', g)
        /\ pc' # "done" /\ outcome' = outcome
        /\ chunk'.release = Releases(last', g)
        /\ grasp'.phase = IF Closes(last') THEN "closing" ELSE g.phase
  BY FingersLemma
<1>2. /\ ~chunk.release /\ outcome = "running"
      /\ last \in Grippers /\ last' \in Grippers
  BY <1>1 DEF IInv, TypeOK, PhaseInv
<1>3. CASE Closes(last')
  <2>1. last = Open /\ last' = Closed /\ grasp.phase = "none"
    BY <1>2, <1>3 DEF Closes, IInv, PhaseInv
  <2>2. ~chunk'.release /\ grasp'.phase = "closing"
    BY <1>1, <1>3, <2>1 DEF Releases, Opens, Open, Closed
  <2>3. StageOf = "approach" /\ StageOf' = "closing"
    BY <1>1, <1>2, <2>1, <2>2 DEF StageOf
  <2> QED  BY <2>1, <2>3 DEF EpisodeStep, Episode!Next, Episode!Close, Open, Closed
<1>4. CASE ~Closes(last')
  <2>1. last = Closed /\ last' = Open /\ grasp'.phase = g.phase
    BY <1>1, <1>2, <1>4 DEF Closes, Grippers
  <2>2. CASE grasp.phase = "none"
    <3>1. g.phase = "none"  BY <1>1, <2>2 DEF Looked
    <3>2. StageOf = "approach" /\ StageOf' = "approach"
      BY <1>1, <1>2, <2>1, <2>2, <3>1 DEF StageOf, Releases
    <3> QED  BY <2>1, <3>2 DEF EpisodeStep, Episode!Next, Episode!Empty, Open
  <2>3. CASE grasp.phase # "none"
    <3>1. grasp.phase = "confirmed" /\ g.phase = "confirmed"
      BY <1>1, <2>1, <2>3, OpeningLemma
    <3>2. chunk'.release
      BY <1>1, <2>1, <3>1 DEF Releases, Opens
    <3>3. StageOf = "holding" /\ StageOf' = "releasing"
      BY <1>1, <1>2, <3>1, <3>2 DEF StageOf
    <3> QED  BY <2>1, <3>3 DEF EpisodeStep, Episode!Next, Episode!Release, Open
  <2> QED  BY <2>2, <2>3
<1> QED  BY <1>3, <1>4

LEMMA AwaitIsEpisode ==
  ASSUME IInv, NEW wide \in BOOLEAN, NEW fresh \in BOOLEAN, AwaitRelease(wide, fresh)
  PROVE  EpisodeStep
<1>1. pc = "releasing"  BY DEF AwaitRelease
<1>2. CASE End("completed")
  <2>1. StageOf = "releasing"  BY <1>1 DEF IInv, PhaseInv, StageOf
  <2>2. StageOf' = "completed" /\ last' = last  BY <1>2 DEF End, StageOf
  <2> QED  BY <2>1, <2>2 DEF EpisodeStep, Episode!Next, Episode!Complete
<1>3. CASE End("aborted")
  BY <1>1, <1>3, EndIsEpisode
<1>4. CASE UNCHANGED <<pc, chunk, last, grasp, outcome>>
  BY <1>4 DEF EpisodeStep, Episode!vars, StageOf
<1> QED  BY <1>2, <1>3, <1>4 DEF AwaitRelease

\* What is left: requests, answers, actions and holds that do not move the
\* fingers, and ends.
LEMMA LoopIsEpisode ==
  ASSUME IInv, IInv', [Next]_vars, last' = last
  PROVE  EpisodeStep
<1>1. CASE UNCHANGED vars
  BY <1>1 DEF EpisodeStep, Episode!vars, vars, StageOf
<1>2. ASSUME NEW result \in {"aborted", "finished"}, pc # "done", End(result) PROVE EpisodeStep
  BY <1>2, EndIsEpisode
<1>3. ASSUME NEW m \in Measurements, NEW dt \in args.delays, Request(m, dt) PROVE EpisodeStep
  <2>1. CASE End("aborted")  BY <1>2, <1>3, <2>1 DEF Request
  <2>2. CASE ~End("aborted")
    <3> DEFINE g == Checked(Aged(grasp, dt), m)
    <3>1. Looked(g)  BY LookLemma DEF IInv
    <3>2. /\ g.phase # "failed" /\ grasp' = g /\ pc = "loop" /\ pc' = "request"
          /\ ~chunk'.release
      BY <1>3, <2>2 DEF Request
    <3>3. ~chunk.release  BY <3>2 DEF IInv, PhaseInv
    <3>4. chunk'.release = chunk.release
      BY <3>2, <3>3 DEF IInv, TypeOK
    <3> QED  BY <3>1, <3>2, <3>4, LookIsEpisode
  <2> QED  BY <2>1, <2>2
<1>4. ASSUME NEW request \in Grippers \union {NoConsensus}, NEW first \in Grippers,
             NEW n \in 1..args.horizon, NEW z \in Heights,
             Respond(request, first, n, z)
      PROVE  EpisodeStep
  <2>1. /\ pc = "request" /\ pc' = "action" /\ UNCHANGED <<last, grasp, outcome>>
        /\ chunk' = [chunk EXCEPT !.left = n, !.first = first]
    BY <1>4 DEF Respond
  <2>2. chunk'.release = chunk.release
    BY <2>1 DEF IInv, TypeOK
  <2> QED  BY <2>1, <2>2 DEF EpisodeStep, Episode!vars, StageOf
<1>5. ASSUME NEW m \in Measurements, NEW dt \in args.delays, NEW asked \in Grippers,
             NEW move \in Moves, NEW outside \in BOOLEAN, Act(asked, move, m, dt, outside)
      PROVE  EpisodeStep
  <2>1. CASE End("aborted")  BY <1>2, <1>5, <2>1 DEF Act
  <2>2. CASE ~End("aborted")
    <3> DEFINE g == Checked(Aged(grasp, dt), m)
    <3>1. Looked(g)  BY LookLemma DEF IInv
    <3>2. pc = "action" /\ ~(g.phase = "failed" \/ ~Enforced(Latched(asked, g), g) \/ outside)
      BY <1>5, <2>2 DEF Act
    <3>3. /\ g.phase # "failed" /\ pc' = "holding" /\ last' = Latched(asked, g)
          /\ grasp' = IF Closes(last')
                        THEN Grasped(g, Limited(Clip(Candidate(g, m, move)), g), m) ELSE g
          /\ chunk' = [chunk EXCEPT !.left = @ - 1, !.first = Past,
                                    !.latch = IF Closes(last') THEN args.latch ELSE Latches(g),
                                    !.release = Releases(last', g)]
      BY <1>5, <3>2 DEF Act
    <3> HIDE DEF g
    <3>4. ~Closes(last') /\ ~Opens(last')
      BY DEF Closes, Opens, Open, Closed
    <3>5. grasp' = g /\ ~chunk'.release
      BY <3>3, <3>4 DEF Releases, IInv, TypeOK
    <3>6. chunk'.release = chunk.release
      BY <3>2, <3>5 DEF IInv, PhaseInv, TypeOK
    <3> QED  BY <3>1, <3>2, <3>3, <3>5, <3>6, LookIsEpisode
  <2> QED  BY <2>1, <2>2
<1>6. ASSUME NEW m \in Measurements, NEW dt \in args.delays, NEW fault \in BOOLEAN,
             Hold(m, dt, fault)
      PROVE  EpisodeStep
  <2>1. CASE End("aborted")  BY <1>2, <1>6, <2>1 DEF Hold
  <2>2. CASE ~End("aborted")
    <3> DEFINE g == Checked(Aged(grasp, dt), m)
    <3>1. Looked(g)  BY LookLemma DEF IInv
    <3>2. /\ g.phase # "failed" /\ grasp' = g /\ chunk' = chunk
          /\ pc = "holding" /\ pc' \in {"releasing", "action", "loop"}
      BY <1>6, <2>2 DEF Hold
    <3> QED  BY <3>1, <3>2, LookIsEpisode
  <2> QED  BY <2>1, <2>2
<1>7. CASE Proceed
  <2>1. ASSUME Finish \/ Excessive PROVE EpisodeStep  BY <1>2, <2>1 DEF Finish, Excessive
  <2> QED  BY <1>3, <1>5, <1>6, <1>7, <2>1, AwaitIsEpisode DEF Proceed
<1>8. CASE Answer
  <2>1. ASSUME ServerFails PROVE EpisodeStep  BY <1>2, <2>1 DEF ServerFails
  <2> QED  BY <1>4, <1>8, <2>1 DEF Answer
<1>9. CASE Interrupt
  BY <1>2, <1>9 DEF Interrupt
<1> QED  BY <1>1, <1>7, <1>8, <1>9 DEF Next, Ended

\* With the close latch, a deployment is an episode of GraspEpisode: one grasp,
\* closed without interruption until its width and its lift are confirmed, and
\* completed only after its release (main, update_active_grasp,
\* wait_for_physical_release).
THEOREM ClientIsEpisode == Spec /\ args.latch => ImplementsEpisode
<1>1. Init => Episode!Init
  BY ArgsLemma DEF Init, Episode!Init, StageOf, Grippers, Open, Closed
<1>2. IInv /\ IInv' /\ args.latch /\ [Next]_vars => [Episode!Next]_(Episode!vars)
  BY FingersIsEpisode, LoopIsEpisode DEF EpisodeStep
<1>3. args.latch /\ [Next]_vars => (args.latch)'
  BY LatchStays
<1> QED  BY <1>1, <1>2, <1>3, Invariant, PTL DEF Spec, ImplementsEpisode, Episode!Spec

-------------------------------------------------------------------------------
(* What the heartbeat repeats, and what the summary reports *)

\* The command that the heartbeat repeats is the main thread's idea of it, at
\* every point of the loop, and there is none after the end.
HeartbeatAgrees ==
  held = IF pc = "done" THEN NoCommand ELSE [z |-> target, gripper |-> last]

\* The outcome is what has happened: a completed run has confirmed its one
\* grasp and released it, a finished one has made none or still holds one that
\* was confirmed.
OutcomeIsTrue ==
  /\ outcome = "completed" =>
       last = Open /\ grasp.phase = "confirmed" /\ grasp.attempts = 1
  /\ outcome = "finished" =>
       IF grasp.attempts = 0 THEN grasp.phase = "none"
                             ELSE grasp.phase = "confirmed" /\ last = Closed

LEMMA AgreesStep ==
  ASSUME HeartbeatAgrees, [Next]_vars
  PROVE  HeartbeatAgrees'
<1>1. ASSUME NEW result, End(result) PROVE HeartbeatAgrees'
  BY <1>1 DEF End, HeartbeatAgrees
<1>2. ASSUME NEW g, NEW m, pc # "done", pc' # "done", UNCHANGED last,
             target' = Target(g, m), held' = Held(g, m)
      PROVE  HeartbeatAgrees'
  BY <1>2 DEF Target, Held, HeartbeatAgrees
<1>3. CASE Finish
  BY <1>1, <1>3 DEF Finish
<1>4. ASSUME NEW m, NEW dt, Request(m, dt) PROVE HeartbeatAgrees'
  <2> DEFINE g == Checked(Aged(grasp, dt), m)
  <2>1. \/ End("aborted")
        \/ /\ pc # "done" /\ pc' # "done" /\ UNCHANGED last
           /\ target' = Target(g, m) /\ held' = Held(g, m)
    BY <1>4 DEF Request
  <2> QED  BY <1>1, <1>2, <2>1
<1>5. ASSUME NEW asked, NEW move, NEW m, NEW dt, NEW outside,
             Act(asked, move, m, dt, outside)
      PROVE  HeartbeatAgrees'
  <2>1. \/ End("aborted")
        \/ pc' = "holding" /\ held' = [z |-> target', gripper |-> last']
    BY <1>5 DEF Act
  <2> QED  BY <1>1, <2>1 DEF HeartbeatAgrees
<1>6. ASSUME NEW m, NEW dt, NEW fault, Hold(m, dt, fault) PROVE HeartbeatAgrees'
  <2> DEFINE g == Checked(Aged(grasp, dt), m)
  <2>1. \/ End("aborted")
        \/ /\ pc # "done" /\ pc' # "done" /\ UNCHANGED last
           /\ target' = Target(g, m) /\ held' = Held(g, m)
    BY <1>6 DEF Hold
  <2> QED  BY <1>1, <1>2, <2>1
<1>7. ASSUME NEW wide, NEW fresh, AwaitRelease(wide, fresh) PROVE HeartbeatAgrees'
  <2>1. \/ End("aborted") \/ End("completed")
        \/ UNCHANGED <<pc, held, target, last>>
    BY <1>7 DEF AwaitRelease
  <2> QED  BY <1>1, <2>1 DEF HeartbeatAgrees
<1>8. ASSUME NEW request, NEW first, NEW n, NEW z, Respond(request, first, n, z)
      PROVE  HeartbeatAgrees'
  <2>1. \/ End("aborted")
        \/ /\ pc # "done" /\ pc' # "done" /\ UNCHANGED last
           /\ \/ held' = [z |-> target', gripper |-> last]
              \/ UNCHANGED <<held, target>>
    BY <1>8 DEF Respond
  <2> QED  BY <1>1, <2>1 DEF HeartbeatAgrees
<1>9. CASE ServerFails \/ Excessive \/ Interrupt
  BY <1>1, <1>9 DEF ServerFails, Excessive, Interrupt
<1>10. CASE Ended \/ UNCHANGED vars
  BY <1>10 DEF Ended, vars, HeartbeatAgrees
<1> QED
  BY <1>3, <1>4, <1>5, <1>6, <1>7, <1>8, <1>9, <1>10 DEF Next, Proceed, Answer

\* Wherever the loop stands, also while it waits for the policy server, the
\* heartbeat repeats the target and the gripper value that the loop itself goes
\* on from; the places that re-anchor, rebase and clip never forget to tell it
\* (set_held_command and its callers in main).
THEOREM HeartbeatCorrect == Spec => []HeartbeatAgrees
<1>1. Init => HeartbeatAgrees
  BY DEF Init, HeartbeatAgrees
<1> QED  BY <1>1, AgreesStep, PTL DEF Spec

LEMMA OutcomeStep ==
  ASSUME IInv, OutcomeIsTrue, [Next]_vars
  PROVE  OutcomeIsTrue'
<1>1. ASSUME End("aborted") PROVE OutcomeIsTrue'
  BY <1>1 DEF End, OutcomeIsTrue
<1>2. ASSUME UNCHANGED outcome, pc # "done" PROVE OutcomeIsTrue'
  BY <1>2 DEF IInv, PhaseInv, OutcomeIsTrue
<1>3. CASE Finish
  <2>1. \/ End("aborted")
        \/ End("finished") /\ grasp.phase \notin Validating /\ pc = "loop"
    BY <1>3 DEF Finish
  <2>2. CASE End("finished") /\ grasp.phase \notin Validating /\ pc = "loop"
    <3>1. grasp.phase \in {"none", "confirmed"}
      BY <2>2 DEF IInv, TypeOK, Validating
    <3>2. ~chunk.release
      BY <2>2 DEF IInv, PhaseInv
    <3>3. grasp.phase = "none" <=> grasp.attempts = 0
      BY DEF IInv, PhaseInv
    <3>4. last = Open => grasp.phase = "none"
      BY <3>2 DEF IInv, PhaseInv
    <3>5. last \in {Open, Closed}
      BY DEF IInv, TypeOK, Grippers
    <3>6. UNCHANGED <<grasp, last>> /\ outcome' = "finished"
      BY <2>2 DEF End
    <3> QED  BY <3>1, <3>3, <3>4, <3>5, <3>6 DEF OutcomeIsTrue
  <2> QED  BY <1>1, <2>1, <2>2
<1>4. ASSUME NEW wide, NEW fresh, AwaitRelease(wide, fresh) PROVE OutcomeIsTrue'
  <2>1. pc = "releasing"
    BY <1>4 DEF AwaitRelease
  <2>2. last = Open /\ grasp.phase = "confirmed" /\ grasp.attempts # 0 /\ grasp.attempts <= 1
    BY <2>1 DEF IInv, PhaseInv
  <2>3. grasp.attempts = 1
    BY <2>2, ArgsLemma DEF IInv, TypeOK
  <2>4. End("aborted") \/ End("completed") \/ UNCHANGED outcome
    BY <1>4 DEF AwaitRelease
  <2>5. CASE End("completed")
    BY <2>2, <2>3, <2>5 DEF End, OutcomeIsTrue
  <2> QED  BY <1>1, <1>2, <2>1, <2>4, <2>5
<1>5. ASSUME NEW m, NEW dt, Request(m, dt) PROVE OutcomeIsTrue'
  <2>1. pc = "loop" /\ (End("aborted") \/ UNCHANGED outcome)
    BY <1>5 DEF Request
  <2> QED  BY <1>1, <1>2, <2>1
<1>6. ASSUME NEW asked, NEW move, NEW m, NEW dt, NEW outside,
             Act(asked, move, m, dt, outside)
      PROVE  OutcomeIsTrue'
  <2>1. pc = "action" /\ (End("aborted") \/ UNCHANGED outcome)
    BY <1>6 DEF Act
  <2> QED  BY <1>1, <1>2, <2>1
<1>7. ASSUME NEW m, NEW dt, NEW fault, Hold(m, dt, fault) PROVE OutcomeIsTrue'
  <2>1. pc = "holding" /\ (End("aborted") \/ UNCHANGED outcome)
    BY <1>7 DEF Hold
  <2> QED  BY <1>1, <1>2, <2>1
<1>8. ASSUME NEW request, NEW first, NEW n, NEW z, Respond(request, first, n, z)
      PROVE  OutcomeIsTrue'
  <2>1. pc = "request" /\ (End("aborted") \/ UNCHANGED outcome)
    BY <1>8 DEF Respond
  <2> QED  BY <1>1, <1>2, <2>1
<1>9. CASE ServerFails \/ Excessive \/ Interrupt
  BY <1>1, <1>9 DEF ServerFails, Excessive, Interrupt
<1>10. CASE Ended \/ UNCHANGED vars
  BY <1>10 DEF Ended, vars, OutcomeIsTrue
<1> QED
  BY <1>3, <1>4, <1>5, <1>6, <1>7, <1>8, <1>9, <1>10 DEF Next, Proceed, Answer

\* Whatever ends a deployment, and with or without the latch: "completed" is
\* reported only of a grasp that was confirmed and released, and a run that
\* ends regularly without it leaves no grasp of which it does not know that it
\* holds (the summary of main, wait_for_physical_release).
THEOREM OutcomeCorrect == Spec => []OutcomeIsTrue
<1>1. Init => OutcomeIsTrue
  BY DEF Init, OutcomeIsTrue
<1> QED  BY <1>1, OutcomeStep, Invariant, PTL DEF Spec

-------------------------------------------------------------------------------
(* The deadlines of a grasp *)

\* DeadlinesHold of a grasp while the loop goes on.
InTime(g) ==
  /\ g.phase = "closing" /\ g.age >= args.width_timeout => g.stable # Never
  /\ g.phase = "lifting" => g.lifted <= args.lift_timeout

LEMMA LiftInTime ==
  ASSUME TypeOK, NEW g \in GraspType(Phases), g.phase \in {"lifting", "confirmed"}, NEW m
  PROVE  InTime(CheckedLift(g, m))
<1>1. CheckedLift(g, m) \in {Failed(g), [g EXCEPT !.phase = "confirmed"], g}
  BY DEF CheckedLift
<1>2. CheckedLift(g, m) = g /\ g.phase = "lifting" => ~(g.lifted > args.lift_timeout)
  <2>1. Failed(g) # g \/ g.phase # "lifting"
    BY DEF Failed, GraspType
  <2>2. [g EXCEPT !.phase = "confirmed"] # g \/ g.phase # "lifting"
    BY DEF GraspType
  <2> QED  BY <2>1, <2>2 DEF CheckedLift
<1>3. g.lifted \in 0..(args.lift_timeout + 1) /\ args.lift_timeout \in Nat
  BY ArgsLemma DEF TypeOK, GraspType
<1>4. CheckedLift(g, m) = g => InTime(g)
  BY <1>2, <1>3 DEF InTime
<1>5. InTime(Failed(g)) /\ InTime([g EXCEPT !.phase = "confirmed"])
  BY DEF InTime, Failed, GraspType
<1> QED  BY <1>1, <1>4, <1>5

LEMMA WidthInTime ==
  ASSUME TypeOK, NEW g \in GraspType(Phases), g.phase = "closing", NEW m \in Measurements
  PROVE  InTime(CheckedWidth(g, m))
<1> DEFINE h == [g EXCEPT !.low = IF m.z < @ THEN m.z ELSE @]
           l == [h EXCEPT !.phase = "lifting"]
<1>1. /\ h \in GraspType(Phases) /\ h.phase = "closing"
      /\ h.age = g.age /\ h.stable = g.stable
  BY DEF GraspType, Measurements
<1>2. l \in GraspType(Phases) /\ l.phase = "lifting"
  BY <1>1 DEF GraspType, Phases
<1>3. InTime(CheckedLift(l, m))
  BY <1>2, LiftInTime
<1>4. /\ args.check_delay \in Nat /\ args.width_timeout \in Nat
      /\ args.check_delay < args.width_timeout /\ h.age \in Nat
  BY <1>1, ArgsLemma, ArgsAssumption DEF TypeOK, GraspType
<1>5. ASSUME h.age < args.check_delay \/ h.stable # Never PROVE InTime(h)
  BY <1>1, <1>4, <1>5 DEF InTime
<1>6. ASSUME h.age < args.width_timeout PROVE InTime([h EXCEPT !.stable = Never])
  BY <1>1, <1>4, <1>6 DEF InTime, GraspType
<1>7. InTime([h EXCEPT !.stable = 0])
  BY <1>1 DEF InTime, GraspType, Never
<1>8. InTime(Failed(h))
  BY <1>1 DEF InTime, Failed, GraspType
<1>9. \/ CheckedWidth(g, m) = h /\ (h.age < args.check_delay \/ h.stable # Never)
      \/ CheckedWidth(g, m) = [h EXCEPT !.stable = Never] /\ h.age < args.width_timeout
      \/ CheckedWidth(g, m) \in {[h EXCEPT !.stable = 0], Failed(h), CheckedLift(l, m)}
  BY DEF CheckedWidth
<1> HIDE DEF h, l
<1> QED  BY <1>3, <1>5, <1>6, <1>7, <1>8, <1>9

LEMMA LookInTime ==
  ASSUME IInv, pc # "done", NEW m \in Measurements, NEW dt \in args.delays
  PROVE  InTime(Checked(Aged(grasp, dt), m))
<1> DEFINE a == Aged(grasp, dt)
<1>1. a \in GraspType(Phases) /\ a.phase = grasp.phase /\ TypeOK
  BY AgedLemma DEF IInv
<1> SUFFICES InTime(Checked(a, m))  OBVIOUS
<1> HIDE DEF a
<1>2. CASE last = Open \/ a.phase = "none"
  <2>1. Checked(a, m) = a  BY <1>2 DEF Checked
  <2>2. a.phase \notin {"closing", "lifting"}
    BY <1>1, <1>2 DEF IInv, PhaseInv, Validating, Open, Closed
  <2> QED  BY <2>1, <2>2 DEF InTime
<1>3. CASE ~(last = Open \/ a.phase = "none") /\ ~m.fresh
  <2>1. Checked(a, m) = Failed(a)  BY <1>3 DEF Checked
  <2> QED  BY <1>1, <2>1 DEF InTime, Failed, GraspType
<1>4. CASE ~(last = Open \/ a.phase = "none") /\ m.fresh /\ a.phase = "closing"
  <2>1. Checked(a, m) = CheckedWidth(a, m)  BY <1>4 DEF Checked
  <2> QED  BY <1>1, <1>4, <2>1, WidthInTime
<1>5. CASE ~(last = Open \/ a.phase = "none") /\ m.fresh /\ a.phase # "closing"
  <2>1. Checked(a, m) = CheckedLift(a, m)  BY <1>5 DEF Checked
  <2>2. a.phase \in {"lifting", "confirmed"}
    BY <1>1, <1>5 DEF GraspType, Phases
  <2> QED  BY <1>1, <2>1, <2>2, LiftInTime
<1> QED  BY <1>2, <1>3, <1>4, <1>5

LEMMA DeadlinesStep ==
  ASSUME IInv, DeadlinesHold, [Next]_vars
  PROVE  DeadlinesHold'
<1>1. ASSUME NEW result, End(result) PROVE DeadlinesHold'
  BY <1>1 DEF End, DeadlinesHold
<1>2. ASSUME UNCHANGED <<grasp, args>>, pc # "done" PROVE DeadlinesHold'
  BY <1>2 DEF DeadlinesHold
<1>3. ASSUME UNCHANGED args, InTime(grasp') PROVE DeadlinesHold'
  BY <1>3 DEF DeadlinesHold, InTime
<1>4. ASSUME UNCHANGED args, NEW m \in Measurements, NEW dt \in args.delays, Request(m, dt)
      PROVE  DeadlinesHold'
  <2>1. pc # "done" /\ (End("aborted") \/ grasp' = Checked(Aged(grasp, dt), m))
    BY <1>4 DEF Request
  <2> QED  BY <1>1, <1>3, <1>4, <2>1, LookInTime
<1>5. ASSUME UNCHANGED args, NEW m \in Measurements, NEW dt \in args.delays,
             NEW fault, Hold(m, dt, fault)
      PROVE  DeadlinesHold'
  <2>1. pc # "done" /\ (End("aborted") \/ grasp' = Checked(Aged(grasp, dt), m))
    BY <1>5 DEF Hold
  <2> QED  BY <1>1, <1>3, <1>5, <2>1, LookInTime
<1>6. ASSUME UNCHANGED args, NEW m \in Measurements, NEW dt \in args.delays,
             NEW asked, NEW move, NEW outside, Act(asked, move, m, dt, outside)
      PROVE  DeadlinesHold'
  <2>1. /\ pc # "done"
        /\ \/ End("aborted")
           \/ grasp' = Checked(Aged(grasp, dt), m)
           \/ \E g, z : grasp' = Grasped(g, z, m)
    BY <1>6 DEF Act
  <2>2. ASSUME NEW g, NEW z PROVE InTime(Grasped(g, z, m))
    <3>1. args.width_timeout \in Nat /\ ~(0 >= args.width_timeout)
      BY ArgsLemma, ArgsAssumption DEF IInv, TypeOK
    <3> QED  BY <3>1 DEF InTime, Grasped
  <2> QED  BY <1>1, <1>3, <1>6, <2>1, <2>2, LookInTime
<1>7. ASSUME UNCHANGED args, NEW wide, NEW fresh, AwaitRelease(wide, fresh)
      PROVE  DeadlinesHold'
  <2>1. pc # "done" /\ (End("aborted") \/ End("completed") \/ UNCHANGED grasp)
    BY <1>7 DEF AwaitRelease
  <2> QED  BY <1>1, <1>2, <1>7, <2>1
<1>8. ASSUME UNCHANGED args, NEW request, NEW first, NEW n, NEW z,
             Respond(request, first, n, z)
      PROVE  DeadlinesHold'
  <2>1. pc # "done" /\ UNCHANGED grasp  BY <1>8 DEF Respond
  <2> QED  BY <1>2, <1>8, <2>1
<1>9. CASE Finish \/ ServerFails \/ Excessive \/ Interrupt
  BY <1>1, <1>9 DEF Finish, ServerFails, Excessive, Interrupt
<1>10. CASE UNCHANGED vars
  BY <1>10 DEF vars, DeadlinesHold
<1> QED
  BY <1>4, <1>5, <1>6, <1>7, <1>8, <1>9, <1>10 DEF Next, Proceed, Answer, Ended

\* However much time passes between two looks, with or without the latch and
\* the hold: past the close timeout the fingers go on closing only around a
\* width that was valid when last looked at, and no lift is pending past its
\* deadline (update_active_grasp).
THEOREM DeadlinesKept == Spec => []DeadlinesHold
<1>1. Init => DeadlinesHold
  BY DEF Init, DeadlinesHold
<1> QED  BY <1>1, DeadlinesStep, Invariant, PTL DEF Spec
===============================================================================
