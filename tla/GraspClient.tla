----------------------------- MODULE GraspClient -----------------------------
(***************************************************************************)
(* The control loop of starvla_franka_delta_pose_client.py, run with       *)
(* --execute and a gripper: it asks the policy server for action chunks,   *)
(* debounces their gripper votes, holds the arm still while the fingers    *)
(* close, validates a grasp by finger width and lift, and ends after a     *)
(* confirmed release.                                                      *)
(*                                                                         *)
(* Positions are heights (the z of the code); leaving the workspace in x   *)
(* or y may happen at every action.  Time is counted in ticks; any of      *)
(* args.delays ticks may pass between two looks at the clock.  Widths are  *)
(* the classes of classify_grasp_width.                                    *)
(***************************************************************************)
EXTENDS Integers

CONSTANTS
  CommandLines, \* the command lines it can be started with, see ArgsAssumption
  Heights,  \* what the arm's height can be measured as
  Moves,    \* what an action can ask for after translation_scale and the norm clip
  NoAnchor  \* None: the close hold is not active

Open == "open"
Closed == "closed"
NoConsensus == "none"
Past == "past" \* of the first action of a chunk: it has been executed
Grippers == {Open, Closed}
Widths == {"empty", "too_narrow", "valid", "too_wide"}

\* main checks these before it starts (lines 1407-1517).
ASSUME ArgsAssumption ==
  \A args \in CommandLines :
    /\ args.confirmations \in Nat \ {0}
    /\ args.horizon \in Nat \ {0}
    /\ args.max_steps \in Nat
    /\ args.max_attempts \in Nat \ {0}
    /\ args.initial \in Grippers
    /\ {args.latch, args.close_hold} \subseteq BOOLEAN
    /\ args.min_z \in Int /\ args.max_z \in Int /\ args.min_z < args.max_z
    /\ args.check_delay \in Nat \ {0}
    /\ args.width_timeout \in Nat /\ args.check_delay < args.width_timeout
    /\ {args.stable_time, args.lift_timeout, args.min_lift} \subseteq Nat \ {0}
    /\ {args.max_descent, args.max_lift} \subseteq Nat \ {0}
    /\ args.release_stable \in Nat \ {0}
    /\ args.release_timeout \in Nat /\ args.release_stable < args.release_timeout
    /\ args.delays \subseteq Nat
    /\ Heights \subseteq Int /\ NoAnchor \notin Heights
    /\ Moves \subseteq Int

VARIABLES
  args,    \* the command line; args.delays are the ticks one turn may take
  pc,      \* where the loop stands
  steps,   \* steps_done
  chunk,   \* [left, first, latch, release]: what is left of the chunk, the
           \* gripper value of its first action while that is ahead
  filter,  \* [state, pending, count]: gripper_state and the votes to change it
  last,    \* last_published_gripper
  grasp,   \* [phase, attempts, origin, low, age, stable, lifted]
  anchor,  \* the pose of the close hold while it is active
  target,  \* target_position
  held,    \* the command given to the heartbeat: [z, gripper]
  opening, \* [age, stable]: in wait_for_physical_release
  votes,   \* history: [close, open], consecutive requests that asked for it
  outcome

vars == <<args, pc, steps, chunk, filter, last, grasp, anchor, target, held, opening, votes, outcome>>

NoCommand == [z |-> 0, gripper |-> "none"]
Never == -1 \* in "stable": the width is not in range

Capped(n, bound) == IF n > bound THEN bound ELSE n

Clip(z) == IF z < args.min_z THEN args.min_z ELSE IF z > args.max_z THEN args.max_z ELSE z

-------------------------------------------------------------------------------
(* update_active_grasp *)

\* Variant: the lift does not count as validation.
ValidatingWidth == {"closing"}

\* grasp_closing_pending or grasp_lift_pending
Validating == {"closing", "lifting"}

\* dt ticks later; bound: times are not counted past the moment they expire.
Aged(g, dt) ==
  [g EXCEPT
    !.age = IF g.phase = "closing" THEN Capped(@ + dt, args.width_timeout + 1) ELSE @,
    !.stable = IF g.phase = "closing" /\ @ # Never THEN Capped(@ + dt, args.stable_time) ELSE @,
    !.lifted = IF g.phase = "lifting" THEN Capped(@ + dt, args.lift_timeout + 1) ELSE @]

Failed(g) == [g EXCEPT !.phase = "failed"]

\* Variant: the lift is waited for without a deadline.
CheckedLiftForever(g, m) ==
  IF m.width # "valid" THEN Failed(g)
  ELSE IF g.phase = "confirmed" THEN g
  ELSE IF m.z - g.low >= args.min_lift THEN [g EXCEPT !.phase = "confirmed"]
  ELSE g

\* The part for a closed grasp: keep the width, wait for the lift.
CheckedLift(g, m) ==
  IF m.width # "valid" THEN Failed(g)
  ELSE IF g.phase = "confirmed" THEN g
  ELSE IF m.z - g.low >= args.min_lift THEN [g EXCEPT !.phase = "confirmed"]
  ELSE IF g.lifted > args.lift_timeout THEN Failed(g)
  ELSE g

\* The part for closing fingers; after validation the lift is looked at at once.
CheckedWidth(g0, m) ==
  LET g == [g0 EXCEPT !.low = IF m.z < @ THEN m.z ELSE @] IN
  IF g.age < args.check_delay THEN g
  ELSE IF m.width = "too_wide" /\ g.age < args.width_timeout
    THEN [g EXCEPT !.stable = Never]
  ELSE IF m.width # "valid" THEN Failed(g)
  ELSE IF g.stable = Never THEN [g EXCEPT !.stable = 0]
  ELSE IF g.stable < args.stable_time THEN g
  ELSE CheckedLift([g EXCEPT !.phase = "lifting"], m)

\* The grasp after update_active_grasp has looked at the measurement m.
Checked(g, m) ==
  IF last = Open \/ g.phase = "none" THEN g
  ELSE IF ~m.fresh THEN Failed(g)
  ELSE IF g.phase = "closing" THEN CheckedWidth(g, m)
  ELSE CheckedLift(g, m)

Measurements == [width : Widths, z : Heights, fresh : BOOLEAN]

\* Validation ends the close hold and rebases the target to the measured pose.
LeavesHold(g) == anchor # NoAnchor /\ g.phase \in {"lifting", "confirmed"}
Anchor(g) == IF LeavesHold(g) THEN NoAnchor ELSE anchor
Target(g, m) == IF LeavesHold(g) THEN m.z ELSE target
Held(g, m) == IF LeavesHold(g) THEN [z |-> m.z, gripper |-> last] ELSE held

-------------------------------------------------------------------------------
(* The ends of main: summary, exception, finally (stop_held_command) *)

End(result) ==
  /\ outcome' = result
  /\ pc' = "done"
  /\ held' = NoCommand
  /\ UNCHANGED <<steps, chunk, filter, last, grasp, anchor, target, opening, votes>>

\* max_steps is reached, or ROS is shut down at the loop head.
Finish ==
  /\ pc = "loop"
  /\ End(IF grasp.phase \in Validating THEN "aborted" ELSE "finished")

-------------------------------------------------------------------------------
(* One policy request *)

Request(m, dt) ==
  /\ pc = "loop"
  /\ steps < args.max_steps
  /\ LET g == Checked(Aged(grasp, dt), m) IN
     IF g.phase = "failed" \/ ~m.fresh
       THEN End("aborted")
       ELSE /\ grasp' = g
            /\ anchor' = Anchor(g)
            /\ target' = Target(g, m)
            /\ held' = Held(g, m)
            /\ chunk' = [left |-> 0, first |-> Past, release |-> FALSE,
                         latch |-> args.latch /\ g.phase \in Validating]
            /\ pc' = "request"
            /\ UNCHANGED <<steps, filter, last, opening, votes, outcome>>

\* The server answers with an error, or the connection breaks.
ServerFails ==
  /\ pc = "request"
  /\ End("aborted")

\* Variants: votes are counted while the latch holds the fingers closed;
\* a chunk without consensus does not interrupt the count.
DebouncedUnlatched(request) ==
  IF request \in {NoConsensus, filter.state}
    THEN [filter EXCEPT !.pending = NoConsensus, !.count = 0]
  ELSE LET n == IF filter.pending = request THEN filter.count + 1 ELSE 1 IN
    IF n >= args.confirmations
      THEN [state |-> request, pending |-> NoConsensus, count |-> 0]
      ELSE [filter EXCEPT !.pending = request, !.count = n]
DebouncedLeniently(request) ==
  IF request = NoConsensus /\ ~chunk.latch THEN filter
  ELSE IF chunk.latch THEN [state |-> Closed, pending |-> NoConsensus, count |-> 0]
  ELSE DebouncedUnlatched(request)

\* The votes of consecutive requests; an active latch drops them.
Debounced(request) ==
  IF chunk.latch
    THEN [state |-> Closed, pending |-> NoConsensus, count |-> 0]
  ELSE IF request \in {NoConsensus, filter.state}
    THEN [state |-> filter.state, pending |-> NoConsensus, count |-> 0]
  ELSE LET n == IF filter.pending = request THEN filter.count + 1 ELSE 1 IN
    IF n >= args.confirmations
      THEN [state |-> request, pending |-> NoConsensus, count |-> 0]
      ELSE [state |-> filter.state, pending |-> request, count |-> n]

\* Variant: an active hold is never cancelled.
HoldForever(candidate) ==
  IF ~args.close_hold THEN "inactive"
  ELSE IF anchor # NoAnchor THEN "keep"
  ELSE IF last = Open /\ grasp.phase \notin Validating /\ candidate THEN "activate"
  ELSE "inactive"

\* synchronized_close_hold_transition
HoldTransition(candidate) ==
  LET started == last = Closed \/ grasp.phase \in Validating IN
  IF ~args.close_hold THEN "inactive"
  ELSE IF anchor # NoAnchor THEN IF started \/ candidate THEN "keep" ELSE "cancel"
  ELSE IF ~started /\ candidate THEN "activate"
  ELSE "inactive"

\* History: close and open requests in a row, the latter for a confirmed grasp.
Voted(request) ==
  LET asked == args.confirmations = 1 IN
  [close |-> IF asked \/ request = Closed
               THEN Capped(votes.close + 1, args.confirmations) ELSE 0,
   open |-> IF grasp.phase = "confirmed" /\ (asked \/ request = Open)
              THEN Capped(votes.open + 1, args.confirmations) ELSE 0]

\* The chunk has arrived: request is the consensus of all its actions, n of
\* them will be executed, first is the gripper value of the first of these, z
\* the pose measured now.
Respond(request, first, n, z) ==
  /\ pc = "request"
  /\ LET change == HoldTransition(IF args.confirmations > 1 THEN request = Closed
                                  ELSE first = Closed)
     IN /\ filter' = IF args.confirmations > 1 THEN Debounced(request) ELSE filter
        /\ anchor' = IF change = "activate" THEN z
                     ELSE IF change = "cancel" THEN NoAnchor ELSE anchor
        /\ IF change \in {"activate", "cancel"}
             THEN target' = z /\ held' = [z |-> z, gripper |-> last]
             ELSE UNCHANGED <<target, held>>
        /\ votes' = Voted(request)
        /\ chunk' = [chunk EXCEPT !.left = n, !.first = first]
        /\ pc' = "action"
        /\ UNCHANGED <<steps, last, grasp, opening, outcome>>

\* An action of the chunk is excessive: the run ends before the first of them.
Excessive ==
  /\ pc = "action" /\ chunk.first # Past
  /\ End("aborted")

-------------------------------------------------------------------------------
(* One action of the chunk *)

\* What the model asks of the gripper in this action.
Asks(gripper) ==
  /\ args.confirmations > 1 => gripper = filter.state
  /\ args.confirmations = 1 /\ chunk.first # Past => gripper = chunk.first

\* Variant: the chunk forgets that it was requested during validation.
LatchesNow(g) == args.latch /\ g.phase \in Validating

Latches(g) == chunk.latch \/ (args.latch /\ g.phase \in Validating)

\* apply_gripper_close_latch
Latched(gripper, g) == IF Latches(g) THEN Closed ELSE gripper

Closes(gripper) == last = Open /\ gripper = Closed
Opens(gripper) == last = Closed /\ gripper = Open

\* enforce_physical_grasp_transition
Enforced(gripper, g) ==
  /\ Closes(gripper) => g.attempts < args.max_attempts
  /\ Opens(gripper) => g.phase \notin Validating

\* Variant: a held arm follows the policy.
CandidateFree(g, m, move) == Target(g, m) + move

Candidate(g, m, move) == IF Anchor(g) # NoAnchor THEN Anchor(g) ELSE Target(g, m) + move

\* Variant: motion is not bounded while the fingers close.
Unlimited(z, g) == z

\* constrain_closing_target
Limited(z, g) ==
  IF g.phase # "closing" \/ Anchor(g) # NoAnchor THEN z
  ELSE IF z < g.origin - args.max_descent THEN g.origin - args.max_descent
  ELSE IF z > g.origin + args.max_lift THEN g.origin + args.max_lift
  ELSE z

Grasped(g, z, m) ==
  [phase |-> "closing", attempts |-> g.attempts + 1, origin |-> z, low |-> m.z,
   age |-> 0, stable |-> Never, lifted |-> 0]

\* Variant: the release of a grasp is not noticed.
NotReleased(gripper, g) == FALSE

\* successful_release
Releases(gripper, g) == Opens(gripper) /\ g.phase = "confirmed"

\* m.z is also measured_position: the lowest height starts from it.  A target
\* rebased by the check is at once replaced by this action's.
Act(asked, move, m, dt, outside) ==
  /\ pc = "action"
  /\ Asks(asked)
  /\ LET g == Checked(Aged(grasp, dt), m)
         gripper == Latched(asked, g)
         z == Limited(Clip(Candidate(g, m, move)), g)
     IN IF g.phase = "failed" \/ ~Enforced(gripper, g) \/ outside
          THEN End("aborted")
          ELSE /\ grasp' = IF Closes(gripper) THEN Grasped(g, z, m) ELSE g
               /\ anchor' = Anchor(g)
               /\ target' = z
               /\ filter' = [state |-> IF args.confirmations = 1 THEN gripper ELSE filter.state,
                             pending |-> IF Closes(gripper) THEN NoConsensus ELSE filter.pending,
                             count |-> IF Closes(gripper) THEN 0 ELSE filter.count]
               /\ chunk' = [chunk EXCEPT
                             !.left = @ - 1,
                             !.first = Past,
                             !.latch = IF Closes(gripper) THEN args.latch ELSE Latches(g),
                             !.release = Releases(gripper, g)]
               /\ last' = gripper
               /\ held' = [z |-> z, gripper |-> gripper]
               /\ steps' = steps + 1
               /\ pc' = "holding"
               /\ UNCHANGED <<opening, votes, outcome>>

\* The action is held for its period, then the grasp is looked at again; fault:
\* the ROS executor died meanwhile.
Hold(m, dt, fault) ==
  /\ pc = "holding"
  /\ LET g == Checked(Aged(grasp, dt), m) IN
     IF fault \/ g.phase = "failed"
       THEN End("aborted")
       ELSE /\ grasp' = g
            /\ anchor' = Anchor(g)
            /\ target' = Target(g, m)
            /\ held' = Held(g, m)
            /\ opening' = [age |-> 0, stable |-> Never]
            /\ pc' = IF chunk.release THEN "releasing"
                     ELSE IF chunk.left > 0 /\ steps < args.max_steps THEN "action"
                     ELSE "loop"
            /\ UNCHANGED <<steps, chunk, filter, last, votes, outcome>>

-------------------------------------------------------------------------------
(* wait_for_physical_release, one turn of its loop; fresh: the feedback is     *)
(* fresh, ROS and the executor are up.                                       *)

\* Variant: the release is waited for without limit.
ReleaseNeverExpires(age) == FALSE

ReleaseExpired(age) == age >= args.release_timeout

AwaitRelease(wide, fresh) ==
  /\ pc = "releasing"
  /\ LET stable == IF ~wide THEN Never ELSE IF opening.stable = Never THEN 0 ELSE opening.stable
     IN IF ~fresh THEN End("aborted")
        ELSE IF stable >= args.release_stable THEN End("completed")
        ELSE IF ReleaseExpired(opening.age) THEN End("aborted")
        ELSE /\ opening' = [age |-> Capped(opening.age + 1, args.release_timeout),
                            stable |-> IF stable = Never THEN Never ELSE stable + 1]
             /\ UNCHANGED <<pc, steps, chunk, filter, last, grasp, anchor, target, held,
                            votes, outcome>>

-------------------------------------------------------------------------------
Init ==
  /\ args \in CommandLines
  /\ pc = "loop"
  /\ steps = 0
  /\ chunk = [left |-> 0, first |-> Past, latch |-> FALSE, release |-> FALSE]
  /\ filter = [state |-> args.initial, pending |-> NoConsensus, count |-> 0]
  /\ last = args.initial
  /\ grasp = [phase |-> "none", attempts |-> 0, origin |-> 0, low |-> 0,
              age |-> 0, stable |-> Never, lifted |-> 0]
  /\ anchor = NoAnchor
  /\ target \in Heights
  /\ held = [z |-> target, gripper |-> args.initial]
  /\ opening = [age |-> 0, stable |-> Never]
  /\ votes = [close |-> 0, open |-> 0]
  /\ outcome = "running"

\* Ctrl-C, or an exception that is not named above, wherever the loop stands.
Interrupt ==
  /\ pc # "done"
  /\ End("aborted")

\* The program has ended.
Ended == pc = "done" /\ UNCHANGED vars

Proceed ==
  \/ Finish \/ Excessive
  \/ \E m \in Measurements, dt \in args.delays : Request(m, dt)
  \/ \E m \in Measurements, dt \in args.delays, asked \in Grippers, move \in Moves,
        outside \in BOOLEAN : Act(asked, move, m, dt, outside)
  \/ \E m \in Measurements, dt \in args.delays, fault \in BOOLEAN : Hold(m, dt, fault)
  \/ \E wide \in BOOLEAN, fresh \in BOOLEAN : AwaitRelease(wide, fresh)

Answer ==
  \/ ServerFails
  \/ \E request \in Grippers \union {NoConsensus}, first \in Grippers,
        n \in 1..args.horizon, z \in Heights : Respond(request, first, n, z)

Next == UNCHANGED args /\ (Proceed \/ Answer \/ Interrupt \/ Ended)

Spec == Init /\ [][Next]_vars

\* The client's thread runs on; the server answers or closes the connection.
FairSpec == Spec /\ WF_vars(UNCHANGED args /\ Proceed) /\ WF_vars(UNCHANGED args /\ Answer)

\* The same client with a server that may stay silent: the socket has no timeout.
SilentServerSpec == Spec /\ WF_vars(UNCHANGED args /\ Proceed)

-------------------------------------------------------------------------------
(* Properties *)

Positions == Heights \union (args.min_z..args.max_z)

TypeOK ==
  /\ args \in CommandLines
  /\ pc \in {"loop", "request", "action", "holding", "releasing", "done"}
  /\ steps \in 0..args.max_steps
  /\ chunk \in [left : 0..args.horizon, first : Grippers \union {Past},
                latch : BOOLEAN, release : BOOLEAN]
  /\ filter \in [state : Grippers, pending : Grippers \union {NoConsensus},
                 count : 0..(args.confirmations - 1)]
  /\ last \in Grippers
  /\ grasp \in [phase : {"none", "closing", "lifting", "confirmed"},
                attempts : 0..args.max_attempts,
                origin : Positions \union {0}, low : Heights \union {0},
                age : 0..(args.width_timeout + 1), stable : -1..args.stable_time,
                lifted : 0..(args.lift_timeout + 1)]
  /\ anchor \in Heights \union {NoAnchor}
  /\ target \in Positions
  /\ held \in [z : Positions, gripper : Grippers] \union {NoCommand}
  /\ opening \in [age : 0..args.release_timeout, stable : -1..args.release_stable]
  /\ votes \in [close : 0..args.confirmations, open : 0..args.confirmations]
  /\ outcome \in {"running", "aborted", "finished", "completed"}

\* A deployment closes the fingers at most once, whatever --max-grasp-attempts
\* allows: a grasp that fails ends it, and so does the release of one that held.
OneAttempt == grasp.attempts <= 1

\* The fingers close only when as many consecutive requests as configured have
\* asked for it (--gripper-switch-confirmations).
CloseWasVoted ==
  [][last = Open /\ last' = Closed => votes.close >= args.confirmations]_vars

\* No grasp outlasts its deadlines unnoticed, however late the loop looks: past
\* the close timeout the fingers go on closing only around a width that was
\* valid at the last look, and a lift is confirmed or given up by its deadline.
DeadlinesHold ==
  pc # "done" =>
    /\ grasp.phase = "closing" /\ grasp.age >= args.width_timeout => grasp.stable # Never
    /\ grasp.phase = "lifting" => grasp.lifted <= args.lift_timeout

\* A grasp is released only by votes from requests made after its lift was
\* confirmed: open votes from older requests are never queued (lines 1905-1907).
ReleaseWasVoted ==
  [][last = Closed /\ last' = Open /\ grasp.attempts > 0 =>
       votes.open >= args.confirmations]_vars

\* While the hold stays active the commanded height does not change, from the
\* first close vote through debouncing and width validation (lines 439-450), if
\* the arm was anchored in the workspace; else the next action clips it once.
HoldFreezes ==
  [][anchor # NoAnchor /\ anchor' = anchor /\ Clip(anchor) = anchor /\ pc' # "done" =>
       held'.z = held.z]_vars

\* The hold is there for a grasp in the making only: votes to close are being
\* counted or the fingers are closing; it survives neither a change of the
\* policy's mind nor the validated width.
HoldHasReason ==
  pc = "loop" /\ anchor # NoAnchor =>
    IF last = Open THEN filter.pending = Closed ELSE grasp.phase = "closing"

\* Without the hold, the target stays near the place where the fingers started
\* to close until their width is validated.
ClosingBounded ==
  pc # "done" /\ grasp.phase = "closing" /\ anchor = NoAnchor =>
    target \in (grasp.origin - args.max_descent)..(grasp.origin + args.max_lift)

StageOf ==
  IF outcome = "completed" THEN "completed"
  ELSE IF pc = "done" THEN "ended"
  ELSE IF chunk.release THEN "releasing"
  ELSE IF grasp.phase = "none" THEN "approach"
  ELSE IF grasp.phase = "confirmed" THEN "holding"
  ELSE grasp.phase

Episode == INSTANCE GraspEpisode WITH stage <- StageOf, fingers <- last

\* With the close latch the loop does what GraspEpisode promises: one grasp,
\* closed without interruption until width and lift are confirmed, completed
\* only after it was released and the fingers were seen open.
ImplementsEpisode == Episode!Spec

\* Every deployment ends.
RunEnds == <>(pc = "done")
===============================================================================
