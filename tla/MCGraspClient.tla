---------------------------- MODULE MCGraspClient ----------------------------
(* Command lines for GraspClient, scaled down to ticks and steps of height.  *)
EXTENDS GraspClient

\* The default profile: three votes, latch and close hold, one action per chunk.
\* There are steps enough for three votes to close, width, lift, three votes to
\* open, and two more.
DefaultArgs ==
  [confirmations |-> 3, horizon |-> 1, max_steps |-> 8, max_attempts |-> 2,
   initial |-> Open, latch |-> TRUE, close_hold |-> TRUE, min_z |-> 0, max_z |-> 2,
   check_delay |-> 1, width_timeout |-> 2, stable_time |-> 1, min_lift |-> 1,
   lift_timeout |-> 1, max_descent |-> 1, max_lift |-> 1,
   release_stable |-> 1, release_timeout |-> 2, delays |-> {0, 1, 3}]

\* Up to two actions of every chunk are executed, so that a chunk outlives the
\* validation it was requested in; the arm may be below the workspace.
ChunkArgs ==
  [DefaultArgs EXCEPT !.confirmations = 2, !.horizon = 2, !.max_steps = 7, !.min_z = 1]

\* Started while the fingers are closed; every action decides for itself, and
\* the arm moves while the fingers close.
RawArgs ==
  [DefaultArgs EXCEPT !.confirmations = 1, !.horizon = 2, !.max_steps = 6,
                      !.initial = Closed, !.close_hold = FALSE, !.max_z = 3]

Everything == {DefaultArgs, ChunkArgs, RawArgs}
OnlyDefault == {DefaultArgs}

MCHeights == 0..2
MCMoves == {-1, 1}
===============================================================================
