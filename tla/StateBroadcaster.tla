---------------------------- MODULE StateBroadcaster ----------------------------
(***************************************************************************)
(* FrankaRobotStateBroadcaster: update, in the real-time thread, fills the *)
(* message of a RealtimePublisher (realtime_tools, external), and the      *)
(* publisher's thread copies and sends it.  Whose turn it is and a mutex   *)
(* keep the two apart.  A message is the cycle its two parts come from.    *)
(***************************************************************************)
EXTENDS Integers, Sequences

CONSTANTS
  TryCounts,  \* values of lock_try_count
  MaxCycles   \* bound: updates per configuration

ASSUME BroadcasterAssumption == TryCounts \subseteq Int /\ MaxCycles \in Nat

VARIABLES
  tries,    \* lock_try_count
  life,     \* life cycle state of the controller
  update,   \* where update is: [at, count]
  cycle,    \* number of the update
  msg,      \* msg_: stamp and body
  mutex,    \* msg_mutex_: "free" or who holds it
  turn,     \* turn_
  loop,     \* where the publisher's thread is
  copy,     \* its outgoing message
  others,   \* stamp of what update has last sent on its eight other topics
  released, \* the messages update has handed over
  sent      \* the messages that were sent

vars == <<tries, life, update, cycle, msg, mutex, turn, loop, copy, others, released, sent>>

Nothing == [stamp |-> 0, body |-> 0]
Idle == [at |-> "idle", count |-> 0]

Init ==
  /\ tries \in TryCounts
  /\ life = "unconfigured" /\ update = Idle /\ cycle = 0
  /\ msg = Nothing /\ mutex = "free" /\ turn = "not started"
  /\ loop = "none" /\ copy = Nothing /\ others = 0
  /\ released = <<>> /\ sent = <<>>

-----------------------------------------------------------------------------
(* The life cycle.                                                         *)

(* No description, one that does not parse, no publisher, or a negative     *)
(* number: on_configure returns or throws an error.                         *)
ConfigureFails ==
  /\ life \in {"unconfigured", "inactive"}
  /\ life' = "finalized"
  /\ UNCHANGED <<tries, update, cycle, msg, mutex, turn, loop, copy, others, released, sent>>

(* A new publisher; an earlier one is stopped and joined, and does not send *)
(* what it still had.                                                       *)
Configure ==
  /\ life \in {"unconfigured", "inactive"} /\ tries >= 0
  /\ life' = "inactive"
  /\ msg' = Nothing /\ mutex' = "free" /\ turn' = "not started"
  /\ loop' = "starting" /\ copy' = Nothing
  /\ cycle' = 0 /\ released' = <<>> /\ sent' = <<>>
  /\ UNCHANGED <<tries, update, others>>

Activate ==
  /\ life = "inactive" /\ life' = "active"
  /\ UNCHANGED <<tries, update, cycle, msg, mutex, turn, loop, copy, others, released, sent>>

Deactivate ==
  /\ life = "active" /\ update.at = "idle" /\ life' = "inactive"
  /\ UNCHANGED <<tries, update, cycle, msg, mutex, turn, loop, copy, others, released, sent>>

-----------------------------------------------------------------------------
(* update                                                                  *)

Update ==
  /\ life = "active" /\ update.at = "idle" /\ cycle < MaxCycles
  /\ cycle' = cycle + 1
  /\ update' = [at |-> "trylock", count |-> 1]
  /\ UNCHANGED <<tries, life, msg, mutex, turn, loop, copy, others, released, sent>>

Locks ==
  /\ turn = "real time" /\ mutex = "free"
  /\ mutex' = "update" /\ update' = [at |-> "locked", count |-> 0]

\* Variant: the count is compared once too often.
TryLockOnceMore ==
  /\ update.at = "trylock"
  /\ IF update.count > tries THEN update' = [at |-> "locked", count |-> 0] /\ UNCHANGED mutex
     ELSE \/ Locks
          \/ /\ ~(turn = "real time" /\ mutex = "free")
             /\ update' = [update EXCEPT !.count = @ + 1]
             /\ UNCHANGED mutex
  /\ UNCHANGED <<tries, life, cycle, msg, turn, loop, copy, others, released, sent>>

(* trylock: at most "tries" times, with a pause in between. *)
TryLock ==
  /\ update.at = "trylock"
  /\ IF update.count > tries THEN update' = Idle /\ UNCHANGED mutex
     ELSE \/ Locks
          \/ /\ ~(turn = "real time" /\ mutex = "free")
             /\ update' = [update EXCEPT !.count = @ + 1]
             /\ UNCHANGED mutex
  /\ UNCHANGED <<tries, life, cycle, msg, turn, loop, copy, others, released, sent>>

(* The header, then the values. *)
Stamp ==
  /\ update.at = "locked"
  /\ msg' = [msg EXCEPT !.stamp = cycle]
  /\ update' = [update EXCEPT !.at = "stamped"]
  /\ UNCHANGED <<tries, life, cycle, mutex, turn, loop, copy, others, released, sent>>

(* get_values_as_message finds no interface: unlock without publishing. *)
GetValuesFails ==
  /\ update.at = "stamped"
  /\ mutex' = "free" /\ update' = Idle
  /\ UNCHANGED <<tries, life, cycle, msg, turn, loop, copy, others, released, sent>>

GetValues ==
  /\ update.at = "stamped"
  /\ msg' = [msg EXCEPT !.body = cycle]
  /\ update' = [update EXCEPT !.at = "filled"]
  /\ UNCHANGED <<tries, life, cycle, mutex, turn, loop, copy, others, released, sent>>

\* Variant: the lock is released as after a failure, without the turn.
UnlockOnly ==
  /\ update.at = "filled"
  /\ mutex' = "free"
  /\ update' = [update EXCEPT !.at = "others"]
  /\ released' = Append(released, cycle)
  /\ UNCHANGED <<tries, life, cycle, msg, turn, loop, copy, others, sent>>

(* unlockAndPublish: the turn first, then the mutex. *)
UnlockAndPublish ==
  /\ update.at = "filled"
  /\ turn' = "publisher" /\ mutex' = "free"
  /\ update' = [update EXCEPT !.at = "others"]
  /\ released' = Append(released, cycle)
  /\ UNCHANGED <<tries, life, cycle, msg, loop, copy, others, sent>>

(* The parts of msg_ go to their own topics, without the lock. *)
PublishOthers ==
  /\ update.at = "others"
  /\ others' = msg.stamp /\ update' = Idle
  /\ UNCHANGED <<tries, life, cycle, msg, mutex, turn, loop, copy, released, sent>>

-----------------------------------------------------------------------------
(* The publisher's thread (external).                                      *)

Loop(from, to) == loop = from /\ loop' = to
UpdateStays == UNCHANGED <<tries, life, update, cycle, msg, others, released>>

LoopStarts ==
  /\ Loop("starting", "waiting") /\ turn' = "real time"
  /\ UNCHANGED <<mutex, copy, sent>> /\ UpdateStays

LoopLocks ==
  /\ Loop("waiting", "looking") /\ mutex = "free" /\ mutex' = "loop"
  /\ UNCHANGED <<turn, copy, sent>> /\ UpdateStays

LoopSleeps ==
  /\ Loop("looking", "waiting") /\ turn # "publisher" /\ mutex' = "free"
  /\ UNCHANGED <<turn, copy, sent>> /\ UpdateStays

(* The copy of the message is not atomic but for the mutex. *)
LoopCopies ==
  /\ Loop("looking", "copying") /\ turn = "publisher"
  /\ copy' = [copy EXCEPT !.stamp = msg.stamp]
  /\ UNCHANGED <<mutex, turn, sent>> /\ UpdateStays

LoopCopied ==
  /\ Loop("copying", "sending")
  /\ copy' = [copy EXCEPT !.body = msg.body]
  /\ turn' = "real time" /\ mutex' = "free"
  /\ UNCHANGED sent /\ UpdateStays

LoopSends ==
  /\ Loop("sending", "waiting")
  /\ sent' = Append(sent, copy)
  /\ UNCHANGED <<mutex, turn, copy>> /\ UpdateStays

LoopSteps == LoopStarts \/ LoopLocks \/ LoopSleeps \/ LoopCopies \/ LoopCopied \/ LoopSends
Fills == Stamp \/ GetValues \/ GetValuesFails \/ UnlockAndPublish \/ PublishOthers

Next ==
  \/ ConfigureFails \/ Configure \/ Activate \/ Deactivate
  \/ Update \/ TryLock \/ Fills \/ LoopSteps

(* Both threads run; the loop holds the mutex for a moment only, and sleeps *)
(* between two moments, so that an attempt that is made again and again     *)
(* meets it free.                                                           *)
Spec ==
  /\ Init /\ [][Next]_vars
  /\ WF_vars(Update) /\ WF_vars(TryLock) /\ WF_vars(Fills) /\ WF_vars(LoopSteps)
  /\ SF_vars(LoopLocks)

-----------------------------------------------------------------------------
(* Properties.                                                             *)

(* The values the variables take.                                           *)
TypeOK ==
  /\ tries \in TryCounts
  /\ life \in {"unconfigured", "inactive", "active", "finalized"}
  /\ update \in [at : {"idle", "trylock", "locked", "stamped", "filled", "others"}, count : Nat]
  /\ cycle \in Nat /\ others \in Nat
  /\ msg \in [stamp : Nat, body : Nat] /\ copy \in [stamp : Nat, body : Nat]
  /\ mutex \in {"free", "update", "loop"}
  /\ turn \in {"not started", "real time", "publisher"}
  /\ loop \in {"none", "starting", "waiting", "looking", "copying", "sending"}
  /\ released \in Seq(Nat) /\ sent \in Seq([stamp : Nat, body : Nat])

(* What is sent is what update handed over: whole messages, stamp and body  *)
(* of one cycle, each once, none skipped, in their order; two may be under  *)
(* way, one copied and one handed over while the first is being sent.       *)
SentIsReleased ==
  /\ Len(sent) \in Len(released) - 2 .. Len(released)
  /\ \A i \in DOMAIN sent : sent[i] = [stamp |-> released[i], body |-> released[i]]

(* What was handed over is sent, unless the publisher is replaced, though   *)
(* the publisher's thread shares its mutex with the 1 kHz loop.             *)
ReleasedIsSent ==
  \A n \in 1..MaxCycles :
    (Len(released) >= n) ~> (Len(sent) >= n \/ Len(released) < n)
=============================================================================
