------------------------- MODULE StateBroadcasterProofs -------------------------
(***************************************************************************)
(* Proofs about StateBroadcaster for every number of attempts and every    *)
(* number of cycles.                                                       *)
(***************************************************************************)
EXTENDS StateBroadcaster, SequenceTheorems, TLAPS

Whole(n) == [stamp |-> n, body |-> n]
Newest == released[Len(released)]

(* Who holds the mutex, and whose turn it is, tell where both threads are.  *)
LocksInv ==
  /\ mutex = "update" <=> update.at \in {"locked", "stamped", "filled"}
  /\ mutex = "loop" <=> loop \in {"looking", "copying"}
  /\ mutex = "update" => turn = "real time"
  /\ loop = "copying" => turn = "publisher"
  /\ turn = "not started" <=> loop \in {"none", "starting"}
  /\ life \in {"unconfigured", "inactive"} => update.at = "idle"

(* What update has written of the message it fills.                         *)
FilledInv ==
  /\ update.at \in {"stamped", "filled"} => msg.stamp = cycle
  /\ update.at = "filled" => msg.body = cycle

(* What was handed over and is not sent is in msg or in copy.               *)
Behind(n) == Len(released) = Len(sent) + n

UnderWay ==
  /\ turn # "publisher" /\ loop # "sending" => Behind(0)
  /\ turn = "publisher" /\ loop # "sending" => Behind(1)
  /\ turn # "publisher" /\ loop = "sending" => Behind(1)
  /\ turn = "publisher" /\ loop = "sending" => Behind(2)

HandedInv ==
  /\ UnderWay
  /\ turn = "publisher" => msg = Whole(Newest)
  /\ loop = "copying" => copy.stamp = Newest
  /\ loop = "sending" => copy = Whole(released[Len(sent) + 1])
  /\ \A i \in 1..Len(sent) : sent[i] = Whole(released[i])

IInv == TypeOK /\ LocksInv /\ FilledInv /\ HandedInv

-------------------------------------------------------------------------------
LEMMA NothingLemma ==
  /\ <<>> \in Seq(Nat) /\ <<>> \in Seq([stamp : Nat, body : Nat]) /\ Len(<<>>) = 0
  /\ Nothing \in [stamp : Nat, body : Nat]
  /\ Idle \in [at : {"idle", "trylock", "locked", "stamped", "filled", "others"}, count : Nat]
  /\ Idle.at = "idle"
  BY DEF Nothing, Idle

LEMMA LengthsLemma ==
  TypeOK => /\ Len(sent) \in Nat /\ Len(released) \in Nat
            /\ \A c \in Nat : /\ Append(released, c) \in Seq(Nat)
                              /\ Len(Append(released, c)) = Len(released) + 1
                              /\ \A i \in 1..Len(released) :
                                    Append(released, c)[i] = released[i]
                              /\ Append(released, c)[Len(released) + 1] = c
            /\ Append(sent, copy) \in Seq([stamp : Nat, body : Nat])
            /\ Len(Append(sent, copy)) = Len(sent) + 1
            /\ \A i \in 1..Len(sent) : Append(sent, copy)[i] = sent[i]
            /\ Append(sent, copy)[Len(sent) + 1] = copy
<1> HAVE TypeOK
<1> DEFINE M == [stamp : Nat, body : Nat]
<1>1. released \in Seq(Nat) /\ sent \in Seq(M) /\ copy \in M
  BY DEF TypeOK
<1> HIDE DEF M
<1>2. Len(sent) \in Nat /\ Len(released) \in Nat
  BY <1>1, LenProperties
<1>3. \A c \in Nat : /\ Append(released, c) \in Seq(Nat)
                     /\ Len(Append(released, c)) = Len(released) + 1
                     /\ \A i \in 1..Len(released) : Append(released, c)[i] = released[i]
                     /\ Append(released, c)[Len(released) + 1] = c
  BY <1>1, AppendProperties
<1>4. /\ Append(sent, copy) \in Seq(M)
      /\ Len(Append(sent, copy)) = Len(sent) + 1
      /\ \A i \in 1..Len(sent) : Append(sent, copy)[i] = sent[i]
      /\ Append(sent, copy)[Len(sent) + 1] = copy
  BY <1>1, AppendProperties
<1> QED  BY <1>2, <1>3, <1>4 DEF M

LEMMA NothingUnderWay ==
  ASSUME turn # "publisher", loop # "sending", released = <<>>, sent = <<>>
  PROVE  UnderWay /\ \A i \in 1..Len(sent) : sent[i] = Whole(released[i])
<1>1. UnderWay
  BY DEF UnderWay, Behind
<1>2. 1..Len(sent) = {}
  OBVIOUS
<1> QED  BY <1>1, <1>2

LEMMA InitLemma == Init => IInv
<1> SUFFICES ASSUME Init PROVE IInv
  OBVIOUS
<1>1. TypeOK
  BY NothingLemma DEF Init, TypeOK
<1>2. LocksInv /\ FilledInv
  BY NothingLemma DEF Init, LocksInv, FilledInv
<1>3. turn = "not started" /\ loop = "none" /\ released = <<>> /\ sent = <<>>
  BY DEF Init
<1>4. HandedInv
  BY <1>3, NothingUnderWay DEF HandedInv
<1> QED  BY <1>1, <1>2, <1>4 DEF IInv

LEMMA StepLemma == IInv /\ [Next]_vars => IInv'
<1> SUFFICES ASSUME IInv, [Next]_vars PROVE IInv'
  OBVIOUS
<1>1. CASE ConfigureFails
  <2>1. (TypeOK /\ LocksInv /\ FilledInv)'
    BY <1>1 DEF IInv, TypeOK, LocksInv, FilledInv, ConfigureFails
  <2>2. HandedInv'
    BY <1>1 DEF IInv, TypeOK, LocksInv, FilledInv, HandedInv, UnderWay, Behind, Whole, Newest,
                  ConfigureFails
  <2> QED  BY <2>1, <2>2 DEF IInv
<1>2. CASE Configure
  <2>1. TypeOK'
    BY <1>2, NothingLemma DEF IInv, TypeOK, Configure
  <2>2. (LocksInv /\ FilledInv)'
    BY <1>2 DEF IInv, TypeOK, LocksInv, FilledInv, Configure
  <2>3. turn' = "not started" /\ loop' = "starting" /\ released' = <<>> /\ sent' = <<>>
    BY <1>2 DEF Configure
  <2>4. (UnderWay /\ \A i \in 1..Len(sent) : sent[i] = Whole(released[i]))'
    <3>1. Len(released') = 0 /\ Len(sent') = 0
      BY <2>3
    <3>2. turn' # "publisher" /\ loop' # "sending"
      BY <2>3
    <3>3. UnderWay'
      BY <3>1, <3>2 DEF UnderWay, Behind
    <3>4. 1..Len(sent') = {}
      BY <3>1
    <3> QED  BY <3>3, <3>4
  <2>5. HandedInv'
    BY <2>3, <2>4 DEF HandedInv
  <2> QED  BY <2>1, <2>2, <2>5 DEF IInv
<1>3. CASE Activate
  <2>1. (TypeOK /\ LocksInv /\ FilledInv)'
    BY <1>3 DEF IInv, TypeOK, LocksInv, FilledInv, Activate
  <2>2. HandedInv'
    BY <1>3 DEF IInv, TypeOK, LocksInv, FilledInv, HandedInv, UnderWay, Behind, Whole, Newest,
                  Activate
  <2> QED  BY <2>1, <2>2 DEF IInv
<1>4. CASE Deactivate
  <2>1. (TypeOK /\ LocksInv /\ FilledInv)'
    BY <1>4 DEF IInv, TypeOK, LocksInv, FilledInv, Deactivate
  <2>2. HandedInv'
    BY <1>4 DEF IInv, TypeOK, LocksInv, FilledInv, HandedInv, UnderWay, Behind, Whole, Newest,
                  Deactivate
  <2> QED  BY <2>1, <2>2 DEF IInv
<1>5. CASE Update
  <2>1. update' \in [at : {"trylock"}, count : Nat] /\ update.at = "idle"
    BY <1>5 DEF Update
  <2>2. cycle \in Nat
    BY DEF IInv, TypeOK
  <2>3. cycle' = cycle + 1
    BY <1>5 DEF Update
  <2>4. UNCHANGED <<tries, life, msg, mutex, turn, loop, copy, others, released, sent>>
    BY <1>5 DEF Update
  <2>5. life = "active"
    BY <1>5 DEF Update
  <2>6. TypeOK'
    <3>1. cycle' \in Nat
      BY <2>2, <2>3
    <3> QED  BY <2>1, <2>4, <3>1 DEF IInv, TypeOK
  <2>7. (LocksInv /\ FilledInv)'
    BY <2>1, <2>4, <2>5 DEF IInv, LocksInv, FilledInv
  <2>8. HandedInv'
    BY <2>4 DEF IInv, HandedInv, UnderWay, Behind, Newest, Whole
  <2> QED  BY <2>6, <2>7, <2>8 DEF IInv
<1>6. CASE TryLock
  <2>1. UNCHANGED <<tries, life, cycle, msg, turn, loop, copy, others, released, sent>>
    BY <1>6 DEF TryLock
  <2>2. update.at = "trylock" /\ update.count \in Nat
    BY <1>6 DEF TryLock, IInv, TypeOK
  <2>3. ASSUME update' = Idle /\ UNCHANGED mutex PROVE (TypeOK /\ LocksInv /\ FilledInv)'
    <3>1. TypeOK'
      BY <2>1, <2>3, NothingLemma DEF IInv, TypeOK
    <3>2. (LocksInv /\ FilledInv)'
      BY <2>1, <2>2, <2>3, NothingLemma DEF IInv, LocksInv, FilledInv
    <3> QED  BY <3>1, <3>2
  <2>4. ASSUME Locks PROVE (TypeOK /\ LocksInv /\ FilledInv)'
    <3>1. update' \in [at : {"locked"}, count : Nat]
      BY <2>4 DEF Locks
    <3>2. TypeOK'
      BY <2>1, <2>4, <3>1 DEF IInv, TypeOK, Locks
    <3>3. (LocksInv /\ FilledInv)'
      BY <2>1, <2>2, <2>4, <3>1 DEF IInv, TypeOK, LocksInv, FilledInv, Locks
    <3> QED  BY <3>2, <3>3
  <2>5. ASSUME update' = [update EXCEPT !.count = @ + 1] /\ UNCHANGED mutex PROVE (TypeOK /\ LocksInv /\ FilledInv)'
    <3>0. update \in [at : {"trylock"}, count : Nat]
      BY <2>2 DEF IInv, TypeOK
    <3>1. update' \in [at : {"trylock"}, count : Nat]
      BY <2>5, <3>0
    <3>2. TypeOK'
      BY <2>1, <2>5, <3>1 DEF IInv, TypeOK
    <3>3. (LocksInv /\ FilledInv)'
      BY <2>1, <2>2, <2>5, <3>1 DEF IInv, LocksInv, FilledInv
    <3> QED  BY <3>2, <3>3
  <2>6. \/ update' = Idle /\ UNCHANGED mutex
        \/ Locks
        \/ update' = [update EXCEPT !.count = @ + 1] /\ UNCHANGED mutex
    BY <1>6 DEF TryLock
  <2>7. HandedInv'
    BY <2>1 DEF IInv, HandedInv, UnderWay, Behind, Newest, Whole
  <2> QED  BY <2>3, <2>4, <2>5, <2>6, <2>7 DEF IInv
<1>7. CASE Stamp
  <2>1. (TypeOK /\ LocksInv /\ FilledInv)'
    BY <1>7 DEF IInv, TypeOK, LocksInv, FilledInv, Stamp
  <2>2. HandedInv'
    BY <1>7 DEF IInv, TypeOK, LocksInv, FilledInv, HandedInv, UnderWay, Behind, Whole, Newest,
                  Stamp
  <2> QED  BY <2>1, <2>2 DEF IInv
<1>8. CASE GetValuesFails
  <2>1. (TypeOK /\ LocksInv /\ FilledInv)'
    BY <1>8 DEF IInv, TypeOK, LocksInv, FilledInv, GetValuesFails, Idle
  <2>2. HandedInv'
    BY <1>8 DEF IInv, TypeOK, LocksInv, FilledInv, HandedInv, UnderWay, Behind, Whole, Newest,
                  GetValuesFails, Idle
  <2> QED  BY <2>1, <2>2 DEF IInv
<1>9. CASE GetValues
  <2>1. (TypeOK /\ LocksInv /\ FilledInv)'
    BY <1>9 DEF IInv, TypeOK, LocksInv, FilledInv, GetValues
  <2>2. HandedInv'
    BY <1>9 DEF IInv, TypeOK, LocksInv, FilledInv, HandedInv, UnderWay, Behind, Whole, Newest,
                  GetValues
  <2> QED  BY <2>1, <2>2 DEF IInv
<1>10. CASE UnlockAndPublish
  <2>1. /\ update.at = "filled" /\ turn' = "publisher" /\ mutex' = "free"
        /\ released' = Append(released, cycle)
        /\ UNCHANGED <<tries, life, cycle, msg, loop, copy, others, sent>>
    BY <1>10 DEF UnlockAndPublish
  <2>2. /\ cycle \in Nat /\ Len(sent) \in Nat /\ Len(released) \in Nat
        /\ released' \in Seq(Nat) /\ Len(released') = Len(released) + 1
        /\ \A i \in 1..Len(released) : released'[i] = released[i]
        /\ released'[Len(released) + 1] = cycle
    <3>1. cycle \in Nat
      BY DEF IInv, TypeOK
    <3> QED  BY <2>1, <3>1, LengthsLemma DEF IInv
  <2>3. update' \in [at : {"others"}, count : Nat]
    BY <1>10 DEF UnlockAndPublish, IInv, TypeOK
  <2>4. (TypeOK /\ LocksInv /\ FilledInv)'
    BY <2>1, <2>2, <2>3 DEF IInv, TypeOK, LocksInv, FilledInv
  <2>5. msg' = Whole(cycle)
    BY <2>1 DEF IInv, TypeOK, FilledInv, Whole
  <2>6. turn # "publisher" /\ loop # "copying"
    BY <2>1 DEF IInv, LocksInv
  <2>7. /\ loop # "sending" => Len(released) = Len(sent)
        /\ loop = "sending" => Len(released) = Len(sent) + 1
    BY <2>2, <2>6 DEF IInv, HandedInv, UnderWay, Behind
  <2>8. UnderWay'
    BY <2>1, <2>2, <2>7 DEF UnderWay, Behind
  <2>9. \A i \in 1..Len(sent) : sent'[i] = Whole(released'[i])
    <3>1. \A i \in 1..Len(sent) : i \in 1..Len(released)
      BY <2>2, <2>7
    <3> QED  BY <2>1, <2>2, <3>1 DEF IInv, HandedInv
  <2>10. loop = "sending" => copy' = Whole(released'[Len(sent) + 1])
    <3>1. loop = "sending" => Len(sent) + 1 \in 1..Len(released)
      BY <2>2, <2>7
    <3> QED  BY <2>1, <2>2, <3>1 DEF IInv, HandedInv
  <2> QED  BY <2>1, <2>2, <2>4, <2>5, <2>6, <2>8, <2>9, <2>10 DEF IInv, HandedInv, Newest
<1>11. CASE PublishOthers
  <2>1. (TypeOK /\ LocksInv /\ FilledInv)'
    BY <1>11 DEF IInv, TypeOK, LocksInv, FilledInv, PublishOthers, Idle
  <2>2. HandedInv'
    BY <1>11 DEF IInv, TypeOK, LocksInv, FilledInv, HandedInv, UnderWay, Behind, Whole, Newest,
                  PublishOthers, Idle
  <2> QED  BY <2>1, <2>2 DEF IInv
<1>12. CASE LoopStarts
  <2>1. (TypeOK /\ LocksInv /\ FilledInv)'
    BY <1>12 DEF IInv, TypeOK, LocksInv, FilledInv, LoopStarts, Loop, UpdateStays
  <2>2. HandedInv'
    BY <1>12 DEF IInv, TypeOK, LocksInv, FilledInv, HandedInv, UnderWay, Behind, Whole, Newest,
                  LoopStarts, Loop, UpdateStays
  <2> QED  BY <2>1, <2>2 DEF IInv
<1>13. CASE LoopLocks
  <2>1. (TypeOK /\ LocksInv /\ FilledInv)'
    BY <1>13 DEF IInv, TypeOK, LocksInv, FilledInv, LoopLocks, Loop, UpdateStays
  <2>2. HandedInv'
    BY <1>13 DEF IInv, TypeOK, LocksInv, FilledInv, HandedInv, UnderWay, Behind, Whole, Newest,
                  LoopLocks, Loop, UpdateStays
  <2> QED  BY <2>1, <2>2 DEF IInv
<1>14. CASE LoopSleeps
  <2>1. (TypeOK /\ LocksInv /\ FilledInv)'
    BY <1>14 DEF IInv, TypeOK, LocksInv, FilledInv, LoopSleeps, Loop, UpdateStays
  <2>2. HandedInv'
    BY <1>14 DEF IInv, TypeOK, LocksInv, FilledInv, HandedInv, UnderWay, Behind, Whole, Newest,
                  LoopSleeps, Loop, UpdateStays
  <2> QED  BY <2>1, <2>2 DEF IInv
<1>15. CASE LoopCopies
  <2>1. (TypeOK /\ LocksInv /\ FilledInv)'
    BY <1>15 DEF IInv, TypeOK, LocksInv, FilledInv, LoopCopies, Loop, UpdateStays
  <2>2. HandedInv'
    BY <1>15 DEF IInv, TypeOK, LocksInv, FilledInv, HandedInv, UnderWay, Behind, Whole, Newest,
                  LoopCopies, Loop, UpdateStays
  <2> QED  BY <2>1, <2>2 DEF IInv
<1>16. CASE LoopCopied
  <2> USE <1>16 DEF LoopCopied, Loop, UpdateStays
  <2>1. (TypeOK /\ LocksInv /\ FilledInv)'
    BY DEF IInv, TypeOK, LocksInv, FilledInv
  <2>2. turn = "publisher" /\ Len(sent) \in Nat /\ Len(released) \in Nat
    BY LengthsLemma DEF IInv, LocksInv
  <2>3. Len(released) = Len(sent) + 1
    BY <2>2 DEF IInv, HandedInv, UnderWay, Behind
  <2>4. copy' = Whole(Newest)
    <3>1. copy.stamp = Newest
      BY DEF IInv, HandedInv
    <3>2. msg = Whole(Newest)
      BY <2>2 DEF IInv, HandedInv
    <3>3. msg.body = Newest
      BY <3>2 DEF Whole
    <3> QED  BY <3>1, <3>3 DEF IInv, TypeOK, Whole
  <2>5. (\A i \in 1..Len(sent) : sent[i] = Whole(released[i]))'
    BY DEF IInv, HandedInv, Whole
  <2> QED  BY <2>1, <2>2, <2>3, <2>4, <2>5 DEF IInv, HandedInv, UnderWay, Behind, Newest, Whole
<1>17. CASE LoopSends
  <2> USE <1>17 DEF LoopSends, Loop, UpdateStays
  <2>1. /\ sent' \in Seq([stamp : Nat, body : Nat]) /\ Len(sent') = Len(sent) + 1
        /\ \A i \in 1..Len(sent) : sent'[i] = sent[i]
        /\ sent'[Len(sent) + 1] = copy
    BY LengthsLemma DEF IInv, TypeOK
  <2>2. (TypeOK /\ LocksInv /\ FilledInv)'
    BY <2>1 DEF IInv, TypeOK, LocksInv, FilledInv
  <2>3. Len(sent) \in Nat /\ Len(released) \in Nat
    BY LengthsLemma DEF IInv
  <2>4. UnderWay'
    BY <2>1, <2>3 DEF IInv, HandedInv, UnderWay, Behind
  <2>5. \A i \in 1..Len(sent') : sent'[i] = Whole(released'[i])
    BY <2>1, <2>3 DEF IInv, HandedInv
  <2>6. (turn = "publisher" => msg = Whole(Newest))'
    BY DEF IInv, HandedInv, Newest, Whole
  <2> QED  BY <2>2, <2>4, <2>5, <2>6 DEF IInv, HandedInv
<1>18. CASE UNCHANGED vars
  <2>1. (TypeOK /\ LocksInv /\ FilledInv)'
    BY <1>18 DEF IInv, TypeOK, LocksInv, FilledInv, vars
  <2>2. HandedInv'
    BY <1>18 DEF IInv, HandedInv, UnderWay, Behind, Whole, Newest, vars
  <2> QED  BY <2>1, <2>2 DEF IInv
<1> QED
  BY <1>1, <1>2, <1>3, <1>4, <1>5, <1>6, <1>7, <1>8, <1>9, <1>10, <1>11, <1>12, <1>13,
     <1>14, <1>15, <1>16, <1>17, <1>18 DEF Next, Fills, LoopSteps

(* The values of every variable of the broadcaster and its publisher keep    *)
(* their types.                                                             *)
THEOREM TypeCorrect == Spec => []TypeOK
<1>1. IInv => TypeOK
  BY DEF IInv
<1> QED  BY <1>1, InitLemma, StepLemma, PTL DEF Spec

(* However often update tries for the lock and however many cycles there     *)
(* are, what the publisher's thread sends is what update has handed over:   *)
(* whole messages, each once, in order.                                     *)
THEOREM SendsWhatIsReleased == Spec => []SentIsReleased
<1>1. IInv => SentIsReleased
  <2> SUFFICES ASSUME IInv PROVE SentIsReleased
    OBVIOUS
  <2>1. Len(sent) \in Nat /\ Len(released) \in Nat
    BY LengthsLemma DEF IInv
  <2>2. UnderWay
    BY DEF IInv, HandedInv
  <2>3. Len(sent) \in Len(released) - 2 .. Len(released)
    BY <2>1, <2>2 DEF UnderWay, Behind
  <2>4. DOMAIN sent = 1..Len(sent)
    BY LenProperties DEF IInv, TypeOK
  <2> QED  BY <2>3, <2>4 DEF IInv, HandedInv, SentIsReleased, Whole
<1> QED  BY <1>1, InitLemma, StepLemma, PTL DEF Spec
=============================================================================
