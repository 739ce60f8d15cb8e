--------------------------- MODULE PollingProofs ----------------------------
(***************************************************************************)
(* Proofs about Polling, for all delays and any number of signals.         *)
(***************************************************************************)
EXTENDS Polling, TLAPS

PollTypeOK ==
    /\ chan \in {0, 1}
    /\ poll \in [pc : {"get", "sleep", "done"}, delay : Nat, left : Nat]
    /\ notes \in Nat
    /\ wakes \in Nat
    /\ unseen \in BOOLEAN
    /\ late \in Nat

(* A signal that the receiver has not seen is still in the channel, which  *)
(* is why no time is slept away; a receiver that polls has no sleep left.  *)
PollInv ==
    /\ PollTypeOK
    /\ unseen => chan = 1
    /\ poll.pc = "get" => poll.left = 0
    /\ SignalsCountOnce

(* The delay after a miss stays within the bounds.                         *)
LEMMA NextDelayBounds ==
    ASSUME NEW d \in Nat, PollMin <= d, d <= PollMax
    PROVE  /\ nextDelay(d, PollMax) \in Nat
           /\ PollMin <= nextDelay(d, PollMax)
           /\ nextDelay(d, PollMax) <= PollMax
BY PollingAssumption DEF nextDelay

(* The receiver starts with the smallest delay and an empty channel.       *)
LEMMA PollInitial == PollInit => PollInv
<1> SUFFICES ASSUME PollInit PROVE PollInv
    OBVIOUS
<1>1. unseen \in BOOLEAN /\ (unseen => chan = 1)
    BY Zenon DEF PollInit
<1>2. /\ poll \in [pc : {"get", "sleep", "done"}, delay : Nat, left : Nat]
      /\ poll.left = 0 /\ poll.delay = PollMin
    BY PollingAssumption DEF PollInit
<1>3. chan = 0 /\ notes = 0 /\ wakes = 0 /\ late = 0
    BY DEF PollInit
<1> QED
    BY <1>1, <1>2, <1>3, PollingAssumption DEF PollInv, PollTypeOK, SignalsCountOnce

(* Every step of the receiver and of the two goroutines that signal it     *)
(* keeps the invariant.                                                    *)
LEMMA PollInductive == PollInv /\ [PollNext]_pollVars => PollInv'
<1> SUFFICES ASSUME PollInv, [PollNext]_pollVars PROVE PollInv'
    OBVIOUS
<1> USE PollingAssumption DEF PollInv, PollTypeOK, SignalsCountOnce
<1>1. CASE LocalActivity
    BY <1>1 DEF LocalActivity, notifyActivity
<1>2. CASE PollHit
    <2>1. PICK n \in {1, 2} : notifyActivity(n)
        BY <1>2 DEF PollHit
    <2>2. /\ poll' \in [pc : {"get", "sleep", "done"}, delay : Nat, left : Nat]
          /\ poll'.pc = "get" /\ poll'.delay = PollMin /\ poll'.left = 0
        BY <1>2 DEF PollHit
    <2> QED
        BY <1>2, <2>1, <2>2 DEF PollHit, notifyActivity
<1>3. CASE PollMiss
    <2>1. /\ poll' \in [pc : {"get", "sleep", "done"}, delay : Nat, left : Nat]
          /\ poll'.pc = "sleep" /\ poll'.delay = poll.delay /\ poll'.left = poll.delay
        BY <1>3 DEF PollMiss
    <2> QED
        BY <1>3, <2>1 DEF PollMiss
<1>4. CASE Tick
    BY <1>4 DEF Tick
<1>5. CASE TimerWake
    <2>1. /\ poll' \in [pc : {"get", "sleep", "done"}, delay : Nat, left : Nat]
          /\ poll'.delay = nextDelay(poll.delay, PollMax)
          /\ poll'.left = 0
        BY <1>5, NextDelayBounds DEF TimerWake
    <2> QED
        BY <1>5, <2>1, NextDelayBounds DEF TimerWake
<1>6. CASE ActivityWake
    <2>1. /\ poll' \in [pc : {"get", "sleep", "done"}, delay : Nat, left : Nat]
          /\ poll'.delay = PollMin /\ poll'.left = 0
        BY <1>6 DEF ActivityWake
    <2>2. unseen' \in BOOLEAN /\ (unseen' => chan' = 1)
        BY <1>6, Zenon DEF ActivityWake
    <2>3. chan' = 0 /\ notes' = notes /\ late' = late /\ wakes' + chan' <= notes'
          /\ wakes' \in Nat
        BY <1>6 DEF ActivityWake
    <2>4. SignalsCountOnce'
        <3>1. /\ PollMin <= poll'.delay /\ poll'.delay <= PollMax
              /\ poll'.left <= poll'.delay
            BY <2>1
        <3>2. late' = 0
            BY <2>3
        <3> QED
            BY <2>3, <3>1, <3>2, Zenon
    <2>5. PollTypeOK'
        BY <2>1, <2>2, <2>3
    <2> QED
        BY <2>1, <2>2, <2>4, <2>5, Zenon DEF PollInv
<1>7. CASE PollCancelled
    BY <1>7 DEF PollCancelled
<1>8. CASE UNCHANGED pollVars
    BY <1>8 DEF pollVars
<1> QED
    BY <1>1, <1>2, <1>3, <1>4, <1>5, <1>6, <1>7, <1>8 DEF PollNext

(* No signal is lost and none counts twice, whatever the delays are and    *)
(* however sends, sleeps and polls interleave (activity.go).               *)
THEOREM NoSignalLost == PollSpec => []SignalsCountOnce
<1>1. PollInv => SignalsCountOnce
    BY DEF PollInv
<1> QED
    BY <1>1, PollInitial, PollInductive, PTL DEF PollSpec
=============================================================================
