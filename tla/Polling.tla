------------------------------ MODULE Polling -------------------------------
(***************************************************************************)
(* How a receiver polls (internal/tunnel/activity.go and the loop of       *)
(* streamFromStore).  Each miss doubles the delay up to PollMax; local     *)
(* activity, signalled by both goroutines of the side through a channel    *)
(* with room for one element, cuts the sleep short and resets the delay.   *)
(*                                                                         *)
(* Time passes in units while the receiver sleeps.  A goroutine that is    *)
(* ready to run is scheduled before the next unit passes.                  *)
(***************************************************************************)
EXTENDS Integers

CONSTANTS
    PollMin,   \* Config.PollMin
    PollMax,   \* Config.PollMax
    MaxNotes   \* bound: how many signals are sent

ASSUME PollingAssumption ==
    /\ PollMin \in Nat \ {0}
    /\ PollMax \in Nat
    /\ PollMin <= PollMax
    /\ MaxNotes \in Nat

VARIABLES
    chan,   \* elements in activitySignal.ch
    poll,   \* the receiver: where it is, its delay, what is left of the sleep
    notes,  \* how many signals were sent
    wakes,  \* how many sleeps a signal has ended
    unseen, \* a signal was sent since the receiver last took one
    late    \* units slept while a signal was unseen

pollVars == <<chan, poll, notes, wakes, unseen, late>>

PollInit ==
    /\ chan = 0
    /\ poll = [pc |-> "get", delay |-> PollMin, left |-> 0]
    /\ notes = 0
    /\ wakes = 0
    /\ unseen = FALSE
    /\ late = 0

nextDelay(current, maxDelay) ==
    IF current <= 0 \/ 2 * current > maxDelay THEN maxDelay ELSE 2 * current

(* Mutant: a channel without a buffer, on which only a receiver that is    *)
(* already waiting can be reached.                                         *)
notifyActivityUnbuffered(n) ==
    /\ notes + n <= MaxNotes
    /\ notes' = notes + n
    /\ chan' = IF poll.pc = "sleep" THEN 1 ELSE chan
    /\ unseen' = TRUE

(* n signals; one that finds the channel full is dropped.                  *)
notifyActivity(n) ==
    /\ notes + n <= MaxNotes
    /\ notes' = notes + n
    /\ chan' = 1
    /\ unseen' = TRUE
-----------------------------------------------------------------------------
(* streamToStore has read from its socket, or has written a data object.   *)
LocalActivity ==
    /\ notifyActivity(1)
    /\ UNCHANGED <<poll, wakes, late>>

(* The next data object is there: the receiver signals it, and once more   *)
(* when it also writes an ACK, and polls again without a sleep.            *)
PollHit ==
    /\ poll.pc = "get"
    /\ \E n \in {1, 2} : notifyActivity(n)
    /\ poll' = [poll EXCEPT !.delay = PollMin]
    /\ UNCHANGED <<wakes, late>>

PollMiss ==
    /\ poll.pc = "get"
    /\ poll' = [poll EXCEPT !.pc = "sleep", !.left = poll.delay]
    /\ UNCHANGED <<chan, notes, wakes, unseen, late>>

(* A unit of time passes while the receiver can only wait.                 *)
Tick ==
    /\ poll.pc = "sleep"
    /\ poll.left > 0
    /\ chan = 0
    /\ poll' = [poll EXCEPT !.left = @ - 1]
    /\ late' = IF unseen THEN late + 1 ELSE late
    /\ UNCHANGED <<chan, notes, wakes, unseen>>

(* sleepOrActivity: the timer has fired; a signal that came at the same    *)
(* moment may stay in the channel for the next sleep.                      *)
TimerWake ==
    /\ poll.pc = "sleep"
    /\ poll.left = 0
    /\ poll' = [poll EXCEPT !.pc = "get", !.delay = nextDelay(@, PollMax)]
    /\ UNCHANGED <<chan, notes, wakes, unseen, late>>

(* sleepOrActivity: a signal ends the sleep.                               *)
ActivityWake ==
    /\ poll.pc = "sleep"
    /\ chan = 1
    /\ chan' = 0
    /\ unseen' = FALSE
    /\ wakes' = wakes + 1
    /\ poll' = [poll EXCEPT !.pc = "get", !.delay = PollMin, !.left = 0]
    /\ UNCHANGED <<notes, late>>

(* sleepOrActivity: the context was cancelled, streamFromStore returns.    *)
PollCancelled ==
    /\ poll.pc = "sleep"
    /\ poll' = [poll EXCEPT !.pc = "done"]
    /\ UNCHANGED <<chan, notes, wakes, unseen, late>>

PollNext ==
    \/ LocalActivity
    \/ PollHit
    \/ PollMiss
    \/ Tick
    \/ TimerWake
    \/ ActivityWake
    \/ PollCancelled

PollSpec == PollInit /\ [][PollNext]_pollVars
-----------------------------------------------------------------------------
(* Every signal counts once.  None is lost: whether it comes while the     *)
(* receiver sleeps, polls or writes, and however many are coalesced, no    *)
(* time is slept away between it and the receiver's next look at the       *)
(* bucket (optimization-v1.md:839, no lost wake-up).  And none, not even   *)
(* the receiver's own, keeps it awake: a sleep is cut short at most once   *)
(* per signal and otherwise lasts for a delay within the bounds            *)
(* (optimization-v1.md:840, no busy loop).                                 *)
SignalsCountOnce ==
    /\ late = 0
    /\ wakes + chan <= notes
    /\ PollMin <= poll.delay /\ poll.delay <= PollMax
    /\ poll.left <= poll.delay
=============================================================================
