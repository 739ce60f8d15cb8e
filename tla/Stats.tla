------------------------------- MODULE Stats --------------------------------
(***************************************************************************)
(* Session statistics (internal/tunnel/stats.go).  A recording method      *)
(* first adds to an atomic counter and then, in a section of its own under *)
(* the mutex, appends to a slice and updates the maps; a snapshot copies   *)
(* the slices under the mutex and then loads the counters one by one.  All *)
(* of these interleave.  Of a slice of durations only its length is kept.  *)
(***************************************************************************)
EXTENDS Integers, FiniteSets

CONSTANTS Session  \* the sessions of one process

ASSUME StatsAssumption == IsFiniteSet(Session)

Direction == {"c2s", "s2c"}
Counters == {"started", "opened", "rejected", "completed", "failed"}
Slices == {"timeToOpenResult", "sessionDurations", "c2s", "s2c"}

VARIABLES
    counter,           \* the atomic counters
    samples,           \* the lengths of the slices
    sessionStarts,     \* the sessions with a start time
    firstDataObserved, \* the (session, direction) pairs already recorded
    snap               \* the Snapshot being taken

statVars == <<counter, samples, sessionStarts, firstDataObserved>>

StatsInit ==
    /\ counter = [c \in Counters |-> 0]
    /\ samples = [s \in Slices |-> 0]
    /\ sessionStarts = {}
    /\ firstDataObserved = {}
    /\ snap = [pc |-> 0, samples |-> samples, counter |-> counter]

Add(c) == counter' = [counter EXCEPT ![c] = @ + 1]
AppendTo(slice) == samples' = [samples EXCEPT ![slice] = @ + 1]

(* Mutant: the observed directions are forgotten to be removed.            *)
ForgetStartOnly(s) ==
    /\ sessionStarts' = sessionStarts \ {s}
    /\ UNCHANGED firstDataObserved

(* delete from all maps                                                    *)
Forget(s) ==
    /\ sessionStarts' = sessionStarts \ {s}
    /\ firstDataObserved' = firstDataObserved \ ({s} \X Direction)

(* The mutex sections of startSession, openSession, rejectSession and      *)
(* finishSession.                                                          *)
startSection(s) ==
    /\ sessionStarts' = sessionStarts \cup {s}
    /\ UNCHANGED <<counter, samples, firstDataObserved>>

openSection ==
    /\ AppendTo("timeToOpenResult")
    /\ UNCHANGED <<counter, sessionStarts, firstDataObserved>>

rejectSection(s) ==
    /\ AppendTo("timeToOpenResult")
    /\ Forget(s)
    /\ UNCHANGED counter

finishSection(s) ==
    /\ AppendTo("sessionDurations")
    /\ Forget(s)
    /\ UNCHANGED counter

(* recordFirstData, one mutex section: nothing is recorded for a session   *)
(* without a start time.                                                   *)
recordFirstData(s, dir) ==
    /\ IF s \in sessionStarts /\ <<s, dir>> \notin firstDataObserved
       THEN /\ firstDataObserved' = firstDataObserved \cup {<<s, dir>>}
            /\ AppendTo(dir)
       ELSE UNCHANGED <<firstDataObserved, samples>>
    /\ UNCHANGED <<counter, sessionStarts>>
-----------------------------------------------------------------------------
(* Snapshot *)

(* The counters in the order in which the snapshot loads them.             *)
LoadOrder == <<"started", "opened", "rejected", "completed", "failed">>

SnapshotCopy ==
    /\ snap.pc = 0
    /\ snap' = [snap EXCEPT !.pc = 1, !.samples = samples]
    /\ UNCHANGED statVars

(* Mutant: the slices are copied again with every load.                    *)
SnapshotLoadCopies ==
    /\ snap.pc \in 1 .. 5
    /\ snap' = [snap EXCEPT !.pc = @ + 1,
                            !.counter[LoadOrder[snap.pc]] = counter[LoadOrder[snap.pc]],
                            !.samples = samples]
    /\ UNCHANGED statVars

SnapshotLoad ==
    /\ snap.pc \in 1 .. 5
    /\ snap' = [snap EXCEPT !.pc = @ + 1,
                            !.counter[LoadOrder[snap.pc]] = counter[LoadOrder[snap.pc]]]
    /\ UNCHANGED statVars

SnapshotDone == snap.pc = 6
-----------------------------------------------------------------------------
(* A snapshot is no consistent cut, but it never shows a duration whose    *)
(* event it does not count: the open results in it are at most the         *)
(* sessions it counts as opened or rejected, the session durations those   *)
(* it counts as completed or failed, and the times to the first data those *)
(* it counts as opened (c2s) or started (s2c).  Snapshot copies before it  *)
(* loads, the recording methods count before they append.                  *)
SnapshotCoversSamples ==
    SnapshotDone =>
        /\ snap.samples.timeToOpenResult <= snap.counter.opened + snap.counter.rejected
        /\ snap.samples.sessionDurations <= snap.counter.completed + snap.counter.failed
        /\ snap.samples.c2s <= snap.counter.opened
        /\ snap.samples.s2c <= snap.counter.started
=============================================================================
