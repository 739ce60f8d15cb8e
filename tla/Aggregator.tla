----------------------------- MODULE Aggregator -----------------------------
(***************************************************************************)
(* Chunk aggregation (internal/tunnel/aggregation.go).  One Read makes a   *)
(* blocking socket read and then, for at most FlushDelay, more reads under *)
(* a read deadline, until the chunk is full, the deadline passes, the      *)
(* stream ends or the session is cancelled.                                *)
(*                                                                         *)
(* Bytes are numbered in the order in which they arrive at the socket; a   *)
(* socket read returns any positive number of the bytes that have arrived. *)
(***************************************************************************)
EXTENDS Integers, Sequences

CONSTANTS
    MaxBytes,    \* Aggregator.MaxBytes, the negotiated chunk size
    StreamBytes  \* bound: how many bytes the local peer sends

ASSUME AggregatorAssumption ==
    /\ MaxBytes \in Nat \ {0}
    /\ StreamBytes \in Nat

VARIABLES
    sock,  \* the socket: bytes arrived and read, how it ends, its deadline
    agg,   \* the locals of Read and where it is
    got,   \* every byte that Read has returned, in order
    last,  \* the last AggregatedRead
    actx   \* the session's context is cancelled

aggVars == <<sock, agg, got, last, actx>>

AggInit ==
    /\ sock = [arrived |-> 0, read |-> 0, end |-> "open", deadline |-> "none"]
    /\ \E flush \in BOOLEAN :   \* whether FlushDelay is positive
         agg = [pc |-> "first", out |-> << >>, err |-> "nil", flush |-> flush]
    /\ got = << >>
    /\ last = [size |-> 0, reason |-> "none"]
    /\ actx = FALSE

Interval(a, b) == [i \in 1 .. b - a |-> a + i]

(* What a socket read into a buffer of the given size may return: only a   *)
(* timeout once the deadline has passed; otherwise bytes, bytes with the   *)
(* end of the stream behind the last of them, or that end alone.           *)
SocketReads(size) ==
    LET avail == sock.arrived - sock.read IN
    IF sock.deadline = "passed" THEN {[n |-> 0, err |-> "timeout"]}
    ELSE [n : {k \in 1 .. size : k <= avail}, err : {"nil"}]
         \cup [n : {k \in 0 .. size : k = avail},
               err : {sock.end} \ {"open"}]

reasonForErr(err) == IF err = "eof" THEN "eof" ELSE "error"

(* Mutant: Read leaves its deadline on the socket.                         *)
ReadReturnsArmed(data, n, reason, err) ==
    /\ got' = got \o data
    /\ last' = IF data = << >> THEN last ELSE [size |-> Len(data), reason |-> reason]
    /\ agg' = [agg EXCEPT !.pc = IF err = "nil" THEN "first" ELSE "ended",
                          !.out = << >>, !.err = err]
    /\ sock' = [sock EXCEPT !.read = @ + n]

(* Read returns data and err after a socket read of n bytes; the deferred  *)
(* clearReadDeadline runs.  streamToStore calls Read again unless there    *)
(* was an error.                                                           *)
ReadReturns(data, n, reason, err) ==
    /\ got' = got \o data
    /\ last' = IF data = << >> THEN last ELSE [size |-> Len(data), reason |-> reason]
    /\ agg' = [agg EXCEPT !.pc = IF err = "nil" THEN "first" ELSE "ended",
                          !.out = << >>, !.err = err]
    /\ sock' = [sock EXCEPT !.read = @ + n, !.deadline = "none"]
-----------------------------------------------------------------------------
(* The first read blocks without a deadline.  A chunk that is not full is  *)
(* returned at once when nothing is to be waited for or the deadline       *)
(* cannot be set, which only happens on a broken socket.                   *)
FirstRead(r) ==
    LET data == Interval(sock.read, sock.read + r.n) IN
    /\ agg.pc = "first"
    /\ \/ /\ r.n = 0 \/ r.err # "nil"
          /\ ReadReturns(data, r.n, reasonForErr(r.err), r.err)
       \/ /\ r.n > 0 /\ r.err = "nil" /\ r.n >= MaxBytes
          /\ ReadReturns(data, r.n, "size", "nil")
       \/ /\ r.n > 0 /\ r.err = "nil" /\ r.n < MaxBytes
          /\ ~agg.flush \/ sock.end = "error"
          /\ ReadReturns(data, r.n, "deadline", "nil")
       \/ /\ r.n > 0 /\ r.err = "nil" /\ r.n < MaxBytes /\ agg.flush
          /\ agg' = [agg EXCEPT !.pc = "more", !.out = data]
          /\ sock' = [sock EXCEPT !.read = @ + r.n, !.deadline = "armed"]
          /\ UNCHANGED <<got, last>>
    /\ UNCHANGED actx

(* Mutant: a cancelled session drops the bytes gathered so far.            *)
MoreCancelledDrops ==
    /\ agg.pc = "more"
    /\ actx
    /\ ReadReturns(<< >>, 0, "error", "cancelled")
    /\ UNCHANGED actx

(* The context is looked at before every further read.                     *)
MoreCancelled ==
    /\ agg.pc = "more"
    /\ actx
    /\ ReadReturns(agg.out, 0, "error", "cancelled")
    /\ UNCHANGED actx

(* buf[:maxBytes-len(out)]                                                 *)
Room(out) == MaxBytes - Len(out)

(* Mutant: the loop only ends when the chunk is full or the stream has     *)
(* ended.                                                                  *)
MoreReadUntilFull(r) ==
    LET data == agg.out \o Interval(sock.read, sock.read + r.n) IN
    /\ agg.pc = "more"
    /\ ~actx
    /\ \/ /\ Len(data) >= MaxBytes
          /\ ReadReturns(data, r.n, "size", r.err)
       \/ /\ Len(data) < MaxBytes /\ r.err \notin {"nil", "timeout"}
          /\ ReadReturns(data, r.n, reasonForErr(r.err), r.err)
       \/ /\ Len(data) < MaxBytes /\ r.err \in {"nil", "timeout"}
          /\ agg' = [agg EXCEPT !.out = data]
          /\ sock' = [sock EXCEPT !.read = @ + r.n, !.deadline = "armed"]
          /\ UNCHANGED <<got, last>>
    /\ UNCHANGED actx

(* A further read fills the chunk, times out, ends the stream or goes on.  *)
MoreRead(r) ==
    LET data == agg.out \o Interval(sock.read, sock.read + r.n) IN
    /\ agg.pc = "more"
    /\ ~actx
    /\ \/ /\ Len(data) >= MaxBytes
          /\ ReadReturns(data, r.n, "size", r.err)
       \/ /\ Len(data) < MaxBytes /\ r.err = "timeout"
          /\ ReadReturns(data, r.n, "deadline", "nil")
       \/ /\ Len(data) < MaxBytes /\ r.err \notin {"nil", "timeout"}
          /\ ReadReturns(data, r.n, reasonForErr(r.err), r.err)
       \/ /\ Len(data) < MaxBytes /\ r.err = "nil"
          /\ agg' = [agg EXCEPT !.out = data]
          /\ sock' = [sock EXCEPT !.read = @ + r.n]
          /\ UNCHANGED <<got, last>>
    /\ UNCHANGED actx
-----------------------------------------------------------------------------
(* The environment: the local peer, the clock and the session.             *)
PeerSends ==
    /\ sock.end = "open"
    /\ sock.arrived < StreamBytes
    /\ sock' = [sock EXCEPT !.arrived = @ + 1]
    /\ UNCHANGED <<agg, got, last, actx>>

PeerEnds(how) ==
    /\ sock.end = "open"
    /\ sock' = [sock EXCEPT !.end = how]
    /\ UNCHANGED <<agg, got, last, actx>>

DeadlinePasses ==
    /\ sock.deadline = "armed"
    /\ sock' = [sock EXCEPT !.deadline = "passed"]
    /\ UNCHANGED <<agg, got, last, actx>>

CancelRead ==
    /\ ~actx
    /\ actx' = TRUE
    /\ UNCHANGED <<sock, agg, got, last>>

ReadStep ==
    \/ \E r \in SocketReads(MaxBytes) : FirstRead(r)
    \/ \E r \in SocketReads(Room(agg.out)) : MoreRead(r)
    \/ MoreCancelled

AggNext ==
    \/ ReadStep
    \/ PeerSends
    \/ \E how \in {"eof", "error"} : PeerEnds(how)
    \/ DeadlinePasses
    \/ CancelRead

(* The goroutine keeps running and time passes.                            *)
AggFairness == WF_aggVars(ReadStep) /\ WF_aggVars(DeadlinePasses)

AggSpec == AggInit /\ [][AggNext]_aggVars /\ AggFairness
-----------------------------------------------------------------------------
(* The bytes returned so far and the chunk being gathered are the bytes    *)
(* read from the socket, in order: the chunk is neither lost nor repeated  *)
(* when the deadline, the end of the stream or a cancellation cuts it      *)
(* short (Aggregator.Read).                                                *)
AggregationLossless == got \o agg.out = Interval(0, sock.read)

(* What a read reports is true.  A chunk is within the limit that the peer *)
(* announced, and flushed for its size only when it is full; the stream is *)
(* reported to have ended only after every byte before its end has been    *)
(* returned, and never because of a flush deadline, be it of this read or  *)
(* one that an earlier read has left on the socket (isTimeout, the         *)
(* deferred clearReadDeadline).                                            *)
ReadReportsTruly ==
    /\ last.size <= MaxBytes
    /\ last.reason = "size" => last.size = MaxBytes
    /\ agg.err \in {"eof", "error"} => Len(got) = sock.arrived
    /\ agg.err # "timeout"

(* Bytes that have arrived are handed on even when the peer then stays     *)
(* silent without closing, unless the stream has ended with an error.      *)
ArrivedIsFlushed == []<>(Len(got) = sock.arrived \/ agg.pc = "ended")
=============================================================================
