------------------------------- MODULE Stream -------------------------------
(***************************************************************************)
(* One direction of a tunnelled TCP session (internal/tunnel/tunnel.go).   *)
(* streamToStore reads chunks from a socket and PUTs them as numbered data *)
(* objects, waiting in waitWindow for the peer's ACK object when its send  *)
(* window is full, and ends with a close marker.  streamFromStore GETs the *)
(* objects in order, writes them to its own socket, publishes cumulative   *)
(* ACKs, looks for the close marker after a number of misses and gives up  *)
(* after an idle timeout.  The two run in different processes and share    *)
(* only the store.                                                         *)
(*                                                                         *)
(* Every store call is one atomic step, so the peer may act between any    *)
(* two calls.  A call fails when its context is cancelled or when the      *)
(* store answers with an error; a failed PUT may or may not have taken     *)
(* effect.  Polling delays only pace the loops and are left out: a sleep   *)
(* may end at any time.                                                    *)
(***************************************************************************)
EXTENDS Integers, Sequences, MailboxStore

CONSTANTS
    Chunk,                  \* what one aggregated read can return
    NoChunk,                \* the sender's and receiver's buffers when empty
    Bytes,                  \* length of each chunk in bytes
    MaxChunks,              \* bound: how many chunks the socket yields
    SendWindow,             \* the sender's Config.WindowChunks
    RecvWindow,             \* the receiver's Config.WindowChunks
    CloseCheckAfterMisses,  \* the receiver's Config.CloseCheckAfterMisses
    SendLimit,              \* maxBytes of streamToStore, 0 for no limit
    RecvLimit,              \* maxBytes of streamFromStore, 0 for no limit
    Faults                  \* the faults that may happen

(* withDefaults replaces a zero window by 16 and a non-positive            *)
(* CloseCheckAfterMisses by 4, so a running tunnel never has either.       *)
ASSUME ChunkAssumption ==
    /\ NoChunk \notin Chunk
    /\ Bytes \in [Chunk -> Nat \ {0}]
ASSUME WindowAssumption ==
    /\ SendWindow \in Nat \ {0}
    /\ RecvWindow \in Nat \ {0}
    /\ CloseCheckAfterMisses \in Nat \ {0}
ASSUME LimitAssumption ==
    /\ MaxChunks \in Nat
    /\ SendLimit \in Nat
    /\ RecvLimit \in Nat
ASSUME FaultAssumption == Faults \subseteq {"store", "socket", "timeout", "cancel"}

VARIABLES
    snd,   \* the locals of streamToStore and where it is
    rcv,   \* the locals of streamFromStore and where it is
    data,  \* the data objects of this direction, by sequence number
    ack,   \* NextSeq of the ack object, 0 while there is none
    close, \* the reason in the sender's close marker, "none" while there is none
    src,   \* every chunk read from the sender's socket
    dst,   \* every chunk written to the receiver's socket
    sctx,  \* the sender's session context is cancelled
    rctx   \* the receiver's session context is cancelled

sndVars == <<snd, src>>
rcvVars == <<rcv, dst>>
objVars == <<data, ack, close>>
vars == <<snd, rcv, data, ack, close, src, dst, sctx, rctx>>

SndPcs == {"read", "getack", "sleep", "put", "close", "done"}
RcvPcs == {"get", "write", "putack", "head", "check", "sleep", "done"}
(* A read ends with no error, with io.EOF or with another error; "limit"   *)
(* stands for the error that streamToStore makes itself.                   *)
ReadErrs == {"nil", "eof", "error", "limit"}
Results == {"none", "nil", "error"}

SndType ==
    [pc : SndPcs, buf : Chunk \cup {NoChunk}, err : ReadErrs,
     seq : Nat, sent : Nat, acked : Nat, res : Results]
RcvType ==
    [pc : RcvPcs, buf : Chunk \cup {NoChunk}, seq : Nat, lastAck : Nat,
     received : Nat, misses : Nat, expired : BOOLEAN, res : Results]

Max2(a, b) == IF a > b THEN a ELSE b

(* The receiver publishes an ACK every half window, at least every chunk.  *)
ackInterval(window) == IF window <= 2 THEN 1 ELSE window \div 2

(* Mutant: the chunk at hand is not counted.                               *)
OverLimitLate(limit, n, c) == limit > 0 /\ n > limit

(* maxBytes > 0 && n + len(data) > maxBytes                                *)
OverLimit(limit, n, c) == limit > 0 /\ n + Bytes[c] > limit

(* Mutant: one chunk too many.                                             *)
InWindowOffByOne(seq, acked) == seq <= acked + SendWindow

(* waitWindow lets chunk seq go when the peer has acknowledged enough.     *)
InWindow(seq, acked) == seq < acked + SendWindow
-----------------------------------------------------------------------------
SndInit ==
    snd = [pc |-> "read", buf |-> NoChunk, err |-> "nil", seq |-> 0,
           sent |-> 0, acked |-> 0, res |-> "none"]

RcvInit ==
    rcv = [pc |-> "get", buf |-> NoChunk, seq |-> 0, lastAck |-> 0,
           received |-> 0, misses |-> 0, expired |-> FALSE, res |-> "none"]

ObjInit ==
    /\ data = EmptyStore
    /\ ack = 0
    /\ close = "none"

Init ==
    /\ SndInit
    /\ RcvInit
    /\ ObjInit
    /\ src = << >>
    /\ dst = << >>
    /\ sctx = FALSE
    /\ rctx = FALSE
-----------------------------------------------------------------------------
(* streamToStore *)

SndReturn(res) == snd' = [snd EXCEPT !.pc = "done", !.res = res]

(* A store call made under the sender's context may return an error.       *)
SndCallFails == sctx \/ "store" \in Faults

(* Where a data read leads: over the byte limit, straight to the PUT, or   *)
(* to the loop of waitWindow.                                              *)
AfterRead(c) ==
    IF OverLimit(SendLimit, snd.sent, c) THEN "close"
    ELSE IF InWindow(snd.seq, snd.acked) THEN "put" ELSE "getack"

(* aggregator.Read returned data, possibly together with an error.  The    *)
(* context is only looked at while coalescing, where it ends the read with *)
(* the data gathered so far and an error.                                  *)
SndReadData(c, err) ==
    /\ snd.pc = "read"
    /\ Len(src) < MaxChunks
    /\ err = "error" => ("socket" \in Faults \/ sctx)
    /\ src' = Append(src, c)
    /\ snd' = [snd EXCEPT !.pc = AfterRead(c), !.buf = c,
                          !.err = IF OverLimit(SendLimit, snd.sent, c)
                                  THEN "limit" ELSE err]
    /\ UNCHANGED <<rcvVars, objVars, sctx, rctx>>

(* aggregator.Read returned no data: end of file or a socket error.        *)
SndReadEnd(err) ==
    /\ snd.pc = "read"
    /\ err = "error" => "socket" \in Faults
    /\ snd' = [snd EXCEPT !.pc = "close", !.err = err]
    /\ UNCHANGED <<src, rcvVars, objVars, sctx, rctx>>

(* Mutant: the ACK that was read is not kept.                              *)
SndGetAckForgets ==
    /\ snd.pc = "getack"
    /\ ~sctx
    /\ snd' = [snd EXCEPT !.pc = IF InWindow(snd.seq, snd.acked) THEN "put" ELSE "sleep"]
    /\ UNCHANGED <<src, rcvVars, objVars, sctx, rctx>>

(* waitWindow: read the peer's ACK (a missing object counts as 0) and keep *)
(* the largest value seen.                                                 *)
SndGetAck ==
    /\ snd.pc = "getack"
    /\ ~sctx
    /\ LET acked == Max2(snd.acked, ack) IN
         snd' = [snd EXCEPT !.acked = acked,
                            !.pc = IF InWindow(snd.seq, acked) THEN "put" ELSE "sleep"]
    /\ UNCHANGED <<src, rcvVars, objVars, sctx, rctx>>

SndGetAckFails ==
    /\ snd.pc = "getack"
    /\ SndCallFails
    /\ SndReturn("error")
    /\ UNCHANGED <<src, rcvVars, objVars, sctx, rctx>>

(* waitWindow: the poll timer fired.                                       *)
SndWake ==
    /\ snd.pc = "sleep"
    /\ snd' = [snd EXCEPT !.pc = "getack"]
    /\ UNCHANGED <<src, rcvVars, objVars, sctx, rctx>>

(* waitWindow: the context was cancelled during the sleep.                 *)
SndSleepCancelled ==
    /\ snd.pc = "sleep"
    /\ sctx
    /\ SndReturn("error")
    /\ UNCHANGED <<src, rcvVars, objVars, sctx, rctx>>

(* Mutant: the read's error is not looked at, every chunk ends the stream. *)
SndPutAlwaysCloses ==
    /\ snd.pc = "put"
    /\ ~sctx
    /\ data' = PutObject(data, snd.seq, snd.buf)
    /\ snd' = [snd EXCEPT !.pc = "close", !.seq = snd.seq + 1,
                          !.sent = snd.sent + Bytes[snd.buf], !.buf = NoChunk]
    /\ UNCHANGED <<src, rcvVars, ack, close, sctx, rctx>>

(* Mutant: the sequence number is not advanced.                            *)
SndPutSameSeq ==
    /\ snd.pc = "put"
    /\ ~sctx
    /\ data' = PutObject(data, snd.seq, snd.buf)
    /\ snd' = [snd EXCEPT !.pc = IF snd.err = "nil" THEN "read" ELSE "close",
                          !.sent = snd.sent + Bytes[snd.buf], !.buf = NoChunk]
    /\ UNCHANGED <<src, rcvVars, ack, close, sctx, rctx>>

(* The data object is written; then the error that came with the read is   *)
(* handled, or the loop goes on.                                           *)
SndPut ==
    /\ snd.pc = "put"
    /\ ~sctx
    /\ data' = PutObject(data, snd.seq, snd.buf)
    /\ snd' = [snd EXCEPT !.pc = IF snd.err = "nil" THEN "read" ELSE "close",
                          !.seq = snd.seq + 1,
                          !.sent = snd.sent + Bytes[snd.buf],
                          !.buf = NoChunk]
    /\ UNCHANGED <<src, rcvVars, ack, close, sctx, rctx>>

(* Mutant: the error of the PUT is ignored.                                *)
SndPutFailsIgnored(applied) ==
    /\ snd.pc = "put"
    /\ SndCallFails
    /\ data' = IF applied THEN PutObject(data, snd.seq, snd.buf) ELSE data
    /\ snd' = [snd EXCEPT !.pc = IF snd.err = "nil" THEN "read" ELSE "close",
                          !.seq = snd.seq + 1, !.buf = NoChunk]
    /\ UNCHANGED <<src, rcvVars, ack, close, sctx, rctx>>

SndPutFails(applied) ==
    /\ snd.pc = "put"
    /\ SndCallFails
    /\ data' = IF applied THEN PutObject(data, snd.seq, snd.buf) ELSE data
    /\ SndReturn("error")
    /\ UNCHANGED <<src, rcvVars, ack, close, sctx, rctx>>

(* The error streamToStore returns is one it made itself.                  *)
SndOwnError == snd.err = "limit"

(* putClose; only an end of file makes streamToStore return nil.           *)
SndClose ==
    /\ snd.pc = "close"
    /\ ~sctx
    /\ close' = snd.err
    /\ SndReturn(IF snd.err = "eof" THEN "nil" ELSE "error")
    /\ UNCHANGED <<src, rcvVars, data, ack, sctx, rctx>>

SndCloseFails(applied) ==
    /\ snd.pc = "close"
    /\ SndCallFails
    /\ close' = IF applied THEN snd.err ELSE close
    /\ SndReturn("error")
    /\ UNCHANGED <<src, rcvVars, data, ack, sctx, rctx>>
-----------------------------------------------------------------------------
(* streamFromStore *)

RcvReturn(res) == rcv' = [rcv EXCEPT !.pc = "done", !.res = res]

RcvCallFails == rctx \/ "store" \in Faults

(* The next data object exists and fits the byte limit: go and write it.   *)
RcvGetHit ==
    /\ rcv.pc = "get"
    /\ ~rctx
    /\ HasObject(data, rcv.seq)
    /\ ~OverLimit(RecvLimit, rcv.received, data[rcv.seq])
    /\ rcv' = [rcv EXCEPT !.pc = "write", !.buf = data[rcv.seq]]
    /\ UNCHANGED <<sndVars, objVars, dst, sctx, rctx>>

RcvOverLimit ==
    /\ rcv.pc = "get"
    /\ ~rctx
    /\ HasObject(data, rcv.seq)
    /\ OverLimit(RecvLimit, rcv.received, data[rcv.seq])
    /\ RcvReturn("error")
    /\ UNCHANGED <<sndVars, objVars, dst, sctx, rctx>>

(* The next data object is not there yet.  After CloseCheckAfterMisses of  *)
(* these in a row the close marker is looked up.                           *)
RcvGetMiss ==
    /\ rcv.pc = "get"
    /\ ~rctx
    /\ ~HasObject(data, rcv.seq)
    /\ rcv' = IF rcv.misses + 1 >= CloseCheckAfterMisses
              THEN [rcv EXCEPT !.pc = "head", !.misses = 0]
              ELSE [rcv EXCEPT !.pc = "check", !.misses = rcv.misses + 1]
    /\ UNCHANGED <<sndVars, objVars, dst, sctx, rctx>>

(* GetObject failed, or OpenData could not open what it returned.          *)
RcvGetFails ==
    /\ rcv.pc = "get"
    /\ RcvCallFails
    /\ RcvReturn("error")
    /\ UNCHANGED <<sndVars, objVars, dst, sctx, rctx>>

(* Mutant: the position is not advanced.                                   *)
RcvWriteSameSeq ==
    /\ rcv.pc = "write"
    /\ dst' = Append(dst, rcv.buf)
    /\ rcv' = [rcv EXCEPT !.pc = "get", !.buf = NoChunk, !.misses = 0,
                          !.received = rcv.received + Bytes[rcv.buf],
                          !.expired = FALSE]
    /\ UNCHANGED <<sndVars, objVars, sctx, rctx>>

(* Mutant: the ACK is due one chunk too late.                              *)
RcvWriteLateAck ==
    /\ rcv.pc = "write"
    /\ dst' = Append(dst, rcv.buf)
    /\ rcv' = [rcv EXCEPT !.pc = IF rcv.seq + 1 - rcv.lastAck > ackInterval(RecvWindow)
                                 THEN "putack" ELSE "get",
                          !.seq = rcv.seq + 1,
                          !.received = rcv.received + Bytes[rcv.buf],
                          !.buf = NoChunk, !.misses = 0, !.expired = FALSE]
    /\ UNCHANGED <<sndVars, objVars, sctx, rctx>>

(* The chunk reached the socket: count it, and acknowledge if it is time.  *)
RcvWrite ==
    /\ rcv.pc = "write"
    /\ dst' = Append(dst, rcv.buf)
    /\ rcv' = [rcv EXCEPT !.pc = IF rcv.seq + 1 - rcv.lastAck >= ackInterval(RecvWindow)
                                 THEN "putack" ELSE "get",
                          !.seq = rcv.seq + 1,
                          !.received = rcv.received + Bytes[rcv.buf],
                          !.buf = NoChunk,
                          !.misses = 0,
                          !.expired = FALSE]
    /\ UNCHANGED <<sndVars, objVars, sctx, rctx>>

(* The write failed; the bytes may have left (a part of a chunk counts as  *)
(* the chunk).                                                             *)
RcvWriteFails(applied) ==
    /\ rcv.pc = "write"
    /\ "socket" \in Faults
    /\ dst' = IF applied THEN Append(dst, rcv.buf) ELSE dst
    /\ RcvReturn("error")
    /\ UNCHANGED <<sndVars, objVars, sctx, rctx>>

(* Mutant: the ACK covers the chunk that is still to come.                 *)
RcvPutAckAhead ==
    /\ rcv.pc = "putack"
    /\ ~rctx
    /\ ack' = rcv.seq + 1
    /\ rcv' = [rcv EXCEPT !.pc = "get", !.lastAck = rcv.seq, !.misses = 0,
                          !.expired = FALSE]
    /\ UNCHANGED <<sndVars, data, close, dst, sctx, rctx>>

RcvPutAck ==
    /\ rcv.pc = "putack"
    /\ ~rctx
    /\ ack' = rcv.seq
    /\ rcv' = [rcv EXCEPT !.pc = "get", !.lastAck = rcv.seq, !.misses = 0,
                          !.expired = FALSE]
    /\ UNCHANGED <<sndVars, data, close, dst, sctx, rctx>>

RcvPutAckFails(applied) ==
    /\ rcv.pc = "putack"
    /\ RcvCallFails
    /\ ack' = IF applied THEN rcv.seq ELSE ack
    /\ RcvReturn("error")
    /\ UNCHANGED <<sndVars, data, close, dst, sctx, rctx>>

(* Mutant: the answer of the HEAD is not looked at.                        *)
RcvHeadAlways ==
    /\ rcv.pc = "head"
    /\ ~rctx
    /\ RcvReturn("nil")
    /\ UNCHANGED <<sndVars, objVars, dst, sctx, rctx>>

(* closeExists: a marker ends the stream with no error.                    *)
RcvHead ==
    /\ rcv.pc = "head"
    /\ ~rctx
    /\ IF close = "none" THEN rcv' = [rcv EXCEPT !.pc = "check"]
                             ELSE RcvReturn("nil")
    /\ UNCHANGED <<sndVars, objVars, dst, sctx, rctx>>

RcvHeadFails ==
    /\ rcv.pc = "head"
    /\ RcvCallFails
    /\ RcvReturn("error")
    /\ UNCHANGED <<sndVars, objVars, dst, sctx, rctx>>

(* Mutant: the deadline is never looked at.                                *)
RcvCheckForever ==
    /\ rcv.pc = "check"
    /\ rcv' = [rcv EXCEPT !.pc = "sleep"]
    /\ UNCHANGED <<sndVars, objVars, dst, sctx, rctx>>

(* After a miss the idle deadline is checked, then the receiver sleeps.    *)
RcvCheck ==
    /\ rcv.pc = "check"
    /\ IF rcv.expired THEN RcvReturn("error")
                      ELSE rcv' = [rcv EXCEPT !.pc = "sleep"]
    /\ UNCHANGED <<sndVars, objVars, dst, sctx, rctx>>

(* sleepOrActivity: the timer or an activity signal.                       *)
RcvWake ==
    /\ rcv.pc = "sleep"
    /\ rcv' = [rcv EXCEPT !.pc = "get"]
    /\ UNCHANGED <<sndVars, objVars, dst, sctx, rctx>>

RcvSleepCancelled ==
    /\ rcv.pc = "sleep"
    /\ rctx
    /\ RcvReturn("error")
    /\ UNCHANGED <<sndVars, objVars, dst, sctx, rctx>>

(* The error streamFromStore returns is one it made itself: over the byte  *)
(* limit, or the idle timeout.                                             *)
RcvOwnError ==
    \/ rcv.expired
    \/ HasObject(data, rcv.seq) /\ OverLimit(RecvLimit, rcv.received, data[rcv.seq])
-----------------------------------------------------------------------------
(* The environment: time, cancellation and the end.                        *)

(* IdleTimeout has passed since the last delivered chunk.                  *)
Expire ==
    /\ "timeout" \in Faults
    /\ rcv.pc # "done"
    /\ ~rcv.expired
    /\ rcv' = [rcv EXCEPT !.expired = TRUE]
    /\ UNCHANGED <<sndVars, objVars, dst, sctx, rctx>>

(* The session that owns the goroutine cancels its context.                *)
CancelSender ==
    /\ "cancel" \in Faults
    /\ ~sctx
    /\ sctx' = TRUE
    /\ UNCHANGED <<sndVars, rcvVars, objVars, rctx>>

CancelReceiver ==
    /\ "cancel" \in Faults
    /\ ~rctx
    /\ rctx' = TRUE
    /\ UNCHANGED <<sndVars, rcvVars, objVars, sctx>>

(* Both goroutines have returned.                                          *)
Finished ==
    /\ snd.pc = "done"
    /\ rcv.pc = "done"
    /\ UNCHANGED vars
-----------------------------------------------------------------------------
SndRead ==
    \/ \E c \in Chunk, err \in {"nil", "eof", "error"} : SndReadData(c, err)
    \/ \E err \in {"eof", "error"} : SndReadEnd(err)

(* What streamToStore does by itself, without waiting for its socket.      *)
SndStep ==
    \/ SndGetAck \/ SndGetAckFails
    \/ SndWake \/ SndSleepCancelled
    \/ SndPut \/ (\E applied \in BOOLEAN : SndPutFails(applied))
    \/ SndClose \/ (\E applied \in BOOLEAN : SndCloseFails(applied))

(* What streamFromStore does by itself, without waiting for its socket.    *)
RcvStep ==
    \/ RcvGetHit \/ RcvOverLimit \/ RcvGetMiss \/ RcvGetFails
    \/ RcvPutAck \/ (\E applied \in BOOLEAN : RcvPutAckFails(applied))
    \/ RcvHead \/ RcvHeadFails
    \/ RcvCheck \/ RcvWake \/ RcvSleepCancelled

RcvSocket == RcvWrite \/ (\E applied \in BOOLEAN : RcvWriteFails(applied))

Sender == SndRead \/ SndStep
Receiver == RcvStep \/ RcvSocket

Next ==
    \/ Sender
    \/ Receiver
    \/ Expire
    \/ CancelSender
    \/ CancelReceiver
    \/ Finished

Spec == Init /\ [][Next]_vars

(* Both goroutines keep running, the socket accepts what is written to it  *)
(* and time passes; nothing is assumed of the socket being read.           *)
Fairness ==
    /\ WF_vars(SndStep)
    /\ WF_vars(Receiver)
    /\ WF_vars(Expire)

FairSpec == Spec /\ Fairness
-----------------------------------------------------------------------------
TypeOK ==
    /\ snd \in SndType
    /\ rcv \in RcvType
    /\ DOMAIN data \subseteq Nat
    /\ \A k \in DOMAIN data : data[k] \in Chunk
    /\ ack \in Nat
    /\ close \in {"none", "eof", "error", "limit"}
    /\ src \in Seq(Chunk)
    /\ dst \in Seq(Chunk)
    /\ sctx \in BOOLEAN
    /\ rctx \in BOOLEAN
-----------------------------------------------------------------------------
(* What the receiver's socket got is a prefix of what the sender's socket  *)
(* gave: nothing reordered, repeated, invented or skipped, whatever fails  *)
(* and wherever either side stops (streamToStore, streamFromStore).        *)
DeliveredInOrder ==
    /\ Len(dst) <= Len(src)
    /\ \A i \in 1 .. Len(dst) : dst[i] = src[i]

(* At most SendWindow data objects lie in the bucket ahead of what the     *)
(* receiver has consumed, although the sender only knows a stale copy of   *)
(* the receiver's position (waitWindow).                                   *)
WindowBound == \A k \in DOMAIN data : k < rcv.seq + SendWindow

(* The ACK never covers a chunk that did not reach the receiver's socket,  *)
(* and the sender never believes more than was acknowledged, failed and    *)
(* half-done ACK writes included (putAck, getAck).                         *)
AckSound ==
    /\ ack <= Len(dst)
    /\ snd.acked <= ack

(* When a close marker that announces a clean end is in the bucket, or     *)
(* streamToStore has reported success, every chunk read from the socket is *)
(* in the bucket: the marker is never ahead of the data it closes.         *)
CloseAfterData ==
    (close = "eof" \/ snd.res = "nil") =>
        /\ close = "eof"
        /\ DOMAIN data = 0 .. Len(src) - 1

(* As long as the receiver's ACK interval fits the sender's window, the    *)
(* two never wait for each other: a sender in waitWindow either would see  *)
(* its window open at the next GET of the ACK, or the receiver still has a *)
(* data object to fetch (or has an ACK to write, or has stopped).          *)
NoWindowDeadlock ==
    (/\ ackInterval(RecvWindow) <= SendWindow
     /\ snd.pc \in {"getack", "sleep"}
     /\ rcv.pc \in {"get", "head", "check", "sleep"})
    => (InWindow(snd.seq, ack) \/ HasObject(data, rcv.seq))

(* How many bytes the first k chunks of s have.                            *)
TotalBytes(s, k) ==
    LET sum[i \in 0 .. k] == IF i = 0 THEN 0 ELSE sum[i - 1] + Bytes[s[i]] IN sum[k]

(* Neither byte limit is ever exceeded: the data objects the sender wrote  *)
(* and the chunks that reached the receiver's socket each stay within the  *)
(* limit of the goroutine that moved them, and a stream that was cut for   *)
(* its size really had more bytes than allowed (maxBytes in streamToStore  *)
(* and streamFromStore).                                                   *)
LimitsRespected ==
    /\ SendLimit > 0 =>
         /\ \A k \in DOMAIN data : TotalBytes(src, k + 1) <= SendLimit
         /\ close = "limit" => TotalBytes(src, Len(src)) > SendLimit
    /\ RecvLimit > 0 => TotalBytes(dst, Len(dst)) <= RecvLimit

(* What is in the bucket only moves forward: a data object is written once *)
(* and never changed or removed (docs/PROTOCOL.md: "data objects are not   *)
(* overwritten"), and an ACK object never falls back, also when a PUT that *)
(* reported an error has taken effect.                                     *)
ObjectsMoveForward ==
    [][/\ \A k \in DOMAIN data : k \in DOMAIN data' /\ data'[k] = data[k]
       /\ ack' >= ack]_vars

(* With no faults, every chunk that is read is eventually written to the   *)
(* other socket unless the receiver has already ended.                     *)
EveryChunkArrives ==
    \A n \in 1 .. MaxChunks :
        (Len(src) >= n) ~> (Len(dst) >= n \/ rcv.pc = "done" \/ snd.err = "limit")

(* Whatever ended the sender, the receiver ends too: by the close marker,  *)
(* by an error or by its idle timeout.                                     *)
ReceiverEnds == (snd.pc = "done") ~> (rcv.pc = "done")

(* optimization-v1.md:178: closing does not lose the last data objects.    *)
CloseLosesNothing ==
    (rcv.res = "nil" /\ close = "eof") => Len(dst) = Len(src)
-----------------------------------------------------------------------------
(* One direction implements the bounded pipe: the sender's socket is the   *)
(* writer, the receiver's socket the reader, a close marker in the bucket  *)
(* is the announced end.  Besides the window there is room for the one     *)
(* chunk streamToStore holds while it waits.                               *)
P == INSTANCE Pipe WITH
        Item <- Chunk, Capacity <- SendWindow + 1,
        in <- src, out <- dst,
        closed <- (close # "none"), eof <- (rcv.res = "nil")

(* Every step of the tunnel is a step of the pipe or invisible to it.      *)
ImplementsPipe == P!PipeSpec
-----------------------------------------------------------------------------
(* The inductive invariant behind the safety properties, in three parts.   *)

(* The sender's buffer is the last chunk read, and everything before it is *)
(* in the bucket; the window test still holds when the PUT is made.        *)
SenderInv ==
    /\ snd.buf = NoChunk => Len(src) = snd.seq
    /\ snd.buf # NoChunk => Len(src) = snd.seq + 1 /\ src[Len(src)] = snd.buf
    /\ snd.pc = "read" => snd.buf = NoChunk /\ snd.err = "nil"
    /\ snd.pc \in {"getack", "sleep", "put"} => snd.buf # NoChunk /\ snd.err # "limit"
    /\ snd.pc \in {"getack", "sleep"} => ~InWindow(snd.seq, snd.acked)
    /\ snd.pc = "put" => InWindow(snd.seq, snd.acked)
    /\ snd.pc = "close" => snd.err # "nil" /\ (snd.err # "limit" => snd.buf = NoChunk)
    /\ snd.pc = "done" <=> snd.res # "none"
    /\ snd.seq <= snd.acked + SendWindow

(* The bucket holds exactly the chunks the sender has counted; only a PUT  *)
(* that failed after taking effect, which ends the sender, adds one more.  *)
StoreInv ==
    /\ \A k \in DOMAIN data : k < Len(src) /\ data[k] = src[k + 1]
    /\ 0 .. snd.seq - 1 \subseteq DOMAIN data
    /\ \A k \in DOMAIN data : k < snd.acked + SendWindow
    /\ snd.pc # "done" => \A k \in DOMAIN data : k < snd.seq
    /\ close # "none" => snd.pc = "done" /\ snd.err = close
    /\ close = "eof" => snd.buf = NoChunk
    /\ snd.res = "nil" => close = "eof"
    /\ snd.acked <= ack
    /\ ack <= rcv.seq

(* The receiver's position is what it has written, and its last ACK is     *)
(* less than an ACK interval behind while it polls.                        *)
ReceiverInv ==
    /\ rcv.seq <= Len(dst)
    /\ Len(dst) <= rcv.seq + 1
    /\ rcv.pc # "done" => Len(dst) = rcv.seq
    /\ Len(dst) <= Len(src)
    /\ \A i \in 1 .. Len(dst) : dst[i] = src[i]
    /\ rcv.pc = "write" => rcv.seq \in DOMAIN data /\ rcv.buf = data[rcv.seq]
    /\ rcv.pc # "done" => ack = rcv.lastAck
    /\ rcv.pc \in {"get", "write", "head", "check", "sleep"}
          => rcv.seq - rcv.lastAck < ackInterval(RecvWindow)
    /\ rcv.pc = "done" <=> rcv.res # "none"
    /\ rcv.res = "nil" => close # "none"

StreamInv == TypeOK /\ SenderInv /\ StoreInv /\ ReceiverInv

(* The counters of the byte limits agree with what the goroutines moved,   *)
(* and the test made when a chunk was read or fetched still holds while it *)
(* waits to be put or written.                                             *)
SenderLimitInv ==
    /\ snd.sent = TotalBytes(src, snd.seq)
    /\ snd.pc \in {"getack", "sleep", "put"} => ~OverLimit(SendLimit, snd.sent, snd.buf)
    /\ snd.err = "limit" => snd.buf # NoChunk /\ OverLimit(SendLimit, snd.sent, snd.buf)
    /\ SendLimit > 0 => \A k \in DOMAIN data : TotalBytes(src, k + 1) <= SendLimit

ReceiverLimitInv ==
    /\ rcv.pc # "done" => rcv.received = TotalBytes(dst, Len(dst))
    /\ rcv.pc = "write" => ~OverLimit(RecvLimit, rcv.received, rcv.buf)
    /\ RecvLimit > 0 => TotalBytes(dst, Len(dst)) <= RecvLimit

LimitInv == SenderLimitInv /\ ReceiverLimitInv
=============================================================================
