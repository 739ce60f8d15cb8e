----------------------------- MODULE SocksClient ----------------------------
(***************************************************************************)
(* The client's side of a connection: the SOCKS5 listener                  *)
(* (internal/socks5/socks5.go) accepts it, negotiates, reads the request   *)
(* and calls HandleSOCKS (internal/tunnel/tunnel.go), which records the    *)
(* session in the shared statistics and answers through the reply          *)
(* callback.  A connection has one session, named like it.  What happens   *)
(* in the bucket is seen only through the outcomes of putJSON, waitJSON    *)
(* and the two streams.  As in the benchmarks, the server of the session   *)
(* shares the statistics and runs on its own.                              *)
(***************************************************************************)
EXTENDS Stats, Sequences

VARIABLES
    ln,   \* the listener: open, or closed because Serve has ended
    conn  \* each connection's goroutine: where it is, its replies, its result

socksVars == <<counter, samples, sessionStarts, firstDataObserved, snap, ln, conn>>

ReplySucceeded == "succeeded"

(* The goroutine between counting a session as started and as ended.       *)
CountedPcs == {"start", "open", "wait", "opened", "accepted", "stream", "end"}

SocksInit ==
    /\ StatsInit
    /\ ln = "open"
    /\ conn = [c \in Session |->
                 [pc |-> "none", after |-> "none", result |-> "none",
                  replied |-> FALSE, replies |-> << >>, sent |-> {}]]

At(c, pc) == conn[c].pc = pc
Goto(c, pc) == conn' = [conn EXCEPT ![c].pc = pc]

writeReply(c, code, pc) ==
    conn' = [conn EXCEPT ![c].pc = pc, ![c].replies = Append(@, code)]

(* Mutant: the callback does not remember that it has replied.             *)
replyAlways(c, code, pc) ==
    IF conn[c].replied THEN Goto(c, pc) ELSE writeReply(c, code, pc)

(* The reply callback writes the first code it is given and ignores the    *)
(* others; then the goroutine goes on at pc.                               *)
reply(c, code, pc) ==
    IF conn[c].replied THEN Goto(c, pc)
    ELSE conn' = [conn EXCEPT ![c].pc = pc, ![c].replied = TRUE,
                              ![c].replies = Append(@, code)]
-----------------------------------------------------------------------------
(* The listener *)

Accept(c) ==
    /\ ln = "open"
    /\ At(c, "none")
    /\ Goto(c, "negotiate")
    /\ UNCHANGED <<statVars, snap, ln>>

(* The context is done or Accept fails; running connections go on.         *)
ServeEnds ==
    /\ ln = "open"
    /\ ln' = "closed"
    /\ UNCHANGED <<statVars, snap, conn>>

(* negotiate: a short read, another version or no common method closes     *)
(* the connection without a reply.                                         *)
Negotiate(c, ok) ==
    /\ At(c, "negotiate")
    /\ Goto(c, IF ok THEN "request" ELSE "refused")
    /\ UNCHANGED <<statVars, snap, ln>>

(* readRequest: a bad request or an unsupported command is answered and    *)
(* the connection closed; NewSessionID may fail before the session starts. *)
Request(c, outcome) ==
    /\ At(c, "request")
    /\ \/ outcome = "connect" /\ Goto(c, "start0")
       \/ outcome = "bind" /\ writeReply(c, "command", "closed")
       \/ outcome = "bad" /\ writeReply(c, "general", "closed")
       \/ outcome = "norandom" /\ reply(c, "general", "return")
    /\ UNCHANGED <<statVars, snap, ln>>
-----------------------------------------------------------------------------
(* HandleSOCKS *)

StartCount(c) ==
    /\ At(c, "start0")
    /\ Add("started")
    /\ Goto(c, "start")
    /\ UNCHANGED <<samples, sessionStarts, firstDataObserved, snap, ln>>

StartSection(c) ==
    /\ At(c, "start")
    /\ startSection(c)
    /\ Goto(c, "open")
    /\ UNCHANGED <<snap, ln>>

(* The session will be finished with an error, the code replied after it.  *)
FailWith(c, code) ==
    conn' = [conn EXCEPT ![c].pc = "end", ![c].result = "failed", ![c].after = code]

(* putJSON of the open request.                                            *)
PutOpen(c, ok) ==
    /\ At(c, "open")
    /\ IF ok THEN Goto(c, "wait") ELSE FailWith(c, "general")
    /\ UNCHANGED <<statVars, snap, ln>>

(* Mutant: a rejected session is also finished with the error.             *)
WaitResultTwice(c, outcome) ==
    /\ At(c, "wait")
    /\ \/ outcome = "error" /\ FailWith(c, "unreachable") /\ UNCHANGED counter
       \/ outcome = "rejected" /\ Add("rejected") /\ FailWith(c, "unreachable")
       \/ outcome = "accepted" /\ Add("opened") /\ Goto(c, "opened")
    /\ UNCHANGED <<samples, sessionStarts, firstDataObserved, snap, ln>>

(* waitJSON of the open result and the check of the chunk sizes.           *)
WaitResult(c, outcome) ==
    /\ At(c, "wait")
    /\ \/ outcome = "error" /\ FailWith(c, "unreachable") /\ UNCHANGED counter
       \/ outcome = "rejected" /\ Add("rejected") /\ Goto(c, "reject")
       \/ outcome = "accepted" /\ Add("opened") /\ Goto(c, "opened")
    /\ UNCHANGED <<samples, sessionStarts, firstDataObserved, snap, ln>>

RejectSection(c) ==
    /\ At(c, "reject")
    /\ rejectSection(c)
    /\ reply(c, "unreachable", "return")
    /\ UNCHANGED <<snap, ln>>

OpenSection(c) ==
    /\ At(c, "opened")
    /\ openSection
    /\ Goto(c, "accepted")
    /\ UNCHANGED <<snap, ln>>

(* reply(ReplySucceeded) may fail to reach the local peer.                 *)
ReplyAccepted(c, ok) ==
    /\ At(c, "accepted")
    /\ IF ok THEN reply(c, ReplySucceeded, "stream")
       ELSE conn' = [conn EXCEPT ![c].pc = "end", ![c].result = "failed",
                                 ![c].replied = TRUE,
                                 ![c].replies = Append(@, ReplySucceeded)]
    /\ UNCHANGED <<statVars, snap, ln>>

(* streamToStore has written its first data object.                        *)
ClientFirstData(c) ==
    /\ At(c, "stream")
    /\ "c2s" \notin conn[c].sent
    /\ recordFirstData(c, "c2s")
    /\ conn' = [conn EXCEPT ![c].sent = @ \cup {"c2s"}]
    /\ UNCHANGED <<snap, ln>>

(* The server's streamToStore has written its first data object: any time  *)
(* after the request was there, also when the client has given up.         *)
ServerFirstData(c) ==
    /\ ~ conn[c].pc \in {"none", "negotiate", "refused", "request", "start0", "start", "open"}
    /\ "s2c" \notin conn[c].sent
    /\ recordFirstData(c, "s2c")
    /\ conn' = [conn EXCEPT ![c].sent = @ \cup {"s2c"}]
    /\ UNCHANGED <<snap, ln>>

(* Both streams have returned.                                             *)
StreamsEnd(c, result) ==
    /\ At(c, "stream")
    /\ conn' = [conn EXCEPT ![c].pc = "end", ![c].result = result]
    /\ UNCHANGED <<statVars, snap, ln>>

(* finishSession, then the reply that was held back, then the return.      *)
FinishCount(c) ==
    /\ At(c, "end")
    /\ Add(conn[c].result)
    /\ Goto(c, "finish")
    /\ UNCHANGED <<samples, sessionStarts, firstDataObserved, snap, ln>>

FinishSection(c) ==
    /\ At(c, "finish")
    /\ finishSection(c)
    /\ IF conn[c].after = "none" THEN Goto(c, "return")
       ELSE reply(c, conn[c].after, "return")
    /\ UNCHANGED <<snap, ln>>

(* handleConn: an error is answered if nothing was; the conn is closed.    *)
HandlerReturns(c) ==
    /\ At(c, "return")
    /\ IF conn[c].result # "completed" /\ ~conn[c].replied
         THEN reply(c, "general", "closed")
         ELSE Goto(c, "closed")
    /\ UNCHANGED <<statVars, snap, ln>>
-----------------------------------------------------------------------------
TakeSnapshot == (SnapshotCopy \/ SnapshotLoad) /\ UNCHANGED <<ln, conn>>

HandleSOCKS(c) ==
    \/ StartCount(c) \/ StartSection(c)
    \/ \E ok \in BOOLEAN : PutOpen(c, ok)
    \/ \E outcome \in {"error", "rejected", "accepted"} : WaitResult(c, outcome)
    \/ RejectSection(c) \/ OpenSection(c)
    \/ \E ok \in BOOLEAN : ReplyAccepted(c, ok)
    \/ ClientFirstData(c)
    \/ \E result \in {"completed", "failed"} : StreamsEnd(c, result)
    \/ FinishCount(c) \/ FinishSection(c)

handleConn(c) ==
    \/ \E ok \in BOOLEAN : Negotiate(c, ok)
    \/ \E outcome \in {"connect", "bind", "bad", "norandom"} : Request(c, outcome)
    \/ HandleSOCKS(c)
    \/ HandlerReturns(c)

SocksNext ==
    \/ \E c \in Session : Accept(c) \/ handleConn(c) \/ ServerFirstData(c)
    \/ ServeEnds
    \/ TakeSnapshot

SocksSpec == SocksInit /\ [][SocksNext]_socksVars
-----------------------------------------------------------------------------
(* Every session that was counted as started is counted exactly once as    *)
(* rejected, completed or failed, or its goroutine is still on the way     *)
(* there, whichever call fails (the calls of HandleSOCKS on every return). *)
SessionsAccounted ==
    counter.started = counter.rejected + counter.completed + counter.failed
                      + Cardinality({c \in Session : conn[c].pc \in CountedPcs})

(* The maps hold nothing of a session that has ended, although the peer's  *)
(* goroutine may still report data for it (Forget, recordFirstData).       *)
NothingRemembered ==
    \A c \in Session : conn[c].pc \in {"return", "closed"} =>
        /\ c \notin sessionStarts
        /\ \A dir \in Direction : <<c, dir>> \notin firstDataObserved

(* A local peer that sent a request gets exactly one reply, and success    *)
(* only for a session that was opened; one that failed to negotiate gets   *)
(* none (handleConn and its reply callback).                               *)
OneReply ==
    /\ \A c \in Session :
         /\ Len(conn[c].replies) <= 1
         /\ conn[c].pc = "closed" => Len(conn[c].replies) = 1
         /\ conn[c].pc \in {"none", "negotiate", "refused", "request"}
              => conn[c].replies = << >>
    /\ Cardinality({c \in Session : conn[c].replies = <<ReplySucceeded>>})
         <= counter.opened
=============================================================================
