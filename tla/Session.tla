------------------------------ MODULE Session -------------------------------
(***************************************************************************)
(* An accepted session: the second halves of Client.HandleSOCKS and        *)
(* Server.handleSession (internal/tunnel/tunnel.go).  Each side runs two   *)
(* goroutines on one TCP connection, one per direction, and waits for both *)
(* results; the first error cancels the context they share.  The client    *)
(* sends direction c2s ("up") and receives s2c ("dn"), the server the      *)
(* other way round, so cancelling one side stops one end of each stream.   *)
(* Either process may die without a trace in the bucket.                   *)
(***************************************************************************)
EXTENDS Integers, Sequences, MailboxStore

CONSTANTS
    Chunk, NoChunk, Bytes,  \* as in Stream
    UpChunks, DnChunks,     \* bounds: chunks the application and the target send
    CliWindow, SrvWindow,   \* Config.WindowChunks of each side
    CloseCheckAfterMisses,  \* the same on both sides
    SrvLimit,               \* Server.MaxBytesPerSession, 0 for none
    Faults                  \* "store", "socket", "timeout", "crash"

ASSUME SessionAssumption ==
    /\ NoChunk \notin Chunk
    /\ Bytes \in [Chunk -> Nat \ {0}]
    /\ CliWindow \in Nat \ {0}
    /\ SrvWindow \in Nat \ {0}
    /\ CloseCheckAfterMisses \in Nat \ {0}
    /\ UpChunks \in Nat
    /\ DnChunks \in Nat
    /\ SrvLimit \in Nat
    /\ Faults \subseteq {"store", "socket", "timeout", "crash"}

VARIABLES
    upSnd, upRcv, upData, upAck, upClose, upSrc, upDst,   \* c2s
    dnSnd, dnRcv, dnData, dnAck, dnClose, dnSrc, dnDst,   \* s2c
    cliCtx, srvCtx,   \* the session context of each side is cancelled
    cli, srv          \* what each side's join loop has collected

upVars == <<upSnd, upRcv, upData, upAck, upClose, upSrc, upDst>>
dnVars == <<dnSnd, dnRcv, dnData, dnAck, dnClose, dnSrc, dnDst>>
sessionVars == <<upVars, dnVars, cliCtx, srvCtx, cli, srv>>

(* The faults of one stream; what cancels it is the other goroutine.       *)
StreamFaults == (Faults \ {"crash"}) \cup {"cancel"}

(* The client does not limit bytes, the server limits both directions.     *)
Up == INSTANCE Stream WITH
        snd <- upSnd, rcv <- upRcv, data <- upData, ack <- upAck,
        close <- upClose, src <- upSrc, dst <- upDst,
        sctx <- cliCtx, rctx <- srvCtx,
        MaxChunks <- UpChunks, SendWindow <- CliWindow, RecvWindow <- SrvWindow,
        SendLimit <- 0, RecvLimit <- SrvLimit, Faults <- StreamFaults

Dn == INSTANCE Stream WITH
        snd <- dnSnd, rcv <- dnRcv, data <- dnData, ack <- dnAck,
        close <- dnClose, src <- dnSrc, dst <- dnDst,
        sctx <- srvCtx, rctx <- cliCtx,
        MaxChunks <- DnChunks, SendWindow <- SrvWindow, RecvWindow <- CliWindow,
        SendLimit <- SrvLimit, RecvLimit <- 0, Faults <- StreamFaults

Goroutines == {"send", "recv"}

(* got: whose results were taken from errCh; first: the first error;       *)
(* ignored: an error was passed over because of isClosedConn.              *)
JoinInit == [got |-> {}, first |-> "nil", ignored |-> FALSE, alive |-> TRUE]

SessionInit ==
    /\ Up!Init
    /\ Dn!Init
    /\ cli = JoinInit
    /\ srv = JoinInit

(* The handler has both results and returns, closing its connection.       *)
Returned(side) == side.alive /\ side.got = Goroutines
-----------------------------------------------------------------------------
(* What the join loop may make of a goroutine's result.  isClosedConn goes *)
(* by the text of an error, so besides a closed socket it also recognises  *)
(* a store call whose connection was closed, and such an error is ignored; *)
(* a limit or a timeout, the goroutine's own errors, never are.            *)
Heard(res, ownError) ==
    IF res = "error" /\ ~ownError /\ Faults \cap {"store", "socket"} # {}
    THEN {"error", "ignored"} ELSE {res} \ {"none"}

CliResults(g) == IF g = "send" THEN Heard(upSnd.res, Up!SndOwnError)
                               ELSE Heard(dnRcv.res, Dn!RcvOwnError)
SrvResults(g) == IF g = "send" THEN Heard(dnSnd.res, Dn!SndOwnError)
                               ELSE Heard(upRcv.res, Up!RcvOwnError)

(* Mutant: the error is dropped.                                           *)
CollectedDropsError(side, g, res) ==
    [side EXCEPT !.got = side.got \cup {g}, !.ignored = side.ignored \/ res = "ignored"]

(* The loop over errCh: a result is taken once; the first error is kept    *)
(* and cancels the session.  The receiving goroutine half-closes the       *)
(* connection (closeWrite) before it hands over its result, so "recv" in   *)
(* got also says that the local peer has been sent the end of the stream.  *)
Collected(side, g, res) ==
    [side EXCEPT !.got = side.got \cup {g},
                 !.first = IF res = "error" THEN "error" ELSE side.first,
                 !.ignored = side.ignored \/ res = "ignored"]

(* Mutant: the first result cancels, error or not.                         *)
CancelsOnAnyResult(side, res) == side.first = "nil"

(* Mutant: nothing is ever cancelled.                                      *)
CancelsNever(side, res) == FALSE

CancelsNow(side, res) == res = "error" /\ side.first = "nil"

(* Mutant: only one result is taken.                                       *)
CliCollectOnce(g) ==
    /\ cli.alive
    /\ cli.got = {}
    /\ \E res \in CliResults(g) :
         /\ cli' = Collected(cli, g, res)
         /\ cliCtx' = (cliCtx \/ CancelsNow(cli, res))
    /\ UNCHANGED <<upVars, dnVars, srvCtx, srv>>

CliCollect(g) ==
    /\ cli.alive
    /\ g \notin cli.got
    /\ \E res \in CliResults(g) :
         /\ cli' = Collected(cli, g, res)
         /\ cliCtx' = (cliCtx \/ CancelsNow(cli, res))
    /\ UNCHANGED <<upVars, dnVars, srvCtx, srv>>

SrvCollect(g) ==
    /\ srv.alive
    /\ g \notin srv.got
    /\ \E res \in SrvResults(g) :
         /\ srv' = Collected(srv, g, res)
         /\ srvCtx' = (srvCtx \/ CancelsNow(srv, res))
    /\ UNCHANGED <<upVars, dnVars, cliCtx, cli>>
-----------------------------------------------------------------------------
(* The goroutines of each side.  A dead process does nothing.              *)
CliUp(A) == cli.alive /\ A /\ UNCHANGED <<dnVars, cli, srv>>
CliDn(A) == cli.alive /\ A /\ UNCHANGED <<upVars, cli, srv>>
SrvUp(A) == srv.alive /\ A /\ UNCHANGED <<dnVars, cli, srv>>
SrvDn(A) == srv.alive /\ A /\ UNCHANGED <<upVars, cli, srv>>

(* What each side does by itself, without waiting for its own socket.      *)
CliStep ==
    \/ CliUp(Up!SndStep)
    \/ CliDn(Dn!RcvStep)
    \/ CliDn(Dn!Expire)
    \/ \E g \in Goroutines : CliCollect(g)

SrvStep ==
    \/ SrvDn(Dn!SndStep)
    \/ SrvUp(Up!RcvStep)
    \/ SrvUp(Up!Expire)
    \/ \E g \in Goroutines : SrvCollect(g)

(* The sockets: the application behind the client, the target behind the   *)
(* server.                                                                 *)
CliRead == CliUp(Up!SndRead)
CliWrite == CliDn(Dn!RcvSocket)
SrvRead == SrvDn(Dn!SndRead)
SrvWrite == SrvUp(Up!RcvSocket)

(* A process dies; the bucket keeps what it wrote.                         *)
CliCrash ==
    /\ "crash" \in Faults
    /\ cli.alive
    /\ cli' = [cli EXCEPT !.alive = FALSE]
    /\ UNCHANGED <<upVars, dnVars, cliCtx, srvCtx, srv>>

SrvCrash ==
    /\ "crash" \in Faults
    /\ srv.alive
    /\ srv' = [srv EXCEPT !.alive = FALSE]
    /\ UNCHANGED <<upVars, dnVars, cliCtx, srvCtx, cli>>

Over(side) == Returned(side) \/ ~side.alive

SessionOver ==
    /\ Over(cli)
    /\ Over(srv)
    /\ UNCHANGED sessionVars

SessionNext ==
    \/ CliStep \/ CliRead \/ CliWrite
    \/ SrvStep \/ SrvRead \/ SrvWrite
    \/ CliCrash \/ SrvCrash
    \/ SessionOver

SessionSpec == SessionInit /\ [][SessionNext]_sessionVars

(* A peer that closes its own half once it has been sent the end.          *)
AppCloses == "recv" \in cli.got /\ CliUp(Up!SndReadEnd("eof"))
TargetCloses == "recv" \in srv.got /\ SrvDn(Dn!SndReadEnd("eof"))

(* The goroutine scheduler runs every goroutine that can run, time passes  *)
(* and both local peers take what is written to them.                      *)
ProgramFairness ==
    /\ WF_sessionVars(CliUp(Up!SndStep))
    /\ WF_sessionVars(CliDn(Dn!RcvStep))
    /\ WF_sessionVars(CliDn(Dn!Expire))
    /\ WF_sessionVars(SrvDn(Dn!SndStep))
    /\ WF_sessionVars(SrvUp(Up!RcvStep))
    /\ WF_sessionVars(SrvUp(Up!Expire))
    /\ \A g \in Goroutines : WF_sessionVars(CliCollect(g)) /\ WF_sessionVars(SrvCollect(g))
    /\ WF_sessionVars(CliWrite)
    /\ WF_sessionVars(SrvWrite)

(* The program is fair and its peers close once they were sent the end.    *)
FairSessionSpec ==
    /\ SessionSpec
    /\ ProgramFairness
    /\ WF_sessionVars(AppCloses)
    /\ WF_sessionVars(TargetCloses)
-----------------------------------------------------------------------------
(* A side that returns without an error, and has not passed one over, has  *)
(* both halves accounted for: its own close marker says end of file with   *)
(* all of its data before it, and the other side's marker was there        *)
(* (HandleSOCKS, handleSession).                                           *)
CleanReturn ==
    /\ (Returned(cli) /\ cli.first = "nil" /\ ~cli.ignored) =>
         /\ upClose = "eof"
         /\ DOMAIN upData = 0 .. Len(upSrc) - 1
         /\ dnClose # "none"
    /\ (Returned(srv) /\ srv.first = "nil" /\ ~srv.ignored) =>
         /\ dnClose = "eof"
         /\ DOMAIN dnData = 0 .. Len(dnSrc) - 1
         /\ upClose # "none"

(* Closing one half never disturbs the other: where neither the store nor  *)
(* a socket fails and no limit is set, a side's context is cancelled only  *)
(* after an idle timeout, in whatever order the four goroutines end and    *)
(* whichever process dies.                                                 *)
NoCancelWithoutFault ==
    (Faults \cap {"store", "socket"} = {} /\ SrvLimit = 0) =>
        /\ cliCtx => dnRcv.expired
        /\ srvCtx => upRcv.expired

(* When both local peers have closed, both handlers return, unless their   *)
(* process dies.                                                           *)
GracefulEnd ==
    (upSnd.pc = "done" /\ dnSnd.pc = "done") ~> (Over(cli) /\ Over(srv))

(* The client dies before its close marker is written: the server's        *)
(* handler ends by itself and gives its slot back.                         *)
CrashEndsSession ==
    (~cli.alive /\ upClose = "none") ~> Over(srv)

(* docs/PROTOCOL.md:68, "Idle timeout is enforced while waiting for data   *)
(* or control progression": whenever the client dies, also after it has    *)
(* closed its half, the server's handler ends and does not wait for an ACK *)
(* for ever (waitWindow).                                                  *)
SessionExpires == (~cli.alive) ~> Over(srv)
=============================================================================
