--------------------------- MODULE SessionProofs ----------------------------
(***************************************************************************)
(* Each direction of a session is a stream in the sense of Stream: however *)
(* the join loops cancel and whichever process dies, the two goroutines of *)
(* a direction take no step that Stream does not allow.  What is proved in *)
(* StreamProofs of every behaviour of Stream therefore holds of both       *)
(* directions of every session.                                            *)
(***************************************************************************)
EXTENDS Session, TLAPS

(* Contexts are cancelled or not, and nothing else.                        *)
CtxInv == cliCtx \in BOOLEAN /\ srvCtx \in BOOLEAN

(* Both contexts are live at first.                                        *)
LEMMA InitCtxInv == SessionInit => CtxInv
BY DEF SessionInit, CtxInv, Up!Init

(* The goroutines of the streams do not touch the contexts.                *)
LEMMA StreamStepsKeepCtx ==
    ASSUME \/ Up!SndRead \/ Up!SndStep \/ Up!RcvStep \/ Up!RcvSocket \/ Up!Expire
           \/ Dn!SndRead \/ Dn!SndStep \/ Dn!RcvStep \/ Dn!RcvSocket \/ Dn!Expire
    PROVE  UNCHANGED <<cliCtx, srvCtx>>
<1>1. CASE Up!SndRead \/ Dn!SndRead
  BY <1>1 DEF Up!SndRead, Up!SndReadData, Up!SndReadEnd,
              Dn!SndRead, Dn!SndReadData, Dn!SndReadEnd
<1>2. CASE Up!SndStep
  BY <1>2 DEF Up!SndStep, Up!SndGetAck, Up!SndGetAckFails, Up!SndWake,
              Up!SndSleepCancelled, Up!SndPut, Up!SndPutFails, Up!SndClose,
              Up!SndCloseFails
<1>3. CASE Dn!SndStep
  BY <1>3 DEF Dn!SndStep, Dn!SndGetAck, Dn!SndGetAckFails, Dn!SndWake,
              Dn!SndSleepCancelled, Dn!SndPut, Dn!SndPutFails, Dn!SndClose,
              Dn!SndCloseFails
<1>4. CASE Up!RcvStep
  BY <1>4 DEF Up!RcvStep, Up!RcvGetHit, Up!RcvOverLimit, Up!RcvGetMiss,
              Up!RcvGetFails, Up!RcvPutAck, Up!RcvPutAckFails, Up!RcvHead,
              Up!RcvHeadFails, Up!RcvCheck, Up!RcvWake, Up!RcvSleepCancelled
<1>5. CASE Dn!RcvStep
  BY <1>5 DEF Dn!RcvStep, Dn!RcvGetHit, Dn!RcvOverLimit, Dn!RcvGetMiss,
              Dn!RcvGetFails, Dn!RcvPutAck, Dn!RcvPutAckFails, Dn!RcvHead,
              Dn!RcvHeadFails, Dn!RcvCheck, Dn!RcvWake, Dn!RcvSleepCancelled
<1>6. CASE Up!RcvSocket \/ Dn!RcvSocket \/ Up!Expire \/ Dn!Expire
  BY <1>6 DEF Up!RcvSocket, Up!RcvWrite, Up!RcvWriteFails, Up!Expire,
              Dn!RcvSocket, Dn!RcvWrite, Dn!RcvWriteFails, Dn!Expire
<1>. QED BY <1>1, <1>2, <1>3, <1>4, <1>5, <1>6

(* A step that leaves a direction and both contexts alone is invisible to  *)
(* that direction.                                                         *)
LEMMA Invisible ==
    ASSUME UNCHANGED <<cliCtx, srvCtx>>
    PROVE  /\ UNCHANGED upVars => UNCHANGED Up!vars
           /\ UNCHANGED dnVars => UNCHANGED Dn!vars
BY DEF upVars, dnVars, Up!vars, Dn!vars

(* Collecting a result of the client either changes nothing a stream can   *)
(* see or cancels its sender of c2s, which is its receiver of s2c.         *)
LEMMA CliCollectCancels ==
    ASSUME CtxInv, NEW g \in Goroutines, CliCollect(g)
    PROVE  /\ UNCHANGED Up!vars \/ Up!CancelSender
           /\ UNCHANGED Dn!vars \/ Dn!CancelReceiver
           /\ CtxInv'
<1>1. /\ UNCHANGED <<upVars, dnVars, srvCtx>>
      /\ \E res : cliCtx' = (cliCtx \/ CancelsNow(cli, res))
  BY Zenon DEF CliCollect
<1>2. cliCtx' = cliCtx \/ (cliCtx' = TRUE /\ ~cliCtx)
  BY <1>1, Zenon DEF CtxInv
<1>3. "cancel" \in StreamFaults
  BY DEF StreamFaults
<1>4. CASE cliCtx' = cliCtx
  BY <1>1, <1>4, Invisible DEF CtxInv
<1>5. CASE cliCtx' = TRUE /\ ~cliCtx
  <2>1. Up!CancelSender
    BY <1>1, <1>3, <1>5
       DEF upVars, Up!CancelSender, Up!sndVars, Up!rcvVars, Up!objVars
  <2>2. Dn!CancelReceiver
    BY <1>1, <1>3, <1>5
       DEF dnVars, Dn!CancelReceiver, Dn!sndVars, Dn!rcvVars, Dn!objVars
  <2>. QED BY <1>1, <1>5, <2>1, <2>2 DEF CtxInv
<1>. QED BY <1>2, <1>4, <1>5

(* The same on the server: it receives c2s and sends s2c.                  *)
LEMMA SrvCollectCancels ==
    ASSUME CtxInv, NEW g \in Goroutines, SrvCollect(g)
    PROVE  /\ UNCHANGED Up!vars \/ Up!CancelReceiver
           /\ UNCHANGED Dn!vars \/ Dn!CancelSender
           /\ CtxInv'
<1>1. /\ UNCHANGED <<upVars, dnVars, cliCtx>>
      /\ \E res : srvCtx' = (srvCtx \/ CancelsNow(srv, res))
  BY Zenon DEF SrvCollect
<1>2. srvCtx' = srvCtx \/ (srvCtx' = TRUE /\ ~srvCtx)
  BY <1>1, Zenon DEF CtxInv
<1>3. "cancel" \in StreamFaults
  BY DEF StreamFaults
<1>4. CASE srvCtx' = srvCtx
  BY <1>1, <1>4, Invisible DEF CtxInv
<1>5. CASE srvCtx' = TRUE /\ ~srvCtx
  <2>1. Up!CancelReceiver
    BY <1>1, <1>3, <1>5
       DEF upVars, Up!CancelReceiver, Up!sndVars, Up!rcvVars, Up!objVars
  <2>2. Dn!CancelSender
    BY <1>1, <1>3, <1>5
       DEF dnVars, Dn!CancelSender, Dn!sndVars, Dn!rcvVars, Dn!objVars
  <2>. QED BY <1>1, <1>5, <2>1, <2>2 DEF CtxInv
<1>. QED BY <1>2, <1>4, <1>5

(* Every step of a session is a step of each stream or invisible to it.    *)
LEMMA SessionStep ==
    ASSUME CtxInv, [SessionNext]_sessionVars
    PROVE  /\ [Up!Next]_(Up!vars)
           /\ [Dn!Next]_(Dn!vars)
           /\ CtxInv'
<1>1. CASE \E g \in Goroutines : CliCollect(g)
  BY <1>1, CliCollectCancels DEF Up!Next, Dn!Next
<1>2. CASE \E g \in Goroutines : SrvCollect(g)
  BY <1>2, SrvCollectCancels DEF Up!Next, Dn!Next
<1>3. CASE \/ CliUp(Up!SndStep) \/ CliRead
           \/ SrvUp(Up!RcvStep) \/ SrvUp(Up!Expire) \/ SrvWrite
  <2>1. /\ Up!SndStep \/ Up!SndRead \/ Up!RcvStep \/ Up!Expire \/ Up!RcvSocket
        /\ UNCHANGED dnVars
    BY <1>3 DEF CliUp, SrvUp, CliRead, SrvWrite
  <2>2. UNCHANGED <<cliCtx, srvCtx>>
    BY <2>1, StreamStepsKeepCtx
  <2>3. Up!Next
    BY <2>1 DEF Up!Next, Up!Sender, Up!Receiver
  <2>. QED BY <2>1, <2>2, <2>3, Invisible DEF CtxInv
<1>4. CASE \/ CliDn(Dn!RcvStep) \/ CliDn(Dn!Expire) \/ CliWrite
           \/ SrvDn(Dn!SndStep) \/ SrvRead
  <2>1. /\ Dn!SndStep \/ Dn!SndRead \/ Dn!RcvStep \/ Dn!Expire \/ Dn!RcvSocket
        /\ UNCHANGED upVars
    BY <1>4 DEF CliDn, SrvDn, CliWrite, SrvRead
  <2>2. UNCHANGED <<cliCtx, srvCtx>>
    BY <2>1, StreamStepsKeepCtx
  <2>3. Dn!Next
    BY <2>1 DEF Dn!Next, Dn!Sender, Dn!Receiver
  <2>. QED BY <2>1, <2>2, <2>3, Invisible DEF CtxInv
<1>5. CASE CliCrash \/ SrvCrash \/ UNCHANGED sessionVars
  <2>1. UNCHANGED <<upVars, dnVars, cliCtx, srvCtx>>
    BY <1>5 DEF CliCrash, SrvCrash, sessionVars
  <2>. QED BY <2>1, Invisible DEF CtxInv
<1>. QED
  BY <1>1, <1>2, <1>3, <1>4, <1>5 DEF SessionNext, CliStep, SrvStep, SessionOver

(* Every behaviour of a session is, seen from either of its directions, a  *)
(* behaviour of Stream.                                                    *)
THEOREM SessionImplementsStreams == SessionSpec => Up!Spec /\ Dn!Spec
<1>1. SessionInit => Up!Init /\ Dn!Init
  BY DEF SessionInit
<1>. QED
  BY <1>1, InitCtxInv, SessionStep, PTL
     DEF SessionSpec, Up!Spec, Dn!Spec
-----------------------------------------------------------------------------
(* How a session ends.  StreamProofs speaks of one direction alone; what   *)
(* the join loops rely on is restated here for a direction within its      *)
(* session, where the contexts are known.                                  *)

(* Neither the store nor a socket fails and no limit is set.               *)
Quiet == Faults \cap {"store", "socket"} = {} /\ SrvLimit = 0

(* Types of what the proof follows.                                        *)
JoinType == [got : SUBSET Goroutines, first : {"nil", "error"},
             ignored : BOOLEAN, alive : BOOLEAN]

SessionTypeOK ==
    /\ upSnd \in Up!SndType /\ upRcv \in Up!RcvType /\ upSrc \in Seq(Chunk)
    /\ dnSnd \in Dn!SndType /\ dnRcv \in Dn!RcvType /\ dnSrc \in Seq(Chunk)
    /\ cli \in JoinType /\ srv \in JoinType
    /\ upAck \in Nat /\ \A k \in DOMAIN upData : upData[k] \in Chunk
    /\ dnAck \in Nat /\ \A k \in DOMAIN dnData : dnData[k] \in Chunk
    /\ upRcv.pc = "write" => upRcv.buf \in Chunk
    /\ dnRcv.pc = "write" => dnRcv.buf \in Chunk

(* A running sender has put exactly the chunks it counts and holds at most *)
(* one more, none when it is about to close after an end of file.          *)
SenderOf(snd, data, close, src) ==
    /\ snd.pc # "done" => snd.res = "none" /\ close = "none"
                            /\ DOMAIN data = 0 .. snd.seq - 1
    /\ snd.pc = "read" => snd.err = "nil"
    /\ snd.pc = "close" => snd.err # "nil"
    /\ (snd.pc = "read" \/ (snd.pc = "close" /\ snd.err = "eof")) => Len(src) = snd.seq
    /\ snd.pc \in {"getack", "sleep", "put"} => Len(src) = snd.seq + 1 /\ snd.buf \in Chunk
    /\ snd.res = "nil" => close = "eof" /\ DOMAIN data = 0 .. Len(src) - 1

ReceiverOf(rcv, close) ==
    /\ rcv.pc # "done" => rcv.res = "none"
    /\ rcv.res = "nil" => close # "none"

(* Without faults a sender fails only once its context is cancelled, and   *)
(* the context only after the side's receiver has timed out.               *)
CalmSide(snd, rcv, ctx) ==
    Quiet => /\ snd.err = "error" \/ snd.res = "error" => ctx
             /\ snd.err # "limit"
             /\ rcv.res = "error" \/ ctx => rcv.expired /\ rcv.pc = "done"

(* A join loop that knows of no error has only taken nil results.          *)
Joined(side, sent, received) ==
    side.first = "nil" /\ ~side.ignored =>
        /\ "send" \in side.got => sent = "nil"
        /\ "recv" \in side.got => received = "nil"

UpInv == SenderOf(upSnd, upData, upClose, upSrc) /\ ReceiverOf(upRcv, upClose)
DnInv == SenderOf(dnSnd, dnData, dnClose, dnSrc) /\ ReceiverOf(dnRcv, dnClose)

SessionInv ==
    /\ SessionTypeOK
    /\ CtxInv
    /\ UpInv
    /\ DnInv
    /\ CalmSide(upSnd, dnRcv, cliCtx)
    /\ CalmSide(dnSnd, upRcv, srvCtx)
    /\ Joined(cli, upSnd.res, dnRcv.res)
    /\ Joined(srv, dnSnd.res, upRcv.res)

(* A sender that has returned an error promises nothing of its data.       *)
LEMMA FailedSender ==
    ASSUME NEW snd, NEW data, NEW close, NEW src, snd.pc = "done", snd.res = "error"
    PROVE  SenderOf(snd, data, close, src)
BY DEF SenderOf

(* What a step of the sender of c2s does to its direction.                 *)
UpSent ==
    /\ upSnd.pc # "done" /\ UNCHANGED <<upRcv, cliCtx, srvCtx>>
    /\ upSnd' \in Up!SndType /\ upSrc' \in Seq(Chunk)
    /\ \A k \in DOMAIN upData' : upData'[k] \in Chunk
    /\ SenderOf(upSnd, upData, upClose, upSrc)'
    /\ Quiet => /\ upSnd'.err = "error" \/ upSnd'.res = "error" => cliCtx
                /\ upSnd'.err # "limit"

(* The steps of streamToStore for c2s have that effect.                    *)
LEMMA UpSends ==
    ASSUME SessionInv, Up!SndRead \/ Up!SndStep
    PROVE  UpSent
<1> USE DEF Up!SndType, Up!SndPcs, Up!ReadErrs, Up!Results, Up!rcvVars, Up!objVars, UpSent
<1>0. /\ upSnd \in Up!SndType /\ upSrc \in Seq(Chunk)
      /\ \A k \in DOMAIN upData : upData[k] \in Chunk
      /\ SenderOf(upSnd, upData, upClose, upSrc)
      /\ Quiet => /\ upSnd.err = "error" \/ upSnd.res = "error" => cliCtx
                  /\ upSnd.err # "limit"
  BY DEF SessionInv, SessionTypeOK, UpInv, CalmSide
<1>q. Quiet => "store" \notin StreamFaults /\ "socket" \notin StreamFaults
  BY DEF Quiet, StreamFaults
<1>1. ASSUME NEW c \in Chunk, NEW err \in {"nil", "eof", "error"}, Up!SndReadData(c, err)
      PROVE  UpSent
  <2>1. /\ upSnd.pc = "read" /\ Len(upSrc) = upSnd.seq /\ upSnd.res = "none"
        /\ upClose = "none" /\ DOMAIN upData = 0 .. upSnd.seq - 1
        /\ upSrc' = Append(upSrc, c)
        /\ UNCHANGED <<upRcv, upData, upClose, cliCtx, srvCtx>>
    BY <1>0, <1>1 DEF Up!SndReadData, SenderOf
  <2>2. upSrc' \in Seq(Chunk) /\ Len(upSrc') = Len(upSrc) + 1
    BY <1>0, <2>1
  <2>3. /\ upSnd' \in Up!SndType /\ upSnd'.buf = c /\ upSnd'.seq = upSnd.seq
        /\ upSnd'.res = upSnd.res
        /\ \/ upSnd'.pc = "close" /\ upSnd'.err = "limit" /\ Up!OverLimit(0, upSnd.sent, c)
           \/ upSnd'.pc \in {"put", "getack"} /\ upSnd'.err = err
    BY <1>0, <1>1 DEF Up!SndReadData, Up!AfterRead
  <2>4. Quiet /\ err = "error" => cliCtx
    BY <1>1, <1>q DEF Up!SndReadData
  <2>5. Quiet => ~Up!OverLimit(0, upSnd.sent, c)
    BY DEF Up!OverLimit, Quiet
  <2>6. SenderOf(upSnd, upData, upClose, upSrc)'
    BY <2>1, <2>2, <2>3 DEF SenderOf
  <2>7. Quiet => /\ upSnd'.err = "error" \/ upSnd'.res = "error" => cliCtx
                 /\ upSnd'.err # "limit"
    BY <2>1, <2>3, <2>4, <2>5
  <2>. QED BY <1>0, <2>1, <2>2, <2>3, <2>6, <2>7
<1>2. ASSUME NEW err \in {"eof", "error"}, Up!SndReadEnd(err)
      PROVE  UpSent
  <2>1. /\ upSnd.pc = "read" /\ UNCHANGED <<upRcv, upData, upClose, upSrc, cliCtx, srvCtx>>
        /\ upSnd' = [upSnd EXCEPT !.pc = "close", !.err = err]
        /\ err = "error" => "socket" \in StreamFaults
    BY <1>2 DEF Up!SndReadEnd
  <2>2. /\ upSnd' \in Up!SndType /\ upSnd'.pc = "close" /\ upSnd'.err = err
        /\ upSnd'.seq = upSnd.seq /\ upSnd'.res = upSnd.res
    BY <1>0, <2>1
  <2>. QED BY <1>0, <1>q, <2>1, <2>2 DEF SenderOf
<1>3. ASSUME Up!SndGetAck \/ Up!SndWake
      PROVE  UpSent
  <2>1. /\ upSnd.pc \in {"getack", "sleep"}
        /\ UNCHANGED <<upRcv, upData, upClose, upSrc, cliCtx, srvCtx>>
    BY <1>3 DEF Up!SndGetAck, Up!SndWake
  <2>2. upAck \in Nat
    BY DEF SessionInv, SessionTypeOK
  <2>3. /\ upSnd' \in Up!SndType /\ upSnd'.pc \in {"getack", "sleep", "put"}
        /\ upSnd'.seq = upSnd.seq /\ upSnd'.res = upSnd.res /\ upSnd'.err = upSnd.err
        /\ upSnd'.buf = upSnd.buf
    BY <1>0, <1>3, <2>2 DEF Up!SndGetAck, Up!SndWake, Up!Max2
  <2>4. SenderOf(upSnd, upData, upClose, upSrc)'
    BY <1>0, <2>1, <2>3 DEF SenderOf
  <2>. QED BY <1>0, <2>1, <2>3, <2>4
<1>4. ASSUME upSnd.pc # "done", Up!SndReturn("error"), Up!SndCallFails,
             UNCHANGED <<upRcv, upSrc, cliCtx, srvCtx>>,
             \A k \in DOMAIN upData' : upData'[k] \in Chunk
      PROVE  UpSent
  <2>1. /\ upSnd' \in Up!SndType /\ upSnd'.pc = "done" /\ upSnd'.res = "error"
        /\ upSnd'.err = upSnd.err
    BY <1>0, <1>4 DEF Up!SndReturn
  <2>2. Quiet => cliCtx
    BY <1>4, <1>q DEF Up!SndCallFails
  <2>. QED BY <1>0, <1>4, <2>1, <2>2, FailedSender
<1>5. CASE Up!SndGetAckFails \/ Up!SndSleepCancelled
  BY <1>0, <1>4, <1>5 DEF Up!SndGetAckFails, Up!SndSleepCancelled, Up!SndCallFails
<1>6. ASSUME NEW applied \in BOOLEAN, Up!SndPutFails(applied) \/ Up!SndCloseFails(applied)
      PROVE  UpSent
  <2>1. \A k \in DOMAIN upData' : upData'[k] \in Chunk
    BY <1>0, <1>6 DEF Up!SndPutFails, Up!SndCloseFails, Up!PutObject, SenderOf
  <2>. QED BY <1>4, <1>6, <2>1 DEF Up!SndPutFails, Up!SndCloseFails
<1>7. CASE Up!SndPut
  <2>1. /\ upSnd.pc = "put" /\ Len(upSrc) = upSnd.seq + 1 /\ upSnd.res = "none"
        /\ upSnd.buf \in Chunk /\ upClose = "none" /\ DOMAIN upData = 0 .. upSnd.seq - 1
        /\ DOMAIN upData' = DOMAIN upData \cup {upSnd.seq}
        /\ \A k \in DOMAIN upData' : upData'[k] \in Chunk
        /\ UNCHANGED <<upRcv, upClose, upSrc, cliCtx, srvCtx>>
    BY <1>0, <1>7 DEF Up!SndPut, SenderOf, Up!PutObject
  <2>2. upSnd.sent + Bytes[upSnd.buf] \in Nat
    BY <1>0, <2>1, SessionAssumption
  <2>3. /\ upSnd' \in Up!SndType /\ upSnd'.seq = upSnd.seq + 1 /\ upSnd'.buf = NoChunk
        /\ upSnd'.res = upSnd.res /\ upSnd'.err = upSnd.err
    <3>. DEFINE p == IF upSnd.err = "nil" THEN "read" ELSE "close"
                n == upSnd.sent + Bytes[upSnd.buf]
    <3>1. upSnd' = [upSnd EXCEPT !.pc = p, !.seq = upSnd.seq + 1, !.sent = n, !.buf = NoChunk]
      BY <1>7 DEF Up!SndPut
    <3>2. p \in Up!SndPcs /\ n \in Nat /\ upSnd.seq + 1 \in Nat
      BY <1>0, <2>2
    <3>. HIDE DEF p, n
    <3>. QED BY <1>0, <3>1, <3>2
  <2>4. upSnd'.pc = IF upSnd.err = "nil" THEN "read" ELSE "close"
    BY <1>0, <1>7 DEF Up!SndPut
  <2>5. DOMAIN upData' = 0 .. upSnd'.seq - 1
    BY <1>0, <2>1, <2>3
  <2>6. SenderOf(upSnd, upData, upClose, upSrc)'
    BY <2>1, <2>3, <2>4, <2>5 DEF SenderOf
  <2>. QED BY <1>0, <2>1, <2>3, <2>6
<1>8. CASE Up!SndClose
  <2>1. /\ upSnd.pc = "close" /\ upClose' = upSnd.err
        /\ UNCHANGED <<upRcv, upData, upSrc, cliCtx, srvCtx>>
    BY <1>8 DEF Up!SndClose
  <2>2. /\ upSnd' \in Up!SndType /\ upSnd'.pc = "done" /\ upSnd'.err = upSnd.err
        /\ upSnd'.res = IF upSnd.err = "eof" THEN "nil" ELSE "error"
    BY <1>0, <1>8 DEF Up!SndClose, Up!SndReturn
  <2>3. CASE upSnd.err = "eof"
    BY <1>0, <2>1, <2>2, <2>3 DEF SenderOf
  <2>4. CASE upSnd.err # "eof"
    <3>1. SenderOf(upSnd, upData, upClose, upSrc)'
      BY <2>2, <2>4, FailedSender
    <3>2. upSnd.err # "nil"
      BY <1>0, <2>1 DEF SenderOf
    <3>3. Quiet => cliCtx
      BY <1>0, <2>4, <3>2
    <3>. QED BY <1>0, <2>1, <2>2, <2>4, <3>1, <3>3
  <2>. QED BY <2>3, <2>4
<1>. QED BY <1>1, <1>2, <1>3, <1>5, <1>6, <1>7, <1>8 DEF Up!SndRead, Up!SndStep

(* What a step of the receiver of c2s, or its clock, does.                 *)
UpReceived ==
    /\ upRcv.pc # "done" /\ UNCHANGED <<upSnd, upData, upClose, upSrc, cliCtx, srvCtx>>
    /\ upRcv' \in Up!RcvType /\ upAck' \in Nat
    /\ ReceiverOf(upRcv, upClose)'
    /\ upRcv'.pc = "write" => upRcv'.buf \in Chunk
    /\ Quiet /\ upRcv'.res = "error" => upRcv'.expired /\ upRcv'.pc = "done"

(* The steps of streamFromStore for c2s have that effect.                  *)
LEMMA UpReceives ==
    ASSUME SessionInv, Up!RcvStep \/ Up!RcvSocket \/ Up!Expire
    PROVE  UpReceived
<1> USE DEF Up!RcvType, Up!RcvPcs, Up!Results, Up!sndVars, Up!objVars, UpReceived
<1>0. /\ upRcv \in Up!RcvType /\ upAck \in Nat /\ ReceiverOf(upRcv, upClose)
      /\ upRcv.pc = "write" => upRcv.buf \in Chunk
      /\ Quiet /\ (upRcv.res = "error" \/ srvCtx) => upRcv.expired /\ upRcv.pc = "done"
  BY DEF SessionInv, SessionTypeOK, UpInv, CalmSide
<1>q. Quiet => "store" \notin StreamFaults /\ "socket" \notin StreamFaults
  BY DEF Quiet, StreamFaults
<1>1. ASSUME upRcv.pc # "done", upRcv' \in Up!RcvType, upRcv'.res = upRcv.res, upAck' \in Nat,
             upRcv'.pc = "write" => upRcv'.buf \in Chunk,
             UNCHANGED <<upSnd, upData, upClose, upSrc, cliCtx, srvCtx>>
      PROVE  UpReceived
  BY <1>0, <1>1 DEF ReceiverOf
<1>2. ASSUME upRcv.pc # "done", Up!RcvReturn("error"), upAck' \in Nat,
             Quiet => upRcv.expired \/ srvCtx,
             UNCHANGED <<upSnd, upData, upClose, upSrc, cliCtx, srvCtx>>
      PROVE  UpReceived
  <2>1. /\ upRcv' \in Up!RcvType /\ upRcv'.pc = "done" /\ upRcv'.res = "error"
        /\ upRcv'.expired = upRcv.expired
    BY <1>0, <1>2 DEF Up!RcvReturn
  <2>2. Quiet => upRcv.expired
    BY <1>0, <1>2
  <2>. QED BY <1>2, <2>1, <2>2 DEF ReceiverOf
<1>3. CASE Up!RcvGetHit \/ Up!RcvGetMiss \/ Up!RcvWake \/ Up!Expire
  <2>1. /\ upRcv.pc # "done" /\ UNCHANGED <<upSnd, upData, upClose, upSrc, upAck, cliCtx, srvCtx>>
    BY <1>3 DEF Up!RcvGetHit, Up!RcvGetMiss, Up!RcvWake, Up!Expire
  <2>2. CASE Up!RcvGetHit
    <3>1. upData[upRcv.seq] \in Chunk
      BY <2>2 DEF SessionInv, SessionTypeOK, Up!RcvGetHit, Up!HasObject
    <3>2. /\ upRcv' \in Up!RcvType /\ upRcv'.res = upRcv.res
          /\ upRcv'.pc = "write" => upRcv'.buf \in Chunk
      BY <1>0, <2>2, <3>1 DEF Up!RcvGetHit
    <3>. QED BY <1>0, <1>1, <2>1, <3>2
  <2>3. CASE Up!RcvGetMiss
    <3>1. \/ upRcv' = [upRcv EXCEPT !.pc = "head", !.misses = 0]
          \/ upRcv' = [upRcv EXCEPT !.pc = "check", !.misses = upRcv.misses + 1]
      BY <2>3 DEF Up!RcvGetMiss
    <3>2. upRcv' \in Up!RcvType /\ upRcv'.res = upRcv.res /\ upRcv'.pc # "write"
      <4>1. upRcv.misses + 1 \in Nat
        BY <1>0
      <4>2. CASE upRcv' = [upRcv EXCEPT !.pc = "head", !.misses = 0]
        BY <1>0, <4>2
      <4>3. CASE upRcv' = [upRcv EXCEPT !.pc = "check", !.misses = upRcv.misses + 1]
        BY <1>0, <4>1, <4>3
      <4>. QED BY <3>1, <4>2, <4>3
    <3>. QED BY <1>0, <1>1, <2>1, <3>2
  <2>4. CASE Up!RcvWake \/ Up!Expire
    <3>1. /\ upRcv' \in Up!RcvType /\ upRcv'.res = upRcv.res
          /\ upRcv'.pc = "write" => upRcv'.buf \in Chunk
      BY <1>0, <2>4 DEF Up!RcvWake, Up!Expire
    <3>. QED BY <1>0, <1>1, <2>1, <3>1
  <2>. QED BY <1>3, <2>2, <2>3, <2>4
<1>4. CASE Up!RcvOverLimit
  <2>1. Quiet => FALSE
    BY <1>4 DEF Up!RcvOverLimit, Up!OverLimit, Quiet
  <2>. QED BY <1>0, <1>2, <1>4, <2>1 DEF Up!RcvOverLimit
<1>5. CASE Up!RcvGetFails \/ Up!RcvHeadFails \/ Up!RcvSleepCancelled
  BY <1>0, <1>2, <1>5, <1>q
     DEF Up!RcvGetFails, Up!RcvHeadFails, Up!RcvSleepCancelled, Up!RcvCallFails
<1>6. CASE Up!RcvPutAck
  <2>1. upRcv' \in Up!RcvType /\ upRcv'.res = upRcv.res /\ upRcv'.pc # "write"
    <3>1. upRcv' = [upRcv EXCEPT !.pc = "get", !.lastAck = upRcv.seq, !.misses = 0,
                               !.expired = FALSE]
      BY <1>6 DEF Up!RcvPutAck
    <3>. QED BY <1>0, <3>1
  <2>. QED BY <1>0, <1>1, <1>6, <2>1 DEF Up!RcvPutAck
<1>7. ASSUME NEW applied \in BOOLEAN, Up!RcvPutAckFails(applied)
      PROVE  UpReceived
  <2>1. upAck' \in Nat
    BY <1>0, <1>7 DEF Up!RcvPutAckFails
  <2>. QED BY <1>2, <1>7, <1>q, <2>1 DEF Up!RcvPutAckFails, Up!RcvCallFails
<1>8. CASE Up!RcvHead
  <2>1. CASE upClose = "none"
    <3>1. upRcv' \in Up!RcvType /\ upRcv'.res = upRcv.res /\ upRcv'.pc # "write"
      BY <1>0, <1>8, <2>1 DEF Up!RcvHead
    <3>. QED BY <1>0, <1>1, <1>8, <3>1 DEF Up!RcvHead
  <2>2. CASE upClose # "none"
    <3>1. upRcv' \in Up!RcvType /\ upRcv'.pc = "done" /\ upRcv'.res = "nil"
      BY <1>0, <1>8, <2>2 DEF Up!RcvHead, Up!RcvReturn
    <3>. QED BY <1>0, <1>8, <2>2, <3>1 DEF Up!RcvHead, ReceiverOf
  <2>. QED BY <2>1, <2>2
<1>9. CASE Up!RcvCheck
  <2>1. CASE upRcv.expired
    BY <1>0, <1>2, <1>9, <2>1 DEF Up!RcvCheck
  <2>2. CASE ~upRcv.expired
    <3>1. upRcv' \in Up!RcvType /\ upRcv'.res = upRcv.res /\ upRcv'.pc # "write"
      BY <1>0, <1>9, <2>2 DEF Up!RcvCheck
    <3>. QED BY <1>0, <1>1, <1>9, <3>1 DEF Up!RcvCheck
  <2>. QED BY <2>1, <2>2
<1>10. CASE Up!RcvWrite
  <2>1. upRcv' \in Up!RcvType /\ upRcv'.res = upRcv.res /\ upRcv'.pc # "write"
    <3>. DEFINE p == IF upRcv.seq + 1 - upRcv.lastAck >= Up!ackInterval(SrvWindow)
                     THEN "putack" ELSE "get"
                n == upRcv.received + Bytes[upRcv.buf]
    <3>1. upRcv' = [upRcv EXCEPT !.pc = p, !.seq = upRcv.seq + 1, !.received = n,
                               !.buf = NoChunk, !.misses = 0, !.expired = FALSE]
      BY <1>10 DEF Up!RcvWrite
    <3>2. upRcv.buf \in Chunk
      BY <1>10 DEF SessionInv, SessionTypeOK, Up!RcvWrite
    <3>3. p \in Up!RcvPcs /\ p # "write" /\ n \in Nat /\ upRcv.seq + 1 \in Nat
      BY <1>0, <3>2, SessionAssumption
    <3>. HIDE DEF p, n
    <3>. QED BY <1>0, <3>1, <3>3
  <2>. QED BY <1>0, <1>1, <1>10, <2>1 DEF Up!RcvWrite
<1>11. ASSUME NEW applied \in BOOLEAN, Up!RcvWriteFails(applied)
       PROVE  UpReceived
  BY <1>0, <1>2, <1>11, <1>q DEF Up!RcvWriteFails
<1>. QED BY <1>3, <1>4, <1>5, <1>6, <1>7, <1>8, <1>9, <1>10, <1>11
         DEF Up!RcvStep, Up!RcvSocket

(* What a step of the sender of s2c does to its direction.                 *)
DnSent ==
    /\ dnSnd.pc # "done" /\ UNCHANGED <<dnRcv, cliCtx, srvCtx>>
    /\ dnSnd' \in Dn!SndType /\ dnSrc' \in Seq(Chunk)
    /\ \A k \in DOMAIN dnData' : dnData'[k] \in Chunk
    /\ SenderOf(dnSnd, dnData, dnClose, dnSrc)'
    /\ Quiet => /\ dnSnd'.err = "error" \/ dnSnd'.res = "error" => srvCtx
                /\ dnSnd'.err # "limit"

(* The steps of streamToStore for s2c have that effect.                    *)
LEMMA DnSends ==
    ASSUME SessionInv, Dn!SndRead \/ Dn!SndStep
    PROVE  DnSent
<1> USE DEF Dn!SndType, Dn!SndPcs, Dn!ReadErrs, Dn!Results, Dn!rcvVars, Dn!objVars, DnSent
<1>0. /\ dnSnd \in Dn!SndType /\ dnSrc \in Seq(Chunk)
      /\ \A k \in DOMAIN dnData : dnData[k] \in Chunk
      /\ SenderOf(dnSnd, dnData, dnClose, dnSrc)
      /\ Quiet => /\ dnSnd.err = "error" \/ dnSnd.res = "error" => srvCtx
                  /\ dnSnd.err # "limit"
  BY DEF SessionInv, SessionTypeOK, DnInv, CalmSide
<1>q. Quiet => "store" \notin StreamFaults /\ "socket" \notin StreamFaults
  BY DEF Quiet, StreamFaults
<1>1. ASSUME NEW c \in Chunk, NEW err \in {"nil", "eof", "error"}, Dn!SndReadData(c, err)
      PROVE  DnSent
  <2>1. /\ dnSnd.pc = "read" /\ Len(dnSrc) = dnSnd.seq /\ dnSnd.res = "none"
        /\ dnClose = "none" /\ DOMAIN dnData = 0 .. dnSnd.seq - 1
        /\ dnSrc' = Append(dnSrc, c)
        /\ UNCHANGED <<dnRcv, dnData, dnClose, cliCtx, srvCtx>>
    BY <1>0, <1>1 DEF Dn!SndReadData, SenderOf
  <2>2. dnSrc' \in Seq(Chunk) /\ Len(dnSrc') = Len(dnSrc) + 1
    BY <1>0, <2>1
  <2>3. /\ dnSnd' \in Dn!SndType /\ dnSnd'.buf = c /\ dnSnd'.seq = dnSnd.seq
        /\ dnSnd'.res = dnSnd.res
        /\ \/ dnSnd'.pc = "close" /\ dnSnd'.err = "limit" /\ Dn!OverLimit(SrvLimit, dnSnd.sent, c)
           \/ dnSnd'.pc \in {"put", "getack"} /\ dnSnd'.err = err
    BY <1>0, <1>1 DEF Dn!SndReadData, Dn!AfterRead
  <2>4. Quiet /\ err = "error" => srvCtx
    BY <1>1, <1>q DEF Dn!SndReadData
  <2>5. Quiet => ~Dn!OverLimit(SrvLimit, dnSnd.sent, c)
    BY DEF Dn!OverLimit, Quiet
  <2>6. SenderOf(dnSnd, dnData, dnClose, dnSrc)'
    BY <2>1, <2>2, <2>3 DEF SenderOf
  <2>7. Quiet => /\ dnSnd'.err = "error" \/ dnSnd'.res = "error" => srvCtx
                 /\ dnSnd'.err # "limit"
    BY <2>1, <2>3, <2>4, <2>5
  <2>. QED BY <1>0, <2>1, <2>2, <2>3, <2>6, <2>7
<1>2. ASSUME NEW err \in {"eof", "error"}, Dn!SndReadEnd(err)
      PROVE  DnSent
  <2>1. /\ dnSnd.pc = "read" /\ UNCHANGED <<dnRcv, dnData, dnClose, dnSrc, cliCtx, srvCtx>>
        /\ dnSnd' = [dnSnd EXCEPT !.pc = "close", !.err = err]
        /\ err = "error" => "socket" \in StreamFaults
    BY <1>2 DEF Dn!SndReadEnd
  <2>2. /\ dnSnd' \in Dn!SndType /\ dnSnd'.pc = "close" /\ dnSnd'.err = err
        /\ dnSnd'.seq = dnSnd.seq /\ dnSnd'.res = dnSnd.res
    BY <1>0, <2>1
  <2>. QED BY <1>0, <1>q, <2>1, <2>2 DEF SenderOf
<1>3. ASSUME Dn!SndGetAck \/ Dn!SndWake
      PROVE  DnSent
  <2>1. /\ dnSnd.pc \in {"getack", "sleep"}
        /\ UNCHANGED <<dnRcv, dnData, dnClose, dnSrc, cliCtx, srvCtx>>
    BY <1>3 DEF Dn!SndGetAck, Dn!SndWake
  <2>2. dnAck \in Nat
    BY DEF SessionInv, SessionTypeOK
  <2>3. /\ dnSnd' \in Dn!SndType /\ dnSnd'.pc \in {"getack", "sleep", "put"}
        /\ dnSnd'.seq = dnSnd.seq /\ dnSnd'.res = dnSnd.res /\ dnSnd'.err = dnSnd.err
        /\ dnSnd'.buf = dnSnd.buf
    BY <1>0, <1>3, <2>2 DEF Dn!SndGetAck, Dn!SndWake, Dn!Max2
  <2>4. SenderOf(dnSnd, dnData, dnClose, dnSrc)'
    BY <1>0, <2>1, <2>3 DEF SenderOf
  <2>. QED BY <1>0, <2>1, <2>3, <2>4
<1>4. ASSUME dnSnd.pc # "done", Dn!SndReturn("error"), Dn!SndCallFails,
             UNCHANGED <<dnRcv, dnSrc, cliCtx, srvCtx>>,
             \A k \in DOMAIN dnData' : dnData'[k] \in Chunk
      PROVE  DnSent
  <2>1. /\ dnSnd' \in Dn!SndType /\ dnSnd'.pc = "done" /\ dnSnd'.res = "error"
        /\ dnSnd'.err = dnSnd.err
    BY <1>0, <1>4 DEF Dn!SndReturn
  <2>2. Quiet => srvCtx
    BY <1>4, <1>q DEF Dn!SndCallFails
  <2>. QED BY <1>0, <1>4, <2>1, <2>2, FailedSender
<1>5. CASE Dn!SndGetAckFails \/ Dn!SndSleepCancelled
  BY <1>0, <1>4, <1>5 DEF Dn!SndGetAckFails, Dn!SndSleepCancelled, Dn!SndCallFails
<1>6. ASSUME NEW applied \in BOOLEAN, Dn!SndPutFails(applied) \/ Dn!SndCloseFails(applied)
      PROVE  DnSent
  <2>1. \A k \in DOMAIN dnData' : dnData'[k] \in Chunk
    BY <1>0, <1>6 DEF Dn!SndPutFails, Dn!SndCloseFails, Dn!PutObject, SenderOf
  <2>. QED BY <1>4, <1>6, <2>1 DEF Dn!SndPutFails, Dn!SndCloseFails
<1>7. CASE Dn!SndPut
  <2>1. /\ dnSnd.pc = "put" /\ Len(dnSrc) = dnSnd.seq + 1 /\ dnSnd.res = "none"
        /\ dnSnd.buf \in Chunk /\ dnClose = "none" /\ DOMAIN dnData = 0 .. dnSnd.seq - 1
        /\ DOMAIN dnData' = DOMAIN dnData \cup {dnSnd.seq}
        /\ \A k \in DOMAIN dnData' : dnData'[k] \in Chunk
        /\ UNCHANGED <<dnRcv, dnClose, dnSrc, cliCtx, srvCtx>>
    BY <1>0, <1>7 DEF Dn!SndPut, SenderOf, Dn!PutObject
  <2>2. dnSnd.sent + Bytes[dnSnd.buf] \in Nat
    BY <1>0, <2>1, SessionAssumption
  <2>3. /\ dnSnd' \in Dn!SndType /\ dnSnd'.seq = dnSnd.seq + 1 /\ dnSnd'.buf = NoChunk
        /\ dnSnd'.res = dnSnd.res /\ dnSnd'.err = dnSnd.err
    <3>. DEFINE p == IF dnSnd.err = "nil" THEN "read" ELSE "close"
                n == dnSnd.sent + Bytes[dnSnd.buf]
    <3>1. dnSnd' = [dnSnd EXCEPT !.pc = p, !.seq = dnSnd.seq + 1, !.sent = n, !.buf = NoChunk]
      BY <1>7 DEF Dn!SndPut
    <3>2. p \in Dn!SndPcs /\ n \in Nat /\ dnSnd.seq + 1 \in Nat
      BY <1>0, <2>2
    <3>. HIDE DEF p, n
    <3>. QED BY <1>0, <3>1, <3>2
  <2>4. dnSnd'.pc = IF dnSnd.err = "nil" THEN "read" ELSE "close"
    BY <1>0, <1>7 DEF Dn!SndPut
  <2>5. DOMAIN dnData' = 0 .. dnSnd'.seq - 1
    BY <1>0, <2>1, <2>3
  <2>6. SenderOf(dnSnd, dnData, dnClose, dnSrc)'
    BY <2>1, <2>3, <2>4, <2>5 DEF SenderOf
  <2>. QED BY <1>0, <2>1, <2>3, <2>6
<1>8. CASE Dn!SndClose
  <2>1. /\ dnSnd.pc = "close" /\ dnClose' = dnSnd.err
        /\ UNCHANGED <<dnRcv, dnData, dnSrc, cliCtx, srvCtx>>
    BY <1>8 DEF Dn!SndClose
  <2>2. /\ dnSnd' \in Dn!SndType /\ dnSnd'.pc = "done" /\ dnSnd'.err = dnSnd.err
        /\ dnSnd'.res = IF dnSnd.err = "eof" THEN "nil" ELSE "error"
    BY <1>0, <1>8 DEF Dn!SndClose, Dn!SndReturn
  <2>3. CASE dnSnd.err = "eof"
    BY <1>0, <2>1, <2>2, <2>3 DEF SenderOf
  <2>4. CASE dnSnd.err # "eof"
    <3>1. SenderOf(dnSnd, dnData, dnClose, dnSrc)'
      BY <2>2, <2>4, FailedSender
    <3>2. dnSnd.err # "nil"
      BY <1>0, <2>1 DEF SenderOf
    <3>3. Quiet => srvCtx
      BY <1>0, <2>4, <3>2
    <3>. QED BY <1>0, <2>1, <2>2, <2>4, <3>1, <3>3
  <2>. QED BY <2>3, <2>4
<1>. QED BY <1>1, <1>2, <1>3, <1>5, <1>6, <1>7, <1>8 DEF Dn!SndRead, Dn!SndStep

(* What a step of the receiver of s2c, or its clock, does.                 *)
DnReceived ==
    /\ dnRcv.pc # "done" /\ UNCHANGED <<dnSnd, dnData, dnClose, dnSrc, cliCtx, srvCtx>>
    /\ dnRcv' \in Dn!RcvType /\ dnAck' \in Nat
    /\ ReceiverOf(dnRcv, dnClose)'
    /\ dnRcv'.pc = "write" => dnRcv'.buf \in Chunk
    /\ Quiet /\ dnRcv'.res = "error" => dnRcv'.expired /\ dnRcv'.pc = "done"

(* The steps of streamFromStore for s2c have that effect.                  *)
LEMMA DnReceives ==
    ASSUME SessionInv, Dn!RcvStep \/ Dn!RcvSocket \/ Dn!Expire
    PROVE  DnReceived
<1> USE DEF Dn!RcvType, Dn!RcvPcs, Dn!Results, Dn!sndVars, Dn!objVars, DnReceived
<1>0. /\ dnRcv \in Dn!RcvType /\ dnAck \in Nat /\ ReceiverOf(dnRcv, dnClose)
      /\ dnRcv.pc = "write" => dnRcv.buf \in Chunk
      /\ Quiet /\ (dnRcv.res = "error" \/ cliCtx) => dnRcv.expired /\ dnRcv.pc = "done"
  BY DEF SessionInv, SessionTypeOK, DnInv, CalmSide
<1>q. Quiet => "store" \notin StreamFaults /\ "socket" \notin StreamFaults
  BY DEF Quiet, StreamFaults
<1>1. ASSUME dnRcv.pc # "done", dnRcv' \in Dn!RcvType, dnRcv'.res = dnRcv.res, dnAck' \in Nat,
             dnRcv'.pc = "write" => dnRcv'.buf \in Chunk,
             UNCHANGED <<dnSnd, dnData, dnClose, dnSrc, cliCtx, srvCtx>>
      PROVE  DnReceived
  BY <1>0, <1>1 DEF ReceiverOf
<1>2. ASSUME dnRcv.pc # "done", Dn!RcvReturn("error"), dnAck' \in Nat,
             Quiet => dnRcv.expired \/ cliCtx,
             UNCHANGED <<dnSnd, dnData, dnClose, dnSrc, cliCtx, srvCtx>>
      PROVE  DnReceived
  <2>1. /\ dnRcv' \in Dn!RcvType /\ dnRcv'.pc = "done" /\ dnRcv'.res = "error"
        /\ dnRcv'.expired = dnRcv.expired
    BY <1>0, <1>2 DEF Dn!RcvReturn
  <2>2. Quiet => dnRcv.expired
    BY <1>0, <1>2
  <2>. QED BY <1>2, <2>1, <2>2 DEF ReceiverOf
<1>3. CASE Dn!RcvGetHit \/ Dn!RcvGetMiss \/ Dn!RcvWake \/ Dn!Expire
  <2>1. /\ dnRcv.pc # "done" /\ UNCHANGED <<dnSnd, dnData, dnClose, dnSrc, dnAck, cliCtx, srvCtx>>
    BY <1>3 DEF Dn!RcvGetHit, Dn!RcvGetMiss, Dn!RcvWake, Dn!Expire
  <2>2. CASE Dn!RcvGetHit
    <3>1. dnData[dnRcv.seq] \in Chunk
      BY <2>2 DEF SessionInv, SessionTypeOK, Dn!RcvGetHit, Dn!HasObject
    <3>2. /\ dnRcv' \in Dn!RcvType /\ dnRcv'.res = dnRcv.res
          /\ dnRcv'.pc = "write" => dnRcv'.buf \in Chunk
      BY <1>0, <2>2, <3>1 DEF Dn!RcvGetHit
    <3>. QED BY <1>0, <1>1, <2>1, <3>2
  <2>3. CASE Dn!RcvGetMiss
    <3>1. \/ dnRcv' = [dnRcv EXCEPT !.pc = "head", !.misses = 0]
          \/ dnRcv' = [dnRcv EXCEPT !.pc = "check", !.misses = dnRcv.misses + 1]
      BY <2>3 DEF Dn!RcvGetMiss
    <3>2. dnRcv' \in Dn!RcvType /\ dnRcv'.res = dnRcv.res /\ dnRcv'.pc # "write"
      <4>1. dnRcv.misses + 1 \in Nat
        BY <1>0
      <4>2. CASE dnRcv' = [dnRcv EXCEPT !.pc = "head", !.misses = 0]
        BY <1>0, <4>2
      <4>3. CASE dnRcv' = [dnRcv EXCEPT !.pc = "check", !.misses = dnRcv.misses + 1]
        BY <1>0, <4>1, <4>3
      <4>. QED BY <3>1, <4>2, <4>3
    <3>. QED BY <1>0, <1>1, <2>1, <3>2
  <2>4. CASE Dn!RcvWake \/ Dn!Expire
    <3>1. /\ dnRcv' \in Dn!RcvType /\ dnRcv'.res = dnRcv.res
          /\ dnRcv'.pc = "write" => dnRcv'.buf \in Chunk
      BY <1>0, <2>4 DEF Dn!RcvWake, Dn!Expire
    <3>. QED BY <1>0, <1>1, <2>1, <3>1
  <2>. QED BY <1>3, <2>2, <2>3, <2>4
<1>4. CASE Dn!RcvOverLimit
  <2>1. Quiet => FALSE
    BY <1>4 DEF Dn!RcvOverLimit, Dn!OverLimit, Quiet
  <2>. QED BY <1>0, <1>2, <1>4, <2>1 DEF Dn!RcvOverLimit
<1>5. CASE Dn!RcvGetFails \/ Dn!RcvHeadFails \/ Dn!RcvSleepCancelled
  BY <1>0, <1>2, <1>5, <1>q
     DEF Dn!RcvGetFails, Dn!RcvHeadFails, Dn!RcvSleepCancelled, Dn!RcvCallFails
<1>6. CASE Dn!RcvPutAck
  <2>1. dnRcv' \in Dn!RcvType /\ dnRcv'.res = dnRcv.res /\ dnRcv'.pc # "write"
    <3>1. dnRcv' = [dnRcv EXCEPT !.pc = "get", !.lastAck = dnRcv.seq, !.misses = 0,
                               !.expired = FALSE]
      BY <1>6 DEF Dn!RcvPutAck
    <3>. QED BY <1>0, <3>1
  <2>. QED BY <1>0, <1>1, <1>6, <2>1 DEF Dn!RcvPutAck
<1>7. ASSUME NEW applied \in BOOLEAN, Dn!RcvPutAckFails(applied)
      PROVE  DnReceived
  <2>1. dnAck' \in Nat
    BY <1>0, <1>7 DEF Dn!RcvPutAckFails
  <2>. QED BY <1>2, <1>7, <1>q, <2>1 DEF Dn!RcvPutAckFails, Dn!RcvCallFails
<1>8. CASE Dn!RcvHead
  <2>1. CASE dnClose = "none"
    <3>1. dnRcv' \in Dn!RcvType /\ dnRcv'.res = dnRcv.res /\ dnRcv'.pc # "write"
      BY <1>0, <1>8, <2>1 DEF Dn!RcvHead
    <3>. QED BY <1>0, <1>1, <1>8, <3>1 DEF Dn!RcvHead
  <2>2. CASE dnClose # "none"
    <3>1. dnRcv' \in Dn!RcvType /\ dnRcv'.pc = "done" /\ dnRcv'.res = "nil"
      BY <1>0, <1>8, <2>2 DEF Dn!RcvHead, Dn!RcvReturn
    <3>. QED BY <1>0, <1>8, <2>2, <3>1 DEF Dn!RcvHead, ReceiverOf
  <2>. QED BY <2>1, <2>2
<1>9. CASE Dn!RcvCheck
  <2>1. CASE dnRcv.expired
    BY <1>0, <1>2, <1>9, <2>1 DEF Dn!RcvCheck
  <2>2. CASE ~dnRcv.expired
    <3>1. dnRcv' \in Dn!RcvType /\ dnRcv'.res = dnRcv.res /\ dnRcv'.pc # "write"
      BY <1>0, <1>9, <2>2 DEF Dn!RcvCheck
    <3>. QED BY <1>0, <1>1, <1>9, <3>1 DEF Dn!RcvCheck
  <2>. QED BY <2>1, <2>2
<1>10. CASE Dn!RcvWrite
  <2>1. dnRcv' \in Dn!RcvType /\ dnRcv'.res = dnRcv.res /\ dnRcv'.pc # "write"
    <3>. DEFINE p == IF dnRcv.seq + 1 - dnRcv.lastAck >= Dn!ackInterval(CliWindow)
                     THEN "putack" ELSE "get"
                n == dnRcv.received + Bytes[dnRcv.buf]
    <3>1. dnRcv' = [dnRcv EXCEPT !.pc = p, !.seq = dnRcv.seq + 1, !.received = n,
                               !.buf = NoChunk, !.misses = 0, !.expired = FALSE]
      BY <1>10 DEF Dn!RcvWrite
    <3>2. dnRcv.buf \in Chunk
      BY <1>10 DEF SessionInv, SessionTypeOK, Dn!RcvWrite
    <3>3. p \in Dn!RcvPcs /\ p # "write" /\ n \in Nat /\ dnRcv.seq + 1 \in Nat
      BY <1>0, <3>2, SessionAssumption
    <3>. HIDE DEF p, n
    <3>. QED BY <1>0, <3>1, <3>3
  <2>. QED BY <1>0, <1>1, <1>10, <2>1 DEF Dn!RcvWrite
<1>11. ASSUME NEW applied \in BOOLEAN, Dn!RcvWriteFails(applied)
       PROVE  DnReceived
  BY <1>0, <1>2, <1>11, <1>q DEF Dn!RcvWriteFails
<1>. QED BY <1>3, <1>4, <1>5, <1>6, <1>7, <1>8, <1>9, <1>10, <1>11
         DEF Dn!RcvStep, Dn!RcvSocket

(* The client takes a result: an error it hears of was there, and without  *)
(* faults the first one is that of a receiver that timed out.              *)
LEMMA CliCollects ==
    ASSUME SessionInv, NEW g \in Goroutines, CliCollect(g)
    PROVE  /\ UNCHANGED <<upVars, dnVars, srvCtx, srv>>
           /\ cli' \in JoinType /\ Joined(cli, upSnd.res, dnRcv.res)'
           /\ CalmSide(upSnd, dnRcv, cliCtx)'
<1>0. /\ cli \in JoinType /\ Joined(cli, upSnd.res, dnRcv.res)
      /\ CalmSide(upSnd, dnRcv, cliCtx) /\ cliCtx \in BOOLEAN
      /\ upSnd.res \in {"none", "nil", "error"} /\ dnRcv.res \in {"none", "nil", "error"}
  BY DEF SessionInv, SessionTypeOK, CtxInv, Up!SndType, Dn!RcvType, Up!Results, Dn!Results
<1>1. UNCHANGED <<upVars, dnVars, srvCtx, srv>>
  BY DEF CliCollect
<1>2. upSnd' = upSnd /\ dnRcv' = dnRcv
  BY <1>1 DEF upVars, dnVars
<1> DEFINE own == IF g = "send" THEN upSnd.res ELSE dnRcv.res
<1>3. PICK res \in CliResults(g) : /\ cli' = Collected(cli, g, res)
                                 /\ cliCtx' = (cliCtx \/ CancelsNow(cli, res))
  BY DEF CliCollect
<1>4. /\ res \in {"nil", "error", "ignored"}
      /\ res = "nil" => own = "nil"
      /\ res = "error" => own = "error"
  BY <1>0, <1>3 DEF CliResults, Heard, Goroutines
<1>5. /\ cli' \in JoinType
      /\ cli'.got = cli.got \cup {g}
      /\ cli'.first = "nil" => cli.first = "nil" /\ res # "error"
      /\ ~cli'.ignored => ~cli.ignored /\ res # "ignored"
  <2> DEFINE f == IF res = "error" THEN "error" ELSE cli.first
             i == (cli.ignored \/ res = "ignored")
  <2>1. f \in {"nil", "error"} /\ (f = "nil" => cli.first = "nil" /\ res # "error")
    BY <1>0 DEF JoinType
  <2>2. i \in BOOLEAN /\ (~i => ~cli.ignored /\ res # "ignored")
    BY <1>0 DEF JoinType
  <2>3. cli' = [cli EXCEPT !.got = cli.got \cup {g}, !.first = f, !.ignored = i]
    BY <1>3 DEF Collected
  <2> HIDE DEF f, i
  <2>4. /\ cli' \in JoinType
        /\ cli'.got = cli.got \cup {g} /\ cli'.first = f /\ cli'.ignored = i
    BY <1>0, <2>1, <2>2, <2>3 DEF JoinType
  <2>. QED BY <2>1, <2>2, <2>4
<1>6. Joined(cli, upSnd.res, dnRcv.res)'
  <2> SUFFICES ASSUME cli'.first = "nil", ~cli'.ignored
               PROVE  /\ "send" \in cli'.got => upSnd.res = "nil"
                      /\ "recv" \in cli'.got => dnRcv.res = "nil"
    BY <1>2 DEF Joined
  <2>1. own = "nil"
    BY <1>4, <1>5
  <2>. QED BY <1>0, <1>5, <2>1 DEF Joined, Goroutines
<1>7. CalmSide(upSnd, dnRcv, cliCtx)'
  <2>1. CASE cliCtx
    BY <1>0, <1>2, <1>3, <2>1 DEF CalmSide
  <2>2. CASE ~cliCtx /\ res # "error"
    BY <1>0, <1>2, <1>3, <2>2 DEF CalmSide, CancelsNow
  <2>3. CASE ~cliCtx /\ res = "error"
    <3>1. Quiet => dnRcv.res = "error"
      BY <1>0, <1>4, <2>3 DEF CalmSide
    <3>2. Quiet => /\ upSnd.err # "error" /\ upSnd.res # "error" /\ upSnd.err # "limit"
                   /\ dnRcv.expired /\ dnRcv.pc = "done"
      BY <1>0, <2>3, <3>1 DEF CalmSide
    <3>. QED BY <1>2, <3>2 DEF CalmSide
  <2>. QED BY <2>1, <2>2, <2>3
<1>. QED BY <1>1, <1>5, <1>6, <1>7

(* The server takes a result: an error it hears of was there, and without  *)
(* faults the first one is that of a receiver that timed out.              *)
LEMMA SrvCollects ==
    ASSUME SessionInv, NEW g \in Goroutines, SrvCollect(g)
    PROVE  /\ UNCHANGED <<upVars, dnVars, cliCtx, cli>>
           /\ srv' \in JoinType /\ Joined(srv, dnSnd.res, upRcv.res)'
           /\ CalmSide(dnSnd, upRcv, srvCtx)'
<1>0. /\ srv \in JoinType /\ Joined(srv, dnSnd.res, upRcv.res)
      /\ CalmSide(dnSnd, upRcv, srvCtx) /\ srvCtx \in BOOLEAN
      /\ dnSnd.res \in {"none", "nil", "error"} /\ upRcv.res \in {"none", "nil", "error"}
  BY DEF SessionInv, SessionTypeOK, CtxInv, Dn!SndType, Up!RcvType, Dn!Results, Up!Results
<1>1. UNCHANGED <<upVars, dnVars, cliCtx, cli>>
  BY DEF SrvCollect
<1>2. dnSnd' = dnSnd /\ upRcv' = upRcv
  BY <1>1 DEF upVars, dnVars
<1> DEFINE own == IF g = "send" THEN dnSnd.res ELSE upRcv.res
<1>3. PICK res \in SrvResults(g) : /\ srv' = Collected(srv, g, res)
                                 /\ srvCtx' = (srvCtx \/ CancelsNow(srv, res))
  BY DEF SrvCollect
<1>4. /\ res \in {"nil", "error", "ignored"}
      /\ res = "nil" => own = "nil"
      /\ res = "error" => own = "error"
  BY <1>0, <1>3 DEF SrvResults, Heard, Goroutines
<1>5. /\ srv' \in JoinType
      /\ srv'.got = srv.got \cup {g}
      /\ srv'.first = "nil" => srv.first = "nil" /\ res # "error"
      /\ ~srv'.ignored => ~srv.ignored /\ res # "ignored"
  <2> DEFINE f == IF res = "error" THEN "error" ELSE srv.first
             i == (srv.ignored \/ res = "ignored")
  <2>1. f \in {"nil", "error"} /\ (f = "nil" => srv.first = "nil" /\ res # "error")
    BY <1>0 DEF JoinType
  <2>2. i \in BOOLEAN /\ (~i => ~srv.ignored /\ res # "ignored")
    BY <1>0 DEF JoinType
  <2>3. srv' = [srv EXCEPT !.got = srv.got \cup {g}, !.first = f, !.ignored = i]
    BY <1>3 DEF Collected
  <2> HIDE DEF f, i
  <2>4. /\ srv' \in JoinType
        /\ srv'.got = srv.got \cup {g} /\ srv'.first = f /\ srv'.ignored = i
    BY <1>0, <2>1, <2>2, <2>3 DEF JoinType
  <2>. QED BY <2>1, <2>2, <2>4
<1>6. Joined(srv, dnSnd.res, upRcv.res)'
  <2> SUFFICES ASSUME srv'.first = "nil", ~srv'.ignored
               PROVE  /\ "send" \in srv'.got => dnSnd.res = "nil"
                      /\ "recv" \in srv'.got => upRcv.res = "nil"
    BY <1>2 DEF Joined
  <2>1. own = "nil"
    BY <1>4, <1>5
  <2>. QED BY <1>0, <1>5, <2>1 DEF Joined, Goroutines
<1>7. CalmSide(dnSnd, upRcv, srvCtx)'
  <2>1. CASE srvCtx
    BY <1>0, <1>2, <1>3, <2>1 DEF CalmSide
  <2>2. CASE ~srvCtx /\ res # "error"
    BY <1>0, <1>2, <1>3, <2>2 DEF CalmSide, CancelsNow
  <2>3. CASE ~srvCtx /\ res = "error"
    <3>1. Quiet => upRcv.res = "error"
      BY <1>0, <1>4, <2>3 DEF CalmSide
    <3>2. Quiet => /\ dnSnd.err # "error" /\ dnSnd.res # "error" /\ dnSnd.err # "limit"
                   /\ upRcv.expired /\ upRcv.pc = "done"
      BY <1>0, <2>3, <3>1 DEF CalmSide
    <3>. QED BY <1>2, <3>2 DEF CalmSide
  <2>. QED BY <2>1, <2>2, <2>3
<1>. QED BY <1>1, <1>5, <1>6, <1>7

(* The invariant holds when a session starts.                              *)
LEMMA SessionInitial == SessionInit => SessionInv
<1> SUFFICES ASSUME SessionInit PROVE SessionInv
  OBVIOUS
<1> USE DEF SessionInit, Up!Init, Up!SndInit, Up!RcvInit, Up!ObjInit, Up!EmptyStore,
            Dn!Init, Dn!SndInit, Dn!RcvInit, Dn!ObjInit, Dn!EmptyStore
<1>1. /\ upSnd \in Up!SndType /\ upRcv \in Up!RcvType
      /\ dnSnd \in Dn!SndType /\ dnRcv \in Dn!RcvType
  BY DEF Up!SndType, Up!RcvType, Up!SndPcs, Up!RcvPcs, Up!ReadErrs, Up!Results,
         Dn!SndType, Dn!RcvType, Dn!SndPcs, Dn!RcvPcs, Dn!ReadErrs, Dn!Results
<1>2. cli \in JoinType /\ srv \in JoinType
  BY DEF JoinInit, JoinType
<1>3. SessionTypeOK
  BY <1>1, <1>2 DEF SessionTypeOK
<1>4. UpInv /\ DnInv
  BY DEF UpInv, DnInv, SenderOf, ReceiverOf
<1>5. CalmSide(upSnd, dnRcv, cliCtx) /\ CalmSide(dnSnd, upRcv, srvCtx)
  BY DEF CalmSide
<1>6. Joined(cli, upSnd.res, dnRcv.res) /\ Joined(srv, dnSnd.res, upRcv.res)
  BY DEF JoinInit, Joined
<1>. QED BY <1>3, <1>4, <1>5, <1>6, InitCtxInv DEF SessionInv

(* The goroutines of c2s keep the invariant.                               *)
LEMMA UpSteps ==
    ASSUME SessionInv, Up!SndRead \/ Up!SndStep \/ Up!RcvStep \/ Up!RcvSocket \/ Up!Expire,
           UNCHANGED <<dnVars, cli, srv>>
    PROVE  SessionInv'
<1>0. UNCHANGED <<dnSnd, dnRcv, dnData, dnAck, dnClose, dnSrc>>
  BY DEF dnVars
<1> USE <1>0 DEF SessionInv, SessionTypeOK, CtxInv
<1>1. CASE Up!SndRead \/ Up!SndStep
  <2>0. UpSent
    BY <1>1, UpSends
  <2>1. UNCHANGED upAck
    BY <1>1 DEF Up!SndRead, Up!SndReadData, Up!SndReadEnd, Up!SndStep, Up!SndGetAck,
                Up!SndGetAckFails, Up!SndWake, Up!SndSleepCancelled, Up!SndPut,
                Up!SndPutFails, Up!SndClose, Up!SndCloseFails, Up!objVars
  <2>2. SessionTypeOK' /\ CtxInv' /\ DnInv' /\ CalmSide(dnSnd, upRcv, srvCtx)'
    BY <2>0, <2>1 DEF UpSent, DnInv, SenderOf, ReceiverOf, CalmSide
  <2>3. UpInv'
    BY <2>0 DEF UpSent, UpInv, SenderOf, ReceiverOf
  <2>4. CalmSide(upSnd, dnRcv, cliCtx)'
    BY <2>0 DEF UpSent, CalmSide
  <2>5. upSnd.res = "none"
    BY <2>0 DEF UpSent, UpInv, SenderOf
  <2>6. Joined(cli, upSnd.res, dnRcv.res)' /\ Joined(srv, dnSnd.res, upRcv.res)'
    BY <2>0, <2>5 DEF UpSent, Joined
  <2>. QED BY <2>2, <2>3, <2>4, <2>6
<1>2. CASE Up!RcvStep \/ Up!RcvSocket \/ Up!Expire
  <2>0. UpReceived
    BY <1>2, UpReceives
  <2>1. SessionTypeOK' /\ CtxInv' /\ DnInv' /\ CalmSide(upSnd, dnRcv, cliCtx)'
    BY <2>0 DEF UpReceived, DnInv, SenderOf, ReceiverOf, CalmSide
  <2>2. UpInv'
    BY <2>0 DEF UpReceived, UpInv, SenderOf
  <2>3. CalmSide(dnSnd, upRcv, srvCtx)'
    BY <2>0 DEF UpReceived, CalmSide
  <2>4. upRcv.res = "none"
    BY <2>0 DEF UpReceived, UpInv, ReceiverOf
  <2>5. Joined(cli, upSnd.res, dnRcv.res)' /\ Joined(srv, dnSnd.res, upRcv.res)'
    BY <2>0, <2>4 DEF UpReceived, Joined
  <2>. QED BY <2>1, <2>2, <2>3, <2>5
<1>. QED BY <1>1, <1>2

(* The goroutines of s2c keep the invariant.                               *)
LEMMA DnSteps ==
    ASSUME SessionInv, Dn!SndRead \/ Dn!SndStep \/ Dn!RcvStep \/ Dn!RcvSocket \/ Dn!Expire,
           UNCHANGED <<upVars, cli, srv>>
    PROVE  SessionInv'
<1>0. UNCHANGED <<upSnd, upRcv, upData, upAck, upClose, upSrc>>
  BY DEF upVars
<1> USE <1>0 DEF SessionInv, SessionTypeOK, CtxInv
<1>1. CASE Dn!SndRead \/ Dn!SndStep
  <2>0. DnSent
    BY <1>1, DnSends
  <2>1. UNCHANGED dnAck
    BY <1>1 DEF Dn!SndRead, Dn!SndReadData, Dn!SndReadEnd, Dn!SndStep, Dn!SndGetAck,
                Dn!SndGetAckFails, Dn!SndWake, Dn!SndSleepCancelled, Dn!SndPut,
                Dn!SndPutFails, Dn!SndClose, Dn!SndCloseFails, Dn!objVars
  <2>2. SessionTypeOK' /\ CtxInv' /\ UpInv' /\ CalmSide(upSnd, dnRcv, cliCtx)'
    BY <2>0, <2>1 DEF DnSent, UpInv, SenderOf, ReceiverOf, CalmSide
  <2>3. DnInv'
    BY <2>0 DEF DnSent, DnInv, SenderOf, ReceiverOf
  <2>4. CalmSide(dnSnd, upRcv, srvCtx)'
    BY <2>0 DEF DnSent, CalmSide
  <2>5. dnSnd.res = "none"
    BY <2>0 DEF DnSent, DnInv, SenderOf
  <2>6. Joined(srv, dnSnd.res, upRcv.res)' /\ Joined(cli, upSnd.res, dnRcv.res)'
    BY <2>0, <2>5 DEF DnSent, Joined
  <2>. QED BY <2>2, <2>3, <2>4, <2>6
<1>2. CASE Dn!RcvStep \/ Dn!RcvSocket \/ Dn!Expire
  <2>0. DnReceived
    BY <1>2, DnReceives
  <2>1. SessionTypeOK' /\ CtxInv' /\ UpInv' /\ CalmSide(dnSnd, upRcv, srvCtx)'
    BY <2>0 DEF DnReceived, UpInv, SenderOf, ReceiverOf, CalmSide
  <2>2. DnInv'
    BY <2>0 DEF DnReceived, DnInv, SenderOf
  <2>3. CalmSide(upSnd, dnRcv, cliCtx)'
    BY <2>0 DEF DnReceived, CalmSide
  <2>4. dnRcv.res = "none"
    BY <2>0 DEF DnReceived, DnInv, ReceiverOf
  <2>5. Joined(srv, dnSnd.res, upRcv.res)' /\ Joined(cli, upSnd.res, dnRcv.res)'
    BY <2>0, <2>4 DEF DnReceived, Joined
  <2>. QED BY <2>1, <2>2, <2>3, <2>5
<1>. QED BY <1>1, <1>2

(* So does every step of a session.                                        *)
LEMMA SessionInductive == SessionInv /\ [SessionNext]_sessionVars => SessionInv'
<1> SUFFICES ASSUME SessionInv, [SessionNext]_sessionVars PROVE SessionInv'
  OBVIOUS
<1>1. ASSUME NEW g \in Goroutines, CliCollect(g) PROVE SessionInv'
  <2>1. /\ UNCHANGED <<upVars, dnVars, srvCtx, srv>>
        /\ cli' \in JoinType /\ Joined(cli, upSnd.res, dnRcv.res)'
        /\ CalmSide(upSnd, dnRcv, cliCtx)' /\ CtxInv'
    BY <1>1, CliCollects, CliCollectCancels DEF SessionInv
  <2>. QED BY <2>1 DEF SessionInv, SessionTypeOK, UpInv, DnInv, SenderOf, ReceiverOf,
                       CalmSide, Joined, upVars, dnVars
<1>2. ASSUME NEW g \in Goroutines, SrvCollect(g) PROVE SessionInv'
  <2>1. /\ UNCHANGED <<upVars, dnVars, cliCtx, cli>>
        /\ srv' \in JoinType /\ Joined(srv, dnSnd.res, upRcv.res)'
        /\ CalmSide(dnSnd, upRcv, srvCtx)' /\ CtxInv'
    BY <1>2, SrvCollects, SrvCollectCancels DEF SessionInv
  <2>. QED BY <2>1 DEF SessionInv, SessionTypeOK, UpInv, DnInv, SenderOf, ReceiverOf,
                       CalmSide, Joined, upVars, dnVars
<1>3. CASE \/ CliUp(Up!SndStep) \/ CliRead
           \/ SrvUp(Up!RcvStep) \/ SrvUp(Up!Expire) \/ SrvWrite
  BY <1>3, UpSteps DEF CliUp, SrvUp, CliRead, SrvWrite
<1>4. CASE \/ CliDn(Dn!RcvStep) \/ CliDn(Dn!Expire) \/ CliWrite
           \/ SrvDn(Dn!SndStep) \/ SrvRead
  BY <1>4, DnSteps DEF CliDn, SrvDn, CliWrite, SrvRead
<1>5. CASE CliCrash \/ SrvCrash \/ UNCHANGED sessionVars
  <2>1. UNCHANGED <<upVars, dnVars, cliCtx, srvCtx>>
    BY <1>5 DEF CliCrash, SrvCrash, sessionVars
  <2>2. /\ cli \in JoinType /\ srv \in JoinType
        /\ cli' = cli \/ cli' = [cli EXCEPT !.alive = FALSE]
        /\ srv' = srv \/ srv' = [srv EXCEPT !.alive = FALSE]
    BY <1>5 DEF CliCrash, SrvCrash, sessionVars, SessionInv, SessionTypeOK
  <2>3. /\ cli' \in JoinType /\ cli'.got = cli.got /\ cli'.first = cli.first
        /\ cli'.ignored = cli.ignored
    BY <2>2 DEF JoinType
  <2>4. /\ srv' \in JoinType /\ srv'.got = srv.got /\ srv'.first = srv.first
        /\ srv'.ignored = srv.ignored
    BY <2>2 DEF JoinType
  <2>. QED BY <2>1, <2>3, <2>4 DEF SessionInv, SessionTypeOK, UpInv, DnInv, SenderOf,
                       ReceiverOf, CalmSide, Joined, CtxInv, upVars, dnVars
<1>. QED
  BY <1>1, <1>2, <1>3, <1>4, <1>5 DEF SessionNext, CliStep, SrvStep, SessionOver

(* A handler that returns without an error, and has passed none over, has  *)
(* left its own end-of-file marker with all of its data before it and has  *)
(* seen the other side's marker, whatever failed and whoever died.         *)
THEOREM ReturnIsClean == SessionSpec => []CleanReturn
<1>1. SessionInv => CleanReturn
  BY DEF SessionInv, UpInv, DnInv, SenderOf, ReceiverOf, Joined, CleanReturn, Returned,
         Goroutines
<1>. QED BY <1>1, SessionInitial, SessionInductive, PTL DEF SessionSpec

(* A half-close never cancels the other half: without faults and limits a  *)
(* context is cancelled only after its receiver has timed out.             *)
THEOREM HalfCloseIsHarmless == SessionSpec => []NoCancelWithoutFault
<1>1. SessionInv => NoCancelWithoutFault
  BY DEF SessionInv, CalmSide, Quiet, NoCancelWithoutFault
<1>. QED BY <1>1, SessionInitial, SessionInductive, PTL DEF SessionSpec
=============================================================================
