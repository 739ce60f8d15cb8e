---------------------------- MODULE StreamProofs ----------------------------
(***************************************************************************)
(* Proofs about one direction of a session, for every window, byte limit,  *)
(* chunk set and combination of faults.                                    *)
(***************************************************************************)
EXTENDS Stream, WellFoundedInduction, TLAPS

(* The ACK interval is a positive number whatever the window.              *)
LEMMA AckIntervalPositive == ackInterval(RecvWindow) \in Nat \ {0}
<1>1. CASE RecvWindow <= 2
  BY <1>1, WindowAssumption DEF ackInterval
<1>2. CASE ~(RecvWindow <= 2)
  <2>1. RecvWindow \in Nat /\ RecvWindow >= 3
    BY <1>2, WindowAssumption
  <2>2. RecvWindow \div 2 \in Nat /\ RecvWindow \div 2 >= 1
    BY <2>1, Z3
  <2>. QED BY <1>2, <2>2 DEF ackInterval
<1>. QED BY <1>1, <1>2

(* The initial state satisfies the invariant.                              *)
LEMMA InitStreamInv == Init => StreamInv
<1> SUFFICES ASSUME Init PROVE StreamInv
  OBVIOUS
<1>. USE DEF Init, SndInit, RcvInit, ObjInit, EmptyStore
<1>1. TypeOK
  <2>1. snd \in SndType
    BY DEF SndType, SndPcs, ReadErrs, Results
  <2>2. rcv \in RcvType
    BY DEF RcvType, RcvPcs, Results
  <2>3. DOMAIN data \subseteq Nat /\ \A k \in DOMAIN data : data[k] \in Chunk
    OBVIOUS
  <2>4. src \in Seq(Chunk) /\ dst \in Seq(Chunk)
    OBVIOUS
  <2>5. ack \in Nat /\ close \in {"none", "eof", "error", "limit"}
    OBVIOUS
  <2>6. sctx \in BOOLEAN /\ rctx \in BOOLEAN
    OBVIOUS
  <2>. QED BY <2>1, <2>2, <2>3, <2>4, <2>5, <2>6 DEF TypeOK
<1>2. SenderInv
  BY WindowAssumption DEF SenderInv, InWindow
<1>3. StoreInv
  BY DEF StoreInv
<1>4. ReceiverInv
  BY AckIntervalPositive DEF ReceiverInv
<1>. QED BY <1>1, <1>2, <1>3, <1>4 DEF StreamInv

(* Reading a chunk moves it to the sender's buffer and nowhere else.       *)
LEMMA SndReadDataInv ==
    ASSUME StreamInv, NEW c \in Chunk, NEW err \in {"nil", "eof", "error"},
           SndReadData(c, err)
    PROVE  StreamInv'
<1>. USE DEF StreamInv, SndType
<1>0. /\ snd.pc = "read" /\ snd.buf = NoChunk /\ Len(src) = snd.seq
      /\ src' = Append(src, c)
      /\ c # NoChunk
      /\ UNCHANGED <<rcv, data, ack, close, dst, sctx, rctx>>
  BY ChunkAssumption DEF SndReadData, SenderInv, rcvVars, objVars
<1>1. /\ snd' \in SndType
      /\ snd'.buf = c /\ snd'.seq = snd.seq /\ snd'.acked = snd.acked
      /\ snd'.res = snd.res
      /\ \/ snd'.pc = "close" /\ snd'.err = "limit"
         \/ snd'.pc = "put" /\ snd'.err = err /\ InWindow(snd.seq, snd.acked)
         \/ snd'.pc = "getack" /\ snd'.err = err /\ ~InWindow(snd.seq, snd.acked)
  BY DEF SndReadData, AfterRead, TypeOK, SndPcs, ReadErrs
<1>2. /\ src' \in Seq(Chunk) /\ Len(src') = Len(src) + 1 /\ src'[Len(src')] = c
      /\ \A i \in 1 .. Len(src) : src'[i] = src[i]
  BY <1>0 DEF TypeOK
<1>3. TypeOK'
  BY <1>0, <1>1, <1>2 DEF TypeOK
<1>4. SenderInv'
  BY <1>0, <1>1, <1>2 DEF SenderInv, TypeOK, InWindow
<1>5. StoreInv'
  BY <1>0, <1>1, <1>2 DEF StoreInv, SenderInv, TypeOK
<1>6. ReceiverInv'
  BY <1>0, <1>1, <1>2 DEF ReceiverInv, TypeOK
<1>. QED BY <1>3, <1>4, <1>5, <1>6

(* What SndReturn("error") does to the fields of snd.                      *)
LEMMA SndReturnFields ==
    ASSUME TypeOK, NEW res \in {"nil", "error"}, SndReturn(res)
    PROVE  /\ snd' \in SndType
           /\ snd'.pc = "done" /\ snd'.res = res /\ snd'.buf = snd.buf
           /\ snd'.err = snd.err /\ snd'.seq = snd.seq /\ snd'.acked = snd.acked
           /\ snd'.sent = snd.sent
BY DEF SndReturn, TypeOK, SndType, SndPcs, Results

(* A sender that returns with an error and has changed nothing else.       *)
LEMMA SndGivesUpInv ==
    ASSUME StreamInv, snd.pc # "done", SndReturn("error"),
           UNCHANGED <<rcv, data, ack, close, src, dst, sctx, rctx>>
    PROVE  StreamInv'
<1>. USE SndReturnFields DEF StreamInv, SndType
<1>1. TypeOK'
  BY DEF TypeOK
<1>2. SenderInv'
  BY DEF SenderInv
<1>3. StoreInv'
  BY DEF StoreInv, SenderInv
<1>4. ReceiverInv'
  BY DEF ReceiverInv
<1>. QED BY <1>1, <1>2, <1>3, <1>4

(* Reading the end of the socket leaves the sender before its putClose.    *)
LEMMA SndReadEndInv ==
    ASSUME StreamInv, NEW err \in {"eof", "error"}, SndReadEnd(err)
    PROVE  StreamInv'
<1>. USE DEF StreamInv, SndType
<1>0. snd.pc = "read" /\ UNCHANGED <<rcv, data, ack, close, src, dst, sctx, rctx>>
  BY DEF SndReadEnd, rcvVars, objVars
<1>1. /\ snd' \in SndType
      /\ snd'.pc = "close" /\ snd'.err = err /\ snd'.buf = snd.buf
      /\ snd'.seq = snd.seq /\ snd'.acked = snd.acked /\ snd'.res = snd.res
  BY DEF SndReadEnd, TypeOK, SndPcs, ReadErrs
<1>2. TypeOK'
  BY <1>0, <1>1 DEF TypeOK
<1>3. SenderInv'
  BY <1>0, <1>1 DEF SenderInv
<1>4. StoreInv'
  BY <1>0, <1>1 DEF StoreInv, SenderInv
<1>5. ReceiverInv'
  BY <1>0 DEF ReceiverInv
<1>. QED BY <1>2, <1>3, <1>4, <1>5

(* The two steps of the loop in waitWindow.                                *)
LEMMA SndWaitInv ==
    ASSUME StreamInv, SndGetAck \/ SndWake
    PROVE  StreamInv'
<1>. USE DEF StreamInv, SndType
<1>0. /\ snd.pc \in {"getack", "sleep"}
      /\ UNCHANGED <<rcv, data, ack, close, src, dst, sctx, rctx>>
  BY DEF SndGetAck, SndWake, rcvVars, objVars
<1>1. /\ snd' \in SndType
      /\ snd'.err = snd.err /\ snd'.buf = snd.buf
      /\ snd'.seq = snd.seq /\ snd'.res = snd.res
  BY DEF SndGetAck, SndWake, Max2, TypeOK, SndPcs
<1>2. snd.acked <= ack /\ snd.acked \in Nat /\ ack \in Nat
  BY DEF TypeOK, StoreInv
<1>3. /\ snd.acked <= snd'.acked /\ snd'.acked <= ack
      /\ \/ snd'.pc = "put" /\ InWindow(snd'.seq, snd'.acked)
         \/ snd'.pc \in {"getack", "sleep"} /\ ~InWindow(snd'.seq, snd'.acked)
  <2>1. CASE SndGetAck
    <3>. DEFINE a == Max2(snd.acked, ack)
    <3>1. snd' = [snd EXCEPT !.acked = a,
                             !.pc = IF InWindow(snd.seq, a) THEN "put" ELSE "sleep"]
      BY <2>1 DEF SndGetAck
    <3>2. snd'.acked = a /\ snd'.pc = IF InWindow(snd.seq, a) THEN "put" ELSE "sleep"
      BY <3>1 DEF TypeOK
    <3>3. snd.acked <= a /\ a <= ack
      BY <1>2 DEF Max2
    <3>. QED BY <1>1, <3>2, <3>3
  <2>2. CASE SndWake
    BY <1>2, <2>2 DEF SndWake, SenderInv, TypeOK
  <2>. QED BY <2>1, <2>2
<1>4. TypeOK'
  BY <1>0, <1>1 DEF TypeOK
<1>5. SenderInv'
  BY <1>0, <1>1, <1>2, <1>3, WindowAssumption DEF SenderInv, TypeOK
<1>6. StoreInv'
  <2>1. \A k \in DOMAIN data : k < snd'.acked + SendWindow
    BY <1>1, <1>3, WindowAssumption DEF StoreInv, TypeOK
  <2>. QED BY <1>0, <1>1, <1>3, <2>1 DEF StoreInv
<1>7. ReceiverInv'
  BY <1>0 DEF ReceiverInv
<1>. QED BY <1>4, <1>5, <1>6, <1>7

(* The PUT of the buffered chunk adds exactly the object the sender holds. *)
LEMMA SndPutData ==
    ASSUME StreamInv, snd.pc = "put", UNCHANGED src,
           data' = PutObject(data, snd.seq, snd.buf)
    PROVE  /\ DOMAIN data' = DOMAIN data \cup {snd.seq}
           /\ \A k \in DOMAIN data : data'[k] = data[k]
           /\ \A k \in DOMAIN data' :
                /\ k \in Nat /\ k <= snd.seq
                /\ data'[k] \in Chunk /\ data'[k] = src[k + 1]
<1>. USE DEF StreamInv, SndType
<1>1. /\ snd.buf \in Chunk /\ src[snd.seq + 1] = snd.buf /\ snd.seq \in Nat
      /\ \A k \in DOMAIN data : k \in Nat /\ k < snd.seq
  BY DEF SenderInv, StoreInv, TypeOK
<1>2. /\ DOMAIN data' = DOMAIN data \cup {snd.seq}
      /\ data'[snd.seq] = snd.buf
      /\ \A k \in DOMAIN data : k # snd.seq => data'[k] = data[k]
  BY DEF PutObject
<1>3. \A k \in DOMAIN data : data'[k] = data[k]
  BY <1>1, <1>2
<1>4. ASSUME NEW k \in DOMAIN data
      PROVE  data'[k] \in Chunk /\ data'[k] = src[k + 1]
  BY <1>3 DEF StoreInv, TypeOK
<1>5. ASSUME NEW k \in DOMAIN data'
      PROVE  /\ k \in Nat /\ k <= snd.seq
             /\ data'[k] \in Chunk /\ data'[k] = src[k + 1]
  BY <1>1, <1>2, <1>4
<1>. QED BY <1>2, <1>3, <1>5

(* The PUT that returns.                                                   *)
LEMMA SndPutInv ==
    ASSUME StreamInv, SndPut
    PROVE  StreamInv'
<1>. USE DEF StreamInv, SndType
<1>0. /\ snd.pc = "put" /\ snd.buf \in Chunk /\ Len(src) = snd.seq + 1
      /\ snd.seq < snd.acked + SendWindow
      /\ close = "none" /\ snd.err \in {"nil", "eof", "error"}
      /\ data' = PutObject(data, snd.seq, snd.buf)
      /\ UNCHANGED <<rcv, ack, close, src, dst, sctx, rctx>>
  BY DEF SndPut, SenderInv, StoreInv, TypeOK, InWindow, rcvVars, ReadErrs
<1>1. snd.sent + Bytes[snd.buf] \in Nat /\ snd.seq + 1 \in Nat
  BY <1>0, ChunkAssumption DEF TypeOK
<1>2. /\ snd' \in SndType
      /\ snd'.acked = snd.acked /\ snd'.err = snd.err /\ snd'.res = snd.res
      /\ snd'.buf = NoChunk /\ snd'.seq = snd.seq + 1
  <2>. DEFINE p == IF snd.err = "nil" THEN "read" ELSE "close"
              n == snd.sent + Bytes[snd.buf]
  <2>1. p \in SndPcs
    BY DEF SndPcs
  <2>2. snd' = [snd EXCEPT !.pc = p, !.seq = snd.seq + 1, !.sent = n, !.buf = NoChunk]
    BY DEF SndPut
  <2>3. n \in Nat
    BY <1>1
  <2>. HIDE DEF p, n
  <2>. QED BY <1>1, <2>1, <2>2, <2>3 DEF TypeOK
<1>3. snd'.pc = IF snd.err = "nil" THEN "read" ELSE "close"
  BY DEF SndPut, TypeOK
<1>4. TypeOK'
  BY <1>0, <1>2, SndPutData DEF TypeOK
<1>5. SenderInv'
  <2>1. CASE snd.err = "nil"
    BY <1>0, <1>2, <1>3, <2>1, WindowAssumption DEF SenderInv, TypeOK
  <2>2. CASE snd.err # "nil"
    BY <1>0, <1>2, <1>3, <2>2, WindowAssumption DEF SenderInv, TypeOK
  <2>. QED BY <2>1, <2>2
<1>6. StoreInv'
  <2>1. 0 .. snd'.seq - 1 \subseteq DOMAIN data'
    BY <1>0, <1>2, SndPutData DEF StoreInv, TypeOK
  <2>2. \A k \in DOMAIN data' : k < Len(src) /\ data'[k] = src[k + 1]
                               /\ k < snd.acked + SendWindow /\ k < snd'.seq
    BY <1>0, <1>2, SndPutData, WindowAssumption DEF TypeOK
  <2>3. snd.res = "none"
    BY <1>0 DEF SenderInv
  <2>. QED BY <1>0, <1>2, <2>1, <2>2, <2>3 DEF StoreInv
<1>7. ReceiverInv'
  <2>1. rcv.pc = "write" => rcv.seq \in DOMAIN data' /\ data'[rcv.seq] = data[rcv.seq]
    BY <1>0, SndPutData DEF ReceiverInv
  <2>. QED BY <1>0, <2>1 DEF ReceiverInv
<1>. QED BY <1>4, <1>5, <1>6, <1>7

(* The PUT that fails, having taken effect or not.                         *)
LEMMA SndPutFailsInv ==
    ASSUME StreamInv, NEW applied \in BOOLEAN, SndPutFails(applied)
    PROVE  StreamInv'
<1>. USE DEF StreamInv, SndType
<1>0. /\ snd.pc = "put" /\ SndReturn("error")
      /\ UNCHANGED <<rcv, ack, close, src, dst, sctx, rctx>>
      /\ data' = data \/ data' = PutObject(data, snd.seq, snd.buf)
  BY DEF SndPutFails, rcvVars
<1>1. CASE data' = data
  BY <1>0, <1>1, SndGivesUpInv
<1>2. CASE data' = PutObject(data, snd.seq, snd.buf)
  <2>0. /\ Len(src) = snd.seq + 1 /\ snd.seq < snd.acked + SendWindow
        /\ close = "none"
    BY <1>0 DEF SenderInv, StoreInv, InWindow
  <2>1. TypeOK'
    BY <1>0, <1>2, SndPutData, SndReturnFields DEF TypeOK
  <2>2. SenderInv'
    BY <1>0, SndReturnFields DEF SenderInv
  <2>3. StoreInv'
    <3>1. 0 .. snd'.seq - 1 \subseteq DOMAIN data'
      BY <1>0, <1>2, SndPutData, SndReturnFields DEF StoreInv
    <3>2. \A k \in DOMAIN data' : k < Len(src) /\ data'[k] = src[k + 1]
                                 /\ k < snd.acked + SendWindow
      BY <1>0, <1>2, <2>0, SndPutData, WindowAssumption DEF TypeOK
    <3>. QED BY <1>0, <2>0, <3>1, <3>2, SndReturnFields DEF StoreInv
  <2>4. ReceiverInv'
    <3>1. rcv.pc = "write" => rcv.seq \in DOMAIN data' /\ data'[rcv.seq] = data[rcv.seq]
      BY <1>0, <1>2, SndPutData DEF ReceiverInv
    <3>. QED BY <1>0, <3>1 DEF ReceiverInv
  <2>. QED BY <2>1, <2>2, <2>3, <2>4
<1>. QED BY <1>0, <1>1, <1>2

(* The close marker, whether its PUT returns or only takes effect.         *)
LEMMA SndCloseInv ==
    ASSUME StreamInv, SndClose \/ \E applied \in BOOLEAN : SndCloseFails(applied)
    PROVE  StreamInv'
<1>. USE DEF StreamInv, SndType
<1>0. /\ snd.pc = "close" /\ snd.err \in {"eof", "error", "limit"}
      /\ snd.err # "limit" => snd.buf = NoChunk
      /\ close = "none"
      /\ UNCHANGED <<rcv, data, ack, src, dst, sctx, rctx>>
  BY DEF SndClose, SndCloseFails, SenderInv, StoreInv, TypeOK, ReadErrs, rcvVars
<1>1. PICK res \in {"nil", "error"} :
         /\ SndReturn(res)
         /\ close' = close \/ close' = snd.err
         /\ res = "nil" => close' = "eof"
  BY DEF SndClose, SndCloseFails
<1>2. TypeOK'
  BY <1>0, <1>1, SndReturnFields DEF TypeOK
<1>3. SenderInv'
  BY <1>0, <1>1, SndReturnFields DEF SenderInv
<1>4. StoreInv'
  BY <1>0, <1>1, SndReturnFields DEF StoreInv
<1>5. ReceiverInv'
  BY <1>0, <1>1 DEF ReceiverInv
<1>. QED BY <1>2, <1>3, <1>4, <1>5

(* What RcvReturn does to the fields of rcv.                               *)
LEMMA RcvReturnFields ==
    ASSUME TypeOK, NEW res \in {"nil", "error"}, RcvReturn(res)
    PROVE  /\ rcv' \in RcvType
           /\ rcv'.pc = "done" /\ rcv'.res = res /\ rcv'.seq = rcv.seq
           /\ rcv'.lastAck = rcv.lastAck
BY DEF RcvReturn, TypeOK, RcvType, RcvPcs, Results

(* The receiver leaves the sender's half of the invariant alone.           *)
LEMMA RcvKeepsSender ==
    ASSUME StreamInv, UNCHANGED <<snd, src, data, close>>,
           ack' \in Nat, ack <= ack', ack' <= rcv'.seq
    PROVE  SenderInv' /\ StoreInv'
<1>1. SenderInv'
  BY DEF StreamInv, SenderInv
<1>2. StoreInv'
  BY DEF StreamInv, StoreInv, TypeOK, SndType
<1>. QED BY <1>1, <1>2

(* A receiver that returns and has changed nothing else; with no error     *)
(* only when it has seen a close marker.                                   *)
LEMMA RcvReturnInv ==
    ASSUME StreamInv, NEW res \in {"nil", "error"}, RcvReturn(res),
           rcv.pc # "done", res = "nil" => close # "none",
           UNCHANGED <<snd, data, ack, close, src, dst, sctx, rctx>>
    PROVE  StreamInv'
<1>. USE RcvReturnFields DEF StreamInv
<1>1. TypeOK'
  BY DEF TypeOK
<1>2. ReceiverInv'
  BY DEF ReceiverInv
<1>3. ack' \in Nat /\ ack <= ack' /\ ack' <= rcv'.seq
  BY DEF TypeOK, StoreInv
<1>4. SenderInv' /\ StoreInv'
  BY <1>3, RcvKeepsSender
<1>. QED BY <1>1, <1>2, <1>4

(* A miss, a look at the deadline, a sleep, or time passing: the receiver  *)
(* keeps its position.                                                     *)
LEMMA RcvPollInv ==
    ASSUME StreamInv, rcv.pc # "done", rcv' \in RcvType,
           rcv'.pc \in {"get", "head", "check", "sleep"} \/ rcv'.pc = rcv.pc,
           rcv.pc \in {"get", "write", "head", "check", "sleep"} \/ rcv'.pc = rcv.pc,
           rcv'.buf = rcv.buf, rcv'.seq = rcv.seq,
           rcv'.lastAck = rcv.lastAck, rcv'.res = rcv.res,
           UNCHANGED <<snd, data, ack, close, src, dst, sctx, rctx>>
    PROVE  StreamInv'
<1>. USE DEF StreamInv
<1>1. TypeOK'
  BY DEF TypeOK
<1>2. ReceiverInv'
  BY DEF ReceiverInv
<1>3. ack' \in Nat /\ ack <= ack' /\ ack' <= rcv'.seq
  BY DEF TypeOK, StoreInv
<1>4. SenderInv' /\ StoreInv'
  BY <1>3, RcvKeepsSender
<1>. QED BY <1>1, <1>2, <1>4

(* Fetching the next data object.                                          *)
LEMMA RcvGetHitInv ==
    ASSUME StreamInv, RcvGetHit
    PROVE  StreamInv'
<1>. USE DEF StreamInv
<1>0. /\ rcv.pc = "get" /\ rcv.seq \in DOMAIN data
      /\ UNCHANGED <<snd, data, ack, close, src, dst, sctx, rctx>>
  BY DEF RcvGetHit, HasObject, sndVars, objVars
<1>1. /\ rcv' \in RcvType
      /\ rcv'.pc = "write" /\ rcv'.buf = data[rcv.seq] /\ rcv'.seq = rcv.seq
      /\ rcv'.lastAck = rcv.lastAck /\ rcv'.res = rcv.res
  BY <1>0 DEF RcvGetHit, TypeOK, RcvType, RcvPcs
<1>2. TypeOK'
  BY <1>0, <1>1 DEF TypeOK
<1>3. ReceiverInv'
  BY <1>0, <1>1 DEF ReceiverInv
<1>4. ack' \in Nat /\ ack <= ack' /\ ack' <= rcv'.seq
  BY <1>0, <1>1 DEF TypeOK, StoreInv
<1>5. SenderInv' /\ StoreInv'
  BY <1>0, <1>4, RcvKeepsSender
<1>. QED BY <1>2, <1>3, <1>5

(* The chunk about to be written is the next one of the source.            *)
LEMMA RcvWriteExtends ==
    ASSUME StreamInv, rcv.pc = "write", dst' = Append(dst, rcv.buf), UNCHANGED src
    PROVE  /\ dst' \in Seq(Chunk)
           /\ Len(dst') = rcv.seq + 1
           /\ Len(dst') <= Len(src)
           /\ \A i \in 1 .. Len(dst') : dst'[i] = src[i]
           /\ rcv.buf \in Chunk
<1>. USE DEF StreamInv
<1>1. /\ rcv.seq \in Nat /\ rcv.seq < Len(src) /\ Len(dst) = rcv.seq
      /\ rcv.buf = src[rcv.seq + 1] /\ rcv.buf \in Chunk
  BY DEF TypeOK, RcvType, StoreInv, ReceiverInv
<1>2. /\ dst' \in Seq(Chunk) /\ Len(dst') = Len(dst) + 1
      /\ dst'[Len(dst) + 1] = rcv.buf
      /\ \A i \in 1 .. Len(dst) : dst'[i] = dst[i]
  BY <1>1 DEF TypeOK
<1>3. \A i \in 1 .. Len(dst) : dst[i] = src[i]
  BY DEF ReceiverInv
<1>4. Len(dst) \in Nat /\ Len(src) \in Nat
  BY DEF TypeOK
<1>5. ASSUME NEW i \in 1 .. Len(dst') PROVE dst'[i] = src[i]
  BY <1>1, <1>2, <1>3, <1>4
<1>. QED BY <1>1, <1>2, <1>4, <1>5

(* A successful write to the socket.                                       *)
LEMMA RcvWriteInv ==
    ASSUME StreamInv, RcvWrite
    PROVE  StreamInv'
<1>. USE DEF StreamInv
<1>0. /\ rcv.pc = "write" /\ dst' = Append(dst, rcv.buf)
      /\ UNCHANGED <<snd, data, ack, close, src, sctx, rctx>>
  BY DEF RcvWrite, sndVars, objVars
<1>1. rcv.received + Bytes[rcv.buf] \in Nat /\ rcv.seq + 1 \in Nat
  BY <1>0, RcvWriteExtends, ChunkAssumption DEF TypeOK, RcvType
<1>2. /\ rcv' \in RcvType
      /\ rcv'.seq = rcv.seq + 1 /\ rcv'.lastAck = rcv.lastAck /\ rcv'.res = rcv.res
      /\ rcv'.pc = IF rcv.seq + 1 - rcv.lastAck >= ackInterval(RecvWindow)
                   THEN "putack" ELSE "get"
  <2>. DEFINE p == IF rcv.seq + 1 - rcv.lastAck >= ackInterval(RecvWindow)
                   THEN "putack" ELSE "get"
              n == rcv.received + Bytes[rcv.buf]
  <2>1. p \in RcvPcs
    BY DEF RcvPcs
  <2>2. rcv' = [rcv EXCEPT !.pc = p, !.seq = rcv.seq + 1, !.received = n,
                           !.buf = NoChunk, !.misses = 0, !.expired = FALSE]
    BY DEF RcvWrite
  <2>3. n \in Nat
    BY <1>1
  <2>4. /\ rcv'.seq = rcv.seq + 1 /\ rcv'.lastAck = rcv.lastAck
        /\ rcv'.res = rcv.res /\ rcv'.pc = p
    BY <2>2 DEF TypeOK, RcvType
  <2>5. rcv' \in RcvType
    <3>. HIDE DEF p, n
    <3>. QED BY <1>1, <2>1, <2>2, <2>3 DEF TypeOK, RcvType
  <2>. QED BY <2>4, <2>5
<1>3. TypeOK'
  BY <1>0, <1>2, RcvWriteExtends DEF TypeOK
<1>4. ReceiverInv'
  <2>1. /\ rcv'.seq = Len(dst') /\ Len(dst') <= Len(src')
        /\ \A i \in 1 .. Len(dst') : dst'[i] = src'[i]
    BY <1>0, <1>2, RcvWriteExtends
  <2>2. rcv'.pc \in {"putack", "get"}
    BY <1>2
  <2>3. rcv'.pc = "get" => rcv'.seq - rcv'.lastAck < ackInterval(RecvWindow)
    <3>1. rcv.seq \in Nat /\ rcv.lastAck \in Nat /\ ackInterval(RecvWindow) \in Nat
      BY AckIntervalPositive DEF TypeOK, RcvType
    <3>2. rcv'.pc = "get" => ~(rcv.seq + 1 - rcv.lastAck >= ackInterval(RecvWindow))
      BY <1>2
    <3>. QED BY <1>2, <3>1, <3>2
  <2>4. rcv'.seq \in Nat /\ rcv.res = "none" /\ ack = rcv.lastAck
    BY <1>0, <1>2 DEF RcvType, ReceiverInv
  <2>. QED BY <1>0, <1>2, <2>1, <2>2, <2>3, <2>4 DEF ReceiverInv
<1>5. ack' \in Nat /\ ack <= ack' /\ ack' <= rcv'.seq
  BY <1>0, <1>2 DEF TypeOK, RcvType, StoreInv
<1>6. SenderInv' /\ StoreInv'
  BY <1>0, <1>5, RcvKeepsSender
<1>. QED BY <1>3, <1>4, <1>6

(* A failed write to the socket, which may have delivered the chunk.       *)
LEMMA RcvWriteFailsInv ==
    ASSUME StreamInv, NEW applied \in BOOLEAN, RcvWriteFails(applied)
    PROVE  StreamInv'
<1>. USE DEF StreamInv
<1>0. /\ rcv.pc = "write" /\ RcvReturn("error")
      /\ dst' = dst \/ dst' = Append(dst, rcv.buf)
      /\ UNCHANGED <<snd, data, ack, close, src, sctx, rctx>>
  BY DEF RcvWriteFails, sndVars, objVars
<1>1. CASE dst' = dst
  BY <1>0, <1>1, RcvReturnInv
<1>2. CASE dst' = Append(dst, rcv.buf)
  <2>1. TypeOK'
    BY <1>0, <1>2, RcvReturnFields, RcvWriteExtends DEF TypeOK
  <2>2. ReceiverInv'
    <3>1. rcv'.seq + 1 = Len(dst') /\ rcv'.seq \in Nat
      BY <1>0, <1>2, RcvReturnFields, RcvWriteExtends DEF TypeOK, RcvType
    <3>. QED BY <1>0, <1>2, <3>1, RcvReturnFields, RcvWriteExtends DEF ReceiverInv
  <2>3. ack' \in Nat /\ ack <= ack' /\ ack' <= rcv'.seq
    BY <1>0, RcvReturnFields DEF TypeOK, StoreInv
  <2>4. SenderInv' /\ StoreInv'
    BY <1>0, <2>3, RcvKeepsSender
  <2>. QED BY <2>1, <2>2, <2>4
<1>. QED BY <1>0, <1>1, <1>2

(* The ACK is written.                                                     *)
LEMMA RcvPutAckInv ==
    ASSUME StreamInv, RcvPutAck
    PROVE  StreamInv'
<1>. USE DEF StreamInv
<1>0. /\ rcv.pc = "putack" /\ ack' = rcv.seq
      /\ UNCHANGED <<snd, data, close, src, dst, sctx, rctx>>
  BY DEF RcvPutAck, sndVars
<1>1. /\ rcv' \in RcvType
      /\ rcv'.pc = "get" /\ rcv'.seq = rcv.seq /\ rcv'.lastAck = rcv.seq
      /\ rcv'.res = rcv.res
  BY <1>0 DEF RcvPutAck, TypeOK, RcvType, RcvPcs
<1>2. rcv.seq \in Nat /\ rcv.seq - rcv.seq = 0
  BY DEF TypeOK, RcvType
<1>3. TypeOK'
  BY <1>0, <1>1, <1>2 DEF TypeOK
<1>4. ReceiverInv'
  BY <1>0, <1>1, <1>2, AckIntervalPositive DEF ReceiverInv
<1>5. ack' \in Nat /\ ack <= ack' /\ ack' <= rcv'.seq
  BY <1>0, <1>1, <1>2 DEF TypeOK, StoreInv
<1>6. SenderInv' /\ StoreInv'
  BY <1>0, <1>5, RcvKeepsSender
<1>. QED BY <1>3, <1>4, <1>6

(* The write of the ACK fails, having taken effect or not.                 *)
LEMMA RcvPutAckFailsInv ==
    ASSUME StreamInv, NEW applied \in BOOLEAN, RcvPutAckFails(applied)
    PROVE  StreamInv'
<1>. USE DEF StreamInv
<1>0. /\ rcv.pc = "putack" /\ RcvReturn("error")
      /\ ack' = ack \/ ack' = rcv.seq
      /\ UNCHANGED <<snd, data, close, src, dst, sctx, rctx>>
  BY DEF RcvPutAckFails, sndVars
<1>1. ack' \in Nat /\ ack <= ack' /\ ack' <= rcv'.seq
  BY <1>0, RcvReturnFields DEF TypeOK, RcvType, StoreInv
<1>2. TypeOK'
  BY <1>0, <1>1, RcvReturnFields DEF TypeOK
<1>3. ReceiverInv'
  BY <1>0, RcvReturnFields DEF ReceiverInv
<1>4. SenderInv' /\ StoreInv'
  BY <1>0, <1>1, RcvKeepsSender
<1>. QED BY <1>2, <1>3, <1>4

(* Every step of either goroutine, of time and of cancellation preserves   *)
(* the invariant.                                                          *)
LEMMA NextStreamInv == StreamInv /\ [Next]_vars => StreamInv'
<1>. SUFFICES ASSUME StreamInv, [Next]_vars PROVE StreamInv'
  OBVIOUS
<1>1. CASE SndRead
  BY <1>1, SndReadDataInv, SndReadEndInv DEF SndRead
<1>2. CASE SndGetAck \/ SndWake
  BY <1>2, SndWaitInv
<1>3. CASE SndGetAckFails \/ SndSleepCancelled
  BY <1>3, SndGivesUpInv DEF SndGetAckFails, SndSleepCancelled, rcvVars, objVars
<1>4. CASE SndPut \/ \E applied \in BOOLEAN : SndPutFails(applied)
  BY <1>4, SndPutInv, SndPutFailsInv
<1>5. CASE SndClose \/ \E applied \in BOOLEAN : SndCloseFails(applied)
  BY <1>5, SndCloseInv
<1>6. CASE RcvGetHit
  BY <1>6, RcvGetHitInv
<1>7. CASE RcvOverLimit \/ RcvGetFails \/ RcvHeadFails \/ RcvSleepCancelled
  BY <1>7, RcvReturnInv
     DEF RcvOverLimit, RcvGetFails, RcvHeadFails, RcvSleepCancelled, sndVars, objVars
<1>8. CASE RcvGetMiss
  <2>1. /\ rcv.pc = "get"
        /\ UNCHANGED <<snd, data, ack, close, src, dst, sctx, rctx>>
    BY <1>8 DEF RcvGetMiss, sndVars, objVars
  <2>2. /\ rcv' \in RcvType /\ rcv'.pc \in {"head", "check"}
        /\ rcv'.buf = rcv.buf /\ rcv'.seq = rcv.seq
        /\ rcv'.lastAck = rcv.lastAck /\ rcv'.res = rcv.res
    <3>1. rcv.misses + 1 \in Nat
      BY DEF StreamInv, TypeOK, RcvType
    <3>2. CASE rcv' = [rcv EXCEPT !.pc = "head", !.misses = 0]
      BY <3>2 DEF StreamInv, TypeOK, RcvType, RcvPcs
    <3>3. CASE rcv' = [rcv EXCEPT !.pc = "check", !.misses = rcv.misses + 1]
      BY <3>1, <3>3 DEF StreamInv, TypeOK, RcvType, RcvPcs
    <3>. QED BY <1>8, <3>2, <3>3 DEF RcvGetMiss
  <2>. QED BY <2>1, <2>2, RcvPollInv
<1>9. CASE RcvHead
  <2>1. /\ rcv.pc = "head"
        /\ UNCHANGED <<snd, data, ack, close, src, dst, sctx, rctx>>
    BY <1>9 DEF RcvHead, sndVars, objVars
  <2>2. CASE close # "none"
    BY <1>9, <2>1, <2>2, RcvReturnInv DEF RcvHead
  <2>3. CASE close = "none"
    <3>1. rcv' = [rcv EXCEPT !.pc = "check"]
      BY <1>9, <2>3 DEF RcvHead
    <3>2. /\ rcv' \in RcvType /\ rcv'.pc = "check"
          /\ rcv'.buf = rcv.buf /\ rcv'.seq = rcv.seq
          /\ rcv'.lastAck = rcv.lastAck /\ rcv'.res = rcv.res
      BY <3>1 DEF StreamInv, TypeOK, RcvType, RcvPcs
    <3>. QED BY <2>1, <3>2, RcvPollInv
  <2>. QED BY <2>2, <2>3
<1>10. CASE RcvCheck
  <2>1. /\ rcv.pc = "check"
        /\ UNCHANGED <<snd, data, ack, close, src, dst, sctx, rctx>>
    BY <1>10 DEF RcvCheck, sndVars, objVars
  <2>2. CASE rcv.expired
    BY <1>10, <2>1, <2>2, RcvReturnInv DEF RcvCheck
  <2>3. CASE ~rcv.expired
    <3>1. rcv' = [rcv EXCEPT !.pc = "sleep"]
      BY <1>10, <2>3 DEF RcvCheck
    <3>2. /\ rcv' \in RcvType /\ rcv'.pc = "sleep"
          /\ rcv'.buf = rcv.buf /\ rcv'.seq = rcv.seq
          /\ rcv'.lastAck = rcv.lastAck /\ rcv'.res = rcv.res
      BY <3>1 DEF StreamInv, TypeOK, RcvType, RcvPcs
    <3>. QED BY <2>1, <3>2, RcvPollInv
  <2>. QED BY <2>2, <2>3
<1>11. CASE RcvWake \/ Expire
  <2>1. /\ rcv.pc # "done"
        /\ UNCHANGED <<snd, data, ack, close, src, dst, sctx, rctx>>
    BY <1>11 DEF RcvWake, Expire, sndVars, objVars
  <2>2. /\ rcv' \in RcvType
        /\ (rcv.pc = "sleep" /\ rcv'.pc = "get") \/ rcv'.pc = rcv.pc
        /\ rcv'.buf = rcv.buf /\ rcv'.seq = rcv.seq
        /\ rcv'.lastAck = rcv.lastAck /\ rcv'.res = rcv.res
    BY <1>11 DEF RcvWake, Expire, StreamInv, TypeOK, RcvType, RcvPcs
  <2>. QED BY <2>1, <2>2, RcvPollInv
<1>12. CASE RcvSocket
  BY <1>12, RcvWriteInv, RcvWriteFailsInv DEF RcvSocket
<1>13. CASE RcvPutAck \/ \E applied \in BOOLEAN : RcvPutAckFails(applied)
  BY <1>13, RcvPutAckInv, RcvPutAckFailsInv
<1>14. CASE CancelSender \/ CancelReceiver
  <2>1. UNCHANGED <<snd, rcv, data, ack, close, src, dst>>
    BY <1>14 DEF CancelSender, CancelReceiver, sndVars, rcvVars, objVars
  <2>2. sctx' \in BOOLEAN /\ rctx' \in BOOLEAN
    BY <1>14 DEF CancelSender, CancelReceiver, StreamInv, TypeOK
  <2>3. TypeOK'
    BY <2>1, <2>2 DEF StreamInv, TypeOK
  <2>4. SenderInv' /\ StoreInv' /\ ReceiverInv'
    BY <2>1 DEF StreamInv, SenderInv, StoreInv, ReceiverInv
  <2>. QED BY <2>3, <2>4 DEF StreamInv
<1>15. CASE UNCHANGED vars
  BY <1>15 DEF vars, StreamInv, TypeOK, SenderInv, StoreInv, ReceiverInv
<1>. QED
  BY <1>1, <1>2, <1>3, <1>4, <1>5, <1>6, <1>7, <1>8, <1>9, <1>10, <1>11, <1>12,
     <1>13, <1>14, <1>15
     DEF Next, Sender, Receiver, SndStep, RcvStep, Finished
-----------------------------------------------------------------------------
(* The inductive invariant holds in every reachable state: the sender's    *)
(* and the receiver's bookkeeping agree with the bucket and with what both *)
(* sockets saw, whatever fails and whoever is cancelled.                   *)
THEOREM StreamInvariant == Spec => []StreamInv
BY InitStreamInv, NextStreamInv, PTL DEF Spec

(* Type correctness of streamToStore, streamFromStore and their objects.   *)
THEOREM TypeCorrect == Spec => []TypeOK
<1>1. StreamInv => TypeOK
  BY DEF StreamInv
<1>. QED BY <1>1, StreamInvariant, PTL

(* The receiver's socket always has a prefix of what the sender's gave.    *)
THEOREM InOrder == Spec => []DeliveredInOrder
<1>1. StreamInv => DeliveredInOrder
  BY DEF StreamInv, ReceiverInv, DeliveredInOrder
<1>. QED BY <1>1, StreamInvariant, PTL

(* The window bounds the undelivered objects in the bucket although the    *)
(* sender works from a stale ACK.                                          *)
THEOREM WindowRespected == Spec => []WindowBound
<1>1. StreamInv => WindowBound
  BY WindowAssumption DEF StreamInv, StoreInv, TypeOK, SndType, RcvType, WindowBound
<1>. QED BY <1>1, StreamInvariant, PTL

(* ACKs never cover what was not written, and the sender never believes    *)
(* more than was acknowledged.                                             *)
THEOREM AcksAreSound == Spec => []AckSound
<1>1. StreamInv => AckSound
  BY DEF StreamInv, StoreInv, ReceiverInv, TypeOK, SndType, RcvType, AckSound
<1>. QED BY <1>1, StreamInvariant, PTL

(* A clean close marker is never ahead of the data it closes.              *)
THEOREM MarkerAfterData == Spec => []CloseAfterData
<1>1. ASSUME StreamInv, close = "eof" \/ snd.res = "nil"
      PROVE  close = "eof" /\ DOMAIN data = 0 .. Len(src) - 1
  <2>1. close = "eof" /\ snd.buf = NoChunk /\ Len(src) = snd.seq
    BY <1>1 DEF StreamInv, StoreInv, SenderInv
  <2>2. 0 .. Len(src) - 1 \subseteq DOMAIN data
    BY <2>1, <1>1 DEF StreamInv, StoreInv
  <2>3. DOMAIN data \subseteq 0 .. Len(src) - 1
    BY <1>1, <2>1 DEF StreamInv, StoreInv, TypeOK, SndType
  <2>. QED BY <2>1, <2>2, <2>3
<1>2. StreamInv => CloseAfterData
  BY <1>1 DEF CloseAfterData
<1>. QED BY <1>2, StreamInvariant, PTL

(* If the receiver acknowledges at least once per send window, the two     *)
(* sides never wait for each other.                                        *)
THEOREM WindowNeverDeadlocks == Spec => []NoWindowDeadlock
<1>1. ASSUME StreamInv, ackInterval(RecvWindow) <= SendWindow,
             snd.pc \in {"getack", "sleep"},
             rcv.pc \in {"get", "head", "check", "sleep"},
             ~InWindow(snd.seq, ack)
      PROVE  HasObject(data, rcv.seq)
  <2>1. /\ snd.seq \in Nat /\ rcv.seq \in Nat /\ ack \in Nat
        /\ ack + SendWindow <= snd.seq
        /\ rcv.seq - ack < ackInterval(RecvWindow)
    BY <1>1, WindowAssumption
       DEF StreamInv, TypeOK, SndType, RcvType, InWindow, ReceiverInv
  <2>2. rcv.seq < snd.seq
    BY <1>1, <2>1, AckIntervalPositive, WindowAssumption
  <2>. QED BY <1>1, <2>1, <2>2 DEF StreamInv, StoreInv, HasObject
<1>2. StreamInv => NoWindowDeadlock
  BY <1>1 DEF NoWindowDeadlock
<1>. QED BY <1>2, StreamInvariant, PTL
-----------------------------------------------------------------------------
(* Only a PUT of the sender touches the data objects, and it adds the one  *)
(* it is about to count; only the receiver touches the ACK.                *)
LEMMA StepOnObjects ==
    ASSUME StreamInv, [Next]_vars
    PROVE  /\ data' = data \/ (/\ snd.pc = "put" /\ UNCHANGED src
                               /\ data' = PutObject(data, snd.seq, snd.buf))
           /\ ack' = ack \/ ack' = rcv.seq
<1>1. CASE SndRead
  BY <1>1 DEF SndRead, SndReadData, SndReadEnd, objVars
<1>2. CASE SndStep
  BY <1>2 DEF SndStep, SndGetAck, SndGetAckFails, SndWake, SndSleepCancelled,
              SndPut, SndPutFails, SndClose, SndCloseFails, objVars
<1>3. CASE Receiver
  BY <1>3 DEF Receiver, RcvStep, RcvSocket, RcvGetHit, RcvOverLimit, RcvGetMiss,
              RcvGetFails, RcvPutAck, RcvPutAckFails, RcvHead, RcvHeadFails,
              RcvCheck, RcvWake, RcvSleepCancelled, RcvWrite, RcvWriteFails, objVars
<1>4. CASE Expire \/ CancelSender \/ CancelReceiver \/ UNCHANGED vars
  BY <1>4 DEF Expire, CancelSender, CancelReceiver, objVars, vars
<1>. QED BY <1>1, <1>2, <1>3, <1>4 DEF Next, Sender, Finished

(* No step changes or removes a data object that is in the bucket or moves *)
(* an ACK object back.                                                     *)
THEOREM BucketMovesForward == Spec => ObjectsMoveForward
<1>1. ASSUME StreamInv, [Next]_vars
      PROVE  [\A k \in DOMAIN data : k \in DOMAIN data' /\ data'[k] = data[k]]_vars
  BY <1>1, StepOnObjects, SndPutData
<1>2. ASSUME StreamInv, [Next]_vars PROVE [ack' >= ack]_vars
  BY <1>2, StepOnObjects DEF StreamInv, StoreInv, TypeOK, RcvType
<1>3. ASSUME StreamInv, [Next]_vars
      PROVE  [/\ \A k \in DOMAIN data : k \in DOMAIN data' /\ data'[k] = data[k]
              /\ ack' >= ack]_vars
  BY <1>1, <1>2, <1>3
<1>. QED BY <1>3, StreamInvariant, PTL DEF Spec, ObjectsMoveForward
-----------------------------------------------------------------------------
(* The receiver reports a clean end only in the step that sees the marker. *)
LEMMA ReturnKeepsEof ==
    ASSUME StreamInv, rcv.pc # "done", RcvReturn("error")
    PROVE  rcv.res # "nil" /\ rcv'.res # "nil"
BY RcvReturnFields DEF StreamInv, ReceiverInv

(* Every step of the stream is a step of the pipe or leaves it as it is.   *)
LEMMA StepIsPipeStep ==
    ASSUME StreamInv, [Next]_vars
    PROVE  [P!PipeNext]_(P!pipeVars)
<1>. DEFINE same == UNCHANGED <<src, dst, close>> /\ (rcv'.res = "nil" <=> rcv.res = "nil")
<1>0. same => UNCHANGED P!pipeVars
  BY DEF P!pipeVars
<1>1. ASSUME NEW c \in Chunk, NEW err \in {"nil", "eof", "error"}, SndReadData(c, err)
      PROVE  P!Accept(c)
  <2>1. /\ snd.pc = "read" /\ src' = Append(src, c)
        /\ UNCHANGED <<rcv, dst, close>>
    BY <1>1 DEF SndReadData, rcvVars, objVars
  <2>2. close = "none" /\ Len(src) = snd.seq
    BY <2>1 DEF StreamInv, SenderInv, StoreInv
  <2>3. Len(src) - Len(dst) < SendWindow + 1
    BY <2>2, WindowAssumption
       DEF StreamInv, TypeOK, SndType, RcvType, SenderInv, StoreInv, ReceiverInv
  <2>. QED BY <2>1, <2>2, <2>3 DEF P!Accept
<1>2. ASSUME NEW err \in {"eof", "error"}, SndReadEnd(err)
      PROVE  same
  BY <1>2 DEF SndReadEnd, rcvVars, objVars
<1>3. CASE SndGetAck \/ SndGetAckFails \/ SndWake \/ SndSleepCancelled
           \/ SndPut \/ \E applied \in BOOLEAN : SndPutFails(applied)
  BY <1>0, <1>3 DEF SndGetAck, SndGetAckFails, SndWake, SndSleepCancelled, SndPut,
              SndPutFails, rcvVars, objVars
<1>4. CASE SndClose \/ \E applied \in BOOLEAN : SndCloseFails(applied)
  <2>1. /\ snd.pc = "close"
        /\ close' = close \/ close' = snd.err
        /\ UNCHANGED <<rcv, src, dst>>
    BY <1>4 DEF SndClose, SndCloseFails, rcvVars
  <2>2. close = "none" /\ snd.err # "none"
    <3>1. close = "none"
      BY <2>1 DEF StreamInv, StoreInv
    <3>2. snd.err \in ReadErrs
      BY DEF StreamInv, TypeOK, SndType
    <3>. QED BY <3>1, <3>2 DEF ReadErrs
  <2>. QED BY <1>0, <2>1, <2>2 DEF P!PipeNext, P!CloseEnd
<1>5. CASE RcvGetHit \/ RcvGetMiss \/ RcvWake \/ RcvPutAck \/ Expire
  <2>1. UNCHANGED <<src, dst, close>>
    BY <1>5 DEF RcvGetHit, RcvGetMiss, RcvWake, RcvPutAck, Expire, sndVars, objVars
  <2>2. rcv'.res = rcv.res
    BY <1>5 DEF RcvGetHit, RcvGetMiss, RcvWake, RcvPutAck, Expire, StreamInv, TypeOK, RcvType
  <2>. QED BY <1>0, <2>1, <2>2
<1>6. CASE RcvOverLimit \/ RcvGetFails \/ RcvHeadFails \/ RcvSleepCancelled
           \/ \E applied \in BOOLEAN : RcvPutAckFails(applied)
  <2>1. rcv.pc # "done" /\ RcvReturn("error") /\ UNCHANGED <<src, dst, close>>
    BY <1>6 DEF RcvOverLimit, RcvGetFails, RcvHeadFails, RcvSleepCancelled,
                RcvPutAckFails, sndVars, objVars
  <2>. QED BY <1>0, <2>1, ReturnKeepsEof
<1>7. CASE RcvCheck
  <2>1. /\ rcv.pc = "check" /\ UNCHANGED <<src, dst, close>>
        /\ RcvReturn("error") \/ rcv' = [rcv EXCEPT !.pc = "sleep"]
    BY <1>7 DEF RcvCheck, sndVars, objVars
  <2>2. rcv' = [rcv EXCEPT !.pc = "sleep"] => rcv'.res = rcv.res
    BY DEF StreamInv, TypeOK, RcvType
  <2>. QED BY <1>0, <2>1, <2>2, ReturnKeepsEof
<1>8. CASE RcvHead
  <2>1. rcv.pc = "head" /\ rcv.res = "none" /\ UNCHANGED <<src, dst, close>>
    BY <1>8 DEF RcvHead, sndVars, objVars, StreamInv, ReceiverInv
  <2>2. CASE close = "none"
    <3>1. rcv' = [rcv EXCEPT !.pc = "check"]
      BY <1>8, <2>2 DEF RcvHead
    <3>2. rcv'.res = rcv.res
      BY <3>1 DEF StreamInv, TypeOK, RcvType
    <3>. QED BY <1>0, <2>1, <3>2
  <2>3. CASE close # "none"
    <3>1. RcvReturn("nil")
      BY <1>8, <2>3 DEF RcvHead
    <3>2. rcv'.res = "nil"
      BY <3>1, RcvReturnFields DEF StreamInv
    <3>. QED BY <2>1, <2>3, <3>2 DEF P!PipeNext, P!ReportEof
  <2>. QED BY <2>2, <2>3
<1>9. CASE RcvSocket
  <2>1. /\ rcv.pc = "write" /\ UNCHANGED <<src, close>>
        /\ dst' = dst \/ dst' = Append(dst, rcv.buf)
        /\ rcv.res # "nil"
    BY <1>9 DEF RcvSocket, RcvWrite, RcvWriteFails, sndVars, objVars, StreamInv, ReceiverInv
  <2>2. rcv'.res # "nil"
    <3>1. CASE RcvWrite
      BY <2>1, <3>1 DEF RcvWrite, StreamInv, TypeOK, RcvType
    <3>2. CASE \E applied \in BOOLEAN : RcvWriteFails(applied)
      BY <2>1, <3>2, ReturnKeepsEof DEF RcvWriteFails
    <3>. QED BY <1>9, <3>1, <3>2 DEF RcvSocket
  <2>3. CASE dst' = dst
    BY <1>0, <2>1, <2>2, <2>3
  <2>4. CASE dst' = Append(dst, rcv.buf)
    <3>1. /\ Len(dst) < Len(src) /\ rcv.buf = src[Len(dst) + 1]
      BY <2>1 DEF StreamInv, StoreInv, ReceiverInv, TypeOK, RcvType
    <3>. QED BY <2>1, <2>2, <2>4, <3>1 DEF P!PipeNext, P!Deliver
  <2>. QED BY <2>1, <2>3, <2>4
<1>10. CASE CancelSender \/ CancelReceiver \/ UNCHANGED vars
  BY <1>0, <1>10 DEF CancelSender, CancelReceiver, vars, sndVars, rcvVars, objVars
<1>. QED
  BY <1>0, <1>1, <1>2, <1>3, <1>4, <1>5, <1>6, <1>7, <1>8, <1>9, <1>10
     DEF Next, Sender, Receiver, SndRead, SndStep, RcvStep, Finished, P!PipeNext

(* One direction of the tunnel implements the bounded pipe, for every      *)
(* window and whatever fails.                                              *)
THEOREM StreamImplementsPipe == Spec => ImplementsPipe
<1>1. Init => P!PipeInit
  BY DEF Init, RcvInit, ObjInit, P!PipeInit
<1>. QED BY <1>1, StepIsPipeStep, StreamInvariant, PTL
           DEF Spec, ImplementsPipe, P!PipeSpec
-----------------------------------------------------------------------------
(* Totals of bytes.  Induction over a sequence takes the form of a least   *)
(* counterexample, a set of indices that the provers can instantiate.      *)

(* Every nonempty set of naturals has a least element: the form in which   *)
(* the proofs below do induction.                                          *)
LEMMA LeastNatural ==
    ASSUME NEW S \in SUBSET Nat, S # {}
    PROVE  \E k \in S : \A j \in S : k <= j
<1>. DEFINE Less == OpToRel(<, Nat)
<1>1. \A i, j \in Nat : i < j => <<i, j>> \in Less
  BY DEF OpToRel
<1>2. IsWellFoundedOn(Less, Nat)
  BY NatLessThanWellFounded
<1>. HIDE DEF Less
<1>3. PICK k \in S : \A j \in S : ~(<<j, k>> \in Less)
  BY <1>2, WFMin
<1>4. \A j \in S : ~(j < k)
  BY <1>1, <1>3
<1>. QED BY <1>4

(* g holds the totals of the first 0, 1, ..., n chunks of s.               *)
IsTotals(g, s, n) ==
    g = [i \in 0 .. n |-> IF i = 0 THEN 0 ELSE g[i - 1] + Bytes[s[i]]]

(* The totals of n chunks exist, and are numbers.                          *)
LEMMA TotalsExist ==
    ASSUME NEW s, NEW n \in Nat, \A i \in 1 .. n : s[i] \in Chunk
    PROVE  \E g \in [0 .. n -> Nat] : IsTotals(g, s, n)
<1>. DEFINE missing == {m \in 0 .. n : ~ \E g \in [0 .. m -> Nat] : IsTotals(g, s, m)}
<1>0. missing \in SUBSET Nat /\ (n \in missing \/ \E g \in [0 .. n -> Nat] : IsTotals(g, s, n))
  OBVIOUS
<1>. SUFFICES ASSUME missing # {} PROVE FALSE
  BY <1>0
<1>1. PICK m \in missing : \A j \in missing : m <= j
  <2>. HIDE DEF missing
  <2>. QED BY <1>0, LeastNatural
<1>2. CASE m = 0
  <2>. DEFINE g == [i \in 0 .. 0 |-> 0]
  <2>1. g \in [0 .. 0 -> Nat] /\ IsTotals(g, s, 0)
    BY DEF IsTotals
  <2>. QED BY <1>2, <2>1
<1>3. CASE m # 0
  <2>1. m \in 1 .. n /\ m - 1 \in 0 .. n /\ m - 1 \notin missing
    BY <1>1, <1>3
  <2>2. PICK h \in [0 .. m - 1 -> Nat] : IsTotals(h, s, m - 1)
    BY <2>1
  <2>. DEFINE b == Bytes[s[m]]
              g == [i \in 0 .. m |-> IF i < m THEN h[i] ELSE h[m - 1] + b]
  <2>3. b \in Nat
    BY <2>1, ChunkAssumption
  <2>4. \A i \in 0 .. m - 1 : h[i] = IF i = 0 THEN 0 ELSE h[i - 1] + Bytes[s[i]]
    BY <2>2 DEF IsTotals
  <2>5. g \in [0 .. m -> Nat]
    <3>. HIDE DEF b
    <3>. QED BY <2>1, <2>2, <2>3
  <2>6. ASSUME NEW i \in 0 .. m
        PROVE  g[i] = IF i = 0 THEN 0 ELSE g[i - 1] + Bytes[s[i]]
    <3>1. CASE i = m
      BY <2>1, <3>1
    <3>2. CASE i # m
      BY <2>1, <2>4, <3>2
    <3>. QED BY <3>1, <3>2
  <2>7. IsTotals(g, s, m)
    BY <2>5, <2>6 DEF IsTotals
  <2>. QED BY <1>1, <2>5, <2>7
<1>. QED BY <1>2, <1>3

(* Totals depend on nothing but the chunks they cover.                     *)
LEMMA TotalsAgree ==
    ASSUME NEW s, NEW t, NEW n \in Nat, NEW m \in Nat, NEW k \in 0 .. n, k <= m,
           NEW g, NEW h, IsTotals(g, s, n), IsTotals(h, t, m),
           \A i \in 1 .. k : s[i] = t[i]
    PROVE  g[k] = h[k]
<1>. DEFINE differ == {i \in 0 .. k : g[i] # h[i]}
<1>. SUFFICES ASSUME differ # {} PROVE FALSE
  OBVIOUS
<1>0. differ \in SUBSET Nat
  OBVIOUS
<1>1. PICK i \in differ : \A j \in differ : i <= j
  <2>. HIDE DEF differ
  <2>. QED BY <1>0, LeastNatural
<1>2. /\ g[i] = IF i = 0 THEN 0 ELSE g[i - 1] + Bytes[s[i]]
      /\ h[i] = IF i = 0 THEN 0 ELSE h[i - 1] + Bytes[t[i]]
  BY DEF IsTotals
<1>3. i # 0 => g[i - 1] = h[i - 1] /\ s[i] = t[i]
  BY <1>1
<1>. QED BY <1>2, <1>3

(* The total of s up to k is what any totals of s, or of a sequence that   *)
(* agrees with s so far, have at k.                                        *)
LEMMA TotalIs ==
    ASSUME NEW s, NEW k \in Nat, NEW n \in Nat, k <= n, NEW t,
           \A i \in 1 .. n : t[i] \in Chunk, \A i \in 1 .. k : s[i] = t[i],
           NEW g, IsTotals(g, t, n)
    PROVE  TotalBytes(s, k) = g[k] /\ TotalBytes(s, k) \in Nat
<1>. DEFINE f == CHOOSE f : IsTotals(f, s, k)
<1>0. \A i \in 1 .. k : s[i] \in Chunk
  OBVIOUS
<1>1. PICK h \in [0 .. k -> Nat] : IsTotals(h, s, k)
  BY <1>0, TotalsExist
<1>2. IsTotals(f, s, k)
  BY <1>1
<1>3. TotalBytes(s, k) = f[k]
  BY DEF TotalBytes, IsTotals
<1>. HIDE DEF f
<1>4. f[k] = g[k] /\ f[k] = h[k]
  BY <1>1, <1>2, TotalsAgree
<1>. QED BY <1>1, <1>3, <1>4

(* The recurrence of TotalBytes on a sequence of chunks.                   *)
LEMMA TotalStep ==
    ASSUME NEW s \in Seq(Chunk)
    PROVE  /\ TotalBytes(s, 0) = 0
           /\ \A k \in 0 .. Len(s) : TotalBytes(s, k) \in Nat
           /\ \A k \in 1 .. Len(s) : TotalBytes(s, k) = TotalBytes(s, k - 1) + Bytes[s[k]]
<1>0. Len(s) \in Nat /\ \A i \in 1 .. Len(s) : s[i] \in Chunk
  OBVIOUS
<1>1. PICK g \in [0 .. Len(s) -> Nat] : IsTotals(g, s, Len(s))
  BY <1>0, TotalsExist
<1>2. ASSUME NEW k \in 0 .. Len(s)
      PROVE  TotalBytes(s, k) = g[k] /\ TotalBytes(s, k) \in Nat
  BY <1>0, <1>1, TotalIs
<1>3. \A k \in 0 .. Len(s) : g[k] = IF k = 0 THEN 0 ELSE g[k - 1] + Bytes[s[k]]
  BY <1>0, <1>1 DEF IsTotals
<1>4. g[0] = 0 /\ \A k \in 1 .. Len(s) : g[k] = g[k - 1] + Bytes[s[k]]
  BY <1>0, <1>3
<1>5. 0 \in 0 .. Len(s) /\ \A k \in 1 .. Len(s) : k \in 0 .. Len(s) /\ k - 1 \in 0 .. Len(s)
  BY <1>0
<1>. QED BY <1>2, <1>4, <1>5

(* One more chunk leaves the totals before it alone and adds its length.   *)
LEMMA TotalOfAppend ==
    ASSUME NEW s \in Seq(Chunk), NEW c \in Chunk
    PROVE  /\ \A k \in 0 .. Len(s) : TotalBytes(Append(s, c), k) = TotalBytes(s, k)
           /\ TotalBytes(Append(s, c), Len(s) + 1) = TotalBytes(s, Len(s)) + Bytes[c]
<1>. DEFINE t == Append(s, c)
<1>0. /\ Len(s) \in Nat /\ t \in Seq(Chunk) /\ Len(t) = Len(s) + 1 /\ t[Len(s) + 1] = c
      /\ \A i \in 1 .. Len(s) : t[i] = s[i]
      /\ \A i \in 1 .. Len(t) : t[i] \in Chunk
      /\ \A i \in 1 .. Len(s) : s[i] \in Chunk
  OBVIOUS
<1>. HIDE DEF t
<1>1. PICK g \in [0 .. Len(s) -> Nat] : IsTotals(g, s, Len(s))
  BY <1>0, TotalsExist
<1>2. \A k \in 0 .. Len(s) : TotalBytes(t, k) = TotalBytes(s, k)
  <2>. TAKE k \in 0 .. Len(s)
  <2>1. k \in Nat /\ k <= Len(s) /\ \A i \in 1 .. k : t[i] = s[i]
    BY <1>0
  <2>2. TotalBytes(t, k) = g[k] /\ TotalBytes(s, k) = g[k]
    BY <1>0, <1>1, <2>1, TotalIs
  <2>. QED BY <2>2
<1>3. TotalBytes(t, Len(s) + 1) = TotalBytes(t, Len(s)) + Bytes[c]
  <2>1. Len(s) + 1 \in 1 .. Len(t) /\ (Len(s) + 1) - 1 = Len(s)
    BY <1>0
  <2>2. TotalBytes(t, Len(s) + 1) = TotalBytes(t, Len(s) + 1 - 1) + Bytes[t[Len(s) + 1]]
    BY <1>0, <2>1, TotalStep
  <2>. QED BY <1>0, <2>1, <2>2
<1>4. Len(s) \in 0 .. Len(s)
  BY <1>0
<1>. QED BY <1>2, <1>3, <1>4 DEF t
-----------------------------------------------------------------------------
(* What the PUT of the sender's buffer brings the total to.                *)
LEMMA BufferedTotal ==
    ASSUME StreamInv, SenderLimitInv, snd.buf # NoChunk
    PROVE  /\ snd.sent \in Nat /\ Bytes[snd.buf] \in Nat
           /\ Len(src) = snd.seq + 1
           /\ TotalBytes(src, snd.seq + 1) = snd.sent + Bytes[snd.buf]
<1>1. /\ snd.sent \in Nat /\ snd.seq \in Nat /\ snd.buf \in Chunk /\ src \in Seq(Chunk)
      /\ Len(src) = snd.seq + 1 /\ src[snd.seq + 1] = snd.buf
  BY DEF StreamInv, TypeOK, SndType, SenderInv
<1>2. snd.seq + 1 \in 1 .. Len(src) /\ (snd.seq + 1) - 1 = snd.seq
  BY <1>1
<1>3. TotalBytes(src, snd.seq + 1) = TotalBytes(src, snd.seq) + Bytes[snd.buf]
  BY <1>1, <1>2, TotalStep
<1>4. Bytes[snd.buf] \in Nat
  BY <1>1, ChunkAssumption
<1>. QED BY <1>1, <1>3, <1>4 DEF SenderLimitInv

(* Reading a chunk leaves the totals of the earlier chunks alone and tests *)
(* the new one against the limit.                                          *)
LEMMA SndReadDataLimit ==
    ASSUME StreamInv, SenderLimitInv, NEW c \in Chunk, NEW err \in {"nil", "eof", "error"},
           SndReadData(c, err)
    PROVE  SenderLimitInv'
<1>1. /\ snd.pc = "read" /\ Len(src) = snd.seq /\ c # NoChunk /\ src \in Seq(Chunk)
      /\ src' = Append(src, c) /\ UNCHANGED data
      /\ \A k \in DOMAIN data : k \in Nat /\ k < Len(src)
  BY ChunkAssumption DEF SndReadData, StreamInv, TypeOK, SenderInv, StoreInv, objVars
<1>2. /\ snd'.buf = c /\ snd'.seq = snd.seq /\ snd'.sent = snd.sent
      /\ snd'.err = IF OverLimit(SendLimit, snd.sent, c) THEN "limit" ELSE err
      /\ snd'.pc = AfterRead(c)
  BY DEF SndReadData, StreamInv, TypeOK, SndType
<1>3. snd'.pc \in {"getack", "sleep", "put"} => ~OverLimit(SendLimit, snd.sent, c)
  BY <1>2 DEF AfterRead
<1>4. snd'.err = "limit" => OverLimit(SendLimit, snd.sent, c)
  BY <1>2
<1>5. /\ snd.seq \in 0 .. Len(src)
      /\ \A k \in DOMAIN data : k + 1 \in 0 .. Len(src)
  BY <1>1 DEF StreamInv, TypeOK, SndType
<1>6. /\ TotalBytes(src', snd.seq) = TotalBytes(src, snd.seq)
      /\ \A k \in DOMAIN data : TotalBytes(src', k + 1) = TotalBytes(src, k + 1)
  BY <1>1, <1>5, TotalOfAppend
<1>. QED BY <1>1, <1>2, <1>3, <1>4, <1>6 DEF SenderLimitInv, OverLimit

(* The sender moves on without sending: its counters and buffer stay.      *)
LEMMA SndKeepsLimit ==
    ASSUME SenderLimitInv, UNCHANGED <<src, data>>, snd'.sent = snd.sent,
           snd'.seq = snd.seq, snd'.buf = snd.buf,
           snd'.err = snd.err \/ snd'.err # "limit",
           \/ snd'.pc \notin {"getack", "sleep", "put"}
           \/ snd.pc \in {"getack", "sleep", "put"}
    PROVE  SenderLimitInv'
BY DEF SenderLimitInv, OverLimit

(* The object a PUT adds is within the limit, whether or not the call      *)
(* returns an error.                                                       *)
LEMMA SndPutLimit ==
    ASSUME StreamInv, SenderLimitInv, snd.pc = "put", UNCHANGED src,
           data' = data \/ data' = PutObject(data, snd.seq, snd.buf), SendLimit > 0
    PROVE  \A k \in DOMAIN data' : TotalBytes(src, k + 1) <= SendLimit
<1>1. CASE data' = data
  BY <1>1 DEF SenderLimitInv
<1>2. CASE data' = PutObject(data, snd.seq, snd.buf)
  <2>1. DOMAIN data' = DOMAIN data \cup {snd.seq}
    BY <1>2, SndPutData
  <2>2. snd.buf # NoChunk /\ ~OverLimit(SendLimit, snd.sent, snd.buf)
    BY DEF StreamInv, SenderInv, SenderLimitInv
  <2>3. TotalBytes(src, snd.seq + 1) <= SendLimit
    BY <2>2, BufferedTotal, LimitAssumption DEF OverLimit
  <2>. QED BY <2>1, <2>3 DEF SenderLimitInv
<1>. QED BY <1>1, <1>2

(* Every step of the sender keeps its count within the limit.              *)
LEMMA SenderLimitStep ==
    ASSUME StreamInv, SenderLimitInv, [Next]_vars
    PROVE  SenderLimitInv'
<1>0. snd \in SndType
  BY DEF StreamInv, TypeOK
<1>1. ASSUME NEW c \in Chunk, NEW err \in {"nil", "eof", "error"}, SndReadData(c, err)
      PROVE  SenderLimitInv'
  BY <1>1, SndReadDataLimit
<1>2. ASSUME NEW err \in {"eof", "error"}, SndReadEnd(err)
      PROVE  SenderLimitInv'
  <2>1. /\ UNCHANGED <<src, data>> /\ snd'.sent = snd.sent /\ snd'.seq = snd.seq
        /\ snd'.buf = snd.buf /\ snd'.err = err /\ snd'.pc = "close"
    BY <1>0, <1>2 DEF SndReadEnd, SndType, objVars
  <2>. QED BY <2>1, SndKeepsLimit
<1>3. CASE SndGetAck \/ SndWake
  <2>1. /\ UNCHANGED <<src, data>> /\ snd'.sent = snd.sent /\ snd'.seq = snd.seq
        /\ snd'.buf = snd.buf /\ snd'.err = snd.err /\ snd.pc \in {"getack", "sleep"}
    BY <1>0, <1>3 DEF SndGetAck, SndWake, SndType, objVars
  <2>. QED BY <2>1, SndKeepsLimit
<1>4. CASE SndGetAckFails \/ SndSleepCancelled \/ SndClose
           \/ \E applied \in BOOLEAN : SndCloseFails(applied)
  <2>1. /\ UNCHANGED <<src, data>>
        /\ SndReturn("nil") \/ SndReturn("error")
    BY <1>4 DEF SndGetAckFails, SndSleepCancelled, SndClose, SndCloseFails, objVars
  <2>2. /\ snd'.sent = snd.sent /\ snd'.seq = snd.seq
        /\ snd'.buf = snd.buf /\ snd'.err = snd.err /\ snd'.pc = "done"
    BY <2>1, SndReturnFields DEF StreamInv
  <2>. QED BY <2>1, <2>2, SndKeepsLimit
<1>5. CASE SndPut
  <2>1. /\ snd.pc = "put" /\ UNCHANGED src /\ data' = PutObject(data, snd.seq, snd.buf)
        /\ snd.buf # NoChunk /\ snd.err # "limit"
    BY <1>5 DEF SndPut, StreamInv, SenderInv
  <2>2. /\ snd'.pc = (IF snd.err = "nil" THEN "read" ELSE "close")
        /\ snd'.seq = snd.seq + 1 /\ snd'.sent = snd.sent + Bytes[snd.buf]
        /\ snd'.err = snd.err
    BY <1>0, <1>5 DEF SndPut, SndType
  <2>3. snd'.sent = TotalBytes(src, snd'.seq)
    BY <2>1, <2>2, BufferedTotal
  <2>4. SendLimit > 0 => \A k \in DOMAIN data' : TotalBytes(src, k + 1) <= SendLimit
    BY <2>1, SndPutLimit
  <2>5. snd'.pc \notin {"getack", "sleep", "put"}
    BY <2>2
  <2>. QED BY <2>1, <2>2, <2>3, <2>4, <2>5 DEF SenderLimitInv
<1>6. ASSUME NEW applied \in BOOLEAN, SndPutFails(applied)
      PROVE  SenderLimitInv'
  <2>1. /\ snd.pc = "put" /\ UNCHANGED src /\ SndReturn("error")
        /\ data' = data \/ data' = PutObject(data, snd.seq, snd.buf)
        /\ snd.err # "limit"
    BY <1>6 DEF SndPutFails, StreamInv, SenderInv
  <2>2. /\ snd'.sent = snd.sent /\ snd'.seq = snd.seq
        /\ snd'.buf = snd.buf /\ snd'.err = snd.err /\ snd'.pc = "done"
    BY <2>1, SndReturnFields DEF StreamInv
  <2>3. SendLimit > 0 => \A k \in DOMAIN data' : TotalBytes(src, k + 1) <= SendLimit
    BY <2>1, SndPutLimit
  <2>. QED BY <2>1, <2>2, <2>3 DEF SenderLimitInv
<1>7. CASE Receiver \/ Expire \/ CancelSender \/ CancelReceiver \/ UNCHANGED vars
  <2>1. UNCHANGED <<snd, src, data>>
    BY <1>7 DEF Receiver, RcvStep, RcvSocket, RcvGetHit, RcvOverLimit, RcvGetMiss,
                RcvGetFails, RcvPutAck, RcvPutAckFails, RcvHead, RcvHeadFails,
                RcvCheck, RcvWake, RcvSleepCancelled, RcvWrite, RcvWriteFails,
                Expire, CancelSender, CancelReceiver, vars, sndVars, objVars
  <2>. QED BY <2>1 DEF SenderLimitInv, OverLimit
<1>. QED BY <1>1, <1>2, <1>3, <1>4, <1>5, <1>6, <1>7
         DEF Next, Sender, SndRead, SndStep, Finished

(* The chunk the receiver is about to write fits its limit.                *)
LEMMA WrittenTotal ==
    ASSUME StreamInv, ReceiverLimitInv, rcv.pc = "write", dst' = Append(dst, rcv.buf),
           UNCHANGED src
    PROVE  /\ TotalBytes(dst', Len(dst')) = rcv.received + Bytes[rcv.buf]
           /\ RecvLimit > 0 => TotalBytes(dst', Len(dst')) <= RecvLimit
<1>1. /\ dst \in Seq(Chunk) /\ rcv.buf \in Chunk /\ Len(dst') = Len(dst) + 1
      /\ rcv.received \in Nat /\ rcv.received = TotalBytes(dst, Len(dst))
      /\ ~OverLimit(RecvLimit, rcv.received, rcv.buf)
  <2>1. rcv.buf \in Chunk
    BY RcvWriteExtends
  <2>2. dst \in Seq(Chunk) /\ rcv.received \in Nat
    BY DEF StreamInv, TypeOK, RcvType
  <2>3. rcv.received = TotalBytes(dst, Len(dst)) /\ ~OverLimit(RecvLimit, rcv.received, rcv.buf)
    BY DEF ReceiverLimitInv
  <2>. QED BY <2>1, <2>2, <2>3
<1>2. TotalBytes(dst', Len(dst')) = rcv.received + Bytes[rcv.buf]
  BY <1>1, TotalOfAppend
<1>3. Bytes[rcv.buf] \in Nat
  BY <1>1, ChunkAssumption
<1>. QED BY <1>1, <1>2, <1>3, LimitAssumption DEF OverLimit

(* The receiver moves on without writing: its counter stays, and it does   *)
(* not come to a write.                                                    *)
LEMMA RcvKeepsLimit ==
    ASSUME ReceiverLimitInv, UNCHANGED dst,
           rcv'.received = rcv.received \/ rcv'.pc = "done",
           rcv.pc # "done" \/ rcv'.pc = "done",
           rcv'.pc # "write" \/ (rcv.pc = "write" /\ rcv'.buf = rcv.buf)
    PROVE  ReceiverLimitInv'
BY DEF ReceiverLimitInv, OverLimit

(* Every step of the receiver keeps what it has written within its limit.  *)
LEMMA ReceiverLimitStep ==
    ASSUME StreamInv, ReceiverLimitInv, [Next]_vars
    PROVE  ReceiverLimitInv'
<1>0. rcv \in RcvType
  BY DEF StreamInv, TypeOK
<1>1. CASE RcvGetHit
  <2>1. /\ rcv.pc = "get" /\ UNCHANGED dst
        /\ ~OverLimit(RecvLimit, rcv.received, data[rcv.seq])
        /\ rcv'.buf = data[rcv.seq] /\ rcv'.received = rcv.received
    BY <1>0, <1>1 DEF RcvGetHit, RcvType
  <2>. QED BY <2>1 DEF ReceiverLimitInv, OverLimit
<1>2. CASE RcvWrite
  <2>1. rcv.pc = "write" /\ dst' = Append(dst, rcv.buf) /\ UNCHANGED src
    BY <1>2 DEF RcvWrite, sndVars
  <2>2. rcv'.pc # "write" /\ rcv'.received = rcv.received + Bytes[rcv.buf]
    <3>. DEFINE p == IF rcv.seq + 1 - rcv.lastAck >= ackInterval(RecvWindow)
                     THEN "putack" ELSE "get"
    <3>1. p # "write"
      OBVIOUS
    <3>2. rcv'.pc = p /\ rcv'.received = rcv.received + Bytes[rcv.buf]
      BY <1>0, <1>2 DEF RcvWrite, RcvType
    <3>. QED BY <3>1, <3>2
  <2>. QED BY <2>1, <2>2, WrittenTotal DEF ReceiverLimitInv
<1>3. ASSUME NEW applied \in BOOLEAN, RcvWriteFails(applied)
      PROVE  ReceiverLimitInv'
  <2>1. /\ rcv.pc = "write" /\ UNCHANGED src /\ RcvReturn("error")
        /\ dst' = dst \/ dst' = Append(dst, rcv.buf)
    BY <1>3 DEF RcvWriteFails, sndVars
  <2>2. rcv'.pc = "done"
    BY <2>1, RcvReturnFields DEF StreamInv
  <2>. QED BY <2>1, <2>2, WrittenTotal DEF ReceiverLimitInv
<1>4. CASE RcvOverLimit \/ RcvGetFails \/ RcvHeadFails \/ RcvSleepCancelled
           \/ \E applied \in BOOLEAN : RcvPutAckFails(applied)
  <2>1. UNCHANGED dst /\ RcvReturn("error")
    BY <1>4 DEF RcvOverLimit, RcvGetFails, RcvHeadFails, RcvSleepCancelled, RcvPutAckFails
  <2>2. rcv'.pc = "done"
    BY <2>1, RcvReturnFields DEF StreamInv
  <2>. QED BY <2>1, <2>2, RcvKeepsLimit
<1>5. CASE RcvGetMiss \/ RcvPutAck \/ RcvWake \/ Expire
  <2>1. UNCHANGED dst /\ rcv.pc # "done"
    BY <1>5 DEF RcvGetMiss, RcvPutAck, RcvWake, Expire
  <2>2. /\ rcv'.received = rcv.received /\ rcv'.buf = rcv.buf
        /\ rcv'.pc \in {"head", "check", "get"} \/ rcv'.pc = rcv.pc
    BY <1>0, <1>5 DEF RcvGetMiss, RcvPutAck, RcvWake, Expire, RcvType
  <2>. QED BY <2>1, <2>2, RcvKeepsLimit
<1>6. CASE RcvHead \/ RcvCheck
  <2>1. /\ UNCHANGED dst /\ rcv.pc \in {"head", "check"}
        /\ \/ RcvReturn("nil") \/ RcvReturn("error")
           \/ rcv' = [rcv EXCEPT !.pc = "check"] \/ rcv' = [rcv EXCEPT !.pc = "sleep"]
    BY <1>6 DEF RcvHead, RcvCheck
  <2>2. CASE RcvReturn("nil") \/ RcvReturn("error")
    <3>1. rcv'.pc = "done"
      BY <2>2, RcvReturnFields DEF StreamInv
    <3>. QED BY <2>1, <3>1, RcvKeepsLimit
  <2>3. CASE rcv' = [rcv EXCEPT !.pc = "check"] \/ rcv' = [rcv EXCEPT !.pc = "sleep"]
    <3>1. rcv'.received = rcv.received /\ rcv'.pc \in {"check", "sleep"}
      BY <1>0, <2>3 DEF RcvType
    <3>. QED BY <2>1, <3>1, RcvKeepsLimit
  <2>. QED BY <2>1, <2>2, <2>3
<1>7. CASE SndRead \/ SndStep \/ CancelSender \/ CancelReceiver \/ UNCHANGED vars
  <2>1. UNCHANGED <<rcv, dst>>
    BY <1>7 DEF SndRead, SndReadData, SndReadEnd, SndStep, SndGetAck, SndGetAckFails,
                SndWake, SndSleepCancelled, SndPut, SndPutFails, SndClose, SndCloseFails,
                CancelSender, CancelReceiver, vars, rcvVars
  <2>. QED BY <2>1 DEF ReceiverLimitInv, OverLimit
<1>. QED BY <1>1, <1>2, <1>3, <1>4, <1>5, <1>6, <1>7
         DEF Next, Sender, Receiver, RcvStep, RcvSocket, Finished

(* The counters of the byte limits agree with the totals of what was read, *)
(* put and written, whatever fails.                                        *)
THEOREM LimitInvariant == Spec => []LimitInv
<1>1. Init => LimitInv
  <2>. SUFFICES ASSUME Init PROVE LimitInv
    OBVIOUS
  <2>1. << >> \in Seq(Chunk) /\ Len(<< >>) = 0
    OBVIOUS
  <2>2. TotalBytes(<< >>, 0) = 0
    BY <2>1, TotalStep
  <2>3. SenderLimitInv
    BY <2>2 DEF Init, SndInit, ObjInit, EmptyStore, SenderLimitInv
  <2>4. ReceiverLimitInv
    BY <2>1, <2>2, LimitAssumption DEF Init, RcvInit, ReceiverLimitInv
  <2>. QED BY <2>3, <2>4 DEF LimitInv
<1>2. StreamInv /\ LimitInv /\ [Next]_vars => LimitInv'
  BY SenderLimitStep, ReceiverLimitStep DEF LimitInv
<1>. QED BY <1>1, <1>2, StreamInvariant, PTL DEF Spec

(* Neither side ever moves more bytes than its limit allows, and only a    *)
(* stream that is too long is cut for its size.                            *)
THEOREM LimitsAreRespected == Spec => []LimitsRespected
<1>1. ASSUME StreamInv, LimitInv, close = "limit"
      PROVE  TotalBytes(src, Len(src)) > SendLimit
  <2>1. snd.err = "limit"
    BY <1>1 DEF StreamInv, StoreInv
  <2>2. snd.buf # NoChunk /\ OverLimit(SendLimit, snd.sent, snd.buf)
    BY <1>1, <2>1 DEF LimitInv, SenderLimitInv
  <2>3. TotalBytes(src, Len(src)) = snd.sent + Bytes[snd.buf]
    BY <1>1, <2>2, BufferedTotal DEF LimitInv
  <2>4. snd.sent \in Nat /\ Bytes[snd.buf] \in Nat
    BY <1>1, <2>2, BufferedTotal DEF LimitInv
  <2>. QED BY <2>2, <2>3, <2>4, LimitAssumption DEF OverLimit
<1>2. StreamInv /\ LimitInv => LimitsRespected
  BY <1>1 DEF LimitInv, SenderLimitInv, ReceiverLimitInv, LimitsRespected
<1>. QED BY <1>2, StreamInvariant, LimitInvariant, PTL
=============================================================================
