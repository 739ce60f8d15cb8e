---------------------------- MODULE SocksProofs -----------------------------
(***************************************************************************)
(* Proofs about SocksClient, for any finite number of connections.         *)
(***************************************************************************)
EXTENDS SocksClient, FiniteSetTheorems, TLAPS

Pcs == CountedPcs \cup {"none", "negotiate", "refused", "request", "start0",
                        "reject", "finish", "return", "closed"}

Codes == {ReplySucceeded, "general", "unreachable", "command"}

Conns == [pc : Pcs, after : {"none", "general", "unreachable"},
          result : {"none", "completed", "failed"}, replied : BOOLEAN,
          replies : Seq(Codes), sent : SUBSET Direction]

SocksTypeOK ==
    /\ counter \in [Counters -> Nat]
    /\ sessionStarts \in SUBSET Session
    /\ firstDataObserved \in SUBSET (Session \X Direction)
    /\ conn \in [Session -> Conns]

(* The goroutine of a session whose start time is in the map.              *)
KnownPcs == {"open", "wait", "reject", "opened", "accepted", "stream", "end", "finish"}

(* The maps only hold what belongs to a session on its way.                *)
MapsInv ==
    /\ \A c \in sessionStarts : conn[c].pc \in KnownPcs
    /\ \A s \in Session, dir \in Direction :
         <<s, dir>> \in firstDataObserved => s \in sessionStarts

(* Nothing was written to the local peer yet.                              *)
Silent(r) == ~r.replied /\ r.replies = << >>

(* The callback has written one reply.                                     *)
Answered(r) == r.replied /\ Len(r.replies) = 1

(* Where a goroutine is tells whether it has replied; after a failure the  *)
(* reply is held back until the session is finished.                       *)
ReplyOf(r) ==
    /\ r.pc \in {"none", "negotiate", "refused", "request", "start0", "start",
                 "open", "wait", "reject", "opened", "accepted"}
         => Silent(r) /\ r.after = "none"
    /\ r.pc = "stream" => Answered(r) /\ r.after = "none"
    /\ r.pc \in {"end", "finish"}
         => (IF r.after = "none" THEN Answered(r) ELSE Silent(r))
    /\ r.pc \in {"end", "finish"} => r.result \in {"completed", "failed"}
    /\ r.pc = "return" => Answered(r)
    /\ r.pc = "closed" => Len(r.replies) = 1

ReplyInv == \A c \in Session : ReplyOf(conn[c])

(* The session was opened, as far as its local peer may know.              *)
OpenedOf(r) == r.replies = <<ReplySucceeded>> \/ r.pc \in {"opened", "accepted"}

Opened == {c \in Session : OpenedOf(conn[c])}
Counted == {c \in Session : conn[c].pc \in CountedPcs}

SocksInv ==
    /\ SocksTypeOK
    /\ MapsInv
    /\ ReplyInv
    /\ SessionsAccounted
    /\ Cardinality(Opened) <= counter.opened

(* A step of connection c leaves the others alone.                         *)
Frame(c) ==
    /\ conn' \in [Session -> Conns]
    /\ \A d \in Session \ {c} : conn'[d] = conn[d]
-----------------------------------------------------------------------------
(* The number of sessions on their way when one connection moves.          *)
LEMMA CountedMoves ==
    ASSUME SocksTypeOK, NEW c \in Session, Frame(c)
    PROVE  /\ Cardinality(Counted) \in Nat
           /\ conn[c].pc \in CountedPcs /\ conn'[c].pc \in CountedPcs
                => Cardinality(Counted') = Cardinality(Counted)
           /\ conn[c].pc \notin CountedPcs /\ conn'[c].pc \notin CountedPcs
                => Cardinality(Counted') = Cardinality(Counted)
           /\ conn[c].pc \notin CountedPcs /\ conn'[c].pc \in CountedPcs
                => Cardinality(Counted') = Cardinality(Counted) + 1
           /\ conn[c].pc \in CountedPcs /\ conn'[c].pc \notin CountedPcs
                => Cardinality(Counted') = Cardinality(Counted) - 1
<1>1. IsFiniteSet(Counted) /\ Cardinality(Counted) \in Nat
    BY StatsAssumption, FS_Subset, FS_CardinalityType DEF Counted
<1>2. (conn[c].pc \in CountedPcs <=> conn'[c].pc \in CountedPcs) => Counted' = Counted
    BY DEF Counted, Frame
<1>3. conn[c].pc \notin CountedPcs /\ conn'[c].pc \in CountedPcs
        => c \notin Counted /\ Counted' = Counted \cup {c}
    BY DEF Counted, Frame
<1>4. conn[c].pc \in CountedPcs /\ conn'[c].pc \notin CountedPcs
        => c \in Counted /\ Counted' = Counted \ {c}
    BY DEF Counted, Frame
<1>5. c \notin Counted => Cardinality(Counted \cup {c}) = Cardinality(Counted) + 1
    BY <1>1, FS_AddElement
<1>6. c \in Counted => Cardinality(Counted \ {c}) = Cardinality(Counted) - 1
    BY <1>1, FS_RemoveElement
<1> QED
    BY <1>1, <1>2, <1>3, <1>4, <1>5, <1>6

(* The opened sessions when one connection moves.                          *)
LEMMA OpenedMoves ==
    ASSUME SocksTypeOK, NEW c \in Session, Frame(c)
    PROVE  /\ Cardinality(Opened) \in Nat /\ Cardinality(Opened') \in Nat
           /\ Cardinality(Opened') <= Cardinality(Opened) + 1
           /\ (OpenedOf(conn'[c]) => OpenedOf(conn[c]))
                => Cardinality(Opened') <= Cardinality(Opened)
<1>1. /\ IsFiniteSet(Opened) /\ Cardinality(Opened) \in Nat
      /\ IsFiniteSet(Opened') /\ Cardinality(Opened') \in Nat
    BY StatsAssumption, FS_Subset, FS_CardinalityType DEF Opened
<1>2. Opened' \subseteq Opened \cup {c}
    BY DEF Opened, Frame
<1>3. (OpenedOf(conn'[c]) => OpenedOf(conn[c])) => Opened' \subseteq Opened
    BY DEF Opened, Frame
<1>4. /\ IsFiniteSet(Opened \cup {c})
      /\ Cardinality(Opened \cup {c}) <= Cardinality(Opened) + 1
    <2>1. CASE c \in Opened
        BY <1>1, <2>1, Opened \cup {c} = Opened
    <2>2. CASE c \notin Opened
        <3>1. /\ IsFiniteSet(Opened \cup {c})
              /\ Cardinality(Opened \cup {c}) = Cardinality(Opened) + 1
            BY <1>1, <2>2, FS_AddElement
        <3> QED
            BY <1>1, <3>1
    <2> QED
        BY <2>1, <2>2
<1>5. Cardinality(Opened') <= Cardinality(Opened \cup {c})
    BY <1>2, <1>4, FS_Subset
<1>6. (OpenedOf(conn'[c]) => OpenedOf(conn[c]))
        => Cardinality(Opened') <= Cardinality(Opened)
    BY <1>1, <1>3, FS_Subset
<1>7. Cardinality(Opened \cup {c}) \in Nat
    BY <1>4, FS_CardinalityType
<1> QED
    BY <1>1, <1>4, <1>5, <1>6, <1>7
-----------------------------------------------------------------------------
Same(c) == conn[c].pc \in CountedPcs <=> conn'[c].pc \in CountedPcs
Enters(c) == conn[c].pc \notin CountedPcs /\ conn'[c].pc \in CountedPcs
Leaves(c) == conn[c].pc \in CountedPcs /\ conn'[c].pc \notin CountedPcs
StaysClosed(c) == OpenedOf(conn'[c]) => OpenedOf(conn[c])

(* What a step of one connection does to the counters.                     *)
Counts(c) ==
    \/ counter' = counter /\ Same(c) /\ StaysClosed(c)
    \/ Add("started") /\ Enters(c) /\ StaysClosed(c)
    \/ Add("opened") /\ Same(c)
    \/ \E n \in {"rejected", "completed", "failed"} :
         Add(n) /\ Leaves(c) /\ StaysClosed(c)

Knows(c) == conn[c].pc \in KnownPcs => conn'[c].pc \in KnownPcs

(* What it does to the maps.                                               *)
Maps(c) ==
    \/ UNCHANGED <<sessionStarts, firstDataObserved>> /\ Knows(c)
    \/ startSection(c) /\ conn'[c].pc \in KnownPcs
    \/ Forget(c)
    \/ (\E dir \in Direction : recordFirstData(c, dir)) /\ Knows(c)

Effect(c) == Frame(c) /\ ReplyOf(conn'[c]) /\ Counts(c) /\ Maps(c)

(* A step that has such an effect keeps the counts and the replies right.  *)
LEMMA EffectKeeps ==
    ASSUME SocksInv, NEW c \in Session, Effect(c)
    PROVE  /\ counter' \in [Counters -> Nat]
           /\ ReplyInv'
           /\ SessionsAccounted'
           /\ Cardinality(Opened') <= counter'.opened
<1>1. ReplyInv'
    BY DEF SocksInv, Effect, ReplyInv, Frame
<1>2. SocksTypeOK /\ Frame(c) /\ counter \in [Counters -> Nat]
    BY DEF SocksInv, Effect, SocksTypeOK
<1>3. /\ counter.started = counter.rejected + counter.completed + counter.failed
                            + Cardinality(Counted)
      /\ Cardinality(Opened) <= counter.opened
    BY DEF SocksInv, SessionsAccounted, Counted
<1> SUFFICES /\ counter' \in [Counters -> Nat]
             /\ counter'.started = counter'.rejected + counter'.completed + counter'.failed
                                   + Cardinality(Counted')
             /\ Cardinality(Opened') <= counter'.opened
    BY <1>1 DEF SessionsAccounted, Counted
<1> USE <1>2, <1>3, CountedMoves, OpenedMoves
<1>4. CASE counter' = counter /\ Same(c) /\ StaysClosed(c)
    BY <1>4 DEF Same, StaysClosed, Counters
<1>5. CASE Add("started") /\ Enters(c) /\ StaysClosed(c)
    BY <1>5 DEF Add, Enters, StaysClosed, Counters
<1>6. CASE Add("opened") /\ Same(c)
    BY <1>6 DEF Add, Same, Counters
<1>7. ASSUME NEW n \in {"rejected", "completed", "failed"},
             Add(n) /\ Leaves(c) /\ StaysClosed(c)
      PROVE  /\ counter' \in [Counters -> Nat]
             /\ counter'.started = counter'.rejected + counter'.completed + counter'.failed
                                   + Cardinality(Counted')
             /\ Cardinality(Opened') <= counter'.opened
    BY <1>7 DEF Add, Leaves, StaysClosed, Counters
<1> QED
    BY <1>4, <1>5, <1>6, <1>7 DEF Effect, Counts

(* And it keeps the maps free of what was forgotten.                       *)
LEMMA EffectKeepsMaps ==
    ASSUME SocksInv, NEW c \in Session, Effect(c)
    PROVE  /\ sessionStarts' \in SUBSET Session
           /\ firstDataObserved' \in SUBSET (Session \X Direction)
           /\ MapsInv'
<1>1. /\ sessionStarts \in SUBSET Session
      /\ firstDataObserved \in SUBSET (Session \X Direction)
      /\ MapsInv
    BY DEF SocksInv, SocksTypeOK
<1>2. \A d \in Session \ {c} : conn'[d] = conn[d]
    BY DEF Effect, Frame
<1> USE <1>1, <1>2 DEF MapsInv
<1>3. CASE UNCHANGED <<sessionStarts, firstDataObserved>> /\ Knows(c)
    BY <1>3 DEF Knows
<1>4. CASE startSection(c) /\ conn'[c].pc \in KnownPcs
    BY <1>4 DEF startSection
<1>5. CASE Forget(c)
    BY <1>5 DEF Forget
<1>6. ASSUME NEW dir \in Direction, recordFirstData(c, dir), Knows(c)
      PROVE  /\ sessionStarts' \in SUBSET Session
             /\ firstDataObserved' \in SUBSET (Session \X Direction)
             /\ MapsInv'
    BY <1>6 DEF recordFirstData, Knows
<1> QED
    BY <1>3, <1>4, <1>5, <1>6 DEF Effect, Maps

KeepsReplies(c) == conn'[c].replied = conn[c].replied /\ conn'[c].replies = conn[c].replies

(* The goroutine goes on and nothing else happens.                         *)
LEMMA GotoFacts ==
    ASSUME SocksTypeOK, NEW c \in Session, NEW pc \in Pcs, Goto(c, pc)
    PROVE  /\ Frame(c) /\ KeepsReplies(c) /\ conn'[c].pc = pc
           /\ conn'[c].after = conn[c].after /\ conn'[c].result = conn[c].result
           /\ conn'[c].sent = conn[c].sent
BY DEF SocksTypeOK, Goto, Conns, Frame, KeepsReplies

(* The goroutine writes a reply itself.                                    *)
LEMMA WriteFacts ==
    ASSUME SocksTypeOK, NEW c \in Session, NEW pc \in Pcs, NEW code \in Codes,
           writeReply(c, code, pc), conn[c].replies = << >>
    PROVE  /\ Frame(c) /\ conn'[c].pc = pc /\ conn'[c].replies = <<code>>
           /\ Len(conn'[c].replies) = 1 /\ conn'[c].sent = conn[c].sent
<1>1. conn[c] \in Conns /\ conn \in [Session -> Conns]
    BY DEF SocksTypeOK
<1>2. Append(conn[c].replies, code) = <<code>> /\ <<code>> \in Seq(Codes)
    OBVIOUS
<1>3. conn' = [conn EXCEPT ![c] = [conn[c] EXCEPT !.pc = pc, !.replies = <<code>>]]
    BY <1>1, <1>2 DEF writeReply, Conns
<1> QED
    BY <1>1, <1>2, <1>3 DEF Conns, Frame

(* The goroutine replies for the first time through the callback.          *)
LEMMA ReplyFacts ==
    ASSUME SocksTypeOK, NEW c \in Session, NEW pc \in Pcs, NEW code \in Codes,
           reply(c, code, pc), Silent(conn[c])
    PROVE  /\ Frame(c) /\ conn'[c].pc = pc /\ conn'[c].replies = <<code>>
           /\ Answered(conn'[c]) /\ conn'[c].after = conn[c].after
           /\ conn'[c].sent = conn[c].sent
<1>1. conn' = [conn EXCEPT ![c].pc = pc, ![c].replied = TRUE,
                           ![c].replies = Append(@, code)]
    BY DEF reply, Silent
<1>2. conn[c] \in Conns /\ conn \in [Session -> Conns]
    BY DEF SocksTypeOK
<1>3. Append(conn[c].replies, code) = <<code>> /\ <<code>> \in Seq(Codes)
    BY DEF Silent
<1>4. conn' = [conn EXCEPT ![c] = [conn[c] EXCEPT !.pc = pc, !.replied = TRUE,
                                                  !.replies = <<code>>]]
    BY <1>1, <1>2, <1>3 DEF Conns
<1> QED
    BY <1>2, <1>3, <1>4 DEF Conns, Frame, Answered

(* A first data object is noted.                                           *)
LEMMA SentFacts ==
    ASSUME SocksTypeOK, NEW c \in Session, NEW dir \in Direction,
           conn' = [conn EXCEPT ![c].sent = @ \cup {dir}]
    PROVE  /\ Frame(c) /\ KeepsReplies(c) /\ conn'[c].pc = conn[c].pc
           /\ conn'[c].after = conn[c].after /\ conn'[c].result = conn[c].result
           /\ conn'[c].sent = conn[c].sent \cup {dir}
BY DEF SocksTypeOK, Conns, Frame, KeepsReplies

(* The streams have ended.                                                 *)
LEMMA EndFacts ==
    ASSUME SocksTypeOK, NEW c \in Session, NEW result \in {"completed", "failed"},
           conn' = [conn EXCEPT ![c].pc = "end", ![c].result = result]
    PROVE  /\ Frame(c) /\ KeepsReplies(c) /\ conn'[c].pc = "end"
           /\ conn'[c].after = conn[c].after /\ conn'[c].result = result
           /\ conn'[c].sent = conn[c].sent
<1>1. conn[c] \in Conns /\ conn \in [Session -> Conns]
    BY DEF SocksTypeOK
<1> DEFINE e == [conn[c] EXCEPT !.pc = "end", !.result = result]
<1>2. conn' = [conn EXCEPT ![c] = e]
    BY <1>1 DEF Conns
<1>3. "end" \in Pcs
    BY DEF Pcs, CountedPcs
<1>4. /\ e \in Conns /\ e.pc = "end" /\ e.result = result /\ e.after = conn[c].after
      /\ e.replied = conn[c].replied /\ e.replies = conn[c].replies
      /\ e.sent = conn[c].sent
    BY <1>1, <1>3 DEF Conns
<1> HIDE DEF e
<1> QED
    BY <1>1, <1>2, <1>4 DEF Frame, KeepsReplies

(* A failure leads to the end of the session.                              *)
LEMMA FailFacts ==
    ASSUME SocksTypeOK, NEW c \in Session, NEW code \in {"general", "unreachable"},
           FailWith(c, code)
    PROVE  /\ Frame(c) /\ KeepsReplies(c) /\ conn'[c].pc = "end"
           /\ conn'[c].after = code /\ conn'[c].result = "failed"
           /\ conn'[c].sent = conn[c].sent
<1>1. conn[c] \in Conns /\ conn \in [Session -> Conns]
    BY DEF SocksTypeOK
<1>2. conn' = [conn EXCEPT ![c] = [conn[c] EXCEPT !.pc = "end", !.result = "failed",
                                                  !.after = code]]
    BY <1>1 DEF FailWith, Conns
<1>3. "end" \in Pcs
    BY DEF Pcs, CountedPcs
<1> QED
    BY <1>1, <1>2, <1>3 DEF Conns, Frame, KeepsReplies

(* Every step of a connection's goroutine, and the server's report for it, *)
(* has such an effect.                                                     *)
LEMMA StepEffect ==
    ASSUME SocksInv, NEW c \in Session,
           Accept(c) \/ handleConn(c) \/ ServerFirstData(c)
    PROVE  Effect(c)
<1> USE DEF Effect, Maps, Knows, KnownPcs, Counts, Same, Enters, Leaves, StaysClosed, At, KeepsReplies,
            Pcs, CountedPcs, Codes, ReplySucceeded, ReplyOf, Silent, Answered, OpenedOf,
            statVars
<1> SocksTypeOK /\ ReplyOf(conn[c])
    BY DEF SocksInv, ReplyInv
<1>1. CASE Accept(c)
    BY <1>1, GotoFacts DEF Accept
<1>2. ASSUME NEW ok \in BOOLEAN, Negotiate(c, ok) PROVE Effect(c)
    <2>1. Goto(c, "request") \/ Goto(c, "refused")
        BY <1>2 DEF Negotiate
    <2> QED
        BY <1>2, <2>1, GotoFacts DEF Negotiate
<1>3. ASSUME NEW outcome \in {"connect", "bind", "bad", "norandom"}, Request(c, outcome)
      PROVE  Effect(c)
    <2>1. CASE Goto(c, "start0")
        BY <1>3, <2>1, GotoFacts DEF Request
    <2>2. CASE writeReply(c, "command", "closed")
        BY <1>3, <2>2, WriteFacts DEF Request
    <2>3. CASE writeReply(c, "general", "closed")
        BY <1>3, <2>3, WriteFacts DEF Request
    <2>4. CASE reply(c, "general", "return")
        BY <1>3, <2>4, ReplyFacts DEF Request
    <2> QED
        BY <1>3, <2>1, <2>2, <2>3, <2>4 DEF Request
<1>4. CASE StartCount(c)
    BY <1>4, GotoFacts DEF StartCount
<1>5. CASE StartSection(c)
    BY <1>5, GotoFacts DEF StartSection, startSection
<1>6. ASSUME NEW ok \in BOOLEAN, PutOpen(c, ok) PROVE Effect(c)
    <2>1. CASE Goto(c, "wait")
        BY <1>6, <2>1, GotoFacts DEF PutOpen
    <2>2. CASE FailWith(c, "general")
        BY <1>6, <2>2, FailFacts DEF PutOpen
    <2> QED
        BY <1>6, <2>1, <2>2 DEF PutOpen
<1>7. ASSUME NEW outcome \in {"error", "rejected", "accepted"}, WaitResult(c, outcome)
      PROVE  Effect(c)
    <2>1. CASE FailWith(c, "unreachable") /\ UNCHANGED counter
        BY <1>7, <2>1, FailFacts DEF WaitResult
    <2>2. CASE Add("rejected") /\ Goto(c, "reject")
        BY <1>7, <2>2, GotoFacts DEF WaitResult
    <2>3. CASE Add("opened") /\ Goto(c, "opened")
        BY <1>7, <2>3, GotoFacts DEF WaitResult
    <2> QED
        BY <1>7, <2>1, <2>2, <2>3 DEF WaitResult
<1>8. CASE RejectSection(c)
    BY <1>8, ReplyFacts DEF RejectSection, rejectSection
<1>9. CASE OpenSection(c)
    BY <1>9, GotoFacts DEF OpenSection, openSection
<1>10. ASSUME NEW ok \in BOOLEAN, ReplyAccepted(c, ok) PROVE Effect(c)
    <2>1. CASE ok
        BY <1>10, <2>1, ReplyFacts DEF ReplyAccepted
    <2>2. CASE ~ok
        BY <1>10, <2>2 DEF ReplyAccepted, SocksTypeOK, Conns, Frame
    <2> QED
        BY <2>1, <2>2
<1>11. CASE ClientFirstData(c)
    <2>1. /\ conn' = [conn EXCEPT ![c].sent = @ \cup {"c2s"}]
          /\ recordFirstData(c, "c2s") /\ "c2s" \in Direction
        BY <1>11 DEF ClientFirstData, Direction
    <2>2. /\ Frame(c) /\ KeepsReplies(c) /\ conn'[c].pc = conn[c].pc
          /\ conn'[c].after = conn[c].after /\ conn'[c].result = conn[c].result
        BY <2>1, SentFacts
    <2>3. Maps(c)
        BY <2>1, <2>2
    <2>4. counter' = counter
        BY <2>1 DEF recordFirstData
    <2> QED
        BY <2>2, <2>3, <2>4
<1>12. CASE ServerFirstData(c)
    <2>1. /\ conn' = [conn EXCEPT ![c].sent = @ \cup {"s2c"}]
          /\ recordFirstData(c, "s2c") /\ "s2c" \in Direction
        BY <1>12 DEF ServerFirstData, Direction
    <2>2. /\ Frame(c) /\ KeepsReplies(c) /\ conn'[c].pc = conn[c].pc
          /\ conn'[c].after = conn[c].after /\ conn'[c].result = conn[c].result
        BY <2>1, SentFacts
    <2>3. Maps(c)
        BY <2>1, <2>2
    <2>4. counter' = counter
        BY <2>1 DEF recordFirstData
    <2> QED
        BY <2>2, <2>3, <2>4
<1>13. ASSUME NEW result \in {"completed", "failed"}, StreamsEnd(c, result) PROVE Effect(c)
    <2>1. /\ Frame(c) /\ KeepsReplies(c) /\ conn'[c].pc = "end"
          /\ conn'[c].after = conn[c].after /\ conn'[c].result = result
        BY <1>13, EndFacts DEF StreamsEnd
    <2> QED
        BY <1>13, <2>1 DEF StreamsEnd
<1>14. CASE FinishCount(c)
    BY <1>14, GotoFacts DEF FinishCount
<1>15. CASE FinishSection(c)
    <2>1. CASE conn[c].after = "none"
        BY <1>15, <2>1, GotoFacts DEF FinishSection, finishSection
    <2>2. CASE conn[c].after # "none"
        <3>1. conn[c].after \in {"general", "unreachable"}
            BY <2>2 DEF SocksTypeOK, Conns
        <3> QED
            BY <1>15, <2>2, <3>1, ReplyFacts DEF FinishSection, finishSection
    <2> QED
        BY <2>1, <2>2
<1>16. CASE HandlerReturns(c)
    <2>1. Goto(c, "closed")
        BY <1>16 DEF HandlerReturns
    <2> QED
        BY <1>16, <2>1, GotoFacts DEF HandlerReturns
<1> QED
    BY <1>1, <1>2, <1>3, <1>4, <1>5, <1>6, <1>7, <1>8, <1>9, <1>10, <1>11, <1>12,
       <1>13, <1>14, <1>15, <1>16 DEF handleConn, HandleSOCKS

(* The invariant holds before any connection.                              *)
LEMMA SocksInitial == SocksInit => SocksInv
<1> SUFFICES ASSUME SocksInit PROVE SocksInv
    OBVIOUS
<1>1. SocksTypeOK /\ MapsInv
    BY DEF SocksInit, StatsInit, SocksTypeOK, Conns, Pcs, CountedPcs, Counters, MapsInv
<1>2. ReplyInv
    BY DEF SocksInit, ReplyInv, ReplyOf, Silent
<1>3. Counted = {} /\ Opened = {}
    BY DEF SocksInit, Counted, Opened, OpenedOf, CountedPcs
<1>4. Cardinality(Counted) = 0 /\ Cardinality(Opened) = 0
    BY <1>3, FS_EmptySet
<1>5. /\ counter.started = 0 /\ counter.rejected = 0 /\ counter.completed = 0
      /\ counter.failed = 0 /\ counter.opened = 0
    BY DEF SocksInit, StatsInit, Counters
<1> QED
    BY <1>1, <1>2, <1>4, <1>5 DEF SocksInv, SessionsAccounted, Counted

(* It is kept by the connections, the listener and a snapshot.             *)
LEMMA SocksInductive == SocksInv /\ [SocksNext]_socksVars => SocksInv'
<1> SUFFICES ASSUME SocksInv, [SocksNext]_socksVars PROVE SocksInv'
    OBVIOUS
<1>1. ASSUME NEW c \in Session, Accept(c) \/ handleConn(c) \/ ServerFirstData(c)
      PROVE  SocksInv'
    <2>1. Effect(c)
        BY <1>1, StepEffect
    <2>2. conn' \in [Session -> Conns]
        BY <2>1 DEF Effect, Frame
    <2> QED
        BY <2>1, <2>2, EffectKeeps, EffectKeepsMaps DEF SocksInv, SocksTypeOK
<1>2. CASE UNCHANGED <<statVars, conn>>
    <2>1. /\ counter' = counter /\ sessionStarts' = sessionStarts
          /\ firstDataObserved' = firstDataObserved /\ conn' = conn
        BY <1>2 DEF statVars
    <2> QED
        BY <2>1 DEF SocksInv, SocksTypeOK, MapsInv, ReplyInv, SessionsAccounted, Opened
<1>3. CASE ServeEnds
    BY <1>2, <1>3 DEF ServeEnds
<1>4. CASE TakeSnapshot
    BY <1>2, <1>4 DEF TakeSnapshot, SnapshotCopy, SnapshotLoad
<1>5. CASE UNCHANGED socksVars
    BY <1>2, <1>5 DEF socksVars, statVars
<1> QED
    BY <1>1, <1>3, <1>4, <1>5 DEF SocksNext

(* Each started session is counted exactly once at its end, however many   *)
(* connections there are and whichever of their calls fail.                *)
THEOREM SessionsCountedOnce == SocksSpec => []SessionsAccounted
<1>1. SocksInv => SessionsAccounted
    BY DEF SocksInv
<1> QED
    BY <1>1, SocksInitial, SocksInductive, PTL DEF SocksSpec

(* The maps never keep a session that has ended, although the server's     *)
(* goroutine may report its first data at any time.                        *)
THEOREM MapsForget == SocksSpec => []NothingRemembered
<1>1. SocksInv => NothingRemembered
    <2> SUFFICES ASSUME SocksInv, NEW c \in Session, conn[c].pc \in {"return", "closed"},
                        NEW dir \in Direction
                 PROVE  c \notin sessionStarts /\ <<c, dir>> \notin firstDataObserved
        BY DEF NothingRemembered, Direction
    <2> QED
        BY DEF SocksInv, MapsInv, KnownPcs
<1> QED
    BY <1>1, SocksInitial, SocksInductive, PTL DEF SocksSpec

(* Each request gets one reply, and success only when the server accepted. *)
THEOREM RequestsAnsweredOnce == SocksSpec => []OneReply
<1>1. SocksInv => OneReply
    <2> SUFFICES ASSUME SocksInv PROVE OneReply
        OBVIOUS
    <2>1. ASSUME NEW c \in Session
          PROVE  /\ Len(conn[c].replies) <= 1
                 /\ conn[c].pc = "closed" => Len(conn[c].replies) = 1
                 /\ conn[c].pc \in {"none", "negotiate", "refused", "request"}
                      => conn[c].replies = << >>
        <3>1. conn[c].pc \in Pcs /\ conn[c].replies \in Seq(Codes) /\ ReplyOf(conn[c])
            BY DEF SocksInv, SocksTypeOK, Conns, ReplyInv
        <3>2. conn[c].replies = << >> \/ Len(conn[c].replies) = 1
            BY <3>1 DEF ReplyOf, Silent, Answered, Pcs, CountedPcs
        <3> QED
            <4>0. Len(<< >>) = 0
                OBVIOUS
            <4>1. Len(conn[c].replies) <= 1
                <5>1. Len(conn[c].replies) = 0 \/ Len(conn[c].replies) = 1
                    BY <3>2, <4>0, Zenon
                <5> QED
                    BY <5>1, 0 <= 1, 1 <= 1, Zenon
            <4>2. conn[c].pc = "closed" => Len(conn[c].replies) = 1
                BY <3>1, Zenon DEF ReplyOf
            <4>3. conn[c].pc \in {"none", "negotiate", "refused", "request"}
                    => conn[c].replies = << >>
                BY <3>1 DEF ReplyOf, Silent
            <4> QED
                BY <4>1, <4>2, <4>3
    <2>2. Cardinality({c \in Session : conn[c].replies = <<ReplySucceeded>>})
            <= counter.opened
        <3> DEFINE S == {c \in Session : conn[c].replies = <<ReplySucceeded>>}
        <3>1. S \subseteq Opened
            BY DEF Opened, OpenedOf
        <3>2. IsFiniteSet(Opened)
            BY StatsAssumption, FS_Subset DEF Opened
        <3>3. /\ Cardinality(S) <= Cardinality(Opened)
              /\ Cardinality(S) \in Nat /\ Cardinality(Opened) \in Nat
            BY <3>1, <3>2, FS_Subset, FS_CardinalityType
        <3>4. Cardinality(Opened) <= counter.opened /\ counter.opened \in Nat
            BY DEF SocksInv, SocksTypeOK, Counters
        <3> HIDE DEF S
        <3>5. Cardinality(S) <= counter.opened
            BY <3>3, <3>4
        <3> QED
            BY <3>5 DEF S
    <2> QED
        BY <2>1, <2>2 DEF OneReply
<1> QED
    BY <1>1, SocksInitial, SocksInductive, PTL DEF SocksSpec
-----------------------------------------------------------------------------
(* What a snapshot may show.                                               *)

(* The events of which a slice holds a duration, by the counters.          *)
Events(s, cnt) ==
    CASE s = "timeToOpenResult" -> cnt.opened + cnt.rejected
      [] s = "sessionDurations" -> cnt.completed + cnt.failed
      [] s = "c2s" -> cnt.opened
      [] s = "s2c" -> cnt.started

(* The connection has counted its event and may still append to the slice. *)
MayAppend(s, r) ==
    CASE s = "timeToOpenResult" -> r.pc \in {"reject", "opened"}
      [] s = "sessionDurations" -> r.pc = "finish"
      [] s = "c2s" -> r.pc \in {"opened", "accepted", "stream"} /\ "c2s" \notin r.sent
      [] s = "s2c" -> r.pc \in KnownPcs \cup {"start"} /\ "s2c" \notin r.sent

Pending(s) == {c \in Session : MayAppend(s, conn[c])}

(* The counters as the running snapshot will show them if they stay.       *)
Position == [started |-> 1, opened |-> 2, rejected |-> 3, completed |-> 4, failed |-> 5]
Seen == [n \in Counters |-> IF Position[n] < snap.pc THEN snap.counter[n] ELSE counter[n]]

StatsTypeOK ==
    /\ samples \in [Slices -> Nat]
    /\ snap \in [pc : 0 .. 6, samples : [Slices -> Nat], counter : [Counters -> Nat]]

(* Every duration in a slice has its event counted, besides the events     *)
(* whose duration is still to come; so has every duration a snapshot has   *)
(* copied, in the counters it has loaded or is still to load.              *)
CoverInv ==
    /\ StatsTypeOK
    /\ \A s \in Slices : samples[s] + Cardinality(Pending(s)) <= Events(s, counter)
    /\ snap.pc > 0 => \A s \in Slices : snap.samples[s] <= Events(s, Seen)

(* The cases, one by one.                                                  *)
LEMMA EventsAre ==
    ASSUME NEW cnt
    PROVE  /\ Events("timeToOpenResult", cnt) = cnt.opened + cnt.rejected
           /\ Events("sessionDurations", cnt) = cnt.completed + cnt.failed
           /\ Events("c2s", cnt) = cnt.opened
           /\ Events("s2c", cnt) = cnt.started
BY DEF Events

(* Where a sample may be appended, slice by slice.                         *)
LEMMA MayAppendIs ==
    ASSUME NEW r
    PROVE  /\ MayAppend("timeToOpenResult", r) <=> r.pc \in {"reject", "opened"}
           /\ MayAppend("sessionDurations", r) <=> r.pc = "finish"
           /\ MayAppend("c2s", r)
                <=> r.pc \in {"opened", "accepted", "stream"} /\ "c2s" \notin r.sent
           /\ MayAppend("s2c", r)
                <=> r.pc \in KnownPcs \cup {"start"} /\ "s2c" \notin r.sent
BY DEF MayAppend

(* What a step of connection c does to a slice and its events: nothing, it *)
(* counts an event, or it appends the duration of one it had counted.      *)
Kept(s, c) == MayAppend(s, conn'[c]) => MayAppend(s, conn[c])
Recorded(s, c) ==
    \/ /\ samples'[s] = samples[s]
       /\ Events(s, counter') = Events(s, counter) /\ Kept(s, c)
    \/ /\ samples'[s] = samples[s]
       /\ Events(s, counter') = Events(s, counter) + 1
    \/ /\ samples'[s] = samples[s] + 1
       /\ Events(s, counter') = Events(s, counter)
       /\ MayAppend(s, conn[c]) /\ ~MayAppend(s, conn'[c])

(* Counters never fall.                                                    *)
CountersGrow == \A n \in Counters : counter[n] <= counter'[n]

Records(c) ==
    /\ samples' \in [Slices -> Nat]
    /\ snap' = snap
    /\ CountersGrow
    /\ \A s \in Slices : Recorded(s, c)

(* A step that records like this keeps the slices covered.                 *)
LEMMA RecordedCovers ==
    ASSUME SocksInv, CoverInv, NEW c \in Session, Frame(c), Records(c),
           NEW s \in Slices
    PROVE  samples'[s] + Cardinality(Pending(s)') <= Events(s, counter')
<1> DEFINE P == Pending(s)
           Q == Pending(s)'
<1>1. /\ IsFiniteSet(P) /\ Cardinality(P) \in Nat
      /\ IsFiniteSet(Q) /\ Cardinality(Q) \in Nat
    BY StatsAssumption, FS_Subset, FS_CardinalityType DEF Pending
<1>2. Q \subseteq P \cup {c}
    BY DEF Pending, Frame
<1>3. Kept(s, c) => Q \subseteq P
    BY DEF Pending, Frame, Kept
<1>4. MayAppend(s, conn[c]) /\ ~MayAppend(s, conn'[c]) => c \in P /\ Q \subseteq P \ {c}
    BY DEF Pending, Frame
<1>5. /\ samples[s] \in Nat /\ samples[s] + Cardinality(P) <= Events(s, counter)
      /\ Events(s, counter) \in Nat /\ Recorded(s, c)
    <2>1. Events(s, counter) \in Nat
        BY EventsAre DEF SocksInv, SocksTypeOK, Counters, Slices
    <2> QED
        BY <2>1 DEF CoverInv, StatsTypeOK, Records
<1> HIDE DEF P, Q
<1>6. IsFiniteSet(P \cup {c}) /\ Cardinality(P \cup {c}) <= Cardinality(P) + 1
    <2>1. CASE c \in P
        BY <1>1, <2>1, P \cup {c} = P
    <2>2. CASE c \notin P
        <3>1. /\ IsFiniteSet(P \cup {c})
              /\ Cardinality(P \cup {c}) = Cardinality(P) + 1
            BY <1>1, <2>2, FS_AddElement
        <3> QED
            BY <1>1, <3>1
    <2> QED
        BY <2>1, <2>2
<1>7. Cardinality(Q) <= Cardinality(P) + 1
    <2>1. Cardinality(Q) <= Cardinality(P \cup {c}) /\ Cardinality(P \cup {c}) \in Nat
        BY <1>2, <1>6, FS_Subset, FS_CardinalityType
    <2> QED
        BY <1>1, <1>6, <2>1
<1>8. Kept(s, c) => Cardinality(Q) <= Cardinality(P)
    BY <1>1, <1>3, FS_Subset
<1>9. MayAppend(s, conn[c]) /\ ~MayAppend(s, conn'[c])
        => Cardinality(Q) <= Cardinality(P) - 1
    <2> SUFFICES ASSUME c \in P, Q \subseteq P \ {c}
                 PROVE  Cardinality(Q) <= Cardinality(P) - 1
        BY <1>4
    <2>1. IsFiniteSet(P \ {c}) /\ Cardinality(P \ {c}) = Cardinality(P) - 1
        BY <1>1, FS_RemoveElement
    <2>2. Cardinality(Q) <= Cardinality(P \ {c})
        BY <2>1, FS_Subset
    <2> QED
        BY <2>1, <2>2
<1>10. samples'[s] + Cardinality(Q) <= Events(s, counter')
    BY <1>1, <1>5, <1>7, <1>8, <1>9 DEF Recorded
<1> QED
    BY <1>10 DEF Q

(* While counters only grow, what a snapshot has copied stays covered.     *)
LEMMA GrowthCovers ==
    ASSUME SocksInv, CoverInv, SocksInv', CountersGrow, snap' = snap, snap.pc > 0,
           NEW s \in Slices
    PROVE  snap.samples[s] <= Events(s, Seen')
<1>1. /\ counter \in [Counters -> Nat] /\ counter' \in [Counters -> Nat]
      /\ snap.counter \in [Counters -> Nat] /\ snap.pc \in 0 .. 6
      /\ snap.samples[s] \in Nat /\ snap.samples[s] <= Events(s, Seen)
    BY DEF SocksInv, SocksTypeOK, CoverInv, StatsTypeOK
<1>2. ASSUME NEW n \in Counters
      PROVE  Seen[n] \in Nat /\ Seen'[n] \in Nat /\ Seen[n] <= Seen'[n]
    <2>1. /\ Seen[n] = IF Position[n] < snap.pc THEN snap.counter[n] ELSE counter[n]
          /\ Seen'[n] = IF Position[n] < snap.pc THEN snap.counter[n] ELSE counter'[n]
        BY DEF Seen
    <2>2. counter[n] <= counter'[n] /\ counter[n] \in Nat /\ counter'[n] \in Nat
          /\ snap.counter[n] \in Nat
        BY <1>1 DEF CountersGrow
    <2> QED
        BY <2>1, <2>2
<1>3. Events(s, Seen) \in Nat /\ Events(s, Seen') \in Nat /\ Events(s, Seen) <= Events(s, Seen')
    <2> USE EventsAre DEF Counters
    <2>1. CASE s = "timeToOpenResult"
        BY <1>2, <2>1
    <2>2. CASE s = "sessionDurations"
        BY <1>2, <2>2
    <2>3. CASE s = "c2s"
        BY <1>2, <2>3
    <2>4. CASE s = "s2c"
        BY <1>2, <2>4
    <2> QED
        BY <2>1, <2>2, <2>3, <2>4 DEF Slices
<1> QED
    BY <1>1, <1>3

KeepsAll(c) == \A s \in Slices : Kept(s, c)

(* A step that only moves the connection.                                  *)
LEMMA MoveRecords ==
    ASSUME SocksInv, CoverInv, NEW c \in Session, KeepsAll(c),
           UNCHANGED <<counter, samples, snap>>
    PROVE  Records(c)
<1>1. CountersGrow
    BY DEF CountersGrow, SocksInv, SocksTypeOK
<1> QED
    BY <1>1 DEF Records, Recorded, KeepsAll, CoverInv, StatsTypeOK

(* A step that adds to a counter: slices it does not count for see a move. *)
LEMMA AddRecords ==
    ASSUME SocksInv, CoverInv, NEW c \in Session, NEW n \in Counters, Add(n),
           UNCHANGED <<samples, snap>>,
           n \notin {"opened", "rejected"} => Kept("timeToOpenResult", c),
           n \notin {"completed", "failed"} => Kept("sessionDurations", c),
           n # "opened" => Kept("c2s", c),
           n # "started" => Kept("s2c", c)
    PROVE  Records(c)
<1>1. /\ counter \in [Counters -> Nat] /\ samples \in [Slices -> Nat]
      /\ counter' = [counter EXCEPT ![n] = counter[n] + 1]
    BY DEF SocksInv, SocksTypeOK, CoverInv, StatsTypeOK, Add
<1>2. CountersGrow
    BY <1>1 DEF CountersGrow
<1>3. /\ \A m \in Counters : m # n => counter'[m] = counter[m]
      /\ counter'[n] = counter[n] + 1
      /\ \A m \in Counters : counter[m] \in Nat
    BY <1>1
<1>4. Recorded("timeToOpenResult", c)
    BY <1>3, EventsAre DEF Recorded, Counters
<1>5. Recorded("sessionDurations", c)
    BY <1>3, EventsAre DEF Recorded, Counters
<1>6. Recorded("c2s", c) /\ Recorded("s2c", c)
    BY <1>3, EventsAre DEF Recorded, Counters
<1> QED
    BY <1>1, <1>2, <1>4, <1>5, <1>6 DEF Records, Slices

(* A step that appends to a slice what its connection may append.          *)
LEMMA AppendRecords ==
    ASSUME SocksInv, CoverInv, NEW c \in Session, NEW s \in Slices, AppendTo(s),
           UNCHANGED <<counter, snap>>,
           MayAppend(s, conn[c]), ~MayAppend(s, conn'[c]),
           \A r \in Slices \ {s} : Kept(r, c)
    PROVE  Records(c)
<1>1. /\ samples \in [Slices -> Nat]
      /\ samples' = [samples EXCEPT ![s] = samples[s] + 1]
    BY DEF CoverInv, StatsTypeOK, AppendTo
<1>2. CountersGrow
    BY DEF CountersGrow, SocksInv, SocksTypeOK
<1>3. /\ samples' \in [Slices -> Nat]
      /\ samples'[s] = samples[s] + 1 /\ \A r \in Slices \ {s} : samples'[r] = samples[r]
    BY <1>1
<1>4. ASSUME NEW r \in Slices PROVE Recorded(r, c)
    BY <1>3 DEF Recorded
<1> QED
    BY <1>2, <1>3, <1>4 DEF Records

(* Where a connection may go without owing a slice anything new.           *)
LEMMA MovesKeep ==
    ASSUME NEW c, conn'[c].sent = conn[c].sent
    PROVE  /\ conn'[c].pc \notin {"reject", "opened"} => Kept("timeToOpenResult", c)
           /\ conn'[c].pc # "finish" => Kept("sessionDurations", c)
           /\ (conn'[c].pc \in {"opened", "accepted", "stream"}
                 => conn[c].pc \in {"opened", "accepted", "stream"}) => Kept("c2s", c)
           /\ (conn'[c].pc \in KnownPcs \cup {"start"}
                 => conn[c].pc \in KnownPcs \cup {"start"}) => Kept("s2c", c)
BY MayAppendIs DEF Kept

(* A first data object: a duration is recorded only for a session whose    *)
(* start is known, and once.                                               *)
LEMMA FirstDataRecords ==
    ASSUME SocksInv, CoverInv, NEW c \in Session, NEW dir \in Direction,
           recordFirstData(c, dir), dir \notin conn[c].sent, snap' = snap,
           conn' = [conn EXCEPT ![c].sent = @ \cup {dir}],
           dir = "c2s" => conn[c].pc = "stream"
    PROVE  Records(c)
<1>0. conn'[c].pc = conn[c].pc /\ conn'[c].sent = conn[c].sent \cup {dir}
    BY SentFacts DEF SocksInv
<1>1. KeepsAll(c) /\ ~MayAppend(dir, conn'[c])
    <2>1. Kept("timeToOpenResult", c) /\ Kept("sessionDurations", c)
        BY <1>0, MayAppendIs DEF Kept
    <2>2. Kept("c2s", c) /\ Kept("s2c", c)
        BY <1>0, MayAppendIs DEF Kept
    <2>3. ~MayAppend(dir, conn'[c])
        BY <1>0, MayAppendIs DEF Direction
    <2> QED
        BY <2>1, <2>2, <2>3 DEF KeepsAll, Slices
<1>2. CASE UNCHANGED samples
    BY <1>1, <1>2, MoveRecords DEF recordFirstData
<1>3. CASE c \in sessionStarts /\ AppendTo(dir)
    <2>1. conn[c].pc \in KnownPcs
        BY <1>3 DEF SocksInv, MapsInv
    <2>2. MayAppend(dir, conn[c])
        BY <2>1, MayAppendIs DEF Direction
    <2> QED
        BY <1>1, <1>3, <2>2, AppendRecords DEF recordFirstData, KeepsAll, Slices, Direction
<1> QED
    BY <1>2, <1>3 DEF recordFirstData

(* Every step of a connection records like this.                           *)
LEMMA StepRecords ==
    ASSUME SocksInv, CoverInv, NEW c \in Session,
           Accept(c) \/ handleConn(c) \/ ServerFirstData(c)
    PROVE  Records(c)
<1> USE DEF At, KnownPcs, Pcs, CountedPcs, Codes, ReplySucceeded, statVars
<1> SocksTypeOK /\ ReplyOf(conn[c])
    BY DEF SocksInv, ReplyInv
<1>0. ASSUME UNCHANGED <<statVars, snap>>, conn'[c].sent = conn[c].sent,
             conn'[c].pc \notin {"reject", "opened", "finish"},
             conn'[c].pc \in {"accepted", "stream"} => conn[c].pc \in {"accepted", "stream"},
             conn'[c].pc \in KnownPcs \cup {"start"} => conn[c].pc \in KnownPcs \cup {"start"}
      PROVE  Records(c)
    <2>1. KeepsAll(c)
        BY <1>0, MovesKeep DEF KeepsAll, Slices
    <2> QED
        BY <1>0, <2>1, MoveRecords
<1>1. CASE Accept(c)
    BY <1>0, <1>1, GotoFacts DEF Accept
<1>2. ASSUME NEW ok \in BOOLEAN, Negotiate(c, ok) PROVE Records(c)
    <2>1. Goto(c, "request") \/ Goto(c, "refused")
        BY <1>2 DEF Negotiate
    <2> QED
        BY <1>0, <1>2, <2>1, GotoFacts DEF Negotiate
<1>3. ASSUME NEW outcome \in {"connect", "bind", "bad", "norandom"}, Request(c, outcome)
      PROVE  Records(c)
    <2>0. conn[c].pc = "request" /\ conn[c].replies = << >> /\ Silent(conn[c])
        BY <1>3 DEF Request, ReplyOf, Silent
    <2>1. CASE Goto(c, "start0")
        BY <1>0, <1>3, <2>1, GotoFacts DEF Request
    <2>2. CASE writeReply(c, "command", "closed")
        BY <1>0, <1>3, <2>0, <2>2, WriteFacts DEF Request
    <2>3. CASE writeReply(c, "general", "closed")
        BY <1>0, <1>3, <2>0, <2>3, WriteFacts DEF Request
    <2>4. CASE reply(c, "general", "return")
        BY <1>0, <1>3, <2>0, <2>4, ReplyFacts DEF Request
    <2> QED
        BY <1>3, <2>1, <2>2, <2>3, <2>4 DEF Request
<1>4. CASE StartCount(c)
    <2>1. conn[c].pc = "start0" /\ conn'[c].pc = "start" /\ conn'[c].sent = conn[c].sent
        BY <1>4, GotoFacts DEF StartCount
    <2> QED
        BY <1>4, <2>1, MovesKeep, AddRecords DEF StartCount, Counters
<1>5. CASE StartSection(c)
    <2>1. conn[c].pc = "start" /\ conn'[c].pc = "open" /\ conn'[c].sent = conn[c].sent
        BY <1>5, GotoFacts DEF StartSection
    <2>2. KeepsAll(c)
        BY <2>1, MovesKeep DEF KeepsAll, Slices
    <2> QED
        BY <1>5, <2>2, MoveRecords DEF StartSection, startSection
<1>6. ASSUME NEW ok \in BOOLEAN, PutOpen(c, ok) PROVE Records(c)
    <2>1. CASE Goto(c, "wait")
        BY <1>0, <1>6, <2>1, GotoFacts DEF PutOpen
    <2>2. CASE FailWith(c, "general")
        BY <1>0, <1>6, <2>2, FailFacts DEF PutOpen
    <2> QED
        BY <1>6, <2>1, <2>2 DEF PutOpen
<1>7. ASSUME NEW outcome \in {"error", "rejected", "accepted"}, WaitResult(c, outcome)
      PROVE  Records(c)
    <2>1. CASE FailWith(c, "unreachable") /\ UNCHANGED counter
        BY <1>0, <1>7, <2>1, FailFacts DEF WaitResult
    <2>2. CASE Add("rejected") /\ Goto(c, "reject")
        <3>1. conn[c].pc = "wait" /\ conn'[c].pc = "reject" /\ conn'[c].sent = conn[c].sent
            BY <1>7, <2>2, GotoFacts DEF WaitResult
        <3> QED
            BY <1>7, <2>2, <3>1, MovesKeep, AddRecords DEF WaitResult, Counters
    <2>3. CASE Add("opened") /\ Goto(c, "opened")
        <3>1. conn[c].pc = "wait" /\ conn'[c].pc = "opened" /\ conn'[c].sent = conn[c].sent
            BY <1>7, <2>3, GotoFacts DEF WaitResult
        <3> QED
            BY <1>7, <2>3, <3>1, MovesKeep, AddRecords DEF WaitResult, Counters
    <2> QED
        BY <1>7, <2>1, <2>2, <2>3 DEF WaitResult
<1>8. CASE RejectSection(c)
    <2>1. conn[c].pc = "reject" /\ Silent(conn[c])
        BY <1>8 DEF RejectSection, ReplyOf
    <2>2. conn'[c].pc = "return" /\ conn'[c].sent = conn[c].sent
        BY <1>8, <2>1, ReplyFacts DEF RejectSection
    <2>3. /\ \A r \in Slices \ {"timeToOpenResult"} : Kept(r, c)
          /\ MayAppend("timeToOpenResult", conn[c]) /\ ~MayAppend("timeToOpenResult", conn'[c])
        BY <2>1, <2>2, MovesKeep, MayAppendIs DEF Slices
    <2> QED
        BY <1>8, <2>3, AppendRecords DEF RejectSection, rejectSection, Slices
<1>9. CASE OpenSection(c)
    <2>1. conn[c].pc = "opened" /\ conn'[c].pc = "accepted" /\ conn'[c].sent = conn[c].sent
        BY <1>9, GotoFacts DEF OpenSection
    <2>2. /\ \A r \in Slices \ {"timeToOpenResult"} : Kept(r, c)
          /\ MayAppend("timeToOpenResult", conn[c]) /\ ~MayAppend("timeToOpenResult", conn'[c])
        BY <2>1, MovesKeep, MayAppendIs DEF Slices
    <2> QED
        BY <1>9, <2>2, AppendRecords DEF OpenSection, openSection, Slices
<1>10. ASSUME NEW ok \in BOOLEAN, ReplyAccepted(c, ok) PROVE Records(c)
    <2>1. CASE ok
        <3>1. Silent(conn[c]) /\ conn[c].pc = "accepted"
            BY <1>10 DEF ReplyAccepted, ReplyOf
        <3> QED
            BY <1>0, <1>10, <2>1, <3>1, ReplyFacts DEF ReplyAccepted
    <2>2. CASE ~ok
        <3>1. /\ conn[c].pc = "accepted" /\ conn'[c].pc = "end"
              /\ conn'[c].sent = conn[c].sent
            BY <1>10, <2>2 DEF ReplyAccepted, SocksTypeOK, Conns
        <3> QED
            BY <1>0, <1>10, <3>1 DEF ReplyAccepted
    <2> QED
        BY <2>1, <2>2
<1>11. CASE ClientFirstData(c)
    BY <1>11, FirstDataRecords DEF ClientFirstData, Direction
<1>12. CASE ServerFirstData(c)
    BY <1>12, FirstDataRecords DEF ServerFirstData, Direction
<1>13. ASSUME NEW result \in {"completed", "failed"}, StreamsEnd(c, result)
       PROVE  Records(c)
    BY <1>0, <1>13, EndFacts DEF StreamsEnd
<1>14. CASE FinishCount(c)
    <2>1. conn[c].pc = "end" /\ conn'[c].pc = "finish" /\ conn'[c].sent = conn[c].sent
        BY <1>14, GotoFacts DEF FinishCount
    <2>2. conn[c].result \in {"completed", "failed"}
        BY <2>1 DEF ReplyOf
    <2> QED
        BY <1>14, <2>1, <2>2, MovesKeep, AddRecords DEF FinishCount, Counters
<1>15. CASE FinishSection(c)
    <2>1. conn[c].pc = "finish"
        BY <1>15 DEF FinishSection
    <2>2. conn'[c].pc = "return" /\ conn'[c].sent = conn[c].sent
        <3>1. CASE conn[c].after = "none"
            BY <1>15, <3>1, GotoFacts DEF FinishSection
        <3>2. CASE conn[c].after # "none"
            <4>1. conn[c].after \in {"general", "unreachable"} /\ Silent(conn[c])
                BY <2>1, <3>2 DEF SocksTypeOK, Conns, ReplyOf
            <4> QED
                BY <1>15, <3>2, <4>1, ReplyFacts DEF FinishSection
        <3> QED
            BY <3>1, <3>2
    <2>3. /\ \A r \in Slices \ {"sessionDurations"} : Kept(r, c)
          /\ MayAppend("sessionDurations", conn[c]) /\ ~MayAppend("sessionDurations", conn'[c])
        BY <2>1, <2>2, MovesKeep, MayAppendIs DEF Slices
    <2> QED
        BY <1>15, <2>3, AppendRecords DEF FinishSection, finishSection, Slices
<1>16. CASE HandlerReturns(c)
    <2>1. Goto(c, "closed")
        BY <1>16 DEF HandlerReturns, ReplyOf, Answered
    <2> QED
        BY <1>0, <1>16, <2>1, GotoFacts DEF HandlerReturns
<1> QED
    BY <1>1, <1>2, <1>3, <1>4, <1>5, <1>6, <1>7, <1>8, <1>9, <1>10, <1>11, <1>12,
       <1>13, <1>14, <1>15, <1>16 DEF handleConn, HandleSOCKS

(* Nothing is recorded before the first connection.                        *)
LEMMA CoverInitial == SocksInit => CoverInv
<1> SUFFICES ASSUME SocksInit PROVE CoverInv
    OBVIOUS
<1>1. StatsTypeOK /\ snap.pc = 0
    BY DEF SocksInit, StatsInit, StatsTypeOK, Counters, Slices
<1>2. ASSUME NEW s \in Slices
      PROVE  samples[s] + Cardinality(Pending(s)) <= Events(s, counter)
    <2>1. Pending(s) = {}
        BY MayAppendIs DEF SocksInit, Pending, KnownPcs, Slices
    <2>2. Cardinality(Pending(s)) = 0
        BY <2>1, FS_EmptySet
    <2>3. samples[s] = 0 /\ Events(s, counter) = 0
        BY EventsAre DEF SocksInit, StatsInit, Counters, Slices
    <2> QED
        BY <2>2, <2>3
<1> QED
    BY <1>1, <1>2 DEF CoverInv

(* Copying the slices: each is covered by the counters of that moment, and *)
(* all of them are still to be loaded.                                     *)
LEMMA CopyCovers ==
    ASSUME SocksInv, CoverInv, SnapshotCopy, UNCHANGED conn
    PROVE  CoverInv'
<1>1. /\ snap \in [pc : 0 .. 6, samples : [Slices -> Nat], counter : [Counters -> Nat]]
      /\ samples \in [Slices -> Nat] /\ counter \in [Counters -> Nat]
      /\ snap' = [snap EXCEPT !.pc = 1, !.samples = samples]
      /\ UNCHANGED <<counter, samples>>
    BY DEF SocksInv, SocksTypeOK, CoverInv, StatsTypeOK, SnapshotCopy, statVars
<1>2. /\ snap' \in [pc : 0 .. 6, samples : [Slices -> Nat], counter : [Counters -> Nat]]
      /\ snap'.pc = 1 /\ snap'.samples = samples
    <2>1. snap' = [pc |-> 1, samples |-> samples, counter |-> snap.counter]
        BY <1>1
    <2>2. snap.counter \in [Counters -> Nat] /\ 1 \in 0 .. 6
        BY <1>1
    <2> QED
        BY <1>1, <2>1, <2>2
<1>3. Seen' = counter
    BY <1>1, <1>2 DEF Seen, Position, Counters
<1>4. ASSUME NEW s \in Slices
      PROVE  /\ samples[s] + Cardinality(Pending(s)) <= Events(s, counter)
             /\ samples[s] \in Nat /\ Cardinality(Pending(s)) \in Nat
             /\ Events(s, counter) \in Nat
    <2>1. IsFiniteSet(Pending(s))
        BY StatsAssumption, FS_Subset DEF Pending
    <2>2. Cardinality(Pending(s)) \in Nat
        BY <2>1, FS_CardinalityType
    <2>3. Events(s, counter) \in Nat
        BY <1>1, EventsAre DEF Counters, Slices
    <2> QED
        BY <1>1, <2>2, <2>3 DEF CoverInv
<1>5. ASSUME NEW s \in Slices PROVE snap'.samples[s] <= Events(s, Seen')
    <2>1. samples[s] <= Events(s, counter)
        BY <1>4
    <2> QED
        BY <1>2, <1>3, <2>1
<1>6. ASSUME NEW s \in Slices
      PROVE  (samples[s] + Cardinality(Pending(s)) <= Events(s, counter))'
    BY <1>1, <1>4 DEF Pending
<1> QED
    BY <1>1, <1>2, <1>5, <1>6 DEF CoverInv, StatsTypeOK

(* Loading a counter does not change what the snapshot will show.          *)
LEMMA LoadCovers ==
    ASSUME SocksInv, CoverInv, SnapshotLoad, UNCHANGED conn
    PROVE  CoverInv'
<1> DEFINE n == LoadOrder[snap.pc]
<1>1. /\ snap \in [pc : 0 .. 6, samples : [Slices -> Nat], counter : [Counters -> Nat]]
      /\ counter \in [Counters -> Nat] /\ snap.pc \in 1 .. 5
      /\ UNCHANGED <<counter, samples>>
    BY DEF SocksInv, SocksTypeOK, CoverInv, StatsTypeOK, SnapshotLoad, statVars
<1>2. n \in Counters /\ Position[n] = snap.pc
      /\ \A m \in Counters : m # n => Position[m] # snap.pc
    BY <1>1 DEF LoadOrder, Position, Counters
<1>3. snap' = [snap EXCEPT !.pc = snap.pc + 1,
                           !.counter = [snap.counter EXCEPT ![n] = counter[n]]]
    BY <1>1 DEF SnapshotLoad
<1> HIDE DEF n
<1>4. /\ snap' \in [pc : 0 .. 6, samples : [Slices -> Nat], counter : [Counters -> Nat]]
      /\ snap'.pc = snap.pc + 1 /\ snap'.samples = snap.samples
      /\ snap'.counter = [snap.counter EXCEPT ![n] = counter[n]]
    <2> DEFINE f == [snap.counter EXCEPT ![n] = counter[n]]
    <2>1. snap' = [pc |-> snap.pc + 1, samples |-> snap.samples, counter |-> f]
        BY <1>1, <1>3
    <2>2. f \in [Counters -> Nat]
        BY <1>1, <1>2
    <2>3. snap.pc + 1 \in 0 .. 6 /\ snap.samples \in [Slices -> Nat]
        BY <1>1
    <2> HIDE DEF f
    <2>4. /\ snap' \in [pc : 0 .. 6, samples : [Slices -> Nat], counter : [Counters -> Nat]]
          /\ snap'.pc = snap.pc + 1 /\ snap'.samples = snap.samples /\ snap'.counter = f
        BY <2>1, <2>2, <2>3
    <2> QED
        BY <2>4 DEF f
<1>5. \A m \in Counters : Position[m] \in 1 .. 5
    BY DEF Position, Counters
<1>6. ASSUME NEW m \in Counters PROVE Seen'[m] = Seen[m]
    <2>1. /\ Seen[m] = IF Position[m] < snap.pc THEN snap.counter[m] ELSE counter[m]
          /\ Seen'[m] = IF Position[m] < snap'.pc THEN snap'.counter[m] ELSE counter[m]
        BY <1>1 DEF Seen
    <2>2. CASE m = n
        BY <1>1, <1>2, <1>4, <2>1, <2>2
    <2>3. CASE m # n
        BY <1>1, <1>2, <1>4, <1>5, <2>1, <2>3
    <2> QED
        BY <2>2, <2>3
<1>7. Seen' = Seen
    BY <1>6 DEF Seen
<1>8. ASSUME NEW s \in Slices
      PROVE  (samples[s] + Cardinality(Pending(s)) <= Events(s, counter))'
    BY <1>1 DEF Pending, CoverInv
<1> QED
    BY <1>1, <1>4, <1>7, <1>8 DEF CoverInv, StatsTypeOK

(* The slices stay covered in every step.                                  *)
LEMMA CoverInductive ==
    SocksInv /\ SocksInv' /\ CoverInv /\ [SocksNext]_socksVars => CoverInv'
<1> SUFFICES ASSUME SocksInv, SocksInv', CoverInv, [SocksNext]_socksVars PROVE CoverInv'
    OBVIOUS
<1>1. ASSUME NEW c \in Session, Accept(c) \/ handleConn(c) \/ ServerFirstData(c)
      PROVE  CoverInv'
    <2>1. Frame(c) /\ Records(c)
        BY <1>1, StepEffect, StepRecords DEF Effect
    <2>2. \A s \in Slices : samples'[s] + Cardinality(Pending(s)') <= Events(s, counter')
        BY <2>1, RecordedCovers
    <2>3. snap.pc > 0 => \A s \in Slices : snap.samples[s] <= Events(s, Seen')
        BY <2>1, GrowthCovers DEF Records
    <2>4. StatsTypeOK' /\ snap' = snap
        BY <2>1 DEF Records, CoverInv, StatsTypeOK
    <2> QED
        BY <2>2, <2>3, <2>4 DEF CoverInv
<1>2. CASE UNCHANGED <<counter, samples, snap, conn>>
    BY <1>2 DEF CoverInv, StatsTypeOK, Pending, Seen
<1>3. CASE TakeSnapshot
    BY <1>3, CopyCovers, LoadCovers DEF TakeSnapshot
<1>4. CASE ServeEnds \/ UNCHANGED socksVars
    BY <1>2, <1>4 DEF ServeEnds, statVars, socksVars
<1> QED
    BY <1>1, <1>3, <1>4 DEF SocksNext

(* A snapshot never shows a duration whose event it does not count,        *)
(* however many sessions record while it copies and loads.                 *)
THEOREM SnapshotsCoverSamples == SocksSpec => []SnapshotCoversSamples
<1>1. SocksInv /\ CoverInv => SnapshotCoversSamples
    <2> SUFFICES ASSUME SocksInv, CoverInv, snap.pc = 6
                 PROVE  SnapshotCoversSamples
        BY DEF SnapshotCoversSamples, SnapshotDone
    <2>1. Seen = snap.counter
        BY DEF Seen, Position, Counters, CoverInv, StatsTypeOK
    <2>2. \A s \in Slices : snap.samples[s] <= Events(s, snap.counter)
        BY <2>1 DEF CoverInv
    <2> QED
        BY <2>2, EventsAre DEF SnapshotCoversSamples, Slices, CoverInv, StatsTypeOK
<1> QED
    BY <1>1, SocksInitial, SocksInductive, CoverInitial, CoverInductive, PTL DEF SocksSpec
=============================================================================
