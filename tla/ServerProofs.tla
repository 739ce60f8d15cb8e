---------------------------- MODULE ServerProofs ----------------------------
(***************************************************************************)
(* Theorems about Server for every set of sessions, number of slots, page  *)
(* size, restarts and faults.  The first part accounts for slots and       *)
(* inFlight; the second follows one request from its open object to its    *)
(* verdict, with every lost DELETE on the way.                             *)
(***************************************************************************)
EXTENDS Server, FiniteSetTheorems, TLAPS

BusySet == {id \in Sessions : Busy(id)}

(* The busy sessions can be counted.                                       *)
LEMMA BusyCount ==
    /\ IsFiniteSet(BusySet)
    /\ Cardinality(BusySet) \in Nat
BY ServerAssumption, FS_Subset, FS_CardinalityType DEF BusySet

(* There is at most one first key.                                         *)
LEMMA OneVisited ==
    ASSUME ServerTypeOK, NEW i \in Visited
    PROVE  Visited = {i} /\ i \in Sessions
<1>1. run.keys \subseteq Nat /\ run.keys \subseteq Sessions /\ i \in run.keys
  BY ServerAssumption DEF ServerTypeOK, Visited
<1>2. ASSUME NEW j \in Visited PROVE j = i
  <2>1. i \in Nat /\ j \in Nat /\ i <= j /\ j <= i
    BY <1>1, <1>2 DEF Visited, IsFirst
  <2>. QED BY <2>1
<1>. QED BY <1>1, <1>2
-----------------------------------------------------------------------------
(* Nothing is open and no slot is taken at first.                          *)
LEMMA InitServerInv == ServerInit => ServerInv
<1>. SUFFICES ASSUME ServerInit PROVE ServerInv
  OBVIOUS
<1>. USE ServerAssumption DEF ServerInit, NewRun
<1>1. ServerTypeOK
  BY DEF ServerTypeOK, HandlerPcs
<1>2. {id \in Sessions : Busy(id)} = {}
  BY DEF Busy
<1>3. Slots \in Nat
  BY DEF Slots
<1>4. SlotsAccounted
  BY <1>2, <1>3, FS_EmptySet DEF SlotsAccounted
<1>5. InFlightExact /\ RunInv
  BY <1>2 DEF InFlightExact, RunInv
<1>. QED BY <1>1, <1>4, <1>5 DEF ServerInv

(* A handler that goes on to another state keeps its slot and its entry.   *)
LEMMA HandlerMoves ==
    ASSUME ServerInv, NEW id \in Sessions, NEW pc \in HandlerPcs \ {"none"},
           hnd[id] # "none", Goto(id, pc), UNCHANGED <<run, inFlight, sem, exiting, restarts>>
    PROVE  SlotsAccounted' /\ InFlightExact' /\ RunInv' /\ hnd' \in [Sessions -> HandlerPcs]
<1>1. hnd' \in [Sessions -> HandlerPcs]
  BY DEF ServerInv, ServerTypeOK, Goto
<1>2. \A j \in Sessions : Busy(j)' <=> Busy(j)
  BY DEF Busy, Goto, ServerInv, ServerTypeOK
<1>3. {j \in Sessions : Busy(j)}' = {j \in Sessions : Busy(j)}
  BY <1>2
<1>4. Visited' = Visited /\ (run.pc = "slot" => Visited \subseteq Sessions)
  BY DEF Visited, IsFirst, ServerInv, ServerTypeOK
<1>5. SlotsAccounted'
  BY <1>3 DEF SlotsAccounted, ServerInv
<1>6. InFlightExact'
  BY <1>3, <1>4 DEF InFlightExact, ServerInv
<1>7. RunInv'
  BY <1>2, <1>4 DEF RunInv, ServerInv
<1>. QED BY <1>1, <1>5, <1>6, <1>7

(* A step that leaves the memory of the server alone keeps the accounts.   *)
LEMMA MemoryAlone ==
    ASSUME ServerInv, UNCHANGED <<serverMem, restarts>>
    PROVE  SlotsAccounted' /\ InFlightExact' /\ RunInv'
BY DEF ServerInv, serverMem, SlotsAccounted, InFlightExact, RunInv, Busy, Visited, IsFirst

(* So does a step of the loop that neither claims nor starts a session.    *)
LEMMA LoopMoves ==
    ASSUME ServerInv, run.pc \in {"list", "visit", "down"}, run'.pc \in {"list", "visit"},
           UNCHANGED <<inFlight, hnd, sem, exiting>>
    PROVE  SlotsAccounted' /\ InFlightExact' /\ RunInv'
<1>1. {j \in Sessions : Busy(j)}' = {j \in Sessions : Busy(j)}
  BY DEF Busy
<1>. QED BY <1>1 DEF ServerInv, SlotsAccounted, InFlightExact, RunInv

(* The steps of a client keep the types and leave the server loop alone.   *)
LEMMA ClientKeepsType ==
    ASSUME ServerInv, NEW id \in Sessions, ClientStep(id)
    PROVE  ServerTypeOK' /\ UNCHANGED <<serverMem, restarts>>
<1>. USE DEF ServerInv
<1>1. UNCHANGED <<serverMem, dials, lost, restarts>>
  BY DEF ClientStep, CliOpen, CliOpenFails, CliVerdict, CliReplyFails, CliTimeout, CliGetFails
<1>2. result' = result
  BY DEF ClientStep, CliOpen, CliOpenFails, CliVerdict, CliReplyFails, CliTimeout, CliGetFails, bucket
<1>3. cli' \in [Sessions -> {"idle", "wait", "accepted", "rejected", "failed"}]
  BY DEF ClientStep, CliOpen, CliOpenFails, CliVerdict, CliReplyFails, CliTimeout, CliGetFails,
         ServerTypeOK
<1>4. open' \in [Sessions -> {"none", "valid", "invalid", "garbled"}]
  <2>1. \A req \in Requests[id] : req \in {"none", "valid", "invalid", "garbled"}
    BY ServerAssumption
  <2>2. CASE UNCHANGED open
    BY <2>2 DEF ServerTypeOK
  <2>3. ASSUME NEW req \in Requests[id], open' = [open EXCEPT ![id] = req]
        PROVE  open' \in [Sessions -> {"none", "valid", "invalid", "garbled"}]
    BY <2>1, <2>3 DEF ServerTypeOK
  <2>. QED BY <2>2, <2>3 DEF ClientStep, CliOpen, CliOpenFails, CliVerdict, CliReplyFails, CliTimeout,
                             CliGetFails, bucket
<1>. QED BY <1>1, <1>2, <1>3, <1>4 DEF ServerTypeOK, serverMem

(* A LIST of the server loop preserves the invariant.                      *)
LEMMA ListKeepsInv ==
    ASSUME ServerInv, RunListPage
    PROVE  ServerInv'
<1>. USE DEF ServerInv
<1>1. run.pc = "list" /\ UNCHANGED <<open, result, cli, inFlight, hnd, sem, exiting, dials, lost, restarts>>
  BY DEF RunListPage, bucket
<1>2. run' \in [pc : {"list", "visit"}, cursor : Sessions \cup {-1}, keys : SUBSET Sessions]
  <2>1. PageOf(OpenAfter(run.cursor)) \subseteq Sessions
    BY DEF PageOf, OpenAfter
  <2>2. run.keys \cup PageOf(OpenAfter(run.cursor)) \in SUBSET Sessions
    BY <2>1 DEF ServerTypeOK
  <2>3. CASE run' = [pc |-> "visit", cursor |-> -1, keys |-> run.keys \cup PageOf(OpenAfter(run.cursor))]
    BY <2>2, <2>3
  <2>4. ASSUME NEW last \in PageOf(OpenAfter(run.cursor)),
               run' = [run EXCEPT !.cursor = last, !.keys = run.keys \cup PageOf(OpenAfter(run.cursor))]
        PROVE  run' \in [pc : {"list", "visit"}, cursor : Sessions \cup {-1}, keys : SUBSET Sessions]
    BY <1>1, <2>1, <2>2, <2>4 DEF ServerTypeOK
  <2>. QED BY <2>3, <2>4 DEF RunListPage
<1>3. ServerTypeOK'
  BY <1>1, <1>2 DEF ServerTypeOK
<1>. QED BY <1>1, <1>2, <1>3, LoopMoves

(* So does skipping a key.                                                 *)
LEMMA SkipKeepsInv ==
    ASSUME ServerInv, NEW id \in Sessions, RunSkip(id)
    PROVE  ServerInv'
<1>. USE DEF ServerInv
<1>1. ServerTypeOK' /\ run.pc = "visit" /\ run'.pc = "visit"
  BY DEF RunSkip, ServerTypeOK, bucket
<1>. QED BY <1>1, LoopMoves DEF RunSkip

(* So does the start of a round, also the first one of a new process.      *)
LEMMA RoundKeepsInv ==
    ASSUME ServerInv, RunNextRound \/ ServerStarts, restarts' \in 0 .. MaxRestarts
    PROVE  ServerInv'
<1>. USE DEF ServerInv
<1>1. ServerTypeOK' /\ run.pc \in {"visit", "down"} /\ run'.pc = "list"
  BY DEF RunNextRound, ServerStarts, NewRun, ServerTypeOK, bucket
<1>. QED BY <1>1, LoopMoves DEF RunNextRound, ServerStarts

(* So does claiming a request, for which the loop then waits for a slot.   *)
LEMMA ClaimKeepsInv ==
    ASSUME ServerInv, NEW id \in Sessions, RunClaim(id)
    PROVE  ServerInv'
<1>. USE DEF ServerInv
<1>1. ServerTypeOK' /\ run.pc = "visit" /\ run'.pc = "slot" /\ run'.keys = run.keys
  BY DEF RunClaim, ServerTypeOK, bucket
<1>2. Visited = {id} /\ Visited' = {id}
  BY <1>1, OneVisited DEF RunClaim, Visited, IsFirst
<1>3. {j \in Sessions : Busy(j)}' = {j \in Sessions : Busy(j)}
  BY DEF RunClaim, Busy
<1>4. ~Busy(id)'
  BY <1>1 DEF RunClaim, InFlightExact, Busy
<1>5. SlotsAccounted'
  BY <1>3 DEF RunClaim, SlotsAccounted
<1>6. InFlightExact'
  BY <1>1, <1>2, <1>3 DEF RunClaim, InFlightExact
<1>7. RunInv'
  BY <1>1, <1>2, <1>4 DEF RunInv
<1>. QED BY <1>1, <1>5, <1>6, <1>7

(* Starting a handler takes one slot for one more busy session.            *)
LEMMA StartKeepsInv ==
    ASSUME ServerInv, NEW id \in Sessions, RunStart(id)
    PROVE  ServerInv'
<1>. USE DEF ServerInv
<1>1. ServerTypeOK' /\ run.pc = "slot" /\ run'.pc = "visit"
  <2>1. hnd' \in [Sessions -> HandlerPcs]
    BY DEF RunStart, ServerTypeOK, HandlerPcs
  <2>2. run' \in [pc : {"visit"}, cursor : Sessions \cup {-1}, keys : SUBSET Sessions]
    BY DEF RunStart, ServerTypeOK
  <2>3. sem' \in Nat
    BY DEF RunStart, ServerTypeOK
  <2>. QED BY <2>1, <2>2, <2>3 DEF RunStart, ServerTypeOK, bucket
<1>2. Visited = {id} /\ ~Busy(id)
  BY <1>1, OneVisited DEF RunStart, RunInv
<1>3. {j \in Sessions : Busy(j)}' = {j \in Sessions : Busy(j)} \cup {id}
  BY DEF RunStart, Busy, ServerTypeOK
<1>4. Cardinality({j \in Sessions : Busy(j)}') = Cardinality({j \in Sessions : Busy(j)}) + 1
  BY <1>2, <1>3, BusyCount, FS_AddElement DEF BusySet
<1>5. SlotsAccounted'
  <2>1. Slots \in Nat /\ Slots' = Slots
    BY ServerAssumption DEF Slots
  <2>. QED BY <1>4, <2>1, BusyCount DEF RunStart, SlotsAccounted, BusySet, ServerTypeOK
<1>6. InFlightExact'
  BY <1>1, <1>2, <1>3 DEF RunStart, InFlightExact
<1>7. RunInv'
  BY <1>1 DEF RunInv
<1>. QED BY <1>1, <1>5, <1>6, <1>7

(* So does a crash of the server.                                          *)
LEMMA DiesKeepsInv ==
    ASSUME ServerInv, ServerDies
    PROVE  ServerInv'
<1>. USE DEF ServerInv
<1>1. ServerTypeOK' /\ run'.pc = "down" /\ inFlight' = {}
  BY DEF ServerDies, ServerTypeOK, HandlerPcs, bucket
<1>2. {j \in Sessions : Busy(j)}' = {}
  BY DEF ServerDies, Busy
<1>3. SlotsAccounted'
  <2>1. Slots \in Nat /\ Slots' = Slots
    BY ServerAssumption DEF Slots
  <2>2. sem' = 0 /\ exiting' = 0
    BY DEF ServerDies
  <2>3. Cardinality({j \in Sessions : Busy(j)}') = 0
    BY <1>2, FS_EmptySet
  <2>. QED BY <2>1, <2>2, <2>3 DEF SlotsAccounted
<1>4. InFlightExact' /\ RunInv'
  BY <1>1, <1>2 DEF InFlightExact, RunInv, ServerDies
<1>. QED BY <1>1, <1>3, <1>4

(* A handler that leaves is no longer busy but still holds its slot.       *)
LEMMA LeavesKeepsInv ==
    ASSUME ServerInv, NEW id \in Sessions, HndLeaves(id)
    PROVE  ServerInv'
<1>. USE DEF ServerInv
<1>1. ServerTypeOK' /\ Busy(id)
  BY DEF HndLeaves, Goto, ServerTypeOK, HandlerPcs, Busy, bucket
<1>2. {j \in Sessions : Busy(j)}' = {j \in Sessions : Busy(j)} \ {id}
  BY DEF HndLeaves, Goto, Busy, ServerTypeOK
<1>3. Cardinality({j \in Sessions : Busy(j)}') = Cardinality({j \in Sessions : Busy(j)}) - 1
  BY <1>1, <1>2, BusyCount, FS_RemoveElement DEF BusySet
<1>4. SlotsAccounted'
  BY <1>3, BusyCount DEF HndLeaves, SlotsAccounted, BusySet, ServerTypeOK
<1>5. Visited' = Visited /\ run' = run
  BY DEF HndLeaves, Visited, IsFirst
<1>6. run.pc = "slot" => id \notin Visited
  BY <1>1 DEF RunInv
<1>7. InFlightExact'
  BY <1>2, <1>5, <1>6 DEF HndLeaves, InFlightExact
<1>8. RunInv'
  <2>1. \A j \in Sessions : Busy(j)' => Busy(j)
    BY <1>2
  <2>2. Visited \subseteq Sessions
    BY DEF Visited, ServerTypeOK
  <2>3. run.pc = "down" => inFlight' = {} /\ restarts' < MaxRestarts
    BY DEF HndLeaves, RunInv
  <2>. QED BY <1>5, <2>1, <2>2, <2>3 DEF RunInv
<1>. QED BY <1>1, <1>4, <1>7, <1>8

(* So does giving back the slot of a handler that has left.                *)
LEMMA FreesKeepsInv ==
    ASSUME ServerInv, HndFreesSlot
    PROVE  ServerInv'
<1>. USE DEF ServerInv
<1>1. {j \in Sessions : Busy(j)}' = {j \in Sessions : Busy(j)}
  BY DEF HndFreesSlot, Busy
<1>2. ServerTypeOK' /\ SlotsAccounted'
  <2>1. Slots \in Nat /\ Slots' = Slots
    BY ServerAssumption DEF Slots
  <2>2. sem' \in Nat /\ exiting' \in Nat /\ sem' <= Slots
    BY <2>1, BusyCount DEF HndFreesSlot, SlotsAccounted, ServerTypeOK, BusySet
  <2>3. ServerTypeOK'
    BY <2>2 DEF HndFreesSlot, ServerTypeOK, bucket
  <2>4. SlotsAccounted'
    <3>1. sem - 1 = Cardinality({j \in Sessions : Busy(j)}) + (exiting - 1)
      BY BusyCount DEF SlotsAccounted, ServerTypeOK, BusySet
    <3>. QED BY <1>1, <2>1, <2>2, <3>1 DEF HndFreesSlot, SlotsAccounted
  <2>. QED BY <2>3, <2>4
<1>3. InFlightExact' /\ RunInv'
  BY <1>1 DEF HndFreesSlot, InFlightExact, RunInv, Visited, IsFirst, Busy
<1>. QED BY <1>2, <1>3

(* The steps of a handler between its start and its end.                   *)
LEMMA HandlerKeepsInv ==
    ASSUME ServerInv, NEW id \in Sessions, HandlerStep(id), ~HndLeaves(id)
    PROVE  ServerInv'
<1>. USE DEF ServerInv
<1>1. /\ UNCHANGED <<cli, run, inFlight, sem, exiting, restarts>>
      /\ hnd[id] # "none"
      /\ \E pc \in HandlerPcs \ {"none"} : Goto(id, pc)
  BY DEF HandlerStep, HndGet, HndGetFails, HndReject, HndDrop, HndDelete, HndDial, HndDialFails,
         HndRefuse, HndAccept, HndAcceptFails, HndStreamEnds, HandlerPcs
<1>2. open' \in [Sessions -> {"none", "valid", "invalid", "garbled"}]
  BY DEF HandlerStep, HndGet, HndGetFails, HndReject, HndDrop, HndDelete, HndDial, HndDialFails,
         HndRefuse, HndAccept, HndAcceptFails, HndStreamEnds, DeletesOpen, ServerTypeOK, bucket
<1>3. result' \in [Sessions -> {"none", "yes", "no"}]
  BY DEF HandlerStep, HndGet, HndGetFails, HndReject, HndDrop, HndDelete, HndDial, HndDialFails,
         HndRefuse, HndAccept, HndAcceptFails, HndStreamEnds, PutsResult, PutResultFails,
         ServerTypeOK, bucket
<1>4. dials' \in [Sessions -> Nat] /\ lost' \in [Sessions -> Nat]
  BY DEF HandlerStep, HndGet, HndGetFails, HndReject, HndDrop, HndDelete, HndDial, HndDialFails,
         HndRefuse, HndAccept, HndAcceptFails, HndStreamEnds, DeletesOpen, ServerTypeOK
<1>5. SlotsAccounted' /\ InFlightExact' /\ RunInv' /\ hnd' \in [Sessions -> HandlerPcs]
  BY <1>1, HandlerMoves
<1>. QED BY <1>1, <1>2, <1>3, <1>4, <1>5 DEF ServerTypeOK

(* Every step preserves the invariant.                                     *)
LEMMA NextServerInv == ServerInv /\ [ServerNext]_serverVars => ServerInv'
<1>. SUFFICES ASSUME ServerInv, [ServerNext]_serverVars PROVE ServerInv'
  OBVIOUS
<1>1. ASSUME NEW id \in Sessions, ClientStep(id) PROVE ServerInv'
  BY <1>1, ClientKeepsType, MemoryAlone DEF ServerInv
<1>2. ASSUME NEW id \in Sessions, HandlerStep(id) PROVE ServerInv'
  BY <1>2, HandlerKeepsInv, LeavesKeepsInv
<1>3. CASE RunStep
  <2>1. CASE RunNextRound
    BY <2>1, RoundKeepsInv DEF RunNextRound, ServerInv, ServerTypeOK
  <2>. QED BY <1>3, <2>1, ListKeepsInv, SkipKeepsInv, ClaimKeepsInv, StartKeepsInv DEF RunStep
<1>4. CASE ServerStarts
  <2>1. restarts' \in 0 .. MaxRestarts
    BY <1>4, ServerAssumption DEF ServerStarts, ServerInv, RunInv, ServerTypeOK
  <2>. QED BY <1>4, <2>1, RoundKeepsInv
<1>5. CASE UNCHANGED serverVars
  <2>1. ServerTypeOK' /\ UNCHANGED <<serverMem, restarts>>
    BY <1>5 DEF serverVars, serverMem, ServerInv, ServerTypeOK
  <2>. QED BY <2>1, MemoryAlone DEF ServerInv
<1>6. ASSUME NEW id \in Sessions, LateDelete(id) PROVE ServerInv'
  <2>1. ServerTypeOK' /\ UNCHANGED <<serverMem, restarts>>
    BY <1>6 DEF LateDelete, serverMem, ServerInv, ServerTypeOK
  <2>. QED BY <2>1, MemoryAlone DEF ServerInv
<1>. QED
  BY <1>1, <1>2, <1>3, <1>4, <1>5, <1>6, DiesKeepsInv, FreesKeepsInv DEF ServerNext

(* The accounts of the server hold for every number of sessions and slots. *)
THEOREM ServerInvariant == ServerSpec => []ServerInv
BY InitServerInv, NextServerInv, PTL DEF ServerSpec

(* Server is type correct.                                                 *)
THEOREM ServerTypeCorrect == ServerSpec => []ServerTypeOK
BY ServerInvariant, PTL DEF ServerInv

(* The semaphore counts exactly the goroutines that hold a slot, and they  *)
(* never exceed max(1, MaxSessions), whatever fails and restarts (Run).    *)
THEOREM NoSlotLeaks == ServerSpec => []SlotsAccounted
BY ServerInvariant, PTL DEF ServerInv

(* inFlight holds exactly the sessions that have a handler and the one     *)
(* that waits for a slot, so no session ever has two handlers (Run).       *)
THEOREM OneHandlerPerSession == ServerSpec => []InFlightExact
BY ServerInvariant, PTL DEF ServerInv
-----------------------------------------------------------------------------
(* No request has been made at first.                                      *)
LEMMA InitHandshake == ServerInit => HandshakeInv
BY DEF ServerInit, NewRun, HandshakeInv, RequestInv, Attempts

(* Dials and lost DELETEs are counted.                                     *)
LEMMA Counted ==
    ASSUME ServerInv, NEW j \in Sessions
    PROVE  dials[j] \in Nat /\ lost[j] \in Nat /\ open[j] \in {"none", "valid", "invalid", "garbled"}
BY DEF ServerInv, ServerTypeOK

(* What a step says of one session says everything about its request.      *)
LEMMA RequestAlone ==
    ASSUME ServerInv, NEW id \in Sessions, RequestInv(id),
           open'[id] \in {open[id], "none"}, result'[id] = result[id],
           cli'[id] = cli[id], dials'[id] = dials[id], lost'[id] = lost[id],
           hnd'[id] \in {hnd[id], "none", "return"},
           id \in run'.keys => (id \in run.keys \/ cli[id] # "idle"),
           hnd'[id] # "none" => cli[id] # "idle"
    PROVE  RequestInv(id)'
<1>1. dials[id] \in Nat /\ lost[id] \in Nat
  BY Counted
<1>2. Attempts(id)' <= Attempts(id) /\ Attempts(id)' \in Nat /\ Attempts(id) \in Nat
  BY <1>1 DEF Attempts
<1>. QED BY <1>1, <1>2 DEF RequestInv

(* A step of a client preserves what is known of each request.             *)
LEMMA ClientKeepsRequest ==
    ASSUME ServerInv, HandshakeInv, NEW id \in Sessions, ClientStep(id), NEW j \in Sessions
    PROVE  RequestInv(j)'
<1>. USE DEF ServerInv, ServerTypeOK, HandshakeInv
<1>1. UNCHANGED <<run, hnd, dials, lost>>
  BY DEF ClientStep, CliOpen, CliOpenFails, CliVerdict, CliReplyFails, CliTimeout, CliGetFails, serverMem
<1>2. UNCHANGED result
  BY DEF ClientStep, CliOpen, CliOpenFails, CliVerdict, CliReplyFails, CliTimeout, CliGetFails, bucket
<1>3. CASE j # id
  <2>1. open'[j] = open[j] /\ cli'[j] = cli[j]
    BY <1>3 DEF ClientStep, CliOpen, CliOpenFails, CliVerdict, CliReplyFails, CliTimeout, CliGetFails, bucket
  <2>. QED BY <1>1, <1>2, <2>1, RequestAlone DEF RequestInv
<1>4. CASE j = id /\ cli[id] = "idle"
  <2>1. cli'[id] \in {"wait", "failed"}
    BY <1>4 DEF ClientStep, CliOpen, CliOpenFails, CliVerdict, CliReplyFails, CliTimeout, CliGetFails
  <2>2. RequestInv(id) /\ lost[id] \in Nat
    BY Counted
  <2>. QED BY <1>1, <1>2, <1>4, <2>1, <2>2 DEF RequestInv, Attempts
<1>5. CASE j = id /\ cli[id] # "idle"
  <2>1. UNCHANGED open
    BY <1>5 DEF ClientStep, CliOpen, CliOpenFails, CliVerdict, CliReplyFails, CliTimeout, CliGetFails, bucket
  <2>2. \/ cli'[id] = "failed"
        \/ cli'[id] = "accepted" /\ result[id] = "yes"
        \/ cli'[id] = "rejected" /\ result[id] = "no"
    BY <1>5 DEF ClientStep, CliOpen, CliOpenFails, CliVerdict, CliReplyFails, CliTimeout, CliGetFails
  <2>3. RequestInv(id) /\ Attempts(id)' = Attempts(id)
    BY <1>1, <2>1 DEF Attempts
  <2>. QED BY <1>1, <1>2, <1>5, <2>1, <2>2, <2>3 DEF RequestInv
<1>. QED BY <1>3, <1>4, <1>5

(* One handler only touches the request of its own session.                *)
LEMMA HandlerElsewhere ==
    ASSUME ServerInv, NEW id \in Sessions, HandlerStep(id), NEW j \in Sessions, j # id
    PROVE  /\ open'[j] = open[j] /\ result'[j] = result[j] /\ dials'[j] = dials[j]
           /\ lost'[j] = lost[j] /\ hnd'[j] = hnd[j]
BY DEF ServerInv, ServerTypeOK, HandlerStep, HndGet, HndGetFails, HndReject, HndDrop, HndDelete, HndDial,
       HndDialFails, HndRefuse, HndAccept, HndAcceptFails, HndStreamEnds, HndLeaves, Goto,
       DeletesOpen, PutsResult, PutResultFails, bucket

(* So does a step of a handler.  Only a DELETE that is lost leaves room    *)
(* for another attempt, and it is counted.                                 *)
LEMMA HandlerKeepsRequest ==
    ASSUME ServerInv, HandshakeInv, NEW id \in Sessions, HandlerStep(id), NEW j \in Sessions
    PROVE  RequestInv(j)'
<1>1. UNCHANGED <<cli, run>>
  BY DEF HandlerStep, HndGet, HndGetFails, HndReject, HndDrop, HndDelete, HndDial, HndDialFails,
         HndRefuse, HndAccept, HndAcceptFails, HndStreamEnds, HndLeaves
<1>2. RequestInv(id) /\ RequestInv(j)
  BY DEF HandshakeInv
<1>3. CASE j # id
  BY <1>1, <1>2, <1>3, HandlerElsewhere, RequestAlone DEF RequestInv
<1>4. CASE j = id
  <2>. USE <1>1, <1>2, Counted DEF ServerInv, ServerTypeOK, Goto, RequestInv, Attempts
  <2>1. CASE HndGet(id)
    BY <2>1 DEF HndGet, bucket
  <2>2. CASE HndGetFails(id) \/ HndStreamEnds(id) \/ HndLeaves(id)
    BY <2>2 DEF HndGetFails, HndStreamEnds, HndLeaves, bucket
  <2>3. CASE HndReject(id)
    BY <2>3 DEF HndReject, PutsResult, PutResultFails
  <2>4. CASE HndDrop(id)
    BY <2>4 DEF HndDrop, DeletesOpen
  <2>5. CASE HndDelete(id)
    BY <2>5 DEF HndDelete, DeletesOpen
  <2>6. CASE HndDial(id)
    BY <2>6 DEF HndDial, bucket
  <2>7. CASE HndDialFails(id)
    BY <2>7 DEF HndDialFails, bucket
  <2>8. CASE HndRefuse(id)
    BY <2>8 DEF HndRefuse, PutsResult, PutResultFails
  <2>9. CASE HndAccept(id) \/ HndAcceptFails(id)
    BY <2>9 DEF HndAccept, HndAcceptFails, PutsResult, PutResultFails
  <2>. QED BY <2>1, <2>2, <2>3, <2>4, <2>5, <2>6, <2>7, <2>8, <2>9 DEF HandlerStep
<1>. QED BY <1>3, <1>4

(* The loop only lists sessions whose request is in the bucket.            *)
LEMMA LoopKeepsRequest ==
    ASSUME ServerInv, HandshakeInv, RunStep, NEW j \in Sessions
    PROVE  RequestInv(j)'
<1>1. UNCHANGED <<open, result, cli, dials, lost>>
  BY DEF RunStep, RunListPage, RunSkip, RunClaim, RunStart, RunNextRound, bucket
<1>2. RequestInv(j)
  BY DEF HandshakeInv
<1>3. CASE RunListPage
  <2>1. UNCHANGED hnd
    BY <1>3 DEF RunListPage
  <2>2. run'.keys = run.keys \cup PageOf(OpenAfter(run.cursor))
    <3>1. run \in [pc : {"list", "visit", "slot", "down"}, cursor : Sessions \cup {-1},
                   keys : SUBSET Sessions]
      BY DEF ServerInv, ServerTypeOK
    <3>2. CASE run' = [pc |-> "visit", cursor |-> -1,
                       keys |-> run.keys \cup PageOf(OpenAfter(run.cursor))]
      BY <3>2
    <3>3. CASE \E last : run' = [run EXCEPT !.cursor = last,
                                !.keys = run.keys \cup PageOf(OpenAfter(run.cursor))]
      BY <3>1, <3>3
    <3>. QED BY <1>3, <3>2, <3>3, Zenon DEF RunListPage
  <2>3. j \in run'.keys => (j \in run.keys \/ cli[j] # "idle")
    BY <1>2, <2>2 DEF PageOf, OpenAfter, RequestInv
  <2>. QED BY <1>1, <1>2, <2>1, <2>3, RequestAlone DEF RequestInv
<1>4. CASE RunNextRound \/ \E id \in Sessions : RunSkip(id) \/ RunClaim(id)
  <2>1. UNCHANGED hnd /\ run'.keys \subseteq run.keys
    BY <1>4 DEF RunNextRound, NewRun, RunSkip, RunClaim, ServerInv, ServerTypeOK
  <2>. QED BY <1>1, <1>2, <2>1, RequestAlone DEF RequestInv
<1>5. ASSUME NEW id \in Sessions, RunStart(id) PROVE RequestInv(j)'
  <2>1. run'.keys \subseteq run.keys
    BY <1>5 DEF RunStart, ServerInv, ServerTypeOK
  <2>2. CASE j # id
    <3>1. hnd'[j] = hnd[j]
      BY <1>5, <2>2 DEF RunStart, ServerInv, ServerTypeOK
    <3>. QED BY <1>1, <1>2, <2>1, <3>1, RequestAlone DEF RequestInv
  <2>3. CASE j = id
    <3>1. id \in run.keys /\ hnd[id] = "none" /\ hnd'[id] = "get"
      BY <1>5 DEF RunStart, Visited, ServerInv, ServerTypeOK, RunInv, Busy
    <3>. QED BY <1>1, <1>2, <2>1, <2>3, <3>1 DEF RequestInv, Attempts
  <2>. QED BY <2>2, <2>3
<1>. QED BY <1>3, <1>4, <1>5 DEF RunStep

(* Every step preserves the invariant of the handshake.                    *)
LEMMA NextHandshake == ServerInv /\ HandshakeInv /\ [ServerNext]_serverVars => HandshakeInv'
<1>. SUFFICES ASSUME ServerInv, HandshakeInv, [ServerNext]_serverVars, NEW j \in Sessions
              PROVE  RequestInv(j)'
  BY DEF HandshakeInv
<1>1. RequestInv(j)
  BY DEF HandshakeInv
<1>2. CASE ServerDies \/ ServerStarts \/ HndFreesSlot \/ UNCHANGED serverVars
  <2>1. UNCHANGED <<open, result, cli, dials, lost>>
    BY <1>2 DEF ServerDies, ServerStarts, HndFreesSlot, serverVars, bucket
  <2>2. run'.keys \subseteq run.keys /\ hnd'[j] \in {hnd[j], "none"}
    BY <1>2 DEF ServerDies, ServerStarts, NewRun, HndFreesSlot, serverVars, ServerInv, ServerTypeOK
  <2>. QED BY <1>1, <2>1, <2>2, RequestAlone DEF RequestInv
<1>3. ASSUME NEW id \in Sessions, LateDelete(id) PROVE RequestInv(j)'
  <2>1. UNCHANGED <<result, cli, run, hnd, dials, lost>> /\ open'[j] \in {open[j], "none"}
    BY <1>3 DEF LateDelete, serverMem, ServerInv, ServerTypeOK
  <2>. QED BY <1>1, <2>1, RequestAlone DEF RequestInv
<1>. QED
  BY <1>2, <1>3, ClientKeepsRequest, HandlerKeepsRequest, LoopKeepsRequest DEF ServerNext

(* The properties of the handshake follow from its invariant.              *)
LEMMA HandshakeImplies == ServerInv /\ HandshakeInv => DialsAccounted /\ VerdictHonest
<1>. SUFFICES ASSUME ServerInv, NEW id \in Sessions, RequestInv(id)
              PROVE  /\ dials[id] <= 1 + lost[id]
                     /\ cli[id] = "accepted" => dials[id] >= 1
                     /\ cli[id] = "rejected" => dials[id] <= lost[id]
  BY DEF HandshakeInv, DialsAccounted, VerdictHonest
<1>1. dials[id] \in Nat /\ lost[id] \in Nat /\ Attempts(id) \in Nat /\ dials[id] <= Attempts(id)
  BY Counted DEF Attempts
<1>. QED BY <1>1 DEF RequestInv

(* The target of a session is dialled at most once more than DELETEs of    *)
(* its open object were lost: not from stale listings, not by a second     *)
(* handler, not after a crash between any two steps and a restart          *)
(* (handleSession, Run).                                                   *)
THEOREM DialsAreAccounted == ServerSpec => []DialsAccounted
BY InitServerInv, NextServerInv, InitHandshake, NextHandshake, HandshakeImplies, PTL DEF ServerSpec

(* The application hears yes only for a target that was reached and no     *)
(* only for one that is never reached unless the DELETE of the refused     *)
(* request is lost, although a verdict whose PUT reported an error may be  *)
(* in the bucket (HandleSOCKS, putOpenResult).                             *)
THEOREM VerdictsAreHonest == ServerSpec => []VerdictHonest
BY InitServerInv, NextServerInv, InitHandshake, NextHandshake, HandshakeImplies, PTL DEF ServerSpec
=============================================================================
