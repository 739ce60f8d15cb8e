------------------------------- MODULE Server -------------------------------
(***************************************************************************)
(* Opening sessions (internal/tunnel/tunnel.go).  Every client session     *)
(* PUTs an open object and polls for the open-result (HandleSOCKS,         *)
(* waitJSON).  The server lists the open objects page by page (Run,        *)
(* listOpenKeys), starts one handler per session that is not in flight,    *)
(* holding one of MaxSessions slots, and the handler reads and deletes the *)
(* open object, dials the target and PUTs the verdict (handleSession).     *)
(* The streaming phase of an accepted session is the module Session; here  *)
(* it is a state that ends.                                                *)
(*                                                                         *)
(* The server process may die at any point, or exit because a LIST failed, *)
(* and be started again; only the bucket survives.                         *)
(***************************************************************************)
EXTENDS Integers, FiniteSets

CONSTANTS
    Sessions,     \* session ids in the order of their keys
    MaxSessions,  \* Server.MaxSessions
    PageSize,     \* keys per LIST page
    Requests,     \* what each client may write: "valid", "invalid", "garbled"
    MaxRestarts,  \* bound: how often the server process is started again
    MaxLost,      \* bound: how many DELETEs of each open object fail, by session
    Faults        \* the faults that may happen

ASSUME ServerAssumption ==
    /\ Sessions \subseteq Nat
    /\ IsFiniteSet(Sessions)
    /\ MaxSessions \in Nat
    /\ PageSize \in Nat \ {0}
    /\ Requests \in [Sessions -> SUBSET {"valid", "invalid", "garbled"}]
    /\ MaxRestarts \in Nat
    /\ MaxLost \in [Sessions -> Nat]
    /\ Faults \subseteq {"store", "dial", "timeout", "socket", "crash"}

VARIABLES
    open,      \* the open object of each session, "none" if there is none
    result,    \* the open-result object: "none", "yes" or "no"
    cli,       \* where each client session is
    run,       \* Server.Run: pc, LIST cursor, keys still to visit
    inFlight,  \* Server.inFlight
    hnd,       \* where the handler of each session is, "none" if there is none
    sem,       \* slots of the semaphore in use
    exiting,   \* handlers that have left inFlight and still hold a slot
    dials,     \* history: target connections made for each session
    lost,      \* history: DELETEs of each open object that reported an error
    restarts   \* how often the process was started again

bucket == <<open, result>>
serverMem == <<run, inFlight, hnd, sem, exiting>>
serverVars == <<open, result, cli, run, inFlight, hnd, sem, exiting, dials, lost, restarts>>

(* sem := make(chan struct{}, max(1, s.MaxSessions))                       *)
Slots == IF MaxSessions < 1 THEN 1 ELSE MaxSessions

HandlerPcs == {"none", "get", "reject", "drop", "delete", "dial", "no", "yes",
               "stream", "return"}
Busy(id) == hnd[id] # "none"

NewRun == [pc |-> "list", cursor |-> -1, keys |-> {}]

ServerInit ==
    /\ open = [id \in Sessions |-> "none"]
    /\ result = [id \in Sessions |-> "none"]
    /\ cli = [id \in Sessions |-> "idle"]
    /\ run = NewRun
    /\ inFlight = {}
    /\ hnd = [id \in Sessions |-> "none"]
    /\ sem = 0
    /\ exiting = 0
    /\ dials = [id \in Sessions |-> 0]
    /\ lost = [id \in Sessions |-> 0]
    /\ restarts = 0
-----------------------------------------------------------------------------
(* Client.HandleSOCKS up to the SOCKS reply.                               *)

CliOpen(id, req) ==
    /\ cli[id] = "idle"
    /\ open' = [open EXCEPT ![id] = req]
    /\ cli' = [cli EXCEPT ![id] = "wait"]
    /\ UNCHANGED <<result, serverMem, dials, lost, restarts>>

(* The PUT of the open object fails, having taken effect or not; the       *)
(* application is told so and nobody will wait for the verdict.            *)
CliOpenFails(id, req, applied) ==
    /\ cli[id] = "idle"
    /\ "store" \in Faults
    /\ open' = IF applied THEN [open EXCEPT ![id] = req] ELSE open
    /\ cli' = [cli EXCEPT ![id] = "failed"]
    /\ UNCHANGED <<result, serverMem, dials, lost, restarts>>

(* waitJSON: the verdict is there, and the application is told.            *)
CliVerdict(id) ==
    /\ cli[id] = "wait"
    /\ result[id] # "none"
    /\ cli' = [cli EXCEPT ![id] = IF result[id] = "yes" THEN "accepted" ELSE "rejected"]
    /\ UNCHANGED <<bucket, serverMem, dials, lost, restarts>>

(* The verdict is yes, but the application is gone before it hears of it. *)
CliReplyFails(id) ==
    /\ cli[id] = "wait"
    /\ "socket" \in Faults
    /\ result[id] = "yes"
    /\ cli' = [cli EXCEPT ![id] = "failed"]
    /\ UNCHANGED <<bucket, serverMem, dials, lost, restarts>>

(* waitJSON: still no verdict and the deadline has passed.                 *)
CliTimeout(id) ==
    /\ cli[id] = "wait"
    /\ "timeout" \in Faults
    /\ result[id] = "none"
    /\ cli' = [cli EXCEPT ![id] = "failed"]
    /\ UNCHANGED <<bucket, serverMem, dials, lost, restarts>>

(* waitJSON: a GET answers with something other than not found.            *)
CliGetFails(id) ==
    /\ cli[id] = "wait"
    /\ "store" \in Faults
    /\ cli' = [cli EXCEPT ![id] = "failed"]
    /\ UNCHANGED <<bucket, serverMem, dials, lost, restarts>>
-----------------------------------------------------------------------------
(* Server.Run *)

(* The keys of the next LIST page: the first PageSize after the cursor.    *)
OpenAfter(cursor) == {id \in Sessions : open[id] # "none" /\ id > cursor}
PageOf(ids) == {id \in ids : Cardinality({j \in ids : j < id}) < PageSize}
IsLast(id, ids) == id \in ids /\ \A j \in ids : j <= id
IsFirst(id, ids) == id \in ids /\ \A j \in ids : id <= j

(* The session whose key the loop is at.                                   *)
Visited == {id \in run.keys : IsFirst(id, run.keys)}

(* Mutant: the continuation token is not followed.                         *)
RunFirstPageOnly ==
    /\ run.pc = "list"
    /\ run' = [pc |-> "visit", cursor |-> -1, keys |-> PageOf(OpenAfter(run.cursor))]
    /\ UNCHANGED <<bucket, cli, inFlight, hnd, sem, exiting, dials, lost, restarts>>

(* listOpenKeys: one page; the listing goes on while pages are truncated.  *)
RunListPage ==
    /\ run.pc = "list"
    /\ LET left == OpenAfter(run.cursor)
           page == PageOf(left)
       IN \/ /\ page = left
             /\ run' = [pc |-> "visit", cursor |-> -1, keys |-> run.keys \cup page]
          \/ /\ page # left
             /\ \E last \in page :
                  /\ IsLast(last, page)
                  /\ run' = [run EXCEPT !.cursor = last, !.keys = run.keys \cup page]
    /\ UNCHANGED <<bucket, cli, inFlight, hnd, sem, exiting, dials, lost, restarts>>

(* LoadOrStore finds the session in flight and skips it.                   *)
RunSkip(id) ==
    /\ run.pc = "visit"
    /\ id \in Visited
    /\ id \in inFlight
    /\ run' = [run EXCEPT !.keys = run.keys \ {id}]
    /\ UNCHANGED <<bucket, cli, inFlight, hnd, sem, exiting, dials, lost, restarts>>

(* Mutant: the session is not registered.                                  *)
RunClaimForgets(id) ==
    /\ run.pc = "visit"
    /\ id \in Visited
    /\ id \notin inFlight
    /\ run' = [run EXCEPT !.pc = "slot"]
    /\ UNCHANGED <<bucket, cli, inFlight, hnd, sem, exiting, dials, lost, restarts>>

(* LoadOrStore registers the session; the loop now waits for a slot.       *)
RunClaim(id) ==
    /\ run.pc = "visit"
    /\ id \in Visited
    /\ id \notin inFlight
    /\ inFlight' = inFlight \cup {id}
    /\ run' = [run EXCEPT !.pc = "slot"]
    /\ UNCHANGED <<bucket, cli, hnd, sem, exiting, dials, lost, restarts>>

(* sem <- struct{}{} went through: the handler's goroutine starts.         *)
RunStart(id) ==
    /\ run.pc = "slot"
    /\ id \in Visited
    /\ sem < Slots
    /\ sem' = sem + 1
    /\ hnd' = [hnd EXCEPT ![id] = "get"]
    /\ run' = [run EXCEPT !.pc = "visit", !.keys = run.keys \ {id}]
    /\ UNCHANGED <<bucket, cli, inFlight, exiting, dials, lost, restarts>>

(* All keys of this round are visited; after a sleep the next LIST starts. *)
RunNextRound ==
    /\ run.pc = "visit"
    /\ run.keys = {}
    /\ run' = NewRun
    /\ UNCHANGED <<bucket, cli, inFlight, hnd, sem, exiting, dials, lost, restarts>>

(* The process is gone: killed, or because listOpenKeys returned an error, *)
(* which makes Run return and main exit.                                   *)
ServerDies ==
    /\ \/ "crash" \in Faults
       \/ "store" \in Faults /\ run.pc = "list"
    /\ run.pc # "down"
    /\ restarts < MaxRestarts
    /\ run' = [run EXCEPT !.pc = "down"]
    /\ inFlight' = {}
    /\ hnd' = [id \in Sessions |-> "none"]
    /\ sem' = 0
    /\ exiting' = 0
    /\ UNCHANGED <<bucket, cli, dials, lost, restarts>>

ServerStarts ==
    /\ run.pc = "down"
    /\ run' = NewRun
    /\ restarts' = restarts + 1
    /\ UNCHANGED <<bucket, cli, inFlight, hnd, sem, exiting, dials, lost>>
-----------------------------------------------------------------------------
(* Server.handleSession and the goroutine around it.                       *)

Goto(id, pc) == hnd' = [hnd EXCEPT ![id] = pc]

(* getJSON of the open object: gone or not decodable ends the handler.     *)
HndGet(id) ==
    /\ hnd[id] = "get"
    /\ Goto(id, CASE open[id] = "valid" -> "delete"
                  [] open[id] = "invalid" -> "reject"
                  [] OTHER -> "return")
    /\ UNCHANGED <<bucket, cli, run, inFlight, sem, exiting, dials, lost, restarts>>

HndGetFails(id) ==
    /\ hnd[id] = "get"
    /\ "store" \in Faults
    /\ Goto(id, "return")
    /\ UNCHANGED <<bucket, cli, run, inFlight, sem, exiting, dials, lost, restarts>>

(* DeleteObject; its error is ignored, and the object may still be there.  *)
DeletesOpen(id) ==
    \/ open' = [open EXCEPT ![id] = "none"] /\ UNCHANGED lost
    \/ /\ lost[id] < MaxLost[id]
       /\ lost' = [lost EXCEPT ![id] = lost[id] + 1]
       /\ UNCHANGED open

(* A DELETE that its client has given up is handled late.                  *)
LateDelete(id) ==
    /\ lost[id] > 0
    /\ open[id] # "none"
    /\ open' = [open EXCEPT ![id] = "none"]
    /\ UNCHANGED <<result, cli, serverMem, dials, lost, restarts>>

(* putOpenResult; a failed PUT may have taken effect.                      *)
PutsResult(id, verdict) == result' = [result EXCEPT ![id] = verdict]
PutResultFails(id, verdict) ==
    /\ "store" \in Faults
    /\ PutsResult(id, verdict) \/ UNCHANGED result

(* An invalid request is refused, then its open object is deleted whether  *)
(* or not the refusal could be written.                                    *)
HndReject(id) ==
    /\ hnd[id] = "reject"
    /\ PutsResult(id, "no") \/ PutResultFails(id, "no")
    /\ Goto(id, "drop")
    /\ UNCHANGED <<open, cli, run, inFlight, sem, exiting, dials, lost, restarts>>

HndDrop(id) ==
    /\ hnd[id] = "drop"
    /\ DeletesOpen(id)
    /\ Goto(id, "return")
    /\ UNCHANGED <<result, cli, run, inFlight, sem, exiting, dials, restarts>>

(* Mutant: the open object stays until the session is over.                *)
HndDeleteLater(id) ==
    /\ hnd[id] = "delete"
    /\ Goto(id, "dial")
    /\ UNCHANGED <<bucket, cli, run, inFlight, sem, exiting, dials, lost, restarts>>

(* A valid request is deleted before anything is done about it.            *)
HndDelete(id) ==
    /\ hnd[id] = "delete"
    /\ DeletesOpen(id)
    /\ Goto(id, "dial")
    /\ UNCHANGED <<result, cli, run, inFlight, sem, exiting, dials, restarts>>

(* dialTarget: the policy and the network allow it.                        *)
HndDial(id) ==
    /\ hnd[id] = "dial"
    /\ dials' = [dials EXCEPT ![id] = dials[id] + 1]
    /\ Goto(id, "yes")
    /\ UNCHANGED <<bucket, cli, run, inFlight, sem, exiting, lost, restarts>>

(* Mutant: the error of the dial is not looked at.                         *)
HndDialFailsIgnored(id) ==
    /\ hnd[id] = "dial"
    /\ "dial" \in Faults
    /\ Goto(id, "yes")
    /\ UNCHANGED <<bucket, cli, run, inFlight, sem, exiting, dials, lost, restarts>>

HndDialFails(id) ==
    /\ hnd[id] = "dial"
    /\ "dial" \in Faults
    /\ Goto(id, "no")
    /\ UNCHANGED <<bucket, cli, run, inFlight, sem, exiting, dials, lost, restarts>>

(* Mutant: the refusal is not written.                                     *)
HndRefuseSilent(id) ==
    /\ hnd[id] = "no"
    /\ Goto(id, "return")
    /\ UNCHANGED <<bucket, cli, run, inFlight, sem, exiting, dials, lost, restarts>>

HndRefuse(id) ==
    /\ hnd[id] = "no"
    /\ PutsResult(id, "no") \/ PutResultFails(id, "no")
    /\ Goto(id, "return")
    /\ UNCHANGED <<open, cli, run, inFlight, sem, exiting, dials, lost, restarts>>

HndAccept(id) ==
    /\ hnd[id] = "yes"
    /\ PutsResult(id, "yes")
    /\ Goto(id, "stream")
    /\ UNCHANGED <<open, cli, run, inFlight, sem, exiting, dials, lost, restarts>>

HndAcceptFails(id) ==
    /\ hnd[id] = "yes"
    /\ PutResultFails(id, "yes")
    /\ Goto(id, "return")
    /\ UNCHANGED <<open, cli, run, inFlight, sem, exiting, dials, lost, restarts>>

(* Both streams of the session have ended.                                 *)
HndStreamEnds(id) ==
    /\ hnd[id] = "stream"
    /\ Goto(id, "return")
    /\ UNCHANGED <<bucket, cli, run, inFlight, sem, exiting, dials, lost, restarts>>

(* The deferred calls: first inFlight.Delete ...                           *)
HndLeaves(id) ==
    /\ hnd[id] = "return"
    /\ inFlight' = inFlight \ {id}
    /\ Goto(id, "none")
    /\ exiting' = exiting + 1
    /\ UNCHANGED <<bucket, cli, run, sem, dials, lost, restarts>>

(* Mutant: the slot is not given back.                                     *)
HndKeepsSlot ==
    /\ exiting > 0
    /\ exiting' = exiting - 1
    /\ UNCHANGED <<bucket, cli, run, inFlight, hnd, sem, dials, lost, restarts>>

(* Mutant: the slot is given back twice.                                   *)
HndFreesTwice ==
    /\ exiting > 0
    /\ exiting' = exiting - 1
    /\ sem' = sem - 2
    /\ UNCHANGED <<bucket, cli, run, inFlight, hnd, dials, lost, restarts>>

(* ... then <-sem gives the slot back.                                     *)
HndFreesSlot ==
    /\ exiting > 0
    /\ exiting' = exiting - 1
    /\ sem' = sem - 1
    /\ UNCHANGED <<bucket, cli, run, inFlight, hnd, dials, lost, restarts>>
-----------------------------------------------------------------------------
ClientStep(id) ==
    \/ \E req \in Requests[id] : CliOpen(id, req)
    \/ \E req \in Requests[id], applied \in BOOLEAN : CliOpenFails(id, req, applied)
    \/ CliVerdict(id) \/ CliReplyFails(id) \/ CliTimeout(id) \/ CliGetFails(id)

RunStep ==
    \/ RunListPage
    \/ \E id \in Sessions : RunSkip(id) \/ RunClaim(id) \/ RunStart(id)
    \/ RunNextRound

HandlerStep(id) ==
    \/ HndGet(id) \/ HndGetFails(id)
    \/ HndReject(id) \/ HndDrop(id)
    \/ HndDelete(id) \/ HndDial(id) \/ HndDialFails(id)
    \/ HndRefuse(id) \/ HndAccept(id) \/ HndAcceptFails(id)
    \/ HndStreamEnds(id) \/ HndLeaves(id)

ServerNext ==
    \/ \E id \in Sessions : ClientStep(id) \/ HandlerStep(id) \/ LateDelete(id)
    \/ RunStep
    \/ HndFreesSlot
    \/ ServerDies
    \/ ServerStarts

ServerSpec == ServerInit /\ [][ServerNext]_serverVars

(* The server's goroutines run whenever they can, a dead server is started *)
(* again, sessions end, and a waiting client polls until its deadline.     *)
ServerFairness ==
    /\ WF_serverVars(RunStep)
    /\ WF_serverVars(HndFreesSlot)
    /\ WF_serverVars(ServerStarts)
    /\ \A id \in Sessions :
         /\ WF_serverVars(HandlerStep(id))
         /\ WF_serverVars(CliVerdict(id) \/ CliTimeout(id))

FairServerSpec == ServerSpec /\ ServerFairness
-----------------------------------------------------------------------------
ServerTypeOK ==
    /\ open \in [Sessions -> {"none", "valid", "invalid", "garbled"}]
    /\ result \in [Sessions -> {"none", "yes", "no"}]
    /\ cli \in [Sessions -> {"idle", "wait", "accepted", "rejected", "failed"}]
    /\ run \in [pc : {"list", "visit", "slot", "down"}, cursor : Sessions \cup {-1},
                keys : SUBSET Sessions]
    /\ inFlight \subseteq Sessions
    /\ hnd \in [Sessions -> HandlerPcs]
    /\ sem \in Nat
    /\ exiting \in Nat
    /\ dials \in [Sessions -> Nat]
    /\ lost \in [Sessions -> Nat]
    /\ restarts \in 0 .. MaxRestarts

(* Every slot of the semaphore in use belongs to exactly one goroutine,    *)
(* running or just about to give it back, and there are never more of them *)
(* than slots: no slot leaks and none is returned twice.                   *)
SlotsAccounted ==
    /\ sem = Cardinality({id \in Sessions : Busy(id)}) + exiting
    /\ sem <= Slots

(* A session in flight has its one handler or is waiting for a slot, and   *)
(* a handler that is running is in flight, so no second one is started     *)
(* beside it from a stale listing.                                         *)
InFlightExact ==
    inFlight = {id \in Sessions : Busy(id)}
               \cup (IF run.pc = "slot" THEN Visited ELSE {})

(* Every dial of a session's target but one is due to a lost DELETE of its *)
(* open object: neither a stale listing nor a handler that has just left,  *)
(* nor a crash between any two steps of handleSession and a restart, makes *)
(* the server dial a second time.                                          *)
DialsAccounted == \A id \in Sessions : dials[id] <= 1 + lost[id]

(* "one session is not started twice" (optimization-v1.md:320, and :309    *)
(* asks for protection from a second start in a later LIST round): the     *)
(* target of a session is dialled at most once, also when the DELETE of    *)
(* its open object fails (handleSession).                                  *)
DialledAtMostOnce == \A id \in Sessions : dials[id] <= 1

(* The application is told success only for a target that was reached, and *)
(* refusal only for one that was not and, unless a lost DELETE has the     *)
(* refused request taken again, never will be (HandleSOCKS,                *)
(* handleSession).                                                         *)
VerdictHonest ==
    \A id \in Sessions :
        /\ cli[id] = "accepted" => dials[id] >= 1
        /\ cli[id] = "rejected" => dials[id] <= lost[id]

(* Every decodable request is taken off the bucket, however the listings   *)
(* fall and however full the server is, as long as sessions end.           *)
EveryRequestTaken ==
    \A id \in Sessions :
        (open[id] \in {"valid", "invalid"}) ~> (open[id] = "none")

(* Unless the server dies meanwhile, every client that waits behind a      *)
(* decodable request gets a verdict, however many requests, full slots and *)
(* listing pages it is behind, and whether or not its target can be        *)
(* dialled.                                                                *)
EveryClientAnswered ==
    \A id \in Sessions :
        (cli[id] = "wait" /\ open[id] \in {"valid", "invalid"})
            ~> (cli[id] \in {"accepted", "rejected"} \/ restarts > 0)
-----------------------------------------------------------------------------
(* The inductive invariants behind the safety properties.                  *)

(* The loop waits for a slot only for a listed session that has no handler *)
(* yet, and a dead server has no handler at all.                           *)
RunInv ==
    /\ run.pc = "slot" => \A id \in Visited : ~Busy(id)
    /\ run.pc = "down" => inFlight = {} /\ restarts < MaxRestarts

(* The dials of a session that were made or can still come of what is in   *)
(* the bucket and of where its handler is.                                 *)
Attempts(id) ==
    dials[id] + (IF open[id] = "valid" \/ hnd[id] = "delete" THEN 1 ELSE 0)
              + (IF hnd[id] = "dial" THEN 1 ELSE 0)

(* How far the request of one session has come: a request is one attempt,  *)
(* each lost DELETE allows one more, and a refusal has used one up.        *)
RequestInv(id) ==
    /\ cli[id] = "idle" => /\ open[id] = "none" /\ result[id] = "none" /\ dials[id] = 0
                           /\ hnd[id] = "none" /\ id \notin run.keys
    /\ open[id] = "invalid" => /\ dials[id] = 0
                               /\ hnd[id] \in {"none", "get", "reject", "drop", "return"}
    /\ hnd[id] \in {"reject", "drop"} => open[id] \in {"invalid", "none"} /\ dials[id] = 0
    /\ Attempts(id) <= 1 + lost[id]
    /\ (hnd[id] = "no" \/ result[id] = "no" \/ cli[id] = "rejected") => Attempts(id) <= lost[id]
    /\ (hnd[id] \in {"yes", "stream"} \/ result[id] = "yes" \/ cli[id] = "accepted")
         => dials[id] >= 1

HandshakeInv == \A id \in Sessions : RequestInv(id)

ServerInv == ServerTypeOK /\ SlotsAccounted /\ InFlightExact /\ RunInv
=============================================================================
