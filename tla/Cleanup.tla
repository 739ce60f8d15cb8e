------------------------------ MODULE Cleanup -------------------------------
(***************************************************************************)
(* The users of the store that are not part of a tunnel: DeletePrefix      *)
(* (internal/objectstore/objectstore.go), which s3s5-doctor and s3s5-perf  *)
(* use to empty a prefix, and the probe of s3s5-doctor itself              *)
(* (cmd/s3s5-doctor/main.go).  Both run against a store whose calls fail   *)
(* or take effect late, while a tunnel goes on writing under the prefix.   *)
(***************************************************************************)
EXTENDS S3Client

CONSTANTS
    Cleaner, Doctor, Tunnel,  \* the callers
    DoctorKey,                \* <prefix>/doctor/<session>.bin, before v1/ in key order
    Rounds,                   \* --latency-rounds, 1 when it is not positive
    MaxWrites                 \* bound: PUTs and DELETEs of the tunnel

ASSUME CleanupAssumption ==
    /\ Caller = {Cleaner, Doctor, Tunnel}
    /\ Cleaner # Doctor /\ Cleaner # Tunnel /\ Doctor # Tunnel
    /\ DoctorKey \in Key
    /\ Rounds \in Nat \ {0}
    /\ MaxWrites \in Nat

VARIABLES
    clean,  \* DeletePrefix: where it is, the keys of the page still to delete
    stale,  \* keys that exist since before DeletePrefix started and were not written since
    doc,    \* runDoctor: its next call, its round, its report
    writes  \* calls the tunnel has made

cleanupVars == <<bucket, call, orphans, faults, clean, stale, doc, writes>>

CleanupInit ==
    /\ StoreInit
    /\ bucket = [k \in Key \ {DoctorKey} |-> 0]
    /\ clean = [pc |-> "off", page |-> {}]
    /\ stale = {}
    /\ \E cleanup \in BOOLEAN :
         doc = [op |-> "put", round |-> 1, cleanup |-> cleanup, report |-> "none"]
    /\ writes = 0

First(S) == CHOOSE k \in S : \A j \in S : k <= j

(* The caller takes note of the outcome of its call.                       *)
Takes(c) ==
    /\ call[c].pc = "ended"
    /\ call' = [call EXCEPT ![c] = Idle]
    /\ UNCHANGED <<bucket, orphans, faults>>
-----------------------------------------------------------------------------
(* Someone calls DeletePrefix.                                             *)
CleanStart ==
    /\ clean.pc = "off"
    /\ clean' = [clean EXCEPT !.pc = "list"]
    /\ stale' = DOMAIN bucket
    /\ UNCHANGED <<bucket, call, orphans, faults, doc, writes>>

(* DeletePrefix lists the first page, never a later one: what it deleted   *)
(* is not on the next first page.                                          *)
CleanCall ==
    /\ \/ clean.pc = "list" /\ Invoke(Cleaner, "list", 0, 0)
       \/ clean.pc = "delete" /\ Invoke(Cleaner, "delete", First(clean.page), 0)
    /\ UNCHANGED <<clean, stale, doc, writes>>

(* Mutant: DeletePrefix skips the first key of every page.                 *)
CleanListedSkips ==
    /\ clean.pc = "list"
    /\ Takes(Cleaner)
    /\ clean' =
         [clean EXCEPT !.pc = IF call[Cleaner].out # "success" THEN "failed"
                              ELSE IF call[Cleaner].body = {} THEN "done"
                              ELSE IF Cardinality(call[Cleaner].body) = 1 THEN "list"
                              ELSE "delete",
                       !.page = IF call[Cleaner].body = {} THEN {}
                                ELSE call[Cleaner].body \ {First(call[Cleaner].body)}]
    /\ UNCHANGED <<stale, doc, writes>>

CleanListed ==
    /\ clean.pc = "list"
    /\ Takes(Cleaner)
    /\ clean' = [clean EXCEPT !.pc = IF call[Cleaner].out # "success" THEN "failed"
                                     ELSE IF call[Cleaner].body = {} THEN "done"
                                     ELSE "delete",
                              !.page = call[Cleaner].body]
    /\ UNCHANGED <<stale, doc, writes>>

(* Mutant: the page that was listed first is taken for the whole prefix.   *)
CleanDeletedOnePage ==
    /\ clean.pc = "delete"
    /\ Takes(Cleaner)
    /\ IF call[Cleaner].out \in {"success", "not_found"}
       THEN LET rest == clean.page \ {call[Cleaner].key} IN
            clean' = [pc |-> IF rest = {} THEN "done" ELSE "delete", page |-> rest]
       ELSE clean' = [clean EXCEPT !.pc = "failed"]
    /\ UNCHANGED <<stale, doc, writes>>

(* A key that is gone already counts as deleted; any other error ends it.  *)
CleanDeleted ==
    /\ clean.pc = "delete"
    /\ Takes(Cleaner)
    /\ IF call[Cleaner].out \in {"success", "not_found"}
       THEN LET rest == clean.page \ {call[Cleaner].key} IN
            clean' = [pc |-> IF rest = {} THEN "list" ELSE "delete", page |-> rest]
       ELSE clean' = [clean EXCEPT !.pc = "failed"]
    /\ UNCHANGED <<stale, doc, writes>>
-----------------------------------------------------------------------------
(* runDoctor: rounds of PUT, HEAD, GET and LIST, then DELETE.              *)
DoctorCall ==
    /\ doc.report = "none"
    /\ Invoke(Doctor, doc.op, DoctorKey, doc.round)
    /\ UNCHANGED <<clean, stale, doc, writes>>

After == [put |-> "head", head |-> "get", get |-> "list", list |-> "put"]

(* Mutant: an error of the final DELETE is not reported.                   *)
DoctorTakesLenient ==
    LET last == doc.op = "list" /\ doc.round = Rounds
        good == \/ doc.op = "delete"
                \/ /\ call[Doctor].out = "success"
                   /\ doc.op = "get" => call[Doctor].body = {doc.round}
    IN
    /\ doc.report = "none"
    /\ Takes(Doctor)
    /\ doc' =
         IF ~good THEN [doc EXCEPT !.report = "failed"]
         ELSE IF doc.op = "delete" \/ (last /\ ~doc.cleanup)
         THEN [doc EXCEPT !.report = "ok"]
         ELSE IF last THEN [doc EXCEPT !.op = "delete"]
         ELSE [doc EXCEPT !.op = After[doc.op],
                          !.round = IF doc.op = "list" THEN @ + 1 ELSE @]
    /\ UNCHANGED <<clean, stale, writes>>

(* Any error, and a payload that is not the one of this round, ends the    *)
(* probe with the error in the report; the object is then left behind.     *)
DoctorTakes ==
    LET last == doc.op = "list" /\ doc.round = Rounds
        good == /\ call[Doctor].out = "success"
                /\ doc.op = "get" => call[Doctor].body = {doc.round}
    IN
    /\ doc.report = "none"
    /\ Takes(Doctor)
    /\ doc' =
         IF ~good THEN [doc EXCEPT !.report = "failed"]
         ELSE IF doc.op = "delete" \/ (last /\ ~doc.cleanup)
         THEN [doc EXCEPT !.report = "ok"]
         ELSE IF last THEN [doc EXCEPT !.op = "delete"]
         ELSE [doc EXCEPT !.op = After[doc.op],
                          !.round = IF doc.op = "list" THEN @ + 1 ELSE @]
    /\ UNCHANGED <<clean, stale, writes>>
-----------------------------------------------------------------------------
(* A running tunnel writes and deletes its own objects; what becomes of    *)
(* each call is the matter of the Stream and Server modules.               *)
TunnelCall(op, key) ==
    /\ writes < MaxWrites
    /\ Invoke(Tunnel, op, key, 0)
    /\ writes' = writes + 1
    /\ UNCHANGED <<clean, stale, doc>>

TunnelTakes == Takes(Tunnel) /\ UNCHANGED <<clean, stale, doc, writes>>

(* A request reaches the service: what it writes is no longer stale.       *)
Tracked(r) ==
    /\ stale' = (stale \ IF r.op = "put" THEN {r.key} ELSE {}) \cap DOMAIN bucket'
    /\ UNCHANGED <<clean, doc, writes>>

Handled(c) == Serve(c) /\ Tracked(call[c])
HandledLate == \E r \in orphans : ServeOrphan(r) /\ Tracked(r)
Failed(c) == Refused(c) /\ UNCHANGED <<clean, stale, doc, writes>>

CleanupStep == CleanCall \/ CleanListed \/ CleanDeleted
DoctorStep == DoctorCall \/ DoctorTakes
TunnelStep ==
    \/ \E op \in {"put", "delete"}, key \in Key \ {DoctorKey} : TunnelCall(op, key)
    \/ TunnelTakes
ServiceStep == HandledLate \/ \E c \in Caller : Handled(c) \/ Failed(c)

CleanupNext == CleanStart \/ CleanupStep \/ DoctorStep \/ TunnelStep \/ ServiceStep

(* DeletePrefix runs, delays end and the service answers (or the caller    *)
(* gives up: client.Do has a deadline).                                    *)
CleanupFairness ==
    /\ WF_cleanupVars(CleanupStep)
    /\ \A c \in Caller : WF_cleanupVars(Handled(c))

CleanupSpec == CleanupInit /\ [][CleanupNext]_cleanupVars /\ CleanupFairness
-----------------------------------------------------------------------------
(* DeletePrefix that returns without an error leaves no object behind that *)
(* was there when it started and was not written since, although it only   *)
(* ever lists the first page, other clients write between its calls and a  *)
(* DELETE answered with 404 is taken for done.                             *)
CleanupComplete == clean.pc = "done" => stale = {}

(* DeletePrefix comes to an end when the other writers and the failures    *)
(* do: every round over the first page makes progress.                     *)
CleanupEnds == clean.pc = "list" ~> clean.pc \in {"done", "failed"}

(* A doctor that reports success with --cleanup has left nothing in the    *)
(* bucket, and no request of its own that could still bring it back.       *)
DoctorHonest ==
    doc.report = "ok" /\ doc.cleanup =>
        /\ DoctorKey \notin DOMAIN bucket
        /\ \A r \in orphans : r.key = DoctorKey => r.op # "put"
=============================================================================
