------------------------------ MODULE S3Client ------------------------------
(***************************************************************************)
(* The object store as its callers see it (internal/objectstore/s3/s3.go,  *)
(* wrapped by internal/objectstore/delay and internal/metrics).  A call is *)
(* delayed, sent as a request, handled by the service in one step,         *)
(* answered with a status, and turned into an outcome that is counted.     *)
(* The caller may give up before the request is sent or while it is on the *)
(* way; a request that was given up may still be handled later.  The       *)
(* service is external: a bucket with one value per key.                   *)
(***************************************************************************)
EXTENDS Integers, Sequences, FiniteSets, MailboxStore

CONSTANTS
    Caller,    \* the goroutines that use the store
    Key,       \* keys under the prefix, a finite set of numbers in key order
    MaxKeys,   \* the page size of LIST
    MaxFaults  \* bound: how many calls are cancelled, lost or refused

ASSUME StoreAssumption ==
    /\ Key \subseteq Nat
    /\ MaxKeys \in Nat \ {0}
    /\ MaxFaults \in Nat

VARIABLES
    bucket,   \* the objects of the service
    call,     \* each caller's call, "idle" when it makes none
    orphans,  \* requests that were given up and not handled yet
    faults    \* how many calls have been cancelled, lost or refused

storeVars == <<bucket, call, orphans, faults>>

Op == {"put", "get", "head", "list", "delete"}

Idle == [pc |-> "idle"]

StoreInit ==
    /\ call = [c \in Caller |-> Idle]
    /\ orphans = {}
    /\ faults = 0

Lowest(S, n) == {k \in S : Cardinality({j \in S : j <= k}) <= n}

(* What the service does with a request, and what it answers with.         *)
Effect(r) ==
    CASE r.op = "put" -> PutObject(bucket, r.key, r.val)
      [] r.op = "delete" -> [k \in DOMAIN bucket \ {r.key} |-> bucket[k]]
      [] OTHER -> bucket

Status(r) ==
    CASE r.op = "delete" -> 204
      [] r.op \in {"get", "head"} /\ ~HasObject(bucket, r.key) -> 404
      [] OTHER -> 200

Body(r) ==
    CASE r.op = "get" /\ HasObject(bucket, r.key) -> {bucket[r.key]}
      [] r.op = "list" -> Lowest(DOMAIN bucket, MaxKeys)
      [] OTHER -> {}

(* How PutObject, GetObject, HeadObject, ListPrefixPage and DeleteObject   *)
(* read a status: LIST knows no 404, DELETE takes 200 and 204.             *)
OutcomeOf(op, status) ==
    CASE status = 200 \/ (op = "delete" /\ status = 204) -> "success"
      [] status = 404 /\ op # "list" -> "not_found"
      [] OTHER -> "error"
-----------------------------------------------------------------------------
(* A caller starts a call.                                                 *)
Invoke(c, op, key, val) ==
    /\ call[c].pc = "idle"
    /\ call' = [call EXCEPT ![c] = [pc |-> "pending", op |-> op, key |-> key, val |-> val]]
    /\ UNCHANGED <<bucket, orphans, faults>>

(* A call ends with the outcome that InstrumentedStore observes.           *)
Ends(c, outcome, body) ==
    call' = [call EXCEPT ![c] = [pc |-> "ended", op |-> call[c].op, key |-> call[c].key,
                                 out |-> outcome, body |-> body]]

Fault == faults < MaxFaults /\ faults' = faults + 1

(* delay.Store.wait: the context ends the delay, nothing is sent.          *)
DelayCancelled(c) ==
    /\ call[c].pc = "pending"
    /\ Fault
    /\ Ends(c, "cancelled", {})
    /\ UNCHANGED <<bucket, orphans>>

(* The delay is over, the service handles the request and its answer       *)
(* reaches the caller.                                                     *)
Serve(c) ==
    /\ call[c].pc = "pending"
    /\ bucket' = Effect(call[c])
    /\ Ends(c, OutcomeOf(call[c].op, Status(call[c])), Body(call[c]))
    /\ UNCHANGED <<orphans, faults>>

(* The service refuses the request.                                        *)
ServeError(c, status) ==
    /\ call[c].pc = "pending"
    /\ Fault
    /\ Ends(c, OutcomeOf(call[c].op, status), {})
    /\ UNCHANGED <<bucket, orphans>>

(* The caller gives up: the context ended or the HTTP client timed out     *)
(* while the request was on the way.                                       *)
GiveUp(c, outcome) ==
    /\ call[c].pc = "pending"
    /\ Fault
    /\ orphans' = orphans \cup {[op |-> call[c].op, key |-> call[c].key, val |-> call[c].val]}
    /\ Ends(c, outcome, {})
    /\ UNCHANGED bucket

(* A request that was given up is handled after all.                       *)
ServeOrphan(r) ==
    /\ r \in orphans
    /\ bucket' = Effect(r)
    /\ orphans' = orphans \ {r}
    /\ UNCHANGED <<call, faults>>

Refused(c) ==
    \/ DelayCancelled(c)
    \/ \E status \in {404, 500} : ServeError(c, status)
    \/ \E outcome \in {"cancelled", "timeout"} : GiveUp(c, outcome)
=============================================================================
