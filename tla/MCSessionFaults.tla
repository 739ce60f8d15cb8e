-------------------------- MODULE MCSessionFaults ---------------------------
(***************************************************************************)
(* A session whose calls fail, in one instance for TLC: what its two       *)
(* streams have done when its sides return (Session), and how its client   *)
(* counts and answers it (SocksClient).  SocksClient knows the streams     *)
(* only by whether they end with an error, so that pairing the states of   *)
(* the two says no more: the first state picks one, and only that moves.   *)
(***************************************************************************)
EXTENDS MCSession, SocksClient

VARIABLE topic

vars == <<topic, sessionVars, socksVars>>

Init == topic \in {"streams", "accounting"} /\ SessionInit /\ SocksInit

(* The listener and every connection are closed.                           *)
Quiet ==
    /\ topic = "accounting"
    /\ ln = "closed" /\ SnapshotDone
    /\ \A c \in Session : conn[c].pc \in {"none", "refused", "closed"}
    /\ UNCHANGED vars

Next ==
    \/ topic = "streams" /\ SessionNext /\ UNCHANGED <<topic, socksVars>>
    \/ topic = "accounting" /\ SocksNext /\ UNCHANGED <<topic, sessionVars>>
    \/ Quiet

Spec == Init /\ [][Next]_vars
=============================================================================
