------------------------------ MODULE MCServer ------------------------------
(* Small instances of Server for TLC.                                      *)
EXTENDS Server

(* Which requests the clients of the runs may write.                       *)
OneInvalid == <<{"valid"}, {"valid", "invalid"}, {"valid"}>>
EveryKind == <<{"valid", "garbled"}, {"valid", "invalid"}, {"valid", "invalid", "garbled"}>>
OnlyValid == <<{"valid"}>>

(* The DELETE of the first session's open object may fail once.            *)
FirstLost == [id \in Sessions |-> IF id = 1 THEN 1 ELSE 0]
=============================================================================
