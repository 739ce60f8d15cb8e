------------------------------ MODULE MCStream ------------------------------
(* Small instances of Stream for TLC.                                      *)
EXTENDS Stream

(* A chunk is its own length in bytes.                                     *)
MCBytes == [c \in Chunk |-> c]

AllFaults == {"store", "socket", "timeout", "cancel"}
=============================================================================
