-------------------------------- MODULE Pipe --------------------------------
(***************************************************************************)
(* What one tunnelled direction promises its two sockets: a bounded FIFO   *)
(* from the writer's socket to the reader's, one chunk at a time, that the *)
(* writer's side may close and whose end the reader's side may only report *)
(* after that.  It does not promise that everything written is delivered   *)
(* before the end is reported: streamFromStore does not give that.         *)
(***************************************************************************)
EXTENDS Integers, Sequences

CONSTANTS
    Item,      \* what the pipe carries
    Capacity   \* how many items may be inside it

VARIABLES
    in,      \* every item accepted from the writer
    out,     \* every item handed to the reader
    closed,  \* the writer's side has announced its end
    eof      \* the reader's side has reported a clean end

pipeVars == <<in, out, closed, eof>>

PipeInit ==
    /\ in = << >>
    /\ out = << >>
    /\ closed = FALSE
    /\ eof = FALSE

Accept(c) ==
    /\ ~closed
    /\ Len(in) - Len(out) < Capacity
    /\ in' = Append(in, c)
    /\ UNCHANGED <<out, closed, eof>>

Deliver ==
    /\ ~eof
    /\ Len(out) < Len(in)
    /\ out' = Append(out, in[Len(out) + 1])
    /\ UNCHANGED <<in, closed, eof>>

CloseEnd ==
    /\ ~closed
    /\ closed' = TRUE
    /\ UNCHANGED <<in, out, eof>>

ReportEof ==
    /\ closed
    /\ ~eof
    /\ eof' = TRUE
    /\ UNCHANGED <<in, out, closed>>

PipeNext ==
    \/ \E c \in Item : Accept(c)
    \/ Deliver
    \/ CloseEnd
    \/ ReportEof

PipeSpec == PipeInit /\ [][PipeNext]_pipeVars
=============================================================================
