------------------------------ MODULE ByteFifo ------------------------------
(***************************************************************************)
(* What the UART transmitter promises: a queue.  Every byte accepted goes  *)
(* out once, in the order of acceptance, and at most Capacity bytes are    *)
(* accepted and not yet out.                                               *)
(***************************************************************************)
EXTENDS Naturals, Sequences

CONSTANTS
    Bytes,      \* what can be sent
    Capacity    \* bytes the transmitter holds

VARIABLES
    queue,      \* accepted, not yet out
    line        \* gone out

fifoVars == <<queue, line>>

Init == queue = <<>> /\ line = <<>>

Accept(b) ==
    /\ Len(queue) < Capacity
    /\ queue' = Append(queue, b)
    /\ UNCHANGED line

Deliver ==
    /\ queue # <<>>
    /\ line' = Append(line, Head(queue))
    /\ queue' = Tail(queue)

Next == Deliver \/ \E b \in Bytes : Accept(b)

Spec == Init /\ [][Next]_fifoVars
=============================================================================
