------------------------------- MODULE TxFifo -------------------------------
(***************************************************************************)
(* What the Tx path of a KNET device promises the network stack: packets   *)
(* accepted for transmission leave in the order they were accepted, each   *)
(* of them once, and none is lost unless the whole channel is flushed (an  *)
(* HW_RESET or HW_INIT command).  KnetTx implements this with a descriptor *)
(* ring that the DMA engine walks.                                         *)
(***************************************************************************)
EXTENDS Naturals, Sequences

CONSTANTS Skbs, NoSkb   \* packets the stack may hand to the driver; none

VARIABLES
    queue,    \* packets accepted and not yet on the wire, oldest first
    wire,     \* the packet sent last
    flushes   \* how often the channel was flushed

Init == queue = <<>> /\ wire = NoSkb /\ flushes = 0

Accept(s) == queue' = Append(queue, s) /\ UNCHANGED <<wire, flushes>>

Transmit ==
    /\ queue # <<>>
    /\ wire' = Head(queue) /\ queue' = Tail(queue)
    /\ UNCHANGED flushes

Flush == queue' = <<>> /\ flushes' = flushes + 1 /\ UNCHANGED wire

Next == (\E s \in Skbs : Accept(s)) \/ Transmit \/ Flush

Spec == Init /\ [][Next]_<<queue, wire, flushes>>
=============================================================================
