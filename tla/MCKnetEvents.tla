---------------------------- MODULE MCKnetEvents ----------------------------
(***************************************************************************)
(* Instances of KnetEvents for TLC.  Each instance of the BCM API is one   *)
(* process, with one thread in bkn_get_next_dma_event.                     *)
(***************************************************************************)
EXTENDS KnetEvents, TLC

CONSTANTS a, b      \* callers

\* Three devices: one instance has units 0 and 1, the other unit 2.
MCMask == 0 :> {0, 1} @@ 1 :> {0, 1} @@ 2 :> {2}
MCAsks == a :> {0, 1} @@ b :> {2}

\* Two devices, each an instance of its own.
SpinMask == 0 :> {0} @@ 1 :> {1}
SpinAsks == a :> {0} @@ b :> {1}
=============================================================================
