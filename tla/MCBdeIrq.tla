----------------------------- MODULE MCBdeIrq -----------------------------
(* BdeIrq with two devices of one instance, each with any of the handlers. *)
EXTENDS BdeIrq
=============================================================================
