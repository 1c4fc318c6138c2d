---------------------------- MODULE MCKnetNapi ----------------------------
(* KnetNapi with chains of three descriptors, for all module parameters. *)
EXTENDS KnetNapi
=============================================================================
