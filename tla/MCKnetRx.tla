------------------------------ MODULE MCKnetRx ------------------------------
(* KnetRx on a ring of two or three descriptors, small enough for buffers, API *)
(* chains and refills to interleave in every order.                            *)
EXTENDS KnetRx
=============================================================================
