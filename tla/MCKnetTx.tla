----------------------------- MODULE MCKnetTx -----------------------------
(* KnetTx on a ring of three descriptors: two packets fill it, indices wrap, *)
(* and a chain of two pending descriptors may cross the end of the ring.     *)
EXTENDS KnetTx, TLC

\* Packets and interfaces are interchangeable; used by the safety runs only.
Symmetry == Permutations(Skbs) \union Permutations(Netifs)
=============================================================================
