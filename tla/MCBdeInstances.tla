--------------------------- MODULE MCBdeInstances ---------------------------
(* BdeInstances with three devices: an application for each, one with two, or one *)
(* with all of them.                                                              *)
EXTENDS BdeInstances
MCPartitions == {{{0}, {1}, {2}}, {{0}, {1, 2}}, {{0, 1, 2}}}
=============================================================================
