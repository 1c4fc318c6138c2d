---------------------------- MODULE MCDmaMemory ----------------------------
(* DmaMemory with a segment of three blocks, put together from up to seven of  *)
(* eight that come in any order, and a pool of six cache lines.                *)
EXTENDS DmaMemory
MCBlocks == 2 .. 9
=============================================================================
