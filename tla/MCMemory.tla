------------------------------ MODULE MCMemory ------------------------------
(* A pool whose chunks hold four blocks of the largest size that shares a  *)
(* chunk, so that a chunk is filled exactly, nearly and not at all; texts  *)
(* that just fit a buffer and that do not.                                 *)
EXTENDS Memory

MCRequests == {1, 9, 17}
MCTexts == {0, 1, 3}
=============================================================================
