----------------------------- MODULE MCHeapFixed -----------------------------
(***************************************************************************)
(* A small program for HeapFixed: class "small" has two chunks per os      *)
(* chunk, class "large" one.                                               *)
(***************************************************************************)
EXTENDS HeapFixed, TLC

CONSTANTS small, large

MCChunkIndex == {small, large}
MCSlots == [c \in MCChunkIndex |-> IF c = small THEN {1, 2} ELSE {1}]
MCSymmetry == Permutations(Threads \ {Main}) \cup Permutations(OsChunks)
=============================================================================
