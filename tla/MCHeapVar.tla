------------------------------ MODULE MCHeapVar ------------------------------
(***************************************************************************)
(* A program for HeapVar: one os chunk that may be kept, and a larger one  *)
(* that goes back to the system as soon as it is empty.                    *)
(***************************************************************************)
EXTENDS HeapVar

CONSTANTS o1, o2

MCOsChunks == {o1, o2}
MCOsSize == [poc \in MCOsChunks |-> IF poc = o1 THEN 6 ELSE 9]
=============================================================================
