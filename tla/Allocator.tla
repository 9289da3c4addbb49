------------------------------ MODULE Allocator ------------------------------
(***************************************************************************)
(* What a program may rely on when it calls GetMem, FreeMem and ReAllocMem *)
(* whatever the threads involved: a block that is handed out, or grows,    *)
(* overlaps no block that the program still uses, and only a block in use  *)
(* can be given back.                                                      *)
(***************************************************************************)
CONSTANTS Blocks,    \* every block a manager could ever hand out
          Overlap    \* the pairs of blocks that share memory, <<b, b>> included

VARIABLE inuse       \* the blocks the program holds

Init == inuse = {}

Get(b) == /\ \A x \in inuse : <<b, x>> \notin Overlap
          /\ inuse' = inuse \cup {b}

Free(b) == /\ b \in inuse
           /\ inuse' = inuse \ {b}

\* ReAllocMem in place: b becomes c
Resize(b, c) == /\ b \in inuse
                /\ \A x \in inuse \ {b} : <<c, x>> \notin Overlap
                /\ inuse' = (inuse \ {b}) \cup {c}

Next == \E b \in Blocks : Get(b) \/ Free(b) \/ \E c \in Blocks : Resize(b, c)

Spec == Init /\ [][Next]_inuse
=============================================================================
