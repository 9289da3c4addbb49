-------------------------------- MODULE Aiso --------------------------------
(***************************************************************************)
(* The arbitrary-in sorted-out module of SIM (aiso.bdy): a self-adjusting  *)
(* tree with a linked list through it.  InsertAiso walks down the tree,    *)
(* one iteration of its loop a step, and rotates the tree when the walks   *)
(* of late have been long; the value is then hung into tree and list.      *)
(*                                                                         *)
(* The pointers to tree nodes are a function from the places they are in:  *)
(* root, and an_left and an_right of every node.  hook is such a place.  A *)
(* node is named by its value, as every value is inserted once.  The list  *)
(* is a sequence; prev is the node whose an_next prev points to, Nil for   *)
(* the start of the list.                                                  *)
(*                                                                         *)
(* A definition X_Y is X with a slip Y; no specification uses it.          *)
(***************************************************************************)
EXTENDS Integers, SequencesExt

CONSTANTS Values, Nil,
          Before(_, _)    \* AISO_BEFORE(v, w): v is to be sorted before w

ASSUME NilAssumption == Nil \notin Values

\* Not being sorted before is a total preorder.
ASSUME BeforeAssumption ==
  /\ \A v, w \in Values : Before(v, w) \in BOOLEAN
  /\ \A v, w \in Values : Before(v, w) => ~Before(w, v)
  /\ \A u, v, w \in Values : ~Before(u, v) /\ ~Before(v, w) => ~Before(u, w)

VARIABLES
  link,         \* the pointers to tree nodes
  list,
  aiso_size, access_mark,
  new,          \* the value that InsertAiso inserts, Nil between calls
  hook, prev

policy == <<aiso_size, access_mark>>
vars == <<link, list, policy, new, hook, prev>>

root == <<Nil, "root">>
left(n) == <<n, "left">>
right(n) == <<n, "right">>
Nodes == ToSet(list)

Init ==
  /\ link = [h \in {root} |-> Nil]
  /\ list = <<>>
  /\ aiso_size = 0 /\ access_mark = 1
  /\ new = Nil /\ hook = root /\ prev = Nil

\* the node the walk is at
an == link[hook]

InsertAiso(v) ==
  /\ new = Nil
  /\ v \notin Nodes
  /\ new' = v
  /\ hook' = root /\ prev' = Nil
  /\ UNCHANGED <<link, list, policy>>

\* after count_access
must_rotate == 2 * access_mark > aiso_size
count_access == access_mark' = 2 * access_mark /\ UNCHANGED aiso_size
reset_access == access_mark' = 1 /\ UNCHANGED aiso_size

Walking == new # Nil /\ an # Nil

StepLeft ==
  /\ Walking /\ Before(new, an)
  /\ link[left(an)] = Nil \/ ~must_rotate
  /\ hook' = left(an)
  /\ count_access
  /\ UNCHANGED <<link, list, new, prev>>

\* the subtree r is left behind
RotateRight_Drops ==
  LET anl == link[left(an)] IN
  /\ Walking /\ Before(new, an)
  /\ anl # Nil /\ must_rotate
  /\ link' = [link EXCEPT ![left(an)] = Nil, ![right(anl)] = an, ![hook] = anl]
  /\ reset_access
  /\ UNCHANGED <<list, new, hook, prev>>

RotateRight_NotReset ==
  LET anl == link[left(an)] IN
  /\ Walking /\ Before(new, an)
  /\ anl # Nil /\ must_rotate
  /\ link' = [link EXCEPT ![left(an)] = link[right(anl)], ![right(anl)] = an, ![hook] = anl]
  /\ count_access
  /\ UNCHANGED <<list, new, hook, prev>>

\* change (l A r) B (C) into (l) A (r B C)
RotateRight ==
  LET anl == link[left(an)] IN
  /\ Walking /\ Before(new, an)
  /\ anl # Nil /\ must_rotate
  /\ link' = [link EXCEPT ![left(an)] = link[right(anl)], ![right(anl)] = an, ![hook] = anl]
  /\ reset_access
  /\ UNCHANGED <<list, new, hook, prev>>

StepRight ==
  /\ Walking /\ ~Before(new, an)
  /\ link[right(an)] = Nil \/ ~must_rotate
  /\ hook' = right(an)
  /\ prev' = an
  /\ count_access
  /\ UNCHANGED <<link, list, new>>

\* change (A) B (l C r) into (A B l) C (r)
RotateLeft ==
  LET anr == link[right(an)] IN
  /\ Walking /\ ~Before(new, an)
  /\ anr # Nil /\ must_rotate
  /\ link' = [link EXCEPT ![right(an)] = link[left(anr)], ![left(anr)] = an, ![hook] = anr]
  /\ prev' = an
  /\ reset_access
  /\ UNCHANGED <<list, new, hook>>

\* the position in the list behind prev
AfterPrev == IF prev = Nil THEN 1
             ELSE 1 + CHOOSE k \in 1..Len(list) : list[k] = prev

Attach ==
  /\ new # Nil /\ an = Nil
  /\ link' = [h \in DOMAIN link \cup {left(new), right(new)} |->
                IF h = hook THEN new
                ELSE IF h \in DOMAIN link THEN link[h] ELSE Nil]
  /\ list' = InsertAt(list, AfterPrev, new)
  /\ aiso_size' = aiso_size + 1
  /\ new' = Nil
  /\ UNCHANGED <<access_mark, hook, prev>>

Next == \/ \E v \in Values : InsertAiso(v)
        \/ StepLeft \/ RotateRight \/ StepRight \/ RotateLeft
        \/ Attach

Spec == Init /\ [][Next]_vars

-----------------------------------------------------------------------------
(* Properties *)

\* Types; access_mark, a C int that is shifted left at every node, stays below four
\* times the size of the store, as two walks in a row cannot both miss the
\* rotation that resets it.
TypeOK ==
  /\ list \in Seq(Values)
  /\ link \in [{root} \cup Nodes \X {"left", "right"} -> Nodes \cup {Nil}]
  /\ aiso_size = Len(list)
  /\ access_mark \in 1..(IF aiso_size = 0 THEN 1 ELSE 4 * aiso_size)
  /\ new \in (Values \ Nodes) \cup {Nil}
  /\ hook \in DOMAIN link
  /\ prev \in Nodes \cup {Nil}

\* However the tree is rotated on the way, every value gets into its proper place
\* in the list, "arbitrary in, sorted out" (aiso.spc).
Promise == INSTANCE SortedStore
Refinement == Promise!Spec
=============================================================================
