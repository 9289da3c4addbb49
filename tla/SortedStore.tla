----------------------------- MODULE SortedStore -----------------------------
(***************************************************************************)
(* What the arbitrary-in sorted-out module of SIM promises (aiso.spc):     *)
(* a value is inserted "in its proper place", that is in front of the      *)
(* values it is to be sorted before, and behind all others.                *)
(***************************************************************************)
EXTENDS Integers, SequencesExt

CONSTANTS Values,
          Before(_, _)    \* AISO_BEFORE

VARIABLE list             \* what an iterator yields

Init == list = <<>>

ProperPlace(v, k) ==
  /\ \A i \in 1..(k - 1) : ~Before(v, list[i])
  /\ \A i \in k..Len(list) : Before(v, list[i])

Insert(v) ==
  /\ v \notin ToSet(list)
  /\ \E k \in 1..(Len(list) + 1) : ProperPlace(v, k) /\ list' = InsertAt(list, k, v)

Next == \E v \in Values : Insert(v)

Spec == Init /\ [][Next]_list
=============================================================================
