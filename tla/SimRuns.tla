------------------------------ MODULE SimRuns ------------------------------
(***************************************************************************)
(* Two data structures the similarity tester reports from:                 *)
(*   - the selection sort of linked lists (sortlist.bdy);                  *)
(*   - the list of matches behind option p (percentages.c).                *)
(* A linked list is a sequence.                                            *)
(***************************************************************************)
EXTENDS Integers, SequencesExt

(* Sorting a linked list *)

\* hsmall: the first of the smallest elements from the k-th on; SORT_BEFORE is
\* the set of pairs of which it holds
Smallest(s, k, before) ==
  CHOOSE i \in k..Len(s) :
    /\ \A j \in k..Len(s) : <<s[j], s[i]>> \notin before
    /\ \A j \in k..(i - 1) : <<s[i], s[j]>> \in before

\* it is removed from the chain and inserted before the k-th element
MoveToFront(s, k, i) == InsertAt(RemoveAt(s, i), k, s[i])

\* the list after k rounds, and after all of them
SortList(s, before) ==
  LET sorted[k \in 0..Len(s)] ==
        IF k = 0 THEN s
        ELSE LET list == sorted[k - 1]
             IN  MoveToFront(list, k, Smallest(list, k, before))
  IN  sorted[Len(s)]

-----------------------------------------------------------------------------
(* Percentages *)

\* the right text is not looked at
AddToPercentages_LeftOnly(matches, r) ==
  LET found == {k \in 1..Len(matches) : matches[k].text0 = r.text0}
  IN CASE r.text0 = r.text1 -> matches
       [] r.text0 # r.text1 /\ found # {} ->
            [matches EXCEPT ![CHOOSE k \in found : TRUE].size = @ + r.size]
       [] OTHER -> Append(matches, [text0 |-> r.text0, text1 |-> r.text1, size |-> r.size])

\* Percentages are only meaningful between different files.
AddToPercentages(matches, r) ==
  LET found == {k \in 1..Len(matches) :
                  matches[k].text0 = r.text0 /\ matches[k].text1 = r.text1}
  IN CASE r.text0 = r.text1 -> matches
       [] r.text0 # r.text1 /\ found # {} ->
            [matches EXCEPT ![CHOOSE k \in found : TRUE].size = @ + r.size]
       [] OTHER -> Append(matches, [text0 |-> r.text0, text1 |-> r.text1, size |-> r.size])

\* every entry is followed by its double with the texts exchanged
AddReverseEntries(matches) ==
  [q \in 1..(2 * Len(matches)) |->
     LET m == matches[(q + 1) \div 2]
     IN  IF q % 2 = 1 THEN m ELSE [m EXCEPT !.text0 = m.text1, !.text1 = m.text0]]
=============================================================================
