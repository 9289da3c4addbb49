---------------------------- MODULE SimLanguage ----------------------------
(***************************************************************************)
(* The Language interface of the similarity tester (language.h), as        *)
(* algollike.c implements it for the C, Java, Pascal and Modula-2 scanners:*)
(* which token may start a run, and how much of a run is acceptable.       *)
(*                                                                         *)
(* The four token lists of Xlang.l, terminated by NOTOKEN and converted to *)
(* tables by InitLanguage, are constants; the n-th opener corresponds to   *)
(* the n-th closer.  A loop that keeps the last position at which          *)
(* something holds is the Max of these positions.                          *)
(***************************************************************************)
EXTENDS Integers, Sequences, FiniteSetsExt

CONSTANTS
  NonFinals,    \* tokens that may not end a run
  NonInitials,  \* tokens that may not start a run
  Openers,      \* the sequence of opening parentheses
  Closers       \* the sequence of closing parentheses

ASSUME ParenthesesAssumption == Len(Openers) = Len(Closers)
\* as in every Xlang.l
ASSUME ClosersAssumption == \A k \in 1..Len(Closers) : Closers[k] \notin NonFinals

MayBeStartOfRun(tk) == tk \notin NonInitials

\* balance_count of the n-th parenthesis after the first p tokens of str
Balance(str, n, p) ==
  Cardinality({q \in 1..p : str[q] = Openers[n]})
    - Cardinality({q \in 1..p : str[q] = Closers[n]})

\* the scan gets past the p-th token without meeting one closer too many
NoSurplus(str, p) == \A n \in 1..Len(Openers) : Balance(str, n, p) >= 0

Balanced(str, p) == \A n \in 1..Len(Openers) : Balance(str, n, p) = 0

\* the code goes on after a closer too many
LargestFunction_GoesOn(str) ==
  Max({p \in 0..Len(str) : p = 0 \/ Balanced(str, p)})

LargestFunction(str) ==
  Max({p \in 0..Len(str) : p = 0 \/ /\ Balanced(str, p)
                                    /\ \A q \in 1..p : NoSurplus(str, q)})

\* The length of str that is acceptable as a run: its end is cut, with option
\* f to a function-like form first.
CheckRun(str, f) ==
  LET size == IF f THEN LargestFunction(str) ELSE Len(str)
  IN  Max({k \in 0..size : k = 0 \/ str[k] \notin NonFinals})
=============================================================================
