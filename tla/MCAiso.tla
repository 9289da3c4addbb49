------------------------------- MODULE MCAiso -------------------------------
(***************************************************************************)
(* Runs for Aiso: numbered, each of a size of 1 to MaxSize, inserted in    *)
(* the order of their numbers as SIM does; a longer run is sorted before a *)
(* shorter one (AISO_BEFORE of runs.c).                                    *)
(***************************************************************************)
EXTENDS Aiso

CONSTANTS MaxRuns, MaxSize

MCValues == [run : 1..MaxRuns, size : 1..MaxSize]
MCBefore(v, w) == v.size > w.size

\* The runs come in the order of their numbers.
Numbered == new # Nil => new.run = Len(list) + 1

MCNext == Next /\ Numbered'
MCSpec == Init /\ [][MCNext]_vars
=============================================================================
