----------------------------- MODULE AutoEvent -----------------------------
(***************************************************************************)
(* What an RTL event promises its callers, whatever it is built from: a    *)
(* flag that a set raises, that one waiter takes away when it goes on, and *)
(* that a timed waiter clears when it gives up.  RTLEvent (mutex and       *)
(* condition variable) implements it; Synchronize is built from three of   *)
(* them.                                                                   *)
(***************************************************************************)
CONSTANT Threads

VARIABLES isset,    \* the event is set
          waiting   \* per thread: "no", or in a "plain" or a "timed" wait

Init == isset = FALSE /\ waiting = [t \in Threads |-> "no"]

SetEvent   == isset' = TRUE  /\ UNCHANGED waiting
ResetEvent == isset' = FALSE /\ UNCHANGED waiting

WaitFor(t, mode) ==
  /\ waiting[t] = "no"
  /\ waiting' = [waiting EXCEPT ![t] = mode]
  /\ UNCHANGED isset

\* The waiter goes on and takes the set with it.
Proceed(t) ==
  /\ waiting[t] # "no" /\ isset
  /\ isset' = FALSE
  /\ waiting' = [waiting EXCEPT ![t] = "no"]

\* The time is over: a set that arrived in the last moment is cleared too.
GiveUp(t) ==
  /\ waiting[t] = "timed"
  /\ isset' = FALSE
  /\ waiting' = [waiting EXCEPT ![t] = "no"]

Next ==
  \/ SetEvent \/ ResetEvent
  \/ \E t \in Threads : \/ \E mode \in {"plain", "timed"} : WaitFor(t, mode)
                        \/ Proceed(t) \/ GiveUp(t)

vars == <<isset, waiting>>
Spec == Init /\ [][Next]_vars
=============================================================================
