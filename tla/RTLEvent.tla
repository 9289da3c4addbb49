------------------------------ MODULE RTLEvent ------------------------------
(***************************************************************************)
(* The RTL event of the unix thread manager (rtl/unix/cthreads.pp,         *)
(* intRTLEvent...): a flag, a mutex and a condition variable.  A critical  *)
(* section of the mutex is one step.  A call of a wait function is three:  *)
(* the call (the thread may then block on the mutex), the section up to    *)
(* pthread_cond_wait or to the end, and after every wakeup the section     *)
(* that looks at the flag again.  pthread_cond_wait may return without a   *)
(* signal and pthread_cond_signal may find several sleepers and chooses    *)
(* one.                                                                    *)
(*                                                                         *)
(* A definition X_Y is X with a slip Y; no specification uses it.          *)
(***************************************************************************)
CONSTANT Threads  \* the threads that use the event

VARIABLES
  isset,     \* tintrtlevent.isset
  at,        \* where a thread is: "out" of the event's waits, "enter"ing the
             \*   mutex, "asleep" on the condition variable, "awake" and
             \*   about to get the mutex back
  timed,     \* the thread is in WaitForTimeout
  expired    \* its pthread_cond_timedwait returned ESysETIMEDOUT

vars == <<isset, at, timed, expired>>

Asleep == {t \in Threads : at[t] = "asleep"}

\* intRTLEventCreate; no thread waits for an event that does not exist yet
Init ==
  /\ isset = FALSE
  /\ at = [t \in Threads |-> "out"]
  /\ timed = [t \in Threads |-> FALSE]
  /\ expired = [t \in Threads |-> FALSE]

\* The effect of pthread_cond_signal on the sleepers.
Signal ==
  \/ Asleep = {} /\ UNCHANGED at
  \/ \E w \in Asleep : at' = [at EXCEPT ![w] = "awake"]

Signal_OnlyUntimed ==
  \/ {w \in Asleep : ~timed[w]} = {} /\ UNCHANGED at
  \/ \E w \in Asleep : ~timed[w] /\ at' = [at EXCEPT ![w] = "awake"]

\* intRTLEventSetEvent
SetEvent ==
  /\ isset' = TRUE
  /\ Signal
  /\ UNCHANGED <<timed, expired>>

\* intRTLEventResetEvent
ResetEvent ==
  /\ isset' = FALSE
  /\ UNCHANGED <<at, timed, expired>>

WaitFor_ErrorKept(t, withTimeout) ==
  /\ at[t] = "out"
  /\ at' = [at EXCEPT ![t] = "enter"]
  /\ timed' = [timed EXCEPT ![t] = withTimeout]
  /\ UNCHANGED <<isset, expired>>

\* A thread calls intRTLEventWaitFor, or intRTLEventWaitForTimeout.
WaitFor(t, withTimeout) ==
  /\ at[t] = "out"
  /\ at' = [at EXCEPT ![t] = "enter"]
  /\ timed' = [timed EXCEPT ![t] = withTimeout]
  /\ expired' = [expired EXCEPT ![t] = FALSE]
  /\ UNCHANGED isset

WaitDone_SetKept(t) ==
  /\ isset \/ expired[t]
  /\ isset' = (isset /\ expired[t])
  /\ at' = [at EXCEPT ![t] = "out"]

\* The loop ends and the event is reset, after a timeout as well.
WaitDone(t) ==
  /\ isset \/ expired[t]
  /\ isset' = FALSE
  /\ at' = [at EXCEPT ![t] = "out"]

WaitMore_NotRechecked(t) ==
  /\ ~isset /\ ~expired[t]
  /\ at' = [at EXCEPT ![t] = IF at[t] = "awake" THEN "out" ELSE "asleep"]
  /\ UNCHANGED isset

\* The loop goes on: pthread_cond_wait gives up the mutex and sleeps.
WaitMore(t) ==
  /\ ~isset /\ ~expired[t]
  /\ at' = [at EXCEPT ![t] = "asleep"]
  /\ UNCHANGED isset

\* A thread that got the mutex runs the loop up to its next sleep or its end.
Section(t) ==
  /\ at[t] \in {"enter", "awake"}
  /\ WaitDone(t) \/ WaitMore(t)
  /\ UNCHANGED <<timed, expired>>

\* pthread_cond_wait returns without a signal.
SpuriousWakeup(t) ==
  /\ at[t] = "asleep"
  /\ at' = [at EXCEPT ![t] = "awake"]
  /\ UNCHANGED <<isset, timed, expired>>

Timeout_ErrorLost(t) ==
  /\ timed[t] /\ ~expired[t]
  /\ at[t] \in {"asleep", "awake"}
  /\ at' = [at EXCEPT ![t] = "awake"]
  /\ UNCHANGED <<isset, timed, expired>>

\* pthread_cond_timedwait returns ESysETIMEDOUT; the deadline can also pass
\* while a signalled thread waits for the mutex.
Timeout(t) ==
  /\ timed[t] /\ ~expired[t]
  /\ at[t] \in {"asleep", "awake"}
  /\ at' = [at EXCEPT ![t] = "awake"]
  /\ expired' = [expired EXCEPT ![t] = TRUE]
  /\ UNCHANGED <<isset, timed>>

Next ==
  \/ SetEvent \/ ResetEvent
  \/ \E t \in Threads :
       \/ \E withTimeout \in BOOLEAN : WaitFor(t, withTimeout)
       \/ Section(t) \/ SpuriousWakeup(t) \/ Timeout(t)

Spec == Init /\ [][Next]_vars

-----------------------------------------------------------------------------
(* Properties *)

\* Types; only a timed wait has run out of time (errres starts as 0).
TypeOK ==
  /\ isset \in BOOLEAN
  /\ at \in [Threads -> {"out", "enter", "asleep", "awake"}]
  /\ timed \in [Threads -> BOOLEAN]
  /\ expired \in [Threads -> BOOLEAN]
  /\ \A t \in Threads : expired[t] /\ at[t] # "out" => timed[t]

\* No wakeup is lost: when the event is set and threads sleep on it, one of
\* the waiters is awake and will look at the flag.  A signal that goes to a
\* thread whose time runs out at the same moment must not be swallowed while
\* the flag stays set (intRTLEventWaitForTimeout resets the flag in any case).
NoLostWakeup ==
  isset /\ Asleep # {} => \E t \in Threads : at[t] = "awake"

\* A thread leaves a plain wait only in a step that takes the event's set: of
\* several waiters one set lets one go on, whatever wakeups they had.
Leaves(t) == at[t] # "out" /\ at'[t] = "out"
OneSetOnePasses ==
  [][\A t \in Threads : Leaves(t) =>
        /\ timed[t] \/ (isset /\ ~isset')
        /\ \A u \in Threads : Leaves(u) => u = t]_vars

\* The mutex and the condition variable implement the abstract event.
WaitMode == [t \in Threads |-> IF at[t] = "out" THEN "no"
                               ELSE IF timed[t] THEN "timed" ELSE "plain"]
Abstract == INSTANCE AutoEvent WITH waiting <- WaitMode
Refinement == Abstract!Spec

\* A thread that can take the mutex takes it (the sections are short and none
\* of them blocks with the mutex), and time passes.  Nobody has to set the
\* event and wakeups without a signal need not happen.
Fairness == \A t \in Threads : WF_vars(Section(t)) /\ WF_vars(Timeout(t))
LiveSpec == Spec /\ Fairness

\* A set that finds a waiter is taken by one, or reset.
SetIsTaken == isset /\ Asleep # {} ~> ~isset

\* A timed wait ends whether or not the event is ever set.
TimedWaitEnds == \A t \in Threads : timed[t] /\ at[t] # "out" ~> at[t] = "out"
=============================================================================
