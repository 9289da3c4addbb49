--------------------------- MODULE RTLEventProofs ---------------------------
(***************************************************************************)
(* Proofs about RTLEvent, for any set of threads: the type invariant, that *)
(* no wakeup is lost, that a set lets one waiter pass, and that the event  *)
(* implements AutoEvent.                                                   *)
(***************************************************************************)
EXTENDS RTLEvent, TLAPS

\* Every variable keeps its type and a plain wait never has a timeout.
THEOREM TypeCorrect == Spec => []TypeOK
<1>1. Init => TypeOK
  BY DEF Init, TypeOK
<1>2. TypeOK /\ [Next]_vars => TypeOK'
  <2> SUFFICES ASSUME TypeOK, [Next]_vars PROVE TypeOK'
    OBVIOUS
  <2> USE DEF TypeOK
  <2>1. CASE SetEvent
    BY <2>1 DEF SetEvent, Signal, Asleep
  <2>2. CASE ResetEvent
    BY <2>2 DEF ResetEvent
  <2>3. ASSUME NEW t \in Threads, NEW withTimeout \in BOOLEAN,
               WaitFor(t, withTimeout)
        PROVE  TypeOK'
    BY <2>3 DEF WaitFor
  <2>4. ASSUME NEW t \in Threads, Section(t)
        PROVE  TypeOK'
    BY <2>4 DEF Section, WaitDone, WaitMore
  <2>5. ASSUME NEW t \in Threads, SpuriousWakeup(t)
        PROVE  TypeOK'
    BY <2>5 DEF SpuriousWakeup
  <2>6. ASSUME NEW t \in Threads, Timeout(t)
        PROVE  TypeOK'
    BY <2>6 DEF Timeout
  <2>7. CASE UNCHANGED vars
    BY <2>7 DEF vars
  <2> QED
    BY <2>1, <2>2, <2>3, <2>4, <2>5, <2>6, <2>7 DEF Next
<1> QED
  BY <1>1, <1>2, PTL DEF Spec

\* A set event with a sleeper has a waiter that is awake, in every state: a
\* thread goes to sleep only while the event is not set, a set wakes a
\* sleeper, and an awake thread goes away or back to sleep only in a step
\* that leaves the event reset.
THEOREM WakeupsKept == Spec => []NoLostWakeup
<1>1. Init => NoLostWakeup
  BY DEF Init, NoLostWakeup
<1>2. TypeOK /\ NoLostWakeup /\ [Next]_vars => NoLostWakeup'
  <2> SUFFICES ASSUME TypeOK, NoLostWakeup, [Next]_vars PROVE NoLostWakeup'
    OBVIOUS
  <2> USE DEF TypeOK, NoLostWakeup, Asleep
  <2>1. CASE SetEvent
    BY <2>1 DEF SetEvent, Signal
  <2>2. CASE ResetEvent
    BY <2>2 DEF ResetEvent
  <2>3. ASSUME NEW t \in Threads, NEW withTimeout \in BOOLEAN,
               WaitFor(t, withTimeout)
        PROVE  NoLostWakeup'
    BY <2>3 DEF WaitFor
  <2>4. ASSUME NEW t \in Threads, Section(t)
        PROVE  NoLostWakeup'
    BY <2>4 DEF Section, WaitDone, WaitMore
  <2>5. ASSUME NEW t \in Threads, SpuriousWakeup(t)
        PROVE  NoLostWakeup'
    BY <2>5 DEF SpuriousWakeup
  <2>6. ASSUME NEW t \in Threads, Timeout(t)
        PROVE  NoLostWakeup'
    BY <2>6 DEF Timeout
  <2>7. CASE UNCHANGED vars
    BY <2>7 DEF vars
  <2> QED
    BY <2>1, <2>2, <2>3, <2>4, <2>5, <2>6, <2>7 DEF Next
<1> QED
  BY <1>1, <1>2, TypeCorrect, PTL DEF Spec

\* A plain wait ends only by taking the set, and one thread in a step: of the
\* actions only Section lets a thread leave, and expired is never true of a
\* plain wait.
THEOREM OnePasses == Spec => OneSetOnePasses
<1> DEFINE Step == \A t \in Threads : Leaves(t) =>
                      /\ timed[t] \/ (isset /\ ~isset')
                      /\ \A u \in Threads : Leaves(u) => u = t
<1>1. TypeOK /\ [Next]_vars => [Step]_vars
  <2> SUFFICES ASSUME TypeOK, Next PROVE Step
    OBVIOUS
  <2> USE DEF TypeOK, Leaves
  <2>1. CASE SetEvent
    BY <2>1 DEF SetEvent, Signal, Asleep
  <2>2. CASE ResetEvent
    BY <2>2 DEF ResetEvent
  <2>3. ASSUME NEW t \in Threads, NEW withTimeout \in BOOLEAN,
               WaitFor(t, withTimeout)
        PROVE  Step
    BY <2>3 DEF WaitFor
  <2>4. ASSUME NEW t \in Threads, Section(t)
        PROVE  Step
    BY <2>4 DEF Section, WaitDone, WaitMore
  <2>5. ASSUME NEW t \in Threads, SpuriousWakeup(t)
        PROVE  Step
    BY <2>5 DEF SpuriousWakeup
  <2>6. ASSUME NEW t \in Threads, Timeout(t)
        PROVE  Step
    BY <2>6 DEF Timeout
  <2> QED
    BY <2>1, <2>2, <2>3, <2>4, <2>5, <2>6 DEF Next
<1> QED
  BY <1>1, TypeCorrect, PTL DEF Spec, OneSetOnePasses

\* The event built from a mutex and a condition variable implements AutoEvent:
\* wakeups, signals and mutex queues are steps a caller cannot see.
THEOREM Implements == Spec => Refinement
<1> USE DEF WaitMode
<1>1. Init => Abstract!Init
  BY DEF Init, Abstract!Init
<1>2. TypeOK /\ [Next]_vars => [Abstract!Next]_(Abstract!vars)
  <2> SUFFICES ASSUME TypeOK, [Next]_vars
               PROVE  [Abstract!Next]_(Abstract!vars)
    OBVIOUS
  <2> USE DEF TypeOK, Abstract!Next, Abstract!vars
  <2>1. CASE SetEvent
    <3>1. UNCHANGED WaitMode
      BY <2>1 DEF SetEvent, Signal, Asleep
    <3> QED
      BY <2>1, <3>1 DEF SetEvent, Abstract!SetEvent
  <2>2. CASE ResetEvent
    BY <2>2 DEF ResetEvent, Abstract!ResetEvent
  <2>3. ASSUME NEW t \in Threads, NEW withTimeout \in BOOLEAN,
               WaitFor(t, withTimeout)
        PROVE  Abstract!Next
    <3>1. Abstract!WaitFor(t, IF withTimeout THEN "timed" ELSE "plain")
      BY <2>3 DEF WaitFor, Abstract!WaitFor
    <3> QED
      BY <3>1
  <2>4. ASSUME NEW t \in Threads, Section(t)
        PROVE  [Abstract!Next]_(Abstract!vars)
    <3>1. CASE WaitMore(t)
      BY <2>4, <3>1 DEF Section, WaitMore
    <3>2. CASE WaitDone(t) /\ isset
      <4>1. Abstract!Proceed(t)
        BY <2>4, <3>2 DEF Section, WaitDone, Abstract!Proceed
      <4> QED
        BY <4>1
    <3>3. CASE WaitDone(t) /\ expired[t]
      <4>1. Abstract!GiveUp(t)
        BY <2>4, <3>3 DEF Section, WaitDone, Abstract!GiveUp
      <4> QED
        BY <4>1
    <3> QED
      BY <2>4, <3>1, <3>2, <3>3 DEF Section, WaitDone
  <2>5. ASSUME NEW t \in Threads, SpuriousWakeup(t)
        PROVE  UNCHANGED Abstract!vars
    BY <2>5 DEF SpuriousWakeup
  <2>6. ASSUME NEW t \in Threads, Timeout(t)
        PROVE  UNCHANGED Abstract!vars
    BY <2>6 DEF Timeout
  <2>7. CASE UNCHANGED vars
    BY <2>7 DEF vars
  <2> QED
    BY <2>1, <2>2, <2>3, <2>4, <2>5, <2>6, <2>7 DEF Next
<1> QED
  BY <1>1, <1>2, TypeCorrect, PTL DEF Spec, Refinement, Abstract!Spec
=============================================================================
