------------------------- MODULE SynchronizeProofs -------------------------
(***************************************************************************)
(* Proofs about Synchronize for any number of workers and any nesting of   *)
(* CheckSynchronize.                                                       *)
(***************************************************************************)
EXTENDS Synchronize, TLAPS

Inside == {"prepare", "announce", "signal", "wake", "wait", "leave"}

\* The critical section: its owner is the one worker inside.
Section ==
  \A w \in Workers : pc[w] \in Inside <=> owner = w

\* Where the request is: a caller that announced one has it in exactly one of
\* the flag, a frame and ExecuteEvent.
Asked == owner \in Workers /\ Asking(owner)
Place ==
  /\ doSync => Asked /\ ~executeSet /\ \A f \in Frames : ~Serving(f)
  /\ executeSet => Asked /\ \A f \in Frames : ~Serving(f)
  /\ \A f, g \in Frames : Serving(f) => Asked /\ (Serving(g) => f = g)
  /\ Asked => doSync \/ executeSet \/ \E f \in Frames : Serving(f)

\* What the globals hold while a request is under way.
Contents ==
  /\ Asked \/ (owner \in Workers /\ pc[owner] = "announce") => method = owner
  /\ \A f \in Frames :
       running[f] = IF frame[f] \in {"run", "release"} THEN owner ELSE Nil
  /\ Asked => exception \in {Nil, owner}
  /\ \/ owner \in Workers /\ pc[owner] = "announce"
     \/ Asked /\ doSync
     \/ \E f \in Frames : frame[f] \in {"call", "run"}
     => exception = Nil
  /\ \A w \in Workers : pc[w] = "leave" => local[w] \in {Nil, w}

IInv == TypeOK /\ Section /\ Place /\ Contents /\ NoLostRequest

LEMMA InitInv == Init => IInv
<1> SUFFICES ASSUME Init PROVE IInv
  OBVIOUS
<1> USE ConstantsAssumption DEF Init, Frames
<1>1. TypeOK
  <2>1. frame \in [Frames -> {"none", "wait", "look", "call", "run", "release"}]
    OBVIOUS
  <2>2. depth \in 0..MaxDepth /\ \A f \in Frames : frame[f] = "none" <=> f > depth
    OBVIOUS
  <2>3. /\ pc \in [Workers -> {"out", "enter", "prepare", "announce", "signal",
                              "wake", "wait", "leave"}]
        /\ local \in [Workers -> Workers \cup {Nil}]
        /\ running \in [Frames -> Workers \cup {Nil}]
    OBVIOUS
  <2> QED
    BY <2>1, <2>2, <2>3 DEF TypeOK
<1>2. Section /\ Place /\ Contents /\ NoLostRequest
  BY DEF Section, Place, Contents, NoLostRequest, Asked, Asking, Serving, Inside
<1> QED
  BY <1>1, <1>2 DEF IInv

LEMMA TypeStep == ASSUME IInv, [Next]_vars PROVE TypeOK'
<1> USE ConstantsAssumption DEF IInv, TypeOK, Frames, request, events, worker, main
<1>1. ASSUME NEW w \in Workers, Call(w) PROVE TypeOK'
  BY <1>1 DEF Call, Goes
<1>2. ASSUME NEW w \in Workers, EnterCritSect(w) PROVE TypeOK'
  BY <1>2 DEF EnterCritSect, Goes
<1>3. ASSUME NEW w \in Workers, Prepare(w) PROVE TypeOK'
  BY <1>3 DEF Prepare, Goes
<1>4. ASSUME NEW w \in Workers, Announce(w) PROVE TypeOK'
  BY <1>4 DEF Announce, Goes
<1>5. ASSUME NEW w \in Workers, SignalMain(w) PROVE TypeOK'
  BY <1>5 DEF SignalMain, Goes, Timeout!SetEvent
<1>6. ASSUME NEW w \in Workers, WakeMain(w) PROVE TypeOK'
  BY <1>6 DEF WakeMain, Goes, Execute!WaitFor
<1>7. ASSUME NEW w \in Workers, Executed(w) PROVE TypeOK'
  BY <1>7 DEF Executed, Goes, Execute!Proceed
<1>8. ASSUME NEW w \in Workers, LeaveCritSect(w) PROVE TypeOK'
  BY <1>8 DEF LeaveCritSect, Goes, Section
<1>9. ASSUME NEW f \in Frames, CheckAndWait(f) PROVE TypeOK'
  BY <1>9 DEF CheckAndWait, Timeout!WaitFor
<1>10. ASSUME NEW f \in Frames, Check(f) PROVE TypeOK'
  <2>1. timeoutSet' \in BOOLEAN
    BY <1>10 DEF Check, Timeout!ResetEvent
  <2>2. /\ depth' \in 0..MaxDepth
        /\ frame' \in [Frames -> {"none", "wait", "look", "call", "run", "release"}]
        /\ \A g \in Frames : frame'[g] = "none" <=> g > depth'
    BY <1>10 DEF Check
  <2> QED
    BY <1>10, <2>1, <2>2 DEF Check
<1>11. ASSUME NEW f \in Frames, WaitEnds(f) PROVE TypeOK'
  BY <1>11 DEF WaitEnds, Move, At, Timeout!Proceed
<1>12. ASSUME NEW f \in Frames, WaitExpires(f) PROVE TypeOK'
  BY <1>12 DEF WaitExpires, Move, At, Timeout!GiveUp
<1>13. ASSUME NEW f \in Frames, NothingToDo(f) PROVE TypeOK'
  BY <1>13 DEF NothingToDo, At, Pop
<1>14. ASSUME NEW f \in Frames, TakeRequest(f) PROVE TypeOK'
  BY <1>14 DEF TakeRequest, Move, At
<1>15. ASSUME NEW f \in Frames, RunMethod(f) PROVE TypeOK'
  BY <1>15 DEF RunMethod, Move, At, Place, Contents, Asked, Serving
<1>16. ASSUME NEW f \in Frames, NEW raises \in BOOLEAN, MethodEnds(f, raises) PROVE TypeOK'
  BY <1>16 DEF MethodEnds, Move, At
<1>17. ASSUME NEW f \in Frames, ReleaseCaller(f) PROVE TypeOK'
  BY <1>17 DEF ReleaseCaller, At, Pop, Execute!SetEvent
<1>18. CASE UNCHANGED vars
  BY <1>18 DEF vars
<1> QED
  BY <1>1, <1>2, <1>3, <1>4, <1>5, <1>6, <1>7, <1>8, <1>9, <1>10,
     <1>11, <1>12, <1>13, <1>14, <1>15, <1>16, <1>17, <1>18
     DEF Next, InWorker, InMain
LEMMA InvStep ==
  ASSUME IInv, TypeOK', [Next]_vars
  PROVE  (Section /\ Place /\ Contents /\ NoLostRequest)'
<1> DEFINE Rest == Section /\ Place /\ Contents /\ NoLostRequest
<1> USE ConstantsAssumption DEF IInv, TypeOK, request, events, worker, main
<1>1. ASSUME NEW w \in Workers, EnterCritSect(w) PROVE Rest'
  <2>1. Section'
    BY <1>1 DEF EnterCritSect, Goes, Section, Inside
  <2>2. Place'
    BY <1>1 DEF EnterCritSect, Goes, Section, Inside, Place, Asked, Asking, Serving
  <2>3. Contents'
    BY <1>1 DEF EnterCritSect, Goes, Section, Inside, Place, Asked, Asking, Serving, Contents
  <2>4. NoLostRequest'
    BY <1>1 DEF EnterCritSect, Goes, Section, Inside, Place, Asked, Asking, Serving, NoLostRequest
  <2> QED
    BY <2>1, <2>2, <2>3, <2>4
<1>2. ASSUME NEW w \in Workers, Prepare(w) PROVE Rest'
  <2>1. Section'
    BY <1>2 DEF Prepare, Goes, Section, Inside
  <2>2. Place'
    BY <1>2 DEF Prepare, Goes, Section, Inside, Place, Asked, Asking, Serving
  <2>3. Contents'
    BY <1>2 DEF Prepare, Goes, Section, Inside, Place, Asked, Asking, Serving, Contents
  <2>4. NoLostRequest'
    BY <1>2 DEF Prepare, Goes, Section, Inside, Place, Asked, Asking, Serving, NoLostRequest
  <2> QED
    BY <2>1, <2>2, <2>3, <2>4
<1>3. ASSUME NEW w \in Workers, Announce(w) PROVE Rest'
  <2>1. Section'
    BY <1>3 DEF Announce, Goes, Section, Inside
  <2>2. Place'
    BY <1>3 DEF Announce, Goes, Section, Inside, Place, Asked, Asking, Serving
  <2>3. Contents'
    BY <1>3 DEF Announce, Goes, Section, Inside, Place, Asked, Asking, Serving, Contents
  <2>4. NoLostRequest'
    BY <1>3 DEF Announce, Goes, Section, Inside, Place, Asked, Asking, Serving, NoLostRequest
  <2> QED
    BY <2>1, <2>2, <2>3, <2>4
<1>4. ASSUME NEW w \in Workers, SignalMain(w) PROVE Rest'
  <2>1. Section'
    BY <1>4 DEF SignalMain, Goes, Timeout!SetEvent, Section, Inside
  <2>2. Place'
    BY <1>4 DEF SignalMain, Goes, Timeout!SetEvent, Section, Inside, Place, Asked, Asking, Serving
  <2>3. Contents'
    BY <1>4 DEF SignalMain, Goes, Timeout!SetEvent, Section, Inside, Place, Asked, Asking, Serving, Contents
  <2>4. NoLostRequest'
    BY <1>4 DEF SignalMain, Goes, Timeout!SetEvent, Section, Inside, Place, Asked, Asking, Serving, NoLostRequest
  <2> QED
    BY <2>1, <2>2, <2>3, <2>4
<1>5. ASSUME NEW w \in Workers, WakeMain(w) PROVE Rest'
  <2>1. Section'
    BY <1>5 DEF WakeMain, Goes, Execute!WaitFor, Section, Inside
  <2>2. Place'
    BY <1>5 DEF WakeMain, Goes, Execute!WaitFor, Section, Inside, Place, Asked, Asking, Serving
  <2>3. Contents'
    BY <1>5 DEF WakeMain, Goes, Execute!WaitFor, Section, Inside, Place, Asked, Asking, Serving, Contents
  <2>4. NoLostRequest'
    BY <1>5 DEF WakeMain, Goes, Execute!WaitFor, Section, Inside, Place, Asked, Asking, Serving, NoLostRequest
  <2> QED
    BY <2>1, <2>2, <2>3, <2>4
<1>6. ASSUME NEW w \in Workers, Executed(w) PROVE Rest'
  <2>1. Section'
    BY <1>6 DEF Executed, Goes, Execute!Proceed, Section, Inside
  <2>2. Place'
    BY <1>6 DEF Executed, Goes, Execute!Proceed, Section, Inside, Place, Asked, Asking, Serving
  <2>3. Contents'
    BY <1>6 DEF Executed, Goes, Execute!Proceed, Section, Inside, Place, Asked, Asking, Serving, Contents
  <2>4. NoLostRequest'
    BY <1>6 DEF Executed, Goes, Execute!Proceed, Section, Inside, Place, Asked, Asking, Serving, NoLostRequest
  <2> QED
    BY <2>1, <2>2, <2>3, <2>4
<1>7. ASSUME NEW w \in Workers, LeaveCritSect(w) PROVE Rest'
  <2>1. Section'
    BY <1>7 DEF LeaveCritSect, Goes, Section, Inside
  <2>2. Place'
    BY <1>7 DEF LeaveCritSect, Goes, Section, Inside, Place, Asked, Asking, Serving
  <2>3. Contents'
    BY <1>7 DEF LeaveCritSect, Goes, Section, Inside, Place, Asked, Asking, Serving, Contents
  <2>4. NoLostRequest'
    BY <1>7 DEF LeaveCritSect, Goes, Section, Inside, Place, Asked, Asking, Serving, NoLostRequest
  <2> QED
    BY <2>1, <2>2, <2>3, <2>4
<1>8. ASSUME NEW w \in Workers, Call(w) PROVE Rest'
  <2>1. Section'
    BY <1>8 DEF Call, Goes, Section, Inside
  <2>2. Place'
    BY <1>8 DEF Call, Goes, Section, Inside, Place, Asked, Asking, Serving
  <2>3. Contents'
    BY <1>8 DEF Call, Goes, Section, Inside, Place, Asked, Asking, Serving, Contents
  <2>4. NoLostRequest'
    BY <1>8 DEF Call, Goes, Section, Inside, Place, Asked, Asking, Serving, NoLostRequest
  <2> QED
    BY <2>1, <2>2, <2>3, <2>4
<1>9. ASSUME NEW f \in Frames, CheckAndWait(f) PROVE Rest'
  <2>1. Section'
    BY <1>9 DEF CheckAndWait, MayCheck, Timeout!WaitFor, Section, Inside
  <2>2. Place'
    BY <1>9 DEF CheckAndWait, MayCheck, Timeout!WaitFor, Section, Inside, Place, Asked, Asking, Serving
  <2>3. Contents'
    BY <1>9 DEF CheckAndWait, MayCheck, Timeout!WaitFor, Section, Inside, Place, Asked, Asking, Serving, Contents
  <2>4. NoLostRequest'
    BY <1>9 DEF CheckAndWait, MayCheck, Timeout!WaitFor, Section, Inside, Place, Asked, Asking, Serving, NoLostRequest
  <2> QED
    BY <2>1, <2>2, <2>3, <2>4
<1>10. ASSUME NEW f \in Frames, Check(f) PROVE Rest'
  <2>1. Section'
    BY <1>10 DEF Check, MayCheck, Timeout!ResetEvent, Section, Inside
  <2>2. Place'
    BY <1>10 DEF Check, MayCheck, Timeout!ResetEvent, Section, Inside, Place, Asked, Asking, Serving
  <2>3. Contents'
    BY <1>10 DEF Check, MayCheck, Timeout!ResetEvent, Section, Inside, Place, Asked, Asking, Serving, Contents
  <2>4. NoLostRequest'
    BY <1>10 DEF Check, MayCheck, Timeout!ResetEvent, Section, Inside, Place, Asked, Asking, Serving, NoLostRequest
  <2> QED
    BY <2>1, <2>2, <2>3, <2>4
<1>11. ASSUME NEW f \in Frames, WaitEnds(f) PROVE Rest'
  <2>1. Section'
    BY <1>11 DEF WaitEnds, Move, At, Timeout!Proceed, Section, Inside
  <2>2. Place'
    BY <1>11 DEF WaitEnds, Move, At, Timeout!Proceed, Section, Inside, Place, Asked, Asking, Serving
  <2>3. Contents'
    BY <1>11 DEF WaitEnds, Move, At, Timeout!Proceed, Section, Inside, Place, Asked, Asking, Serving, Contents
  <2>4. NoLostRequest'
    BY <1>11 DEF WaitEnds, Move, At, Timeout!Proceed, Section, Inside, Place, Asked, Asking, Serving, NoLostRequest
  <2> QED
    BY <2>1, <2>2, <2>3, <2>4
<1>12. ASSUME NEW f \in Frames, WaitExpires(f) PROVE Rest'
  <2>1. Section'
    BY <1>12 DEF WaitExpires, Move, At, Timeout!GiveUp, Section, Inside
  <2>2. Place'
    BY <1>12 DEF WaitExpires, Move, At, Timeout!GiveUp, Section, Inside, Place, Asked, Asking, Serving
  <2>3. Contents'
    BY <1>12 DEF WaitExpires, Move, At, Timeout!GiveUp, Section, Inside, Place, Asked, Asking, Serving, Contents
  <2>4. NoLostRequest'
    BY <1>12 DEF WaitExpires, Move, At, Timeout!GiveUp, Section, Inside, Place, Asked, Asking, Serving, NoLostRequest
  <2> QED
    BY <2>1, <2>2, <2>3, <2>4
<1>13. ASSUME NEW f \in Frames, NothingToDo(f) PROVE Rest'
  <2>1. Section'
    BY <1>13 DEF NothingToDo, At, Pop, Section, Inside
  <2>2. Place'
    BY <1>13 DEF NothingToDo, At, Pop, Section, Inside, Place, Asked, Asking, Serving
  <2>3. Contents'
    BY <1>13 DEF NothingToDo, At, Pop, Section, Inside, Place, Asked, Asking, Serving, Contents
  <2>4. NoLostRequest'
    BY <1>13 DEF NothingToDo, At, Pop, Section, Inside, Place, Asked, Asking, Serving, NoLostRequest
  <2> QED
    BY <2>1, <2>2, <2>3, <2>4
<1>14. ASSUME NEW f \in Frames, TakeRequest(f) PROVE Rest'
  <2>1. Section'
    BY <1>14 DEF TakeRequest, Move, At, Section, Inside
  <2>2. Place'
    BY <1>14 DEF TakeRequest, Move, At, Section, Inside, Place, Asked, Asking, Serving
  <2>3. Contents'
    BY <1>14 DEF TakeRequest, Move, At, Section, Inside, Place, Asked, Asking, Serving, Contents
  <2>4. NoLostRequest'
    BY <1>14 DEF TakeRequest, Move, At, Section, Inside, Place, Asked, Asking, Serving, NoLostRequest
  <2> QED
    BY <2>1, <2>2, <2>3, <2>4
<1>15. ASSUME NEW f \in Frames, RunMethod(f) PROVE Rest'
  <2>1. Section'
    BY <1>15 DEF RunMethod, Move, At, Section, Inside
  <2>2. Place'
    BY <1>15 DEF RunMethod, Move, At, Section, Inside, Place, Asked, Asking, Serving
  <2>3. Contents'
    BY <1>15 DEF RunMethod, Move, At, Section, Inside, Place, Asked, Asking, Serving, Contents
  <2>4. NoLostRequest'
    BY <1>15 DEF RunMethod, Move, At, Section, Inside, Place, Asked, Asking, Serving, NoLostRequest
  <2> QED
    BY <2>1, <2>2, <2>3, <2>4
<1>16. ASSUME NEW f \in Frames, NEW raises \in BOOLEAN, MethodEnds(f, raises) PROVE Rest'
  <2>1. Section'
    BY <1>16 DEF MethodEnds, Move, At, Section, Inside
  <2>2. Place'
    BY <1>16 DEF MethodEnds, Move, At, Section, Inside, Place, Asked, Asking, Serving
  <2>3. Contents'
    BY <1>16 DEF MethodEnds, Move, At, Section, Inside, Place, Asked, Asking, Serving, Contents
  <2>4. NoLostRequest'
    BY <1>16 DEF MethodEnds, Move, At, Section, Inside, Place, Asked, Asking, Serving, NoLostRequest
  <2> QED
    BY <2>1, <2>2, <2>3, <2>4
<1>17. ASSUME NEW f \in Frames, ReleaseCaller(f) PROVE Rest'
  <2>1. Section'
    BY <1>17 DEF ReleaseCaller, At, Pop, Execute!SetEvent, Section, Inside
  <2>2. Place'
    BY <1>17 DEF ReleaseCaller, At, Pop, Execute!SetEvent, Section, Inside, Place, Asked, Asking, Serving
  <2>3. Contents'
    BY <1>17 DEF ReleaseCaller, At, Pop, Execute!SetEvent, Section, Inside, Place, Asked, Asking, Serving, Contents
  <2>4. NoLostRequest'
    BY <1>17 DEF ReleaseCaller, At, Pop, Execute!SetEvent, Section, Inside, Place, Asked, Asking, Serving, NoLostRequest
  <2> QED
    BY <2>1, <2>2, <2>3, <2>4
<1>18. CASE UNCHANGED vars
  BY <1>18 DEF vars, Section, Place, Contents, NoLostRequest, Asked, Asking, Serving, Inside
<1> QED
  BY <1>1, <1>2, <1>3, <1>4, <1>5, <1>6, <1>7, <1>8, <1>9, <1>10, <1>11, <1>12, <1>13, <1>14, <1>15, <1>16, <1>17, <1>18
     DEF Next, InWorker, InMain

\* The invariant of the proofs.
LEMMA Invariant == Spec => []IInv
<1>1. IInv /\ [Next]_vars => IInv'
  BY TypeStep, InvStep DEF IInv
<1> QED
  BY InitInv, <1>1, PTL DEF Spec

\* The globals, the critical section and every frame of CheckSynchronize keep
\* values of their kind.
THEOREM TypeCorrect == Spec => []TypeOK
<1>1. IInv => TypeOK
  BY DEF IInv
<1> QED
  BY Invariant, <1>1, PTL

\* A request is in one place at a time and ExecuteEvent is never left set for
\* the next caller.
THEOREM OnePlace == Spec => []RequestInOnePlace
<1>1. IInv => RequestInOnePlace
  <2> SUFFICES ASSUME IInv PROVE RequestInOnePlace
    OBVIOUS
  <2> DEFINE p == <<doSync, \E f \in Frames : Serving(f), executeSet>>
  <2>1. (\E w \in Workers : Asking(w)) <=> Asked
    BY ConstantsAssumption DEF IInv, TypeOK, Section, Inside, Asked, Asking
  <2>2. /\ p[1] = doSync
        /\ p[2] = \E f \in Frames : Serving(f)
        /\ p[3] = executeSet
    OBVIOUS
  <2>3. Asked <=> doSync \/ executeSet \/ \E f \in Frames : Serving(f)
    BY DEF IInv, Place
  <2>4. /\ ~(doSync /\ executeSet)
        /\ ~(doSync /\ \E f \in Frames : Serving(f))
        /\ ~(executeSet /\ \E f \in Frames : Serving(f))
    BY DEF IInv, Place
  <2>5. \A i \in 1..3 : i = 1 \/ i = 2 \/ i = 3
    OBVIOUS
  <2> HIDE DEF p
  <2>6. Asked <=> \E i \in 1..3 : p[i]
    <3>1. (\E i \in 1..3 : p[i]) <=> p[1] \/ p[2] \/ p[3]
      BY <2>5
    <3> QED
      BY <2>2, <2>3, <3>1
  <2>7. ASSUME NEW i \in 1..3, NEW j \in 1..3, p[i], p[j] PROVE i = j
    <3>1. ~(p[1] /\ p[2]) /\ ~(p[1] /\ p[3]) /\ ~(p[2] /\ p[3])
      BY <2>2, <2>4
    <3>2. (i = 1 \/ i = 2 \/ i = 3) /\ (j = 1 \/ j = 2 \/ j = 3)
      BY <2>5
    <3> QED
      BY <2>7, <3>1, <3>2
  <2> QED
    BY <2>1, <2>6, <2>7 DEF RequestInOnePlace, p
<1> QED
  BY Invariant, <1>1, PTL

\* Nested calls of CheckSynchronize never run a second method, however deep.
THEOREM NoReentry == Spec => []NotReentered
<1>1. IInv => NotReentered
  BY DEF IInv, Place, NotReentered
<1> QED
  BY Invariant, <1>1, PTL

\* The order in which flag and timeout event are written and read leaves no
\* moment in which the main thread could sleep over a request.
THEOREM RequestsSeen == Spec => []NoLostRequest
<1>1. IInv => NoLostRequest
  BY DEF IInv
<1> QED
  BY Invariant, <1>1, PTL

\* One worker at a time is between EnterCriticalSection and
\* LeaveCriticalSection.
THEOREM Guarded == Spec => []GuardHeld
<1>1. IInv => GuardHeld
  BY DEF IInv, Section, Inside, GuardHeld
<1> QED
  BY Invariant, <1>1, PTL

-----------------------------------------------------------------------------
(* Synchronize implements MainThreadCall. *)

\* Where a call is in the abstract specification, by the phase of its caller.
PhaseOf(w) ==
  /\ pc[w] = "out" => CallOf(w) = "none"
  /\ pc[w] \in {"enter", "prepare", "announce"} => CallOf(w) = "pending"
  /\ Asking(w) /\ doSync => CallOf(w) = "pending"
  /\ Asking(w) => \A f \in Frames :
       /\ frame[f] = "call" => CallOf(w) = "pending"
       /\ frame[f] = "run" => CallOf(w) = "running"
       /\ frame[f] = "release" => CallOf(w) = "done"
  /\ Asking(w) /\ executeSet => CallOf(w) = "done"
  /\ pc[w] = "leave" => CallOf(w) = "done"
PhasesOf == \A w \in Workers : PhaseOf(w)
LEMMA Phases == IInv => PhasesOf
<1> SUFFICES ASSUME IInv, NEW w \in Workers PROVE PhaseOf(w)
  BY DEF PhasesOf
<1> USE ConstantsAssumption
    DEF IInv, TypeOK, Section, Inside, Place, Contents, Asked, Asking, Serving
<1>1. \A f \in Frames : frame[f] = "run" => running[f] = owner /\ Asked
  OBVIOUS
<1>2. pc[w] # "out" /\ ~Asking(w) => ~\E f \in Frames : frame[f] = "run" /\ running[f] = w
  BY <1>1
<1>3. Asking(w) => owner = w
  OBVIOUS
<1>4. /\ pc[w] = "out" => CallOf(w) = "none"
      /\ pc[w] \in {"enter", "prepare", "announce"} => CallOf(w) = "pending"
      /\ pc[w] = "leave" => CallOf(w) = "done"
  BY <1>2 DEF CallOf
<1>5. Asking(w) /\ doSync => CallOf(w) = "pending"
  BY <1>3 DEF CallOf
<1>6. Asking(w) /\ executeSet => CallOf(w) = "done"
  BY <1>3 DEF CallOf
<1>7. ASSUME Asking(w), NEW f \in Frames
      PROVE  /\ frame[f] = "call" => CallOf(w) = "pending"
             /\ frame[f] = "run" => CallOf(w) = "running"
             /\ frame[f] = "release" => CallOf(w) = "done"
  BY <1>1, <1>3, <1>7 DEF CallOf
<1> QED
  BY <1>4, <1>5, <1>6, <1>7 DEF PhaseOf

LEMMA RefineStep ==
  ASSUME IInv, IInv', PhasesOf, PhasesOf', [Next]_vars
  PROVE  [Abstract!Next]_(Abstract!vars)
<1> DEFINE Same == \A v \in Workers : /\ CallOf(v)' = CallOf(v)
                                      /\ ExceptionOf(v)' = ExceptionOf(v)
<1> USE ConstantsAssumption
    DEF IInv, TypeOK, Section, Inside, Place, Contents, Asked, Asking, Serving,
        PhasesOf, PhaseOf, request, events, worker, main
<1>1. ASSUME NEW w \in Workers, EnterCritSect(w) PROVE Same
  <2>1. ASSUME NEW v \in Workers PROVE CallOf(v)' = CallOf(v)
    BY <1>1 DEF EnterCritSect, Goes
  <2>2. ASSUME NEW v \in Workers PROVE ExceptionOf(v)' = ExceptionOf(v)
    BY <1>1, <2>1 DEF EnterCritSect, Goes, ExceptionOf
  <2> QED
    BY <2>1, <2>2
<1>2. ASSUME NEW w \in Workers, Prepare(w) PROVE Same
  <2>1. ASSUME NEW v \in Workers PROVE CallOf(v)' = CallOf(v)
    BY <1>2 DEF Prepare, Goes
  <2>2. ASSUME NEW v \in Workers PROVE ExceptionOf(v)' = ExceptionOf(v)
    BY <1>2, <2>1 DEF Prepare, Goes, ExceptionOf
  <2> QED
    BY <2>1, <2>2
<1>3. ASSUME NEW w \in Workers, Announce(w) PROVE Same
  <2>1. ASSUME NEW v \in Workers PROVE CallOf(v)' = CallOf(v)
    BY <1>3 DEF Announce, Goes
  <2>2. ASSUME NEW v \in Workers PROVE ExceptionOf(v)' = ExceptionOf(v)
    BY <1>3, <2>1 DEF Announce, Goes, ExceptionOf
  <2> QED
    BY <2>1, <2>2
<1>4. ASSUME NEW w \in Workers, SignalMain(w) PROVE Same
  <2>1. ASSUME NEW v \in Workers PROVE CallOf(v)' = CallOf(v)
    BY <1>4 DEF SignalMain, Goes, Timeout!SetEvent
  <2>2. ASSUME NEW v \in Workers PROVE ExceptionOf(v)' = ExceptionOf(v)
    BY <1>4, <2>1 DEF SignalMain, Goes, Timeout!SetEvent, ExceptionOf
  <2> QED
    BY <2>1, <2>2
<1>5. ASSUME NEW w \in Workers, WakeMain(w) PROVE Same
  <2>1. ASSUME NEW v \in Workers PROVE CallOf(v)' = CallOf(v)
    BY <1>5 DEF WakeMain, Goes, Execute!WaitFor
  <2>2. ASSUME NEW v \in Workers PROVE ExceptionOf(v)' = ExceptionOf(v)
    BY <1>5, <2>1 DEF WakeMain, Goes, Execute!WaitFor, ExceptionOf
  <2> QED
    BY <2>1, <2>2
<1>6. ASSUME NEW w \in Workers, Executed(w) PROVE Same
  <2>1. ASSUME NEW v \in Workers PROVE CallOf(v)' = CallOf(v)
    BY <1>6 DEF Executed, Goes, Execute!Proceed
  <2>2. ASSUME NEW v \in Workers PROVE ExceptionOf(v)' = ExceptionOf(v)
    BY <1>6, <2>1 DEF Executed, Goes, Execute!Proceed, ExceptionOf
  <2> QED
    BY <2>1, <2>2
<1>7. ASSUME NEW f \in Frames, CheckAndWait(f) PROVE Same
  <2>1. ASSUME NEW v \in Workers PROVE CallOf(v)' = CallOf(v)
    BY <1>7 DEF CheckAndWait, MayCheck, Timeout!WaitFor
  <2>2. ASSUME NEW v \in Workers PROVE ExceptionOf(v)' = ExceptionOf(v)
    BY <1>7, <2>1 DEF CheckAndWait, MayCheck, Timeout!WaitFor, ExceptionOf
  <2> QED
    BY <2>1, <2>2
<1>8. ASSUME NEW f \in Frames, Check(f) PROVE Same
  <2>1. ASSUME NEW v \in Workers PROVE CallOf(v)' = CallOf(v)
    BY <1>8 DEF Check, MayCheck, Timeout!ResetEvent
  <2>2. ASSUME NEW v \in Workers PROVE ExceptionOf(v)' = ExceptionOf(v)
    BY <1>8, <2>1 DEF Check, MayCheck, Timeout!ResetEvent, ExceptionOf
  <2> QED
    BY <2>1, <2>2
<1>9. ASSUME NEW f \in Frames, WaitEnds(f) PROVE Same
  <2>1. ASSUME NEW v \in Workers PROVE CallOf(v)' = CallOf(v)
    BY <1>9 DEF WaitEnds, Move, At, Timeout!Proceed
  <2>2. ASSUME NEW v \in Workers PROVE ExceptionOf(v)' = ExceptionOf(v)
    BY <1>9, <2>1 DEF WaitEnds, Move, At, Timeout!Proceed, ExceptionOf
  <2> QED
    BY <2>1, <2>2
<1>10. ASSUME NEW f \in Frames, WaitExpires(f) PROVE Same
  <2>1. ASSUME NEW v \in Workers PROVE CallOf(v)' = CallOf(v)
    BY <1>10 DEF WaitExpires, Move, At, Timeout!GiveUp
  <2>2. ASSUME NEW v \in Workers PROVE ExceptionOf(v)' = ExceptionOf(v)
    BY <1>10, <2>1 DEF WaitExpires, Move, At, Timeout!GiveUp, ExceptionOf
  <2> QED
    BY <2>1, <2>2
<1>11. ASSUME NEW f \in Frames, NothingToDo(f) PROVE Same
  <2>1. ASSUME NEW v \in Workers PROVE CallOf(v)' = CallOf(v)
    BY <1>11 DEF NothingToDo, At, Pop
  <2>2. ASSUME NEW v \in Workers PROVE ExceptionOf(v)' = ExceptionOf(v)
    BY <1>11, <2>1 DEF NothingToDo, At, Pop, ExceptionOf
  <2> QED
    BY <2>1, <2>2
<1>12. ASSUME NEW f \in Frames, TakeRequest(f) PROVE Same
  <2>1. ASSUME NEW v \in Workers PROVE CallOf(v)' = CallOf(v)
    BY <1>12 DEF TakeRequest, Move, At
  <2>2. ASSUME NEW v \in Workers PROVE ExceptionOf(v)' = ExceptionOf(v)
    BY <1>12, <2>1 DEF TakeRequest, Move, At, ExceptionOf
  <2> QED
    BY <2>1, <2>2
<1>13. ASSUME NEW f \in Frames, ReleaseCaller(f) PROVE Same
  <2>1. ASSUME NEW v \in Workers PROVE CallOf(v)' = CallOf(v)
    BY <1>13 DEF ReleaseCaller, At, Pop, Execute!SetEvent
  <2>2. ASSUME NEW v \in Workers PROVE ExceptionOf(v)' = ExceptionOf(v)
    BY <1>13, <2>1 DEF ReleaseCaller, At, Pop, Execute!SetEvent, ExceptionOf
  <2> QED
    BY <2>1, <2>2
<1>14. ASSUME NEW w \in Workers, Call(w) PROVE Abstract!Next
  <2>1. w \in Workers /\ CallOf(w) = "none" /\ CallOf(w)' = "pending"
    BY <1>14 DEF Call, Goes
  <2>2. ASSUME NEW v \in Workers, v # w PROVE CallOf(v)' = CallOf(v)
    BY <1>14, <2>2 DEF Call, Goes
  <2>3. ExceptionOf(w)' = ExceptionOf(w)
    BY <1>14, <2>1 DEF Call, Goes, ExceptionOf
  <2>4. ASSUME NEW v \in Workers, v # w PROVE ExceptionOf(v)' = ExceptionOf(v)
    BY <1>14, <2>2, <2>4 DEF Call, Goes, ExceptionOf
  <2>5. Abstract!Call(w)
    <3> HIDE DEF IInv, TypeOK, Section, Inside, Place, Contents, Asked, Asking,
                 Serving, PhasesOf, PhaseOf
    <3> QED
      BY <2>1, <2>2, <2>3, <2>4 DEF Abstract!Call
  <2> QED
    BY <2>5 DEF Abstract!Next
<1>15. ASSUME NEW w \in Workers, LeaveCritSect(w) PROVE Abstract!Next
  <2>1. w \in Workers /\ CallOf(w) = "done" /\ CallOf(w)' = "none"
    BY <1>15 DEF LeaveCritSect, Goes
  <2>2. ASSUME NEW v \in Workers, v # w PROVE CallOf(v)' = CallOf(v)
    BY <1>15, <2>2 DEF LeaveCritSect, Goes
  <2>3. ExceptionOf(w)' = Nil
    BY <1>15, <2>1 DEF LeaveCritSect, Goes, ExceptionOf
  <2>4. ASSUME NEW v \in Workers, v # w PROVE ExceptionOf(v)' = ExceptionOf(v)
    BY <1>15, <2>2, <2>4 DEF LeaveCritSect, Goes, ExceptionOf
  <2>5. Abstract!Return(w)
    <3> HIDE DEF IInv, TypeOK, Section, Inside, Place, Contents, Asked, Asking,
                 Serving, PhasesOf, PhaseOf
    <3> QED
      BY <2>1, <2>2, <2>3, <2>4 DEF Abstract!Return
  <2> QED
    BY <2>5 DEF Abstract!Next
<1>16. ASSUME NEW f \in Frames, RunMethod(f) PROVE Abstract!Next
  <2>0. PICK w \in Workers : w = owner
    BY <1>16 DEF RunMethod, Move, At
  <2>1. w \in Workers /\ CallOf(w) = "pending" /\ CallOf(w)' = "running"
    BY <1>16, <2>0 DEF RunMethod, Move, At
  <2>2. ASSUME NEW v \in Workers, v # w PROVE CallOf(v)' = CallOf(v)
    BY <1>16, <2>0, <2>2 DEF RunMethod, Move, At
  <2>3. ExceptionOf(w)' = ExceptionOf(w)
    BY <1>16, <2>0, <2>1 DEF RunMethod, Move, At, ExceptionOf
  <2>4. ASSUME NEW v \in Workers, v # w PROVE ExceptionOf(v)' = ExceptionOf(v)
    BY <1>16, <2>0, <2>2, <2>4 DEF RunMethod, Move, At, ExceptionOf
  <2>5. ASSUME NEW v \in Workers PROVE CallOf(v) # "running"
    BY <1>16 DEF RunMethod, Move, At
  <2>6. Abstract!Run(w)
    <3> HIDE DEF IInv, TypeOK, Section, Inside, Place, Contents, Asked, Asking,
                 Serving, PhasesOf, PhaseOf
    <3> QED
      BY <2>1, <2>2, <2>3, <2>4, <2>5 DEF Abstract!Run
  <2> QED
    BY <2>1, <2>6 DEF Abstract!Next
<1>17. ASSUME NEW f \in Frames, NEW raises \in BOOLEAN, MethodEnds(f, raises) PROVE Abstract!Next
  <2>0. PICK w \in Workers : w = owner
    BY <1>17 DEF MethodEnds, Move, At
  <2>1. w \in Workers /\ CallOf(w) = "running" /\ CallOf(w)' = "done"
    BY <1>17, <2>0 DEF MethodEnds, Move, At
  <2>2. ASSUME NEW v \in Workers, v # w PROVE CallOf(v)' = CallOf(v)
    BY <1>17, <2>0, <2>2 DEF MethodEnds, Move, At
  <2>3. ExceptionOf(w)' = IF raises THEN w ELSE Nil
    BY <1>17, <2>0, <2>1 DEF MethodEnds, Move, At, ExceptionOf
  <2>4. ASSUME NEW v \in Workers, v # w PROVE ExceptionOf(v)' = ExceptionOf(v)
    BY <1>17, <2>0, <2>2, <2>4 DEF MethodEnds, Move, At, ExceptionOf
  <2>5. Abstract!Finish(w, IF raises THEN w ELSE Nil)
    <3> HIDE DEF IInv, TypeOK, Section, Inside, Place, Contents, Asked, Asking,
                 Serving, PhasesOf, PhaseOf
    <3> QED
      BY <2>1, <2>2, <2>3, <2>4 DEF Abstract!Finish
  <2> QED
    BY <2>1, <2>5 DEF Abstract!Next
<1>18. CASE UNCHANGED vars
  BY <1>18 DEF vars, CallOf, ExceptionOf, Abstract!vars
<1>19. Same => UNCHANGED Abstract!vars
  BY DEF Abstract!vars
<1> QED
  <2> HIDE DEF Same, IInv, TypeOK, Section, Place, Contents, PhasesOf, PhaseOf
  <2> QED
    BY <1>1, <1>2, <1>3, <1>4, <1>5, <1>6, <1>7, <1>8, <1>9, <1>10, <1>11, <1>12, <1>13, <1>14, <1>15, <1>16, <1>17, <1>18, <1>19
       DEF Next, InWorker, InMain

\* Synchronize and CheckSynchronize implement MainThreadCall.
THEOREM Implements == Spec => Refinement
<1>1. Init => Abstract!Init
  BY DEF Init, Abstract!Init, CallOf, ExceptionOf
<1>2. IInv /\ IInv' /\ PhasesOf /\ PhasesOf' /\ [Next]_vars
        => [Abstract!Next]_(Abstract!vars)
  BY RefineStep
<1> QED
  BY Invariant, Phases, <1>1, <1>2, PTL DEF Spec, Refinement, Abstract!Spec
=============================================================================
