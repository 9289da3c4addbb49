---------------------------- MODULE Synchronize ----------------------------
(***************************************************************************)
(* TThread.Synchronize and CheckSynchronize                                *)
(* (rtl/objpas/classes/classes.inc): worker threads hand methods to the    *)
(* main thread through four global variables, guarded by                   *)
(* SynchronizeCritSect, and two RTL events, used here through what         *)
(* AutoEvent promises of them.  A method can call CheckSynchronize itself  *)
(* (a modal dialog does): frame[1..depth] are the calls of                 *)
(* CheckSynchronize on the stack of the main thread, the last one active.  *)
(*                                                                         *)
(* The order of the assignments is taken as the source writes it, as the   *)
(* processors of the i386 family keep it, and a WakeMainThread handler is  *)
(* taken not to raise an exception.                                        *)
(*                                                                         *)
(* A definition X_Y is X with a slip Y; no specification uses it.          *)
(***************************************************************************)
EXTENDS Naturals

CONSTANTS
  Workers,         \* the threads other than the main thread
  Nil,
  MaxDepth         \* bound on the nesting of CheckSynchronize

ASSUME ConstantsAssumption == Nil \notin Workers /\ MaxDepth \in Nat \ {0}

VARIABLES
  owner,           \* the owner of SynchronizeCritSect
  doSync,          \* DoSynchronizeMethod
  method,          \* SynchronizeMethod, named by the worker that asked for it
  exception,       \* SynchronizeException, named by the method it came from
  executeSet,      \* ExecuteEvent is set
  timeoutSet,      \* SynchronizeTimeoutEvent is set
  pc,              \* per worker: where it is in Synchronize
  local,           \* per worker: LocalSyncException
  depth, frame,    \* the calls of CheckSynchronize: how many, where each is
  running          \* the method the frame runs or has run

request  == <<doSync, method, exception>>
events   == <<executeSet, timeoutSet>>
worker   == <<pc, local>>
main     == <<depth, frame, running>>
vars == <<owner, request, events, worker, main>>

Frames == 1..MaxDepth

Execute == INSTANCE AutoEvent WITH Threads <- Workers, isset <- executeSet,
  waiting <- [w \in Workers |-> IF pc[w] = "wait" THEN "plain" ELSE "no"]
Timeout == INSTANCE AutoEvent WITH Threads <- Frames, isset <- timeoutSet,
  waiting <- [f \in Frames |-> IF frame[f] = "wait" THEN "timed" ELSE "no"]

\* CommonInit
Init ==
  /\ owner = Nil
  /\ doSync = FALSE /\ method = Nil /\ exception = Nil
  /\ executeSet = FALSE /\ timeoutSet = FALSE
  /\ pc = [w \in Workers |-> "out"]
  /\ local = [w \in Workers |-> Nil]
  /\ depth = 0
  /\ frame = [f \in Frames |-> "none"]
  /\ running = [f \in Frames |-> Nil]

-----------------------------------------------------------------------------
(* Synchronize, in a worker thread *)

Goes(w, from, to) == pc[w] = from /\ pc' = [pc EXCEPT ![w] = to]

\* A worker calls Synchronize; in the main thread the method is called
\* directly and nothing of this happens.
Call(w) ==
  /\ Goes(w, "out", "enter")
  /\ UNCHANGED <<owner, request, events, local, main>>

EnterCritSect(w) ==
  /\ owner = Nil
  /\ Goes(w, "enter", "prepare")
  /\ owner' = w
  /\ UNCHANGED <<request, events, local, main>>

Prepare_ExceptionKept(w) ==
  /\ Goes(w, "prepare", "announce")
  /\ method' = w
  /\ UNCHANGED <<owner, exception, doSync, events, local, main>>

\* SynchronizeException:=nil; SynchronizeMethod:=AMethod
Prepare(w) ==
  /\ Goes(w, "prepare", "announce")
  /\ exception' = Nil
  /\ method' = w
  /\ UNCHANGED <<owner, doSync, events, local, main>>

Announce(w) ==
  /\ Goes(w, "announce", "signal")
  /\ doSync' = TRUE
  /\ UNCHANGED <<owner, method, exception, events, local, main>>

SignalMain_Missing(w) ==
  /\ Goes(w, "signal", "wake")
  /\ UNCHANGED <<owner, request, events, local, main>>

\* RtlEventSetEvent(SynchronizeTimeoutEvent)
SignalMain(w) ==
  /\ Goes(w, "signal", "wake")
  /\ UNCHANGED <<owner, request, executeSet, local, main>>
  /\ Timeout!SetEvent

\* WakeMainThread, when assigned, runs in the worker.
WakeMain(w) ==
  /\ Goes(w, "wake", "wait")
  /\ UNCHANGED <<owner, request, timeoutSet, local, main>>
  /\ Execute!WaitFor(w, "plain")

\* RtlEventWaitFor(ExecuteEvent) ends and LocalSyncException is read.
Executed(w) ==
  /\ Goes(w, "wait", "leave")
  /\ local' = [local EXCEPT ![w] = exception]
  /\ UNCHANGED <<owner, request, timeoutSet, main>>
  /\ Execute!Proceed(w)

\* LeaveCriticalSection and the return, with the exception if there was one.
LeaveCritSect(w) ==
  /\ owner = w
  /\ Goes(w, "leave", "out")
  /\ owner' = Nil
  /\ UNCHANGED <<request, events, local, main>>

-----------------------------------------------------------------------------
(* CheckSynchronize, in the main thread *)

At(f, l) == depth = f /\ frame[f] = l
Move(f, from, to) == At(f, from) /\ frame' = [frame EXCEPT ![f] = to] /\ UNCHANGED depth
Pop(f) == frame' = [frame EXCEPT ![f] = "none"] /\ depth' = depth - 1

\* The main thread is outside CheckSynchronize, or in a method it runs.
MayCheck == depth \in Frames => frame[depth] = "run"

\* CheckSynchronize(timeout) with timeout>0
CheckAndWait(f) ==
  /\ MayCheck /\ f = depth + 1
  /\ depth' = f
  /\ frame' = [frame EXCEPT ![f] = "wait"]
  /\ UNCHANGED <<owner, request, executeSet, worker, running>>
  /\ Timeout!WaitFor(f, "timed")

\* CheckSynchronize with timeout=0 resets the event before it looks.
Check(f) ==
  /\ MayCheck /\ f = depth + 1
  /\ depth' = f
  /\ frame' = [frame EXCEPT ![f] = "look"]
  /\ UNCHANGED <<owner, request, executeSet, worker, running>>
  /\ Timeout!ResetEvent

\* RtlEventWaitFor(SynchronizeTimeoutEvent,timeout) ends.
WaitEnds(f) ==
  /\ Move(f, "wait", "look")
  /\ UNCHANGED <<owner, request, executeSet, worker, running>>
  /\ Timeout!Proceed(f)

WaitExpires(f) ==
  /\ Move(f, "wait", "look")
  /\ UNCHANGED <<owner, request, executeSet, worker, running>>
  /\ Timeout!GiveUp(f)

NothingToDo(f) ==
  /\ At(f, "look") /\ ~doSync
  /\ Pop(f)
  /\ UNCHANGED <<owner, request, events, worker, running>>

TakeRequest_Unchecked(f) ==
  /\ Move(f, "look", "call")
  /\ doSync' = FALSE
  /\ UNCHANGED <<owner, method, exception, events, worker, running>>

TakeRequest_FlagKept(f) ==
  /\ doSync
  /\ Move(f, "look", "call")
  /\ UNCHANGED <<owner, request, events, worker, running>>

\* DoSynchronizeMethod:=false, before the method can call CheckSynchronize
TakeRequest(f) ==
  /\ doSync
  /\ Move(f, "look", "call")
  /\ doSync' = FALSE
  /\ UNCHANGED <<owner, method, exception, events, worker, running>>

\* SynchronizeMethod is read and called.
RunMethod(f) ==
  /\ Move(f, "call", "run")
  /\ running' = [running EXCEPT ![f] = method]
  /\ UNCHANGED <<owner, request, events, worker, depth>>

\* The method returns, or the exception it raises is caught.
MethodEnds(f, raises) ==
  /\ Move(f, "run", "release")
  /\ exception' = IF raises THEN running[f] ELSE exception
  /\ UNCHANGED <<owner, doSync, method, events, worker, running>>

\* RtlEventSetEvent(ExecuteEvent) and the return
ReleaseCaller(f) ==
  /\ At(f, "release")
  /\ Pop(f)
  /\ running' = [running EXCEPT ![f] = Nil]
  /\ UNCHANGED <<owner, request, timeoutSet, worker>>
  /\ Execute!SetEvent

-----------------------------------------------------------------------------
InWorker(w) ==
  \/ EnterCritSect(w) \/ Prepare(w) \/ Announce(w) \/ SignalMain(w)
  \/ WakeMain(w) \/ Executed(w) \/ LeaveCritSect(w)

InMain(f) ==
  \/ WaitEnds(f) \/ NothingToDo(f) \/ TakeRequest(f) \/ RunMethod(f)
  \/ ReleaseCaller(f) \/ \E raises \in BOOLEAN : MethodEnds(f, raises)

Next ==
  \/ \E w \in Workers : Call(w) \/ InWorker(w)
  \/ \E f \in Frames : CheckAndWait(f) \/ Check(f) \/ WaitExpires(f) \/ InMain(f)

Spec == Init /\ [][Next]_vars

-----------------------------------------------------------------------------
(* Properties *)

\* Types; the stack of CheckSynchronize calls has no holes and a method that
\* is run is the method of some worker.
TypeOK ==
  /\ owner \in Workers \cup {Nil}
  /\ doSync \in BOOLEAN
  /\ method \in Workers \cup {Nil} /\ exception \in Workers \cup {Nil}
  /\ executeSet \in BOOLEAN /\ timeoutSet \in BOOLEAN
  /\ pc \in [Workers -> {"out", "enter", "prepare", "announce", "signal",
                         "wake", "wait", "leave"}]
  /\ local \in [Workers -> Workers \cup {Nil}]
  /\ depth \in 0..MaxDepth
  /\ frame \in [Frames -> {"none", "wait", "look", "call", "run", "release"}]
  /\ running \in [Frames -> Workers \cup {Nil}]
  /\ \A f \in Frames : /\ frame[f] = "none" <=> f > depth
                       /\ frame[f] = "run" => running[f] # Nil

Asking(w) == pc[w] \in {"signal", "wake", "wait"}
Serving(f) == frame[f] \in {"call", "run", "release"}

\* A request that was announced is in one place: in the globals, with one
\* frame of the main thread, or in ExecuteEvent; and without a request all
\* three are empty.  So ExecuteEvent is never left set for the next caller.
RequestInOnePlace ==
  LET places == <<doSync, \E f \in Frames : Serving(f), executeSet>>
      asked  == \E w \in Workers : Asking(w)
  IN /\ asked <=> \E i \in 1..3 : places[i]
     /\ \A i, j \in 1..3 : places[i] /\ places[j] => i = j

\* A method that calls CheckSynchronize is not interrupted by the method of
\* another worker, nor started a second time: only the innermost frame can
\* take a request and while one is served there is none.
NotReentered ==
  \A f, g \in Frames : Serving(f) /\ Serving(g) => f = g

\* SynchronizeCritSect guards the globals (classes.inc:68, "guard for
\* synchronization variables"): no second worker gets past it before the first
\* has its answer.
GuardHeld ==
  \A w \in Workers :
    pc[w] \in {"prepare", "announce", "signal", "wake", "wait", "leave"}
      => owner = w

\* A caller that waits has reached the main thread: the timeout event is set,
\* so that no wait of the main thread sleeps over the request, or the main
\* thread is about to look at it.  It depends on the order in which both sides
\* touch DoSynchronizeMethod and SynchronizeTimeoutEvent.
NoLostRequest ==
  doSync /\ (\E w \in Workers : pc[w] \in {"wake", "wait"})
    => timeoutSet \/ \E f \in Frames : frame[f] = "look"

\* Synchronize and CheckSynchronize implement MainThreadCall: each method is
\* run once, by the main thread, between its caller's call and return, one at
\* a time, and every caller gets the exception of its own method.
CallOf(w) ==
  IF pc[w] = "out" THEN "none"
  ELSE IF \E f \in Frames : frame[f] = "run" /\ running[f] = w THEN "running"
  ELSE IF \/ pc[w] = "leave"
          \/ Asking(w) /\ ~doSync /\ ~\E f \in Frames : frame[f] = "call" THEN "done"
  ELSE "pending"
ExceptionOf(w) ==
  IF CallOf(w) # "done" THEN Nil
  ELSE IF pc[w] = "leave" THEN local[w] ELSE exception
Abstract == INSTANCE MainThreadCall WITH
  call <- [w \in Workers |-> CallOf(w)],
  raised <- [w \in Workers |-> ExceptionOf(w)]
Refinement == Abstract!Spec

\* A worker is scheduled and the critical section starves nobody; the main
\* thread keeps calling CheckSynchronize, runs its code and its methods end;
\* a timeout is only relied on for a nested call, which nobody else can wake.
Fairness ==
  /\ \A w \in Workers : WF_vars(InWorker(w)) /\ SF_vars(EnterCritSect(w))
  /\ WF_vars(depth = 0 /\ (CheckAndWait(1) \/ Check(1)))
  /\ \A f \in Frames :
       /\ WF_vars(InMain(f))
       /\ SF_vars(\E raises \in BOOLEAN : MethodEnds(f, raises))
       /\ f > 1 => WF_vars(WaitExpires(f))
LiveSpec == Spec /\ Fairness

\* Every call of Synchronize returns, although no timeout of the outermost
\* CheckSynchronize ever has to expire.
CallReturns == \A w \in Workers : pc[w] = "enter" ~> pc[w] = "out"
=============================================================================
