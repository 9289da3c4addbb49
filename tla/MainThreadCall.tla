--------------------------- MODULE MainThreadCall ---------------------------
(***************************************************************************)
(* What TThread.Synchronize promises: a method handed over by a worker is  *)
(* run by the main thread, once, after the worker called and before it     *)
(* returns; the main thread runs one such method at a time; and an         *)
(* exception of the method is raised in the worker that asked for it, and  *)
(* in no other.                                                            *)
(***************************************************************************)
CONSTANTS Workers, Nil

VARIABLES call,    \* per worker: "none", "pending", "running" or "done"
          raised   \* the exception that ended the method of a "done" call

Init == /\ call = [w \in Workers |-> "none"]
        /\ raised = [w \in Workers |-> Nil]

Call(w) ==
  /\ call[w] = "none"
  /\ call' = [call EXCEPT ![w] = "pending"]
  /\ UNCHANGED raised

Run(w) ==
  /\ call[w] = "pending"
  /\ \A v \in Workers : call[v] # "running"
  /\ call' = [call EXCEPT ![w] = "running"]
  /\ UNCHANGED raised

Finish(w, e) ==
  /\ call[w] = "running"
  /\ call' = [call EXCEPT ![w] = "done"]
  /\ raised' = [raised EXCEPT ![w] = e]

Return(w) ==
  /\ call[w] = "done"
  /\ call' = [call EXCEPT ![w] = "none"]
  /\ raised' = [raised EXCEPT ![w] = Nil]

Next == \E w \in Workers :
  \/ Call(w) \/ Run(w) \/ Return(w)
  \/ \E e \in {Nil, w} : Finish(w, e)

vars == <<call, raised>>
Spec == Init /\ [][Next]_vars
=============================================================================
