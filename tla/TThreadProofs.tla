--------------------------- MODULE TThreadProofs ---------------------------
(***************************************************************************)
(* Proofs about TThread.  The argument is one inductive invariant: the     *)
(* thread comes and goes in step with the object (Life), FThreadReaped is  *)
(* set once the thread was joined (Joined), and FSuspended is              *)
(* only true while the thread has not taken its wait off FSem (Pairs).     *)
(***************************************************************************)
EXTENDS TThread, TLAPS

\* where the owner is while others may use the object
InUse == {"idle", "test", "exchange", "post", "join", "reap"}
\* in Destroy, before it knows whether it has to join, until it has joined
MayJoin == {"dresume?", "dtest", "dexchange", "dpost", "djoin", "dreap"}
OwnerAt == {"out", "begin", "created"} \cup InUse \cup MayJoin
             \cup {"destroy", "reaped?", "free", "done"}
HelperAt == {"out", "test", "exchange", "post"}
ThreadAt == {"out", "start", "semwait", "resumed", "still?", "execute", "exchange",
             "selfwait", "leave", "onterminate", "free?", "selffree", "gone"}

Kinds ==
  /\ object \in {"none", "alive", "freed"}
  /\ freedBy \subseteq {"owner", "ThreadFunc", "Execute"}
  /\ joined \in BOOLEAN /\ sem \in Nat
  /\ initialSuspended \in BOOLEAN /\ suspended \in BOOLEAN /\ terminated \in BOOLEAN
  /\ freeOnTerminate \in BOOLEAN /\ finished \in BOOLEAN /\ reaped \in BOOLEAN
  /\ onTerminate \in BOOLEAN
  /\ DOMAIN at = Actors
  /\ at["owner"] \in OwnerAt /\ at["helper"] \in HelperAt /\ at["thread"] \in ThreadAt

\* Create comes first, the thread begins in it, and the helper is gone before
\* the owner destroys the object.
Life ==
  /\ object = "none" <=> at["owner"] = "out"
  /\ at["thread"] = "out" <=> at["owner"] \in {"out", "begin"}
  /\ at["helper"] # "out" => at["owner"] \in InUse
  /\ "owner" \in freedBy => at["owner"] = "done"

\* FThreadReaped agrees with the joins, and a joined thread is gone.
Joined ==
  /\ joined <=> reaped \/ at["owner"] \in {"reap", "dreap"}
  /\ at["owner"] \in MayJoin => ~reaped
  /\ at["owner"] \in {"free", "done"} => reaped
  /\ joined => at["thread"] = "gone"

\* FSuspended is true only for a thread that waits or will wait; a post is on its
\* way when the flag was taken from such a thread.
Pairs ==
  /\ suspended => Waiting
  /\ Posts = IF Waiting /\ ~suspended THEN 1 ELSE 0

\* While the owner is in Create, a thread created suspended is still suspended, and
\* has not come to its wait or is in it.
Creating ==
  at["owner"] \in {"begin", "created"} /\ initialSuspended =>
    /\ suspended
    /\ object = "alive" /\ at["thread"] \in {"out", "start", "semwait"}

IInv == Kinds /\ Life /\ Joined /\ Pairs /\ Creating

\* A step of one of the three leaves the two others where they are.
LEMMA OwnerMoves ==
  ASSUME Kinds, NEW from, NEW to, Goes("owner", from, to)
  PROVE  /\ DOMAIN at' = Actors /\ at["owner"] = from /\ at'["owner"] = to
         /\ at'["helper"] = at["helper"] /\ at'["thread"] = at["thread"]
BY DEF Goes, Kinds, Actors, Users

LEMMA HelperMoves ==
  ASSUME Kinds, NEW from, NEW to, Goes("helper", from, to)
  PROVE  /\ DOMAIN at' = Actors /\ at["helper"] = from /\ at'["helper"] = to
         /\ at'["owner"] = at["owner"] /\ at'["thread"] = at["thread"]
BY DEF Goes, Kinds, Actors, Users

LEMMA ThreadMoves ==
  ASSUME Kinds, NEW from, NEW to, Goes("thread", from, to)
  PROVE  /\ DOMAIN at' = Actors /\ at["thread"] = from /\ at'["thread"] = to
         /\ at'["owner"] = at["owner"] /\ at'["helper"] = at["helper"]
BY DEF Goes, Kinds, Actors, Users

LEMMA InitInv == Init => IInv
<1> SUFFICES ASSUME Init PROVE IInv
  OBVIOUS
<1>1. DOMAIN at = Actors /\ \A a \in Actors : at[a] = "out"
  BY DEF Init
<1>2. at["owner"] = "out" /\ at["helper"] = "out" /\ at["thread"] = "out"
  BY <1>1 DEF Actors, Users
<1>3. Kinds
  BY <1>1, <1>2 DEF Init, Kinds, OwnerAt, HelperAt, ThreadAt
<1>4. Life
  BY <1>2 DEF Init, Life
<1>5. Joined
  BY <1>2 DEF Init, Joined, MayJoin
<1>6. Pairs
  BY <1>2 DEF Init, Pairs, Posts, Waiting
<1>7. Creating
  BY <1>2 DEF Init, Creating
<1> QED BY <1>3, <1>4, <1>5, <1>6, <1>7 DEF IInv

\* Every step of the owner, the helper and the thread keeps the invariant.
LEMMA NextInv == IInv /\ [Next]_vars => IInv'
<1> SUFFICES ASSUME IInv, [Next]_vars PROVE IInv'
  OBVIOUS
<1> USE DEF IInv, Kinds, Life, Joined, Pairs, Creating, Posts, Waiting,
            OwnerAt, HelperAt, ThreadAt, InUse, MayJoin, memory, fields
<1>1. ASSUME NEW createSuspended \in BOOLEAN, Create(createSuspended) PROVE IInv'
  <2>1. Goes("owner", "out", "begin")
    BY <1>1 DEF Create
  <2> QED BY <1>1, <2>1, OwnerMoves DEF Create
<1>2. ASSUME NEW a \in Users, Terminate(a) PROVE IInv'
  BY <1>2 DEF Terminate
<1>3. CASE Resume("owner")
  <2>1. Goes("owner", "idle", "test")
    BY <1>3 DEF Resume, MayCall, Goes
  <2> QED BY <1>3, <2>1, OwnerMoves DEF Resume, MayCall
<1>4. CASE Resume("helper")
  <2>1. Goes("helper", "out", "test")
    BY <1>4 DEF Resume, MayCall, Goes
  <2> QED BY <1>4, <2>1, HelperMoves DEF Resume, MayCall
<1>5. CASE WaitFor
  <2>1. Goes("owner", "idle", "join")
    BY <1>5 DEF WaitFor, MayCall
  <2> QED BY <1>5, <2>1, OwnerMoves DEF WaitFor, MayCall
<1>6. CASE Destroy
  <2>1. Goes("owner", "idle", "destroy")
    BY <1>6 DEF Destroy, MayCall
  <2> QED BY <1>6, <2>1, OwnerMoves DEF Destroy, MayCall
<1>7. CASE ResumeTest("owner", "test", "exchange", "idle")
  <2>1. Goes("owner", "test", IF suspended THEN "exchange" ELSE "idle")
    BY <1>7 DEF ResumeTest
  <2> QED BY <1>7, <2>1, OwnerMoves DEF ResumeTest
<1>8. CASE ResumeExchange("owner", "exchange", "post", "idle")
  <2>1. Goes("owner", "exchange", IF suspended THEN "post" ELSE "idle")
    BY <1>8 DEF ResumeExchange
  <2>2. Kinds'
    BY <1>8, <2>1, OwnerMoves DEF ResumeExchange
  <2>3. Life' /\ Joined'
    BY <1>8, <2>1, OwnerMoves DEF ResumeExchange
  <2>4. Pairs' /\ Creating'
    BY <1>8, <2>1, OwnerMoves DEF ResumeExchange
  <2> QED BY <2>2, <2>3, <2>4
<1>9. CASE SemaphorePost("owner", "post", "idle")
  <2>1. Goes("owner", "post", "idle")
    BY <1>9 DEF SemaphorePost
  <2> QED BY <1>9, <2>1, OwnerMoves DEF SemaphorePost
<1>10. CASE ResumeTest("owner", "dtest", "dexchange", "djoin")
  <2>1. Goes("owner", "dtest", IF suspended THEN "dexchange" ELSE "djoin")
    BY <1>10 DEF ResumeTest
  <2> QED BY <1>10, <2>1, OwnerMoves DEF ResumeTest
<1>11. CASE ResumeExchange("owner", "dexchange", "dpost", "djoin")
  <2>1. Goes("owner", "dexchange", IF suspended THEN "dpost" ELSE "djoin")
    BY <1>11 DEF ResumeExchange
  <2>2. Kinds'
    BY <1>11, <2>1, OwnerMoves DEF ResumeExchange
  <2>3. Life' /\ Joined'
    BY <1>11, <2>1, OwnerMoves DEF ResumeExchange
  <2>4. Pairs' /\ Creating'
    BY <1>11, <2>1, OwnerMoves DEF ResumeExchange
  <2> QED BY <2>2, <2>3, <2>4
<1>12. CASE SemaphorePost("owner", "dpost", "djoin")
  <2>1. Goes("owner", "dpost", "djoin")
    BY <1>12 DEF SemaphorePost
  <2> QED BY <1>12, <2>1, OwnerMoves DEF SemaphorePost
<1>13. CASE CreateDone
  <2>1. Goes("owner", "created", "idle")
    BY <1>13 DEF CreateDone
  <2> QED BY <1>13, <2>1, OwnerMoves DEF CreateDone
<1>14. CASE Join("join", "reap")
  <2>1. Goes("owner", "join", "reap")
    BY <1>14 DEF Join
  <2> QED BY <1>14, <2>1, OwnerMoves DEF Join
<1>15. CASE Reap("reap", "idle")
  <2>1. Goes("owner", "reap", "idle")
    BY <1>15 DEF Reap
  <2> QED BY <1>15, <2>1, OwnerMoves DEF Reap
<1>16. CASE DestroyKeeps
  <2>1. Goes("owner", "destroy", "reaped?")
    BY <1>16 DEF DestroyKeeps
  <2>2. Kinds'
    BY <1>16, <2>1, OwnerMoves DEF DestroyKeeps
  <2>3. Life' /\ Joined'
    BY <1>16, <2>1, OwnerMoves DEF DestroyKeeps
  <2>4. Pairs' /\ Creating'
    BY <1>16, <2>1, OwnerMoves DEF DestroyKeeps
  <2> QED BY <2>2, <2>3, <2>4
<1>17. CASE DestroyTerminates
  <2>1. Goes("owner", "reaped?", IF reaped THEN "free" ELSE "dresume?")
    BY <1>17 DEF DestroyTerminates
  <2> QED BY <1>17, <2>1, OwnerMoves DEF DestroyTerminates
<1>18. CASE DestroyResumes
  <2>1. Goes("owner", "dresume?", IF initialSuspended THEN "dtest" ELSE "djoin")
    BY <1>18 DEF DestroyResumes
  <2> QED BY <1>18, <2>1, OwnerMoves DEF DestroyResumes
<1>19. CASE Join("djoin", "dreap")
  <2>1. Goes("owner", "djoin", "dreap")
    BY <1>19 DEF Join
  <2> QED BY <1>19, <2>1, OwnerMoves DEF Join
<1>20. CASE Reap("dreap", "free")
  <2>1. Goes("owner", "dreap", "free")
    BY <1>20 DEF Reap
  <2> QED BY <1>20, <2>1, OwnerMoves DEF Reap
<1>21. CASE Free
  <2>1. Goes("owner", "free", "done")
    BY <1>21 DEF Free
  <2>2. Kinds'
    BY <1>21, <2>1, OwnerMoves DEF Free
  <2>3. Life' /\ Joined'
    BY <1>21, <2>1, OwnerMoves DEF Free
  <2>4. Pairs' /\ Creating'
    BY <1>21, <2>1, OwnerMoves DEF Free
  <2> QED BY <2>2, <2>3, <2>4
<1>22. CASE ResumeTest("helper", "test", "exchange", "out")
  <2>1. Goes("helper", "test", IF suspended THEN "exchange" ELSE "out")
    BY <1>22 DEF ResumeTest
  <2> QED BY <1>22, <2>1, HelperMoves DEF ResumeTest
<1>23. CASE ResumeExchange("helper", "exchange", "post", "out")
  <2>1. Goes("helper", "exchange", IF suspended THEN "post" ELSE "out")
    BY <1>23 DEF ResumeExchange
  <2>2. Kinds'
    BY <1>23, <2>1, HelperMoves DEF ResumeExchange
  <2>3. Life' /\ Joined'
    BY <1>23, <2>1, HelperMoves DEF ResumeExchange
  <2>4. Pairs' /\ Creating'
    BY <1>23, <2>1, HelperMoves DEF ResumeExchange
  <2> QED BY <2>2, <2>3, <2>4
<1>24. CASE SemaphorePost("helper", "post", "out")
  <2>1. Goes("helper", "post", "out")
    BY <1>24 DEF SemaphorePost
  <2> QED BY <1>24, <2>1, HelperMoves DEF SemaphorePost
<1>25. CASE Start
  <2>1. Goes("thread", "start", IF initialSuspended THEN "semwait" ELSE "execute")
    BY <1>25 DEF Start
  <2> QED BY <1>25, <2>1, ThreadMoves DEF Start
<1>26. CASE SemaphoreWait("semwait", "resumed")
  <2>1. Goes("thread", "semwait", "resumed")
    BY <1>26 DEF SemaphoreWait
  <2> QED BY <1>26, <2>1, ThreadMoves DEF SemaphoreWait
<1>27. CASE Resumed
  <2>1. Goes("thread", "resumed", IF terminated THEN "leave" ELSE "still?")
    BY <1>27 DEF Resumed
  <2> QED BY <1>27, <2>1, ThreadMoves DEF Resumed
<1>28. CASE ResumedRuns
  <2>1. Goes("thread", "still?", IF suspended THEN "leave" ELSE "execute")
    BY <1>28 DEF ResumedRuns
  <2> QED BY <1>28, <2>1, ThreadMoves DEF ResumedRuns
<1>29. CASE Suspend
  <2>1. Goes("thread", "execute", IF suspended THEN "execute" ELSE "exchange")
    BY <1>29 DEF Suspend
  <2> QED BY <1>29, <2>1, ThreadMoves DEF Suspend
<1>30. CASE SuspendExchange
  <2>1. Goes("thread", "exchange", IF suspended THEN "execute" ELSE "selfwait")
    BY <1>30 DEF SuspendExchange
  <2> QED BY <1>30, <2>1, ThreadMoves DEF SuspendExchange
<1>31. CASE SemaphoreWait("selfwait", "execute")
  <2>1. Goes("thread", "selfwait", "execute")
    BY <1>31 DEF SemaphoreWait
  <2> QED BY <1>31, <2>1, ThreadMoves DEF SemaphoreWait
<1>32. CASE FreeInExecute
  <2>1. Goes("thread", "execute", "execute")
    BY <1>32 DEF FreeInExecute, SelfDestroy
  <2> QED BY <1>32, <2>1, ThreadMoves DEF FreeInExecute, SelfDestroy
<1>41. CASE FreeRaises
  <2>1. Goes("thread", "execute", "leave")
    BY <1>41 DEF FreeRaises
  <2> QED BY <1>41, <2>1, ThreadMoves DEF FreeRaises
<1>33. CASE ExecuteEnds
  <2>1. Goes("thread", "execute", "leave")
    BY <1>33 DEF ExecuteEnds
  <2> QED BY <1>33, <2>1, ThreadMoves DEF ExecuteEnds
<1>34. CASE Finish
  <2>1. Goes("thread", "leave", "onterminate")
    BY <1>34 DEF Finish
  <2> QED BY <1>34, <2>1, ThreadMoves DEF Finish
<1>35. CASE DoTerminate
  <2>1. Goes("thread", "onterminate", "free?")
    BY <1>35 DEF DoTerminate
  <2> QED BY <1>35, <2>1, ThreadMoves DEF DoTerminate
<1>36. CASE FreeTest
  <2>1. Goes("thread", "free?", IF freeOnTerminate THEN "selffree" ELSE "gone")
    BY <1>36 DEF FreeTest
  <2> QED BY <1>36, <2>1, ThreadMoves DEF FreeTest
<1>37. CASE SelfDestroy("ThreadFunc", "selffree", "gone")
  <2>1. Goes("thread", "selffree", "gone")
    BY <1>37 DEF SelfDestroy
  <2>2. Kinds'
    BY <1>37, <2>1, ThreadMoves DEF SelfDestroy
  <2>3. Life' /\ Joined'
    BY <1>37, <2>1, ThreadMoves DEF SelfDestroy
  <2>4. Pairs' /\ Creating'
    BY <1>37, <2>1, ThreadMoves DEF SelfDestroy
  <2> QED BY <2>2, <2>3, <2>4
<1>38. CASE BeginThread
  BY <1>38 DEF BeginThread, Actors, Users
<1>39. CASE SetFreeOnTerminate
  BY <1>39 DEF SetFreeOnTerminate
<1>40. CASE UNCHANGED vars
  BY <1>40 DEF vars
<1> QED
  BY <1>1, <1>2, <1>3, <1>4, <1>5, <1>6, <1>7, <1>8, <1>9, <1>10, <1>11, <1>12, <1>13, <1>14, <1>15, <1>16, <1>17, <1>18, <1>19, <1>20, <1>21, <1>22, <1>23, <1>24, <1>25, <1>26, <1>27, <1>28, <1>29, <1>30, <1>31, <1>32, <1>33, <1>34, <1>35, <1>36, <1>37, <1>38, <1>39, <1>40, <1>41
  DEF Next, InResume, InOwner, InThread, Users, Home

\* The invariant holds however the three interleave.
THEOREM Invariance == Spec => []IInv
BY InitInv, NextInv, PTL DEF Spec

\* Every field of a TThread keeps its type, and its semaphore is never posted
\* twice without a wait in between.
THEOREM TypeCorrect == Spec => []TypeOK
<1>1. IInv => TypeOK
  <2> SUFFICES ASSUME IInv PROVE TypeOK
    OBVIOUS
  <2> USE DEF IInv, Kinds
  <2>1. sem \in 0..1
    BY DEF Pairs, Posts
  <2>2. {initialSuspended, suspended, terminated, freeOnTerminate, finished, reaped,
         onTerminate, joined} \subseteq BOOLEAN
    OBVIOUS
  <2> QED BY <2>1, <2>2 DEF TypeOK
<1> QED BY <1>1, Invariance, PTL

\* Resume, Suspend and ThreadFunc test and exchange FSuspended so that a thread
\* that waits for FSem has a post on its way exactly when it was resumed, and
\* that ThreadFunc never finds itself resumed and still suspended.
THEOREM PostsMeetWaits == Spec => []SemaphorePaired
<1>1. IInv => SemaphorePaired
  <2> SUFFICES ASSUME IInv PROVE SemaphorePaired
    OBVIOUS
  <2>1. at["thread"] = "still?" => ~Waiting
    BY DEF Waiting
  <2> QED BY <2>1 DEF IInv, Pairs, SemaphorePaired
<1> QED BY <1>1, Invariance, PTL

\* Destroy does not join a thread that WaitFor has joined, and when the owner has
\* freed the object, thread and helper are through with it and no step of Destroy
\* is left.
THEOREM DestroyIsLast == Spec => []NoUseAfterDestroy
<1>1. IInv => NoUseAfterDestroy
  <2> SUFFICES ASSUME IInv PROVE NoUseAfterDestroy
    OBVIOUS
  <2>1. at["owner"] = "djoin" => ~joined
    BY DEF IInv, Joined, MayJoin
  <2>2. ASSUME at["owner"] = "done" PROVE at["helper"] = "out" /\ at["thread"] = "gone"
    BY <2>2 DEF IInv, Joined, Life, InUse
  <2> QED BY <2>1, <2>2 DEF IInv, Life, NoUseAfterDestroy
<1> QED BY <1>1, Invariance, PTL

\* The semaphore keeps a thread created suspended out of Execute, and so from
\* freeing the object, until Create has finished.
THEOREM SuspendedThreadWaits == Spec => []SuspendedCreateFinishes
<1>1. IInv => SuspendedCreateFinishes
  BY DEF IInv, Creating, SuspendedCreateFinishes
<1> QED BY <1>1, Invariance, PTL
=============================================================================
