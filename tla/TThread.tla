------------------------------ MODULE TThread ------------------------------
(***************************************************************************)
(* The life of one TThread object on unix (rtl/unix/tthread.inc): the      *)
(* owner that creates, uses and destroys it, a helper that may call Resume *)
(* and Terminate while the owner has not begun Destroy, and the thread     *)
(* itself in ThreadFunc.  Every read or write of a field that another of   *)
(* the three may write is a step.                                          *)
(*                                                                         *)
(* The application may set FreeOnTerminate before the thread is created    *)
(* or in Execute, Execute may call Free or Suspend on its own object, and  *)
(* an OnTerminate handler may be assigned.  The owner is the main thread.  *)
(* What the code does in an object that was freed it does with the fields  *)
(* as they were; no user starts a new call on a freed object.              *)
(*                                                                         *)
(* A definition X_Y is X with a slip Y; no specification uses it.          *)
(***************************************************************************)
EXTENDS Naturals

VARIABLES
  object,            \* the memory of the object: "none", "alive" or "freed"
  freedBy,           \* which callers of Destroy have freed it: the owner,
                     \* ThreadFunc at its end, Execute
  joined,            \* its thread was joined
  initialSuspended, suspended, terminated, freeOnTerminate, finished, reaped,
  onTerminate,       \* a handler is assigned (FOnTerminate)
  sem,               \* the count of FSem
  at                 \* where each of the three is

fields == <<initialSuspended, suspended, terminated, freeOnTerminate, finished, reaped>>
memory == <<object, freedBy, joined, onTerminate>>
vars == <<memory, fields, sem, at>>

Users == {"owner", "helper"}
Actors == Users \cup {"thread"}

Init ==
  /\ object = "none" /\ freedBy = {} /\ joined = FALSE
  /\ initialSuspended = FALSE /\ suspended = FALSE
  /\ terminated = FALSE /\ finished = FALSE /\ reaped = FALSE
  /\ freeOnTerminate \in BOOLEAN /\ onTerminate \in BOOLEAN
  /\ sem = 0
  /\ at = [a \in Actors |-> "out"]

Goes(a, from, to) == at[a] = from /\ at' = [at EXCEPT ![a] = to]

-----------------------------------------------------------------------------
(* Create *)

\* The constructor sets the fields ...
Create(createSuspended) ==
  /\ object = "none"
  /\ object' = "alive"
  /\ suspended' = createSuspended /\ initialSuspended' = createSuspended
  /\ Goes("owner", "out", "begin")
  /\ UNCHANGED <<freedBy, joined, onTerminate, terminated, freeOnTerminate, finished, reaped, sem>>

\* ... and starts the thread, which runs from here on.
BeginThread ==
  /\ at["owner"] = "begin"
  /\ at' = [at EXCEPT !["owner"] = "created", !["thread"] = "start"]
  /\ UNCHANGED <<memory, fields, sem>>

\* FHandle is stored, and AfterConstruction is called, in the object.
CreateDone ==
  /\ Goes("owner", "created", "idle")
  /\ UNCHANGED <<memory, fields, sem>>

\* FHandle <> 0.  (pthread_create stores FThreadID before the thread runs.)
HandleStored == at["owner"] \notin {"out", "begin", "created"}

-----------------------------------------------------------------------------
(* Resume and Terminate, called by the owner, by the helper or by Destroy *)

\* The object may be used while it is alive and the owner has not begun to
\* destroy it.
MayCall(a) ==
  /\ object = "alive"
  /\ at["owner"] \in {"idle", "test", "exchange", "post", "join", "reap"}
  /\ a = "owner" => at["owner"] = "idle"
  /\ a = "helper" => at["helper"] = "out"

Home(a) == IF a = "owner" THEN "idle" ELSE "out"

Terminate(a) ==
  /\ MayCall(a)
  /\ terminated' = TRUE
  /\ UNCHANGED <<memory, initialSuspended, suspended, freeOnTerminate, finished,
                 reaped, sem, at>>

Resume(a) ==
  /\ MayCall(a)
  /\ at' = [at EXCEPT ![a] = "test"]
  /\ UNCHANGED <<memory, fields, sem>>

\* if FSuspended ...
ResumeTest(a, test, exchange, home) ==
  /\ Goes(a, test, IF suspended THEN exchange ELSE home)
  /\ UNCHANGED <<memory, fields, sem>>

ResumeExchange_NotAtomic(a, exchange, post, home) ==
  /\ Goes(a, exchange, post)
  /\ suspended' = FALSE
  /\ UNCHANGED <<memory, initialSuspended, terminated, freeOnTerminate, finished,
                 reaped, sem>>

ResumeExchange_FlagKept(a, exchange, post, home) ==
  /\ Goes(a, exchange, IF suspended THEN post ELSE home)
  /\ UNCHANGED <<memory, fields, sem>>

ResumeExchange_Inverted(a, exchange, post, home) ==
  /\ Goes(a, exchange, IF suspended THEN home ELSE post)
  /\ suspended' = FALSE
  /\ UNCHANGED <<memory, initialSuspended, terminated, freeOnTerminate, finished,
                 reaped, sem>>

\* ... and InterLockedExchange(FSuspended, false) was true
ResumeExchange(a, exchange, post, home) ==
  /\ Goes(a, exchange, IF suspended THEN post ELSE home)
  /\ suspended' = FALSE
  /\ UNCHANGED <<memory, initialSuspended, terminated, freeOnTerminate, finished,
                 reaped, sem>>

SemaphorePost(a, post, home) ==
  /\ Goes(a, post, home)
  /\ sem' = sem + 1
  /\ UNCHANGED <<memory, fields>>

-----------------------------------------------------------------------------
(* WaitFor and Destroy, by the owner *)

\* WaitFor looks at nothing: it joins a thread that was joined before again, and
\* one that is to free the object.
WaitFor ==
  /\ MayCall("owner")
  /\ Goes("owner", "idle", "join")
  /\ UNCHANGED <<memory, fields, sem>>

\* pthread_join returns when the thread is gone; that of a thread joined before,
\* which POSIX leaves undefined, returns at once.
Join(join, reap) ==
  /\ at["thread"] = "gone"
  /\ Goes("owner", join, reap)
  /\ joined' = TRUE
  /\ UNCHANGED <<object, freedBy, onTerminate, fields, sem>>

Reap(reap, next) ==
  /\ Goes("owner", reap, next)
  /\ reaped' = TRUE
  /\ UNCHANGED <<memory, initialSuspended, suspended, terminated, freeOnTerminate,
                 finished, sem>>

\* The owner calls Free; nobody else uses the object any more.
Destroy ==
  /\ MayCall("owner") /\ at["helper"] = "out"
  /\ Goes("owner", "idle", "destroy")
  /\ UNCHANGED <<memory, fields, sem>>

\* FFreeOnTerminate:=false
DestroyKeeps ==
  /\ Goes("owner", "destroy", "reaped?")
  /\ freeOnTerminate' = FALSE
  /\ UNCHANGED <<memory, initialSuspended, suspended, terminated, finished,
                 reaped, sem>>

DestroyTerminates_JoinsAgain ==
  /\ Goes("owner", "reaped?", "dresume?")
  /\ terminated' = TRUE
  /\ UNCHANGED <<memory, initialSuspended, suspended, freeOnTerminate, finished,
                 reaped, sem>>

DestroyTerminates_NoJoinIfFinished ==
  /\ Goes("owner", "reaped?", IF reaped \/ finished THEN "free" ELSE "dresume?")
  /\ terminated' = (terminated \/ ~reaped)
  /\ UNCHANGED <<memory, initialSuspended, suspended, freeOnTerminate, finished,
                 reaped, sem>>

\* if not FThreadReaped then Terminate ...
DestroyTerminates ==
  /\ Goes("owner", "reaped?", IF reaped THEN "free" ELSE "dresume?")
  /\ terminated' = (terminated \/ ~reaped)
  /\ UNCHANGED <<memory, initialSuspended, suspended, freeOnTerminate, finished,
                 reaped, sem>>

DestroyResumes_Never ==
  /\ Goes("owner", "dresume?", "djoin")
  /\ UNCHANGED <<memory, fields, sem>>

\* ... if FInitialSuspended then Resume; WaitFor
DestroyResumes ==
  /\ Goes("owner", "dresume?", IF initialSuspended THEN "dtest" ELSE "djoin")
  /\ UNCHANGED <<memory, fields, sem>>

\* SemaphoreDestroy and inherited Destroy
Free ==
  /\ Goes("owner", "free", "done")
  /\ object' = "freed"
  /\ freedBy' = freedBy \cup {"owner"}
  /\ UNCHANGED <<joined, onTerminate, fields, sem>>

-----------------------------------------------------------------------------
(* ThreadFunc *)

Start_NoWait ==
  /\ Goes("thread", "start", "execute")
  /\ UNCHANGED <<memory, fields, sem>>

Start ==
  /\ Goes("thread", "start", IF initialSuspended THEN "semwait" ELSE "execute")
  /\ UNCHANGED <<memory, fields, sem>>

SemaphoreWait(from, to) ==
  /\ sem > 0
  /\ sem' = sem - 1
  /\ Goes("thread", from, to)
  /\ UNCHANGED <<memory, fields>>

\* if not FTerminated ...
Resumed ==
  /\ Goes("thread", "resumed", IF terminated THEN "leave" ELSE "still?")
  /\ UNCHANGED <<memory, fields, sem>>

\* ... if not FSuspended then FInitialSuspended:=false
ResumedRuns ==
  /\ Goes("thread", "still?", IF suspended THEN "leave" ELSE "execute")
  /\ initialSuspended' = (initialSuspended /\ suspended)
  /\ UNCHANGED <<memory, suspended, terminated, freeOnTerminate, finished,
                 reaped, sem>>

\* Execute calls Suspend, or sets Suspended.
Suspend ==
  /\ object = "alive"
  /\ Goes("thread", "execute", IF suspended THEN "execute" ELSE "exchange")
  /\ UNCHANGED <<memory, fields, sem>>

SuspendExchange ==
  /\ Goes("thread", "exchange", IF suspended THEN "execute" ELSE "selfwait")
  /\ suspended' = TRUE
  /\ UNCHANGED <<memory, initialSuspended, terminated, freeOnTerminate, finished,
                 reaped, sem>>

SetFreeOnTerminate ==
  /\ object = "alive"
  /\ at["thread"] = "execute"
  /\ freeOnTerminate' = TRUE
  /\ UNCHANGED <<memory, initialSuspended, suspended, terminated, finished,
                 reaped, sem, at>>

\* Destroy called by the thread itself, when it does not raise an exception.
\* While FHandle is not stored it takes this for a constructor that failed, and
\* leaves FFreeOnTerminate alone.
SelfDestroy(caller, from, to) ==
  /\ Goes("thread", from, to)
  /\ object' = "freed"
  /\ freedBy' = freedBy \cup {caller}
  /\ freeOnTerminate' = (freeOnTerminate /\ ~HandleStored)
  /\ UNCHANGED <<joined, onTerminate, initialSuspended, suspended, terminated, finished,
                 reaped, sem>>

\* Execute calls Free with FreeOnTerminate set or FHandle not stored: the object is
\* freed, and Execute goes on.
FreeInExecute ==
  /\ object = "alive"
  /\ freeOnTerminate \/ ~HandleStored
  /\ SelfDestroy("Execute", "execute", "execute")

\* Otherwise EThreadDestroyCalled is raised, and caught in ThreadFunc.
FreeRaises ==
  /\ object = "alive"
  /\ ~freeOnTerminate /\ HandleStored
  /\ Goes("thread", "execute", "leave")
  /\ freeOnTerminate' = TRUE
  /\ UNCHANGED <<memory, initialSuspended, suspended, terminated, finished,
                 reaped, sem>>

ExecuteEnds ==
  /\ Goes("thread", "execute", "leave")
  /\ UNCHANGED <<memory, fields, sem>>

\* FFinished:=True
Finish ==
  /\ Goes("thread", "leave", "onterminate")
  /\ finished' = TRUE
  /\ UNCHANGED <<memory, initialSuspended, suspended, terminated, freeOnTerminate,
                 reaped, sem>>

\* DoTerminate: Synchronize runs OnTerminate in the main thread, which has to
\* be outside WaitFor and Destroy.
DoTerminate ==
  /\ onTerminate => at["owner"] \in {"out", "idle"}
  /\ Goes("thread", "onterminate", "free?")
  /\ UNCHANGED <<memory, fields, sem>>

\* if FreeOnTerminate then Free ...
FreeTest ==
  /\ Goes("thread", "free?", IF freeOnTerminate THEN "selffree" ELSE "gone")
  /\ UNCHANGED <<memory, fields, sem>>

\* ... and after it EndThread, which does not use the object.

-----------------------------------------------------------------------------
InResume ==
  \/ \E a \in Users : \/ ResumeTest(a, "test", "exchange", Home(a))
                      \/ ResumeExchange(a, "exchange", "post", Home(a))
                      \/ SemaphorePost(a, "post", Home(a))
  \/ ResumeTest("owner", "dtest", "dexchange", "djoin")
  \/ ResumeExchange("owner", "dexchange", "dpost", "djoin")
  \/ SemaphorePost("owner", "dpost", "djoin")

InOwner ==
  \/ BeginThread \/ CreateDone
  \/ Join("join", "reap") \/ Reap("reap", "idle")
  \/ DestroyKeeps \/ DestroyTerminates \/ DestroyResumes
  \/ Join("djoin", "dreap") \/ Reap("dreap", "free")
  \/ Free

InThread ==
  \/ Start \/ SemaphoreWait("semwait", "resumed") \/ Resumed \/ ResumedRuns
  \/ SuspendExchange \/ SemaphoreWait("selfwait", "execute")
  \/ Finish \/ DoTerminate \/ FreeTest \/ SelfDestroy("ThreadFunc", "selffree", "gone")

Next ==
  \/ \E createSuspended \in BOOLEAN : Create(createSuspended)
  \/ \E a \in Users : Terminate(a) \/ Resume(a)
  \/ WaitFor \/ Destroy
  \/ Suspend \/ SetFreeOnTerminate \/ FreeInExecute \/ FreeRaises \/ ExecuteEnds
  \/ InResume \/ InOwner \/ InThread

Spec == Init /\ [][Next]_vars

-----------------------------------------------------------------------------
(* Properties *)

\* Types; the semaphore never counts more than one post.
TypeOK ==
  /\ object \in {"none", "alive", "freed"}
  /\ freedBy \subseteq {"owner", "ThreadFunc", "Execute"}
  /\ {initialSuspended, suspended, terminated, freeOnTerminate, finished, reaped, onTerminate,
      joined} \subseteq BOOLEAN
  /\ sem \in 0..1
  /\ DOMAIN at = Actors

\* Posts of FSem and waits for it pair up, although FSuspended is tested and
\* exchanged by three parties at once: a thread that waits, or will wait, has
\* one post on the way exactly when somebody resumed it, and no post is left
\* over that would let a later Suspend return at once.  So the branch "resumed,
\* but still suspended?!" (tthread.inc:115) is dead.
Waiting == \/ at["thread"] \in {"semwait", "selfwait"}
           \/ initialSuspended /\ object # "none" /\ at["thread"] \in {"out", "start"}
Posts == sem + (IF at["owner"] \in {"post", "dpost"} THEN 1 ELSE 0)
             + (IF at["helper"] = "post" THEN 1 ELSE 0)
SemaphorePaired == /\ Posts = IF Waiting /\ ~suspended THEN 1 ELSE 0
                   /\ at["thread"] = "still?" => ~suspended

\* Nobody uses an object its owner has destroyed: the memory is not freed
\* while the thread may still read FreeOnTerminate, the helper is in Resume or
\* another step of Destroy is to come.  Nor does Destroy join a thread that
\* WaitFor has joined (tthread.inc:218, "you can't join twice"); the application
\* may, by calling WaitFor twice.
NoUseAfterDestroy ==
  /\ at["owner"] = "djoin" => ~joined
  /\ "owner" \in freedBy => /\ at["owner"] = "done"
                            /\ at["helper"] = "out"
                            /\ at["thread"] = "gone"


\* For a thread created suspended that is true: until Create has finished nobody
\* posts the semaphore the thread waits for, and the thread does not get as far as
\* Execute or its own Free (tthread.inc:102-105).
SuspendedCreateFinishes ==
  at["owner"] \in {"begin", "created"} /\ initialSuspended =>
    object = "alive" /\ at["thread"] \in {"out", "start", "semwait"}

\* Destroy, called by the owner of a thread that may free itself, and
\* ThreadFunc do not both free the object (tthread.inc:214, "when ThreadFunc
\* exits the main runloop, it does not try to Free itself again").
FreedOnce == ~({"owner", "ThreadFunc"} \subseteq freedBy)

\* The three are scheduled and Execute ends at some time.
Fairness ==
  /\ WF_vars(InOwner) /\ WF_vars(InThread) /\ SF_vars(ExecuteEnds)
  /\ \A a \in Users : WF_vars(InResume /\ at'[a] # at[a])
LiveSpec == Spec /\ Fairness

\* Destroy comes back, also for a thread that was never resumed or that
\* somebody else is resuming, unless the thread sleeps in its own Suspend or
\* waits for the main thread to run its OnTerminate.
DestroyEnds ==
  at["owner"] = "destroy" ~> \/ at["owner"] = "done"
                             \/ at["thread"] = "selfwait"
                             \/ onTerminate /\ at["thread"] = "onterminate"

\* A resumed thread leaves its wait.
ResumeWakes == Waiting /\ ~suspended /\ at["thread"] = "semwait"
                 ~> at["thread"] # "semwait"
=============================================================================
