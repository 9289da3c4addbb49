------------------------------ MODULE HeapFixed ------------------------------
(***************************************************************************)
(* The fixed-size half of the heap manager (rtl/inc/heap.inc) as it runs   *)
(* in a multi-threaded program.  Every thread has its own tfreelists; the  *)
(* ones of finished threads are gathered in orphaned_freelists.  A block   *)
(* may be freed by any thread: the wrong one hands it to its owner through *)
(* waitfixed, under heap_lock.  Fields of a thread's own tfreelists are    *)
(* touched without a lock, so every step below is either local to one      *)
(* thread, or made inside heap_lock, or one of the reads the code makes    *)
(* without it.                                                             *)
(*                                                                         *)
(* Abstractions.  A linked list is the set of its elements (a step may     *)
(* take any of them); an os chunk has one size; chunk sizes are chunk      *)
(* indexes; the statistics and the links themselves are not represented.   *)
(*                                                                         *)
(* A definition X_Something is X with a plausible slip.  No specification  *)
(* uses it: it stands in for X to show that a property notices the slip.   *)
(***************************************************************************)
EXTENDS Integers, FiniteSets

CONSTANTS
  Threads,          \* thread slots; a slot is used again after its thread ended
  Main,             \* the main thread, running from the start
  Orphaned,         \* orphaned_freelists
  OsChunks,         \* addresses at which SysOSAlloc may map an os chunk
  ChunkIndex,       \* size classes of fixed chunks
  Slots,            \* Slots[c]: the chunks an os chunk is chopped into for class c
  MaxKeptOSChunks,  \* the variable of heaph.inc
  Nil

ASSUME ThreadsAssumption == IsFiniteSet(Threads) /\ Main \in Threads
                            /\ Orphaned \notin Threads
ASSUME NilAssumption == /\ Nil \notin Threads \cup {Orphaned}
                        /\ Nil \notin ChunkIndex
ASSUME OsChunksAssumption == IsFiniteSet(OsChunks)
ASSUME SlotsAssumption ==
  \A c \in ChunkIndex : IsFiniteSet(Slots[c]) /\ Slots[c] # {}
ASSUME MaxKeptAssumption == MaxKeptOSChunks \in Nat

Owners == Threads \cup {Orphaned}

\* a fixed memchunk: its os chunk, and its place in the format of a class
Chunks == {b \in [oc : OsChunks, ix : ChunkIndex,
                  slot : UNION {Slots[c] : c \in ChunkIndex}] : b.slot \in Slots[b.ix]}
ChunksOf(poc, c) == {b \in Chunks : b.oc = poc /\ b.ix = c}

ASSUME NilChunkAssumption == Nil \notin Chunks

VARIABLES
  freelists,    \* poc^.freelists; Nil when poc is not mapped
  chunkindex,   \* the class poc is chopped for; Nil when it is not mapped
  used,         \* poc^.used
  recycled,     \* os chunks with ocrecycleflag
  oslist,       \* tfreelists.oslist, per owner
  oscount,      \* tfreelists.oscount, per owner
  fixedlists,   \* tfreelists.fixedlists, per owner (all classes together)
  waitfixed,    \* tfreelists.waitfixed, per owner
  live,         \* blocks the program holds
  held,         \* the block a thread is about to put on a waitfixed list
  req,          \* the class a thread's SysGetMem_Fixed was called with
  pc,           \* where each thread is
  heap_lock,    \* the thread inside heap_lock
  heap_lock_use,\* the counter of that name
  lock_done,    \* donecriticalsection(heap_lock) was called
  late          \* history: the threads counted in heap_lock_use while another
                \* was about to call donecriticalsection, or had called it

osvars   == <<freelists, chunkindex, used, recycled, oslist, oscount, fixedlists>>
lockvars == <<heap_lock, heap_lock_use, lock_done, late>>
vars == <<osvars, waitfixed, live, held, req, pc, lockvars>>

\* Where a thread is.  "drain", "odrain" and "fin" are inside heap_lock.
Draining == {"drain", "odrain", "fin"}

\* Where a thread is not counted in heap_lock_use: it has not started, is on its
\* way to InitHeapThread's critical section, has passed InitHeapThread without
\* it ("unlocked"), or is about to call donecriticalsection ("done").
Uncounted == {"off", "dispose", "start", "initlock", "unlocked", "done"}
PcValues == {"idle", "get", "getwait", "alloc", "orphans", "os", "wait"}
            \cup Draining \cup Uncounted

\* entercriticalsection(heap_lock) returns.  It does not once the critical
\* section was destroyed: what happens then is up to the thread library
\* (cthreads ends the program with a run-time error), so the model leaves the
\* thread where it is.
CanEnter == heap_lock = Nil /\ ~lock_done

\* heap_lock_use was 0: a thread is to destroy heap_lock or has destroyed it
LockEnds == lock_done \/ \E t \in Threads : pc[t] = "done"

\* the lists a draining thread frees from: orphaned_freelists in alloc_oschunk
DrainedOwner(t) == IF pc[t] = "odrain" THEN Orphaned ELSE t

Owned(o) == {poc \in OsChunks : freelists[poc] = o}

Available_FlagIgnored(o) == oslist[o]
\* the os chunks on oslist that are not taken in use again
Available(o) == oslist[o] \ recycled

Drained_Skipped(o) == TRUE
\* finish_waitfixedlist is through
Drained(o) == waitfixed[o] = {}

Init ==
  /\ freelists = [poc \in OsChunks |-> Nil]
  /\ chunkindex = [poc \in OsChunks |-> Nil]
  /\ used = [poc \in OsChunks |-> 0]
  /\ recycled = {}
  /\ oslist = [o \in Owners |-> {}]
  /\ oscount = [o \in Owners |-> 0]
  /\ fixedlists = [o \in Owners |-> {}]
  /\ waitfixed = [o \in Owners |-> {}]
  /\ live = {}
  /\ held = [t \in Threads |-> Nil]
  /\ req = [t \in Threads |-> Nil]
  /\ pc = [t \in Threads |-> IF t = Main THEN "idle" ELSE "off"]
  /\ heap_lock = Nil
  /\ heap_lock_use = 1
  /\ lock_done = FALSE
  /\ late = {}

-----------------------------------------------------------------------------
(***************************************************************************)
(* Os chunks.                                                              *)
(***************************************************************************)

Unlisted_Kept(o, poc) == fixedlists[o]
\* remove_freed_fixed_chunks: all chunks of poc leave the list of their class
Unlisted(o, poc) == fixedlists[o] \ ChunksOf(poc, chunkindex[poc])

Unrecycle_FlagKept(o, poc) ==
  /\ poc \in recycled
  /\ oscount' = [oscount EXCEPT ![o] = @ + 1]
  /\ UNCHANGED <<recycled, freelists, chunkindex, oslist>>
\* append_to_oslist, first case: poc still is on the list, marked as recycled
Unrecycle(o, poc) ==
  /\ poc \in recycled
  /\ recycled' = recycled \ {poc}
  /\ oscount' = [oscount EXCEPT ![o] = @ + 1]
  /\ UNCHANGED <<freelists, chunkindex, oslist>>

\* append_to_oslist and free_oschunk: enough are kept, poc goes back to the system
ReleaseToOS(o, poc) ==
  /\ poc \notin recycled
  /\ oscount[o] >= MaxKeptOSChunks
  /\ freelists' = [freelists EXCEPT ![poc] = Nil]
  /\ chunkindex' = [chunkindex EXCEPT ![poc] = Nil]
  /\ UNCHANGED <<recycled, oslist, oscount>>

KeepOnList_NotCounted(o, poc) ==
  /\ poc \notin recycled
  /\ oscount[o] < MaxKeptOSChunks
  /\ oslist' = [oslist EXCEPT ![o] = @ \cup {poc}]
  /\ UNCHANGED <<freelists, chunkindex, recycled, oscount>>
\* append_to_oslist: poc is kept
KeepOnList(o, poc) ==
  /\ poc \notin recycled
  /\ oscount[o] < MaxKeptOSChunks
  /\ oslist' = [oslist EXCEPT ![o] = @ \cup {poc}]
  /\ oscount' = [oscount EXCEPT ![o] = @ + 1]
  /\ UNCHANGED <<freelists, chunkindex, recycled>>

\* SysFreeMem_Fixed by the owner o of b
FreeChunk(o, b) ==
  LET poc == b.oc IN
  /\ used' = [used EXCEPT ![poc] = @ - 1]
  /\ \/ /\ used[poc] > 1
        /\ fixedlists' = [fixedlists EXCEPT ![o] = @ \cup {b}]
        /\ UNCHANGED <<freelists, chunkindex, recycled, oslist, oscount>>
     \/ /\ used[poc] <= 1
        /\ fixedlists' = [fixedlists EXCEPT ![o] = @ \cup {b}]
        /\ Unrecycle(o, poc) \/ KeepOnList(o, poc)
     \/ /\ used[poc] <= 1
        /\ fixedlists' = [fixedlists EXCEPT ![o] = Unlisted(o, poc)]
        /\ ReleaseToOS(o, poc)

FormatAndTake_NotCounted(t, poc, b) ==
  /\ b \in ChunksOf(poc, req[t])
  /\ chunkindex' = [chunkindex EXCEPT ![poc] = req[t]]
  /\ used' = [used EXCEPT ![poc] = 0]
  /\ live' = live \cup {b}
  /\ pc' = [pc EXCEPT ![t] = "idle"]
  /\ req' = [req EXCEPT ![t] = Nil]
\* The end of alloc_oschunk and of SysGetMem_Fixed: poc is chopped for class
\* req[t], a chunk is the result and the others go on t's list.
FormatAndTake(t, poc, b) ==
  /\ b \in ChunksOf(poc, req[t])
  /\ chunkindex' = [chunkindex EXCEPT ![poc] = req[t]]
  /\ used' = [used EXCEPT ![poc] = 1]
  /\ live' = live \cup {b}
  /\ pc' = [pc EXCEPT ![t] = "idle"]
  /\ req' = [req EXCEPT ![t] = Nil]

-----------------------------------------------------------------------------
(***************************************************************************)
(* SysGetMem_Fixed and alloc_oschunk.                                      *)
(***************************************************************************)
GetMem(t, c) ==
  /\ pc[t] = "idle"
  /\ pc' = [pc EXCEPT ![t] = "get"]
  /\ req' = [req EXCEPT ![t] = c]
  /\ UNCHANGED <<osvars, waitfixed, live, held, lockvars>>

ListOf(t) == {b \in fixedlists[t] : b.ix = req[t]}

\* the list of the class is not empty; an os chunk without used blocks is
\* marked as recycled instead of being taken off oslist
GetFromList(t, b) ==
  /\ pc[t] = "get"
  /\ b \in ListOf(t)
  /\ IF used[b.oc] = 0
     THEN /\ recycled' = recycled \cup {b.oc}
          /\ oscount' = [oscount EXCEPT ![t] = @ - 1]
     ELSE UNCHANGED <<recycled, oscount>>
  /\ fixedlists' = [fixedlists EXCEPT ![t] = @ \ {b}]
  /\ used' = [used EXCEPT ![b.oc] = @ + 1]
  /\ live' = live \cup {b}
  /\ pc' = [pc EXCEPT ![t] = "idle"]
  /\ req' = [req EXCEPT ![t] = Nil]
  /\ UNCHANGED <<freelists, chunkindex, oslist, waitfixed, held, lockvars>>

GetMiss_AlwaysRetries(t) ==
  /\ pc[t] = "get"
  /\ ListOf(t) = {}
  /\ pc' = [pc EXCEPT ![t] = "getwait"]
  /\ UNCHANGED <<osvars, waitfixed, live, held, req, lockvars>>
\* the list is empty: try_finish_waitfixedlist looks at waitfixed without a lock
GetMiss(t) ==
  /\ pc[t] = "get"
  /\ ListOf(t) = {}
  /\ pc' = [pc EXCEPT ![t] = IF waitfixed[t] = {} THEN "alloc" ELSE "getwait"]
  /\ UNCHANGED <<osvars, waitfixed, live, held, req, lockvars>>

\* alloc_oschunk: enough os chunks are kept, so find_free_oschunk picks one of
\* t's own; the recycled ones it passes, dropped, leave the list.
ReuseOwn(t, poc, b, dropped) ==
  /\ pc[t] = "alloc"
  /\ oscount[t] >= MaxKeptOSChunks
  /\ poc \in Available(t)
  /\ dropped \subseteq oslist[t] \cap recycled
  /\ oslist' = [oslist EXCEPT ![t] = @ \ (dropped \cup {poc})]
  /\ recycled' = recycled \ dropped
  /\ oscount' = [oscount EXCEPT ![t] = @ - 1]
  /\ fixedlists' = [fixedlists EXCEPT ![t] =
                      Unlisted(t, poc) \cup (ChunksOf(poc, req[t]) \ {b})]
  /\ FormatAndTake(t, poc, b)
  /\ UNCHANGED <<freelists, waitfixed, held, lockvars>>

\* alloc_oschunk found nothing of its own (having passed its whole list, if it
\* searched it) and looks at orphaned_freelists without a lock
LookAtOrphans(t) ==
  LET searched == oscount[t] >= MaxKeptOSChunks IN
  /\ pc[t] = "alloc"
  /\ searched => Available(t) = {}
  /\ oslist' = [oslist EXCEPT ![t] = IF searched THEN {} ELSE @]
  /\ recycled' = IF searched THEN recycled \ oslist[t] ELSE recycled
  /\ pc' = [pc EXCEPT ![t] = IF waitfixed[Orphaned] # {} \/ oscount[Orphaned] > 0
                             THEN "orphans" ELSE "os"]
  /\ UNCHANGED <<freelists, chunkindex, used, oscount, fixedlists,
                 waitfixed, live, held, req, lockvars>>

\* the orphans' waiting chunks are freed: adopt an os chunk without used blocks
Adopt(t, poc, b) ==
  /\ pc[t] = "odrain"
  /\ Drained(Orphaned)
  /\ poc \in Available(Orphaned)
  /\ oslist' = [oslist EXCEPT ![Orphaned] = @ \ {poc}]
  /\ oscount' = [oscount EXCEPT ![Orphaned] = @ - 1]
  /\ freelists' = [freelists EXCEPT ![poc] = t]
  /\ fixedlists' = [fixedlists EXCEPT
                      ![Orphaned] = Unlisted(Orphaned, poc),
                      ![t] = @ \cup (ChunksOf(poc, req[t]) \ {b})]
  /\ FormatAndTake(t, poc, b)
  /\ heap_lock' = Nil
  /\ UNCHANGED <<recycled, waitfixed, held, heap_lock_use, lock_done, late>>

NothingToAdopt(t) ==
  /\ pc[t] = "odrain"
  /\ Drained(Orphaned)
  /\ oscount[Orphaned] = 0
  /\ heap_lock' = Nil
  /\ pc' = [pc EXCEPT ![t] = "os"]
  /\ UNCHANGED <<osvars, waitfixed, live, held, req, heap_lock_use, lock_done, late>>

AllocFromOS(t, poc, b) ==
  /\ pc[t] = "os"
  /\ freelists[poc] = Nil
  /\ freelists' = [freelists EXCEPT ![poc] = t]
  /\ fixedlists' = [fixedlists EXCEPT ![t] =
                      @ \cup (ChunksOf(poc, req[t]) \ {b})]
  /\ FormatAndTake(t, poc, b)
  /\ UNCHANGED <<recycled, oslist, oscount, waitfixed, held, lockvars>>

\* SysOSAlloc fails; with ReturnNilIfGrowHeapFails the result is nil
AllocFails(t) ==
  /\ pc[t] = "os"
  /\ pc' = [pc EXCEPT ![t] = "idle"]
  /\ req' = [req EXCEPT ![t] = Nil]
  /\ UNCHANGED <<osvars, waitfixed, live, held, lockvars>>

-----------------------------------------------------------------------------
(***************************************************************************)
(* SysFreeMem_Fixed, called by t with a block b that the program holds.    *)
(***************************************************************************)
FreeOwn(t, b) ==
  /\ pc[t] = "idle"
  /\ b \in live
  /\ freelists[b.oc] = t
  /\ FreeChunk(t, b)
  /\ live' = live \ {b}
  /\ UNCHANGED <<waitfixed, held, req, pc, lockvars>>

\* freelists[b.oc] is read without a lock: b belongs to another tfreelists
FreeOther(t, b) ==
  /\ pc[t] = "idle"
  /\ b \in live
  /\ freelists[b.oc] # t
  /\ live' = live \ {b}
  /\ held' = [held EXCEPT ![t] = b]
  /\ pc' = [pc EXCEPT ![t] = "wait"]
  /\ UNCHANGED <<osvars, waitfixed, req, lockvars>>

\* waitfree_fixed: inside heap_lock the owner is read again, it may have ended
WaitFree(t) ==
  /\ pc[t] \in {"wait", "dispose"}
  /\ CanEnter
  /\ waitfixed' = [waitfixed EXCEPT ![freelists[held[t].oc]] = @ \cup {held[t]}]
  /\ held' = [held EXCEPT ![t] = Nil]
  /\ pc' = [pc EXCEPT ![t] = IF @ = "wait" THEN "idle" ELSE "start"]
  /\ UNCHANGED <<osvars, live, req, lockvars>>

-----------------------------------------------------------------------------
(***************************************************************************)
(* The sections inside heap_lock that free waiting chunks one by one.      *)
(***************************************************************************)
EnterLock(t) ==
  /\ CanEnter
  /\ heap_lock' = t
  /\ \/ pc[t] = "getwait" /\ pc' = [pc EXCEPT ![t] = "drain"]
     \/ pc[t] = "orphans" /\ pc' = [pc EXCEPT ![t] = "odrain"]
  /\ UNCHANGED <<osvars, waitfixed, live, held, req, heap_lock_use, lock_done, late>>

DrainOne_NotUnlinked(t, b) ==
  /\ pc[t] \in Draining
  /\ b \in waitfixed[DrainedOwner(t)]
  /\ FreeChunk(DrainedOwner(t), b)
  /\ UNCHANGED <<waitfixed, live, held, req, pc, lockvars>>
\* an iteration of finish_waitfixedlist
DrainOne(t, b) ==
  /\ pc[t] \in Draining
  /\ b \in waitfixed[DrainedOwner(t)]
  /\ waitfixed' = [waitfixed EXCEPT ![DrainedOwner(t)] = @ \ {b}]
  /\ FreeChunk(DrainedOwner(t), b)
  /\ UNCHANGED <<live, held, req, pc, lockvars>>

\* try_finish_waitfixedlist returns true and SysGetMem_Fixed starts again
DrainEnd(t) ==
  /\ pc[t] = "drain"
  /\ Drained(t)
  /\ heap_lock' = Nil
  /\ pc' = [pc EXCEPT ![t] = "get"]
  /\ UNCHANGED <<osvars, waitfixed, live, held, req, heap_lock_use, lock_done, late>>

-----------------------------------------------------------------------------
(***************************************************************************)
(* Threads: their start, InitHeapThread and FinalizeHeap.                  *)
(***************************************************************************)

\* A running thread calls BeginThread, which allocates the pthreadinfo b.  The
\* new thread disposes of b before anything else, so before InitHeapThread; it
\* owns no os chunk, and b goes to waitfree_fixed.
StartThread(t, b) ==
  /\ t # Main
  /\ pc[t] = "off"
  /\ \E u \in Threads : pc[u] = "idle"
  /\ b \in live
  /\ live' = live \ {b}
  /\ held' = [held EXCEPT ![t] = b]
  /\ pc' = [pc EXCEPT ![t] = "dispose"]
  /\ UNCHANGED <<osvars, waitfixed, req, lockvars>>

\* InitHeapThread looks at heap_lock_use without a lock.  When it is 0, the
\* thread goes on without heap_lock, after the last FinalizeHeap of the
\* program; it is not followed any further.
LookAtLockUse(t) ==
  /\ pc[t] = "start"
  /\ pc' = [pc EXCEPT ![t] = IF heap_lock_use > 0 THEN "initlock" ELSE "unlocked"]
  /\ UNCHANGED <<osvars, waitfixed, live, held, req, lockvars>>

\* the rest of InitHeapThread, whatever happened since the look
InitHeapThread(t) ==
  /\ pc[t] = "initlock"
  /\ CanEnter
  /\ heap_lock_use' = heap_lock_use + 1
  /\ late' = IF LockEnds THEN late \cup {t} ELSE late
  /\ oslist' = [oslist EXCEPT ![t] = {}]
  /\ oscount' = [oscount EXCEPT ![t] = 0]
  /\ fixedlists' = [fixedlists EXCEPT ![t] = {}]
  /\ waitfixed' = [waitfixed EXCEPT ![t] = {}]
  /\ pc' = [pc EXCEPT ![t] = "idle"]
  /\ UNCHANGED <<freelists, chunkindex, used, recycled, live, held, req,
                 heap_lock, lock_done>>

\* FinalizeHeap enters heap_lock, at the end of a thread or of the program
FinalizeEnter(t) ==
  /\ pc[t] = "idle"
  /\ heap_lock_use > 0
  /\ CanEnter
  /\ heap_lock' = t
  /\ pc' = [pc EXCEPT ![t] = "fin"]
  /\ UNCHANGED <<osvars, waitfixed, live, held, req, heap_lock_use, lock_done, late>>

LastThread_Early == heap_lock_use <= 2
\* last_thread
LastThread == heap_lock_use = 1

\* The rest of FinalizeHeap: os chunks without used blocks are unmapped, the
\* others become orphans.  Their free chunks stay linked to each other.
FinalizeHeap(t) ==
  LET freed  == Available(t)
      kept   == Owned(t) \ freed
      unlist == UNION {ChunksOf(poc, chunkindex[poc]) : poc \in freed}
  IN
  /\ pc[t] = "fin"
  /\ Drained(t)
  /\ freelists' = [poc \in OsChunks |-> IF poc \in freed THEN Nil
                                        ELSE IF poc \in kept THEN Orphaned
                                        ELSE freelists[poc]]
  /\ chunkindex' = [poc \in OsChunks |-> IF poc \in freed THEN Nil
                                         ELSE chunkindex[poc]]
  /\ recycled' = recycled \ oslist[t]
  /\ oslist' = [oslist EXCEPT ![t] = {}]
  /\ oscount' = [oscount EXCEPT ![t] = 0]
  /\ fixedlists' = [fixedlists EXCEPT
                      ![t] = {},
                      ![Orphaned] = @ \cup (fixedlists[t] \ unlist)]
  /\ heap_lock_use' = heap_lock_use - 1
  /\ heap_lock' = Nil
  /\ pc' = [pc EXCEPT ![t] = IF LastThread THEN "done" ELSE "off"]
  /\ UNCHANGED <<used, waitfixed, live, held, req, lock_done, late>>

\* the last thread destroys heap_lock, after it has left it
DoneCriticalSection(t) ==
  /\ pc[t] = "done"
  /\ lock_done' = TRUE
  /\ pc' = [pc EXCEPT ![t] = "off"]
  /\ UNCHANGED <<osvars, waitfixed, live, held, req, heap_lock, heap_lock_use, late>>

\* the program has ended
Ended == lock_done /\ UNCHANGED vars

-----------------------------------------------------------------------------
Get(t) ==
  \/ \E c \in ChunkIndex : GetMem(t, c)
  \/ \E b \in Chunks : GetFromList(t, b)
  \/ GetMiss(t)
  \/ \E poc \in OsChunks, b \in Chunks :
       \E dropped \in SUBSET recycled : ReuseOwn(t, poc, b, dropped)
  \/ LookAtOrphans(t)
  \/ \E poc \in OsChunks, b \in Chunks : Adopt(t, poc, b)
  \/ NothingToAdopt(t)
  \/ \E poc \in OsChunks, b \in Chunks : AllocFromOS(t, poc, b)
  \/ AllocFails(t)

Free(t) == \/ \E b \in Chunks : FreeOwn(t, b) \/ FreeOther(t, b)
           \/ WaitFree(t)

Drain(t) == EnterLock(t) \/ (\E b \in Chunks : DrainOne(t, b)) \/ DrainEnd(t)

Thread(t) ==
  \/ \E b \in Chunks : StartThread(t, b)
  \/ LookAtLockUse(t) \/ InitHeapThread(t)
  \/ FinalizeEnter(t) \/ FinalizeHeap(t) \/ DoneCriticalSection(t)

Next == Ended \/ \E t \in Threads : Get(t) \/ Free(t) \/ Drain(t) \/ Thread(t)

Spec == Init /\ [][Next]_vars

\* The steps of calls that have begun.  A thread inside a call keeps running
\* (the scheduler is fair to it), and gets heap_lock when that is free again
\* and again (the mutex starves nobody).
InCall(t) ==
  \/ \E b \in Chunks : GetFromList(t, b) \/ DrainOne(t, b)
  \/ \E poc \in OsChunks, b \in Chunks :
       \/ \E dropped \in SUBSET recycled : ReuseOwn(t, poc, b, dropped)
       \/ Adopt(t, poc, b)
       \/ AllocFromOS(t, poc, b)
  \/ GetMiss(t) \/ LookAtOrphans(t) \/ NothingToAdopt(t) \/ AllocFails(t)
  \/ DrainEnd(t) \/ LookAtLockUse(t) \/ FinalizeHeap(t) \/ DoneCriticalSection(t)

\* (A thread waits for heap_lock in one of the three at a time.)
GetLock(t) == EnterLock(t) \/ WaitFree(t) \/ InitHeapThread(t)

Fairness == \A t \in Threads : WF_vars(InCall(t)) /\ SF_vars(GetLock(t))

LiveSpec == Spec /\ Fairness
-----------------------------------------------------------------------------
(***************************************************************************)
(* Properties.                                                             *)
(***************************************************************************)

\* Every variable has values of its kind.
TypeOK ==
  /\ freelists \in [OsChunks -> Owners \cup {Nil}]
  /\ chunkindex \in [OsChunks -> ChunkIndex \cup {Nil}]
  /\ used \in [OsChunks -> Nat]
  /\ recycled \subseteq OsChunks
  /\ oslist \in [Owners -> SUBSET OsChunks]
  /\ oscount \in [Owners -> Nat]
  /\ fixedlists \in [Owners -> SUBSET Chunks]
  /\ waitfixed \in [Owners -> SUBSET Chunks]
  /\ live \subseteq Chunks
  /\ held \in [Threads -> Chunks \cup {Nil}]
  /\ req \in [Threads -> ChunkIndex \cup {Nil}]
  /\ pc \in [Threads -> PcValues]
  /\ heap_lock \in Threads \cup {Nil}
  /\ heap_lock_use \in Nat
  /\ lock_done \in BOOLEAN
  /\ late \subseteq Threads

InFlight == {held[t] : t \in Threads} \ {Nil}
Waiting == UNION {waitfixed[o] : o \in Owners}

\* Chunks that count as used: the program holds them, or has freed them and
\* their owner has not yet seen that.
Outstanding == live \cup InFlight \cup Waiting
BusyIn(poc) == {b \in Outstanding : b.oc = poc}

\* poc^.used is exactly the number of chunks of poc that are not on a free
\* list, through hand-overs between threads, orphaning and adoption.  (It is
\* what SysFreeMem_Fixed releases an os chunk on, heap.inc:1080.)
UsedCount == \A poc \in OsChunks : used[poc] = Cardinality(BusyIn(poc))

\* A chunk that the program may still touch, or that is on its way to its
\* owner, lies in a mapped os chunk that still has the format the chunk was
\* allocated in: freeing, orphaning and adoption never pull it away.
OutstandingMapped ==
  \A b \in Outstanding : freelists[b.oc] # Nil /\ chunkindex[b.oc] = b.ix

\* A freed block waits in exactly the lists of the owner of its os chunk, so
\* no block is handed to a thread that has ended and lost with it.
WaitsWithOwner ==
  \A o \in Owners : \A b \in waitfixed[o] : freelists[b.oc] = o

\* The chunks of a mapped os chunk are partitioned: each is on the free list of
\* the owner or is outstanding, none in both, none lost; and a thread's list
\* holds only chunks of os chunks it owns, in the format of their class.
ChunkPlaces ==
  /\ \A o \in Owners : \A b \in fixedlists[o] :
        freelists[b.oc] = o /\ chunkindex[b.oc] = b.ix /\ b \notin Outstanding
  /\ \A poc \in OsChunks : freelists[poc] # Nil =>
        ChunksOf(poc, chunkindex[poc]) \subseteq
          fixedlists[freelists[poc]] \cup Outstanding

\* A block is outstanding in one way only: it is not freed twice.
OneHolder ==
  /\ live \cap (InFlight \cup Waiting) = {}
  /\ InFlight \cap Waiting = {}
  /\ \A t, u \in Threads : held[t] = held[u] /\ held[t] # Nil => t = u

\* Every chunk of a mapped os chunk is in one place: on the free list of its
\* owner, with the program, on its way to the owner, or waiting there.
InOnePlace == ChunkPlaces /\ OneHolder

\* oslist holds, apart from the recycled ones, exactly the owner's os chunks
\* without used blocks: none of them leaks, and none in use is handed out again
\* by find_free_oschunk or unmapped by FinalizeHeap.
OsListExact ==
  /\ \A o \in Owners : \A poc \in oslist[o] : freelists[poc] = o
  /\ \A poc \in OsChunks : freelists[poc] # Nil =>
        (used[poc] = 0 <=> poc \in oslist[freelists[poc]] \ recycled)
  /\ \A poc \in recycled :
        freelists[poc] # Nil /\ poc \in oslist[freelists[poc]]

\* oscount never drifts from the list, whatever is recycled, dropped or adopted
OsCountExact ==
  \A o \in Owners : oscount[o] = Cardinality(oslist[o] \ recycled)

\* Both are exact, although an os chunk taken in use stays on the list and out
\* of the count until somebody looks at its recycle flag.
FreeOsChunksExact == OsListExact /\ OsCountExact

Registered == {t \in Threads : pc[t] \notin Uncounted}

\* heap_lock has one holder, and heap_lock_use is exactly the number of threads
\* that are past InitHeapThread and not through with FinalizeHeap.  So the last
\* of them, and only that one, destroys the lock: the only threads that can meet
\* a destroyed heap_lock are those that were between InitHeapThread's unlocked
\* look at heap_lock_use and its critical section just then (heap.inc:1418,
\* 1511-1515).
LockProtocol ==
  /\ \A t \in Threads : pc[t] \in Draining <=> heap_lock = t
  /\ heap_lock_use = Cardinality(Registered)
  /\ LockEnds => Registered \subseteq late

\* A thread that has ended owns nothing, nor does one that is not yet counted.
EndedOwnsNothing ==
  \A t \in Threads : pc[t] \in Uncounted =>
     /\ Owned(t) = {} /\ fixedlists[t] = {} /\ waitfixed[t] = {} /\ oslist[t] = {}

\* The number of kept os chunks stays within MaxKeptOSChunks (heaph.inc:60: "if
\* more than MaxKeptOSChunks are free, the heap manager will release chunks back
\* to the OS").
KeptBound == \A o \in Owners : oscount[o] <= MaxKeptOSChunks

\* An os chunk is released to the system only with no outstanding chunk in it,
\* and goes from owner to owner only inside heap_lock, to or from
\* orphaned_freelists.
OwnerStep ==
  \A poc \in OsChunks : freelists'[poc] # freelists[poc] =>
    \/ freelists[poc] = Nil /\ freelists'[poc] \in Threads
    \/ freelists'[poc] = Nil /\ BusyIn(poc)' = {}
    \/ heap_lock # Nil /\ Orphaned \in {freelists[poc], freelists'[poc]}

OwnerSteps == [][OwnerStep]_vars

\* Every call ends: GetMem does not retry for ever, and no thread waits for ever
\* for heap_lock, in a call or when it starts or ends, unless the program is over
\* and the lock destroyed.
CallsEnd == \A t \in Threads :
  pc[t] \notin {"idle", "off"} ~> pc[t] \in {"idle", "off"} \/ lock_done

\* The manager does what a program expects of GetMem and FreeMem.  Chunks of
\* one os chunk share memory when they are the same or of different formats.
A == INSTANCE Allocator WITH
       Blocks <- Chunks,
       Overlap <- {p \in Chunks \X Chunks :
                     p[1].oc = p[2].oc /\ (p[1].ix = p[2].ix => p[1] = p[2])},
       inuse <- live

Refinement == A!Spec
=============================================================================
