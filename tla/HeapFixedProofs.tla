--------------------------- MODULE HeapFixedProofs ---------------------------
(***************************************************************************)
(* Proofs about HeapFixed for any number of threads, os chunks and size    *)
(* classes.                                                                *)
(***************************************************************************)
EXTENDS HeapFixed, FiniteSetTheorems, TLAPS

USE DEF Available, Drained, LastThread, Uncounted, CanEnter

\* A chunk lies in an os chunk and has a class.
LEMMA ChunkFields ==
  \A b \in Chunks : b.oc \in OsChunks /\ b.ix \in ChunkIndex
BY DEF Chunks

\* An os chunk is chopped into finitely many chunks, and at least one.
LEMMA ChunksOfFinite ==
  ASSUME NEW poc \in OsChunks, NEW c \in ChunkIndex
  PROVE  IsFiniteSet(ChunksOf(poc, c)) /\ ChunksOf(poc, c) # {}
<1> DEFINE f == [s \in Slots[c] |-> [oc |-> poc, ix |-> c, slot |-> s]]
<1>1. f \in Surjection(Slots[c], ChunksOf(poc, c))
  BY DEF Surjection, ChunksOf, Chunks
<1>2. IsFiniteSet(Slots[c]) /\ Slots[c] # {}
  BY SlotsAssumption
<1>3. IsFiniteSet(ChunksOf(poc, c))
  BY <1>1, <1>2, FS_Surjection
<1> QED BY <1>1, <1>2, <1>3 DEF Surjection

-----------------------------------------------------------------------------
(***************************************************************************)
(* The kinds of the variables, with counters that might be negative.       *)
(***************************************************************************)
Kinds ==
  /\ freelists \in [OsChunks -> Owners \cup {Nil}]
  /\ chunkindex \in [OsChunks -> ChunkIndex \cup {Nil}]
  /\ used \in [OsChunks -> Int]
  /\ recycled \subseteq OsChunks
  /\ oslist \in [Owners -> SUBSET OsChunks]
  /\ oscount \in [Owners -> Int]
  /\ fixedlists \in [Owners -> SUBSET Chunks]
  /\ waitfixed \in [Owners -> SUBSET Chunks]
  /\ live \subseteq Chunks
  /\ held \in [Threads -> Chunks \cup {Nil}]
  /\ req \in [Threads -> ChunkIndex \cup {Nil}]
  /\ pc \in [Threads -> PcValues]
  /\ heap_lock \in Threads \cup {Nil}
  /\ heap_lock_use \in Int
  /\ lock_done \in BOOLEAN
  /\ late \subseteq Threads

\* A thread has a block in flight exactly on its way to waitfree_fixed, and a
\* requested class exactly inside SysGetMem_Fixed; the holder of heap_lock is
\* the thread in one of its sections.
InGet == {"get", "getwait", "drain", "alloc", "orphans", "odrain", "os"}
PcData ==
  \A t \in Threads : /\ held[t] # Nil <=> pc[t] \in {"wait", "dispose"}
                     /\ req[t] # Nil <=> pc[t] \in InGet
                     /\ pc[t] \in Draining <=> heap_lock = t

LEMMA KindsInit == Init => Kinds /\ PcData
<1> USE ThreadsAssumption, NilAssumption DEF Owners
<1> SUFFICES ASSUME Init PROVE Kinds /\ PcData
  OBVIOUS
<1>1. Kinds
  <2>1. lock_done \in BOOLEAN
    BY DEF Init
  <2>2. pc \in [Threads -> PcValues]
    BY DEF Init, PcValues, Draining
  <2> QED BY <2>1, <2>2 DEF Init, Kinds
<1>2. PcData
  BY DEF Init, PcData, InGet, Draining
<1> QED BY <1>1, <1>2

\* FreeChunk keeps the kinds of the variables it changes.
LEMMA FreeChunkKinds ==
  ASSUME Kinds, NEW o \in Owners, NEW b \in Chunks, FreeChunk(o, b)
  PROVE  /\ freelists' \in [OsChunks -> Owners \cup {Nil}]
         /\ chunkindex' \in [OsChunks -> ChunkIndex \cup {Nil}]
         /\ used' \in [OsChunks -> Int]
         /\ recycled' \subseteq OsChunks
         /\ oslist' \in [Owners -> SUBSET OsChunks]
         /\ oscount' \in [Owners -> Int]
         /\ fixedlists' \in [Owners -> SUBSET Chunks]
BY ChunkFields DEF Kinds, FreeChunk, Unrecycle, KeepOnList, ReleaseToOS, Unlisted

\* So do the steps that hand out a chunk of a newly chopped os chunk.
LEMMA FormatKinds ==
  ASSUME Kinds, NEW t \in Threads, NEW poc \in OsChunks, NEW b \in Chunks,
         FormatAndTake(t, poc, b)
  PROVE  /\ req[t] \in ChunkIndex
         /\ ChunksOf(poc, req[t]) \subseteq Chunks
         /\ chunkindex' \in [OsChunks -> ChunkIndex \cup {Nil}]
         /\ used' \in [OsChunks -> Int]
         /\ live' \subseteq Chunks
         /\ pc' \in [Threads -> PcValues]
         /\ req' \in [Threads -> ChunkIndex \cup {Nil}]
<1>1. req[t] \in ChunkIndex
  BY DEF Kinds, FormatAndTake, ChunksOf, Chunks
<1>2. ChunksOf(poc, req[t]) \subseteq Chunks
  BY DEF ChunksOf
<1> QED BY <1>1, <1>2 DEF Kinds, FormatAndTake, PcValues

\* The steps of SysGetMem_Fixed.
LEMMA KindsGet ==
  ASSUME Kinds, PcData, NEW t \in Threads, Get(t)
  PROVE  Kinds' /\ PcData'
<1> USE ThreadsAssumption, NilAssumption, NilChunkAssumption DEF Owners
<1>1. CASE \E c \in ChunkIndex : GetMem(t, c)
  BY <1>1 DEF GetMem, Kinds, PcData, osvars, lockvars, PcValues, InGet, Draining
<1>2. CASE \E b \in Chunks : GetFromList(t, b)
  BY <1>2, ChunkFields DEF GetFromList, Kinds, PcData, lockvars, PcValues, InGet, Draining
<1>3. CASE GetMiss(t)
  BY <1>3 DEF GetMiss, Kinds, PcData, osvars, lockvars, PcValues, InGet, Draining
<1>4. CASE \E poc \in OsChunks, b \in Chunks :
             \E dropped \in SUBSET recycled : ReuseOwn(t, poc, b, dropped)
  <2> PICK poc \in OsChunks, b \in Chunks, dropped \in SUBSET recycled :
             ReuseOwn(t, poc, b, dropped)
    BY <1>4
  <2>1. FormatAndTake(t, poc, b)
    BY DEF ReuseOwn
  <2>2. Kinds'
    BY <2>1, FormatKinds DEF ReuseOwn, Kinds, lockvars, Unlisted
  <2>3. PcData'
    BY DEF ReuseOwn, FormatAndTake, Kinds, PcData, lockvars, InGet, Draining
  <2> QED BY <2>2, <2>3
<1>5. CASE LookAtOrphans(t)
  BY <1>5 DEF LookAtOrphans, Kinds, PcData, lockvars, PcValues, InGet, Draining
<1>6. CASE \E poc \in OsChunks, b \in Chunks : Adopt(t, poc, b)
  <2> PICK poc \in OsChunks, b \in Chunks : Adopt(t, poc, b)
    BY <1>6
  <2>1. FormatAndTake(t, poc, b)
    BY DEF Adopt
  <2>2. Kinds'
    BY <2>1, FormatKinds DEF Adopt, Kinds, Unlisted
  <2>3. PcData'
    BY DEF Adopt, FormatAndTake, Kinds, PcData, InGet, Draining
  <2> QED BY <2>2, <2>3
<1>7. CASE NothingToAdopt(t)
  BY <1>7 DEF NothingToAdopt, Kinds, PcData, osvars, PcValues, InGet, Draining
<1>8. CASE \E poc \in OsChunks, b \in Chunks : AllocFromOS(t, poc, b)
  <2> PICK poc \in OsChunks, b \in Chunks : AllocFromOS(t, poc, b)
    BY <1>8
  <2>1. FormatAndTake(t, poc, b)
    BY DEF AllocFromOS
  <2>2. Kinds'
    BY <2>1, FormatKinds DEF AllocFromOS, Kinds, lockvars
  <2>3. PcData'
    BY DEF AllocFromOS, FormatAndTake, Kinds, PcData, lockvars, InGet, Draining
  <2> QED BY <2>2, <2>3
<1>9. CASE AllocFails(t)
  BY <1>9 DEF AllocFails, Kinds, PcData, osvars, lockvars, PcValues, InGet, Draining
<1> QED BY <1>1, <1>2, <1>3, <1>4, <1>5, <1>6, <1>7, <1>8, <1>9 DEF Get

\* The steps of SysFreeMem_Fixed and of the sections that drain waiting lists.
LEMMA KindsFreeDrain ==
  ASSUME Kinds, PcData, NEW t \in Threads, Free(t) \/ Drain(t)
  PROVE  Kinds' /\ PcData'
<1> USE ThreadsAssumption, NilAssumption, NilChunkAssumption DEF Owners
<1>1. ASSUME NEW b \in Chunks, FreeOwn(t, b)
      PROVE  Kinds' /\ PcData'
  <2>1. Kinds'
    BY <1>1, FreeChunkKinds DEF FreeOwn, Kinds, lockvars
  <2>2. PcData'
    BY <1>1 DEF FreeOwn, PcData, lockvars
  <2> QED BY <2>1, <2>2
<1>2. ASSUME NEW b \in Chunks, FreeOther(t, b)
      PROVE  Kinds' /\ PcData'
  BY <1>2 DEF FreeOther, Kinds, PcData, osvars, lockvars, PcValues, InGet, Draining
<1>3. CASE WaitFree(t)
  BY <1>3 DEF WaitFree, Kinds, PcData, osvars, lockvars, PcValues, InGet, Draining
<1>4. CASE EnterLock(t)
  BY <1>4 DEF EnterLock, Kinds, PcData, osvars, PcValues, InGet, Draining
<1>5. ASSUME NEW b \in Chunks, DrainOne(t, b)
      PROVE  Kinds' /\ PcData'
  <2>1. DrainedOwner(t) \in Owners
    BY DEF DrainedOwner
  <2>2. Kinds'
    BY <1>5, <2>1, FreeChunkKinds DEF DrainOne, Kinds, lockvars
  <2>3. PcData'
    BY <1>5 DEF DrainOne, PcData, lockvars
  <2> QED BY <2>2, <2>3
<1>6. CASE DrainEnd(t)
  BY <1>6 DEF DrainEnd, Kinds, PcData, osvars, PcValues, InGet, Draining
<1> QED BY <1>1, <1>2, <1>3, <1>4, <1>5, <1>6 DEF Free, Drain

\* InitHeapThread and FinalizeHeap.
LEMMA KindsThread ==
  ASSUME Kinds, PcData, NEW t \in Threads, Thread(t)
  PROVE  Kinds' /\ PcData'
<1> USE ThreadsAssumption, NilAssumption, NilChunkAssumption DEF Owners
<1>1. ASSUME NEW b \in Chunks, StartThread(t, b)
      PROVE  Kinds' /\ PcData'
  BY <1>1 DEF StartThread, Kinds, PcData, osvars, lockvars, PcValues, InGet, Draining
<1>2. CASE InitHeapThread(t)
  BY <1>2 DEF InitHeapThread, Kinds, PcData, PcValues, InGet, Draining
<1>3. CASE FinalizeEnter(t)
  BY <1>3 DEF FinalizeEnter, Kinds, PcData, osvars, PcValues, InGet, Draining
<1>4. CASE FinalizeHeap(t)
  <2>1. lock_done' \in BOOLEAN
    BY <1>4 DEF FinalizeHeap, Kinds
  <2>2. freelists' \in [OsChunks -> Owners \cup {Nil}]
    BY <1>4 DEF FinalizeHeap, Kinds
  <2>3. fixedlists' \in [Owners -> SUBSET Chunks]
    BY <1>4 DEF FinalizeHeap, Kinds
  <2>4. Kinds'
    BY <1>4, <2>1, <2>2, <2>3 DEF FinalizeHeap, Kinds, PcValues, Draining
  <2>5. PcData'
    BY <1>4 DEF FinalizeHeap, Kinds, PcData, InGet, Draining
  <2> QED BY <2>4, <2>5
<1>5. CASE LookAtLockUse(t)
  BY <1>5 DEF LookAtLockUse, Kinds, PcData, osvars, lockvars, PcValues, InGet, Draining
<1>6. CASE DoneCriticalSection(t)
  <2>1. lock_done' \in BOOLEAN
    BY <1>6 DEF DoneCriticalSection
  <2>2. Kinds'
    BY <1>6, <2>1 DEF DoneCriticalSection, Kinds, osvars, PcValues
  <2>3. PcData'
    BY <1>6 DEF DoneCriticalSection, Kinds, PcData, osvars, InGet, Draining
  <2> QED BY <2>2, <2>3
<1> QED BY <1>1, <1>2, <1>3, <1>4, <1>5, <1>6 DEF Thread

LEMMA KindsNext == Kinds /\ PcData /\ [Next]_vars => Kinds' /\ PcData'
<1> SUFFICES ASSUME Kinds, PcData, [Next]_vars PROVE Kinds' /\ PcData'
  OBVIOUS
<1>1. CASE \E t \in Threads : Get(t) \/ Free(t) \/ Drain(t) \/ Thread(t)
  BY <1>1, KindsGet, KindsFreeDrain, KindsThread
<1>2. CASE UNCHANGED vars
  BY <1>2 DEF vars, osvars, lockvars, Kinds, PcData
<1> QED BY <1>1, <1>2 DEF Next, Ended

-----------------------------------------------------------------------------
(***************************************************************************)
(* The invariant.  No conjunct is inductive alone: that used counts the    *)
(* outstanding chunks makes an os chunk on oslist free of them, which      *)
(* keeps them mapped when it is unmapped or chopped anew, which keeps the  *)
(* count right.                                                            *)
(***************************************************************************)
MemInv ==
  /\ OutstandingMapped
  /\ WaitsWithOwner
  /\ ChunkPlaces
  /\ OneHolder
  /\ UsedCount
  /\ OsListExact
  /\ OsCountExact
  /\ EndedOwnsNothing

\* Membership in Outstanding.
LEMMA OutstandingIs ==
  ASSUME Kinds
  PROVE  /\ \A b : b \in Outstanding <=>
               \/ b \in live
               \/ \E t \in Threads : held[t] = b /\ b # Nil
               \/ \E o \in Owners : b \in waitfixed[o]
         /\ Outstanding \subseteq Chunks
<1>1. Outstanding \subseteq Chunks
  BY DEF Kinds, Outstanding, InFlight, Waiting
<1>2. ASSUME NEW b
      PROVE  b \in Outstanding <=>
               \/ b \in live
               \/ \E t \in Threads : held[t] = b /\ b # Nil
               \/ \E o \in Owners : b \in waitfixed[o]
  <2>1. b \in InFlight <=> \E t \in Threads : held[t] = b /\ b # Nil
    BY DEF InFlight
  <2>2. b \in Waiting <=> \E o \in Owners : b \in waitfixed[o]
    BY DEF Waiting
  <2> QED BY <2>1, <2>2 DEF Outstanding
<1> QED BY <1>1, <1>2

\* The outstanding chunks of an os chunk are finitely many; there are none
\* exactly when used is 0, and none if it is not mapped.
LEMMA BusyFinite ==
  ASSUME Kinds, OutstandingMapped, UsedCount, NEW poc \in OsChunks
  PROVE  /\ IsFiniteSet(BusyIn(poc))
         /\ used[poc] \in Nat
         /\ used[poc] = 0 <=> BusyIn(poc) = {}
         /\ freelists[poc] = Nil => BusyIn(poc) = {}
<1>1. BusyIn(poc) \subseteq ChunksOf(poc, chunkindex[poc])
  BY OutstandingIs DEF BusyIn, ChunksOf, OutstandingMapped
<1>2. IsFiniteSet(BusyIn(poc))
  <2>1. CASE BusyIn(poc) = {}
    BY <2>1, FS_EmptySet
  <2>2. CASE BusyIn(poc) # {}
    <3>1. chunkindex[poc] \in ChunkIndex
      BY <2>2, OutstandingIs, ChunkFields DEF BusyIn, OutstandingMapped
    <3> QED BY <1>1, <3>1, ChunksOfFinite, FS_Subset
  <2> QED BY <2>1, <2>2
<1>3. freelists[poc] = Nil => BusyIn(poc) = {}
  BY DEF BusyIn, OutstandingMapped
<1> QED BY <1>2, <1>3, FS_CardinalityType, FS_EmptySet DEF UsedCount

\* Sets of os chunks are finite.
LEMMA OsListFinite ==
  ASSUME Kinds, NEW o \in Owners, NEW S
  PROVE  IsFiniteSet(oslist[o] \ S)
BY OsChunksAssumption, FS_Subset DEF Kinds

\* Freeing an outstanding chunk in the lists of its owner.
LEMMA FreeChunkInv ==
  ASSUME Kinds, MemInv, NEW o \in Owners, NEW b \in Outstanding,
         freelists[b.oc] = o, FreeChunk(o, b), Outstanding' = Outstanding \ {b}
  PROVE  /\ OutstandingMapped' /\ ChunkPlaces' /\ UsedCount'
         /\ OsListExact' /\ OsCountExact'
         /\ \A poc \in OsChunks : freelists'[poc] # freelists[poc] =>
               freelists'[poc] = Nil /\ freelists[poc] = o /\ BusyIn(poc)' = {}
<1> DEFINE p == b.oc
<1> USE ThreadsAssumption, NilAssumption
<1>1. b \in Chunks /\ p \in OsChunks /\ b \in BusyIn(p) /\ chunkindex[p] = b.ix
  BY OutstandingIs, ChunkFields DEF BusyIn, MemInv, OutstandingMapped
<1>2. /\ \A q \in OsChunks : q # p => BusyIn(q)' = BusyIn(q)
      /\ BusyIn(p)' = BusyIn(p) \ {b}
  BY DEF BusyIn
<1>3. UsedCount'
  <2>1. used[p] = Cardinality(BusyIn(p)) /\ IsFiniteSet(BusyIn(p))
    BY <1>1, BusyFinite DEF MemInv, UsedCount
  <2>2. Cardinality(BusyIn(p)') = used[p] - 1
    BY <1>1, <1>2, <2>1, FS_RemoveElement
  <2> QED BY <1>1, <1>2, <2>2 DEF UsedCount, MemInv, FreeChunk, Kinds
<1>4. used[p] \in Nat /\ used[p] >= 1 /\ (used[p] <= 1 => BusyIn(p)' = {})
  <2>1. used[p] \in Nat /\ used[p] # 0 /\ IsFiniteSet(BusyIn(p))
    BY <1>1, BusyFinite DEF MemInv
  <2>2. used[p] <= 1 => \E x : BusyIn(p) = {x}
    BY <2>1, <1>1, FS_Singleton DEF MemInv, UsedCount
  <2> QED BY <1>1, <1>2, <2>1, <2>2
<1>5. o # Nil /\ Outstanding \subseteq Chunks
  BY OutstandingIs DEF Owners
<1>6. used' = [used EXCEPT ![p] = @ - 1]
  BY DEF FreeChunk
<1>11. ASSUME fixedlists' = [fixedlists EXCEPT ![o] = @ \cup {b}],
              UNCHANGED <<freelists, chunkindex>>
       PROVE  ChunkPlaces'
  <2>1. \A u \in Owners : \A x \in fixedlists'[u] : x \in fixedlists[u] \/ (u = o /\ x = b)
    BY <1>11 DEF Kinds
  <2>2. \A u \in Owners : \A x \in fixedlists'[u] :
           freelists'[x.oc] = u /\ chunkindex'[x.oc] = x.ix /\ x \notin Outstanding'
    BY <1>1, <1>11, <2>1 DEF MemInv, ChunkPlaces
  <2>3. ASSUME NEW q \in OsChunks, freelists'[q] # Nil
        PROVE  ChunksOf(q, chunkindex'[q])
                 \subseteq fixedlists'[freelists'[q]] \cup Outstanding'
    <3>1. ChunksOf(q, chunkindex[q]) \subseteq fixedlists[freelists[q]] \cup Outstanding
      BY <1>11, <2>3 DEF MemInv, ChunkPlaces
    <3>2. freelists[q] \in Owners /\ (b \in ChunksOf(q, chunkindex[q]) => freelists[q] = o)
      BY <1>11, <2>3 DEF Kinds, ChunksOf
    <3> QED BY <3>1, <3>2, <1>11 DEF Kinds
  <2> QED BY <2>2, <2>3 DEF ChunkPlaces
<1>7. CASE used[p] > 1
  <2>1. /\ fixedlists' = [fixedlists EXCEPT ![o] = @ \cup {b}]
        /\ UNCHANGED <<freelists, chunkindex, recycled, oslist, oscount>>
    BY <1>4, <1>7 DEF FreeChunk
  <2>2. OutstandingMapped'
    BY <2>1 DEF MemInv, OutstandingMapped
  <2>3. ChunkPlaces'
    BY <1>11, <2>1
  <2>4. OsListExact'
    BY <1>1, <1>4, <1>6, <1>7, <2>1 DEF MemInv, OsListExact, Kinds
  <2>5. OsCountExact'
    BY <2>1 DEF MemInv, OsCountExact
  <2> QED BY <1>3, <2>1, <2>2, <2>3, <2>4, <2>5
<1>8. CASE Unrecycle(o, p) /\ used[p] <= 1
          /\ fixedlists' = [fixedlists EXCEPT ![o] = @ \cup {b}]
  <2>1. UNCHANGED <<freelists, chunkindex, oslist>>
    BY <1>8 DEF Unrecycle
  <2>2. OutstandingMapped'
    BY <2>1 DEF MemInv, OutstandingMapped
  <2>3. ChunkPlaces'
    BY <1>11, <1>8, <2>1
  <2>4. OsListExact'
    BY <1>1, <1>4, <1>6, <1>8, <2>1 DEF MemInv, OsListExact, Kinds, Unrecycle
  <2>5. OsCountExact'
    <3>1. oslist[o] \ recycled' = (oslist[o] \ recycled) \cup {p} /\ p \in recycled
      BY <1>1, <1>8 DEF Unrecycle, MemInv, OsListExact
    <3>2. Cardinality(oslist[o] \ recycled') = Cardinality(oslist[o] \ recycled) + 1
      BY <3>1, OsListFinite, FS_AddElement
    <3>3. \A u \in Owners : u # o => oslist[u] \ recycled' = oslist[u] \ recycled
      BY <1>1, <1>8 DEF Unrecycle, MemInv, OsListExact
    <3> QED BY <1>8, <2>1, <3>2, <3>3 DEF Unrecycle, MemInv, OsCountExact, Kinds
  <2> QED BY <1>3, <2>1, <2>2, <2>3, <2>4, <2>5
<1>9. CASE KeepOnList(o, p) /\ used[p] <= 1
          /\ fixedlists' = [fixedlists EXCEPT ![o] = @ \cup {b}]
  <2>1. UNCHANGED <<freelists, chunkindex, recycled>>
    BY <1>9 DEF KeepOnList
  <2>2. OutstandingMapped'
    BY <2>1 DEF MemInv, OutstandingMapped
  <2>3. ChunkPlaces'
    BY <1>11, <1>9, <2>1
  <2>4. OsListExact'
    BY <1>1, <1>4, <1>6, <1>9, <2>1 DEF MemInv, OsListExact, Kinds, KeepOnList
  <2>5. OsCountExact'
    <3>1. oslist'[o] \ recycled = (oslist[o] \ recycled) \cup {p}
      BY <1>1, <1>9 DEF KeepOnList, Kinds
    <3>2. p \notin oslist[o] \ recycled
      BY <1>1, <1>4, <1>5 DEF MemInv, OsListExact
    <3>3. Cardinality(oslist'[o] \ recycled) = Cardinality(oslist[o] \ recycled) + 1
      BY <3>1, <3>2, OsListFinite, FS_AddElement
    <3> QED BY <1>9, <2>1, <3>3 DEF KeepOnList, MemInv, OsCountExact, Kinds
  <2> QED BY <1>3, <2>1, <2>2, <2>3, <2>4, <2>5
<1>10. CASE ReleaseToOS(o, p) /\ used[p] <= 1
          /\ fixedlists' = [fixedlists EXCEPT ![o] = Unlisted(o, p)]
  <2>1. /\ UNCHANGED <<recycled, oslist, oscount>>
        /\ p \notin recycled
        /\ freelists' = [freelists EXCEPT ![p] = Nil]
        /\ chunkindex' = [chunkindex EXCEPT ![p] = Nil]
    BY <1>10 DEF ReleaseToOS
  <2>2. OutstandingMapped'
    <3>1. \A x \in Outstanding' : x.oc # p
      BY <1>4, <1>10 DEF BusyIn
    <3> QED BY <2>1, <3>1, ChunkFields, <1>5 DEF MemInv, OutstandingMapped, Kinds
  <2>3. ChunkPlaces'
    <3>1. \A x \in fixedlists'[o] : x \in fixedlists[o] /\ x.oc # p
      BY <1>1, <1>10 DEF MemInv, ChunkPlaces, Unlisted, ChunksOf, Kinds
    <3>2. \A u \in Owners : u # o => fixedlists'[u] = fixedlists[u]
      BY <1>10 DEF Kinds
    <3>3. \A x \in fixedlists[o] : x.oc # p => x \in fixedlists'[o]
      BY <1>10 DEF Unlisted, ChunksOf, Kinds
    <3>4. \A u \in Owners : \A x \in fixedlists'[u] :
             freelists'[x.oc] = u /\ chunkindex'[x.oc] = x.ix /\ x \notin Outstanding'
      BY <1>1, <2>1, <3>1, <3>2, ChunkFields DEF MemInv, ChunkPlaces, Kinds
    <3>5. ASSUME NEW q \in OsChunks, freelists'[q] # Nil
          PROVE  ChunksOf(q, chunkindex'[q])
                   \subseteq fixedlists'[freelists'[q]] \cup Outstanding'
      BY <3>5, <1>1, <2>1, <3>2, <3>3 DEF MemInv, ChunkPlaces, Kinds, ChunksOf
    <3> QED BY <3>4, <3>5 DEF ChunkPlaces
  <2>4. OsListExact'
    <3>1. \A u \in Owners : p \notin oslist[u]
      BY <1>1, <1>4, <1>5, <2>1 DEF MemInv, OsListExact
    <3> QED BY <1>1, <1>5, <1>6, <2>1, <3>1 DEF MemInv, OsListExact, Kinds
  <2>5. OsCountExact'
    BY <2>1 DEF MemInv, OsCountExact
  <2> QED BY <1>3, <1>1, <1>4, <1>10, <2>1, <2>2, <2>3, <2>4, <2>5 DEF Kinds
<1> QED BY <1>1, <1>4, <1>7, <1>8, <1>9, <1>10 DEF FreeChunk

\* A chunk nobody holds becomes live.
LEMMA TakeOutstanding ==
  ASSUME Kinds, OneHolder, NEW b \in Chunks, b \notin Outstanding,
         live' = live \cup {b}, UNCHANGED <<held, waitfixed>>
  PROVE  OneHolder' /\ Outstanding' = Outstanding \cup {b}
BY DEF OneHolder, Outstanding, InFlight, Waiting

\* Chopping an os chunk without outstanding chunks for thread t.
LEMMA FormatInv ==
  ASSUME Kinds, MemInv, NEW t \in Threads, NEW poc \in OsChunks, NEW b \in Chunks,
         FormatAndTake(t, poc, b), UNCHANGED <<held, waitfixed>>,
         BusyIn(poc) = {},
         freelists' = [freelists EXCEPT ![poc] = t],
         \A o \in Owners : \A x : x \in fixedlists'[o] <=>
            \/ x \in fixedlists[o] /\ x.oc # poc
            \/ o = t /\ x \in ChunksOf(poc, req[t]) \ {b}
  PROVE  /\ OutstandingMapped' /\ WaitsWithOwner' /\ ChunkPlaces'
         /\ OneHolder' /\ UsedCount'
<1> USE ThreadsAssumption, NilAssumption
<1>1. /\ b.oc = poc /\ b.ix = req[t] /\ req[t] \in ChunkIndex
      /\ b \in ChunksOf(poc, req[t])
      /\ chunkindex' = [chunkindex EXCEPT ![poc] = req[t]]
      /\ used' = [used EXCEPT ![poc] = 1]
      /\ live' = live \cup {b}
  BY FormatKinds DEF FormatAndTake, ChunksOf
<1>2. b \notin Outstanding /\ \A x \in Outstanding : x.oc # poc
  BY <1>1 DEF BusyIn
<1>3. OneHolder' /\ Outstanding' = Outstanding \cup {b}
  BY <1>1, <1>2, TakeOutstanding DEF MemInv
<1>4. Outstanding \subseteq Chunks /\ t # Nil /\ t \in Owners
  BY OutstandingIs DEF Owners
<1>5. OutstandingMapped'
  BY <1>1, <1>2, <1>3, <1>4, ChunkFields DEF MemInv, OutstandingMapped, Kinds
<1>6. WaitsWithOwner'
  <2>1. \A o \in Owners : \A x \in waitfixed[o] : x \in Outstanding
    BY OutstandingIs
  <2> QED BY <1>2, <1>4, <2>1, ChunkFields DEF MemInv, WaitsWithOwner, Kinds
<1>7. ChunkPlaces'
  <2>1. ASSUME NEW o \in Owners, NEW x \in fixedlists'[o]
        PROVE  freelists'[x.oc] = o /\ chunkindex'[x.oc] = x.ix /\ x \notin Outstanding'
    <3>1. CASE x \in fixedlists[o] /\ x.oc # poc
      BY <1>1, <1>3, <3>1, ChunkFields DEF MemInv, ChunkPlaces, Kinds
    <3>2. CASE o = t /\ x \in ChunksOf(poc, req[t]) \ {b}
      BY <1>1, <1>2, <1>3, <3>2 DEF ChunksOf, Kinds
    <3> QED BY <2>1, <3>1, <3>2
  <2>2. ASSUME NEW q \in OsChunks, freelists'[q] # Nil
        PROVE  ChunksOf(q, chunkindex'[q])
                 \subseteq fixedlists'[freelists'[q]] \cup Outstanding'
    <3>1. CASE q = poc
      BY <1>1, <1>3, <1>4, <3>1 DEF Kinds
    <3>2. CASE q # poc
      <4>1. /\ ChunksOf(q, chunkindex[q]) \subseteq fixedlists[freelists[q]] \cup Outstanding
            /\ freelists[q] \in Owners
            /\ freelists'[q] = freelists[q] /\ chunkindex'[q] = chunkindex[q]
        BY <1>1, <2>2, <3>2 DEF MemInv, ChunkPlaces, Kinds
      <4> QED BY <1>3, <3>2, <4>1 DEF ChunksOf
    <3> QED BY <3>1, <3>2
  <2> QED BY <2>1, <2>2 DEF ChunkPlaces
<1>8. UsedCount'
  <2>1. BusyIn(poc)' = {b}
    BY <1>1, <1>2, <1>3 DEF BusyIn
  <2>2. \A q \in OsChunks : q # poc => BusyIn(q)' = BusyIn(q)
    BY <1>1, <1>3 DEF BusyIn
  <2> QED BY <1>1, <2>1, <2>2, FS_Singleton DEF MemInv, UsedCount, Kinds
<1> QED BY <1>3, <1>5, <1>6, <1>7, <1>8

\* A step that leaves the memory alone and ends or starts no thread.
LEMMA QuietInv ==
  ASSUME MemInv, UNCHANGED <<osvars, waitfixed, live, held>>,
         \A t \in Threads : pc'[t] \in Uncounted => pc[t] \in Uncounted
  PROVE  MemInv'
BY DEF MemInv, osvars, OutstandingMapped, WaitsWithOwner, ChunkPlaces, OneHolder,
       UsedCount, BusyIn, Outstanding, InFlight, Waiting, OsListExact, OsCountExact,
       EndedOwnsNothing, Owned

\* The four ways in which SysGetMem_Fixed finds a chunk.
LEMMA MemGetFromList ==
  ASSUME Kinds, PcData, MemInv, NEW t \in Threads, NEW b \in Chunks, GetFromList(t, b)
  PROVE  MemInv'
<1> DEFINE p == b.oc
<1> USE ThreadsAssumption, NilAssumption
<1>1. /\ b \in fixedlists[t] /\ p \in OsChunks /\ t \in Owners /\ t # Nil
      /\ freelists[p] = t /\ chunkindex[p] = b.ix /\ b \notin Outstanding
  BY ChunkFields DEF GetFromList, ListOf, MemInv, ChunkPlaces, Owners
<1>2. OneHolder' /\ Outstanding' = Outstanding \cup {b}
  BY <1>1, TakeOutstanding DEF GetFromList, MemInv
<1>3. /\ \A q \in OsChunks : q # p => BusyIn(q)' = BusyIn(q)
      /\ BusyIn(p)' = BusyIn(p) \cup {b} /\ b \notin BusyIn(p)
  BY <1>1, <1>2 DEF BusyIn
<1>4. UsedCount'
  <2>1. used[p] = Cardinality(BusyIn(p)) /\ IsFiniteSet(BusyIn(p))
    BY <1>1, BusyFinite DEF MemInv, UsedCount
  <2>2. Cardinality(BusyIn(p)') = used[p] + 1
    BY <1>3, <2>1, FS_AddElement
  <2> QED BY <1>1, <1>3, <2>2 DEF UsedCount, MemInv, GetFromList, Kinds
<1>5. OutstandingMapped'
  BY <1>1, <1>2 DEF GetFromList, MemInv, OutstandingMapped
<1>6. WaitsWithOwner'
  BY DEF GetFromList, MemInv, WaitsWithOwner
<1>7. ChunkPlaces'
  <2>1. \A u \in Owners : \A x \in fixedlists'[u] : x \in fixedlists[u] /\ x # b
    BY <1>1 DEF GetFromList, Kinds, MemInv, ChunkPlaces
  <2>2. \A u \in Owners : \A x \in fixedlists[u] : x # b => x \in fixedlists'[u]
    BY DEF GetFromList, Kinds
  <2>3. ASSUME NEW q \in OsChunks, freelists'[q] # Nil
        PROVE  ChunksOf(q, chunkindex'[q])
                 \subseteq fixedlists'[freelists'[q]] \cup Outstanding'
    <3>1. /\ ChunksOf(q, chunkindex[q]) \subseteq fixedlists[freelists[q]] \cup Outstanding
          /\ freelists[q] \in Owners
      BY <2>3 DEF GetFromList, MemInv, ChunkPlaces, Kinds
    <3> QED BY <1>2, <2>2, <3>1 DEF GetFromList
  <2> QED BY <1>2, <2>1, <2>3 DEF GetFromList, MemInv, ChunkPlaces
<1>8. used[p] \in Nat
  BY <1>1, BusyFinite DEF MemInv
<1>9. CASE used[p] = 0
  <2>1. /\ recycled' = recycled \cup {p}
        /\ oscount' = [oscount EXCEPT ![t] = @ - 1]
        /\ used' = [used EXCEPT ![p] = @ + 1]
        /\ UNCHANGED <<freelists, oslist>>
    BY <1>9 DEF GetFromList
  <2>2. p \in oslist[t] /\ p \notin recycled
    BY <1>1, <1>9 DEF MemInv, OsListExact
  <2>3. OsListExact'
    BY <1>1, <1>9, <2>1, <2>2 DEF MemInv, OsListExact, Kinds
  <2>4. OsCountExact'
    <3>1. oslist[t] \ recycled' = (oslist[t] \ recycled) \ {p}
      BY <2>1
    <3>2. Cardinality(oslist[t] \ recycled') = Cardinality(oslist[t] \ recycled) - 1
      BY <1>1, <2>2, <3>1, OsListFinite, FS_RemoveElement
    <3>3. \A u \in Owners : u # t => oslist[u] \ recycled' = oslist[u] \ recycled
      BY <1>1, <2>1 DEF MemInv, OsListExact
    <3> QED BY <1>1, <2>1, <3>2, <3>3 DEF MemInv, OsCountExact, Kinds
  <2> QED BY <2>3, <2>4, <1>2, <1>4, <1>5, <1>6, <1>7
          DEF MemInv, EndedOwnsNothing, GetFromList, Owned, Kinds, Owners
<1>10. CASE used[p] # 0
  <2>1. /\ used' = [used EXCEPT ![p] = @ + 1]
        /\ UNCHANGED <<freelists, oslist, recycled, oscount>>
    BY <1>10 DEF GetFromList
  <2>2. OsListExact'
    BY <1>1, <1>8, <1>10, <2>1 DEF MemInv, OsListExact, Kinds
  <2>3. OsCountExact'
    BY <2>1 DEF MemInv, OsCountExact
  <2> QED BY <2>2, <2>3, <1>2, <1>4, <1>5, <1>6, <1>7
          DEF MemInv, EndedOwnsNothing, GetFromList, Owned, Kinds, Owners
<1> QED BY <1>9, <1>10

LEMMA MemReuseOwn ==
  ASSUME Kinds, PcData, MemInv, NEW t \in Threads, NEW poc \in OsChunks,
         NEW b \in Chunks, NEW dropped, ReuseOwn(t, poc, b, dropped)
  PROVE  MemInv'
<1> USE ThreadsAssumption, NilAssumption
<1>1. t \in Owners /\ t # Nil /\ freelists[poc] = t /\ BusyIn(poc) = {} /\ used[poc] = 0
  <2>1. freelists[poc] = t /\ t \in Owners /\ t # Nil
    BY DEF ReuseOwn, MemInv, OsListExact, Owners
  <2>2. used[poc] = 0
    BY <2>1 DEF ReuseOwn, MemInv, OsListExact
  <2> QED BY <2>1, <2>2, BusyFinite DEF MemInv
<1>2. FormatAndTake(t, poc, b) /\ UNCHANGED <<freelists, held, waitfixed>>
  BY DEF ReuseOwn
<1>3. freelists' = [freelists EXCEPT ![poc] = t]
  BY <1>1, <1>2 DEF Kinds
<1>4. ASSUME NEW o \in Owners, NEW x
      PROVE  x \in fixedlists'[o] <=>
               \/ x \in fixedlists[o] /\ x.oc # poc
               \/ o = t /\ x \in ChunksOf(poc, req[t]) \ {b}
  BY <1>1 DEF ReuseOwn, Unlisted, ChunksOf, MemInv, ChunkPlaces, Kinds
<1>5. /\ OutstandingMapped' /\ WaitsWithOwner' /\ ChunkPlaces'
      /\ OneHolder' /\ UsedCount'
  BY <1>1, <1>2, <1>3, <1>4, FormatInv
<1>6. used' = [used EXCEPT ![poc] = 1]
  BY <1>2 DEF FormatAndTake
<1>7. OsListExact'
  BY <1>1, <1>6 DEF ReuseOwn, MemInv, OsListExact, Kinds
<1>8. OsCountExact'
  <2>1. oslist'[t] \ recycled' = (oslist[t] \ recycled) \ {poc}
    <3>1. oslist'[t] = oslist[t] \ (dropped \cup {poc}) /\ recycled' = recycled \ dropped
      BY <1>1 DEF ReuseOwn, Kinds
    <3>2. dropped \subseteq recycled
      BY DEF ReuseOwn
    <3>3. \A x : x \in oslist'[t] \ recycled' <=> x \in (oslist[t] \ recycled) \ {poc}
      BY <3>1, <3>2
    <3> QED BY <3>3
  <2>2. Cardinality(oslist'[t] \ recycled') = Cardinality(oslist[t] \ recycled) - 1
    <3>1. poc \in oslist[t] \ recycled /\ IsFiniteSet(oslist[t] \ recycled)
      BY <1>1, OsListFinite DEF ReuseOwn
    <3> QED BY <2>1, <3>1, FS_RemoveElement
  <2>3. \A u \in Owners : u # t => oslist'[u] \ recycled' = oslist[u] \ recycled
    BY <1>1 DEF ReuseOwn, Kinds, MemInv, OsListExact
  <2> QED BY <1>1, <2>2, <2>3 DEF ReuseOwn, MemInv, OsCountExact, Kinds
<1>9. EndedOwnsNothing'
  BY <1>1 DEF ReuseOwn, FormatAndTake, MemInv, EndedOwnsNothing, Owned, Kinds, Owners
<1> QED BY <1>5, <1>7, <1>8, <1>9 DEF MemInv

LEMMA MemAdopt ==
  ASSUME Kinds, PcData, MemInv, NEW t \in Threads, NEW poc \in OsChunks,
         NEW b \in Chunks, Adopt(t, poc, b)
  PROVE  MemInv'
<1> USE ThreadsAssumption, NilAssumption
<1>1. /\ t \in Owners /\ Orphaned \in Owners /\ t # Orphaned /\ t # Nil /\ Orphaned # Nil
      /\ freelists[poc] = Orphaned /\ used[poc] = 0 /\ BusyIn(poc) = {}
  <2>1. freelists[poc] = Orphaned /\ t \in Owners /\ Orphaned \in Owners
    BY DEF Adopt, MemInv, OsListExact, Owners
  <2>2. used[poc] = 0
    BY <2>1 DEF Adopt, MemInv, OsListExact
  <2> QED BY <2>1, <2>2, BusyFinite DEF MemInv
<1>2. /\ FormatAndTake(t, poc, b) /\ UNCHANGED <<held, waitfixed>>
      /\ freelists' = [freelists EXCEPT ![poc] = t]
  BY DEF Adopt
<1>3. ASSUME NEW o \in Owners, NEW x
      PROVE  x \in fixedlists'[o] <=>
               \/ x \in fixedlists[o] /\ x.oc # poc
               \/ o = t /\ x \in ChunksOf(poc, req[t]) \ {b}
  <2>1. fixedlists' = [fixedlists EXCEPT
                         ![Orphaned] = fixedlists[Orphaned] \ ChunksOf(poc, chunkindex[poc]),
                         ![t] = fixedlists[t] \cup (ChunksOf(poc, req[t]) \ {b})]
    BY <1>1 DEF Adopt, Unlisted, Kinds
  <2>2. \A u \in Owners : x \in fixedlists[u] =>
           x \in Chunks /\ freelists[x.oc] = u /\ chunkindex[x.oc] = x.ix
    BY DEF MemInv, ChunkPlaces, Kinds
  <2>3. CASE o = Orphaned
    BY <1>1, <2>1, <2>2, <2>3 DEF ChunksOf, Kinds
  <2>4. CASE o # Orphaned
    BY <1>1, <2>1, <2>2, <2>4 DEF Kinds
  <2> QED BY <2>3, <2>4
<1>4. /\ OutstandingMapped' /\ WaitsWithOwner' /\ ChunkPlaces'
      /\ OneHolder' /\ UsedCount'
  BY <1>1, <1>2, <1>3, FormatInv
<1>5. used' = [used EXCEPT ![poc] = 1]
  BY <1>2 DEF FormatAndTake
<1>6. poc \notin recycled /\ \A u \in Owners : u # Orphaned => poc \notin oslist[u]
  BY <1>1 DEF Adopt, MemInv, OsListExact
<1>7. OsListExact'
  BY <1>1, <1>5, <1>6 DEF Adopt, MemInv, OsListExact, Kinds
<1>8. OsCountExact'
  <2>1. oslist'[Orphaned] \ recycled' = (oslist[Orphaned] \ recycled) \ {poc}
    BY <1>1 DEF Adopt, Kinds
  <2>2. Cardinality(oslist'[Orphaned] \ recycled')
          = Cardinality(oslist[Orphaned] \ recycled) - 1
    BY <1>1, <2>1, OsListFinite, FS_RemoveElement DEF Adopt
  <2>3. \A u \in Owners : u # Orphaned => oslist'[u] \ recycled' = oslist[u] \ recycled
    BY <1>1 DEF Adopt, Kinds
  <2> QED BY <1>1, <2>2, <2>3 DEF Adopt, MemInv, OsCountExact, Kinds
<1>9. EndedOwnsNothing'
  BY <1>1 DEF Adopt, FormatAndTake, MemInv, EndedOwnsNothing, Owned, Kinds, Owners
<1> QED BY <1>4, <1>7, <1>8, <1>9 DEF MemInv

LEMMA MemAllocFromOS ==
  ASSUME Kinds, PcData, MemInv, NEW t \in Threads, NEW poc \in OsChunks,
         NEW b \in Chunks, AllocFromOS(t, poc, b)
  PROVE  MemInv'
<1> USE ThreadsAssumption, NilAssumption
<1>1. t \in Owners /\ t # Nil /\ freelists[poc] = Nil /\ BusyIn(poc) = {} /\ Nil \notin Owners
  BY BusyFinite DEF AllocFromOS, MemInv, Owners
<1>2. /\ FormatAndTake(t, poc, b) /\ UNCHANGED <<held, waitfixed>>
      /\ freelists' = [freelists EXCEPT ![poc] = t]
  BY DEF AllocFromOS
<1>3. ASSUME NEW o \in Owners, NEW x
      PROVE  x \in fixedlists'[o] <=>
               \/ x \in fixedlists[o] /\ x.oc # poc
               \/ o = t /\ x \in ChunksOf(poc, req[t]) \ {b}
  BY <1>1 DEF AllocFromOS, MemInv, ChunkPlaces, Kinds
<1>4. /\ OutstandingMapped' /\ WaitsWithOwner' /\ ChunkPlaces'
      /\ OneHolder' /\ UsedCount'
  BY <1>1, <1>2, <1>3, FormatInv
<1>5. used' = [used EXCEPT ![poc] = 1]
  BY <1>2 DEF FormatAndTake
<1>6. poc \notin recycled /\ \A u \in Owners : poc \notin oslist[u]
  BY <1>1 DEF MemInv, OsListExact
<1>7. OsListExact'
  BY <1>1, <1>5, <1>6 DEF AllocFromOS, MemInv, OsListExact, Kinds
<1>8. OsCountExact'
  BY DEF AllocFromOS, MemInv, OsCountExact
<1>9. EndedOwnsNothing'
  BY <1>1 DEF AllocFromOS, FormatAndTake, MemInv, EndedOwnsNothing, Owned, Kinds, Owners
<1> QED BY <1>4, <1>7, <1>8, <1>9 DEF MemInv

\* find_free_oschunk passes the whole list of t and finds nothing.
LEMMA MemLookAtOrphans ==
  ASSUME Kinds, PcData, MemInv, NEW t \in Threads, LookAtOrphans(t)
  PROVE  MemInv'
<1> USE ThreadsAssumption, NilAssumption
<1>1. UNCHANGED <<freelists, chunkindex, used, oscount, fixedlists, waitfixed, live, held>>
  BY DEF LookAtOrphans
<1>2. /\ OutstandingMapped' /\ WaitsWithOwner' /\ ChunkPlaces'
      /\ OneHolder' /\ UsedCount'
  BY <1>1 DEF MemInv, OutstandingMapped, WaitsWithOwner, ChunkPlaces, OneHolder,
              UsedCount, BusyIn, Outstanding, InFlight, Waiting
<1>3. t \in Owners
  BY DEF Owners
<1>4. \A u \in Owners : oslist'[u] \ recycled' = oslist[u] \ recycled
  BY <1>3 DEF LookAtOrphans, Kinds, MemInv, OsListExact
<1>5. OsListExact'
  BY <1>1, <1>3, <1>4 DEF LookAtOrphans, MemInv, OsListExact, Kinds
<1>6. OsCountExact'
  BY <1>1, <1>4 DEF MemInv, OsCountExact
<1>7. EndedOwnsNothing'
  BY <1>1, <1>3 DEF LookAtOrphans, MemInv, EndedOwnsNothing, Owned, Kinds, Owners
<1> QED BY <1>2, <1>5, <1>6, <1>7 DEF MemInv

LEMMA MemGet ==
  ASSUME Kinds, PcData, MemInv, NEW t \in Threads, Get(t)
  PROVE  MemInv'
<1>1. CASE \E c \in ChunkIndex : GetMem(t, c)
  BY <1>1, QuietInv DEF GetMem, Kinds
<1>2. CASE GetMiss(t)
  BY <1>2, QuietInv DEF GetMiss, Kinds
<1>3. CASE NothingToAdopt(t)
  BY <1>3, QuietInv DEF NothingToAdopt, Kinds
<1>4. CASE AllocFails(t)
  BY <1>4, QuietInv DEF AllocFails, Kinds
<1> QED BY <1>1, <1>2, <1>3, <1>4, MemGetFromList, MemReuseOwn, MemAdopt,
           MemAllocFromOS, MemLookAtOrphans DEF Get

\* SysFreeMem_Fixed, and what becomes of a block freed by the wrong thread.
LEMMA MemFreeOwn ==
  ASSUME Kinds, PcData, MemInv, NEW t \in Threads, NEW b \in Chunks, FreeOwn(t, b)
  PROVE  MemInv'
<1> USE ThreadsAssumption, NilAssumption
<1>1. t \in Owners /\ b \in Outstanding /\ FreeChunk(t, b) /\ freelists[b.oc] = t
      /\ live' = live \ {b} /\ UNCHANGED <<held, waitfixed, pc>>
  BY OutstandingIs DEF FreeOwn, Owners
<1>2. Outstanding' = Outstanding \ {b} /\ OneHolder'
  BY <1>1 DEF FreeOwn, MemInv, OneHolder, Outstanding, InFlight, Waiting
<1>3. /\ OutstandingMapped' /\ ChunkPlaces' /\ UsedCount'
      /\ OsListExact' /\ OsCountExact'
      /\ \A poc \in OsChunks : freelists'[poc] # freelists[poc] =>
            freelists'[poc] = Nil /\ freelists[poc] = t /\ BusyIn(poc)' = {}
  BY <1>1, <1>2, FreeChunkInv
<1>4. WaitsWithOwner'
  <2>1. \A o \in Owners : \A x \in waitfixed[o] : x \in Outstanding'
    BY <1>1, OutstandingIs, <1>2 DEF OneHolder, Waiting, MemInv, FreeOwn
  <2> QED BY <1>1, <1>3, <2>1, ChunkFields DEF BusyIn, MemInv, WaitsWithOwner, Kinds
<1>5. EndedOwnsNothing'
  BY <1>1, <1>3 DEF MemInv, EndedOwnsNothing, Owned, Kinds, FreeOwn, Owners,
     FreeChunk, Unrecycle, KeepOnList, ReleaseToOS
<1> QED BY <1>2, <1>3, <1>4, <1>5 DEF MemInv

\* A block is put on its way to its owner, by a running thread or a starting one.
LEMMA MemFreeOther ==
  ASSUME Kinds, PcData, MemInv, NEW t \in Threads, NEW b \in Chunks,
         FreeOther(t, b) \/ StartThread(t, b)
  PROVE  MemInv'
<1>1. /\ held[t] = Nil /\ b # Nil /\ b \in live /\ live' = live \ {b}
      /\ held' = [held EXCEPT ![t] = b] /\ UNCHANGED <<osvars, waitfixed>>
  BY NilChunkAssumption DEF FreeOther, StartThread, PcData
<1>2. InFlight' = InFlight \cup {b}
  <2>1. \A x : x \in InFlight' => x \in InFlight \cup {b}
    BY <1>1 DEF InFlight, Kinds
  <2>2. \A u \in Threads : u # t => held'[u] = held[u]
    BY <1>1 DEF Kinds
  <2>3. \A x : x \in InFlight => x \in InFlight'
    BY <1>1, <2>2 DEF InFlight
  <2>4. b \in InFlight'
    BY <1>1 DEF InFlight, Kinds
  <2> QED BY <2>1, <2>3, <2>4
<1>3. Outstanding' = Outstanding
  BY <1>1, <1>2 DEF Outstanding, Waiting
<1>4. OneHolder'
  <2>1. \A u \in Threads : held[u] # b
    BY <1>1 DEF MemInv, OneHolder, InFlight
  <2>2. \A u, v \in Threads : held'[u] = held'[v] /\ held'[u] # Nil => u = v
    BY <1>1, <2>1 DEF MemInv, OneHolder, Kinds
  <2> QED BY <1>1, <1>2, <2>2 DEF MemInv, OneHolder, Waiting
<1> QED BY <1>1, <1>3, <1>4 DEF MemInv, osvars, OutstandingMapped, WaitsWithOwner,
       ChunkPlaces, UsedCount, BusyIn, OsListExact, OsCountExact, EndedOwnsNothing,
       Owned, FreeOther, StartThread, Kinds

LEMMA MemWaitFree ==
  ASSUME Kinds, PcData, MemInv, NEW t \in Threads, WaitFree(t)
  PROVE  MemInv'
<1> DEFINE b == held[t]
           o == freelists[b.oc]
<1>1. /\ b # Nil /\ b \in Chunks /\ b \in InFlight /\ b \in Outstanding
      /\ o \in Owners
      /\ waitfixed' = [waitfixed EXCEPT ![o] = @ \cup {b}]
      /\ held' = [held EXCEPT ![t] = Nil] /\ UNCHANGED <<osvars, live>>
  <2>1. b # Nil /\ b \in Chunks /\ b \in InFlight /\ b \in Outstanding
    BY DEF WaitFree, PcData, Kinds, InFlight, Outstanding
  <2>2. o \in Owners
    BY <2>1, ChunkFields DEF MemInv, OutstandingMapped, Kinds
  <2> QED BY <2>1, <2>2 DEF WaitFree
<1>2. InFlight' = InFlight \ {b}
  <2>1. \A u \in Threads : held[u] = b => u = t
    BY <1>1 DEF MemInv, OneHolder
  <2> QED BY <1>1, <2>1 DEF InFlight, Kinds
<1>3. Waiting' = Waiting \cup {b}
  BY <1>1 DEF Waiting, Kinds
<1>4. Outstanding' = Outstanding
  BY <1>1, <1>2, <1>3 DEF Outstanding
<1>5. OneHolder'
  BY <1>1, <1>2, <1>3 DEF MemInv, OneHolder, Kinds
<1>6. WaitsWithOwner'
  BY <1>1 DEF MemInv, WaitsWithOwner, Kinds, osvars
<1>7. EndedOwnsNothing'
  <2>1. o \in Threads => pc[o] \notin Uncounted
    BY <1>1, ChunkFields DEF MemInv, EndedOwnsNothing, Owned
  <2> QED BY <1>1, <2>1 DEF MemInv, EndedOwnsNothing, Owned, Kinds, osvars, WaitFree, Owners
<1> QED BY <1>1, <1>4, <1>5, <1>6, <1>7 DEF MemInv, osvars, OutstandingMapped,
       ChunkPlaces, UsedCount, BusyIn, OsListExact, OsCountExact

LEMMA MemDrainOne ==
  ASSUME Kinds, PcData, MemInv, NEW t \in Threads, NEW b \in Chunks, DrainOne(t, b)
  PROVE  MemInv'
<1> DEFINE o == DrainedOwner(t)
<1> USE ThreadsAssumption, NilAssumption
<1>1. /\ o \in Owners /\ b \in waitfixed[o] /\ b \in Outstanding /\ freelists[b.oc] = o
      /\ FreeChunk(o, b) /\ waitfixed' = [waitfixed EXCEPT ![o] = @ \ {b}]
      /\ UNCHANGED <<live, held, pc>>
  <2>1. o \in Owners
    BY DEF DrainedOwner, Owners
  <2> QED BY <2>1, OutstandingIs DEF DrainOne, MemInv, WaitsWithOwner
<1>2. Waiting' = Waiting \ {b}
  <2>1. \A u \in Owners : u # o => b \notin waitfixed[u]
    BY <1>1 DEF MemInv, WaitsWithOwner
  <2> QED BY <1>1, <2>1 DEF Waiting, Kinds
<1>3. Outstanding' = Outstanding \ {b} /\ OneHolder'
  <2>1. b \in Waiting
    BY <1>1 DEF Waiting
  <2> QED BY <1>1, <1>2, <2>1 DEF MemInv, OneHolder, Outstanding, InFlight
<1>4. /\ OutstandingMapped' /\ ChunkPlaces' /\ UsedCount'
      /\ OsListExact' /\ OsCountExact'
      /\ \A poc \in OsChunks : freelists'[poc] # freelists[poc] =>
            freelists'[poc] = Nil /\ freelists[poc] = o /\ BusyIn(poc)' = {}
  BY <1>1, <1>3, FreeChunkInv
<1>5. WaitsWithOwner'
  <2>1. \A u \in Owners : \A x \in waitfixed'[u] : x \in waitfixed[u] /\ x \in Outstanding'
    BY <1>1, <1>2 DEF Outstanding, Waiting, Kinds
  <2> QED BY <1>1, <1>4, <2>1, ChunkFields DEF BusyIn, MemInv, WaitsWithOwner, Kinds
<1>6. EndedOwnsNothing'
  BY <1>1, <1>4 DEF MemInv, EndedOwnsNothing, Owned, Kinds, DrainOne, DrainedOwner,
     Owners, FreeChunk, Unrecycle, KeepOnList, ReleaseToOS, Draining
<1> QED BY <1>3, <1>4, <1>5, <1>6 DEF MemInv

LEMMA MemThread ==
  ASSUME Kinds, PcData, MemInv, NEW t \in Threads, Thread(t)
  PROVE  MemInv'
<1> USE ThreadsAssumption, NilAssumption
<1>1. CASE \E b \in Chunks : StartThread(t, b)
  BY <1>1, MemFreeOther
<1>2. CASE FinalizeEnter(t)
  BY <1>2, QuietInv DEF FinalizeEnter, Kinds
<1>3. CASE InitHeapThread(t)
  <2>1. /\ fixedlists[t] = {} /\ waitfixed[t] = {} /\ oslist[t] = {} /\ t \in Owners
        /\ Owned(t) = {}
    BY <1>3 DEF InitHeapThread, MemInv, EndedOwnsNothing, Owners
  <2>2. /\ fixedlists' = fixedlists /\ waitfixed' = waitfixed /\ oslist' = oslist
    BY <1>3, <2>1 DEF InitHeapThread, Kinds
  <2>3. oscount' = oscount
    <3>1. oscount[t] = 0
      BY <2>1, FS_EmptySet DEF MemInv, OsCountExact
    <3> QED BY <1>3, <3>1 DEF InitHeapThread, Kinds
  <2> QED BY <1>3, <2>2, <2>3, QuietInv DEF InitHeapThread, Kinds, osvars
<1>4. CASE FinalizeHeap(t)
  <2> DEFINE freed == oslist[t] \ recycled
             unlist == UNION {ChunksOf(poc, chunkindex[poc]) : poc \in freed}
  <2>1. /\ t \in Owners /\ Orphaned \in Owners /\ t # Orphaned
        /\ t # Nil /\ Orphaned # Nil
    BY DEF Owners
  <2>2. \A poc \in freed : /\ poc \in OsChunks /\ freelists[poc] = t
                           /\ used[poc] = 0 /\ BusyIn(poc) = {}
    BY <2>1, BusyFinite DEF MemInv, OsListExact, Kinds
  <2>3. \A poc \in OsChunks :
          /\ freelists'[poc] = IF poc \in freed THEN Nil
                               ELSE IF freelists[poc] = t THEN Orphaned
                               ELSE freelists[poc]
          /\ chunkindex'[poc] = IF poc \in freed THEN Nil ELSE chunkindex[poc]
    BY <1>4 DEF FinalizeHeap, Owned
  <2>4. \A x \in Chunks : x \in unlist <=> x.oc \in freed /\ x.ix = chunkindex[x.oc]
    BY DEF ChunksOf
  <2>5. /\ fixedlists'[t] = {}
        /\ fixedlists'[Orphaned] = fixedlists[Orphaned] \cup (fixedlists[t] \ unlist)
        /\ \A o \in Owners : o \notin {t, Orphaned} => fixedlists'[o] = fixedlists[o]
    BY <1>4, <2>1 DEF FinalizeHeap, Kinds
  <2>6. UNCHANGED <<used, waitfixed, live, held>> /\ waitfixed[t] = {}
    BY <1>4 DEF FinalizeHeap
  <2>7. Outstanding' = Outstanding /\ OneHolder' /\ UsedCount' /\ Outstanding \subseteq Chunks
    BY <2>6, OutstandingIs DEF MemInv, OneHolder, UsedCount, BusyIn, Outstanding,
       InFlight, Waiting
  <2>8. \A x \in Outstanding : x.oc \in OsChunks /\ x.oc \notin freed
    BY <2>2, <2>7, ChunkFields DEF BusyIn
  <2>9. OutstandingMapped'
    BY <2>1, <2>3, <2>7, <2>8 DEF MemInv, OutstandingMapped
  <2>10. WaitsWithOwner'
    <3>1. \A o \in Owners : \A x \in waitfixed[o] : x \in Outstanding /\ o # t
      BY <2>6, OutstandingIs
    <3> QED BY <2>3, <2>6, <2>8, <3>1 DEF MemInv, WaitsWithOwner
  <2>11. ChunkPlaces'
    <3>1. ASSUME NEW o \in Owners, NEW x \in fixedlists'[o]
          PROVE  freelists'[x.oc] = o /\ chunkindex'[x.oc] = x.ix /\ x \notin Outstanding'
      <4>1. PICK u \in Owners : /\ x \in fixedlists[u] /\ x \in Chunks
                                /\ IF u = t THEN o = Orphaned /\ x \notin unlist ELSE o = u
        BY <2>1, <2>5, <3>1 DEF Kinds
      <4>2. /\ freelists[x.oc] = u /\ chunkindex[x.oc] = x.ix /\ x \notin Outstanding
            /\ x.oc \in OsChunks
        BY <4>1, ChunkFields DEF MemInv, ChunkPlaces
      <4>3. x.oc \notin freed
        BY <2>2, <2>4, <4>1, <4>2
      <4> QED BY <2>3, <2>7, <4>1, <4>2, <4>3
    <3>2. ASSUME NEW q \in OsChunks, freelists'[q] # Nil
          PROVE  ChunksOf(q, chunkindex'[q])
                   \subseteq fixedlists'[freelists'[q]] \cup Outstanding'
      <4>1. /\ q \notin freed /\ freelists[q] \in Owners /\ chunkindex'[q] = chunkindex[q]
            /\ freelists'[q] = IF freelists[q] = t THEN Orphaned ELSE freelists[q]
        BY <2>3, <3>2 DEF Kinds
      <4>2. ChunksOf(q, chunkindex[q]) \subseteq fixedlists[freelists[q]] \cup Outstanding
        BY <2>1, <4>1 DEF MemInv, ChunkPlaces, Owners
      <4>3. \A x \in ChunksOf(q, chunkindex[q]) : x \notin unlist
        BY <2>4, <4>1 DEF ChunksOf
      <4>4. CASE freelists[q] = t
        BY <2>5, <2>7, <4>1, <4>2, <4>3, <4>4
      <4>5. CASE freelists[q] = Orphaned
        BY <2>1, <2>5, <2>7, <4>1, <4>2, <4>5
      <4>6. CASE freelists[q] \notin {t, Orphaned}
        BY <2>5, <2>7, <4>1, <4>2, <4>6
      <4> QED BY <4>4, <4>5, <4>6
    <3> QED BY <3>1, <3>2 DEF ChunkPlaces
  <2>12. /\ oslist' = [oslist EXCEPT ![t] = {}] /\ recycled' = recycled \ oslist[t]
         /\ oscount' = [oscount EXCEPT ![t] = 0]
    BY <1>4 DEF FinalizeHeap
  <2>13. \A o \in Owners : \A poc \in oslist'[o] : o # t /\ poc \in oslist[o] /\ poc \notin oslist[t]
    BY <2>1, <2>12 DEF MemInv, OsListExact, Kinds
  <2>14. OsListExact'
    <3>1. \A o \in Owners : \A poc \in oslist'[o] : freelists'[poc] = o
      BY <2>1, <2>3, <2>13 DEF MemInv, OsListExact, Kinds
    <3>2. ASSUME NEW poc \in OsChunks, freelists'[poc] # Nil
          PROVE  used'[poc] = 0 <=> poc \in oslist'[freelists'[poc]] \ recycled'
      <4>1. poc \notin freed /\ freelists[poc] \in Owners
        BY <2>3, <3>2 DEF Kinds
      <4>2. used[poc] = 0 <=> poc \in oslist[freelists[poc]] \ recycled
        BY <2>1, <4>1 DEF MemInv, OsListExact, Owners
      <4>3. CASE freelists[poc] = t
        <5>1. used[poc] # 0 /\ freelists'[poc] = Orphaned
          BY <2>3, <4>1, <4>2, <4>3
        <5>2. poc \notin oslist'[Orphaned]
          BY <2>1, <2>13, <4>3 DEF MemInv, OsListExact
        <5> QED BY <2>6, <5>1, <5>2
      <4>4. CASE freelists[poc] # t
        <5>1. freelists'[poc] = freelists[poc]
          BY <2>3, <4>1, <4>4
        <5>2. poc \notin oslist[t] /\ oslist'[freelists[poc]] = oslist[freelists[poc]]
          BY <2>1, <2>12, <4>1, <4>4 DEF MemInv, OsListExact, Kinds
        <5> QED BY <2>6, <2>12, <4>2, <5>1, <5>2
      <4> QED BY <4>3, <4>4
    <3>3. ASSUME NEW poc \in recycled'
          PROVE  freelists'[poc] # Nil /\ poc \in oslist'[freelists'[poc]]
      <4>1. /\ poc \in recycled /\ poc \notin oslist[t] /\ poc \in OsChunks
            /\ freelists[poc] # Nil /\ poc \in oslist[freelists[poc]]
            /\ freelists[poc] \in Owners
        BY <2>12, <3>3 DEF MemInv, OsListExact, Kinds
      <4>2. freelists[poc] # t /\ freelists'[poc] = freelists[poc]
        BY <2>3, <4>1
      <4> QED BY <2>12, <4>1, <4>2 DEF Kinds
    <3> QED BY <3>1, <3>2, <3>3 DEF OsListExact
  <2>15. OsCountExact'
    <3>1. \A o \in Owners : o # t => oslist'[o] \ recycled' = oslist[o] \ recycled
      BY <2>1, <2>12 DEF MemInv, OsListExact, Kinds
    <3>2. oslist'[t] \ recycled' = {}
      BY <2>1, <2>12 DEF Kinds
    <3> QED BY <2>1, <2>12, <3>1, <3>2, FS_EmptySet DEF MemInv, OsCountExact, Kinds
  <2>16. EndedOwnsNothing'
    <3>1. Owned(t)' = {}
      BY <2>1, <2>3 DEF Owned
    <3>2. \A u \in Threads : u # t => Owned(u)' = Owned(u) \/ Owned(u)' \subseteq Owned(u)
      BY <2>1, <2>3 DEF Owned
    <3> QED BY <1>4, <2>1, <2>5, <2>6, <2>12, <3>1, <3>2
            DEF MemInv, EndedOwnsNothing, FinalizeHeap, Kinds, Owners
  <2> QED BY <2>7, <2>9, <2>10, <2>11, <2>14, <2>15, <2>16 DEF MemInv
<1>5. CASE LookAtLockUse(t)
  BY <1>5, QuietInv DEF LookAtLockUse, Kinds
<1>6. CASE DoneCriticalSection(t)
  BY <1>6, QuietInv DEF DoneCriticalSection, Kinds
<1> QED BY <1>1, <1>2, <1>3, <1>4, <1>5, <1>6 DEF Thread

IInv == Kinds /\ PcData /\ MemInv

LEMMA IInvInit == Init => IInv
<1> SUFFICES ASSUME Init PROVE MemInv
  BY KindsInit DEF IInv
<1> USE NilAssumption
<1>1. InFlight = {} /\ Waiting = {} /\ Outstanding = {}
  BY DEF Init, InFlight, Waiting, Outstanding
<1>2. OneHolder
  BY <1>1 DEF Init, OneHolder
<1>3. \A poc \in OsChunks : BusyIn(poc) = {}
  BY <1>1 DEF BusyIn
<1> QED BY <1>1, <1>2, <1>3, FS_EmptySet
        DEF Init, MemInv, OutstandingMapped, WaitsWithOwner, ChunkPlaces, UsedCount,
            OsListExact, OsCountExact, EndedOwnsNothing, Owned, Owners

LEMMA IInvNext == IInv /\ [Next]_vars => IInv'
<1> SUFFICES ASSUME IInv, [Next]_vars PROVE MemInv'
  BY KindsNext DEF IInv
<1>1. ASSUME NEW t \in Threads, Get(t) \/ Free(t) \/ Drain(t) \/ Thread(t)
      PROVE  MemInv'
  <2>1. CASE Get(t)
    BY <2>1, MemGet DEF IInv
  <2>2. CASE Free(t)
    BY <2>2, MemFreeOwn, MemFreeOther, MemWaitFree DEF Free, IInv
  <2>3. CASE Drain(t)
    <3>1. CASE EnterLock(t)
      BY <3>1, QuietInv DEF EnterLock, IInv, Kinds
    <3>2. CASE DrainEnd(t)
      BY <3>2, QuietInv DEF DrainEnd, IInv, Kinds
    <3> QED BY <2>3, <3>1, <3>2, MemDrainOne DEF Drain, IInv
  <2>4. CASE Thread(t)
    BY <2>4, MemThread DEF IInv
  <2> QED BY <1>1, <2>1, <2>2, <2>3, <2>4
<1>2. CASE UNCHANGED vars
  BY <1>2, QuietInv DEF vars, IInv
<1> QED BY <1>1, <1>2 DEF Next, Ended

\* Every reachable state of the heap manager satisfies the invariant, whatever
\* the number of threads, os chunks, size classes and kept os chunks.
THEOREM Invariance == Spec => []IInv
<1>1. Init => IInv
  BY IInvInit
<1>2. IInv /\ [Next]_vars => IInv'
  BY IInvNext
<1> QED BY <1>1, <1>2, PTL DEF Spec

\* SysFreeMem_Fixed and alloc_oschunk keep poc^.used equal to the number of
\* chunks that are not on a free list, across threads.
THEOREM UsedIsExact == Spec => []UsedCount
BY Invariance, PTL DEF IInv, MemInv

\* A block in use or on its way to its owner stays in a mapped os chunk of its
\* class, whatever other threads free, end or adopt.
THEOREM NothingPulledAway == Spec => []OutstandingMapped
BY Invariance, PTL DEF IInv, MemInv

\* A block freed by another thread waits with the tfreelists that owns its os
\* chunk; a finished thread's lists are empty and it owns no os chunk.
THEOREM NoBlockLost == Spec => [](WaitsWithOwner /\ EndedOwnsNothing)
BY Invariance, PTL DEF IInv, MemInv

\* Every chunk of a mapped os chunk is on the free list of its owner, with the
\* program, on its way back or waiting, and in one of these places only.
THEOREM NothingTwice == Spec => []InOnePlace
BY Invariance, PTL DEF IInv, MemInv, InOnePlace

\* oslist has exactly the free os chunks and oscount their number, in spite of the
\* recycle flags, whatever is dropped or adopted.
THEOREM RecyclingIsExact == Spec => []FreeOsChunksExact
BY Invariance, PTL DEF IInv, MemInv, FreeOsChunksExact

-----------------------------------------------------------------------------
(***************************************************************************)
(* heap_lock_use and the life of heap_lock.                                *)
(***************************************************************************)
LockInv ==
  /\ heap_lock_use = Cardinality(Registered)
  /\ LockEnds => Registered \subseteq late

LEMMA RegisteredFinite == IsFiniteSet(Registered)
BY ThreadsAssumption, FS_Subset DEF Registered

\* A step that counts no thread, in or out, and brings heap_lock no nearer its end.
LEMMA LockQuiet ==
  ASSUME IInv, LockInv, UNCHANGED <<heap_lock_use, lock_done, late>>,
         \A t \in Threads : /\ pc'[t] \in Uncounted <=> pc[t] \in Uncounted
                            /\ pc'[t] = "done" => pc[t] = "done"
  PROVE  LockInv'
<1>1. Registered' = Registered
  BY DEF Registered
<1> QED BY <1>1 DEF LockInv, LockEnds

LEMMA LockNext == IInv /\ LockInv /\ [Next]_vars => LockInv'
<1> SUFFICES ASSUME IInv, LockInv, [Next]_vars PROVE LockInv'
  OBVIOUS
<1> USE ThreadsAssumption
<1>1. ASSUME NEW t \in Threads, Get(t) PROVE LockInv'
  BY <1>1, LockQuiet DEF Get, GetMem, GetFromList, GetMiss, ReuseOwn, LookAtOrphans, Adopt,
     NothingToAdopt, AllocFromOS, AllocFails, FormatAndTake, IInv, Kinds, lockvars
<1>2. ASSUME NEW t \in Threads, Free(t) PROVE LockInv'
  BY <1>2, LockQuiet DEF Free, FreeOwn, FreeOther, WaitFree, IInv, Kinds, lockvars
<1>3. ASSUME NEW t \in Threads, Drain(t) PROVE LockInv'
  BY <1>3, LockQuiet DEF Drain, EnterLock, DrainOne, DrainEnd, IInv, Kinds, lockvars
<1>4. ASSUME NEW t \in Threads, NEW b \in Chunks, StartThread(t, b) PROVE LockInv'
  BY <1>4, LockQuiet DEF StartThread, IInv, Kinds, lockvars
<1>5. ASSUME NEW t \in Threads, InitHeapThread(t) PROVE LockInv'
  <2>1. Registered' = Registered \cup {t} /\ t \notin Registered
    BY <1>5 DEF InitHeapThread, Registered, IInv, Kinds
  <2>2. Cardinality(Registered') = Cardinality(Registered) + 1
    BY <2>1, RegisteredFinite, FS_AddElement
  <2>3. LockEnds' <=> LockEnds
    BY <1>5 DEF InitHeapThread, LockEnds, IInv, Kinds
  <2>4. LockEnds => late' = late \cup {t}
    BY <1>5 DEF InitHeapThread
  <2> QED BY <1>5, <2>1, <2>2, <2>3, <2>4 DEF InitHeapThread, LockInv
<1>6. ASSUME NEW t \in Threads, LookAtLockUse(t) \/ FinalizeEnter(t) PROVE LockInv'
  BY <1>6, LockQuiet DEF LookAtLockUse, FinalizeEnter, IInv, Kinds, lockvars
<1>7. ASSUME NEW t \in Threads, FinalizeHeap(t) PROVE LockInv'
  <2>1. Registered' = Registered \ {t} /\ t \in Registered
    BY <1>7 DEF FinalizeHeap, Registered, IInv, Kinds
  <2>2. Cardinality(Registered') = Cardinality(Registered) - 1
    BY <2>1, RegisteredFinite, FS_RemoveElement
  <2>3. heap_lock_use' = Cardinality(Registered') /\ late' = late
    BY <1>7, <2>2 DEF FinalizeHeap, LockInv
  <2>4. CASE heap_lock_use = 1
    <3>1. \E u : Registered = {u}
      BY <2>4, RegisteredFinite, FS_Singleton DEF LockInv
    <3>2. Registered' = {}
      BY <2>1, <3>1
    <3> QED BY <2>3, <3>2 DEF LockInv
  <2>5. CASE heap_lock_use # 1
    <3>1. LockEnds' <=> LockEnds
      BY <1>7, <2>5 DEF FinalizeHeap, LockEnds, IInv, Kinds
    <3> QED BY <2>1, <2>3, <3>1 DEF LockInv
  <2> QED BY <2>4, <2>5
<1>8. ASSUME NEW t \in Threads, DoneCriticalSection(t) PROVE LockInv'
  <2>1. Registered' = Registered
    BY <1>8 DEF DoneCriticalSection, Registered, IInv, Kinds
  <2>2. LockEnds
    BY <1>8 DEF DoneCriticalSection, LockEnds
  <2> QED BY <1>8, <2>1, <2>2 DEF DoneCriticalSection, LockInv
<1>9. CASE UNCHANGED vars
  BY <1>9, LockQuiet DEF vars, lockvars
<1> QED BY <1>1, <1>2, <1>3, <1>4, <1>5, <1>6, <1>7, <1>8, <1>9 DEF Next, Ended, Thread

\* heap_lock_use counts the running threads.
THEOREM LockInvariance == Spec => []LockInv
<1>1. Init => LockInv
  <2> SUFFICES ASSUME Init PROVE LockInv
    OBVIOUS
  <2>1. Registered = {Main}
    BY ThreadsAssumption DEF Init, Registered
  <2>2. heap_lock_use = Cardinality(Registered)
    BY <2>1, FS_Singleton DEF Init
  <2>3. ~LockEnds
    BY DEF Init, LockEnds
  <2> QED BY <2>2, <2>3 DEF LockInv
<1> QED BY <1>1, LockNext, Invariance, PTL DEF Spec

\* heap_lock has one holder, heap_lock_use is the number of running threads, and
\* the lock is destroyed under none of them but those that raced with the last
\* FinalizeHeap between InitHeapThread's look at heap_lock_use and the lock.
THEOREM LockSafe == Spec => []LockProtocol
<1>1. IInv /\ LockInv => LockProtocol
  BY DEF IInv, PcData, LockInv, LockProtocol
<1> QED BY <1>1, Invariance, LockInvariance, PTL

\* Every variable has values of its kind; no counter ever is negative.
THEOREM TypeCorrect == Spec => []TypeOK
<1>1. IInv => (heap_lock_use \in Nat => TypeOK)
  <2> SUFFICES ASSUME IInv, heap_lock_use \in Nat PROVE TypeOK
    OBVIOUS
  <2>1. used \in [OsChunks -> Nat]
    BY BusyFinite DEF IInv, MemInv, Kinds
  <2>2. oscount \in [Owners -> Nat]
    BY OsListFinite, FS_CardinalityType DEF IInv, MemInv, OsCountExact, Kinds
  <2> QED BY <2>1, <2>2 DEF IInv, Kinds, TypeOK
<1>2. LockInv => heap_lock_use \in Nat
  BY RegisteredFinite, FS_CardinalityType DEF LockInv
<1> QED BY <1>1, <1>2, Invariance, LockInvariance, PTL

-----------------------------------------------------------------------------
(***************************************************************************)
(* Who may release an os chunk.                                            *)
(***************************************************************************)

\* Freeing a chunk changes the owner of an os chunk only by releasing it.
LEMMA FreeOwnerStep ==
  ASSUME IInv, NEW t \in Threads, NEW b \in Chunks, FreeOwn(t, b) \/ DrainOne(t, b)
  PROVE  OwnerStep
<1>1. \E o \in Owners : b \in Outstanding /\ freelists[b.oc] = o /\ FreeChunk(o, b)
                        /\ Outstanding' = Outstanding \ {b}
  <2>1. CASE FreeOwn(t, b)
    <3>1. t \in Owners /\ b \in Outstanding /\ freelists[b.oc] = t /\ FreeChunk(t, b)
      BY <2>1, OutstandingIs DEF FreeOwn, Owners, IInv
    <3>2. Outstanding' = Outstanding \ {b}
      BY <2>1 DEF FreeOwn, IInv, MemInv, OneHolder, Outstanding, InFlight, Waiting
    <3> QED BY <3>1, <3>2
  <2>2. CASE DrainOne(t, b)
    <3> DEFINE o == DrainedOwner(t)
    <3>1. o \in Owners /\ b \in waitfixed[o] /\ b \in Outstanding /\ b \in Waiting
          /\ freelists[b.oc] = o /\ FreeChunk(o, b)
      BY <2>2, OutstandingIs, ThreadsAssumption
         DEF DrainOne, DrainedOwner, Owners, IInv, MemInv, WaitsWithOwner, Waiting
    <3>2. \A u \in Owners : u # o => b \notin waitfixed[u]
      BY <3>1 DEF IInv, MemInv, WaitsWithOwner
    <3>3. Waiting' = Waiting \ {b}
      BY <2>2, <3>1, <3>2 DEF DrainOne, Waiting, IInv, Kinds
    <3>4. Outstanding' = Outstanding \ {b}
      BY <2>2, <3>1, <3>3 DEF DrainOne, IInv, MemInv, OneHolder, Outstanding, InFlight
    <3> QED BY <3>1, <3>4
  <2> QED BY <2>1, <2>2
<1> QED BY <1>1, FreeChunkInv DEF OwnerStep, IInv

\* FinalizeHeap releases os chunks without outstanding chunks and orphans the
\* others, inside heap_lock.
LEMMA FinalizeOwnerStep ==
  ASSUME IInv, NEW t \in Threads, FinalizeHeap(t)
  PROVE  OwnerStep
<1>1. heap_lock # Nil
  BY NilAssumption DEF FinalizeHeap, IInv, PcData, Draining
<1>2. t \in Owners /\ t # Nil
  BY NilAssumption DEF Owners
<1>3. ASSUME NEW poc \in oslist[t] \ recycled PROVE BusyIn(poc)' = {}
  <2>1. poc \in OsChunks /\ freelists[poc] = t /\ used[poc] = 0
    BY <1>2 DEF IInv, MemInv, OsListExact, Kinds
  <2>2. BusyIn(poc) = {}
    BY <2>1, BusyFinite DEF IInv, MemInv
  <2> QED BY <2>2 DEF FinalizeHeap, BusyIn, Outstanding, InFlight, Waiting
<1> QED BY <1>1, <1>3 DEF FinalizeHeap, OwnerStep, Owned

\* An os chunk is released only without an outstanding chunk
\* in it, and goes from thread to thread only through orphaned_freelists,
\* inside heap_lock.
THEOREM OwnersChangeSafely == Spec => OwnerSteps
<1>1. IInv /\ [Next]_vars => OwnerStep
  <2> SUFFICES ASSUME IInv, [Next]_vars PROVE OwnerStep
    OBVIOUS
  <2>1. ASSUME UNCHANGED freelists PROVE OwnerStep
    BY <2>1 DEF OwnerStep
  <2>2. ASSUME NEW t \in Threads, Get(t) PROVE OwnerStep
    <3>1. ASSUME NEW poc \in OsChunks, NEW b \in Chunks, Adopt(t, poc, b)
          PROVE  OwnerStep
      <4>1. freelists[poc] = Orphaned /\ heap_lock # Nil
        BY <3>1, NilAssumption DEF Adopt, IInv, MemInv, OsListExact, Owners, PcData, Draining
      <4> QED BY <3>1, <4>1 DEF Adopt, OwnerStep, IInv, Kinds
    <3>2. ASSUME NEW poc \in OsChunks, NEW b \in Chunks, AllocFromOS(t, poc, b)
          PROVE  OwnerStep
      BY <3>2 DEF AllocFromOS, OwnerStep, IInv, Kinds
    <3> QED BY <2>1, <2>2, <3>1, <3>2 DEF Get, GetMem, GetFromList, GetMiss, ReuseOwn,
               LookAtOrphans, NothingToAdopt, AllocFails, osvars
  <2>3. ASSUME NEW t \in Threads, Free(t) PROVE OwnerStep
    BY <2>1, <2>3, FreeOwnerStep DEF Free, FreeOther, WaitFree, osvars
  <2>4. ASSUME NEW t \in Threads, Drain(t) PROVE OwnerStep
    BY <2>1, <2>4, FreeOwnerStep DEF Drain, EnterLock, DrainEnd, osvars
  <2>5. ASSUME NEW t \in Threads, Thread(t) PROVE OwnerStep
    BY <2>1, <2>5, FinalizeOwnerStep
       DEF Thread, StartThread, LookAtLockUse, InitHeapThread, FinalizeEnter,
           DoneCriticalSection, osvars
  <2> QED BY <2>1, <2>2, <2>3, <2>4, <2>5 DEF Next, Ended, vars, osvars
<1> QED BY <1>1, Invariance, PTL DEF OwnerSteps, Spec

-----------------------------------------------------------------------------
(***************************************************************************)
(* The manager implements Allocator.                                       *)
(***************************************************************************)

\* A chunk that overlaps no outstanding chunk may be handed out.
LEMMA GetImplements ==
  ASSUME IInv, NEW b \in Chunks, live' = live \cup {b},
         \A x \in live : x.oc = b.oc => x.ix = b.ix /\ x # b
  PROVE  A!Next
BY DEF A!Next, A!Get, IInv, Kinds

\* Every step is a Get, a Free or a stutter of Allocator: GetMem never returns
\* memory that overlaps a block in use by any thread.
THEOREM Implements == Spec => Refinement
<1>1. Init => A!Init
  BY DEF Init, A!Init
<1>2. IInv /\ [Next]_vars => [A!Next]_live
  <2> SUFFICES ASSUME IInv, [Next]_vars PROVE A!Next \/ UNCHANGED live
    OBVIOUS
  <2>1. ASSUME NEW t \in Threads, Get(t) PROVE A!Next \/ UNCHANGED live
    <3>1. ASSUME NEW b \in Chunks, GetFromList(t, b) PROVE A!Next
      <4>1. /\ chunkindex[b.oc] = b.ix /\ b \notin Outstanding /\ live' = live \cup {b}
        BY <3>1 DEF GetFromList, ListOf, IInv, MemInv, ChunkPlaces, Owners
      <4>2. \A x \in live : chunkindex[x.oc] = x.ix /\ x \in Outstanding
        BY DEF IInv, MemInv, OutstandingMapped, Outstanding
      <4> QED BY <4>1, <4>2, GetImplements
    <3>2. ASSUME NEW poc \in OsChunks, NEW b \in Chunks, FormatAndTake(t, poc, b),
                 BusyIn(poc) = {}
          PROVE  A!Next
      <4>1. b.oc = poc /\ live' = live \cup {b}
        BY <3>2 DEF FormatAndTake, ChunksOf
      <4>2. \A x \in live : x.oc # poc
        BY <3>2 DEF BusyIn, Outstanding
      <4> QED BY <4>1, <4>2, GetImplements
    <3>3. ASSUME NEW poc \in OsChunks, NEW b \in Chunks, NEW dropped,
                 \/ ReuseOwn(t, poc, b, dropped)
                 \/ Adopt(t, poc, b)
                 \/ AllocFromOS(t, poc, b)
          PROVE  A!Next
      <4>1. FormatAndTake(t, poc, b)
        BY <3>3 DEF ReuseOwn, Adopt, AllocFromOS
      <4>2. used[poc] = 0 \/ freelists[poc] = Nil
        BY <3>3, NilAssumption
           DEF ReuseOwn, Adopt, AllocFromOS, IInv, MemInv, OsListExact, Owners
      <4>3. BusyIn(poc) = {}
        BY <4>2, BusyFinite DEF IInv, MemInv
      <4> QED BY <3>2, <4>1, <4>3
    <3> QED BY <2>1, <3>1, <3>3 DEF Get, GetMem, GetMiss, LookAtOrphans,
               NothingToAdopt, AllocFails
  <2>2. ASSUME NEW t \in Threads, Free(t) PROVE A!Next \/ UNCHANGED live
    <3>1. ASSUME NEW b \in Chunks, FreeOwn(t, b) \/ FreeOther(t, b) PROVE A!Next
      BY <3>1 DEF FreeOwn, FreeOther, A!Next, A!Free
    <3> QED BY <2>2, <3>1 DEF Free, WaitFree
  <2>3. ASSUME NEW t \in Threads, Drain(t) PROVE UNCHANGED live
    BY <2>3 DEF Drain, EnterLock, DrainOne, DrainEnd
  <2>4. ASSUME NEW t \in Threads, Thread(t) PROVE A!Next \/ UNCHANGED live
    <3>1. ASSUME NEW b \in Chunks, StartThread(t, b) PROVE A!Next
      BY <3>1 DEF StartThread, A!Next, A!Free
    <3> QED BY <2>4, <3>1 DEF Thread, LookAtLockUse, InitHeapThread, FinalizeEnter,
               FinalizeHeap, DoneCriticalSection
  <2> QED BY <2>1, <2>2, <2>3, <2>4 DEF Next, Ended, vars
<1> QED BY <1>1, <1>2, Invariance, PTL DEF Refinement, A!Spec, Spec
=============================================================================
