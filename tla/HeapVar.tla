------------------------------- MODULE HeapVar -------------------------------
(***************************************************************************)
(* The variable-size half of the heap manager (rtl/inc/heap.inc), seen     *)
(* from one thread: its tfreelists, the blocks its os chunks are divided   *)
(* into by boundary tags, and the waitvar list on which other threads put  *)
(* its blocks back.  SysGetMem_Var and SysReAllocMem split blocks,         *)
(* SysFreeMem_Var joins them, SysTryResizeMem does both in place.          *)
(*                                                                         *)
(* Abstractions.  Sizes and addresses count units of blocksize, as every   *)
(* size in the code is rounded to one.  A linked list is the set of its    *)
(* elements: the search of SysGetMem_Var may stop at any block it would    *)
(* accept.  Finalization, orphans and fixed-size chunks are the business   *)
(* of HeapFixed.                                                           *)
(*                                                                         *)
(* A definition X_Something is X with a plausible slip.  No specification  *)
(* uses it: it stands in for X to show that a property notices the slip.   *)
(***************************************************************************)
EXTENDS Integers, FiniteSets

CONSTANTS
  OsChunks,         \* addresses at which SysOSAlloc may map an os chunk
  OsSize,           \* their size, header not included
  GrowHeapSize2,    \* larger os chunks are never kept
  MaxKeptOSChunks,  \* the variable of heaph.inc
  GetSizes,         \* sizes GetMem is called with
  ResizeSizes,      \* sizes ReAllocMem is called with that it may keep in place
  MinVar,           \* sizeof(tmemchunk_var), rounded up
  MaxBlock,         \* maxblocksize
  HeapWord,         \* 2^w for a ptruint of w bits; 1 leaves the statistics out
  Nil

ASSUME OsSizeAssumption == OsSize \in [OsChunks -> Nat \ {0}]
ASSUME LimitsAssumption == /\ GrowHeapSize2 \in Nat
                           /\ MaxKeptOSChunks \in Nat
                           /\ HeapWord \in Nat \ {0}
ASSUME SizesAssumption == /\ GetSizes \subseteq Nat \ {0}
                          /\ ResizeSizes \subseteq Nat \ {0}
                          /\ {MinVar, MaxBlock} \subseteq Nat \ {0}

\* an address: the os chunk and the offset in it
Addr == UNION {{poc} \X (0..(OsSize[poc] - 1)) : poc \in OsChunks}

ASSUME NilAssumption == Nil \notin Addr /\ Nil \notin Nat

VARIABLES
  hdr,          \* the boundary tag at the address of every block
  varlist,      \* tfreelists.varlist
  waitvar,      \* tfreelists.waitvar
  oslist,       \* tfreelists.oslist; oscount is its length
  live,         \* blocks the program holds
  old,          \* the block SysReAllocMem will free
  req,          \* the size SysGetMem_Var was called with
  pc,           \* where the thread is
  currheapused  \* internal_status.currheapused

vars == <<hdr, varlist, waitvar, oslist, live, old, req, pc, currheapused>>

Blocks == DOMAIN hdr
\* a heap: the tags and the list of free blocks
Heap == [hdr |-> hdr, varlist |-> varlist]
Used(n) == (currheapused + n) % HeapWord

Init ==
  /\ hdr = [a \in {} |-> Nil]
  /\ varlist = {} /\ waitvar = {} /\ oslist = {} /\ live = {}
  /\ old = Nil /\ req = Nil
  /\ pc = "idle"
  /\ currheapused = 0

-----------------------------------------------------------------------------
(***************************************************************************)
(* Boundary tags.  h is a heap, a the address of a block in it.            *)
(***************************************************************************)
RightOf(h, a) == <<a[1], a[2] + h.hdr[a].size>>
LeftOf(h, a)  == <<a[1], a[2] - h.hdr[a].prevsize>>

RightFree_FlagIgnored(h, a) == ~h.hdr[a].last
\* there is a block to the right, and it is free
RightFree(h, a) == ~h.hdr[a].last /\ ~h.hdr[RightOf(h, a)].used
LeftFree(h, a)  == ~h.hdr[a].first /\ ~h.hdr[LeftOf(h, a)].used

Concat_StaysListed(h, left, right) ==
  LET size == h.hdr[left].size + h.hdr[right].size IN
  [h EXCEPT !.hdr =
     [a \in DOMAIN h.hdr \ {right} |->
        IF a = left THEN [h.hdr[a] EXCEPT !.size = size, !.last = h.hdr[right].last]
        ELSE IF ~h.hdr[right].last /\ a = RightOf(h, right)
             THEN [h.hdr[a] EXCEPT !.prevsize = size]
        ELSE h.hdr[a]]]
\* concat_two_blocks
Concat(h, left, right) ==
  LET size == h.hdr[left].size + h.hdr[right].size IN
  [hdr |-> [a \in DOMAIN h.hdr \ {right} |->
              IF a = left
              THEN [h.hdr[a] EXCEPT !.size = size, !.last = h.hdr[right].last]
              ELSE IF ~h.hdr[right].last /\ a = RightOf(h, right)
              THEN [h.hdr[a] EXCEPT !.prevsize = size]
              ELSE h.hdr[a]],
   varlist |-> h.varlist \ {right}]

ConcatForward_Never(h, a) == h
\* try_concat_free_chunk_forward
ConcatForward(h, a) == IF RightFree(h, a) THEN Concat(h, a, RightOf(h, a)) ELSE h

\* the second half of try_concat_free_chunk, and the block it returns
ConcatBackward(h, a) == IF LeftFree(h, a) THEN Concat(h, LeftOf(h, a), a) ELSE h
Joined(h, a) == IF LeftFree(h, a) THEN LeftOf(h, a) ELSE a

CanSplit_Always(h, a, size) == TRUE
CanSplit(h, a, size) == h.hdr[a].size - size >= MinVar

Split_PrevSizeKept(h, a, size) ==
  LET rest == <<a[1], a[2] + size>> IN
  IF ~CanSplit(h, a, size) THEN h ELSE
  [hdr |-> [b \in DOMAIN h.hdr \cup {rest} |->
              IF b = a THEN [h.hdr[a] EXCEPT !.size = size, !.last = FALSE]
              ELSE IF b = rest
              THEN [size |-> h.hdr[a].size - size, prevsize |-> size, used |-> FALSE,
                    first |-> FALSE, last |-> h.hdr[a].last]
              ELSE h.hdr[b]],
   varlist |-> h.varlist \cup {rest}]
Split_SizeKept(h, a, size) ==
  LET rest == <<a[1], a[2] + size>> IN
  IF ~CanSplit(h, a, size) THEN h ELSE
  [hdr |-> [b \in DOMAIN h.hdr \cup {rest} |->
              IF b = rest
              THEN [size |-> h.hdr[a].size - size, prevsize |-> size, used |-> FALSE,
                    first |-> FALSE, last |-> h.hdr[a].last]
              ELSE h.hdr[b]],
   varlist |-> h.varlist \cup {rest}]
\* split_block: a keeps size, the rest becomes a free block if it can hold one
Split(h, a, size) ==
  LET rest == <<a[1], a[2] + size>>
      left == h.hdr[a].size - size
  IN
  IF ~CanSplit(h, a, size) THEN h ELSE
  [hdr |-> [b \in DOMAIN h.hdr \cup {rest} |->
              IF b = a THEN [h.hdr[a] EXCEPT !.size = size, !.last = FALSE]
              ELSE IF b = rest
              THEN [size |-> left, prevsize |-> size, used |-> FALSE,
                    first |-> FALSE, last |-> h.hdr[a].last]
              ELSE IF ~h.hdr[a].last /\ b = RightOf(h, a)
              THEN [h.hdr[b] EXCEPT !.prevsize = left]
              ELSE h.hdr[b]],
   varlist |-> h.varlist \cup {rest}]

\* the end of SysGetMem_Var: a leaves the list and is used, as far as needed
Take(h, a, size) ==
  LET s == Split([h EXCEPT !.varlist = @ \ {a}], a, size)
  IN  [s EXCEPT !.hdr[a].used = TRUE]

\* SysFreeMem_Var up to the question whether its os chunk is empty
Released(h, a) ==
  ConcatForward([hdr |-> [h.hdr EXCEPT ![a].used = FALSE],
                 varlist |-> h.varlist \cup {a}], a)

\* alloc_oschunk: poc is one free block, on varlist
Formatted(h, poc) ==
  LET a == <<poc, 0>> IN
  [hdr |-> [b \in DOMAIN h.hdr \cup {a} |->
              IF b = a THEN [size |-> OsSize[poc], prevsize |-> 0, used |-> FALSE,
                             first |-> TRUE, last |-> TRUE]
              ELSE h.hdr[b]],
   varlist |-> h.varlist \cup {a}]

SetHeap(h) == hdr' = h.hdr /\ varlist' = h.varlist

Whole(h, a) == h.hdr[a].first /\ h.hdr[a].last
Kept(poc) == Cardinality(oslist) < MaxKeptOSChunks /\ OsSize[poc] <= GrowHeapSize2

\* append_to_oslist_var and append_to_oslist for a free block a that fills its os
\* chunk: the os chunk is kept or goes back to the system
EmptyOsChunk(h, a) ==
  /\ varlist' = h.varlist \ {a}
  /\ IF Kept(a[1])
     THEN hdr' = h.hdr /\ oslist' = oslist \cup {a[1]}
     ELSE hdr' = [b \in DOMAIN h.hdr \ {a} |-> h.hdr[b]] /\ UNCHANGED oslist

\* SysFreeMem_Var by the owner
FreeBlock(a) ==
  LET fwd  == Released(Heap, a)
      h    == ConcatBackward(fwd, a)
      last == Joined(fwd, a)
  IN
  /\ currheapused' = Used(HeapWord - (hdr[a].size % HeapWord))
  /\ IF Whole(h, last) THEN EmptyOsChunk(h, last)
                       ELSE SetHeap(h) /\ UNCHANGED oslist

-----------------------------------------------------------------------------
(***************************************************************************)
(* SysGetMem_Var.                                                          *)
(***************************************************************************)

\* try_finish_waitvarlist looks at waitvar without a lock
AfterLook == IF waitvar = {} THEN "search" ELSE "drain"

GetMem(size) ==
  /\ pc = "idle"
  /\ req' = size
  /\ pc' = AfterLook
  /\ UNCHANGED <<hdr, varlist, waitvar, oslist, live, old, currheapused>>

\* an iteration of finish_waitvarlist, in heap_lock
DrainOne(a) ==
  /\ pc = "drain"
  /\ a \in waitvar
  /\ waitvar' = waitvar \ {a}
  /\ FreeBlock(a)
  /\ UNCHANGED <<live, old, req, pc>>

DrainEnd ==
  /\ pc = "drain"
  /\ waitvar = {}
  /\ pc' = "search"
  /\ UNCHANGED <<hdr, varlist, waitvar, oslist, live, old, req, currheapused>>

\* The flags are compared together with the size, so a free block of exactly the
\* requested size is accepted only at an end of its os chunk.
Fits(a) == \/ hdr[a].size > req
           \/ hdr[a].size = req /\ (hdr[a].first \/ hdr[a].last)

\* SysGetMem returns to its caller, or to SysReAllocMem, which has to free old
Returned == IF old = Nil THEN "idle" ELSE "freeold"

TakeAndReturn(h, a) ==
  /\ SetHeap(Take(h, a, req))
  /\ live' = live \cup {a}
  /\ currheapused' = Used(Take(h, a, req).hdr[a].size)
  /\ req' = Nil
  /\ pc' = Returned

GetFromList(a) ==
  /\ pc = "search"
  /\ a \in varlist
  /\ Fits(a)
  /\ TakeAndReturn(Heap, a)
  /\ UNCHANGED <<waitvar, oslist, old>>

NoneFits == \A a \in varlist : ~Fits(a)
Mapped == {a[1] : a \in Blocks}

\* alloc_oschunk reuses a kept os chunk, when as many are kept as may be
Reusable(poc) == /\ Cardinality(oslist) >= MaxKeptOSChunks
                 /\ poc \in oslist
                 /\ OsSize[poc] >= req

Reuse(poc) ==
  /\ pc = "search"
  /\ NoneFits
  /\ Reusable(poc)
  /\ oslist' = oslist \ {poc}
  /\ TakeAndReturn(Formatted(Heap, poc), <<poc, 0>>)
  /\ UNCHANGED <<waitvar, old>>

AllocFromOS(poc) ==
  /\ pc = "search"
  /\ NoneFits
  /\ \A kept \in oslist : ~Reusable(kept)
  /\ poc \notin Mapped
  /\ OsSize[poc] >= req
  /\ TakeAndReturn(Formatted(Heap, poc), <<poc, 0>>)
  /\ UNCHANGED <<waitvar, oslist, old>>

\* SysOSAlloc fails; with ReturnNilIfGrowHeapFails the result is nil
AllocFails ==
  /\ pc = "search"
  /\ NoneFits
  /\ \A kept \in oslist : ~Reusable(kept)
  /\ req' = Nil
  /\ pc' = Returned
  /\ UNCHANGED <<hdr, varlist, waitvar, oslist, live, old, currheapused>>

-----------------------------------------------------------------------------
(***************************************************************************)
(* SysFreeMem_Var, by this thread and by others.                           *)
(***************************************************************************)
FreeMem(a) ==
  /\ pc = "idle"
  /\ a \in live
  /\ live' = live \ {a}
  /\ FreeBlock(a)
  /\ UNCHANGED <<waitvar, old, req, pc>>

\* waitfree_var: another thread frees a, inside heap_lock
WaitFree(a) ==
  /\ pc # "drain"
  /\ a \in live \ {old}
  /\ live' = live \ {a}
  /\ waitvar' = waitvar \cup {a}
  /\ UNCHANGED <<hdr, varlist, oslist, old, req, pc, currheapused>>

-----------------------------------------------------------------------------
(***************************************************************************)
(* SysReAllocMem of a block a of this thread that it holds.                *)
(***************************************************************************)

\* "is the allocated block still correct?"
StillCorrect(a, size) == hdr[a].size >= size /\ size > hdr[a].size - 1

ResizeKeep(a, size) ==
  /\ pc = "idle"
  /\ a \in live
  /\ StillCorrect(a, size)
  /\ UNCHANGED vars

\* SysTryResizeMem succeeds: a is joined with the free block to its right and
\* what is not needed is split off again
ResizeInPlace(a, size) ==
  LET joined == ConcatForward(Heap, a)
      h == Split(joined, a, size)
  IN
  /\ pc = "idle"
  /\ a \in live
  /\ ~StillCorrect(a, size)
  /\ size <= joined.hdr[a].size
  /\ SetHeap(h)
  /\ currheapused' = Used(HeapWord + h.hdr[a].size - hdr[a].size)
  /\ UNCHANGED <<waitvar, oslist, live, old, req, pc>>

\* The size SysReAllocMem asks for, after it failed to keep a block of size was:
\* small blocks at least double, even to hold less.
NewSize(was, size) == IF was < MaxBlock /\ size <= 2 * was THEN 2 * was + 1 ELSE size

MoveTo(a, size) ==
  /\ old' = a
  /\ req' = size
  /\ pc' = AfterLook

\* SysTryResizeMem fails, but a stays joined with the block to its right;
\* SysReAllocMem gets a new block, moves the contents and frees a
ResizeMove(a, size) ==
  LET joined == ConcatForward(Heap, a) IN
  /\ pc = "idle"
  /\ a \in live
  /\ ~StillCorrect(a, size)
  /\ size > joined.hdr[a].size
  /\ SetHeap(joined)
  /\ MoveTo(a, NewSize(joined.hdr[a].size, size))
  /\ UNCHANGED <<waitvar, oslist, live, currheapused>>

\* A size below maxblocksize div 2 is refused at once.  A small block is moved to
\* one of twice its size; a larger one to a fixed-size chunk, which is FreeMem here.
ResizeSmall(a) ==
  /\ pc = "idle"
  /\ a \in live
  /\ hdr[a].size < MaxBlock
  /\ MoveTo(a, NewSize(hdr[a].size, 0))
  /\ UNCHANGED <<hdr, varlist, waitvar, oslist, live, currheapused>>

FreeOld ==
  /\ pc = "freeold"
  /\ live' = live \ {old}
  /\ FreeBlock(old)
  /\ old' = Nil
  /\ pc' = "idle"
  /\ UNCHANGED <<waitvar, req>>

-----------------------------------------------------------------------------
Get == \/ \E size \in GetSizes : GetMem(size)
       \/ \E a \in waitvar : DrainOne(a)
       \/ DrainEnd
       \/ \E a \in varlist : GetFromList(a)
       \/ \E poc \in OsChunks : Reuse(poc) \/ AllocFromOS(poc)
       \/ AllocFails

Free == \E a \in live : FreeMem(a) \/ WaitFree(a)

ReAlloc == \/ \E a \in live, size \in ResizeSizes :
                ResizeKeep(a, size) \/ ResizeInPlace(a, size) \/ ResizeMove(a, size)
           \/ \E a \in live : ResizeSmall(a)
           \/ FreeOld

Next == Get \/ Free \/ ReAlloc

Spec == Init /\ [][Next]_vars
-----------------------------------------------------------------------------
(***************************************************************************)
(* Properties.                                                             *)
(***************************************************************************)
Tag == [size : Nat \ {0}, prevsize : Nat, used : BOOLEAN,
        first : BOOLEAN, last : BOOLEAN]

\* Every variable has values of its kind.
TypeOK ==
  /\ Blocks \subseteq Addr
  /\ \A a \in Blocks : hdr[a] \in Tag
  /\ varlist \subseteq Blocks /\ waitvar \subseteq Blocks /\ live \subseteq Blocks
  /\ oslist \subseteq OsChunks
  /\ old \in live \cup {Nil}
  /\ req \in (Nat \ {0}) \cup {Nil}
  /\ pc \in {"idle", "drain", "search", "freeold"}
  /\ currheapused \in 0..(HeapWord - 1)

\* The units a block spans.
Span(a) == {<<a[1], a[2] + i>> : i \in 0..(hdr[a].size - 1)}

\* The boundary tags describe the memory: following sizes to the right and
\* prevsizes to the left meets every block of an os chunk, the flags mark the
\* ends, and the blocks neither overlap nor leave a gap.
BoundaryTags ==
  \A a \in Blocks :
    /\ IF hdr[a].first THEN a[2] = 0
       ELSE LET left == LeftOf(Heap, a) IN
            left \in Blocks /\ ~hdr[left].last /\ hdr[left].size = hdr[a].prevsize
    /\ IF hdr[a].last THEN a[2] + hdr[a].size = OsSize[a[1]]
       ELSE LET right == RightOf(Heap, a) IN
            right \in Blocks /\ ~hdr[right].first /\ hdr[right].prevsize = hdr[a].size
    /\ \A b \in Blocks \ {a} : Span(a) \cap Span(b) = {}

\* Free neighbours are always joined, whatever is freed, split or resized: no
\* two free blocks lie side by side.
Coalesced ==
  \A a \in Blocks : ~hdr[a].used => ~RightFree(Heap, a)

\* Every free block is on varlist or fills an os chunk on oslist, and a used
\* block is held by the program or waits to be freed: nothing leaks and nothing
\* is both.
BlockPlaces ==
  /\ live \cap waitvar = {}
  /\ live \cup waitvar = {a \in Blocks : hdr[a].used}
  /\ varlist = {a \in Blocks : ~hdr[a].used /\ a[1] \notin oslist}
  /\ \A poc \in oslist :
        <<poc, 0>> \in Blocks /\ hdr[<<poc, 0>>].size = OsSize[poc]

\* Between calls, internal_status.currheapused is the memory in the blocks not yet
\* freed, which tests/units/erroru.pp:114 takes it for ("Lost: " is followed by
\* CurrHeapUsed-StartMem).
HeapUsed == LET S[B \in SUBSET Blocks] ==
                  IF B = {} THEN 0
                  ELSE LET a == CHOOSE b \in B : TRUE IN hdr[a].size + S[B \ {a}]
            IN  S[{a \in Blocks : hdr[a].used}]
UsedIsCounted == pc = "idle" => currheapused = HeapUsed % HeapWord

\* The manager does what a program expects of GetMem, FreeMem and ReAllocMem,
\* when a block is the memory that its header gives it.
Memory(a) == <<a, hdr[a].size>>
Units(m) == {<<m[1][1], m[1][2] + i>> : i \in 0..(m[2] - 1)}
Memories == UNION {{a} \X (1..(OsSize[a[1]] - a[2])) : a \in Addr}

A == INSTANCE Allocator WITH
       Blocks <- Memories,
       Overlap <- {p \in Memories \X Memories : Units(p[1]) \cap Units(p[2]) # {}},
       inuse <- {Memory(a) : a \in live}

Refinement == A!Spec
=============================================================================
