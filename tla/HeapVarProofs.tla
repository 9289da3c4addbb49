---------------------------- MODULE HeapVarProofs ----------------------------
(***************************************************************************)
(* Proofs about HeapVar for os chunks and requests of any size.            *)
(*                                                                         *)
(* A heap is sound when its boundary tags describe the memory.  The first  *)
(* part shows that the operations on tags (concat_two_blocks, split_block, *)
(* alloc_oschunk, the release of an os chunk) keep a heap sound; the       *)
(* second part, that the routines built from them leave no two free blocks *)
(* side by side and keep varlist exact; the third, that the steps of the   *)
(* heap manager do.                                                        *)
(***************************************************************************)
EXTENDS HeapVar, TLAPS

BlocksOf(h) == DOMAIN h.hdr
UsedIn(h) == {a \in BlocksOf(h) : h.hdr[a].used}
FreeIn(h) == {a \in BlocksOf(h) : ~h.hdr[a].used}

Tagged(h) == /\ BlocksOf(h) \subseteq Addr
             /\ \A a \in BlocksOf(h) : h.hdr[a] \in Tag

\* The tags of neighbours agree, and the flags mark the ends of an os chunk.
LinkedLeft(h, a) ==
  IF h.hdr[a].first THEN a[2] = 0
  ELSE /\ LeftOf(h, a) \in BlocksOf(h)
       /\ ~h.hdr[LeftOf(h, a)].last
       /\ h.hdr[LeftOf(h, a)].size = h.hdr[a].prevsize
LinkedRight(h, a) ==
  IF h.hdr[a].last THEN a[2] + h.hdr[a].size = OsSize[a[1]]
  ELSE /\ RightOf(h, a) \in BlocksOf(h)
       /\ ~h.hdr[RightOf(h, a)].first
       /\ h.hdr[RightOf(h, a)].prevsize = h.hdr[a].size
Linked(h) == \A a \in BlocksOf(h) : LinkedLeft(h, a) /\ LinkedRight(h, a)

\* A block ends before the next one of its os chunk begins.
Apart(h) ==
  \A a, b \in BlocksOf(h) :
     a[1] = b[1] /\ a[2] < b[2] => a[2] + h.hdr[a].size <= b[2]

Sound(h) == Tagged(h) /\ Linked(h) /\ Apart(h)

-----------------------------------------------------------------------------
(***************************************************************************)
(* Addresses and neighbours.                                               *)
(***************************************************************************)

\* An address is an os chunk and an offset below its size.
LEMMA AddrIs ==
  /\ \A a \in Addr : /\ a[1] \in OsChunks /\ OsSize[a[1]] \in Nat \ {0}
                     /\ a[2] \in Nat /\ a[2] < OsSize[a[1]]
                     /\ a = <<a[1], a[2]>>
  /\ \A poc \in OsChunks, i \in Nat : i < OsSize[poc] => <<poc, i>> \in Addr
<1>1. ASSUME NEW a \in Addr
      PROVE  /\ a[1] \in OsChunks /\ OsSize[a[1]] \in Nat \ {0}
             /\ a[2] \in Nat /\ a[2] < OsSize[a[1]]
             /\ a = <<a[1], a[2]>>
  <2>1. PICK poc \in OsChunks : a \in {poc} \X (0..(OsSize[poc] - 1))
    BY DEF Addr
  <2> QED BY <2>1, OsSizeAssumption
<1>2. ASSUME NEW poc \in OsChunks, NEW i \in Nat, i < OsSize[poc]
      PROVE  <<poc, i>> \in Addr
  <2>1. OsSize[poc] \in Nat
    BY OsSizeAssumption
  <2>2. <<poc, i>> \in {poc} \X (0..(OsSize[poc] - 1))
    BY <1>2, <2>1
  <2> QED BY <2>2 DEF Addr
<1> QED BY <1>1, <1>2

\* The fields of a block and its place, one by one.
LEMMA BlockIs ==
  ASSUME NEW h, Tagged(h), NEW a \in BlocksOf(h)
  PROVE  /\ a \in Addr /\ a = <<a[1], a[2]>>
         /\ a[1] \in OsChunks /\ a[2] \in Nat /\ a[2] < OsSize[a[1]]
         /\ OsSize[a[1]] \in Nat
         /\ h.hdr[a] \in Tag
         /\ h.hdr[a].size \in Nat /\ h.hdr[a].size > 0
         /\ h.hdr[a].prevsize \in Nat
         /\ h.hdr[a].used \in BOOLEAN
         /\ h.hdr[a].first \in BOOLEAN /\ h.hdr[a].last \in BOOLEAN
BY AddrIs DEF Tagged, Tag

\* A block has one neighbour on each side, and is the other neighbour of it.
LEMMA Neighbours ==
  ASSUME NEW h, Sound(h), NEW a \in BlocksOf(h)
  PROVE  /\ ~h.hdr[a].last =>
              LET right == RightOf(h, a) IN
              /\ right \in BlocksOf(h) /\ right # a
              /\ right[1] = a[1] /\ right[2] = a[2] + h.hdr[a].size
              /\ ~h.hdr[right].first /\ LeftOf(h, right) = a
              /\ h.hdr[right].prevsize = h.hdr[a].size
         /\ ~h.hdr[a].first =>
              LET left == LeftOf(h, a) IN
              /\ left \in BlocksOf(h) /\ left # a
              /\ left[1] = a[1] /\ left[2] + h.hdr[left].size = a[2]
              /\ ~h.hdr[left].last /\ RightOf(h, left) = a
<1> USE DEF Sound
<1>1. ASSUME ~h.hdr[a].last, NEW right, right = RightOf(h, a)
      PROVE  /\ right \in BlocksOf(h) /\ right # a
             /\ right[1] = a[1] /\ right[2] = a[2] + h.hdr[a].size
             /\ ~h.hdr[right].first /\ LeftOf(h, right) = a
             /\ h.hdr[right].prevsize = h.hdr[a].size
  <2>1. LinkedRight(h, a)
    BY DEF Linked
  <2> QED BY <1>1, <2>1, BlockIs DEF LinkedRight, LeftOf, RightOf
<1>2. ASSUME ~h.hdr[a].first, NEW left, left = LeftOf(h, a)
      PROVE  /\ left \in BlocksOf(h) /\ left # a
             /\ left[1] = a[1] /\ left[2] + h.hdr[left].size = a[2]
             /\ ~h.hdr[left].last /\ RightOf(h, left) = a
  <2>1. LinkedLeft(h, a)
    BY DEF Linked
  <2>2. left \in BlocksOf(h) /\ left[1] = a[1] /\ left[2] = a[2] - h.hdr[a].prevsize
    BY <1>2, <2>1 DEF LinkedLeft, LeftOf
  <2> QED BY <1>2, <2>1, <2>2, BlockIs DEF LinkedLeft, LeftOf, RightOf
<1> QED BY <1>1, <1>2

-----------------------------------------------------------------------------
(***************************************************************************)
(* concat_two_blocks.                                                      *)
(***************************************************************************)

\* What the blocks look like after it.
IsConcat(h, left, right, g) ==
  /\ BlocksOf(g) = BlocksOf(h) \ {right}
  /\ left \in BlocksOf(g)
  /\ g.varlist = h.varlist \ {right}
  /\ g.hdr[left].size = h.hdr[left].size + h.hdr[right].size
  /\ g.hdr[left].last = h.hdr[right].last
  /\ g.hdr[left].prevsize = h.hdr[left].prevsize
  /\ \A a \in BlocksOf(g) :
       /\ g.hdr[a] \in Tag
       /\ g.hdr[a].first = h.hdr[a].first
       /\ g.hdr[a].used = h.hdr[a].used
       /\ a # left => /\ g.hdr[a].size = h.hdr[a].size
                      /\ g.hdr[a].last = h.hdr[a].last
       /\ g.hdr[a].prevsize =
            IF a # left /\ ~h.hdr[right].last /\ a = RightOf(h, right)
            THEN h.hdr[left].size + h.hdr[right].size
            ELSE h.hdr[a].prevsize

LEMMA ConcatIs ==
  ASSUME NEW h, Sound(h), NEW left \in BlocksOf(h), ~h.hdr[left].last,
         NEW right, right = RightOf(h, left), NEW g, g = Concat(h, left, right)
  PROVE  IsConcat(h, left, right, g)
<1>1. right \in BlocksOf(h) /\ right # left
  BY Neighbours
<1>2. BlocksOf(g) = BlocksOf(h) \ {right} /\ g.varlist = h.varlist \ {right}
  BY DEF Concat, BlocksOf
<1>3. ASSUME NEW a \in BlocksOf(g)
      PROVE  g.hdr[a] =
               IF a = left
               THEN [h.hdr[a] EXCEPT !.size = h.hdr[left].size + h.hdr[right].size,
                                     !.last = h.hdr[right].last]
               ELSE IF ~h.hdr[right].last /\ a = RightOf(h, right)
               THEN [h.hdr[a] EXCEPT !.prevsize = h.hdr[left].size + h.hdr[right].size]
               ELSE h.hdr[a]
  BY <1>2, <1>3 DEF Concat, BlocksOf
<1>4. \A a \in BlocksOf(h) :
         /\ h.hdr[a] \in Tag /\ h.hdr[a].size \in Nat /\ h.hdr[a].size > 0
         /\ h.hdr[a].prevsize \in Nat
         /\ h.hdr[a].used \in BOOLEAN
         /\ h.hdr[a].first \in BOOLEAN /\ h.hdr[a].last \in BOOLEAN
  BY BlockIs DEF Sound
<1>5. ASSUME NEW a \in BlocksOf(g), a = left
      PROVE  /\ g.hdr[a] \in Tag
             /\ g.hdr[a].size = h.hdr[left].size + h.hdr[right].size
             /\ g.hdr[a].last = h.hdr[right].last
             /\ g.hdr[a].prevsize = h.hdr[a].prevsize
             /\ g.hdr[a].first = h.hdr[a].first /\ g.hdr[a].used = h.hdr[a].used
  <2> DEFINE size == h.hdr[left].size + h.hdr[right].size
             tag == h.hdr[left]
             last == h.hdr[right].last
             new == [tag EXCEPT !.size = size, !.last = last]
  <2>1. size \in Nat \ {0} /\ tag \in Tag /\ last \in BOOLEAN
    BY <1>1, <1>4
  <2>2. g.hdr[a] = new
    BY <1>3, <1>5
  <2> HIDE DEF size, tag, last
  <2>3. /\ new \in Tag /\ new.size = size /\ new.last = last
        /\ new.prevsize = tag.prevsize /\ new.used = tag.used /\ new.first = tag.first
    BY <2>1 DEF Tag
  <2> HIDE DEF new
  <2> QED BY <2>2, <2>3, <1>5 DEF size, tag, last
<1>6. ASSUME NEW a \in BlocksOf(g), a # left
      PROVE  /\ g.hdr[a] \in Tag
             /\ g.hdr[a].size = h.hdr[a].size /\ g.hdr[a].last = h.hdr[a].last
             /\ g.hdr[a].first = h.hdr[a].first /\ g.hdr[a].used = h.hdr[a].used
             /\ g.hdr[a].prevsize =
                   IF ~h.hdr[right].last /\ a = RightOf(h, right)
                   THEN h.hdr[left].size + h.hdr[right].size
                   ELSE h.hdr[a].prevsize
  <2> DEFINE size == h.hdr[left].size + h.hdr[right].size
             tag == h.hdr[a]
             new == [tag EXCEPT !.prevsize = size]
  <2>1. size \in Nat /\ tag \in Tag
    BY <1>1, <1>2, <1>4
  <2>2. g.hdr[a] = IF ~h.hdr[right].last /\ a = RightOf(h, right) THEN new ELSE h.hdr[a]
    BY <1>3, <1>6
  <2> HIDE DEF size, tag
  <2>3. /\ new \in Tag /\ new.prevsize = size
        /\ new.size = tag.size /\ new.used = tag.used
        /\ new.first = tag.first /\ new.last = tag.last
    BY <2>1 DEF Tag
  <2> HIDE DEF new
  <2> QED BY <2>1, <2>2, <2>3 DEF size, tag
<1> QED BY <1>1, <1>2, <1>5, <1>6 DEF IsConcat

\* It keeps a heap sound.
LEMMA ConcatSound ==
  ASSUME NEW h, Sound(h), NEW left \in BlocksOf(h), ~h.hdr[left].last,
         NEW right, right = RightOf(h, left)
  PROVE  Sound(Concat(h, left, right))
<1> DEFINE g == Concat(h, left, right)
<1>0. IsConcat(h, left, right, g)
  BY ConcatIs
<1> HIDE DEF g
<1>1. \A a \in BlocksOf(h) :
         /\ a = <<a[1], a[2]>> /\ a[2] \in Nat
         /\ h.hdr[a].size \in Nat /\ h.hdr[a].size > 0 /\ h.hdr[a].prevsize \in Nat
  BY BlockIs DEF Sound
<1>2. /\ right \in BlocksOf(h) /\ right # left /\ right[1] = left[1]
      /\ right[2] = left[2] + h.hdr[left].size
  BY Neighbours
<1>3. Tagged(g)
  BY <1>0 DEF IsConcat, Tagged, Sound
<1>4. ASSUME NEW a \in BlocksOf(g) PROVE LinkedRight(g, a)
  <2>1. CASE a = left /\ ~h.hdr[right].last
    <3> DEFINE next == RightOf(h, right)
    <3>1. /\ next \in BlocksOf(h) /\ next # right /\ next = <<right[1], right[2] + h.hdr[right].size>>
          /\ ~h.hdr[next].first
      BY <2>1, <1>2, Neighbours DEF RightOf
    <3>2. next # left
      BY <1>1, <1>2, <3>1
    <3>3. /\ next \in BlocksOf(g) /\ ~g.hdr[next].first
          /\ g.hdr[next].prevsize = h.hdr[left].size + h.hdr[right].size
          /\ g.hdr[left].size = h.hdr[left].size + h.hdr[right].size
          /\ ~g.hdr[left].last
      BY <2>1, <3>1, <3>2, <1>0 DEF IsConcat
    <3>4. RightOf(g, left) = next
      BY <1>1, <1>2, <3>1, <3>3 DEF RightOf
    <3> QED BY <2>1, <3>3, <3>4 DEF LinkedRight
  <2>2. CASE a = left /\ h.hdr[right].last
    BY <2>2, <1>1, <1>2, <1>0 DEF IsConcat, LinkedRight, Sound, Linked
  <2>3. CASE a # left /\ ~h.hdr[a].last
    <3>1. /\ RightOf(h, a) # right
          /\ h.hdr[right].last \/ RightOf(h, a) # RightOf(h, right)
      BY <2>3, <1>2, <1>0, Neighbours DEF IsConcat
    <3>2. RightOf(g, a) = RightOf(h, a)
      BY <2>3, <1>0 DEF IsConcat, RightOf
    <3>3. RightOf(h, a) \in BlocksOf(g)
      BY <2>3, <3>1, <1>0, Neighbours DEF IsConcat
    <3> QED BY <2>3, <3>1, <3>2, <3>3, <1>0, Neighbours DEF IsConcat, LinkedRight
  <2>4. CASE a # left /\ h.hdr[a].last
    BY <2>4, <1>0 DEF IsConcat, LinkedRight, Sound, Linked
  <2> QED BY <2>1, <2>2, <2>3, <2>4
<1>5. ASSUME NEW a \in BlocksOf(g) PROVE LinkedLeft(g, a)
  <2>1. CASE h.hdr[a].first
    BY <2>1, <1>0 DEF IsConcat, LinkedLeft, Sound, Linked
  <2>2. CASE ~h.hdr[a].first /\ LeftOf(h, a) = right
    <3>1. ~h.hdr[right].last /\ a = RightOf(h, right)
      BY <2>2, <1>0, Neighbours DEF IsConcat
    <3>2. a # left
      BY <1>1, <1>2, <3>1 DEF RightOf
    <3>3. /\ ~g.hdr[a].first
          /\ g.hdr[a].prevsize = h.hdr[left].size + h.hdr[right].size
      BY <2>2, <3>1, <3>2, <1>0 DEF IsConcat
    <3>4. LeftOf(g, a) = left
      BY <1>1, <1>2, <3>1, <3>3 DEF LeftOf, RightOf
    <3> QED BY <3>1, <3>3, <3>4, <1>0 DEF IsConcat, LinkedLeft
  <2>3. CASE ~h.hdr[a].first /\ LeftOf(h, a) # right
    <3>1. a \in BlocksOf(h) /\ a # right
      BY <1>0 DEF IsConcat
    <3>2. LeftOf(h, a) # left
      BY <2>3, <3>1, Neighbours
    <3>3. h.hdr[right].last \/ a # RightOf(h, right)
      BY <2>3, <1>2, Neighbours
    <3>4. g.hdr[a].prevsize = h.hdr[a].prevsize /\ ~g.hdr[a].first
      BY <2>3, <3>3, <1>0 DEF IsConcat
    <3>5. LeftOf(g, a) = LeftOf(h, a)
      BY <3>4 DEF LeftOf
    <3>6. LinkedLeft(h, a)
      BY <3>1 DEF Sound, Linked
    <3> QED BY <2>3, <3>2, <3>4, <3>5, <3>6, <1>0 DEF IsConcat, LinkedLeft
  <2> QED BY <2>1, <2>2, <2>3
<1>6. Apart(g)
  <2> SUFFICES ASSUME NEW a \in BlocksOf(g), NEW b \in BlocksOf(g), a[1] = b[1], a[2] < b[2]
               PROVE  a[2] + g.hdr[a].size <= b[2]
    BY DEF Apart
  <2>1. a \in BlocksOf(h) /\ b \in BlocksOf(h) /\ b # right
    BY <1>0 DEF IsConcat
  <2>2. a[2] + h.hdr[a].size <= b[2]
    BY <2>1 DEF Sound, Apart
  <2>3. CASE a = left
    <3>1. right[2] < b[2]
      BY <1>1, <1>2, <2>1, <2>2, <2>3
    <3>2. right[2] + h.hdr[right].size <= b[2]
      BY <1>2, <2>1, <2>3, <3>1 DEF Sound, Apart
    <3> QED BY <1>1, <1>2, <2>3, <3>2, <1>0 DEF IsConcat
  <2> QED BY <2>2, <2>3, <1>0 DEF IsConcat
<1> QED BY <1>3, <1>4, <1>5, <1>6 DEF g, Sound, Linked

-----------------------------------------------------------------------------
(***************************************************************************)
(* split_block, when the rest can hold a block.                            *)
(***************************************************************************)

\* What the blocks look like after it.
IsSplit(h, a, size, rest, g) ==
  /\ rest \in Addr /\ rest \notin BlocksOf(h) /\ rest # a
  /\ BlocksOf(g) = BlocksOf(h) \cup {rest}
  /\ g.varlist = h.varlist \cup {rest}
  /\ h.hdr[a].size - size \in Nat /\ h.hdr[a].size - size > 0
  /\ g.hdr[a].size = size /\ ~g.hdr[a].last
  /\ g.hdr[a].first = h.hdr[a].first /\ g.hdr[a].used = h.hdr[a].used
  /\ g.hdr[a].prevsize = h.hdr[a].prevsize
  /\ g.hdr[rest].size = h.hdr[a].size - size /\ g.hdr[rest].prevsize = size
  /\ ~g.hdr[rest].used /\ ~g.hdr[rest].first /\ g.hdr[rest].last = h.hdr[a].last
  /\ \A b \in BlocksOf(g) : g.hdr[b] \in Tag
  /\ \A b \in BlocksOf(h) \ {a} :
       /\ g.hdr[b].size = h.hdr[b].size
       /\ g.hdr[b].first = h.hdr[b].first /\ g.hdr[b].last = h.hdr[b].last
       /\ g.hdr[b].used = h.hdr[b].used
       /\ g.hdr[b].prevsize = IF ~h.hdr[a].last /\ b = RightOf(h, a)
                              THEN h.hdr[a].size - size
                              ELSE h.hdr[b].prevsize

LEMMA SplitIs ==
  ASSUME NEW h, Sound(h), NEW a \in BlocksOf(h), NEW size \in Nat \ {0},
         CanSplit(h, a, size),
         NEW rest, rest = <<a[1], a[2] + size>>, NEW g, g = Split(h, a, size)
  PROVE  IsSplit(h, a, size, rest, g)
<1> DEFINE left == h.hdr[a].size - size
<1>1. \A b \in BlocksOf(h) :
         /\ b \in Addr /\ b = <<b[1], b[2]>> /\ b[1] \in OsChunks
         /\ b[2] \in Nat /\ b[2] < OsSize[b[1]] /\ OsSize[b[1]] \in Nat
         /\ h.hdr[b] \in Tag /\ h.hdr[b].size \in Nat /\ h.hdr[b].size > 0
         /\ h.hdr[b].last \in BOOLEAN
  BY BlockIs DEF Sound
<1>2. left \in Nat /\ left > 0
  BY <1>1, SizesAssumption DEF CanSplit
<1>3. a[2] + size < OsSize[a[1]] /\ rest # a
  <2>1. CASE h.hdr[a].last
    <3>1. a[2] + h.hdr[a].size = OsSize[a[1]]
      BY <2>1 DEF Sound, Linked, LinkedRight
    <3> QED BY <3>1, <1>1, <1>2
  <2>2. CASE ~h.hdr[a].last
    <3>1. \E right \in BlocksOf(h) : right[1] = a[1] /\ right[2] = a[2] + h.hdr[a].size
      BY <2>2, Neighbours
    <3> QED BY <3>1, <1>1, <1>2
  <2> QED BY <2>1, <2>2
<1>4. rest \in Addr
  <2>1. a[2] + size \in Nat /\ a[1] \in OsChunks
    BY <1>1
  <2> QED BY <2>1, <1>3, AddrIs
<1>5. rest \notin BlocksOf(h)
  <2> SUFFICES ASSUME rest \in BlocksOf(h) PROVE FALSE
    OBVIOUS
  <2>1. a[2] + h.hdr[a].size <= rest[2]
    BY <1>1 DEF Sound, Apart
  <2> QED BY <2>1, <1>1, <1>2
<1>6. BlocksOf(g) = BlocksOf(h) \cup {rest} /\ g.varlist = h.varlist \cup {rest}
  BY DEF Split, BlocksOf
<1>7. ASSUME NEW b \in BlocksOf(g)
      PROVE  g.hdr[b] =
               IF b = a THEN [h.hdr[a] EXCEPT !.size = size, !.last = FALSE]
               ELSE IF b = rest
               THEN [size |-> left, prevsize |-> size, used |-> FALSE,
                     first |-> FALSE, last |-> h.hdr[a].last]
               ELSE IF ~h.hdr[a].last /\ b = RightOf(h, a)
               THEN [h.hdr[b] EXCEPT !.prevsize = left]
               ELSE h.hdr[b]
  BY <1>6, <1>7 DEF Split, BlocksOf
<1> HIDE DEF left
<1>8. /\ g.hdr[a] \in Tag /\ g.hdr[a].size = size /\ ~g.hdr[a].last
      /\ g.hdr[a].first = h.hdr[a].first /\ g.hdr[a].used = h.hdr[a].used
      /\ g.hdr[a].prevsize = h.hdr[a].prevsize
  <2> DEFINE tag == h.hdr[a]
             new == [tag EXCEPT !.size = size, !.last = FALSE]
  <2>1. tag \in Tag /\ g.hdr[a] = new
    BY <1>1, <1>6, <1>7
  <2> HIDE DEF tag
  <2>2. /\ new \in Tag /\ new.size = size /\ ~new.last
        /\ new.prevsize = tag.prevsize /\ new.used = tag.used /\ new.first = tag.first
    BY <2>1 DEF Tag
  <2> HIDE DEF new
  <2> QED BY <2>1, <2>2 DEF tag
<1>9. /\ g.hdr[rest] \in Tag
      /\ g.hdr[rest].size = left /\ g.hdr[rest].prevsize = size
      /\ ~g.hdr[rest].used /\ ~g.hdr[rest].first /\ g.hdr[rest].last = h.hdr[a].last
  <2> DEFINE last == h.hdr[a].last
             new == [size |-> left, prevsize |-> size, used |-> FALSE,
                     first |-> FALSE, last |-> last]
  <2>1. last \in BOOLEAN /\ g.hdr[rest] = new
    BY <1>1, <1>3, <1>6, <1>7
  <2> HIDE DEF last
  <2>2. /\ new \in Tag /\ new.size = left /\ new.prevsize = size
        /\ ~new.used /\ ~new.first /\ new.last = last
    BY <2>1, <1>2 DEF Tag
  <2> HIDE DEF new
  <2> QED BY <2>1, <2>2 DEF last
<1>10. ASSUME NEW b \in BlocksOf(h) \ {a}
       PROVE  /\ g.hdr[b] \in Tag
              /\ g.hdr[b].size = h.hdr[b].size
              /\ g.hdr[b].first = h.hdr[b].first /\ g.hdr[b].last = h.hdr[b].last
              /\ g.hdr[b].used = h.hdr[b].used
              /\ g.hdr[b].prevsize = IF ~h.hdr[a].last /\ b = RightOf(h, a) THEN left
                                     ELSE h.hdr[b].prevsize
  <2> DEFINE tag == h.hdr[b]
             new == [tag EXCEPT !.prevsize = left]
  <2>1. /\ tag \in Tag /\ b # a /\ b # rest
        /\ g.hdr[b] = IF ~h.hdr[a].last /\ b = RightOf(h, a) THEN new ELSE tag
    BY <1>1, <1>5, <1>6, <1>7
  <2> HIDE DEF tag
  <2>2. /\ new \in Tag /\ new.prevsize = left
        /\ new.size = tag.size /\ new.used = tag.used
        /\ new.first = tag.first /\ new.last = tag.last
    BY <2>1, <1>2 DEF Tag
  <2> HIDE DEF new
  <2> QED BY <2>1, <2>2 DEF tag
<1> QED BY <1>2, <1>3, <1>4, <1>5, <1>6, <1>8, <1>9, <1>10 DEF left, IsSplit

\* It keeps a heap sound.
LEMMA SplitSound ==
  ASSUME NEW h, Sound(h), NEW a \in BlocksOf(h), NEW size \in Nat \ {0},
         CanSplit(h, a, size)
  PROVE  Sound(Split(h, a, size))
<1> DEFINE g == Split(h, a, size)
           rest == <<a[1], a[2] + size>>
<1>0. IsSplit(h, a, size, rest, g)
  BY SplitIs
<1> HIDE DEF g
<1>1. \A b \in BlocksOf(h) :
         /\ b = <<b[1], b[2]>> /\ b[2] \in Nat
         /\ h.hdr[b].size \in Nat /\ h.hdr[b].size > 0 /\ h.hdr[b].prevsize \in Nat
  BY BlockIs DEF Sound
<1>2. rest[1] = a[1] /\ rest[2] = a[2] + size /\ rest = <<a[1], a[2] + size>>
  OBVIOUS
<1> HIDE DEF rest
<1>3. Tagged(g)
  BY <1>0 DEF IsSplit, Tagged, Sound
<1>4. LinkedRight(g, a) /\ LinkedLeft(g, rest)
  <2>1. RightOf(g, a) = rest /\ LeftOf(g, rest) = a
    BY <1>1, <1>2, <1>0 DEF IsSplit, RightOf, LeftOf
  <2> QED BY <2>1, <1>0 DEF IsSplit, LinkedRight, LinkedLeft
<1>5. LinkedRight(g, rest)
  <2>1. CASE h.hdr[a].last
    <3>1. a[2] + h.hdr[a].size = OsSize[a[1]]
      BY <2>1 DEF Sound, Linked, LinkedRight
    <3>2. g.hdr[rest].size = h.hdr[a].size - size /\ g.hdr[rest].last
      BY <2>1, <1>0 DEF IsSplit
    <3> QED BY <1>1, <1>2, <3>1, <3>2 DEF LinkedRight
  <2>2. CASE ~h.hdr[a].last
    <3> DEFINE next == RightOf(h, a)
    <3>1. next \in BlocksOf(h) \ {a} /\ ~h.hdr[next].first
      BY <2>2, Neighbours
    <3>2. g.hdr[rest].size = h.hdr[a].size - size /\ ~g.hdr[rest].last
      BY <2>2, <1>0 DEF IsSplit
    <3>3. RightOf(g, rest) = next
      BY <1>1, <1>2, <3>2 DEF RightOf
    <3>4. /\ next \in BlocksOf(g) /\ ~g.hdr[next].first
          /\ g.hdr[next].prevsize = h.hdr[a].size - size
      BY <2>2, <3>1, <1>0 DEF IsSplit
    <3> QED BY <3>2, <3>3, <3>4 DEF LinkedRight
  <2> QED BY <2>1, <2>2
<1>6. ASSUME NEW b \in BlocksOf(h) \ {a} PROVE LinkedRight(g, b)
  <2>1. LinkedRight(h, b)
    BY DEF Sound, Linked
  <2>2. RightOf(g, b) = RightOf(h, b)
    BY <1>0 DEF IsSplit, RightOf
  <2>3. CASE h.hdr[b].last
    BY <2>1, <2>3, <1>0 DEF IsSplit, LinkedRight
  <2>4. CASE ~h.hdr[b].last
    <3>1. h.hdr[a].last \/ RightOf(h, b) # RightOf(h, a)
      BY <2>4, Neighbours
    <3> QED BY <2>1, <2>2, <2>4, <3>1, <1>0 DEF IsSplit, LinkedRight
  <2> QED BY <2>3, <2>4
<1>7. ASSUME NEW b \in BlocksOf(h) PROVE LinkedLeft(g, b)
  <2>1. LinkedLeft(h, b)
    BY DEF Sound, Linked
  <2>2. CASE h.hdr[b].first
    BY <2>1, <2>2, <1>0 DEF IsSplit, LinkedLeft
  <2>3. CASE ~h.hdr[b].first /\ LeftOf(h, b) = a
    <3>1. ~h.hdr[a].last /\ b = RightOf(h, a) /\ b # a
      BY <2>3, Neighbours
    <3>2. g.hdr[b].prevsize = h.hdr[a].size - size /\ ~g.hdr[b].first
      BY <2>3, <3>1, <1>0 DEF IsSplit
    <3>3. LeftOf(g, b) = rest
      BY <1>1, <1>2, <3>1, <3>2 DEF LeftOf, RightOf
    <3> QED BY <3>1, <3>2, <3>3, <1>0 DEF IsSplit, LinkedLeft
  <2>4. CASE ~h.hdr[b].first /\ LeftOf(h, b) # a
    <3>1. h.hdr[a].last \/ b # RightOf(h, a)
      BY <2>4, Neighbours
    <3>2. g.hdr[b].prevsize = h.hdr[b].prevsize /\ ~g.hdr[b].first
      BY <2>4, <3>1, <1>0 DEF IsSplit
    <3>3. LeftOf(g, b) = LeftOf(h, b)
      BY <3>2 DEF LeftOf
    <3> QED BY <2>1, <2>4, <3>2, <3>3, <1>0 DEF IsSplit, LinkedLeft
  <2> QED BY <2>2, <2>3, <2>4
<1>8. Linked(g)
  BY <1>4, <1>5, <1>6, <1>7, <1>0 DEF IsSplit, Linked
<1>9. Apart(g)
  <2> SUFFICES ASSUME NEW b \in BlocksOf(g), NEW c \in BlocksOf(g), b[1] = c[1], b[2] < c[2]
               PROVE  b[2] + g.hdr[b].size <= c[2]
    BY DEF Apart
  <2>1. BlocksOf(g) = BlocksOf(h) \cup {rest} /\ h.hdr[a].size - size > 0
    BY <1>0 DEF IsSplit
  <2>2. CASE b \in BlocksOf(h) /\ c \in BlocksOf(h)
    <3>1. b[2] + h.hdr[b].size <= c[2]
      BY <2>2 DEF Sound, Apart
    <3>2. b # a => g.hdr[b].size = h.hdr[b].size
      BY <2>2, <1>0 DEF IsSplit
    <3>3. g.hdr[a].size = size
      BY <1>0 DEF IsSplit
    <3> QED BY <1>1, <2>1, <2>2, <3>1, <3>2, <3>3
  <2>3. CASE b = rest /\ c \in BlocksOf(h)
    <3>1. a[2] < c[2]
      BY <1>1, <1>2, <2>3
    <3>2. a[2] + h.hdr[a].size <= c[2]
      BY <1>2, <2>3, <3>1 DEF Sound, Apart
    <3>3. g.hdr[rest].size = h.hdr[a].size - size
      BY <1>0 DEF IsSplit
    <3> QED BY <1>1, <1>2, <2>3, <3>2, <3>3
  <2>4. CASE b = a /\ c = rest
    BY <1>1, <1>2, <2>4, <1>0 DEF IsSplit
  <2>5. CASE b \in BlocksOf(h) \ {a} /\ c = rest
    <3>1. g.hdr[b].size = h.hdr[b].size
      BY <2>5, <1>0 DEF IsSplit
    <3>2. CASE b[2] < a[2]
      <4>1. b[2] + h.hdr[b].size <= a[2]
        BY <1>2, <2>5, <3>2 DEF Sound, Apart
      <4> QED BY <1>1, <1>2, <2>5, <3>1, <4>1
    <3>3. CASE a[2] < b[2]
      <4>1. a[2] + h.hdr[a].size <= b[2]
        BY <1>2, <2>5, <3>3 DEF Sound, Apart
      <4> QED BY <1>1, <1>2, <2>1, <2>5, <4>1
    <3>4. a[2] # b[2]
      BY <1>1, <1>2, <2>5
    <3> QED BY <1>1, <2>5, <3>2, <3>3, <3>4
  <2>6. ~(b = rest /\ c = rest)
    BY <1>1, <1>2
  <2> QED BY <2>1, <2>2, <2>3, <2>4, <2>5, <2>6
<1> QED BY <1>3, <1>8, <1>9 DEF g, Sound

-----------------------------------------------------------------------------
(***************************************************************************)
(* Blocks that fill their os chunk: alloc_oschunk and its reverse; and     *)
(* flags.                                                                  *)
(***************************************************************************)

\* A block with both flags is the only one of its os chunk, and so is one of its
\* size.
LEMMA WholeIs ==
  ASSUME NEW h, Sound(h), NEW a \in BlocksOf(h)
  PROVE  /\ Whole(h, a) => a = <<a[1], 0>> /\ h.hdr[a].size = OsSize[a[1]]
         /\ a[2] = 0 /\ h.hdr[a].size = OsSize[a[1]] =>
              /\ Whole(h, a)
              /\ \A b \in BlocksOf(h) : b[1] = a[1] => b = a
<1>1. \A b \in BlocksOf(h) :
         /\ b = <<b[1], b[2]>> /\ b[2] \in Nat /\ b[2] < OsSize[b[1]]
         /\ OsSize[b[1]] \in Nat /\ h.hdr[b].size \in Nat /\ h.hdr[b].size > 0
  BY BlockIs DEF Sound
<1>2. Whole(h, a) => a = <<a[1], 0>> /\ h.hdr[a].size = OsSize[a[1]]
  BY <1>1 DEF Whole, Sound, Linked, LinkedLeft, LinkedRight
<1>3. ASSUME a[2] = 0, h.hdr[a].size = OsSize[a[1]] PROVE Whole(h, a)
  <2>1. h.hdr[a].first
    <3> SUFFICES ASSUME ~h.hdr[a].first PROVE FALSE
      OBVIOUS
    <3>1. LeftOf(h, a) \in BlocksOf(h) /\ LeftOf(h, a)[2] + h.hdr[LeftOf(h, a)].size = 0
      BY <1>3, Neighbours
    <3> QED BY <3>1, <1>1
  <2>2. h.hdr[a].last
    <3> SUFFICES ASSUME ~h.hdr[a].last PROVE FALSE
      OBVIOUS
    <3>1. /\ RightOf(h, a) \in BlocksOf(h) /\ RightOf(h, a)[1] = a[1]
          /\ RightOf(h, a)[2] = OsSize[a[1]]
      BY <1>1, <1>3, Neighbours
    <3> QED BY <3>1, <1>1
  <2> QED BY <2>1, <2>2 DEF Whole
<1>4. ASSUME a[2] = 0, h.hdr[a].size = OsSize[a[1]], NEW b \in BlocksOf(h), b[1] = a[1]
      PROVE  b = a
  <2>1. CASE 0 < b[2]
    <3>1. a[2] + h.hdr[a].size <= b[2]
      BY <1>4, <2>1 DEF Sound, Apart
    <3> QED BY <3>1, <1>1, <1>4
  <2>2. CASE b[2] = 0
    BY <1>1, <1>4, <2>2
  <2> QED BY <1>1, <2>1, <2>2
<1> QED BY <1>2, <1>3, <1>4

\* alloc_oschunk makes an os chunk without other blocks one free block.
IsFormatted(h, a, g) ==
  /\ BlocksOf(g) = BlocksOf(h) \cup {a}
  /\ g.varlist = h.varlist \cup {a}
  /\ g.hdr[a] \in Tag /\ g.hdr[a].size = OsSize[a[1]] /\ Whole(g, a) /\ ~g.hdr[a].used
  /\ \A b \in BlocksOf(h) \ {a} : g.hdr[b] = h.hdr[b]

LEMMA FormattedIs ==
  ASSUME NEW h, NEW poc \in OsChunks, NEW a, a = <<poc, 0>>
  PROVE  IsFormatted(h, a, Formatted(h, poc))
<1> DEFINE g == Formatted(h, poc)
           tag == [size |-> OsSize[poc], prevsize |-> 0, used |-> FALSE,
                   first |-> TRUE, last |-> TRUE]
<1>1. BlocksOf(g) = BlocksOf(h) \cup {a} /\ g.varlist = h.varlist \cup {a}
  BY DEF Formatted, BlocksOf
<1>2. g.hdr[a] = tag /\ \A b \in BlocksOf(h) \ {a} : g.hdr[b] = h.hdr[b]
  BY DEF Formatted, BlocksOf
<1>3. tag \in Tag /\ tag.size = OsSize[poc] /\ tag.first /\ tag.last /\ ~tag.used
  BY OsSizeAssumption DEF Tag
<1> HIDE DEF g, tag
<1> QED BY <1>1, <1>2, <1>3 DEF g, IsFormatted, Whole

\* A heap in which the os chunk of a block that fills it has just that block,
\* and the others are as they were, is sound.
LEMMA WholeSound ==
  ASSUME NEW h, Sound(h), NEW g, NEW poc,
         \A b \in BlocksOf(g) :
            \/ b \in BlocksOf(h) /\ b[1] # poc /\ g.hdr[b] = h.hdr[b]
            \/ /\ b[1] = poc /\ b \in Addr /\ b[2] = 0
               /\ g.hdr[b] \in Tag /\ Whole(g, b) /\ g.hdr[b].size = OsSize[poc],
         \A b \in BlocksOf(h) : b[1] # poc => b \in BlocksOf(g)
  PROVE  Sound(g)
<1>1. Tagged(g)
  BY DEF Sound, Tagged
<1>2. ASSUME NEW b \in BlocksOf(g) PROVE LinkedLeft(g, b) /\ LinkedRight(g, b)
  <2>1. CASE b[1] = poc
    <3>1. b[2] = 0 /\ Whole(g, b) /\ g.hdr[b].size = OsSize[poc] /\ OsSize[poc] \in Nat
      BY <1>1, <2>1, BlockIs
    <3> QED BY <2>1, <3>1 DEF LinkedLeft, LinkedRight, Whole
  <2>2. CASE b[1] # poc
    <3>1. b \in BlocksOf(h) /\ g.hdr[b] = h.hdr[b] /\ LinkedLeft(h, b) /\ LinkedRight(h, b)
      BY <2>2 DEF Sound, Linked
    <3>2. ~h.hdr[b].first =>
             LeftOf(h, b) \in BlocksOf(g) /\ g.hdr[LeftOf(h, b)] = h.hdr[LeftOf(h, b)]
      BY <2>2, <3>1, Neighbours
    <3>3. ~h.hdr[b].last =>
             RightOf(h, b) \in BlocksOf(g) /\ g.hdr[RightOf(h, b)] = h.hdr[RightOf(h, b)]
      BY <2>2, <3>1, Neighbours
    <3>4. LeftOf(g, b) = LeftOf(h, b) /\ RightOf(g, b) = RightOf(h, b)
      BY <3>1 DEF LeftOf, RightOf
    <3> QED BY <3>1, <3>2, <3>3, <3>4 DEF LinkedLeft, LinkedRight
  <2> QED BY <2>1, <2>2
<1>3. Apart(g)
  <2> SUFFICES ASSUME NEW b \in BlocksOf(g), NEW c \in BlocksOf(g), b[1] = c[1], b[2] < c[2]
               PROVE  b[2] + g.hdr[b].size <= c[2]
    BY DEF Apart
  <2>1. b[1] # poc
    OBVIOUS
  <2> QED BY <2>1 DEF Sound, Apart
<1> QED BY <1>1, <1>2, <1>3 DEF Sound, Linked

\* The used flags and varlist do not matter for soundness.
LEMMA FlagSound ==
  ASSUME NEW h, Sound(h), NEW g, BlocksOf(g) = BlocksOf(h),
         \A a \in BlocksOf(h) :
            /\ g.hdr[a] \in Tag
            /\ g.hdr[a].size = h.hdr[a].size /\ g.hdr[a].prevsize = h.hdr[a].prevsize
            /\ g.hdr[a].first = h.hdr[a].first /\ g.hdr[a].last = h.hdr[a].last
  PROVE  Sound(g)
<1>1. \A a \in BlocksOf(h) : LeftOf(g, a) = LeftOf(h, a) /\ RightOf(g, a) = RightOf(h, a)
  BY DEF LeftOf, RightOf
<1>2. Tagged(g) /\ Apart(g)
  BY DEF Sound, Tagged, Apart
<1>3. ASSUME NEW a \in BlocksOf(h) PROVE LinkedLeft(g, a) /\ LinkedRight(g, a)
  <2>1. LinkedLeft(h, a) /\ LinkedRight(h, a)
    BY DEF Sound, Linked
  <2> QED BY <1>1, <2>1, Neighbours DEF LinkedLeft, LinkedRight
<1> QED BY <1>2, <1>3 DEF Sound, Linked

-----------------------------------------------------------------------------
(***************************************************************************)
(* varlist, kept os chunks and free neighbours.                            *)
(***************************************************************************)

\* varlist holds the free blocks, save those that fill an os chunk on oslist.
Listed(h, os) == h.varlist = {a \in FreeIn(h) : a[1] \notin os}
KeptWhole(h, os) ==
  \A poc \in os : /\ <<poc, 0>> \in BlocksOf(h)
                  /\ h.hdr[<<poc, 0>>].size = OsSize[poc]
                  /\ ~h.hdr[<<poc, 0>>].used
Tidy(h, os) == Sound(h) /\ Listed(h, os) /\ KeptWhole(h, os)

\* A free block with a free block to its right.
Pair(h, a) == ~h.hdr[a].used /\ RightFree(h, a)
NoPair(h) == \A a \in BlocksOf(h) : ~Pair(h, a)
\* Two free blocks may be side by side only where one of them is a.
PairsAt(h, a) == \A b \in BlocksOf(h) : Pair(h, b) => b = a \/ RightOf(h, b) = a

\* The blocks in use are the same, and all but perhaps a have their sizes.
SameUse(h, g, a) ==
  /\ UsedIn(g) = UsedIn(h)
  /\ \A b \in UsedIn(h) \ {a} : g.hdr[b].size = h.hdr[b].size

\* A heap is known by its two fields.
LEMMA SameHeap ==
  ASSUME NEW h, NEW g, g.hdr = h.hdr, g.varlist = h.varlist, NEW os
  PROVE  /\ Tidy(h, os) => Tidy(g, os)
         /\ NoPair(h) => NoPair(g)
         /\ UsedIn(g) = UsedIn(h) /\ BlocksOf(g) = BlocksOf(h)
<1>1. /\ UsedIn(g) = UsedIn(h) /\ BlocksOf(g) = BlocksOf(h) /\ FreeIn(g) = FreeIn(h)
      /\ \A a : LeftOf(g, a) = LeftOf(h, a) /\ RightOf(g, a) = RightOf(h, a)
  BY DEF UsedIn, BlocksOf, FreeIn, LeftOf, RightOf
<1>2. Sound(h) => Sound(g)
  BY <1>1 DEF Sound, Tagged, Linked, LinkedLeft, LinkedRight, Apart
<1>3. NoPair(h) => NoPair(g)
  BY <1>1 DEF NoPair, Pair, RightFree
<1> QED BY <1>1, <1>2, <1>3 DEF Tidy, Listed, KeptWhole

\* A block in use, or on varlist, does not lie in a kept os chunk, and neither
\* do its neighbours.
LEMMA NotKept ==
  ASSUME NEW h, NEW os, Tidy(h, os), NEW a \in BlocksOf(h), h.hdr[a].used \/ a \in h.varlist
  PROVE  a[1] \notin os
<1> SUFFICES ASSUME a[1] \in os PROVE FALSE
  OBVIOUS
<1>1. a \notin h.varlist
  BY DEF Tidy, Listed
<1> DEFINE b == <<a[1], 0>>
<1>2. b \in BlocksOf(h) /\ h.hdr[b].size = OsSize[b[1]] /\ b[2] = 0 /\ ~h.hdr[b].used
  BY DEF Tidy, KeptWhole
<1>3. a = b
  BY <1>2, WholeIs DEF Tidy
<1> QED BY <1>1, <1>2, <1>3

\* concat_two_blocks of a block and the free block to its right.
LEMMA ConcatTidy ==
  ASSUME NEW h, NEW os, Tidy(h, os), NEW left \in BlocksOf(h), left[1] \notin os,
         RightFree(h, left), NEW g, g = Concat(h, left, RightOf(h, left))
  PROVE  Tidy(g, os) /\ SameUse(h, g, left)
<1> DEFINE right == RightOf(h, left)
<1>1. ~h.hdr[left].last /\ ~h.hdr[right].used
  BY DEF RightFree
<1>2. right \in BlocksOf(h) /\ right # left /\ right[1] = left[1]
  BY <1>1, Neighbours DEF Tidy
<1>3. Sound(g)
  BY <1>1, ConcatSound DEF Tidy
<1>4. IsConcat(h, left, right, g)
  BY <1>1, ConcatIs DEF Tidy
<1> HIDE DEF right
<1>5. SameUse(h, g, left)
  BY <1>1, <1>2, <1>4 DEF SameUse, UsedIn, IsConcat
<1>6. Listed(g, os)
  BY <1>1, <1>2, <1>4 DEF Tidy, Listed, FreeIn, IsConcat
<1>7. KeptWhole(g, os)
  <2> SUFFICES ASSUME NEW poc \in os
               PROVE  /\ <<poc, 0>> \in BlocksOf(g)
                      /\ g.hdr[<<poc, 0>>].size = OsSize[poc]
                      /\ ~g.hdr[<<poc, 0>>].used
    BY DEF KeptWhole
  <2>1. <<poc, 0>> # left /\ <<poc, 0>> # right
    BY <1>2
  <2> QED BY <1>4, <2>1 DEF Tidy, KeptWhole, IsConcat
<1> QED BY <1>3, <1>5, <1>6, <1>7 DEF Tidy

\* split_block.
LEMMA SplitTidy ==
  ASSUME NEW h, NEW os, Tidy(h, os), NEW a \in BlocksOf(h), a[1] \notin os,
         NEW size \in Nat \ {0}, CanSplit(h, a, size), NEW g, g = Split(h, a, size)
  PROVE  Tidy(g, os) /\ SameUse(h, g, a)
<1> DEFINE rest == <<a[1], a[2] + size>>
<1>1. IsSplit(h, a, size, rest, g) /\ rest[1] \notin os
  BY SplitIs DEF Tidy
<1> HIDE DEF rest
<1>2. Sound(g)
  BY SplitSound DEF Tidy
<1>3. SameUse(h, g, a)
  BY <1>1 DEF SameUse, UsedIn, IsSplit
<1>4. FreeIn(g) = FreeIn(h) \cup {rest}
  BY <1>1 DEF FreeIn, IsSplit
<1>5. Listed(g, os)
  BY <1>1, <1>4 DEF Tidy, Listed, IsSplit
<1>6. KeptWhole(g, os)
  <2> SUFFICES ASSUME NEW poc \in os
               PROVE  /\ <<poc, 0>> \in BlocksOf(g)
                      /\ g.hdr[<<poc, 0>>].size = OsSize[poc]
                      /\ ~g.hdr[<<poc, 0>>].used
    BY DEF KeptWhole
  <2>1. <<poc, 0>> # a
    OBVIOUS
  <2> QED BY <1>1, <2>1 DEF Tidy, KeptWhole, IsSplit
<1> QED BY <1>2, <1>3, <1>5, <1>6 DEF Tidy

\* try_concat_free_chunk_forward of a: afterwards no free block follows a.
LEMMA ForwardTidy ==
  ASSUME NEW h, NEW os, Tidy(h, os), NEW a \in BlocksOf(h), a[1] \notin os, PairsAt(h, a),
         NEW g, g = ConcatForward(h, a)
  PROVE  /\ Tidy(g, os) /\ SameUse(h, g, a)
         /\ a \in BlocksOf(g) /\ g.hdr[a].used = h.hdr[a].used
         /\ ~RightFree(g, a) /\ PairsAt(g, a)
         /\ h.hdr[a].used => NoPair(g)
<1>1. ASSUME ~RightFree(h, a)
      PROVE  /\ Tidy(g, os) /\ SameUse(h, g, a)
             /\ a \in BlocksOf(g) /\ g.hdr[a].used = h.hdr[a].used
             /\ ~RightFree(g, a) /\ PairsAt(g, a)
  <2>1. g = h
    BY <1>1 DEF ConcatForward
  <2> QED BY <2>1, <1>1 DEF SameUse
<1>2. ASSUME RightFree(h, a)
      PROVE  /\ Tidy(g, os) /\ SameUse(h, g, a)
             /\ a \in BlocksOf(g) /\ g.hdr[a].used = h.hdr[a].used
             /\ ~RightFree(g, a) /\ PairsAt(g, a)
  <2> DEFINE right == RightOf(h, a)
  <2>1. g = Concat(h, a, right)
    BY <1>2 DEF ConcatForward
  <2>2. Tidy(g, os) /\ SameUse(h, g, a)
    BY <1>2, <2>1, ConcatTidy
  <2>3. /\ ~h.hdr[a].last /\ ~h.hdr[right].used
        /\ right \in BlocksOf(h) /\ right # a
    BY <1>2, Neighbours DEF RightFree, Tidy
  <2>4. IsConcat(h, a, right, g)
    BY <2>1, <2>3, ConcatIs DEF Tidy
  <2>5. Sound(h) /\ Sound(g)
    BY <2>2 DEF Tidy
  <2>6. ~h.hdr[right].last =>
           /\ RightOf(h, right) \in BlocksOf(h) /\ RightOf(h, right) # right
           /\ RightOf(h, right) # a
    <3>1. \A b \in BlocksOf(h) : b[2] \in Nat /\ h.hdr[b].size \in Nat /\ h.hdr[b].size > 0
      BY <2>5, BlockIs DEF Sound
    <3>2. right[2] = a[2] + h.hdr[a].size
      BY <2>3, <2>5, Neighbours
    <3>3. ~h.hdr[right].last => /\ RightOf(h, right) \in BlocksOf(h) /\ RightOf(h, right) # right
                                /\ RightOf(h, right)[2] = right[2] + h.hdr[right].size
      BY <2>3, <2>5, Neighbours
    <3> QED BY <2>3, <3>1, <3>2, <3>3
  <2>7. ~h.hdr[right].last => RightOf(g, a) = RightOf(h, right)
    BY <2>3, <2>4, <2>5, BlockIs DEF RightOf, IsConcat, Sound
  <2>8. ~RightFree(h, right)
    BY <2>3, <2>6 DEF PairsAt, Pair, RightFree
  <2>9. ~RightFree(g, a)
    BY <2>4, <2>6, <2>7, <2>8 DEF RightFree, IsConcat
  <2>10. PairsAt(g, a)
    <3> SUFFICES ASSUME NEW b \in BlocksOf(g), Pair(g, b), b # a PROVE RightOf(g, b) = a
      BY DEF PairsAt
    <3>1. /\ b \in BlocksOf(h) /\ b # right /\ ~h.hdr[b].used /\ ~h.hdr[b].last
          /\ RightOf(g, b) = RightOf(h, b)
      BY <2>4 DEF Pair, RightFree, IsConcat, RightOf
    <3>2. RightOf(h, b) \in BlocksOf(h) /\ RightOf(h, b) # right
      BY <2>3, <2>5, <3>1, Neighbours
    <3>3. ~h.hdr[RightOf(h, b)].used
      BY <2>4, <3>1, <3>2 DEF Pair, RightFree, IsConcat
    <3> QED BY <3>1, <3>3 DEF PairsAt, Pair, RightFree
  <2> QED BY <2>2, <2>4, <2>9, <2>10 DEF IsConcat
<1>3. ASSUME h.hdr[a].used, g.hdr[a].used = h.hdr[a].used, PairsAt(g, a), a \in BlocksOf(g),
             Tidy(g, os)
      PROVE  NoPair(g)
  BY <1>3 DEF NoPair, PairsAt, Pair, RightFree
<1> QED BY <1>1, <1>2, <1>3

\* The second half of try_concat_free_chunk, for a free block a not followed by
\* a free block: afterwards no two free blocks are side by side.
LEMMA BackwardTidy ==
  ASSUME NEW h, NEW os, Tidy(h, os), NEW a \in BlocksOf(h), a[1] \notin os, ~h.hdr[a].used,
         PairsAt(h, a), ~RightFree(h, a), NEW g, g = ConcatBackward(h, a),
         NEW b, b = Joined(h, a)
  PROVE  /\ Tidy(g, os) /\ NoPair(g) /\ b[1] = a[1]
         /\ b \in BlocksOf(g) /\ ~g.hdr[b].used
         /\ UsedIn(g) = UsedIn(h) /\ \A u \in UsedIn(h) : g.hdr[u].size = h.hdr[u].size
<1>1. CASE ~LeftFree(h, a)
  <2>1. g = h /\ b = a
    BY <1>1 DEF ConcatBackward, Joined
  <2>2. NoPair(h)
    <3> SUFFICES ASSUME NEW c \in BlocksOf(h), Pair(h, c) PROVE FALSE
      BY DEF NoPair
    <3>1. RightOf(h, c) = a /\ ~h.hdr[c].last
      BY DEF PairsAt, Pair, RightFree
    <3>2. ~h.hdr[a].first /\ LeftOf(h, a) = c
      BY <3>1, Neighbours DEF Tidy
    <3> QED BY <1>1, <3>2 DEF LeftFree, Pair
  <2> QED BY <2>1, <2>2
<1>2. CASE LeftFree(h, a)
  <2> DEFINE left == LeftOf(h, a)
  <2>1. ~h.hdr[a].first /\ ~h.hdr[left].used
    BY <1>2 DEF LeftFree
  <2>2. /\ left \in BlocksOf(h) /\ left # a /\ left[1] = a[1]
        /\ ~h.hdr[left].last /\ RightOf(h, left) = a
    BY <2>1, Neighbours DEF Tidy
  <2>3. g = Concat(h, left, a) /\ b = left
    BY <1>2 DEF ConcatBackward, Joined
  <2>4. RightFree(h, left)
    BY <2>2 DEF RightFree
  <2>5. Tidy(g, os) /\ SameUse(h, g, left)
    BY <2>2, <2>3, <2>4, ConcatTidy
  <2>6. IsConcat(h, left, a, g) /\ Sound(h) /\ Sound(g)
    BY <2>2, <2>3, <2>5, ConcatIs DEF Tidy
  <2> HIDE DEF left
  <2>7. ASSUME NEW c \in BlocksOf(g), Pair(g, c) PROVE FALSE
    <3>1. CASE c = left
      <4>1. ~h.hdr[a].last /\ RightOf(h, a) \in BlocksOf(h) /\ RightOf(h, a) # a
        BY <2>6, <2>7, <3>1, Neighbours DEF IsConcat, Pair, RightFree
      <4>2. RightOf(g, left) = RightOf(h, a)
        <5>1. /\ a[1] = left[1] /\ a[2] = left[2] + h.hdr[left].size
              /\ left[2] \in Nat /\ h.hdr[left].size \in Nat /\ h.hdr[a].size \in Nat
          BY <2>2, <2>6, Neighbours, BlockIs DEF Sound
        <5>2. g.hdr[left].size = h.hdr[left].size + h.hdr[a].size
          BY <2>6 DEF IsConcat
        <5> QED BY <5>1, <5>2 DEF RightOf
      <4>3. RightFree(h, a)
        BY <2>6, <2>7, <3>1, <4>1, <4>2 DEF IsConcat, Pair, RightFree
      <4> QED BY <4>3
    <3>2. CASE c # left
      <4>1. /\ c \in BlocksOf(h) /\ c # a /\ ~h.hdr[c].used /\ ~h.hdr[c].last
            /\ RightOf(g, c) = RightOf(h, c)
        BY <2>6, <2>7, <3>2 DEF IsConcat, Pair, RightFree, RightOf
      <4>2. RightOf(h, c) \in BlocksOf(h) /\ RightOf(h, c) # a
        BY <2>2, <2>6, <3>2, <4>1, Neighbours
      <4>3. ~h.hdr[RightOf(h, c)].used
        BY <2>6, <2>7, <4>1, <4>2 DEF IsConcat, Pair, RightFree
      <4> QED BY <4>1, <4>2, <4>3 DEF PairsAt, Pair, RightFree
    <3> QED BY <3>1, <3>2
  <2>8. left \in BlocksOf(g) /\ ~g.hdr[left].used /\ left \notin UsedIn(h)
    BY <2>1, <2>6 DEF IsConcat, UsedIn, left
  <2> QED BY <2>2, <2>3, <2>5, <2>7, <2>8 DEF NoPair, SameUse
<1> QED BY <1>1, <1>2

\* split_block of a block that is not followed by a free one: the rest is not
\* followed by one either.
LEMMA SplitPairs ==
  ASSUME NEW h, Sound(h), NoPair(h), NEW a \in BlocksOf(h), ~RightFree(h, a),
         NEW size \in Nat \ {0}, CanSplit(h, a, size), NEW g, g = Split(h, a, size)
  PROVE  \A b \in BlocksOf(g) : b # a => ~Pair(g, b)
<1> DEFINE rest == <<a[1], a[2] + size>>
<1>1. IsSplit(h, a, size, rest, g) /\ Sound(g)
  BY SplitIs, SplitSound
<1>2. ~Pair(g, rest)
  <2> SUFFICES ASSUME ~h.hdr[a].last, ~g.hdr[RightOf(g, rest)].used PROVE FALSE
    BY <1>1 DEF Pair, RightFree, IsSplit
  <2>1. RightOf(h, a) \in BlocksOf(h) \ {a}
    BY Neighbours
  <2>2. RightOf(g, rest) = RightOf(h, a)
    <3>1. a[2] \in Nat /\ h.hdr[a].size \in Nat
      BY BlockIs DEF Sound
    <3>2. g.hdr[rest].size = h.hdr[a].size - size
      BY <1>1 DEF IsSplit
    <3> QED BY <3>1, <3>2 DEF RightOf
  <2> QED BY <1>1, <2>1, <2>2 DEF RightFree, IsSplit
<1> HIDE DEF rest
<1>3. ASSUME NEW b \in BlocksOf(h) \ {a}, Pair(g, b) PROVE FALSE
  <2>1. ~h.hdr[b].used /\ ~h.hdr[b].last /\ RightOf(g, b) = RightOf(h, b)
    BY <1>1, <1>3 DEF Pair, RightFree, IsSplit, RightOf
  <2>2. RightOf(h, b) \in BlocksOf(h)
    BY <2>1, Neighbours
  <2>3. ~h.hdr[RightOf(h, b)].used
    BY <1>1, <1>3, <2>1, <2>2 DEF Pair, RightFree, IsSplit
  <2> QED BY <2>1, <2>3 DEF NoPair, Pair, RightFree
<1> QED BY <1>1, <1>2, <1>3 DEF IsSplit

-----------------------------------------------------------------------------
(***************************************************************************)
(* SysFreeMem_Var, the end of SysGetMem_Var, and alloc_oschunk.            *)
(***************************************************************************)

\* What has to hold of a heap between the routines.
Orderly(h, os) == Tidy(h, os) /\ NoPair(h)

\* The tags of h when a is flagged as used, or as free.
Flagged(h, a, used) == [h.hdr EXCEPT ![a].used = used]

\* Setting the used flag of a block, or clearing it, keeps the heap sound.
LEMMA SetUsed ==
  ASSUME NEW h, Sound(h), NEW a \in BlocksOf(h), NEW used \in BOOLEAN,
         NEW g, g.hdr = Flagged(h, a, used)
  PROVE  /\ Sound(g) /\ BlocksOf(g) = BlocksOf(h) /\ g.hdr[a].used = used
         /\ \A b \in BlocksOf(h) : /\ b # a => g.hdr[b].used = h.hdr[b].used
                                   /\ g.hdr[b].size = h.hdr[b].size
                                   /\ g.hdr[b].last = h.hdr[b].last
                                   /\ RightOf(g, b) = RightOf(h, b)
<1>1. BlocksOf(g) = BlocksOf(h) /\ \A b \in BlocksOf(h) \ {a} : g.hdr[b] = h.hdr[b]
  BY DEF BlocksOf, Flagged
<1> DEFINE tag == h.hdr[a]
           new == [tag EXCEPT !.used = used]
<1>2. g.hdr[a] = new /\ tag \in Tag
  BY BlockIs DEF Sound, BlocksOf, Flagged
<1> HIDE DEF tag
<1>3. /\ new \in Tag /\ new.used = used
      /\ new.size = tag.size /\ new.prevsize = tag.prevsize
      /\ new.first = tag.first /\ new.last = tag.last
  BY <1>2 DEF Tag
<1> HIDE DEF new
<1>4. \A b \in BlocksOf(h) :
        /\ g.hdr[b] \in Tag
        /\ g.hdr[b].size = h.hdr[b].size /\ g.hdr[b].prevsize = h.hdr[b].prevsize
        /\ g.hdr[b].first = h.hdr[b].first /\ g.hdr[b].last = h.hdr[b].last
  BY <1>1, <1>2, <1>3, BlockIs DEF Sound, tag
<1>5. Sound(g)
  BY <1>1, <1>4, FlagSound
<1> QED BY <1>1, <1>2, <1>3, <1>4, <1>5 DEF RightOf

\* A freed block is joined with its free neighbours; if the result fills its os
\* chunk, that is kept or unmapped.
LEMMA FreeBlockTidy ==
  ASSUME Orderly(Heap, oslist), NEW a \in UsedIn(Heap), FreeBlock(a)
  PROVE  /\ Orderly(Heap', oslist')
         /\ UsedIn(Heap') = UsedIn(Heap) \ {a}
         /\ \A u \in UsedIn(Heap) \ {a} : hdr'[u].size = hdr[u].size
         /\ oslist' \subseteq oslist \cup OsChunks
<1> DEFINE h0 == [hdr |-> [hdr EXCEPT ![a].used = FALSE], varlist |-> varlist \cup {a}]
           fwd == ConcatForward(h0, a)
           h == ConcatBackward(fwd, a)
           b == Joined(fwd, a)
<1>1. /\ Heap.hdr = hdr /\ Heap.varlist = varlist /\ a \in BlocksOf(Heap) /\ hdr[a].used
      /\ Heap'.hdr = hdr' /\ Heap'.varlist = varlist'
  BY DEF Heap, UsedIn
<1>2. a[1] \notin oslist
  BY <1>1, NotKept DEF Orderly
<1>3. h0.hdr = Flagged(Heap, a, FALSE) /\ h0.varlist = varlist \cup {a}
  BY <1>1 DEF Flagged
<1>5. fwd = Released(Heap, a)
  BY <1>1 DEF Released
<1> HIDE DEF h0
<1>4. /\ Sound(h0) /\ BlocksOf(h0) = BlocksOf(Heap) /\ ~h0.hdr[a].used
      /\ \A c \in BlocksOf(Heap) : /\ c # a => h0.hdr[c].used = hdr[c].used
                                   /\ h0.hdr[c].size = hdr[c].size
                                   /\ h0.hdr[c].last = hdr[c].last
                                   /\ RightOf(h0, c) = RightOf(Heap, c)
  <2> DEFINE used == FALSE
  <2>1. Sound(Heap) /\ h0.hdr = Flagged(Heap, a, used) /\ used \in BOOLEAN
    BY <1>3 DEF Orderly, Tidy
  <2>2. ~used
    OBVIOUS
  <2> HIDE DEF used
  <2>3. /\ Sound(h0) /\ BlocksOf(h0) = BlocksOf(Heap) /\ h0.hdr[a].used = used
        /\ \A c \in BlocksOf(Heap) : /\ c # a => h0.hdr[c].used = Heap.hdr[c].used
                                     /\ h0.hdr[c].size = Heap.hdr[c].size
                                     /\ h0.hdr[c].last = Heap.hdr[c].last
                                     /\ RightOf(h0, c) = RightOf(Heap, c)
    BY <1>1, <2>1, SetUsed
  <2> QED BY <1>1, <2>2, <2>3
<1>6. UsedIn(h0) = UsedIn(Heap) \ {a} /\ FreeIn(h0) = FreeIn(Heap) \cup {a}
  BY <1>1, <1>4 DEF UsedIn, FreeIn
<1>7. Tidy(h0, oslist)
  <2>1. Listed(h0, oslist)
    BY <1>1, <1>2, <1>3, <1>6 DEF Orderly, Tidy, Listed
  <2>2. KeptWhole(h0, oslist)
    BY <1>1, <1>2, <1>4 DEF Orderly, Tidy, KeptWhole
  <2> QED BY <1>4, <2>1, <2>2 DEF Tidy
<1>8. PairsAt(h0, a)
  <2> SUFFICES ASSUME NEW c \in BlocksOf(h0), Pair(h0, c), c # a PROVE RightOf(h0, c) = a
    BY DEF PairsAt
  <2>1. ~h0.hdr[c].last /\ RightOf(h0, c) \in BlocksOf(h0)
    BY <1>4, Neighbours DEF Pair, RightFree
  <2> QED BY <1>1, <1>4, <2>1 DEF Orderly, NoPair, Pair, RightFree
<1>9. /\ Tidy(fwd, oslist) /\ SameUse(h0, fwd, a)
      /\ a \in BlocksOf(fwd) /\ ~fwd.hdr[a].used /\ ~RightFree(fwd, a) /\ PairsAt(fwd, a)
  BY <1>1, <1>2, <1>4, <1>7, <1>8, ForwardTidy
<1> HIDE DEF fwd
<1>10. /\ Tidy(h, oslist) /\ NoPair(h) /\ b[1] = a[1] /\ b \in BlocksOf(h) /\ ~h.hdr[b].used
       /\ UsedIn(h) = UsedIn(fwd) /\ \A u \in UsedIn(fwd) : h.hdr[u].size = fwd.hdr[u].size
  BY <1>2, <1>9, BackwardTidy
<1> HIDE DEF h, b
<1>11. /\ UsedIn(h) = UsedIn(Heap) \ {a}
       /\ \A u \in UsedIn(h) : h.hdr[u].size = hdr[u].size
  BY <1>4, <1>6, <1>9, <1>10 DEF SameUse, UsedIn
<1>12. CASE ~Whole(h, b)
  <2>1. hdr' = h.hdr /\ varlist' = h.varlist /\ oslist' = oslist
    BY <1>5, <1>12 DEF FreeBlock, SetHeap, h, b
  <2>2. Orderly(Heap', oslist') /\ UsedIn(Heap') = UsedIn(h)
    BY <1>1, <1>10, <2>1, SameHeap DEF Orderly
  <2> QED BY <1>11, <2>1, <2>2
<1>13. CASE Whole(h, b)
  <2>1. EmptyOsChunk(h, b)
    BY <1>5, <1>13 DEF FreeBlock, h, b
  <2>2. /\ b = <<b[1], 0>> /\ h.hdr[b].size = OsSize[b[1]] /\ b[2] = 0
        /\ \A c \in BlocksOf(h) : c[1] = b[1] => c = b
    BY <1>10, <1>13, WholeIs DEF Tidy
  <2>3. b[1] \in OsChunks
    BY <1>10, BlockIs DEF Tidy, Sound
  <2>4. CASE Kept(b[1])
    <3>1. hdr' = h.hdr /\ varlist' = h.varlist \ {b} /\ oslist' = oslist \cup {b[1]}
      BY <2>1, <2>4 DEF EmptyOsChunk
    <3> DEFINE g == [hdr |-> h.hdr, varlist |-> h.varlist \ {b}]
    <3>2. g.hdr = h.hdr /\ g.varlist = h.varlist \ {b}
      OBVIOUS
    <3> HIDE DEF g
    <3>3. /\ BlocksOf(g) = BlocksOf(h) /\ FreeIn(g) = FreeIn(h) /\ UsedIn(g) = UsedIn(h)
          /\ \A c : RightOf(g, c) = RightOf(h, c)
      BY <3>2 DEF BlocksOf, FreeIn, UsedIn, RightOf
    <3>4. Sound(g)
      BY <1>10, <3>2, <3>3, FlagSound, BlockIs DEF Tidy, Sound
    <3>5. Listed(g, oslist')
      <4>1. b[1] \notin oslist
        BY <1>2, <1>10
      <4>2. \A c \in FreeIn(h) : c[1] = b[1] => c = b
        BY <2>2 DEF FreeIn
      <4> QED BY <1>10, <3>1, <3>2, <3>3, <4>1, <4>2 DEF Tidy, Listed
    <3>6. KeptWhole(g, oslist')
      <4> SUFFICES ASSUME NEW poc \in oslist'
                   PROVE  /\ <<poc, 0>> \in BlocksOf(h) /\ ~h.hdr[<<poc, 0>>].used
                          /\ h.hdr[<<poc, 0>>].size = OsSize[poc]
        BY <3>2, <3>3 DEF KeptWhole
      <4>1. CASE poc = b[1]
        BY <1>10, <2>2, <4>1
      <4>2. CASE poc \in oslist
        BY <1>10, <4>2 DEF Tidy, KeptWhole
      <4> QED BY <3>1, <4>1, <4>2
    <3>7. NoPair(g)
      BY <1>10, <3>2, <3>3 DEF NoPair, Pair, RightFree
    <3>8. Orderly(Heap', oslist') /\ UsedIn(Heap') = UsedIn(g)
      BY <1>1, <3>1, <3>2, <3>4, <3>5, <3>6, <3>7, SameHeap DEF Orderly, Tidy
    <3> QED BY <1>11, <2>3, <3>1, <3>3, <3>8
  <2>5. CASE ~Kept(b[1])
    <3>1. /\ hdr' = [c \in BlocksOf(h) \ {b} |-> h.hdr[c]] /\ varlist' = h.varlist \ {b}
          /\ oslist' = oslist
      BY <2>1, <2>5 DEF EmptyOsChunk, BlocksOf
    <3> DEFINE g == [hdr |-> [c \in BlocksOf(h) \ {b} |-> h.hdr[c]],
                     varlist |-> h.varlist \ {b}]
    <3>2. /\ BlocksOf(g) = BlocksOf(h) \ {b} /\ g.varlist = h.varlist \ {b}
          /\ \A c \in BlocksOf(h) \ {b} : g.hdr[c] = h.hdr[c]
          /\ g.hdr = hdr' /\ g.varlist = varlist'
      BY <3>1 DEF BlocksOf
    <3> HIDE DEF g
    <3>3. FreeIn(g) = FreeIn(h) \ {b} /\ UsedIn(g) = UsedIn(h)
      BY <1>10, <3>2 DEF FreeIn, UsedIn
    <3>4. Sound(g)
      <4>1. \A c \in BlocksOf(g) : c \in BlocksOf(h) /\ c[1] # b[1] /\ g.hdr[c] = h.hdr[c]
        BY <2>2, <3>2
      <4>2. \A c \in BlocksOf(h) : c[1] # b[1] => c \in BlocksOf(g)
        BY <3>2
      <4> QED BY <1>10, <4>1, <4>2, WholeSound DEF Tidy
    <3>5. Listed(g, oslist')
      BY <1>10, <3>1, <3>2, <3>3 DEF Tidy, Listed
    <3>6. KeptWhole(g, oslist')
      <4>1. \A poc \in oslist : <<poc, 0>> # b
        BY <1>2, <1>10
      <4> QED BY <1>10, <3>1, <3>2, <4>1 DEF Tidy, KeptWhole
    <3>7. NoPair(g)
      <4> SUFFICES ASSUME NEW c \in BlocksOf(g), Pair(g, c) PROVE FALSE
        BY DEF NoPair
      <4>1. c \in BlocksOf(h) /\ c # b /\ ~h.hdr[c].used /\ ~h.hdr[c].last
            /\ RightOf(g, c) = RightOf(h, c)
        BY <3>2 DEF Pair, RightFree, RightOf
      <4>2. RightOf(h, c) \in BlocksOf(h) /\ RightOf(h, c)[1] = c[1]
        BY <1>10, <4>1, Neighbours DEF Tidy
      <4>3. RightOf(h, c) # b
        BY <2>2, <4>1, <4>2
      <4> QED BY <1>10, <3>2, <4>1, <4>2, <4>3 DEF NoPair, Pair, RightFree
    <3>8. Orderly(Heap', oslist') /\ UsedIn(Heap') = UsedIn(g)
      BY <1>1, <3>1, <3>2, <3>4, <3>5, <3>6, <3>7, SameHeap DEF Orderly, Tidy
    <3> QED BY <1>10, <1>11, <3>1, <3>2, <3>3, <3>8 DEF UsedIn
  <2> QED BY <2>4, <2>5
<1> QED BY <1>12, <1>13

\* The end of SysGetMem_Var: a free block leaves varlist and is used, as far as
\* needed.
LEMMA TakeTidy ==
  ASSUME NEW h, h = [hdr |-> h.hdr, varlist |-> h.varlist], NEW os, Orderly(h, os),
         NEW a \in FreeIn(h), a[1] \notin os, NEW size \in Nat \ {0},
         NEW g, g = Take(h, a, size)
  PROVE  /\ Orderly(g, os) /\ UsedIn(g) = UsedIn(h) \cup {a}
         /\ \A u \in UsedIn(h) : g.hdr[u].size = h.hdr[u].size
<1> DEFINE h1 == [h EXCEPT !.varlist = @ \ {a}]
           s == Split(h1, a, size)
           rest == <<a[1], a[2] + size>>
<1>1. a \in BlocksOf(h) /\ ~h.hdr[a].used
  BY DEF FreeIn
<1>2. h1.hdr = h.hdr /\ h1.varlist = h.varlist \ {a}
  OBVIOUS
<1>3. g = [s EXCEPT !.hdr[a].used = TRUE]
  BY DEF Take
<1>4. s = [hdr |-> s.hdr, varlist |-> s.varlist]
  BY DEF Split
<1> HIDE DEF h1
<1>5. /\ BlocksOf(h1) = BlocksOf(h) /\ UsedIn(h1) = UsedIn(h) /\ FreeIn(h1) = FreeIn(h)
      /\ \A b : RightOf(h1, b) = RightOf(h, b)
  BY <1>2 DEF BlocksOf, UsedIn, FreeIn, RightOf
<1>6. Sound(h1) /\ NoPair(h1)
  <2>1. Sound(h1)
    BY <1>2, <1>5, FlagSound, BlockIs DEF Orderly, Tidy, Sound
  <2> QED BY <1>2, <1>5, <2>1 DEF Orderly, NoPair, Pair, RightFree
<1>7. ~RightFree(h1, a)
  BY <1>1, <1>2, <1>5, <1>6 DEF NoPair, Pair
<1>8. /\ Sound(s) /\ a \in BlocksOf(s) /\ ~s.hdr[a].used
      /\ \A b \in BlocksOf(s) : b # a => ~Pair(s, b)
      /\ UsedIn(s) = UsedIn(h)
      /\ FreeIn(s) \ {a} = {b \in BlocksOf(s) \ {a} : ~s.hdr[b].used}
      /\ s.varlist = {b \in FreeIn(s) : b[1] \notin os} \ {a}
      /\ \A b \in BlocksOf(h) \ {a} : /\ b \in BlocksOf(s) /\ s.hdr[b].size = h.hdr[b].size
                                      /\ s.hdr[b].used = h.hdr[b].used
  <2>1. CASE ~CanSplit(h1, a, size)
    <3>1. s = h1
      BY <2>1 DEF Split
    <3> QED BY <1>1, <1>2, <1>5, <1>6, <3>1 DEF NoPair, Orderly, Tidy, Listed, FreeIn, UsedIn
  <2>2. CASE CanSplit(h1, a, size)
    <3>1. IsSplit(h1, a, size, rest, s) /\ Sound(s)
      BY <1>1, <1>5, <1>6, <2>2, SplitIs, SplitSound
    <3>2. \A b \in BlocksOf(s) : b # a => ~Pair(s, b)
      BY <1>1, <1>5, <1>6, <1>7, <2>2, SplitPairs
    <3>3. rest[1] \notin os
      OBVIOUS
    <3> HIDE DEF s, rest
    <3>4. UsedIn(s) = UsedIn(h) /\ FreeIn(s) = FreeIn(h) \cup {rest}
      BY <1>1, <1>2, <1>5, <3>1 DEF IsSplit, UsedIn, FreeIn
    <3>5. s.varlist = {b \in FreeIn(s) : b[1] \notin os} \ {a}
      BY <1>2, <1>5, <3>1, <3>3, <3>4 DEF IsSplit, Orderly, Tidy, Listed
    <3> QED BY <1>1, <1>2, <1>5, <3>1, <3>2, <3>4, <3>5 DEF IsSplit, FreeIn
  <2> QED BY <2>1, <2>2
<1> HIDE DEF s, rest
<1>9. g.hdr = Flagged(s, a, TRUE) /\ g.varlist = s.varlist
  BY <1>3, <1>4 DEF Flagged
<1>10. /\ Sound(g) /\ BlocksOf(g) = BlocksOf(s) /\ g.hdr[a].used
       /\ \A b \in BlocksOf(s) : /\ b # a => g.hdr[b].used = s.hdr[b].used
                                 /\ g.hdr[b].size = s.hdr[b].size
                                 /\ g.hdr[b].last = s.hdr[b].last
                                 /\ RightOf(g, b) = RightOf(s, b)
  <2> DEFINE used == TRUE
  <2>1. g.hdr = Flagged(s, a, used) /\ used \in BOOLEAN
    BY <1>9
  <2>2. used
    OBVIOUS
  <2> HIDE DEF used
  <2>3. /\ Sound(g) /\ BlocksOf(g) = BlocksOf(s) /\ g.hdr[a].used = used
        /\ \A b \in BlocksOf(s) : /\ b # a => g.hdr[b].used = s.hdr[b].used
                                  /\ g.hdr[b].size = s.hdr[b].size
                                  /\ g.hdr[b].last = s.hdr[b].last
                                  /\ RightOf(g, b) = RightOf(s, b)
    BY <1>8, <2>1, SetUsed
  <2> QED BY <2>2, <2>3
<1>11. FreeIn(g) = FreeIn(s) \ {a} /\ UsedIn(g) = UsedIn(h) \cup {a}
  BY <1>8, <1>10 DEF FreeIn, UsedIn
<1>12. NoPair(g)
  <2> SUFFICES ASSUME NEW b \in BlocksOf(g), Pair(g, b) PROVE FALSE
    BY DEF NoPair
  <2>1. b # a /\ b \in BlocksOf(s) /\ ~s.hdr[b].used /\ ~s.hdr[b].last
    BY <1>10 DEF Pair, RightFree
  <2>2. RightOf(s, b) \in BlocksOf(s)
    BY <1>8, <2>1, Neighbours
  <2>3. RightOf(s, b) # a /\ ~s.hdr[RightOf(s, b)].used
    BY <1>10, <2>1, <2>2 DEF Pair, RightFree
  <2> QED BY <1>8, <2>1, <2>3 DEF Pair, RightFree
<1>13. Listed(g, os)
  BY <1>8, <1>9, <1>11 DEF Listed
<1>14. KeptWhole(g, os)
  <2> SUFFICES ASSUME NEW poc \in os
               PROVE  /\ <<poc, 0>> \in BlocksOf(g)
                      /\ g.hdr[<<poc, 0>>].size = OsSize[poc]
                      /\ ~g.hdr[<<poc, 0>>].used
    BY DEF KeptWhole
  <2> DEFINE b == <<poc, 0>>
  <2>1. b \in BlocksOf(h) \ {a} /\ h.hdr[b].size = OsSize[poc] /\ ~h.hdr[b].used
    BY DEF Orderly, Tidy, KeptWhole
  <2> HIDE DEF b
  <2>2. b \in BlocksOf(s) /\ s.hdr[b].size = OsSize[poc] /\ ~s.hdr[b].used
    BY <1>8, <2>1
  <2>3. b \in BlocksOf(g) /\ g.hdr[b].size = OsSize[poc] /\ ~g.hdr[b].used
    BY <1>10, <2>1, <2>2
  <2> QED BY <2>3 DEF b
<1>15. \A u \in UsedIn(h) : g.hdr[u].size = h.hdr[u].size
  BY <1>1, <1>8, <1>10 DEF UsedIn
<1> QED BY <1>10, <1>11, <1>12, <1>13, <1>14, <1>15 DEF Orderly, Tidy

\* alloc_oschunk: the free block that fills a kept os chunk, or a new one, is on
\* varlist like any other.
LEMMA FormattedOrderly ==
  ASSUME Orderly(Heap, oslist), NEW poc \in OsChunks, NEW a, a = <<poc, 0>>,
         poc \in oslist \/ poc \notin Mapped,
         NEW h, h = Formatted(Heap, poc)
  PROVE  /\ h = [hdr |-> h.hdr, varlist |-> h.varlist]
         /\ Orderly(h, oslist \ {poc}) /\ a \in FreeIn(h) /\ UsedIn(h) = UsedIn(Heap)
         /\ \A u \in UsedIn(Heap) : h.hdr[u].size = hdr[u].size
<1>1. h = [hdr |-> h.hdr, varlist |-> h.varlist]
  BY DEF Formatted
<1>2. IsFormatted(Heap, a, h)
  BY FormattedIs
<1>3. Heap.hdr = hdr /\ Heap.varlist = varlist
  BY DEF Heap
<1>4. a[1] = poc /\ a[2] = 0
  OBVIOUS
<1>5. \A b \in BlocksOf(Heap) : b[1] = poc => b = a /\ ~Heap.hdr[b].used /\ poc \in oslist
  <2>1. CASE poc \in oslist
    <3>1. a \in BlocksOf(Heap) /\ Heap.hdr[a].size = OsSize[a[1]] /\ ~Heap.hdr[a].used
      BY <2>1 DEF Orderly, Tidy, KeptWhole
    <3> QED BY <1>4, <2>1, <3>1, WholeIs DEF Orderly, Tidy
  <2>2. CASE poc \notin Mapped
    BY <2>2, <1>3 DEF Mapped, Blocks, BlocksOf
  <2> QED BY <2>1, <2>2
<1>6. a \in Addr
  BY AddrIs, OsSizeAssumption
<1>7. Sound(h)
  <2>1. \A b \in BlocksOf(h) : b # a => /\ b \in BlocksOf(Heap) /\ b[1] # poc
                                        /\ h.hdr[b] = Heap.hdr[b]
    BY <1>2, <1>5 DEF IsFormatted
  <2>2. h.hdr[a] \in Tag /\ Whole(h, a) /\ h.hdr[a].size = OsSize[poc]
    BY <1>2, <1>4 DEF IsFormatted
  <2>3. \A b \in BlocksOf(Heap) : b \in BlocksOf(h)
    BY <1>2 DEF IsFormatted
  <2> QED BY <1>4, <1>6, <2>1, <2>2, <2>3, WholeSound DEF Orderly, Tidy
<1> HIDE DEF Heap
<1>8. FreeIn(h) = FreeIn(Heap) \cup {a} /\ UsedIn(h) = UsedIn(Heap)
  BY <1>2, <1>4, <1>5 DEF IsFormatted, FreeIn, UsedIn
<1>9. Listed(h, oslist \ {poc})
  <2>1. \A b \in FreeIn(Heap) : b[1] = poc => b = a
    BY <1>5 DEF FreeIn
  <2> QED BY <1>2, <1>4, <1>8, <2>1 DEF Orderly, Tidy, Listed, IsFormatted
<1>10. KeptWhole(h, oslist \ {poc})
  <2>1. \A p \in oslist \ {poc} : <<p, 0>> # a
    OBVIOUS
  <2> QED BY <1>2, <2>1 DEF Orderly, Tidy, KeptWhole, IsFormatted
<1>11. NoPair(h)
  <2> SUFFICES ASSUME NEW b \in BlocksOf(h), Pair(h, b) PROVE FALSE
    BY DEF NoPair
  <2>1. b # a /\ ~h.hdr[b].last
    BY <1>2 DEF Pair, RightFree, IsFormatted, Whole
  <2>2. b \in BlocksOf(Heap) /\ b[1] # poc /\ h.hdr[b] = Heap.hdr[b]
        /\ RightOf(h, b) = RightOf(Heap, b)
    BY <1>2, <1>5, <2>1 DEF IsFormatted, RightOf
  <2>3. RightOf(Heap, b) \in BlocksOf(Heap) /\ RightOf(Heap, b) # a
    BY <1>4, <2>1, <2>2, Neighbours DEF Orderly, Tidy
  <2> QED BY <1>2, <2>1, <2>2, <2>3 DEF Orderly, NoPair, Pair, RightFree, IsFormatted
<1>12. \A u \in UsedIn(Heap) : h.hdr[u].size = hdr[u].size
  <2>1. a \notin UsedIn(Heap)
    BY <1>4, <1>5 DEF UsedIn
  <2> QED BY <1>2, <1>3, <2>1 DEF IsFormatted, UsedIn
<1> QED BY <1>1, <1>7, <1>8, <1>9, <1>10, <1>11, <1>12 DEF Orderly, Tidy

\* SysTryResizeMem: a block in use is joined with a free block to its right and
\* what is not needed is split off.
LEMMA ResizeTidy ==
  ASSUME NEW h, NEW os, Orderly(h, os), NEW a \in UsedIn(h), NEW size \in Nat \ {0},
         NEW joined, joined = ConcatForward(h, a), NEW g, g \in {joined, Split(joined, a, size)}
  PROVE  Orderly(g, os) /\ SameUse(h, g, a)
<1>1. a \in BlocksOf(h) /\ h.hdr[a].used
  BY DEF UsedIn
<1>2. a[1] \notin os
  BY <1>1, NotKept DEF Orderly
<1>3. PairsAt(h, a)
  BY DEF Orderly, NoPair, PairsAt
<1>4. /\ Orderly(joined, os) /\ SameUse(h, joined, a) /\ ~RightFree(joined, a)
      /\ a \in BlocksOf(joined) /\ joined.hdr[a].used
  BY <1>1, <1>2, <1>3, ForwardTidy DEF Orderly
<1>5. CASE g = joined
  BY <1>4, <1>5
<1>6. CASE g = Split(joined, a, size) /\ ~CanSplit(joined, a, size)
  BY <1>4, <1>6 DEF Split
<1>7. CASE g = Split(joined, a, size) /\ CanSplit(joined, a, size)
  <2>1. Tidy(g, os) /\ SameUse(joined, g, a)
    BY <1>2, <1>4, <1>7, SplitTidy DEF Orderly
  <2>2. \A b \in BlocksOf(g) : b # a => ~Pair(g, b)
    BY <1>4, <1>7, SplitPairs DEF Orderly, Tidy
  <2>3. g.hdr[a].used
    BY <1>4, <2>1 DEF SameUse, UsedIn
  <2>4. NoPair(g)
    BY <2>2, <2>3 DEF NoPair, Pair
  <2>5. SameUse(h, g, a)
    BY <1>4, <2>1 DEF SameUse
  <2> QED BY <2>1, <2>4, <2>5 DEF Orderly
<1> QED BY <1>5, <1>6, <1>7

-----------------------------------------------------------------------------
(***************************************************************************)
(* The invariant of the heap manager.                                      *)
(***************************************************************************)

\* The heap is in order, the blocks in use are held or wait to be freed, and a
\* size has been asked for, or a block is to be freed, where the code needs it.
Places == /\ live \cap waitvar = {}
          /\ live \cup waitvar = UsedIn(Heap)
Stage == /\ pc \in {"idle", "drain", "search", "freeold"}
         /\ req \in (Nat \ {0}) \cup {Nil}
         /\ pc \in {"drain", "search"} => req # Nil
         /\ old \in live \cup {Nil}
         /\ pc = "idle" => old = Nil
         /\ pc = "freeold" => old # Nil
IInv == /\ Orderly(Heap, oslist)
        /\ oslist \subseteq OsChunks
        /\ Places
        /\ Stage
        /\ currheapused \in 0..(HeapWord - 1)

\* What a step does to the blocks the program holds.
Keeps(S) == \A u \in S : hdr'[u].size = hdr[u].size
Gets(a) == a \notin live /\ live' = live \cup {a} /\ Keeps(live)
Frees(a) == a \in live /\ live' = live \ {a} /\ Keeps(live')
Resizes(a) == a \in live /\ live' = live /\ Keeps(live \ {a})
Effect == \/ \E a : Gets(a) \/ Frees(a) \/ Resizes(a)
          \/ live' = live /\ Keeps(live)

\* The statistic stays within its word.
LEMMA UsedRange ==
  ASSUME currheapused \in 0..(HeapWord - 1), NEW n \in Int
  PROVE  Used(n) \in 0..(HeapWord - 1)
BY LimitsAssumption DEF Used

\* A step that leaves the heap alone.
LEMMA QuietHeap ==
  ASSUME IInv, UNCHANGED <<hdr, varlist, oslist>>
  PROVE  Orderly(Heap', oslist') /\ UsedIn(Heap') = UsedIn(Heap) /\ oslist' \subseteq OsChunks
<1>1. Heap' = Heap
  BY DEF Heap
<1> QED BY <1>1 DEF IInv

\* The block that SysGetMem_Var returns is used and overlaps no other.
LEMMA TakeInv ==
  ASSUME IInv, pc = "search",
         NEW h, h = [hdr |-> h.hdr, varlist |-> h.varlist], Orderly(h, oslist'),
         UsedIn(h) = UsedIn(Heap), \A u \in UsedIn(Heap) : h.hdr[u].size = hdr[u].size,
         NEW a \in FreeIn(h), a[1] \notin oslist', oslist' \subseteq OsChunks,
         TakeAndReturn(h, a), UNCHANGED <<waitvar, old>>
  PROVE  IInv' /\ Gets(a)
<1>1. req \in Nat \ {0}
  BY DEF IInv, Stage
<1> DEFINE g == Take(h, a, req)
<1>2. /\ hdr' = g.hdr /\ varlist' = g.varlist /\ live' = live \cup {a}
      /\ currheapused' = Used(g.hdr[a].size) /\ req' = Nil /\ pc' = Returned
  BY DEF TakeAndReturn, SetHeap
<1>3. /\ Orderly(g, oslist') /\ UsedIn(g) = UsedIn(h) \cup {a}
      /\ \A u \in UsedIn(h) : g.hdr[u].size = h.hdr[u].size
  BY <1>1, TakeTidy
<1> HIDE DEF g
<1>4. Orderly(Heap', oslist') /\ UsedIn(Heap') = UsedIn(g)
  <2>1. Heap'.hdr = g.hdr /\ Heap'.varlist = g.varlist
    BY <1>2 DEF Heap
  <2> QED BY <1>3, <2>1, SameHeap DEF Orderly
<1>5. a \notin UsedIn(Heap) /\ a \in BlocksOf(g)
  BY <1>3 DEF FreeIn, UsedIn
<1>6. Places'
  BY <1>2, <1>3, <1>4, <1>5 DEF IInv, Places
<1>7. Stage'
  BY <1>2 DEF IInv, Stage, Returned
<1>8. currheapused' \in 0..(HeapWord - 1)
  <2>1. g.hdr[a].size \in Int
    BY <1>3, <1>5, BlockIs DEF Orderly, Tidy, Sound
  <2> QED BY <1>2, <2>1, UsedRange DEF IInv
<1>9. Gets(a)
  <2>1. \A u \in live : u \in UsedIn(Heap)
    BY DEF IInv, Places
  <2> QED BY <1>2, <1>3, <1>5, <2>1 DEF Gets, Keeps
<1> QED BY <1>4, <1>6, <1>7, <1>8, <1>9 DEF IInv

\* A block that is freed, or drained from waitvar.
LEMMA FreeInv ==
  ASSUME IInv, NEW a \in UsedIn(Heap), FreeBlock(a),
         \/ a \in live /\ live' = live \ {a} /\ UNCHANGED waitvar
         \/ a \in waitvar /\ waitvar' = waitvar \ {a} /\ UNCHANGED live,
         Stage'
  PROVE  IInv' /\ Keeps(live') /\ (a \in live => Frees(a))
<1>1. /\ Orderly(Heap', oslist') /\ UsedIn(Heap') = UsedIn(Heap) \ {a}
      /\ \A u \in UsedIn(Heap) \ {a} : hdr'[u].size = hdr[u].size
      /\ oslist' \subseteq OsChunks
  BY FreeBlockTidy DEF IInv
<1>2. Places'
  BY <1>1 DEF IInv, Places
<1>3. currheapused' \in 0..(HeapWord - 1)
  <2>1. hdr[a].size \in Nat
    BY BlockIs DEF IInv, Orderly, Tidy, Sound, UsedIn, Heap
  <2>2. HeapWord - (hdr[a].size % HeapWord) \in Int
    BY <2>1, LimitsAssumption
  <2>3. currheapused' = Used(HeapWord - (hdr[a].size % HeapWord))
    BY DEF FreeBlock
  <2> QED BY <2>2, <2>3, UsedRange DEF IInv
<1>4. Keeps(live')
  BY <1>1 DEF IInv, Places, Keeps
<1>5. a \in live => Frees(a)
  BY <1>4 DEF IInv, Places, Frees
<1> QED BY <1>1, <1>2, <1>3, <1>4, <1>5 DEF IInv

\* The steps of SysGetMem_Var.
LEMMA GetStep == IInv /\ Get => IInv' /\ Effect
<1> SUFFICES ASSUME IInv, Get PROVE IInv' /\ Effect
  OBVIOUS
<1>1. ASSUME NEW size \in GetSizes, GetMem(size) PROVE IInv' /\ Effect
  <2>1. Stage'
    BY <1>1, SizesAssumption, NilAssumption DEF GetMem, AfterLook, IInv, Stage
  <2> QED BY <1>1, <2>1, QuietHeap DEF GetMem, IInv, Places, Effect, Keeps
<1>2. ASSUME NEW a \in waitvar, DrainOne(a) PROVE IInv' /\ Effect
  <2>1. a \in UsedIn(Heap) /\ Stage'
    BY <1>2 DEF DrainOne, IInv, Stage, Places
  <2> QED BY <1>2, <2>1, FreeInv DEF DrainOne, Effect
<1>3. CASE DrainEnd
  BY <1>3, QuietHeap DEF DrainEnd, IInv, Places, Stage, Effect, Keeps
<1>4. ASSUME NEW a \in varlist, GetFromList(a) PROVE IInv' /\ Effect
  <2>1. a \in FreeIn(Heap) /\ a[1] \notin oslist
    BY DEF IInv, Orderly, Tidy, Listed, Heap
  <2>2. Heap = [hdr |-> Heap.hdr, varlist |-> Heap.varlist] /\ Heap.hdr = hdr
    BY DEF Heap
  <2>3. IInv' /\ Gets(a)
    BY <1>4, <2>1, <2>2, TakeInv DEF GetFromList, IInv
  <2> QED BY <2>3 DEF Effect
<1>5. ASSUME NEW poc \in OsChunks, Reuse(poc) \/ AllocFromOS(poc) PROVE IInv' /\ Effect
  <2> DEFINE h == Formatted(Heap, poc)
             a == <<poc, 0>>
  <2>1. \/ poc \in oslist /\ oslist' = oslist \ {poc}
        \/ poc \notin Mapped /\ oslist' = oslist
    BY <1>5 DEF Reuse, AllocFromOS, Reusable
  <2>2. /\ h = [hdr |-> h.hdr, varlist |-> h.varlist]
        /\ Orderly(h, oslist \ {poc}) /\ a \in FreeIn(h) /\ UsedIn(h) = UsedIn(Heap)
        /\ \A u \in UsedIn(Heap) : h.hdr[u].size = hdr[u].size
    BY <2>1, FormattedOrderly DEF IInv
  <2>3. oslist' = oslist \ {poc}
    <3>1. poc \notin Mapped => poc \notin oslist
      <4>1. poc \in oslist => a \in Blocks /\ a[1] = poc
        BY DEF Blocks, IInv, Orderly, Tidy, KeptWhole, BlocksOf, Heap
      <4> QED BY <4>1 DEF Mapped
    <3> QED BY <2>1, <3>1
  <2>4. /\ pc = "search" /\ TakeAndReturn(h, a) /\ UNCHANGED <<waitvar, old>>
        /\ a[1] \notin oslist' /\ oslist' \subseteq OsChunks
    BY <1>5, <2>3 DEF Reuse, AllocFromOS, IInv
  <2> HIDE DEF h, a
  <2>5. IInv' /\ Gets(a)
    BY <2>2, <2>3, <2>4, TakeInv
  <2> QED BY <2>5 DEF Effect
<1>6. CASE AllocFails
  BY <1>6, QuietHeap DEF AllocFails, Returned, IInv, Places, Stage, Effect, Keeps
<1> QED BY <1>1, <1>2, <1>3, <1>4, <1>5, <1>6 DEF Get

\* SysFreeMem_Var, by this thread and by others.
LEMMA FreeStep == IInv /\ Free => IInv' /\ Effect
<1> SUFFICES ASSUME IInv, NEW a \in live, FreeMem(a) \/ WaitFree(a) PROVE IInv' /\ Effect
  BY DEF Free
<1>1. CASE FreeMem(a)
  <2>1. a \in UsedIn(Heap) /\ Stage'
    BY <1>1 DEF FreeMem, IInv, Stage, Places
  <2> QED BY <1>1, <2>1, FreeInv DEF FreeMem, Effect
<1>2. CASE WaitFree(a)
  <2>1. Stage'
    BY <1>2 DEF WaitFree, IInv, Stage
  <2>2. Places'
    BY <1>2, QuietHeap DEF WaitFree, IInv, Places
  <2>3. Frees(a)
    BY <1>2 DEF WaitFree, Frees, Keeps
  <2> QED BY <1>2, <2>1, <2>2, <2>3, QuietHeap DEF WaitFree, IInv, Effect
<1> QED BY <1>1, <1>2

\* The size SysReAllocMem asks for is a size.
LEMMA NewSizeIs ==
  ASSUME NEW was \in Nat \ {0}, NEW size \in Nat, size > was \/ (was < MaxBlock /\ size = 0)
  PROVE  NewSize(was, size) \in Nat \ {0}
BY SizesAssumption DEF NewSize

\* SysReAllocMem.
LEMMA ReAllocStep == IInv /\ ReAlloc => IInv' /\ Effect
<1> SUFFICES ASSUME IInv, ReAlloc PROVE IInv' /\ Effect
  OBVIOUS
<1>0. /\ \A a \in live : a \in UsedIn(Heap)
      /\ Heap.hdr = hdr
      /\ \A a \in UsedIn(Heap) : hdr[a].size \in Nat \ {0}
  BY BlockIs DEF IInv, Places, Orderly, Tidy, Sound, UsedIn, Heap
<1>1. ASSUME NEW a \in live, NEW size \in ResizeSizes, ResizeKeep(a, size)
      PROVE  IInv' /\ Effect
  <2>1. UNCHANGED vars
    BY <1>1 DEF ResizeKeep
  <2> QED BY <2>1, QuietHeap DEF vars, IInv, Places, Stage, Effect, Keeps
<1>2. ASSUME NEW a \in live, NEW size \in ResizeSizes, ResizeInPlace(a, size)
      PROVE  IInv' /\ Effect
  <2> DEFINE joined == ConcatForward(Heap, a)
             g == Split(joined, a, size)
  <2>1. /\ hdr' = g.hdr /\ varlist' = g.varlist
        /\ currheapused' = Used(HeapWord + g.hdr[a].size - hdr[a].size)
        /\ UNCHANGED <<waitvar, oslist, live, old, req, pc>>
    BY <1>2 DEF ResizeInPlace, SetHeap
  <2>2. size \in Nat \ {0} /\ a \in UsedIn(Heap)
    BY <1>0, SizesAssumption
  <2>3. Orderly(g, oslist) /\ SameUse(Heap, g, a)
    BY <2>2, ResizeTidy DEF IInv
  <2> HIDE DEF g
  <2>4. Orderly(Heap', oslist') /\ UsedIn(Heap') = UsedIn(Heap)
    <3>1. Heap'.hdr = g.hdr /\ Heap'.varlist = g.varlist
      BY <2>1 DEF Heap
    <3> QED BY <2>1, <2>3, <3>1, SameHeap DEF Orderly, SameUse
  <2>5. Places' /\ Stage'
    BY <2>1, <2>4 DEF IInv, Places, Stage
  <2>6. currheapused' \in 0..(HeapWord - 1)
    <3>1. g.hdr[a].size \in Nat /\ hdr[a].size \in Nat
      BY <1>0, <2>2, <2>3, BlockIs DEF SameUse, UsedIn, Orderly, Tidy, Sound
    <3>2. HeapWord + g.hdr[a].size - hdr[a].size \in Int
      BY <3>1, LimitsAssumption
    <3> QED BY <2>1, <3>2, UsedRange DEF IInv
  <2>7. Resizes(a)
    BY <1>0, <2>1, <2>3 DEF Resizes, Keeps, SameUse
  <2> QED BY <2>1, <2>4, <2>5, <2>6, <2>7 DEF IInv, Effect
<1>3. ASSUME NEW a \in live, NEW size \in ResizeSizes, ResizeMove(a, size)
      PROVE  IInv' /\ Effect
  <2> DEFINE joined == ConcatForward(Heap, a)
  <2>1. /\ hdr' = joined.hdr /\ varlist' = joined.varlist
        /\ size > joined.hdr[a].size
        /\ pc = "idle" /\ old' = a /\ pc' = AfterLook
        /\ req' = NewSize(joined.hdr[a].size, size)
        /\ UNCHANGED <<waitvar, oslist, live, currheapused>>
    BY <1>3 DEF ResizeMove, SetHeap, MoveTo
  <2>2. size \in Nat \ {0} /\ a \in UsedIn(Heap)
    BY <1>0, SizesAssumption
  <2>3. Orderly(joined, oslist) /\ SameUse(Heap, joined, a)
    BY <2>2, ResizeTidy DEF IInv
  <2> HIDE DEF joined
  <2>4. Orderly(Heap', oslist') /\ UsedIn(Heap') = UsedIn(Heap)
    <3>1. Heap'.hdr = joined.hdr /\ Heap'.varlist = joined.varlist
      BY <2>1 DEF Heap
    <3> QED BY <2>1, <2>3, <3>1, SameHeap DEF Orderly, SameUse
  <2>5. Stage'
    <3>1. joined.hdr[a].size \in Nat \ {0}
      BY <2>2, <2>3, BlockIs DEF SameUse, UsedIn, Orderly, Tidy, Sound
    <3>2. req' \in Nat \ {0}
      BY <2>1, <2>2, <3>1, NewSizeIs
    <3> QED BY <2>1, <3>2, NilAssumption DEF AfterLook, Stage
  <2>6. Resizes(a)
    BY <1>0, <2>1, <2>3 DEF Resizes, Keeps, SameUse
  <2> QED BY <2>1, <2>4, <2>5, <2>6 DEF IInv, Places, Effect
<1>4. ASSUME NEW a \in live, ResizeSmall(a) PROVE IInv' /\ Effect
  <2>1. req' \in Nat \ {0}
    <3>1. hdr[a].size \in Nat \ {0} /\ req' = NewSize(hdr[a].size, 0) /\ hdr[a].size < MaxBlock
      BY <1>0, <1>4 DEF ResizeSmall, MoveTo
    <3> QED BY <3>1, NewSizeIs
  <2>2. Stage'
    BY <1>4, <2>1, NilAssumption DEF ResizeSmall, MoveTo, AfterLook, Stage
  <2> QED BY <1>4, <2>2, QuietHeap DEF ResizeSmall, IInv, Places, Effect, Keeps
<1>5. CASE FreeOld
  <2>1. old \in live /\ old \in UsedIn(Heap)
    BY <1>0, <1>5 DEF FreeOld, IInv, Stage
  <2>2. Stage'
    BY <1>5 DEF FreeOld, IInv, Stage
  <2>3. IInv' /\ Frees(old)
    BY <1>5, <2>1, <2>2, FreeInv DEF FreeOld
  <2> QED BY <2>3 DEF Effect
<1> QED BY <1>1, <1>2, <1>3, <1>4, <1>5 DEF ReAlloc

LEMMA InitInv == Init => IInv
<1> SUFFICES ASSUME Init PROVE IInv
  OBVIOUS
<1>1. BlocksOf(Heap) = {} /\ UsedIn(Heap) = {} /\ FreeIn(Heap) = {} /\ Heap.varlist = {}
  BY DEF Init, BlocksOf, UsedIn, FreeIn, Heap
<1>2. Orderly(Heap, oslist)
  BY <1>1 DEF Init, Orderly, Tidy, NoPair, Sound, Tagged, Linked, Apart, Listed, KeptWhole
<1> QED BY <1>1, <1>2, LimitsAssumption DEF Init, IInv, Places, Stage

LEMMA NextInv == IInv /\ [Next]_vars => IInv' /\ Effect
<1>1. IInv /\ Next => IInv' /\ Effect
  BY GetStep, FreeStep, ReAllocStep DEF Next
<1>2. IInv /\ UNCHANGED vars => IInv' /\ Effect
  BY QuietHeap DEF vars, IInv, Places, Stage, Effect, Keeps
<1> QED BY <1>1, <1>2

-----------------------------------------------------------------------------
(***************************************************************************)
(* The theorems.                                                           *)
(***************************************************************************)

\* Every reachable state of the manager satisfies the invariant, whatever the
\* sizes of os chunks and requests.
THEOREM Invariance == Spec => []IInv
BY InitInv, NextInv, PTL DEF Spec

\* Every variable has values of its kind; in particular no size ever is zero or
\* negative, and the statistic stays within its word.
THEOREM TypeCorrect == Spec => []TypeOK
<1>1. IInv => TypeOK
  <2> SUFFICES ASSUME IInv PROVE TypeOK
    OBVIOUS
  <2>1. Heap.hdr = hdr /\ Heap.varlist = varlist /\ BlocksOf(Heap) = Blocks
    BY DEF Heap, BlocksOf, Blocks
  <2>2. Blocks \subseteq Addr /\ \A a \in Blocks : hdr[a] \in Tag
    BY <2>1 DEF IInv, Orderly, Tidy, Sound, Tagged
  <2>3. varlist \subseteq Blocks
    BY <2>1 DEF IInv, Orderly, Tidy, Listed, FreeIn
  <2>4. live \cup waitvar \subseteq Blocks
    BY <2>1 DEF IInv, Places, UsedIn
  <2> QED BY <2>2, <2>3, <2>4 DEF IInv, Stage, TypeOK
<1> QED BY <1>1, Invariance, PTL

\* Blocks of a sound heap share no unit of memory.
LEMMA SpansApart ==
  ASSUME NEW h, Sound(h), NEW a \in BlocksOf(h), NEW b \in BlocksOf(h), a # b
  PROVE  \A i \in 0..(h.hdr[a].size - 1), j \in 0..(h.hdr[b].size - 1) :
            <<a[1], a[2] + i>> # <<b[1], b[2] + j>>
<1> SUFFICES ASSUME NEW i \in 0..(h.hdr[a].size - 1), NEW j \in 0..(h.hdr[b].size - 1),
                    a[1] = b[1], a[2] + i = b[2] + j
             PROVE  FALSE
  OBVIOUS
<1>1. /\ a = <<a[1], a[2]>> /\ b = <<b[1], b[2]>> /\ a[2] \in Nat /\ b[2] \in Nat
      /\ h.hdr[a].size \in Nat /\ h.hdr[b].size \in Nat
  BY BlockIs DEF Sound
<1>2. CASE a[2] < b[2]
  <2>1. a[2] + h.hdr[a].size <= b[2]
    BY <1>2 DEF Sound, Apart
  <2> QED BY <1>1, <2>1
<1>3. CASE b[2] < a[2]
  <2>1. b[2] + h.hdr[b].size <= a[2]
    BY <1>3 DEF Sound, Apart
  <2> QED BY <1>1, <2>1
<1>4. a[2] # b[2]
  BY <1>1
<1> QED BY <1>1, <1>2, <1>3, <1>4

\* The boundary tags describe the memory after every call: concat_two_blocks,
\* split_block and alloc_oschunk leave no tag that disagrees with its neighbour,
\* no gap and no overlap.
THEOREM TagsDescribeMemory == Spec => []BoundaryTags
<1>1. IInv => BoundaryTags
  <2> SUFFICES ASSUME IInv, NEW a \in Blocks
               PROVE  /\ LinkedLeft(Heap, a) /\ LinkedRight(Heap, a)
                      /\ \A b \in Blocks \ {a} : Span(a) \cap Span(b) = {}
    <3>1. Heap.hdr = hdr /\ BlocksOf(Heap) = Blocks
      BY DEF Heap, BlocksOf, Blocks
    <3> QED BY <3>1 DEF BoundaryTags, LinkedLeft, LinkedRight
  <2>1. Heap.hdr = hdr /\ BlocksOf(Heap) = Blocks
    BY DEF Heap, BlocksOf, Blocks
  <2>2. Sound(Heap)
    BY DEF IInv, Orderly, Tidy
  <2>3. ASSUME NEW b \in Blocks \ {a} PROVE Span(a) \cap Span(b) = {}
    <3>1. \A i \in 0..(hdr[a].size - 1), j \in 0..(hdr[b].size - 1) :
             <<a[1], a[2] + i>> # <<b[1], b[2] + j>>
      BY <2>1, <2>2, SpansApart
    <3> QED BY <3>1 DEF Span
  <2> QED BY <2>1, <2>2, <2>3 DEF Sound, Linked
<1> QED BY <1>1, Invariance, PTL

\* No two free blocks lie side by side, whatever is freed, split or resized.
THEOREM FreeNeighboursJoined == Spec => []Coalesced
<1>1. IInv => Coalesced
  BY DEF IInv, Orderly, NoPair, Pair, Coalesced, Blocks, BlocksOf, Heap
<1> QED BY <1>1, Invariance, PTL

\* Every block is in one place: with the program, on waitvar, on varlist, or the
\* whole of an os chunk on oslist.
THEOREM NothingLeaks == Spec => []BlockPlaces
<1>1. IInv => BlockPlaces
  <2> SUFFICES ASSUME IInv PROVE BlockPlaces
    OBVIOUS
  <2>1. Heap.hdr = hdr /\ Heap.varlist = varlist /\ BlocksOf(Heap) = Blocks
    BY DEF Heap, BlocksOf, Blocks
  <2> QED BY <2>1 DEF IInv, Orderly, Tidy, Listed, KeptWhole, Places, UsedIn, FreeIn,
                      BlockPlaces
<1> QED BY <1>1, Invariance, PTL

Separate ==
  /\ \A a \in live : Memory(a) \in Memories
  /\ \A a, b \in live : a # b => Units(Memory(a)) \cap Units(Memory(b)) = {}

\* Blocks that the program holds are memory, and share none.
LEMMA MemoriesApart == IInv => Separate
<1> SUFFICES ASSUME IInv PROVE Separate
  OBVIOUS
<1>1. Heap.hdr = hdr /\ Sound(Heap) /\ \A a \in live : a \in BlocksOf(Heap)
  BY DEF Heap, IInv, Orderly, Tidy, Places, UsedIn
<1>2. ASSUME NEW a \in live PROVE Memory(a) \in Memories
  <2>1. /\ a \in Addr /\ hdr[a].size \in Nat /\ hdr[a].size > 0
        /\ a[2] \in Nat /\ OsSize[a[1]] \in Nat
    BY <1>1, BlockIs DEF Sound
  <2>2. hdr[a].size <= OsSize[a[1]] - a[2]
    <3>1. CASE hdr[a].last
      BY <1>1, <2>1, <3>1 DEF Sound, Linked, LinkedRight
    <3>2. CASE ~hdr[a].last
      <4>1. /\ RightOf(Heap, a) \in BlocksOf(Heap) /\ RightOf(Heap, a)[1] = a[1]
            /\ RightOf(Heap, a)[2] = a[2] + hdr[a].size
        BY <1>1, <3>2, Neighbours
      <4>2. RightOf(Heap, a)[2] \in Nat /\ RightOf(Heap, a)[2] < OsSize[a[1]]
        BY <1>1, <4>1, BlockIs DEF Sound
      <4> QED BY <2>1, <4>1, <4>2
    <3> QED BY <3>1, <3>2
  <2>3. Memory(a) \in {a} \X (1..(OsSize[a[1]] - a[2]))
    BY <2>1, <2>2 DEF Memory
  <2> QED BY <2>1, <2>3 DEF Memories
<1>3. ASSUME NEW a \in live, NEW b \in live, a # b
      PROVE  Units(Memory(a)) \cap Units(Memory(b)) = {}
  <2>1. \A i \in 0..(hdr[a].size - 1), j \in 0..(hdr[b].size - 1) :
           <<a[1], a[2] + i>> # <<b[1], b[2] + j>>
    BY <1>1, <1>3, SpansApart
  <2> QED BY <2>1 DEF Memory, Units
<1> QED BY <1>2, <1>3 DEF Separate

\* The manager implements Allocator: SysGetMem_Var and SysReAllocMem never hand
\* out memory, or grow a block into memory, that a block in use occupies.
THEOREM Implements == Spec => Refinement
<1> DEFINE inuse == {Memory(a) : a \in live}
<1>1. Init => A!Init
  BY DEF Init, A!Init
<1>2. IInv /\ IInv' /\ Effect => [A!Next]_inuse
  <2> SUFFICES ASSUME IInv, IInv', Effect PROVE A!Next \/ inuse' = inuse
    OBVIOUS
  <2>1. /\ \A a \in live : Memory(a) \in Memories
        /\ \A a \in live' : Memory(a)' \in Memories
        /\ \A a, b \in live' : a # b => Units(Memory(a)') \cap Units(Memory(b)') = {}
    <3>1. Separate /\ Separate'
      BY MemoriesApart, PTL
    <3> QED BY <3>1 DEF Separate
  <2>2. ASSUME NEW S, Keeps(S) PROVE \A a \in S : Memory(a)' = Memory(a)
    BY <2>2 DEF Keeps, Memory
  <2>3. ASSUME NEW a, Gets(a) PROVE A!Next
    <3>1. /\ a \in live' /\ a \notin live /\ live' = live \cup {a}
          /\ \A b \in live : Memory(b)' = Memory(b)
      BY <2>2, <2>3 DEF Gets
    <3>2. \A b \in live : Units(Memory(a)') \cap Units(Memory(b)) = {}
      BY <2>1, <3>1
    <3>3. inuse' = inuse \cup {Memory(a)'}
      BY <3>1
    <3>4. A!Get(Memory(a)')
      BY <3>2, <3>3 DEF A!Get
    <3> QED BY <2>1, <3>1, <3>4 DEF A!Next
  <2>4. ASSUME NEW a, Frees(a) PROVE A!Next
    <3>1. a \in live /\ live' = live \ {a} /\ \A b \in live' : Memory(b)' = Memory(b)
      BY <2>2, <2>4 DEF Frees
    <3>2. \A b \in live' : Memory(b) # Memory(a)
      BY <3>1 DEF Memory
    <3>3. inuse' = inuse \ {Memory(a)}
      BY <3>1, <3>2
    <3>4. A!Free(Memory(a))
      BY <3>1, <3>3 DEF A!Free
    <3> QED BY <2>1, <3>1, <3>4 DEF A!Next
  <2>5. ASSUME NEW a, Resizes(a) PROVE A!Next
    <3>1. a \in live /\ live' = live /\ \A b \in live \ {a} : Memory(b)' = Memory(b)
      BY <2>2, <2>5 DEF Resizes
    <3>2. \A b \in live \ {a} : /\ Memory(b) # Memory(a)
                                /\ Units(Memory(a)') \cap Units(Memory(b)) = {}
      <4>1. \A b \in live \ {a} : Memory(b) # Memory(a)
        BY DEF Memory
      <4> QED BY <2>1, <3>1, <4>1
    <3>3. inuse' = (inuse \ {Memory(a)}) \cup {Memory(a)'}
      BY <3>1, <3>2
    <3>4. A!Resize(Memory(a), Memory(a)')
      BY <3>1, <3>2, <3>3 DEF A!Resize
    <3> QED BY <2>1, <3>1, <3>4 DEF A!Next
  <2>6. ASSUME live' = live, Keeps(live) PROVE inuse' = inuse
    BY <2>2, <2>6
  <2> QED BY <2>3, <2>4, <2>5, <2>6 DEF Effect
<1> QED BY <1>1, <1>2, NextInv, Invariance, PTL DEF Refinement, A!Spec, Spec
=============================================================================
