----------------------------- MODULE AisoProofs -----------------------------
(***************************************************************************)
(* Proofs about the arbitrary-in sorted-out module of SIM, for any values  *)
(* and any order of them: whatever rotations happen on the way, a value    *)
(* gets into its proper place, and the access mark stays bounded.          *)
(*                                                                         *)
(* The tree is tied to the list by the spans of its places: gap g of the   *)
(* list is the one behind its first g values, and the values below a place *)
(* h of the tree are those between the gaps lo[h] and hi[h].  A rotation   *)
(* changes the spans of two places and no position.                        *)
(***************************************************************************)
EXTENDS Aiso, SequenceTheorems, TLAPS

Hooks(s) == {root} \cup ToSet(s) \X {"left", "right"}

\* at gives the positions of the values, each of which is in the list once.
Positions(s, at) ==
  /\ at \in [ToSet(s) -> 1..Len(s)]
  /\ \A x \in ToSet(s) : s[at[x]] = x
  /\ \A i \in 1..Len(s) : at[s[i]] = i

\* The node x in a place that spans lo to hi divides the span.
Divides(x, p, h, lo, hi) ==
  /\ lo[h] < p /\ p <= hi[h]
  /\ lo[left(x)] = lo[h] /\ hi[left(x)] = p - 1
  /\ lo[right(x)] = p /\ hi[right(x)] = hi[h]

Spans(l, s, at, lo, hi) ==
  /\ l \in [Hooks(s) -> ToSet(s) \cup {Nil}]
  /\ lo \in [Hooks(s) -> 0..Len(s)] /\ hi \in [Hooks(s) -> 0..Len(s)]
  /\ lo[root] = 0 /\ hi[root] = Len(s)
  /\ \A h \in Hooks(s) : l[h] = Nil => lo[h] = hi[h]
  /\ \A h \in Hooks(s) : l[h] # Nil => Divides(l[h], at[l[h]], h, lo, hi)

\* No node and no gap is in two places.
Unshared(l, s, lo) ==
  \A h, k \in Hooks(s) : h # k /\ l[h] = l[k] => l[h] = Nil /\ lo[h] # lo[k]

InTree(l, s, at, lo, hi) ==
  /\ s \in Seq(Values)
  /\ Positions(s, at)
  /\ Spans(l, s, at, lo, hi)
  /\ Unshared(l, s, lo)

Sorted(s) == \A i, j \in 1..Len(s) : i < j => ~Before(s[j], s[i])

\* The walk has come to a place that spans the gap where new belongs; prev may be
\* ahead of the place after a rotation to the left.
Walk(at, lo, hi) ==
  LET p == IF prev = Nil THEN 0 ELSE at[prev] IN
  /\ lo[hook] <= p /\ p <= hi[hook]
  /\ \A i \in 1..p : ~Before(new, list[i])
  /\ \A i \in (hi[hook] + 1)..Len(list) : Before(new, list[i])

Shape == \E at, lo, hi : /\ InTree(link, list, at, lo, hi)
                         /\ new # Nil => Walk(at, lo, hi)

Kinds ==
  /\ aiso_size = Len(list)
  /\ access_mark \in Nat \ {0}
  /\ new \in (Values \ Nodes) \cup {Nil}
  /\ hook \in Hooks(list)
  /\ prev \in Nodes \cup {Nil}

\* With both children of the root there, the next walk rotates or the mark is low.
BothChildren ==
  LET r == link[root] IN r # Nil /\ link[left(r)] # Nil /\ link[right(r)] # Nil

MarkAtRoot ==
  IF aiso_size = 0 THEN access_mark = 1
  ELSE access_mark <= 2 * aiso_size \/ (BothChildren /\ access_mark <= 4 * aiso_size)

\* The walk leaves a child of the root where there is no other child.
BesideChild ==
  LET children == {left(link[root]), right(link[root])} IN
  /\ hook \in children
  /\ aiso_size = 1 \/ \A h \in children \ {hook} : link[h] # Nil

Mark ==
  /\ new = Nil \/ hook = root => MarkAtRoot
  /\ new # Nil /\ hook # root /\ an # Nil => access_mark <= aiso_size
  /\ new # Nil /\ hook # root /\ an = Nil =>
       \/ access_mark <= 2 * aiso_size
       \/ access_mark <= 4 * aiso_size /\ BesideChild

IInv == Kinds /\ Sorted(list) /\ Shape /\ Mark

-----------------------------------------------------------------------------
(* Lists *)

\* t is s with v at gap g.
Inserted(t, s, g, v, S) ==
  /\ t \in Seq(S) /\ Len(t) = Len(s) + 1
  /\ t[g + 1] = v
  /\ \A i \in 1..g : t[i] = s[i]
  /\ \A i \in (g + 2)..(Len(s) + 1) : t[i] = s[i - 1]
  /\ ToSet(t) = ToSet(s) \cup {v}

LEMMA InsertAtFacts ==
  ASSUME NEW S, NEW s \in Seq(S), NEW v \in S, NEW g \in 0..Len(s),
         NEW t, t = InsertAt(s, g + 1, v)
  PROVE  Inserted(t, s, g, v, S)
<1> DEFINE k == g + 1
           a == SubSeq(s, 1, k - 1)
           b == SubSeq(s, k, Len(s))
           c == a \o <<v>>
<1>1. a \in Seq(S) /\ Len(a) = k - 1 /\ \A i \in 1..(k - 1) : a[i] = s[i]
  OBVIOUS
<1>2. b \in Seq(S) /\ Len(b) = Len(s) - k + 1 /\ \A i \in 1..(Len(s) - k + 1) : b[i] = s[k + i - 1]
  OBVIOUS
<1>3. t = c \o b
  BY DEF InsertAt
<1>0. k \in 1..(Len(s) + 1) /\ k - 1 = g /\ k + 1 = g + 2
  OBVIOUS
<1> HIDE DEF a, b, k
<1>4. c \in Seq(S) /\ Len(c) = k /\ c[k] = v /\ \A i \in 1..(k - 1) : c[i] = a[i]
  BY <1>0, <1>1
<1> HIDE DEF c
<1>5. /\ t \in Seq(S) /\ Len(t) = Len(c) + Len(b)
      /\ \A i \in 1..(Len(c) + Len(b)) : t[i] = IF i <= Len(c) THEN c[i] ELSE b[i - Len(c)]
  <2>1. c \in Seq(S) /\ b \in Seq(S)
    BY <1>2, <1>4
  <2> QED
    BY <2>1, <1>3, ConcatProperties, Zenon
<1>6. Len(t) = Len(s) + 1 /\ \A i \in 1..k : t[i] = c[i]
  BY <1>0, <1>2, <1>4, <1>5
<1>7. \A i \in (k + 1)..(Len(s) + 1) : t[i] = b[i - k]
  BY <1>0, <1>2, <1>4, <1>5
<1>8. t[k] = v /\ \A i \in 1..(k - 1) : t[i] = s[i]
  BY <1>0, <1>1, <1>4, <1>6
<1>9. \A i \in (k + 1)..(Len(s) + 1) : t[i] = s[i - 1]
  BY <1>0, <1>2, <1>7
<1>10. ToSet(t) = ToSet(s) \cup {v}
  <2>1. ASSUME NEW x \in ToSet(s)
        PROVE  x \in ToSet(t)
    <3>1. PICK i \in 1..Len(s) : x = s[i]
      BY DEF ToSet
    <3>2. CASE i < k
      <4>1. i \in 1..Len(t) /\ t[i] = x
        BY <1>0, <3>1, <3>2, <1>5, <1>6, <1>8
      <4> QED
        BY <4>1, <1>5, <1>6 DEF ToSet
    <3>3. CASE i >= k
      <4>1. i + 1 \in (k + 1)..(Len(s) + 1) /\ (i + 1) - 1 = i
        BY <1>0, <3>3
      <4>2. i + 1 \in 1..Len(t) /\ t[i + 1] = x
        BY <1>0, <3>1, <4>1, <1>6, <1>9
      <4> QED
        BY <4>2, <1>5, <1>6 DEF ToSet
    <3> QED
      BY <1>0, <3>2, <3>3
  <2>2. v \in ToSet(t)
    BY <1>0, <1>5, <1>6, <1>8 DEF ToSet
  <2>3. ASSUME NEW x \in ToSet(t)
        PROVE  x \in ToSet(s) \cup {v}
    <3>1. PICK i \in 1..(Len(s) + 1) : x = t[i]
      BY <1>5, <1>6 DEF ToSet
    <3>2. i < k => x = s[i] /\ i \in 1..Len(s)
      BY <1>0, <3>1, <1>8
    <3>3. i > k => x = s[i - 1] /\ i - 1 \in 1..Len(s)
      BY <1>0, <3>1, <1>9
    <3>4. i = k => x = v
      BY <1>0, <3>1, <1>8
    <3> QED
      BY <1>0, <3>2, <3>3, <3>4 DEF ToSet
  <2> QED
    BY <2>1, <2>2, <2>3
<1> QED
  BY <1>0, <1>5, <1>6, <1>8, <1>9, <1>10 DEF Inserted

-----------------------------------------------------------------------------
(* Trees *)

\* Different places have different names.
LEMMA HookNames ==
  \A x, y : /\ left(x) # root /\ right(x) # root /\ left(x) # right(y)
            /\ left(x) = left(y) => x = y
            /\ right(x) = right(y) => x = y
BY DEF root, left, right

\* A place is the root, or on one side of one node.
LEMMA HookFacts ==
  ASSUME NEW s
  PROVE  /\ root \in Hooks(s)
         /\ \A x \in ToSet(s) : left(x) \in Hooks(s) /\ right(x) \in Hooks(s)
         /\ \A h \in Hooks(s) : h = root \/ \E x \in ToSet(s) : h = left(x) \/ h = right(x)
BY DEF Hooks, root, left, right

\* What is known of a node b in place h with a left child a, and of its kin.
LeftKin(s, at, lo, hi, h, a, b) ==
  /\ a \in ToSet(s) /\ b \in ToSet(s)
  /\ at[a] \in 1..Len(s) /\ at[b] \in 1..Len(s) /\ lo[h] \in 0..Len(s) /\ hi[h] \in 0..Len(s)
  /\ Len(s) \in Nat
  /\ h # left(b) /\ h # right(a) /\ left(b) # right(a)
  /\ lo[h] < at[a] /\ at[a] < at[b] /\ at[b] <= hi[h]
  /\ lo[left(b)] = lo[h] /\ hi[left(b)] = at[b] - 1
  /\ lo[right(b)] = at[b] /\ hi[right(b)] = hi[h]
  /\ lo[left(a)] = lo[h] /\ hi[left(a)] = at[a] - 1
  /\ lo[right(a)] = at[a] /\ hi[right(a)] = at[b] - 1

LEMMA LeftChildFacts ==
  ASSUME NEW l, NEW s, NEW at, NEW lo, NEW hi, InTree(l, s, at, lo, hi),
         NEW h \in Hooks(s), NEW a, NEW b, l[h] = b, l[left(b)] = a, a # Nil, b # Nil
  PROVE  LeftKin(s, at, lo, hi, h, a, b)
<1>1. b \in ToSet(s)
  BY DEF InTree, Spans
<1>2. left(b) \in Hooks(s)
  BY <1>1, HookFacts
<1>3. a \in ToSet(s)
  BY <1>2 DEF InTree, Spans
<1>4. right(a) \in Hooks(s) /\ right(b) \in Hooks(s) /\ left(a) \in Hooks(s)
  BY <1>1, <1>3, HookFacts
<1>5. Divides(b, at[b], h, lo, hi) /\ Divides(a, at[a], left(b), lo, hi)
  BY <1>2 DEF InTree, Spans
<1>6. at[a] \in 1..Len(s) /\ at[b] \in 1..Len(s) /\ Len(s) \in Nat
  BY <1>1, <1>3 DEF InTree, Positions
<1>7. \A k \in Hooks(s) : lo[k] \in 0..Len(s) /\ hi[k] \in 0..Len(s)
  BY DEF InTree, Spans
<1>8. at[a] < at[b] /\ at[b] <= hi[h] /\ lo[h] < at[a]
  BY <1>2, <1>5, <1>6, <1>7 DEF Divides
<1>9. /\ lo[left(b)] = lo[h] /\ hi[left(b)] = at[b] - 1
      /\ lo[right(b)] = at[b] /\ hi[right(b)] = hi[h]
      /\ lo[left(a)] = lo[h] /\ hi[left(a)] = at[a] - 1
      /\ lo[right(a)] = at[a] /\ hi[right(a)] = at[b] - 1
  BY <1>5 DEF Divides
<1>10. h # left(b) /\ h # right(a) /\ left(b) # right(a)
  <2>1. hi[h] # hi[left(b)] /\ hi[h] # hi[right(a)]
    BY <1>6, <1>7, <1>8, <1>9
  <2> QED
    BY <2>1, HookNames
<1> QED
  BY <1>1, <1>3, <1>6, <1>7, <1>8, <1>9, <1>10 DEF LeftKin

\* The rotation of b in place h with a on its left, and what it does to the spans.
TurnedRight(l2, lo2, hi2, l, at, lo, hi, h, a, b) ==
  /\ l2 = [l EXCEPT ![left(b)] = l[right(a)], ![right(a)] = b, ![h] = a]
  /\ lo2 = [lo EXCEPT ![left(b)] = at[a]]
  /\ hi2 = [hi EXCEPT ![right(a)] = hi[h]]

\* RotateRight keeps the tree in the order of the list.
LEMMA RotatedRight ==
  ASSUME NEW l, NEW s, NEW at, NEW lo, NEW hi, InTree(l, s, at, lo, hi),
         NEW h \in Hooks(s), NEW a, NEW b, l[h] = b, l[left(b)] = a, a # Nil, b # Nil,
         NEW l2, NEW lo2, NEW hi2, TurnedRight(l2, lo2, hi2, l, at, lo, hi, h, a, b)
  PROVE  InTree(l2, s, at, lo2, hi2)
<1>0. LeftKin(s, at, lo, hi, h, a, b)
  BY LeftChildFacts
<1> USE <1>0 DEF LeftKin, TurnedRight
<1>1. /\ root \in Hooks(s) /\ left(b) \in Hooks(s) /\ right(a) \in Hooks(s)
      /\ left(a) \in Hooks(s) /\ right(b) \in Hooks(s)
  BY HookFacts
<1>2. l2 \in [Hooks(s) -> ToSet(s) \cup {Nil}]
  BY <1>1 DEF InTree, Spans
<1>3. /\ lo2 \in [Hooks(s) -> 0..Len(s)] /\ hi2 \in [Hooks(s) -> 0..Len(s)]
      /\ lo2[root] = 0 /\ hi2[root] = Len(s)
  BY <1>1, HookNames DEF InTree, Spans, Positions
<1>4. /\ l2[left(b)] = l[right(a)] /\ l2[right(a)] = b /\ l2[h] = a
      /\ \A k \in Hooks(s) \ {left(b), right(a), h} : l2[k] = l[k]
  BY <1>1 DEF InTree, Spans
<1>5. /\ lo2[left(b)] = at[a] /\ hi2[right(a)] = hi[h]
      /\ \A k \in Hooks(s) : k # left(b) => lo2[k] = lo[k]
      /\ \A k \in Hooks(s) : k # right(a) => hi2[k] = hi[k]
  BY <1>1 DEF InTree, Spans
<1>6. ASSUME NEW k \in Hooks(s), l2[k] = Nil
      PROVE  lo2[k] = hi2[k]
  <2>1. CASE k = left(b)
    <3>1. lo[right(a)] = hi[right(a)]
      BY <2>1, <1>1, <1>4, <1>6 DEF InTree, Spans
    <3> QED
      BY <2>1, <3>1, <1>1, <1>5
  <2>2. CASE k # left(b)
    <3>1. k \notin {left(b), right(a), h} /\ l[k] = Nil
      BY <2>2, <1>4, <1>6
    <3>2. lo[k] = hi[k]
      BY <3>1 DEF InTree, Spans
    <3> QED
      BY <3>1, <3>2, <1>5
  <2> QED
    BY <2>1, <2>2
<1>7. ASSUME NEW k \in Hooks(s), l2[k] # Nil
      PROVE  Divides(l2[k], at[l2[k]], k, lo2, hi2)
  <2> DEFINE x == l2[k]
  <2>0. x \in ToSet(s) /\ left(x) \in Hooks(s) /\ right(x) \in Hooks(s)
    BY <1>2, <1>7, HookFacts
  <2>1. CASE k = h
    <3>1. left(a) # left(b)
      BY HookNames
    <3> QED
      BY <2>1, <3>1, <1>1, <1>4, <1>5, HookNames DEF Divides
  <2>2. CASE k = right(a)
    <3>1. right(b) # right(a) /\ left(b) # right(b)
      BY HookNames
    <3> QED
      BY <2>2, <3>1, <1>1, <1>4, <1>5 DEF Divides
  <2>3. CASE k = left(b)
    <3>1. x = l[right(a)] /\ x # Nil
      BY <2>3, <1>4, <1>7
    <3>2. Divides(x, at[x], right(a), lo, hi)
      BY <3>1, <1>1 DEF InTree, Spans
    <3>3. x # a /\ x # b
      BY <3>2, <1>1 DEF Divides
    <3>4. left(x) # left(b) /\ right(x) # right(a) /\ left(x) # right(a) /\ right(x) # left(b)
      BY <3>3, HookNames
    <3> QED
      BY <2>0, <2>3, <3>2, <3>4, <1>1, <1>5 DEF Divides
  <2>4. CASE k \notin {left(b), right(a), h}
    <3>1. x = l[k] /\ x # Nil
      BY <2>4, <1>4, <1>7
    <3>2. Divides(x, at[x], k, lo, hi)
      BY <3>1 DEF InTree, Spans
    <3>3. x # a /\ x # b
      BY <2>4, <3>1, <1>1 DEF InTree, Unshared
    <3>4. left(x) # left(b) /\ right(x) # right(a) /\ left(x) # right(a) /\ right(x) # left(b)
      BY <3>3, HookNames
    <3> QED
      BY <2>0, <2>4, <3>2, <3>4, <1>5 DEF Divides
  <2> QED
    BY <2>1, <2>2, <2>3, <2>4
<1>8. Spans(l2, s, at, lo2, hi2)
  BY <1>2, <1>3, <1>6, <1>7 DEF Spans
<1>9. Unshared(l2, s, lo2)
  <2> SUFFICES ASSUME NEW j \in Hooks(s), NEW k \in Hooks(s), j # k, l2[j] = l2[k]
               PROVE  l2[j] = Nil /\ lo2[j] # lo2[k]
    BY DEF Unshared
  <2> DEFINE old(p) == IF p = left(b) THEN right(a) ELSE IF p = right(a) THEN h
                       ELSE IF p = h THEN left(b) ELSE p
  <2>1. ASSUME NEW p \in Hooks(s)
        PROVE  old(p) \in Hooks(s) /\ l2[p] = l[old(p)] /\ (l2[p] = Nil => lo2[p] = lo[old(p)])
    <3>1. CASE p = left(b)
      BY <3>1, <1>1, <1>4, <1>5
    <3>2. CASE p = right(a)
      BY <3>2, <1>1, <1>4
    <3>3. CASE p = h
      BY <3>3, <1>1, <1>4
    <3>4. CASE p \notin {left(b), right(a), h}
      BY <3>4, <1>4, <1>5
    <3> QED
      BY <3>1, <3>2, <3>3, <3>4
  <2>2. old(j) # old(k)
    OBVIOUS
  <2> HIDE DEF old
  <2>3. l[old(j)] = l[old(k)] /\ old(j) \in Hooks(s) /\ old(k) \in Hooks(s)
    BY <2>1
  <2>4. l[old(j)] = Nil /\ lo[old(j)] # lo[old(k)]
    BY <2>2, <2>3 DEF InTree, Unshared
  <2> QED
    BY <2>1, <2>3, <2>4
<1> QED
  BY <1>8, <1>9 DEF InTree
\* What is known of a node b in place h with c right child c, and of its kin.
RightKin(s, at, lo, hi, h, c, b) ==
  /\ c \in ToSet(s) /\ b \in ToSet(s)
  /\ at[c] \in 1..Len(s) /\ at[b] \in 1..Len(s) /\ lo[h] \in 0..Len(s) /\ hi[h] \in 0..Len(s)
  /\ Len(s) \in Nat
  /\ h # right(b) /\ h # left(c) /\ right(b) # left(c)
  /\ lo[h] < at[b] /\ at[b] < at[c] /\ at[c] <= hi[h]
  /\ lo[left(b)] = lo[h] /\ hi[left(b)] = at[b] - 1
  /\ lo[right(b)] = at[b] /\ hi[right(b)] = hi[h]
  /\ lo[left(c)] = at[b] /\ hi[left(c)] = at[c] - 1
  /\ lo[right(c)] = at[c] /\ hi[right(c)] = hi[h]

LEMMA RightChildFacts ==
  ASSUME NEW l, NEW s, NEW at, NEW lo, NEW hi, InTree(l, s, at, lo, hi),
         NEW h \in Hooks(s), NEW c, NEW b, l[h] = b, l[right(b)] = c, c # Nil, b # Nil
  PROVE  RightKin(s, at, lo, hi, h, c, b)
<1>1. b \in ToSet(s)
  BY DEF InTree, Spans
<1>2. right(b) \in Hooks(s)
  BY <1>1, HookFacts
<1>3. c \in ToSet(s)
  BY <1>2 DEF InTree, Spans
<1>4. left(c) \in Hooks(s) /\ left(b) \in Hooks(s) /\ right(c) \in Hooks(s)
  BY <1>1, <1>3, HookFacts
<1>5. Divides(b, at[b], h, lo, hi) /\ Divides(c, at[c], right(b), lo, hi)
  BY <1>2 DEF InTree, Spans
<1>6. at[c] \in 1..Len(s) /\ at[b] \in 1..Len(s) /\ Len(s) \in Nat
  BY <1>1, <1>3 DEF InTree, Positions
<1>7. \A k \in Hooks(s) : lo[k] \in 0..Len(s) /\ hi[k] \in 0..Len(s)
  BY DEF InTree, Spans
<1>8. at[b] < at[c] /\ at[c] <= hi[h] /\ lo[h] < at[b]
  BY <1>2, <1>5, <1>6, <1>7 DEF Divides
<1>9. /\ lo[left(b)] = lo[h] /\ hi[left(b)] = at[b] - 1
      /\ lo[right(b)] = at[b] /\ hi[right(b)] = hi[h]
      /\ lo[left(c)] = at[b] /\ hi[left(c)] = at[c] - 1
      /\ lo[right(c)] = at[c] /\ hi[right(c)] = hi[h]
  BY <1>5 DEF Divides
<1>10. h # right(b) /\ h # left(c) /\ right(b) # left(c)
  <2>1. lo[h] # lo[right(b)] /\ lo[h] # lo[left(c)]
    BY <1>6, <1>7, <1>8, <1>9
  <2> QED
    BY <2>1, HookNames
<1> QED
  BY <1>1, <1>3, <1>6, <1>7, <1>8, <1>9, <1>10 DEF RightKin

\* The rotation of b in place h with c on its right, and what it does to the spans.
TurnedLeft(l2, lo2, hi2, l, at, lo, hi, h, c, b) ==
  /\ l2 = [l EXCEPT ![right(b)] = l[left(c)], ![left(c)] = b, ![h] = c]
  /\ lo2 = [lo EXCEPT ![left(c)] = lo[h]]
  /\ hi2 = [hi EXCEPT ![right(b)] = at[c] - 1]

\* RotateLeft keeps the tree in the order of the list.
LEMMA RotatedLeft ==
  ASSUME NEW l, NEW s, NEW at, NEW lo, NEW hi, InTree(l, s, at, lo, hi),
         NEW h \in Hooks(s), NEW c, NEW b, l[h] = b, l[right(b)] = c, c # Nil, b # Nil,
         NEW l2, NEW lo2, NEW hi2, TurnedLeft(l2, lo2, hi2, l, at, lo, hi, h, c, b)
  PROVE  InTree(l2, s, at, lo2, hi2)
<1>0. RightKin(s, at, lo, hi, h, c, b)
  BY RightChildFacts
<1> USE <1>0 DEF RightKin, TurnedLeft
<1>1. /\ root \in Hooks(s) /\ right(b) \in Hooks(s) /\ left(c) \in Hooks(s)
      /\ right(c) \in Hooks(s) /\ left(b) \in Hooks(s)
  BY HookFacts
<1>2. l2 \in [Hooks(s) -> ToSet(s) \cup {Nil}]
  BY <1>1 DEF InTree, Spans
<1>3. /\ lo2 \in [Hooks(s) -> 0..Len(s)] /\ hi2 \in [Hooks(s) -> 0..Len(s)]
      /\ lo2[root] = 0 /\ hi2[root] = Len(s)
  BY <1>1, HookNames DEF InTree, Spans, Positions
<1>4. /\ l2[right(b)] = l[left(c)] /\ l2[left(c)] = b /\ l2[h] = c
      /\ \A k \in Hooks(s) \ {right(b), left(c), h} : l2[k] = l[k]
  BY <1>1 DEF InTree, Spans
<1>5. /\ lo2[left(c)] = lo[h] /\ hi2[right(b)] = at[c] - 1
      /\ \A k \in Hooks(s) : k # left(c) => lo2[k] = lo[k]
      /\ \A k \in Hooks(s) : k # right(b) => hi2[k] = hi[k]
  BY <1>1 DEF InTree, Spans
<1>6. ASSUME NEW k \in Hooks(s), l2[k] = Nil
      PROVE  lo2[k] = hi2[k]
  <2>1. CASE k = right(b)
    <3>1. lo[left(c)] = hi[left(c)]
      BY <2>1, <1>1, <1>4, <1>6 DEF InTree, Spans
    <3> QED
      BY <2>1, <3>1, <1>1, <1>5
  <2>2. CASE k # right(b)
    <3>1. k \notin {right(b), left(c), h} /\ l[k] = Nil
      BY <2>2, <1>4, <1>6
    <3>2. lo[k] = hi[k]
      BY <3>1 DEF InTree, Spans
    <3> QED
      BY <3>1, <3>2, <1>5
  <2> QED
    BY <2>1, <2>2
<1>7. ASSUME NEW k \in Hooks(s), l2[k] # Nil
      PROVE  Divides(l2[k], at[l2[k]], k, lo2, hi2)
  <2> DEFINE x == l2[k]
  <2>0. x \in ToSet(s) /\ right(x) \in Hooks(s) /\ left(x) \in Hooks(s)
    BY <1>2, <1>7, HookFacts
  <2>1. CASE k = h
    <3>1. right(c) # right(b)
      BY HookNames
    <3> QED
      BY <2>1, <3>1, <1>1, <1>4, <1>5, HookNames DEF Divides
  <2>2. CASE k = left(c)
    <3>1. left(b) # left(c) /\ right(b) # left(b)
      BY HookNames
    <3> QED
      BY <2>2, <3>1, <1>1, <1>4, <1>5 DEF Divides
  <2>3. CASE k = right(b)
    <3>1. x = l[left(c)] /\ x # Nil
      BY <2>3, <1>4, <1>7
    <3>2. Divides(x, at[x], left(c), lo, hi)
      BY <3>1, <1>1 DEF InTree, Spans
    <3>3. x # c /\ x # b
      BY <3>2, <1>1 DEF Divides
    <3>4. right(x) # right(b) /\ left(x) # left(c) /\ right(x) # left(c) /\ left(x) # right(b)
      BY <3>3, HookNames
    <3> QED
      BY <2>0, <2>3, <3>2, <3>4, <1>1, <1>5 DEF Divides
  <2>4. CASE k \notin {right(b), left(c), h}
    <3>1. x = l[k] /\ x # Nil
      BY <2>4, <1>4, <1>7
    <3>2. Divides(x, at[x], k, lo, hi)
      BY <3>1 DEF InTree, Spans
    <3>3. x # c /\ x # b
      BY <2>4, <3>1, <1>1 DEF InTree, Unshared
    <3>4. right(x) # right(b) /\ left(x) # left(c) /\ right(x) # left(c) /\ left(x) # right(b)
      BY <3>3, HookNames
    <3> QED
      BY <2>0, <2>4, <3>2, <3>4, <1>5 DEF Divides
  <2> QED
    BY <2>1, <2>2, <2>3, <2>4
<1>8. Spans(l2, s, at, lo2, hi2)
  BY <1>2, <1>3, <1>6, <1>7 DEF Spans
<1>9. Unshared(l2, s, lo2)
  <2> SUFFICES ASSUME NEW j \in Hooks(s), NEW k \in Hooks(s), j # k, l2[j] = l2[k]
               PROVE  l2[j] = Nil /\ lo2[j] # lo2[k]
    BY DEF Unshared
  <2> DEFINE old(p) == IF p = right(b) THEN left(c) ELSE IF p = left(c) THEN h
                       ELSE IF p = h THEN right(b) ELSE p
  <2>1. ASSUME NEW p \in Hooks(s)
        PROVE  old(p) \in Hooks(s) /\ l2[p] = l[old(p)] /\ (l2[p] = Nil => lo2[p] = lo[old(p)])
    <3>1. CASE p = right(b)
      BY <3>1, <1>1, <1>4, <1>5
    <3>2. CASE p = left(c)
      BY <3>2, <1>1, <1>4
    <3>3. CASE p = h
      BY <3>3, <1>1, <1>4
    <3>4. CASE p \notin {right(b), left(c), h}
      BY <3>4, <1>4, <1>5
    <3> QED
      BY <3>1, <3>2, <3>3, <3>4
  <2>2. old(j) # old(k)
    OBVIOUS
  <2> HIDE DEF old
  <2>3. l[old(j)] = l[old(k)] /\ old(j) \in Hooks(s) /\ old(k) \in Hooks(s)
    BY <2>1
  <2>4. l[old(j)] = Nil /\ lo[old(j)] # lo[old(k)]
    BY <2>2, <2>3 DEF InTree, Unshared
  <2> QED
    BY <2>1, <2>3, <2>4
<1> QED
  BY <1>8, <1>9 DEF InTree

\* Where a value comes in at gap g, the positions and the ends of spans behind move.
Behind(p, g) == IF p > g THEN p + 1 ELSE p
NotBefore(p, g) == IF p >= g THEN p + 1 ELSE p

\* The node v hung into place h, the list, and what it does to positions and spans.
HungIn(l2, t, at2, lo2, hi2, l, s, at, lo, hi, h, v) ==
  LET g == lo[h] IN
  /\ t = InsertAt(s, g + 1, v)
  /\ l2 = [k \in Hooks(t) |-> IF k = h THEN v ELSE IF k \in DOMAIN l THEN l[k] ELSE Nil]
  /\ at2 = [x \in ToSet(t) |-> IF x = v THEN g + 1 ELSE Behind(at[x], g)]
  /\ lo2 = [k \in Hooks(t) |-> IF k = left(v) THEN g ELSE IF k = right(v) THEN g + 1
                               ELSE Behind(lo[k], g)]
  /\ hi2 = [k \in Hooks(t) |-> IF k = left(v) THEN g ELSE IF k = right(v) THEN g + 1
                               ELSE NotBefore(hi[k], g)]

\* Attach hangs v into the empty place h and into the list at the gap h stands for.
LEMMA Attached ==
  ASSUME NEW l, NEW s, NEW at, NEW lo, NEW hi, InTree(l, s, at, lo, hi),
         NEW h \in Hooks(s), l[h] = Nil, NEW v \in Values, v \notin ToSet(s), v # Nil,
         NEW t, NEW l2, NEW at2, NEW lo2, NEW hi2,
         HungIn(l2, t, at2, lo2, hi2, l, s, at, lo, hi, h, v)
  PROVE  InTree(l2, t, at2, lo2, hi2)
<1> USE DEF HungIn
<1> DEFINE g == lo[h]
           n == Len(s)
<1>1. /\ n \in Nat /\ g \in 0..n /\ hi[h] = g
      /\ \A k \in Hooks(s) : lo[k] \in 0..n /\ hi[k] \in 0..n
      /\ \A x \in ToSet(s) : at[x] \in 1..n
      /\ DOMAIN l = Hooks(s)
  BY DEF InTree, Spans, Positions
<1>2. /\ t \in Seq(Values) /\ Len(t) = n + 1
      /\ t[g + 1] = v
      /\ \A i \in 1..g : t[i] = s[i]
      /\ \A i \in (g + 2)..(n + 1) : t[i] = s[i - 1]
      /\ ToSet(t) = ToSet(s) \cup {v}
  <2>1. s \in Seq(Values) /\ g \in 0..Len(s) /\ t = InsertAt(s, g + 1, v)
    BY <1>1 DEF InTree
  <2> HIDE DEF g
  <2>2. Inserted(t, s, g, v, Values)
    BY <2>1, InsertAtFacts
  <2> QED
    BY <2>2 DEF Inserted
<1>3. /\ Hooks(t) = Hooks(s) \cup {left(v), right(v)}
      /\ left(v) \notin Hooks(s) /\ right(v) \notin Hooks(s) /\ left(v) # right(v)
      /\ root \in Hooks(s) /\ left(v) # root /\ right(v) # root
  <2>1. Hooks(t) = Hooks(s) \cup {left(v), right(v)}
    BY <1>2 DEF Hooks, left, right
  <2>2. left(v) \notin Hooks(s) /\ right(v) \notin Hooks(s)
    BY DEF Hooks, left, right, root
  <2> QED
    BY <2>1, <2>2, HookNames, HookFacts
<1>4. /\ l2[h] = v /\ l2[left(v)] = Nil /\ l2[right(v)] = Nil
      /\ \A k \in Hooks(s) : k # h => l2[k] = l[k]
  BY <1>1, <1>3
<1>5. /\ at2[v] = g + 1
      /\ \A x \in ToSet(s) : at2[x] = Behind(at[x], g)
  BY <1>2
<1>6. /\ lo2[left(v)] = g /\ hi2[left(v)] = g /\ lo2[right(v)] = g + 1 /\ hi2[right(v)] = g + 1
      /\ \A k \in Hooks(s) : lo2[k] = Behind(lo[k], g) /\ hi2[k] = NotBefore(hi[k], g)
  BY <1>3
<1>7. Positions(t, at2)
  <2>1. at2 \in [ToSet(t) -> 1..Len(t)]
    <3>1. \A x \in ToSet(s) : Behind(at[x], g) \in 1..(n + 1)
      BY <1>1 DEF Behind
    <3> QED
      BY <3>1, <1>1, <1>2
  <2>2. ASSUME NEW x \in ToSet(t)
        PROVE  t[at2[x]] = x
    <3>1. CASE x = v
      BY <3>1, <1>2, <1>5
    <3>2. CASE x # v
      <4>1. x \in ToSet(s) /\ s[at[x]] = x /\ at[x] \in 1..n
        BY <3>2, <1>1, <1>2 DEF InTree, Positions
      <4>2. CASE at[x] > g
        <5>1. at2[x] = at[x] + 1 /\ at[x] + 1 \in (g + 2)..(n + 1) /\ (at[x] + 1) - 1 = at[x]
          BY <4>1, <4>2, <1>1, <1>5 DEF Behind
        <5> QED
          BY <4>1, <5>1, <1>2
      <4>3. CASE ~(at[x] > g)
        <5>1. at2[x] = at[x] /\ at[x] \in 1..g
          BY <4>1, <4>3, <1>1, <1>5 DEF Behind
        <5> QED
          BY <4>1, <5>1, <1>2
      <4> QED
        BY <4>2, <4>3
    <3> QED
      BY <3>1, <3>2
  <2>3. ASSUME NEW i \in 1..Len(t)
        PROVE  at2[t[i]] = i
    <3>1. \A j \in 1..n : s[j] \in ToSet(s) /\ at[s[j]] = j
      BY DEF InTree, Positions, ToSet
    <3>2. CASE i = g + 1
      BY <3>2, <1>2, <1>5
    <3>3. CASE i <= g
      <4>1. t[i] = s[i] /\ i \in 1..n
        BY <3>3, <1>1, <1>2
      <4>2. at2[t[i]] = Behind(i, g)
        BY <3>1, <4>1, <1>5
      <4> QED
        BY <3>3, <4>2, <1>1, <1>2 DEF Behind
    <3>4. CASE i > g + 1
      <4>1. t[i] = s[i - 1] /\ i - 1 \in 1..n
        BY <3>4, <1>1, <1>2
      <4>2. at2[t[i]] = Behind(i - 1, g)
        BY <3>1, <4>1, <1>5
      <4> QED
        BY <3>4, <4>2, <1>1, <1>2 DEF Behind
    <3> QED
      BY <3>2, <3>3, <3>4, <1>1, <1>2
  <2> QED
    BY <2>1, <2>2, <2>3 DEF Positions
<1>8. /\ l2 \in [Hooks(t) -> ToSet(t) \cup {Nil}]
      /\ lo2 \in [Hooks(t) -> 0..Len(t)] /\ hi2 \in [Hooks(t) -> 0..Len(t)]
      /\ lo2[root] = 0 /\ hi2[root] = Len(t)
  <2>1. \A k \in Hooks(t) : l2[k] \in ToSet(t) \cup {Nil}
    BY <1>2, <1>3, <1>4 DEF InTree, Spans
  <2>2. \A k \in Hooks(t) : lo2[k] \in 0..Len(t) /\ hi2[k] \in 0..Len(t)
    BY <1>1, <1>2, <1>3, <1>6 DEF Behind, NotBefore
  <2>3. lo2[root] = 0 /\ hi2[root] = Len(t)
    BY <1>1, <1>2, <1>3, <1>6 DEF Behind, NotBefore, InTree, Spans
  <2> QED
    BY <2>1, <2>2, <2>3
<1>9. ASSUME NEW k \in Hooks(t), l2[k] = Nil
      PROVE  lo2[k] = hi2[k]
  <2>1. CASE k \in {left(v), right(v)}
    BY <2>1, <1>6
  <2>2. CASE k \notin {left(v), right(v)}
    <3>1. k \in Hooks(s) /\ k # h /\ l[k] = Nil
      BY <2>2, <1>3, <1>4, <1>9
    <3>2. lo[k] = hi[k] /\ lo[k] # g
      BY <3>1 DEF InTree, Spans, Unshared
    <3> QED
      BY <3>1, <3>2, <1>1, <1>6 DEF Behind, NotBefore
  <2> QED
    BY <2>1, <2>2
<1>10. ASSUME NEW k \in Hooks(t), l2[k] # Nil
       PROVE  Divides(l2[k], at2[l2[k]], k, lo2, hi2)
  <2>1. CASE k = h
    BY <2>1, <1>1, <1>4, <1>5, <1>6 DEF Divides, Behind, NotBefore
  <2>2. CASE k # h
    <3> DEFINE x == l[k]
    <3>1. k \in Hooks(s) /\ l2[k] = x /\ x # Nil /\ x \in ToSet(s)
      BY <2>2, <1>3, <1>4, <1>10 DEF InTree, Spans
    <3>2. Divides(x, at[x], k, lo, hi)
      BY <3>1 DEF InTree, Spans
    <3>3. left(x) \in Hooks(s) /\ right(x) \in Hooks(s)
      BY <3>1, HookFacts
    <3>4. at2[x] = Behind(at[x], g) /\ at[x] \in 1..n
      BY <3>1, <1>1, <1>5
    <3> HIDE DEF x
    <3>5. /\ lo2[k] = Behind(lo[k], g) /\ hi2[k] = NotBefore(hi[k], g)
          /\ lo2[left(x)] = Behind(lo[k], g) /\ hi2[left(x)] = NotBefore(at[x] - 1, g)
          /\ lo2[right(x)] = Behind(at[x], g) /\ hi2[right(x)] = NotBefore(hi[k], g)
      BY <3>1, <3>2, <3>3, <1>6 DEF Divides
    <3>6. lo[k] \in 0..n /\ hi[k] \in 0..n /\ lo[k] < at[x] /\ at[x] <= hi[k]
      BY <3>1, <3>2, <1>1 DEF Divides
    <3>7. NotBefore(at[x] - 1, g) = Behind(at[x], g) - 1
      BY <3>4, <1>1 DEF Behind, NotBefore
    <3>8. Behind(lo[k], g) < Behind(at[x], g) /\ Behind(at[x], g) <= NotBefore(hi[k], g)
      BY <3>4, <3>6, <1>1 DEF Behind, NotBefore
    <3> QED
      BY <3>1, <3>4, <3>5, <3>7, <3>8 DEF Divides
  <2> QED
    BY <2>1, <2>2
<1>11. Unshared(l2, t, lo2)
  <2> SUFFICES ASSUME NEW j \in Hooks(t), NEW k \in Hooks(t), j # k, l2[j] = l2[k]
               PROVE  l2[j] = Nil /\ lo2[j] # lo2[k]
    BY DEF Unshared
  <2>1. \A p \in Hooks(s) : l[p] # v
    BY DEF InTree, Spans
  <2>2. j # h /\ k # h
    BY <2>1, <1>3, <1>4
  <2>3. \A p \in Hooks(s) \ {h} : l[p] = Nil => lo[p] # g
    BY DEF InTree, Unshared
  <2>4. CASE j \in Hooks(s) /\ k \in Hooks(s)
    <3>1. l[j] = Nil /\ lo[j] # lo[k]
      BY <2>2, <2>4, <1>4 DEF InTree, Unshared
    <3>2. lo2[j] = Behind(lo[j], g) /\ lo2[k] = Behind(lo[k], g)
      BY <2>4, <1>6
    <3>3. lo[j] \in 0..n /\ lo[k] \in 0..n
      BY <2>4, <1>1
    <3>4. Behind(lo[j], g) # Behind(lo[k], g)
      BY <3>1, <3>3, <1>1 DEF Behind
    <3> QED
      BY <2>2, <2>4, <3>1, <3>2, <3>4, <1>4
  <2>5. CASE j \notin Hooks(s) \/ k \notin Hooks(s)
    <3>1. l2[j] = Nil /\ l2[k] = Nil
      BY <2>5, <1>3, <1>4
    <3>2. ASSUME NEW p \in Hooks(s), p # h, l2[p] = Nil
          PROVE  lo2[p] # g /\ lo2[p] # g + 1
      <4>1. lo[p] # g /\ lo[p] \in 0..n /\ lo2[p] = Behind(lo[p], g)
        BY <2>3, <3>2, <1>1, <1>4, <1>6
      <4> QED
        BY <4>1, <1>1 DEF Behind
    <3>3. \A p \in {left(v), right(v)} : lo2[p] = g \/ lo2[p] = g + 1
      BY <1>6
    <3>4. CASE j \in Hooks(s) \/ k \in Hooks(s)
      BY <2>2, <2>5, <3>1, <3>2, <3>3, <3>4, <1>3
    <3>5. CASE j \notin Hooks(s) /\ k \notin Hooks(s)
      <4>1. (j = left(v) /\ k = right(v)) \/ (j = right(v) /\ k = left(v))
        BY <3>5, <1>3
      <4> QED
        BY <3>1, <4>1, <1>1, <1>6
    <3> QED
      BY <3>4, <3>5
  <2> QED
    BY <2>4, <2>5
<1> QED
  BY <1>2, <1>7, <1>8, <1>9, <1>10, <1>11 DEF InTree, Spans

\* The tree is empty when the list is, and a root without children is alone.
RootFits(l, s) ==
  /\ l[root] = Nil <=> Len(s) = 0
  /\ l[root] # Nil => l[root] \in ToSet(s)
  /\ l[root] # Nil /\ l[left(l[root])] = Nil /\ l[right(l[root])] = Nil => Len(s) = 1

LEMMA RootFacts ==
  ASSUME NEW l, NEW s, NEW at, NEW lo, NEW hi, InTree(l, s, at, lo, hi)
  PROVE  RootFits(l, s)
<1>1. root \in Hooks(s) /\ lo[root] = 0 /\ hi[root] = Len(s) /\ Len(s) \in Nat
  BY HookFacts DEF InTree, Spans
<1>2. l[root] = Nil => Len(s) = 0
  BY <1>1 DEF InTree, Spans
<1>3. ASSUME l[root] # Nil
      PROVE  /\ l[root] \in ToSet(s) /\ Len(s) # 0
             /\ l[left(l[root])] = Nil /\ l[right(l[root])] = Nil => Len(s) = 1
  <2> DEFINE r == l[root]
  <2>1. r \in ToSet(s) /\ left(r) \in Hooks(s) /\ right(r) \in Hooks(s)
    BY <1>1, <1>3, HookFacts DEF InTree, Spans
  <2>2. at[r] \in 1..Len(s) /\ Divides(r, at[r], root, lo, hi)
    BY <1>1, <1>3, <2>1 DEF InTree, Spans, Positions
  <2>3. l[left(r)] = Nil => lo[left(r)] = hi[left(r)]
    BY <2>1 DEF InTree, Spans
  <2>4. l[right(r)] = Nil => lo[right(r)] = hi[right(r)]
    BY <2>1 DEF InTree, Spans
  <2> HIDE DEF r
  <2>5. Len(s) # 0 /\ (l[left(r)] = Nil /\ l[right(r)] = Nil => Len(s) = 1)
    <3>1. /\ lo[left(r)] = 0 /\ hi[left(r)] = at[r] - 1
          /\ lo[right(r)] = at[r] /\ hi[right(r)] = Len(s)
      BY <1>1, <2>2 DEF Divides
    <3>2. Len(s) # 0
      BY <1>1, <2>2
    <3>3. ASSUME l[left(r)] = Nil, l[right(r)] = Nil
          PROVE  Len(s) = 1
      <4>1. 0 = at[r] - 1 /\ at[r] = Len(s)
        BY <2>3, <2>4, <3>1, <3>3
      <4> QED
        BY <4>1, <1>1, <2>2
    <3> QED
      BY <3>2, <3>3
  <2> QED
    BY <2>1, <2>5 DEF r
<1> QED
  BY <1>2, <1>3 DEF RootFits

-----------------------------------------------------------------------------
(* The walk *)

\* What is known at the node the walk is at.
AtNode(at, lo, hi) ==
  /\ new \in Values \ Nodes /\ an \in Nodes /\ an \in Values
  /\ aiso_size = Len(list) /\ aiso_size \in Nat \ {0} /\ access_mark \in Nat \ {0}
  /\ left(an) \in Hooks(list) /\ right(an) \in Hooks(list)
  /\ at[an] \in 1..Len(list) /\ list[at[an]] = an
  /\ lo[hook] \in 0..Len(list) /\ hi[hook] \in 0..Len(list)
  /\ Divides(an, at[an], hook, lo, hi)
  /\ (IF prev = Nil THEN 0 ELSE at[prev]) \in 0..Len(list)
  /\ \A x \in Nodes : at[x] \in 1..Len(list)

LEMMA NodeFacts ==
  ASSUME Kinds, NEW at, NEW lo, NEW hi, InTree(link, list, at, lo, hi), Walking
  PROVE  AtNode(at, lo, hi)
<1>1. list \in Seq(Values) /\ Len(list) \in Nat /\ an \in Nodes
  BY DEF Kinds, InTree, Spans, Walking, an, Nodes
<1>2. Nodes \subseteq Values
  BY <1>1 DEF Nodes, ToSet
<1>3. \A x \in Nodes : at[x] \in 1..Len(list) /\ list[at[x]] = x
  BY DEF Nodes, InTree, Positions
<1>4. lo[hook] \in 0..Len(list) /\ hi[hook] \in 0..Len(list) /\ Divides(an, at[an], hook, lo, hi)
  BY DEF Kinds, InTree, Spans, Walking, an
<1>5. left(an) \in Hooks(list) /\ right(an) \in Hooks(list)
  BY <1>1, HookFacts DEF Nodes
<1>6. (IF prev = Nil THEN 0 ELSE at[prev]) \in 0..Len(list)
  BY <1>1, <1>3 DEF Kinds
<1>7. new \in Values \ Nodes /\ aiso_size = Len(list) /\ access_mark \in Nat \ {0}
  BY DEF Kinds, Walking
<1>8. aiso_size \in Nat \ {0}
  BY <1>1, <1>3, <1>7
<1> QED
  BY <1>1, <1>2, <1>3, <1>4, <1>5, <1>6, <1>7, <1>8 DEF AtNode

\* All that is behind a node that new is before is behind new.
LEMMA BeforeAllBehind ==
  ASSUME list \in Seq(Values), Sorted(list), NEW v \in Values, NEW k \in 1..Len(list),
         Before(v, list[k]), NEW i \in k..Len(list)
  PROVE  Before(v, list[i])
<1>1. list[i] \in Values /\ list[k] \in Values
  OBVIOUS
<1>2. i # k => ~Before(list[i], list[k])
  BY DEF Sorted
<1> QED
  BY <1>1, <1>2, BeforeAssumption

\* All that is before a node that new is not before is not behind new.
LEMMA NotBeforeEarlier ==
  ASSUME list \in Seq(Values), Sorted(list), NEW v \in Values, NEW k \in 1..Len(list),
         ~Before(v, list[k]), NEW i \in 1..k
  PROVE  ~Before(v, list[i])
<1>1. list[i] \in Values /\ list[k] \in Values
  OBVIOUS
<1>2. i # k => ~Before(list[k], list[i])
  BY DEF Sorted
<1> QED
  BY <1>1, <1>2, BeforeAssumption

LEMMA InitInv == Init => IInv
<1> SUFFICES ASSUME Init PROVE IInv
  OBVIOUS
<1>1. list \in Seq(Values) /\ Len(list) = 0 /\ ToSet(list) = {} /\ Hooks(list) = {root}
  BY DEF Init, ToSet, Hooks
<1>2. Kinds
  BY <1>1 DEF Init, Kinds, policy
<1>3. Sorted(list)
  BY <1>1 DEF Sorted
<1>4. Shape
  <2> DEFINE at == [x \in {} |-> 0]
             lo == [h \in {root} |-> 0]
  <2>1. Positions(list, at)
    BY <1>1 DEF Positions
  <2>2. Spans(link, list, at, lo, lo)
    BY <1>1 DEF Init, Spans
  <2>3. Unshared(link, list, lo)
    BY <1>1 DEF Unshared
  <2>4. InTree(link, list, at, lo, lo)
    BY <1>1, <2>1, <2>2, <2>3 DEF InTree
  <2> HIDE DEF at, lo
  <2> QED
    BY <2>4 DEF Shape, Init
<1>5. Mark
  BY DEF Init, Mark, MarkAtRoot, policy
<1> QED
  BY <1>2, <1>3, <1>4, <1>5 DEF IInv

LEMMA InsertAisoInv ==
  ASSUME IInv, NEW v \in Values, InsertAiso(v)
  PROVE  IInv'
<1> USE DEF IInv, InsertAiso, policy
<1>1. Kinds'
  BY HookFacts DEF Kinds, Nodes
<1>2. Sorted(list)'
  BY DEF Sorted
<1>3. Shape'
  <2>1. PICK at, lo, hi : InTree(link, list, at, lo, hi)
    BY DEF Shape
  <2>2. lo[root] = 0 /\ hi[root] = Len(list) /\ Len(list) \in Nat
    BY <2>1 DEF InTree, Spans
  <2>3. Walk(at, lo, hi)'
    BY <2>2 DEF Walk
  <2>4. InTree(link, list, at, lo, hi)'
    BY <2>1
  <2> QED
    BY <2>3, <2>4 DEF Shape
<1>4. Mark'
  <2>1. MarkAtRoot'
    BY DEF Mark, MarkAtRoot, BothChildren
  <2> QED
    BY <2>1 DEF Mark
<1> QED
  BY <1>1, <1>2, <1>3, <1>4

LEMMA StepLeftInv ==
  ASSUME IInv, StepLeft
  PROVE  IInv'
<1> USE DEF IInv, StepLeft, count_access
<1>1. PICK at, lo, hi : InTree(link, list, at, lo, hi) /\ Walk(at, lo, hi)
  BY DEF Shape, Walking
<1>2. AtNode(at, lo, hi)
  BY <1>1, NodeFacts
<1>3. Kinds'
  BY <1>2 DEF Kinds, Nodes, AtNode
<1>4. Sorted(list)'
  BY DEF Sorted
<1>5. Walk(at, lo, hi)'
  <2> DEFINE p == IF prev = Nil THEN 0 ELSE at[prev]
  <2>1. p \in 0..Len(list) /\ p < at[an]
    <3>1. ~(p >= at[an])
      BY <1>1, <1>2 DEF AtNode, Walk
    <3> QED
      BY <3>1, <1>2 DEF AtNode
  <2>2. ASSUME NEW i \in at[an]..Len(list)
        PROVE  Before(new, list[i])
    <3>1. list \in Seq(Values) /\ at[an] \in 1..Len(list) /\ Before(new, list[at[an]]) /\ new \in Values
      BY <1>1, <1>2 DEF AtNode, InTree
    <3> QED
      BY <3>1, BeforeAllBehind
  <2>3. lo[left(an)] = lo[hook] /\ hi[left(an)] = at[an] - 1 /\ at[an] \in Nat
    BY <1>2 DEF AtNode, Divides
  <2>4. lo[hook] <= p /\ \A i \in 1..p : ~Before(new, list[i])
    BY <1>1 DEF Walk
  <2>5. p <= hi[left(an)] /\ (hi[left(an)] + 1)..Len(list) = at[an]..Len(list)
    BY <2>1, <2>3
  <2>6. p' = p
    OBVIOUS
  <2> HIDE DEF p
  <2> QED
    BY <2>2, <2>3, <2>4, <2>5, <2>6 DEF Walk, p
<1>6. Shape'
  BY <1>1, <1>5 DEF Shape
<1>7. Mark'
  <2>1. new' # Nil /\ hook' # root /\ an' = link[left(an)] /\ aiso_size' = aiso_size
    BY HookNames DEF Walking, an
  <2>2. ASSUME an' # Nil
        PROVE  access_mark' <= aiso_size'
    BY <2>1, <2>2, <1>2 DEF must_rotate, AtNode
  <2>3. ASSUME an' = Nil
        PROVE  \/ access_mark' <= 2 * aiso_size'
               \/ access_mark' <= 4 * aiso_size' /\ BesideChild'
    <3>1. CASE hook = root
      <4>1. access_mark <= 2 * aiso_size
        BY <2>1, <2>3, <3>1, <1>2 DEF Mark, MarkAtRoot, BothChildren, an, AtNode
      <4>2. aiso_size = 1 \/ link[right(an)] # Nil
        <5>1. InTree(link, list, at, lo, hi) /\ an = link[root]
          BY <1>1, <3>1 DEF an
        <5>2. RootFits(link, list)
          BY <1>1, RootFacts
        <5>3. link[root] # Nil /\ link[left(link[root])] = Nil
          BY <5>1, <2>1, <2>3 DEF Walking
        <5>4. link[right(link[root])] = Nil => Len(list) = 1
          BY <5>2, <5>3 DEF RootFits
        <5> QED
          BY <5>1, <5>4, <1>2 DEF AtNode
      <4>3. BesideChild'
        BY <3>1, <4>2, HookNames DEF BesideChild, an
      <4> QED
        BY <4>1, <4>3, <1>2 DEF AtNode
    <3>2. CASE hook # root
      BY <3>2, <1>2 DEF Mark, Walking, AtNode
    <3> QED
      BY <3>1, <3>2
  <2> QED
    BY <2>1, <2>2, <2>3 DEF Mark
<1> QED
  BY <1>3, <1>4, <1>6, <1>7

LEMMA StepRightInv ==
  ASSUME IInv, StepRight
  PROVE  IInv'
<1> USE DEF IInv, StepRight, count_access
<1>1. PICK at, lo, hi : InTree(link, list, at, lo, hi) /\ Walk(at, lo, hi)
  BY DEF Shape, Walking
<1>2. AtNode(at, lo, hi)
  BY <1>1, NodeFacts
<1>3. Kinds'
  BY <1>2 DEF Kinds, Nodes, AtNode
<1>4. Sorted(list)'
  BY DEF Sorted
<1>5. Walk(at, lo, hi)'
  <2>1. ASSUME NEW i \in 1..at[an]
        PROVE  ~Before(new, list[i])
    <3>1. list \in Seq(Values) /\ at[an] \in 1..Len(list) /\ ~Before(new, list[at[an]]) /\ new \in Values
      BY <1>1, <1>2 DEF AtNode, InTree
    <3> QED
      BY <3>1, NotBeforeEarlier
  <2>2. /\ lo[right(an)] = at[an] /\ hi[right(an)] = hi[hook] /\ at[an] <= hi[hook]
        /\ at[an] \in Nat
    BY <1>2 DEF AtNode, Divides
  <2>3. \A i \in (hi[hook] + 1)..Len(list) : Before(new, list[i])
    BY <1>1 DEF Walk
  <2>4. prev' = an /\ an # Nil
    BY DEF Walking
  <2> QED
    BY <2>1, <2>2, <2>3, <2>4 DEF Walk
<1>6. Shape'
  BY <1>1, <1>5 DEF Shape
<1>7. Mark'
  <2>1. new' # Nil /\ hook' # root /\ an' = link[right(an)] /\ aiso_size' = aiso_size
    BY HookNames DEF Walking, an
  <2>2. ASSUME an' # Nil
        PROVE  access_mark' <= aiso_size'
    BY <2>1, <2>2, <1>2 DEF must_rotate, AtNode
  <2>3. ASSUME an' = Nil
        PROVE  \/ access_mark' <= 2 * aiso_size'
               \/ access_mark' <= 4 * aiso_size' /\ BesideChild'
    <3>1. CASE hook = root
      <4>1. access_mark <= 2 * aiso_size
        BY <2>1, <2>3, <3>1, <1>2 DEF Mark, MarkAtRoot, BothChildren, an, AtNode
      <4>2. aiso_size = 1 \/ link[left(an)] # Nil
        <5>1. InTree(link, list, at, lo, hi) /\ an = link[root]
          BY <1>1, <3>1 DEF an
        <5>2. RootFits(link, list)
          BY <1>1, RootFacts
        <5>3. link[root] # Nil /\ link[right(link[root])] = Nil
          BY <5>1, <2>1, <2>3 DEF Walking
        <5>4. link[left(link[root])] = Nil => Len(list) = 1
          BY <5>2, <5>3 DEF RootFits
        <5> QED
          BY <5>1, <5>4, <1>2 DEF AtNode
      <4>3. BesideChild'
        BY <3>1, <4>2, HookNames DEF BesideChild, an
      <4> QED
        BY <4>1, <4>3, <1>2 DEF AtNode
    <3>2. CASE hook # root
      BY <3>2, <1>2 DEF Mark, Walking, AtNode
    <3> QED
      BY <3>1, <3>2
  <2> QED
    BY <2>1, <2>2, <2>3 DEF Mark
<1> QED
  BY <1>3, <1>4, <1>6, <1>7

\* A rotation resets the mark.
LEMMA ResetMark ==
  ASSUME aiso_size \in Nat \ {0}, new' # Nil, reset_access
  PROVE  Mark'
BY DEF Mark, MarkAtRoot, reset_access

LEMMA RotateRightInv ==
  ASSUME IInv, RotateRight
  PROVE  IInv'
<1> USE DEF IInv, RotateRight
<1>1. PICK at, lo, hi : InTree(link, list, at, lo, hi) /\ Walk(at, lo, hi)
  BY DEF Shape, Walking
<1>2. AtNode(at, lo, hi)
  BY <1>1, NodeFacts
<1>3. Kinds'
  BY <1>2 DEF Kinds, Nodes, AtNode, reset_access
<1>4. Sorted(list)'
  BY DEF Sorted
<1>5. Shape'
  <2> DEFINE a == link[left(an)]
  <2>1. PICK lo2 : lo2 = [lo EXCEPT ![left(an)] = at[a]]
    OBVIOUS
  <2>2. PICK hi2 : hi2 = [hi EXCEPT ![right(a)] = hi[hook]]
    OBVIOUS
  <2>3. hook \in Hooks(list) /\ link[hook] = an /\ link[left(an)] = a /\ a # Nil /\ an # Nil
    BY DEF Kinds, an, Walking
  <2>4. TurnedRight(link', lo2, hi2, link, at, lo, hi, hook, a, an)
    BY <2>1, <2>2 DEF TurnedRight
  <2>5. LeftKin(list, at, lo, hi, hook, a, an)
    BY <1>1, <2>3, LeftChildFacts
  <2> HIDE DEF a
  <2>6. InTree(link', list, at, lo2, hi2)
    BY <1>1, <2>3, <2>4, RotatedRight
  <2>7. hook \in DOMAIN lo /\ hook \in DOMAIN hi
    BY <1>1, <2>3 DEF InTree, Spans
  <2>8. lo2[hook] = lo[hook] /\ hi2[hook] = hi[hook]
    BY <2>1, <2>2, <2>5, <2>7 DEF LeftKin
  <2>9. Walk(at, lo2, hi2)'
    BY <1>1, <2>8 DEF Walk
  <2> QED
    BY <2>6, <2>9 DEF Shape
<1>6. Mark'
  BY <1>2, ResetMark DEF AtNode, Walking
<1> QED
  BY <1>3, <1>4, <1>5, <1>6

LEMMA RotateLeftInv ==
  ASSUME IInv, RotateLeft
  PROVE  IInv'
<1> USE DEF IInv, RotateLeft
<1>1. PICK at, lo, hi : InTree(link, list, at, lo, hi) /\ Walk(at, lo, hi)
  BY DEF Shape, Walking
<1>2. AtNode(at, lo, hi)
  BY <1>1, NodeFacts
<1>3. Kinds'
  BY <1>2 DEF Kinds, Nodes, AtNode, reset_access
<1>4. Sorted(list)'
  BY DEF Sorted
<1>5. Shape'
  <2> DEFINE c == link[right(an)]
  <2>1. PICK lo2 : lo2 = [lo EXCEPT ![left(c)] = lo[hook]]
    OBVIOUS
  <2>2. PICK hi2 : hi2 = [hi EXCEPT ![right(an)] = at[c] - 1]
    OBVIOUS
  <2>3. hook \in Hooks(list) /\ link[hook] = an /\ link[right(an)] = c /\ c # Nil /\ an # Nil
    BY DEF Kinds, an, Walking
  <2>4. TurnedLeft(link', lo2, hi2, link, at, lo, hi, hook, c, an)
    BY <2>1, <2>2 DEF TurnedLeft
  <2>5. RightKin(list, at, lo, hi, hook, c, an)
    BY <1>1, <2>3, RightChildFacts
  <2> HIDE DEF c
  <2>6. InTree(link', list, at, lo2, hi2)
    BY <1>1, <2>3, <2>4, RotatedLeft
  <2>7. hook \in DOMAIN lo /\ hook \in DOMAIN hi
    BY <1>1, <2>3 DEF InTree, Spans
  <2>8. lo2[hook] = lo[hook] /\ hi2[hook] = hi[hook]
    BY <2>1, <2>2, <2>5, <2>7 DEF RightKin
  <2>9. Walk(at, lo2, hi2)'
    <3>1. ASSUME NEW i \in 1..at[an]
          PROVE  ~Before(new, list[i])
      <4>1. list \in Seq(Values) /\ at[an] \in 1..Len(list) /\ ~Before(new, list[at[an]]) /\ new \in Values
        BY <1>1, <1>2 DEF AtNode, InTree
      <4> QED
        BY <4>1, NotBeforeEarlier
    <3>2. lo[hook] <= at[an] /\ at[an] <= hi[hook]
      BY <1>2 DEF AtNode, Divides
    <3>3. \A i \in (hi[hook] + 1)..Len(list) : Before(new, list[i])
      BY <1>1 DEF Walk
    <3> QED
      BY <2>3, <2>8, <3>1, <3>2, <3>3 DEF Walk
  <2> QED
    BY <2>6, <2>9 DEF Shape
<1>6. Mark'
  BY <1>2, ResetMark DEF AtNode, Walking
<1> QED
  BY <1>3, <1>4, <1>5, <1>6

\* Where the walk ends new belongs into gap g, right behind prev.
GapFound(g) ==
  /\ g \in 0..Len(list) /\ AfterPrev = g + 1
  /\ \A i \in 1..g : ~Before(new, list[i])
  /\ \A i \in (g + 1)..Len(list) : Before(new, list[i])

LEMMA WalkEnds ==
  ASSUME Kinds, NEW at, NEW lo, NEW hi, InTree(link, list, at, lo, hi), Walk(at, lo, hi),
         an = Nil
  PROVE  GapFound(lo[hook])
<1> DEFINE p == IF prev = Nil THEN 0 ELSE at[prev]
<1>1. lo[hook] = hi[hook] /\ lo[hook] \in 0..Len(list) /\ hi[hook] \in 0..Len(list) /\ Len(list) \in Nat
  BY DEF Kinds, InTree, Spans, an
<1>2. p \in Nat /\ AfterPrev = p + 1
  <2>1. CASE prev = Nil
    BY <2>1 DEF AfterPrev
  <2>2. CASE prev # Nil
    <3>1. prev \in ToSet(list) /\ at[prev] \in 1..Len(list) /\ list[at[prev]] = prev
      BY <2>2 DEF Kinds, Nodes, InTree, Positions
    <3>2. \A k \in 1..Len(list) : list[k] = prev => k = at[prev]
      BY DEF InTree, Positions
    <3> DEFINE c == CHOOSE k \in 1..Len(list) : list[k] = prev
    <3>3. c \in 1..Len(list) /\ list[c] = prev
      BY <3>1
    <3>4. AfterPrev = IF prev = Nil THEN 1 ELSE 1 + c
      BY DEF AfterPrev
    <3> HIDE DEF c
    <3>5. AfterPrev = 1 + at[prev] /\ at[prev] \in Nat
      BY <2>2, <3>1, <3>2, <3>3, <3>4
    <3> QED
      BY <2>2, <3>5
  <2> QED
    BY <2>1, <2>2
<1>3. p = lo[hook]
  BY <1>1, <1>2 DEF Walk
<1> QED
  BY <1>1, <1>2, <1>3 DEF Walk, GapFound

LEMMA AttachOrder ==
  ASSUME Kinds, Sorted(list), NEW g, GapFound(g), list \in Seq(Values), Attach
  PROVE  /\ Inserted(list', list, g, new, Values)
         /\ Sorted(list)'
<1>1. Inserted(list', list, g, new, Values)
  BY InsertAtFacts DEF Kinds, Attach, GapFound
<1>2. Sorted(list')
  <2> SUFFICES ASSUME NEW i \in 1..Len(list'), NEW j \in 1..Len(list'), i < j
               PROVE  ~Before(list'[j], list'[i])
    BY DEF Sorted
  <2>0. /\ new \in Values /\ g \in 0..Len(list) /\ Len(list') = Len(list) + 1 /\ Len(list) \in Nat
        /\ \A k \in 1..Len(list) : list[k] \in Values
    BY <1>1 DEF Kinds, Attach, GapFound, Inserted
  <2>1. /\ i <= g => list'[i] = list[i] /\ i \in 1..g
        /\ j <= g => list'[j] = list[j] /\ j \in 1..g
        /\ i > g + 1 => list'[i] = list[i - 1] /\ i - 1 \in (g + 1)..Len(list)
        /\ j > g + 1 => list'[j] = list[j - 1] /\ j - 1 \in (g + 1)..Len(list)
        /\ list'[g + 1] = new
    BY <1>1, <2>0 DEF Inserted
  <2>2. CASE i <= g /\ j <= g
    BY <2>0, <2>1, <2>2 DEF Sorted
  <2>3. CASE i <= g /\ j = g + 1
    BY <2>0, <2>1, <2>3 DEF GapFound
  <2>4. CASE i <= g /\ j > g + 1
    <3>1. list'[i] = list[i] /\ list'[j] = list[j - 1]
      BY <2>1, <2>4
    <3>2. i \in 1..Len(list) /\ j - 1 \in 1..Len(list) /\ i < j - 1
      BY <2>0, <2>4
    <3> QED
      BY <3>1, <3>2 DEF Sorted
  <2>5. CASE i = g + 1 /\ j > g + 1
    <3>1. Before(new, list[j - 1]) /\ list[j - 1] \in Values
      BY <2>0, <2>1, <2>5 DEF GapFound
    <3> QED
      BY <2>0, <2>1, <2>5, <3>1, BeforeAssumption
  <2>6. CASE i > g + 1
    BY <2>0, <2>1, <2>6 DEF Sorted
  <2> QED
    BY <2>0, <2>2, <2>3, <2>4, <2>5, <2>6
<1> QED
  BY <1>1, <1>2

LEMMA AttachInv ==
  ASSUME IInv, Attach
  PROVE  IInv'
<1>1. PICK at, lo, hi : InTree(link, list, at, lo, hi) /\ Walk(at, lo, hi)
  BY DEF IInv, Shape, Attach
<1>2. GapFound(lo[hook])
  BY <1>1, WalkEnds DEF IInv, Attach
<1>3. list \in Seq(Values) /\ DOMAIN link = Hooks(list)
  BY <1>1 DEF InTree, Spans
<1>4. Inserted(list', list, lo[hook], new, Values) /\ Sorted(list)'
  BY <1>2, <1>3, AttachOrder DEF IInv
<1>5. /\ new \in Values /\ new \notin ToSet(list) /\ new # Nil
      /\ ToSet(list') = ToSet(list) \cup {new} /\ Len(list') = Len(list) + 1 /\ Len(list) \in Nat
  BY <1>3, <1>4 DEF IInv, Kinds, Nodes, Attach, Inserted
<1>6. Hooks(list') = Hooks(list) \cup {left(new), right(new)}
  BY <1>5 DEF Hooks, left, right
<1>7. Kinds'
  BY <1>5, <1>6 DEF IInv, Kinds, Nodes, Attach
<1>8. Shape'
  <2> DEFINE g == lo[hook]
  <2>1. PICK at2 : at2 = [x \in ToSet(list') |-> IF x = new THEN g + 1 ELSE Behind(at[x], g)]
    OBVIOUS
  <2>2. PICK lo2 : lo2 = [k \in Hooks(list') |-> IF k = left(new) THEN g ELSE IF k = right(new) THEN g + 1
                                                ELSE Behind(lo[k], g)]
    OBVIOUS
  <2>3. PICK hi2 : hi2 = [k \in Hooks(list') |-> IF k = left(new) THEN g ELSE IF k = right(new) THEN g + 1
                                                ELSE NotBefore(hi[k], g)]
    OBVIOUS
  <2>4. link' = [k \in Hooks(list') |-> IF k = hook THEN new ELSE IF k \in DOMAIN link THEN link[k] ELSE Nil]
    BY <1>3, <1>6 DEF Attach
  <2>5. list' = InsertAt(list, g + 1, new)
    BY <1>2 DEF Attach, GapFound
  <2>6. hook \in Hooks(list) /\ link[hook] = Nil
    BY DEF IInv, Kinds, Attach, an
  <2>7. HungIn(link', list', at2, lo2, hi2, link, list, at, lo, hi, hook, new)
    BY <2>1, <2>2, <2>3, <2>4, <2>5 DEF HungIn
  <2>8. InTree(link', list', at2, lo2, hi2)
    BY <1>1, <1>5, <2>6, <2>7, Attached
  <2> QED
    BY <2>8 DEF Shape, Attach
<1>9. Mark'
  <2> DEFINE r == link[root]
  <2>1. new' = Nil /\ access_mark' = access_mark /\ aiso_size' = aiso_size + 1 /\ aiso_size = Len(list)
    BY DEF Attach, IInv, Kinds
  <2>2. access_mark \in Nat
    BY DEF IInv, Kinds
  <2>3. link'[hook] = new /\ \A k \in Hooks(list) : k # hook => link'[k] = link[k]
    BY <1>3, <1>6 DEF Attach, IInv, Kinds
  <2>4. RootFits(link, list)
    BY <1>1, RootFacts
  <2>5. CASE hook = root
    <3>1. Len(list) = 0
      BY <2>4, <2>5 DEF Attach, an, RootFits
    <3>2. access_mark = 1
      BY <2>1, <2>5, <3>1 DEF IInv, Mark, MarkAtRoot
    <3> QED
      BY <2>1, <3>1, <3>2 DEF Mark, MarkAtRoot
  <2>6. CASE hook # root /\ access_mark <= 2 * aiso_size
    BY <1>5, <2>1, <2>2, <2>6 DEF Mark, MarkAtRoot
  <2>7. CASE hook # root /\ access_mark <= 4 * aiso_size /\ BesideChild
    <3>1. CASE aiso_size = 1
      BY <2>1, <2>2, <2>7, <3>1 DEF Mark, MarkAtRoot
    <3>2. CASE aiso_size # 1
      <4>1. root \in Hooks(list) /\ link'[root] = r
        BY <2>3, <2>7, HookFacts
      <4>2. CASE r = Nil
        <5>1. Len(list) = 0
          BY <2>4, <4>2 DEF RootFits
        <5> QED
          BY <2>1, <2>2, <2>7, <5>1 DEF Mark, MarkAtRoot
      <4>3. CASE r # Nil
        <5>1. left(r) \in Hooks(list) /\ right(r) \in Hooks(list)
          BY <2>4, <4>3, HookFacts DEF RootFits
        <5>2. link'[left(r)] # Nil /\ link'[right(r)] # Nil
          BY <1>5, <2>3, <2>7, <3>2, <5>1 DEF BesideChild
        <5>3. BothChildren'
          BY <4>1, <4>3, <5>2 DEF BothChildren
        <5> QED
          BY <1>5, <2>1, <2>2, <2>7, <5>3 DEF Mark, MarkAtRoot
      <4> QED
        BY <4>2, <4>3
    <3> QED
      BY <3>1, <3>2
  <2> QED
    BY <2>5, <2>6, <2>7 DEF IInv, Mark, Attach
<1> QED
  BY <1>4, <1>7, <1>8, <1>9 DEF IInv

LEMMA NextInv == IInv /\ [Next]_vars => IInv'
<1> SUFFICES ASSUME IInv, [Next]_vars PROVE IInv'
  OBVIOUS
<1>1. CASE UNCHANGED vars
  BY <1>1 DEF IInv, vars, policy, Kinds, Nodes, Sorted, Shape, Walk, Mark, MarkAtRoot,
              BothChildren, BesideChild, an
<1>2. CASE Next
  BY <1>2, InsertAisoInv, StepLeftInv, StepRightInv, RotateLeftInv, RotateRightInv, AttachInv DEF Next
<1> QED
  BY <1>1, <1>2

LEMMA Invariance == Spec => []IInv
<1> QED
  BY InitInv, NextInv, PTL DEF Spec

-----------------------------------------------------------------------------
(* The theorems *)

LEMMA TypeFollows == IInv => TypeOK
<1> SUFFICES ASSUME IInv PROVE TypeOK
  OBVIOUS
<1>1. PICK at, lo, hi : InTree(link, list, at, lo, hi)
  BY DEF IInv, Shape
<1>2. list \in Seq(Values) /\ link \in [Hooks(list) -> Nodes \cup {Nil}]
  BY <1>1 DEF InTree, Spans, Nodes
<1>3. aiso_size = Len(list) /\ Len(list) \in Nat /\ access_mark \in Nat \ {0}
  BY <1>2 DEF IInv, Kinds
<1>4. access_mark \in 1..(IF aiso_size = 0 THEN 1 ELSE 4 * aiso_size)
  <2>1. RootFits(link, list)
    BY <1>1, RootFacts
  <2>2. CASE new = Nil \/ hook = root
    BY <1>3, <2>2 DEF IInv, Mark, MarkAtRoot
  <2>3. CASE new # Nil /\ hook # root
    <3>1. hook \in ToSet(list) \X {"left", "right"}
      BY <2>3 DEF IInv, Kinds, Hooks
    <3>2. Len(list) # 0
      BY <3>1, <1>2 DEF ToSet
    <3>3. access_mark <= 4 * aiso_size
      BY <1>3, <2>3 DEF IInv, Mark
    <3> QED
      BY <1>3, <3>2, <3>3
  <2> QED
    BY <2>2, <2>3
<1>5. new \in (Values \ Nodes) \cup {Nil} /\ hook \in DOMAIN link /\ prev \in Nodes \cup {Nil}
  BY <1>2 DEF IInv, Kinds
<1> QED
  BY <1>2, <1>3, <1>4, <1>5 DEF TypeOK, Hooks, Nodes

\* Every place of the tree holds a node of the store or nothing, and the access mark,
\* a C int shifted left at every node passed, never exceeds four times the size of
\* the store, for any number of insertions and any order of the values.
THEOREM TypeCorrect == Spec => []TypeOK
<1> QED
  BY Invariance, TypeFollows, PTL

LEMMA InitRefined == Init => Promise!Init
BY DEF Init, Promise!Init

LEMMA AttachRefined ==
  ASSUME IInv, Attach
  PROVE  Promise!Next
<1>1. PICK at, lo, hi : InTree(link, list, at, lo, hi) /\ Walk(at, lo, hi)
  BY DEF IInv, Shape, Attach
<1>2. GapFound(lo[hook])
  BY <1>1, WalkEnds DEF IInv, Attach
<1> DEFINE k == lo[hook] + 1
<1>3. k \in 1..(Len(list) + 1) /\ list' = InsertAt(list, k, new)
  BY <1>2 DEF GapFound, Attach
<1>4. Promise!ProperPlace(new, k)
  <2>1. Len(list) \in Nat /\ lo[hook] \in 0..Len(list) /\ k - 1 = lo[hook]
    BY <1>1, <1>2 DEF GapFound, InTree
  <2> QED
    BY <1>2, <2>1 DEF GapFound, Promise!ProperPlace
<1>5. new \in Values /\ new \notin ToSet(list)
  BY DEF IInv, Kinds, Nodes, Attach
<1> HIDE DEF k
<1>6. Promise!Insert(new)
  <2>1. \E j \in 1..(Len(list) + 1) : Promise!ProperPlace(new, j) /\ list' = InsertAt(list, j, new)
    BY <1>3, <1>4
  <2>2. \A j : Promise!InsertAt(list, j, new) = InsertAt(list, j, new)
    BY DEF Promise!InsertAt, InsertAt
  <2>3. Promise!ToSet(list) = ToSet(list)
    BY DEF Promise!ToSet, ToSet
  <2> QED
    BY <1>5, <2>1, <2>2, <2>3 DEF Promise!Insert
<1> QED
  BY <1>5, <1>6 DEF Promise!Next

\* The store sorts: whatever rotations the walks do, InsertAiso puts every value into
\* its proper place in the list, for any values and any order AISO_BEFORE.
THEOREM Implements == Spec => Refinement
<1>1. IInv /\ [Next]_vars => [Promise!Next]_list
  <2> SUFFICES ASSUME IInv, [Next]_vars PROVE Promise!Next \/ UNCHANGED list
    OBVIOUS
  <2>1. CASE Attach
    BY <2>1, AttachRefined
  <2>2. CASE ~Attach
    BY <2>2 DEF Next, vars, InsertAiso, StepLeft, StepRight, RotateLeft, RotateRight
  <2> QED
    BY <2>1, <2>2
<1> QED
  BY <1>1, InitRefined, Invariance, PTL DEF Spec, Refinement, Promise!Spec
=============================================================================
