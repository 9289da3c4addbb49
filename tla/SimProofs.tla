----------------------------- MODULE SimProofs -----------------------------
(***************************************************************************)
(* The comparison of the similarity tester implements LongestRuns, and the *)
(* whole program is right in its types, its references, its runs and all   *)
(* of its report, the lines, their order and the percentages: for all      *)
(* inputs, options, languages and hash functions.                          *)
(***************************************************************************)
EXTENDS Sim, SimCompareProofs, SequenceTheorems, FiniteSetTheorems

-----------------------------------------------------------------------------
(* The language is the same on both levels. *)

LEMMA SameMax == ASSUME NEW S PROVE Promise!Max(S) = Max(S)
BY DEF Promise!Max, Max

LEMMA SameStart == ASSUME NEW tk PROVE Promise!MayBeStartOfRun(tk) <=> MayBeStartOfRun(tk)
BY DEF Promise!MayBeStartOfRun, MayBeStartOfRun

LEMMA SameCheckRun ==
  ASSUME NEW str, NEW f
  PROVE  Promise!CheckRun(str, f) = CheckRun(str, f)
<1>1. \A k, p : Promise!Balance(str, k, p) = Balance(str, k, p)
  BY Zenon DEF Promise!Balance, Balance, Promise!Cardinality, Cardinality
<1>2. \A p : Promise!Balanced(str, p) <=> Balanced(str, p)
  BY <1>1, Zenon DEF Promise!Balanced, Balanced
<1>3. \A p : Promise!NoSurplus(str, p) <=> NoSurplus(str, p)
  BY <1>1, Zenon DEF Promise!NoSurplus, NoSurplus
<1>4. Promise!LargestFunction(str) = LargestFunction(str)
  <2> DEFINE T == {p \in 0..Len(str) : p = 0 \/ /\ Balanced(str, p)
                                                /\ \A q \in 1..p : NoSurplus(str, q)}
             U == {p \in 0..Len(str) : p = 0 \/ /\ Promise!Balanced(str, p)
                                                /\ \A q \in 1..p : Promise!NoSurplus(str, q)}
  <2>1. T = U
    BY <1>2, <1>3
  <2>2. LargestFunction(str) = Max(T)
    BY DEF LargestFunction
  <2>3. Promise!LargestFunction(str) = Promise!Max(U)
    BY DEF Promise!LargestFunction
  <2> HIDE DEF T, U
  <2> QED
    BY <2>1, <2>2, <2>3, SameMax
<1> DEFINE size == IF f THEN LargestFunction(str) ELSE Len(str)
           Ends == {k \in 0..size : k = 0 \/ str[k] \notin NonFinals}
<1>5. CheckRun(str, f) = Max(Ends)
  BY DEF CheckRun
<1>6. Promise!CheckRun(str, f) = Promise!Max(Ends)
  BY <1>4 DEF Promise!CheckRun
<1> HIDE DEF Ends
<1> QED
  BY <1>5, <1>6, SameMax

-----------------------------------------------------------------------------
(* Repetitions of position i0 *)

\* the texts text n is being compared to
TextsNow == IF option_set("e") THEN {m} ELSE m..NumberOfTexts

\* k tokens from i0 are repeated at position i of text b.
Repeats(b, i, k) ==
  /\ Text[n].start <= i0 /\ i0 + k <= Text[n].limit
  /\ Text[b].start <= i /\ i + k <= Text[b].limit
  /\ i0 + k <= i
  /\ \A d \in 0..(k - 1) : TokenArray[i0 + d] = TokenArray[i + d]

Lengths0(b, i) == {k \in 1..Len(TokenArray) : Repeats(b, i, k)}

\* what the language accepts of full tokens from i0
Cut(full) == CheckRun(SubSeq(TokenArray, i0, i0 + full - 1), option_set("f"))

\* Accepted of LongestRuns
Worth(b, i) ==
  LET size == IF Lengths0(b, i) = {} \/ TokenArray[i0] \in NonInitials THEN 0
              ELSE Cut(Max(Lengths0(b, i)))
  IN  IF size >= MinRunSize THEN size ELSE 0

LEMMA SameWorth ==
  ASSUME pc = "lcs", NEW b, NEW i
  PROVE  Promise!Accepted(b, i) = Worth(b, i)
<1>1. \A k : Promise!Repeated(b, i, k) <=> Repeats(b, i, k)
  BY DEF Promise!Repeated, Promise!In, Repeats, AtPosition
<1> DEFINE T == {k \in 1..Len(TokenArray) : Promise!Repeated(b, i, k)}
<1>2. T = Lengths0(b, i)
  BY <1>1 DEF Lengths0
<1>3. Promise!MayBeStartOfRun(TokenArray[i0]) <=> ~(TokenArray[i0] \in NonInitials)
  BY SameStart DEF MayBeStartOfRun
<1>4. \A str : Promise!CheckRun(str, option_set("f")) = CheckRun(str, option_set("f"))
  BY SameCheckRun
<1>5. Promise!Max(T) = Max(T)
  BY SameMax
<1>6. Promise!Accepted(b, i) =
        LET size == IF T = {} \/ TokenArray[i0] \in NonInitials THEN 0
                    ELSE CheckRun(SubSeq(TokenArray, i0, i0 + Max(T) - 1), option_set("f"))
        IN  IF size >= MinRunSize THEN size ELSE 0
  BY <1>3, <1>4, <1>5 DEF Promise!Accepted, AtPosition, option_set, MinRunSize
<1> QED
  BY <1>2, <1>6 DEF Worth, Cut

LEMMA AtWork ==
  ASSUME Types, Tiles, Place, pc = "lcs"
  PROVE  /\ n \in 1..NumberOfTexts /\ n \in Nat /\ n <= NumberOfNewTexts /\ m \in n..NumberOfTexts
         /\ NumberOfTexts \in Nat /\ MinRunSize \in Nat \ {0} /\ size_best \in Nat
         /\ Len(TokenArray) \in Nat /\ TextLength = Len(TokenArray) + 1
         /\ i0 \in Nat /\ i0 \in 1..Len(TokenArray) /\ Text[n].start <= i0
         /\ i0 + MinRunSize <= Text[n].limit
         /\ TextsNow \in SUBSET (m..NumberOfTexts)
         /\ \A t \in 1..NumberOfTexts :
              /\ Text[t].start \in Nat /\ Text[t].limit \in Nat
              /\ 1 <= Text[t].start /\ Text[t].start <= Text[t].limit
              /\ Text[t].limit <= TextLength
<1>1. /\ n \in 1..NumberOfTexts /\ n <= NumberOfNewTexts /\ m \in n..NumberOfTexts
      /\ i0 \in 1..Len(TokenArray)
  BY ComparedTexts
<1>2. /\ NumberOfTexts \in Nat /\ MinRunSize \in Nat \ {0} /\ Len(TokenArray) \in Nat
      /\ size_best \in Nat /\ i0 \in Nat /\ Text[n].start <= i0
      /\ i0 + MinRunSize - 1 < Text[n].limit
  BY Lengths DEF Place
<1>3. \A t \in 1..NumberOfTexts :
        /\ Text[t].start \in Nat /\ Text[t].limit \in Nat
        /\ 1 <= Text[t].start /\ Text[t].start <= Text[t].limit /\ Text[t].limit <= TextLength
  BY Lengths DEF TextType, Tiles
<1>4. i0 + MinRunSize <= Text[n].limit
  BY <1>1, <1>2, <1>3
<1>5. TextsNow \in SUBSET (m..NumberOfTexts)
  BY <1>1, <1>2 DEF TextsNow
<1> QED
  BY <1>1, <1>2, <1>3, <1>4, <1>5 DEF TextLength

LEMMA CutBounded ==
  ASSUME Types, Tiles, Place, pc = "lcs",
         NEW full \in Nat, full # 0, i0 + full <= TextLength
  PROVE  Cut(full) \in 0..full
<1> DEFINE str == SubSeq(TokenArray, i0, i0 + full - 1)
           f == option_set("f")
<1>1. str \in Seq(Tokens) /\ Len(str) = full
  <2>1. /\ i0 \in 1..Len(TokenArray) /\ TextLength = Len(TokenArray) + 1
        /\ TokenArray \in Seq(Tokens) /\ i0 \in Nat /\ Len(TokenArray) \in Nat
    BY AtWork DEF Types
  <2>2. i0 + full - 1 \in i0..Len(TokenArray)
    BY <2>1
  <2> QED
    BY <2>1, <2>2
<1>2. f \in BOOLEAN
  BY DEF option_set
<1>3. Cut(full) = CheckRun(str, f)
  BY DEF Cut
<1> HIDE DEF str, f
<1> QED
  BY <1>1, <1>2, <1>3, CheckRunAccepts

\* A position that is worth something is a repetition of at least that length.
LEMMA WorthIsLength ==
  ASSUME Types, Tiles, Place, pc = "lcs",
         NEW b \in n..NumberOfTexts, NEW i \in Nat
  PROVE  /\ Worth(b, i) \in Nat
         /\ Worth(b, i) # 0 =>
              LET full == Max(Lengths0(b, i)) IN
              /\ TokenArray[i0] \notin NonInitials
              /\ full \in Lengths0(b, i) /\ \A k \in Lengths0(b, i) : k <= full
              /\ Worth(b, i) = Cut(full)
              /\ MinRunSize <= Worth(b, i) /\ Worth(b, i) <= full
<1> DEFINE full == Max(Lengths0(b, i))
<1>0. /\ MinRunSize \in Nat \ {0} /\ Len(TokenArray) \in Nat /\ i0 \in Nat
      /\ Text[n].limit \in Nat /\ Text[n].limit <= TextLength /\ TextLength \in Nat
  BY AtWork
<1>1. Lengths0(b, i) # {} =>
        /\ full \in Lengths0(b, i) /\ \A k \in Lengths0(b, i) : k <= full
        /\ Cut(full) \in 0..full /\ full \in Nat
  <2> SUFFICES ASSUME Lengths0(b, i) # {}
               PROVE  /\ full \in Lengths0(b, i) /\ \A k \in Lengths0(b, i) : k <= full
                      /\ Cut(full) \in 0..full /\ full \in Nat
    OBVIOUS
  <2>1. Lengths0(b, i) \in SUBSET (0..Len(TokenArray))
    BY <1>0 DEF Lengths0
  <2>2. full \in Lengths0(b, i) /\ \A k \in Lengths0(b, i) : k <= full
    BY <1>0, <2>1, MaxIsGreatest
  <2> HIDE DEF full
  <2>3. full \in Nat /\ full # 0 /\ i0 + full <= Text[n].limit
    BY <1>0, <2>2 DEF Lengths0, Repeats
  <2>4. i0 + full <= TextLength
    BY <1>0, <2>3
  <2>5. Cut(full) \in 0..full
    BY <2>3, <2>4, CutBounded
  <2> QED
    BY <2>2, <2>3, <2>5
<1>2. Worth(b, i) = LET size == IF Lengths0(b, i) = {} \/ TokenArray[i0] \in NonInitials THEN 0
                                ELSE Cut(full)
                    IN  IF size >= MinRunSize THEN size ELSE 0
  BY DEF Worth
<1> HIDE DEF full
<1> QED
  BY <1>0, <1>1, <1>2 DEF full

-----------------------------------------------------------------------------
(* The walk along the chain of i0 *)

\* Texts do not share positions.
LEMMA OneText ==
  ASSUME Types, Tiles, NEW t \in 1..NumberOfTexts, NEW u \in 1..NumberOfTexts, NEW i \in Nat,
         Text[t].start <= i, i < Text[t].limit, Text[u].start <= i, i < Text[u].limit
  PROVE  t = u
<1>1. /\ Text[t].start \in Nat /\ Text[t].limit \in Nat
      /\ Text[u].start \in Nat /\ Text[u].limit \in Nat /\ t \in Nat /\ u \in Nat
  BY Lengths DEF TextType
<1>2. ~(t < u)
  <2> SUFFICES ASSUME t < u PROVE FALSE
    OBVIOUS
  <2>1. Text[t].limit <= Text[u].start
    BY DEF Tiles
  <2> QED
    BY <1>1, <2>1
<1>3. ~(u < t)
  <2> SUFFICES ASSUME u < t PROVE FALSE
    OBVIOUS
  <2>1. Text[u].limit <= Text[t].start
    BY DEF Tiles
  <2> QED
    BY <1>1, <2>1
<1> QED
  BY <1>1, <1>2, <1>3

\* The bump of txt1 finds the text that is being compared.
LEMMA TextFound ==
  ASSUME Types, Tiles, Place, pc = "lcs",
         NEW i \in Nat, Text[m].start <= i, i < i_limit
  PROVE  /\ TextAt(i) \in TextsNow /\ TextAt(i) \in n..NumberOfTexts
         /\ Text[TextAt(i)].start <= i /\ i < Text[TextAt(i)].limit
<1> DEFINE u == IF option_set("e") THEN m ELSE NumberOfTexts
<1>0. /\ n \in 1..NumberOfTexts /\ m \in n..NumberOfTexts /\ n \in Nat
      /\ u \in m..NumberOfTexts /\ i < Text[u].limit /\ NumberOfTexts \in Nat
  BY ComparedTexts, Lengths DEF i_limit
<1>1. /\ TextAt(i) \in m..NumberOfTexts
      /\ Text[TextAt(i)].start <= i /\ i < Text[TextAt(i)].limit
  <2> HIDE DEF u
  <2> QED
    BY <1>0, TextAtPosition
<1> DEFINE t == TextAt(i)
<1> HIDE DEF t
<1>2. ASSUME option_set("e") PROVE t = m
  <2>1. t \in 1..NumberOfTexts /\ m \in 1..NumberOfTexts /\ i < Text[m].limit
    BY <1>0, <1>1, <1>2 DEF t
  <2> QED
    BY <1>1, <2>1, OneText DEF t
<1>3. t \in TextsNow /\ t \in n..NumberOfTexts
  BY <1>0, <1>1, <1>2 DEF TextsNow, t
<1> QED
  BY <1>1, <1>3 DEF t

\* Runs of minimum size that are the same have the same hash codes.
LEMMA SameTokensSameCodes ==
  ASSUME Types, Tiles, Place, pc = "lcs", NEW b \in n..NumberOfTexts, NEW i \in Nat,
         Repeats(b, i, MinRunSize), TokenArray[i0] \notin NonInitials
  PROVE  Same2(i0, i)
<1>0. /\ n \in 1..NumberOfTexts /\ b \in 1..NumberOfTexts /\ MinRunSize \in Nat \ {0}
      /\ i0 \in Nat
      /\ Text[n].start \in Nat /\ Text[n].limit \in Nat
      /\ Text[b].start \in Nat /\ Text[b].limit \in Nat
  <2>1. n \in 1..NumberOfTexts /\ n \in Nat /\ MinRunSize \in Nat \ {0} /\ i0 \in Nat
    BY AtWork
  <2>2. b \in 1..NumberOfTexts
    BY <2>1
  <2> QED
    BY <2>1, <2>2, Lengths DEF TextType
<1>1. /\ Text[n].start <= i0 /\ i0 + MinRunSize - 1 < Text[n].limit
      /\ Text[b].start <= i /\ i + MinRunSize - 1 < Text[b].limit
  BY <1>0 DEF Repeats
<1>2. \A d \in 0..(MinRunSize - 1) : TokenArray[i0 + d] = TokenArray[i + d]
  BY DEF Repeats
<1>3. TokenArray[i] = TokenArray[i0] /\ TokenArray[i0 + MinRunSize - 1] = TokenArray[i + MinRunSize - 1]
  <2>1. /\ 0 \in 0..(MinRunSize - 1) /\ MinRunSize - 1 \in 0..(MinRunSize - 1)
        /\ i0 + 0 = i0 /\ i + 0 = i /\ i0 + (MinRunSize - 1) = i0 + MinRunSize - 1
        /\ i + (MinRunSize - 1) = i + MinRunSize - 1
    BY <1>0
  <2> QED
    BY <1>2, <2>1
<1>4. StartsRun(i0) /\ StartsRun(i)
  BY <1>0, <1>1, <1>3 DEF StartsRun, MayBeStartOfRun
<1>5. hash2(i) = hash2(i0)
  BY <1>3 DEF hash2
<1>6. hash1(i) = hash1(i0)
  <2>1. ASSUME NEW k \in 1..N_SAMPLES
        PROVE  TokenArray[i + SamplePos(k - 1)] = TokenArray[i0 + SamplePos(k - 1)]
    <3>1. k - 1 \in 0..(N_SAMPLES - 1)
      BY PrimesAssumption
    <3>2. SamplePos(k - 1) \in 0..(MinRunSize - 1)
      BY <3>1, SampleInRun
    <3> QED
      BY <1>2, <3>2
  <2> QED
    BY <2>1 DEF hash1
<1> QED
  BY <1>4, <1>5, <1>6 DEF Same2, Same1

\* Whatever is worth reporting lies to the right of i0, in the range that is
\* searched, and on the chain of i0.
LEMMA WorthOnChain ==
  ASSUME Types, Tiles, Place, pc = "lcs", NEW b \in TextsNow, NEW i \in Nat, Worth(b, i) # 0
  PROVE  /\ i \in (i0 + 1)..Len(TokenArray)
         /\ Text[m].start <= i /\ i < i_limit
         /\ b = TextAt(i)
         /\ Same2(i0, i)
<1>0. /\ n \in 1..NumberOfTexts /\ n \in Nat /\ m \in n..NumberOfTexts /\ m \in Nat
      /\ b \in m..NumberOfTexts /\ b \in n..NumberOfTexts /\ b \in 1..NumberOfTexts
      /\ NumberOfTexts \in Nat /\ MinRunSize \in Nat \ {0} /\ Len(TokenArray) \in Nat
      /\ TextLength = Len(TokenArray) + 1 /\ i0 \in Nat
      /\ option_set("e") => b = m
  <2>1. /\ n \in 1..NumberOfTexts /\ n \in Nat /\ m \in n..NumberOfTexts
        /\ TextsNow \in SUBSET (m..NumberOfTexts)
        /\ NumberOfTexts \in Nat /\ MinRunSize \in Nat \ {0} /\ Len(TokenArray) \in Nat
        /\ TextLength = Len(TokenArray) + 1 /\ i0 \in Nat
    BY AtWork
  <2>2. b \in m..NumberOfTexts
    BY <2>1
  <2>3. option_set("e") => b = m
    BY DEF TextsNow
  <2> QED
    BY <2>1, <2>2, <2>3
<1>1. PICK full \in Nat : /\ full \in Lengths0(b, i) /\ MinRunSize <= full
                          /\ TokenArray[i0] \notin NonInitials
  <2>1. /\ Max(Lengths0(b, i)) \in Lengths0(b, i) /\ Worth(b, i) \in Nat
        /\ MinRunSize <= Worth(b, i) /\ Worth(b, i) <= Max(Lengths0(b, i))
        /\ TokenArray[i0] \notin NonInitials
    BY <1>0, WorthIsLength
  <2>2. Max(Lengths0(b, i)) \in Nat
    BY <1>0, <2>1 DEF Lengths0
  <2> QED
    BY <1>0, <2>1, <2>2
<1>2. /\ Text[n].start \in Nat /\ Text[n].limit \in Nat
      /\ Text[b].start \in Nat /\ Text[b].limit \in Nat /\ Text[b].limit <= TextLength
      /\ Text[m].start \in Nat /\ Text[m].start <= Text[m].limit /\ Text[m].limit \in Nat
      /\ Text[NumberOfTexts].limit \in Nat
      /\ Text[NumberOfTexts].start <= Text[NumberOfTexts].limit
      /\ Text[NumberOfTexts].start \in Nat
  <2>1. m \in 1..NumberOfTexts /\ NumberOfTexts \in 1..NumberOfTexts
    BY <1>0
  <2> QED
    BY <1>0, <2>1, AtWork
<1>3. /\ Text[n].start <= i0 /\ i0 + full <= Text[n].limit
      /\ Text[b].start <= i /\ i + full <= Text[b].limit
      /\ i0 + full <= i
      /\ \A d \in 0..(full - 1) : TokenArray[i0 + d] = TokenArray[i + d]
  BY <1>1 DEF Lengths0, Repeats
<1>4. Repeats(b, i, MinRunSize)
  <2>1. \A d \in 0..(MinRunSize - 1) : d \in 0..(full - 1)
    BY <1>0, <1>1
  <2>2. /\ i0 + MinRunSize <= Text[n].limit /\ i + MinRunSize <= Text[b].limit
        /\ i0 + MinRunSize <= i
    <3>1. MinRunSize <= full /\ full \in Nat
      BY <1>1
    <3>2. /\ i0 + full <= Text[n].limit /\ i + full <= Text[b].limit /\ i0 + full <= i
      BY <1>3
    <3>3. i0 \in Nat /\ MinRunSize \in Nat /\ Text[n].limit \in Nat /\ Text[b].limit \in Nat
      BY <1>0, <1>2
    <3> QED
      BY <3>1, <3>2, <3>3
  <2> QED
    BY <1>3, <2>1, <2>2 DEF Repeats
<1>5. Same2(i0, i)
  BY <1>0, <1>1, <1>4, SameTokensSameCodes
<1>6. i \in (i0 + 1)..Len(TokenArray) /\ i < Text[b].limit
  BY <1>0, <1>1, <1>2, <1>3, SMTT(30)
<1>7. Text[m].start <= i
  <2>1. CASE b = m
    BY <1>3, <2>1
  <2>2. CASE m < b
    <3>1. Text[m].limit <= Text[b].start
      BY <1>0, <2>2 DEF Tiles
    <3> QED
      BY <1>2, <1>3, <3>1
  <2> QED
    BY <1>0, <2>1, <2>2
<1>8. i < i_limit
  <2>1. CASE option_set("e")
    BY <1>0, <1>6, <2>1 DEF i_limit
  <2>2. CASE ~option_set("e")
    <3>1. i_limit = Text[NumberOfTexts].limit
      BY <2>2 DEF i_limit
    <3>2. CASE b = NumberOfTexts
      BY <1>6, <3>1, <3>2
    <3>3. CASE b < NumberOfTexts
      <4>1. Text[b].limit <= Text[NumberOfTexts].start
        BY <1>0, <3>3 DEF Tiles
      <4> QED
        BY <1>2, <1>6, <3>1, <4>1
    <3> QED
      BY <1>0, <3>2, <3>3
  <2> QED
    BY <2>1, <2>2
<1>9. b = TextAt(i)
  <2>1. /\ TextAt(i) \in n..NumberOfTexts
        /\ Text[TextAt(i)].start <= i /\ i < Text[TextAt(i)].limit
    BY <1>7, <1>8, TextFound
  <2>2. TextAt(i) \in 1..NumberOfTexts
    BY <1>0, <2>1
  <2> QED
    BY <1>0, <1>3, <1>6, <2>1, <2>2, OneText
<1> QED
  BY <1>5, <1>6, <1>7, <1>8, <1>9

\* What lcs finds at a position is what the position is worth, unless that would
\* not beat the best run so far.
LEMMA NewSizeIsWorth ==
  ASSUME Types, Tiles, Place, pc = "lcs",
         NEW i \in Nat, Text[m].start <= i, i < i_limit,
         NEW w, w = Worth(TextAt(i), i), NEW size, size = new_size(i)
  PROVE  /\ size \in Nat /\ w \in Nat
         /\ IF size >= MinRunSize /\ size > size_best THEN w = size ELSE w <= size_best
<1> DEFINE b == TextAt(i)
<1>0. /\ b \in n..NumberOfTexts /\ b \in 1..NumberOfTexts
      /\ Text[b].start <= i /\ i < Text[b].limit
      /\ MinRunSize \in Nat \ {0} /\ Len(TokenArray) \in Nat /\ size_best \in Nat
      /\ TextLength = Len(TokenArray) + 1
      /\ i0 \in Nat /\ Text[n].start <= i0 /\ Text[n].start \in Nat
      /\ Text[n].limit \in Nat /\ Text[n].limit <= TextLength
  <2>1. TextAt(i) \in n..NumberOfTexts /\ Text[TextAt(i)].start <= i /\ i < Text[TextAt(i)].limit
    BY TextFound
  <2>2. n \in 1..NumberOfTexts /\ n \in Nat /\ NumberOfTexts \in Nat
    BY AtWork
  <2>3. TextAt(i) \in 1..NumberOfTexts
    BY <2>1, <2>2
  <2> QED
    BY <2>1, <2>2, <2>3, AtWork
<1>1. Text[b].limit \in Nat /\ Text[b].start \in Nat
  BY <1>0, AtWork
<1> HIDE DEF b
<1>2. ASSUME NEW k \in Nat PROVE Common(i, k) <=> Repeats(b, i, k)
  <2>1. /\ i0 + k - 1 < Text[n].limit <=> i0 + k <= Text[n].limit
        /\ i + k - 1 < Text[b].limit <=> i + k <= Text[b].limit
        /\ i0 + k - 1 < i <=> i0 + k <= i
    BY <1>0, <1>1, SMTT(30)
  <2>2. Common(i, k) <=> /\ i0 + k - 1 < Text[n].limit
                         /\ i + k - 1 < Text[b].limit
                         /\ i0 + k - 1 < i
                         /\ \A d \in 0..(k - 1) : TokenArray[i0 + d] = TokenArray[i + d]
    BY DEF Common, b
  <2> QED
    BY <1>0, <2>1, <2>2, Zenon DEF Repeats
<1>3. ASSUME NEW k \in Nat, Common(i, k), NEW l \in 0..k PROVE Common(i, l)
  <2>1. /\ i0 + k <= Text[n].limit /\ i + k <= Text[b].limit /\ i0 + k <= i
        /\ \A d \in 0..(k - 1) : TokenArray[i0 + d] = TokenArray[i + d]
    BY <1>2, <1>3 DEF Repeats
  <2>2. i0 + l <= Text[n].limit /\ i + l <= Text[b].limit /\ i0 + l <= i
    <3>1. l <= k /\ l \in Nat
      OBVIOUS
    <3>2. i0 + k <= Text[n].limit /\ i + k <= Text[b].limit /\ i0 + k <= i
      BY <2>1
    <3> QED
      BY <1>0, <1>1, <3>1, <3>2
  <2>3. \A d \in 0..(l - 1) : d \in 0..(k - 1)
    OBVIOUS
  <2>4. Repeats(b, i, l) /\ l \in Nat
    BY <1>0, <2>1, <2>2, <2>3 DEF Repeats
  <2> QED
    BY <1>2, <2>4
<1>4. min_size \in Nat \ {0} /\ min_size = IF size_best # 0 THEN size_best + 1 ELSE MinRunSize
  BY <1>0 DEF min_size
<1>5. ASSUME NEW k \in Nat, k # 0, Common(i, k) PROVE k \in Lengths0(b, i)
  <2>1. Repeats(b, i, k) /\ i0 + k <= Text[n].limit /\ 1 <= i0
    <3>1. i0 \in 1..Len(TokenArray)
      BY AtWork
    <3>2. Repeats(b, i, k)
      BY <1>2, <1>5
    <3>3. i0 + k <= Text[n].limit
      BY <3>2 DEF Repeats
    <3> QED
      BY <3>1, <3>2, <3>3
  <2>2. k \in 1..Len(TokenArray)
    BY <1>0, <1>5, <2>1
  <2> QED
    BY <2>1, <2>2 DEF Lengths0
<1>6. ASSUME NEW k \in Lengths0(b, i) PROVE k \in Nat /\ k # 0 /\ Common(i, k)
  <2>1. k \in 1..Len(TokenArray) /\ Repeats(b, i, k)
    BY DEF Lengths0
  <2>2. k \in Nat /\ k # 0
    BY <2>1
  <2> QED
    BY <1>2, <2>1, <2>2
<1>7. /\ w \in Nat
      /\ w # 0 => LET full == Max(Lengths0(b, i)) IN
                  /\ TokenArray[i0] \notin NonInitials
                  /\ full \in Lengths0(b, i) /\ \A k \in Lengths0(b, i) : k <= full
                  /\ w = Cut(full)
                  /\ MinRunSize <= w /\ w <= full
  <2>1. w = Worth(b, i)
    BY DEF b
  <2> QED
    BY <1>0, <2>1, WorthIsLength
<1> DEFINE S == {k \in min_size..Len(TokenArray) : Common(i, k)}
<1>8. CASE Common(i, min_size) /\ MayBeStartOfRun(TokenArray[i0])
  <2>1. size = Cut(Max(S))
    BY <1>8 DEF new_size, Cut
  <2>2. Lengths0(b, i) \in SUBSET (0..Len(TokenArray)) /\ min_size \in Lengths0(b, i)
    BY <1>0, <1>4, <1>5, <1>8 DEF Lengths0
  <2> DEFINE full == Max(Lengths0(b, i))
  <2>3. full \in Lengths0(b, i) /\ \A k \in Lengths0(b, i) : k <= full
    <3>1. Lengths0(b, i) # {}
      BY <2>2
    <3> QED
      BY <1>0, <2>2, <3>1, MaxIsGreatest
  <2> HIDE DEF full
  <2>4. full \in S /\ full \in Nat /\ full # 0
    <3>1. min_size <= full /\ full \in 0..Len(TokenArray) /\ Common(i, full)
      BY <1>6, <2>2, <2>3
    <3> QED
      BY <1>4, <3>1
  <2>5. \A k \in S : k \in Lengths0(b, i)
    BY <1>4, <1>5
  <2>6. Max(S) = full
    <3>1. Max(S) \in S /\ \A k \in S : k <= Max(S)
      <4>1. S \in SUBSET (0..Len(TokenArray)) /\ S # {}
        BY <1>0, <1>4, <2>4
      <4> HIDE DEF S
      <4> QED
        BY <1>0, <4>1, MaxIsGreatest
    <3>2. Max(S) <= full /\ full <= Max(S)
      BY <2>3, <2>4, <2>5, <3>1
    <3>3. Max(S) \in Nat
      BY <1>4, <3>1
    <3> HIDE DEF S
    <3> QED
      BY <2>4, <3>2, <3>3
  <2>7. Cut(full) \in 0..full
    <3>1. i0 + full <= Text[n].limit
      BY <2>3 DEF Lengths0, Repeats
    <3>2. i0 + full <= TextLength
      BY <1>0, <2>4, <3>1
    <3> QED
      BY <2>4, <3>2, CutBounded
  <2>8. w = IF Cut(full) >= MinRunSize THEN Cut(full) ELSE 0
    <3>1. Lengths0(b, i) # {} /\ ~(TokenArray[i0] \in NonInitials)
      BY <1>8, <2>2 DEF MayBeStartOfRun
    <3> QED
      BY <3>1 DEF Worth, b, full
  <2> HIDE DEF S
  <2> QED
    BY <1>0, <2>1, <2>4, <2>6, <2>7, <2>8
<1>9. CASE ~(Common(i, min_size) /\ MayBeStartOfRun(TokenArray[i0]))
  <2>1. size = 0
    BY <1>9 DEF new_size
  <2>2. w <= size_best
    <3>1. CASE w = 0
      BY <1>0, <3>1
    <3>2. CASE w # 0
      <4>1. ~Common(i, min_size)
        BY <1>7, <1>9, <3>2 DEF MayBeStartOfRun
      <4>2. PICK full \in Nat : Common(i, full) /\ MinRunSize <= w /\ w <= full
        BY <1>6, <1>7, <3>2
      <4>3. ~(min_size <= full)
        <5> SUFFICES ASSUME min_size <= full PROVE FALSE
          OBVIOUS
        <5>1. min_size \in 0..full
          BY <1>4
        <5> QED
          BY <1>3, <4>1, <4>2, <5>1
      <4> QED
        BY <1>0, <1>4, <1>7, <4>2, <4>3
    <3> QED
      BY <3>1, <3>2
  <2> QED
    BY <1>0, <1>7, <2>1, <2>2
<1> QED
  BY <1>8, <1>9

\* No repetition to the left of position lim beats the best run so far, and none
\* of its length lies to the left of it.
BestBefore(lim) ==
  \A b \in TextsNow, i \in (i0 + 1)..(lim - 1) :
    /\ Worth(b, i) <= size_best
    /\ size_best # 0 /\ Worth(b, i) = size_best => i_best <= i

\* The walk is on the chain of i0, and the best run so far is the best one up to
\* where it is.
Walk ==
  pc = "lcs" =>
    /\ i1 \in i0..Len(TokenArray)
    /\ i1 = i0 \/ Same2(i0, i1)
    /\ size_best # 0 => /\ i_best \in (i0 + 1)..i1
                        /\ TextAt(i_best) \in TextsNow
                        /\ Worth(TextAt(i_best), i_best) = size_best
    /\ BestBefore(i1 + 1)

\* Between the walk and the position it goes to nothing is worth reporting.
LEMMA NothingSkipped ==
  ASSUME FInv, Walk, pc = "lcs", NEW b \in TextsNow,
         NEW i \in (i1 + 1)..Len(TokenArray),
         LET j == forward_references[i1] IN j = 0 \/ i < j \/ i >= i_limit
  PROVE  Worth(b, i) = 0
<1> DEFINE j == forward_references[i1]
<1>0. /\ Types /\ Tiles /\ Place /\ TextLength = Len(TokenArray) + 1
      /\ Len(TokenArray) \in Nat /\ i0 \in Nat /\ i0 \in 1..Len(TokenArray) /\ i_limit \in Nat
      /\ i1 \in i0..Len(TokenArray) /\ (i1 = i0 \/ Same2(i0, i1)) /\ i \in Nat
  <2>1. Types /\ Tiles /\ Place
    BY DEF FInv, IInv
  <2>2. /\ TextLength = Len(TokenArray) + 1 /\ Len(TokenArray) \in Nat
        /\ i0 \in Nat /\ i0 \in 1..Len(TokenArray) /\ i_limit \in Nat
    BY <2>1, AtWork, ComparedTexts
  <2>3. i1 \in i0..Len(TokenArray) /\ (i1 = i0 \/ Same2(i0, i1))
    BY DEF Walk
  <2> QED
    BY <2>1, <2>2, <2>3
<1>1. Next2(j, i1)
  <2>1. i1 \in 1..(TextLength - 1)
    BY <1>0
  <2> QED
    BY <2>1 DEF FInv, AllExact, Comparing
<1> SUFFICES ASSUME Worth(b, i) # 0 PROVE FALSE
  OBVIOUS
<1>2. Same2(i0, i) /\ i < i_limit
  BY <1>0, WorthOnChain
<1>3. Same2(i1, i)
  BY <1>0, <1>2 DEF Same2, Same1
<1>4. j = 0 \/ i < j
  BY <1>0, <1>2
<1> HIDE DEF j
<1>5. CASE j = 0
  <2>1. i \in (i1 + 1)..(TextLength - 1)
    BY <1>0
  <2> QED
    BY <1>1, <1>3, <1>5, <2>1 DEF Next2
<1>6. CASE j # 0
  <2>1. j \in (i1 + 1)..(TextLength - 1) /\ \A k \in (i1 + 1)..(j - 1) : ~Same2(i1, k)
    BY <1>1, <1>6 DEF Next2
  <2>2. i \in (i1 + 1)..(j - 1)
    BY <1>0, <1>4, <1>6, <2>1
  <2> QED
    BY <1>3, <2>1, <2>2
<1> QED
  BY <1>5, <1>6

\* The steps of lcs leave alone what the worth of a position depends on.
LEMMA WorthKept ==
  ASSUME UNCHANGED <<textVars, hashVars, n, m, i0>>
  PROVE  /\ TextsNow' = TextsNow
         /\ \A b, i : Worth(b, i)' = Worth(b, i)
         /\ \A i : TextAt(i)' = TextAt(i)
         /\ \A i, j : Same2(i, j)' <=> Same2(i, j)
<1>1. /\ TokenArray' = TokenArray /\ Text' = Text /\ opt' = opt /\ n' = n /\ m' = m /\ i0' = i0
      /\ UNCHANGED textVars /\ UNCHANGED hash_table_size
  BY DEF textVars, hashVars
<1>2. TextsNow' = TextsNow /\ \A i : TextAt(i)' = TextAt(i)
  BY <1>1 DEF TextsNow, TextAt, option_set, NumberOfTexts
<1>3. \A b, i : Worth(b, i)' = Worth(b, i)
  BY <1>1 DEF Worth, Cut, Lengths0, Repeats, option_set, MinRunSize
<1> QED
  BY <1>1, <1>2, <1>3, CodesKept

LEMMA WalkStep ==
  ASSUME FInv, Walk, LcsStep
  PROVE  Walk'
<1>0. /\ Types /\ Tiles /\ Place /\ pc = "lcs" /\ pc' = "lcs"
      /\ TextLength = Len(TokenArray) + 1 /\ Len(TokenArray) \in Nat
      /\ i0 \in Nat /\ i0 \in 1..Len(TokenArray)
      /\ i1 \in i0..Len(TokenArray) /\ i1 \in Nat /\ size_best \in Nat
      /\ MinRunSize \in Nat \ {0} /\ m \in 1..NumberOfTexts
      /\ \A t \in 1..NumberOfTexts : Text[t].start \in Nat
  <2>1. Types /\ Tiles /\ Place /\ pc = "lcs" /\ pc' = "lcs"
    BY DEF FInv, IInv, LcsStep
  <2>2. /\ TextLength = Len(TokenArray) + 1 /\ Len(TokenArray) \in Nat /\ size_best \in Nat
        /\ i0 \in Nat /\ i0 \in 1..Len(TokenArray) /\ MinRunSize \in Nat \ {0}
        /\ n \in Nat /\ n \in 1..NumberOfTexts /\ m \in n..NumberOfTexts /\ NumberOfTexts \in Nat
        /\ \A t \in 1..NumberOfTexts : Text[t].start \in Nat
    BY <2>1, AtWork
  <2>3. i1 \in i0..Len(TokenArray)
    BY <2>1 DEF Walk
  <2>4. m \in 1..NumberOfTexts /\ i1 \in Nat
    BY <2>2, <2>3
  <2> QED
    BY <2>1, <2>2, <2>3, <2>4
<1> DEFINE i == NextOpportunity
           new == IF i < i_first THEN 0 ELSE new_size(i)
<1>1. /\ i # 0 /\ i = forward_references[i1] /\ i < i_limit /\ i1' = i
      /\ UNCHANGED <<textVars, hashVars, n, m, i0>>
      /\ IF new >= MinRunSize /\ new > size_best
         THEN size_best' = new /\ i_best' = i
         ELSE UNCHANGED <<size_best, i_best>>
  BY DEF LcsStep, NextOpportunity
<1> HIDE DEF i, new
<1>2. /\ i \in (i1 + 1)..Len(TokenArray) /\ i \in Nat /\ Same2(i1, i)
  <2>1. Next2(i, i1)
    <3>1. i1 \in 1..(TextLength - 1)
      BY <1>0
    <3> QED
      BY <1>0, <1>1, <3>1 DEF FInv, AllExact, Comparing
  <2>2. i \in (i1 + 1)..(TextLength - 1) /\ Same2(i1, i)
    BY <1>1, <2>1 DEF Next2
  <2> QED
    BY <1>0, <2>2
<1>3. Same2(i0, i)
  <2>1. i1 = i0 \/ Same2(i0, i1)
    BY <1>0 DEF Walk
  <2> QED
    BY <1>2, <2>1 DEF Same2, Same1
<1>4. ASSUME NEW b \in TextsNow, NEW k \in (i1 + 1)..(i - 1) PROVE Worth(b, k) = 0
  <2>1. k \in (i1 + 1)..Len(TokenArray) /\ k < i
    BY <1>0, <1>2
  <2> QED
    BY <1>0, <1>1, <2>1, NothingSkipped
<1>5. ASSUME NEW b \in TextsNow, Worth(b, i) # 0 PROVE b = TextAt(i) /\ Text[m].start <= i
  BY <1>0, <1>2, <1>5, WorthOnChain
<1> DEFINE w == Worth(TextAt(i), i)
<1>6. ASSUME Text[m].start <= i
      PROVE  /\ new \in Nat /\ w \in Nat /\ TextAt(i) \in TextsNow
             /\ IF new >= MinRunSize /\ new > size_best THEN w = new ELSE w <= size_best
  <2>1. new = new_size(i)
    BY <1>0, <1>2, <1>6 DEF new, i_first
  <2>2. /\ new \in Nat /\ w \in Nat
        /\ IF new >= MinRunSize /\ new > size_best THEN w = new ELSE w <= size_best
    <3> HIDE DEF w
    <3> QED
      BY <1>0, <1>1, <1>2, <1>6, <2>1, NewSizeIsWorth DEF w
  <2> QED
    BY <1>0, <1>1, <1>2, <1>6, <2>2, TextFound
<1>7. /\ size_best' \in Nat /\ size_best' >= size_best
      /\ size_best' # size_best => size_best' > size_best /\ i_best' = i
      /\ size_best' = size_best => i_best' = i_best
      /\ \A b \in TextsNow : Worth(b, i) <= size_best'
      /\ size_best' # 0 /\ size_best' # size_best => w = size_best' /\ TextAt(i) \in TextsNow
  <2>1. CASE Text[m].start <= i
    <3>1. \A b \in TextsNow : Worth(b, i) = 0 \/ Worth(b, i) = w
      BY <1>5
    <3> HIDE DEF w
    <3> QED
      BY <1>0, <1>1, <1>6, <2>1, <3>1
  <2>2. CASE ~(Text[m].start <= i)
    <3>1. \A b \in TextsNow : Worth(b, i) = 0
      BY <1>5, <2>2
    <3>2. new = 0
      BY <1>0, <1>2, <2>2 DEF new, i_first
    <3> HIDE DEF w
    <3> QED
      BY <1>0, <1>1, <3>1, <3>2
  <2> QED
    BY <2>1, <2>2
<1>8. ASSUME NEW b \in TextsNow, NEW k \in (i0 + 1)..i
      PROVE  /\ Worth(b, k) <= size_best'
             /\ size_best' # 0 /\ Worth(b, k) = size_best' => i_best' <= k
  <2>0. /\ size_best # 0 => i_best \in (i0 + 1)..i1
        /\ BestBefore(i1 + 1)
    BY <1>0 DEF Walk
  <2>1. CASE k \in (i0 + 1)..i1
    <3>1. k \in (i0 + 1)..((i1 + 1) - 1) /\ k \in Nat
      BY <1>0, <2>1
    <3>2. Worth(b, k) <= size_best /\ (size_best # 0 /\ Worth(b, k) = size_best => i_best <= k)
      BY <2>0, <3>1 DEF BestBefore
    <3>3. Worth(b, k) \in Nat
      <4>1. b \in n..NumberOfTexts
        <5>1. /\ TextsNow \in SUBSET (m..NumberOfTexts) /\ m \in n..NumberOfTexts
              /\ n \in Nat /\ NumberOfTexts \in Nat
          BY <1>0, AtWork
        <5> QED
          BY <5>1
      <4> QED
        BY <1>0, <3>1, <4>1, WorthIsLength
    <3> QED
      BY <1>0, <1>7, <3>2, <3>3
  <2>2. CASE k \in (i1 + 1)..(i - 1)
    <3>1. Worth(b, k) = 0
      BY <1>4, <2>2
    <3> QED
      BY <1>0, <1>7, <3>1
  <2>3. CASE k = i
    <3>1. Worth(b, i) <= size_best'
      BY <1>7
    <3>2. size_best' # 0 => i_best' <= i
      BY <1>0, <1>2, <1>7, <2>0
    <3> QED
      BY <2>3, <3>1, <3>2
  <2> QED
    BY <1>0, <1>2, <2>1, <2>2, <2>3
<1>9. size_best' # 0 => /\ i_best' \in (i0 + 1)..i
                        /\ TextAt(i_best') \in TextsNow
                        /\ Worth(TextAt(i_best'), i_best') = size_best'
  <2>1. size_best # 0 => /\ i_best \in (i0 + 1)..i1
                         /\ TextAt(i_best) \in TextsNow
                         /\ Worth(TextAt(i_best), i_best) = size_best
    BY <1>0 DEF Walk
  <2>2. CASE size_best' = size_best
    <3>1. (i0 + 1)..i1 \subseteq (i0 + 1)..i
      BY <1>0, <1>2
    <3> QED
      BY <1>7, <2>1, <2>2, <3>1
  <2>3. CASE size_best' # size_best
    <3>1. i \in (i0 + 1)..i
      BY <1>0, <1>2
    <3> QED
      BY <1>7, <2>3, <3>1
  <2> QED
    BY <2>2, <2>3
<1>10. /\ TextsNow' = TextsNow
       /\ \A b, k : Worth(b, k)' = Worth(b, k)
       /\ \A k : TextAt(k)' = TextAt(k)
       /\ \A k, j : Same2(k, j)' <=> Same2(k, j)
       /\ i0' = i0 /\ TokenArray' = TokenArray
  BY <1>1, WorthKept DEF textVars
<1>11. BestBefore(i1 + 1)'
  <2>1. (i + 1) - 1 = i
    BY <1>2
  <2> QED
    BY <1>1, <1>8, <1>10, <2>1 DEF BestBefore
<1>12. i \in i0..Len(TokenArray)
  BY <1>0, <1>2
<1> QED
  BY <1>1, <1>3, <1>9, <1>10, <1>11, <1>12 DEF Walk

\* When lcs is done the best run is the leftmost of the longest ones in the texts.
LEMMA WalkIsOver ==
  ASSUME FInv, Walk, pc = "lcs", NextOpportunity = 0
  PROVE  BestBefore(Len(TokenArray) + 1)
<1>0. /\ Types /\ Tiles /\ Place /\ Len(TokenArray) \in Nat /\ i0 \in Nat
      /\ i1 \in i0..Len(TokenArray) /\ i1 \in Nat /\ size_best \in Nat
      /\ BestBefore(i1 + 1) /\ (size_best # 0 => i_best \in (i0 + 1)..i1)
      /\ TextLength = Len(TokenArray) + 1
  <2>1. Types /\ Tiles /\ Place
    BY DEF FInv, IInv
  <2>2. Len(TokenArray) \in Nat /\ i0 \in Nat /\ size_best \in Nat
        /\ TextLength = Len(TokenArray) + 1
    BY <2>1, AtWork
  <2>3. /\ i1 \in i0..Len(TokenArray)
        /\ BestBefore(i1 + 1) /\ (size_best # 0 => i_best \in (i0 + 1)..i1)
    BY DEF Walk
  <2>4. i1 \in Nat
    BY <2>2, <2>3
  <2> QED
    BY <2>1, <2>2, <2>3, <2>4
<1>1. ASSUME NEW b \in TextsNow, NEW i \in (i1 + 1)..Len(TokenArray)
      PROVE  Worth(b, i) = 0
  <2> DEFINE j == forward_references[i1]
  <2>1. j = 0 \/ j >= i_limit
    <3>1. j \in 0..(TextLength - 1) /\ i_limit \in Nat
      <4>1. i1 \in 0..(TextLength - 1) /\ References
        BY <1>0 DEF FInv, IInv
      <4> QED
        BY <1>0, <4>1, ComparedTexts DEF References
    <3> QED
      BY <3>1 DEF NextOpportunity
  <2>2. j = 0 \/ i < j \/ i >= i_limit
    <3>1. j \in Nat /\ i_limit \in Nat
      <4>1. i1 \in 0..(TextLength - 1) /\ References
        BY <1>0 DEF FInv, IInv
      <4> QED
        BY <1>0, <4>1, ComparedTexts DEF References
    <3> HIDE DEF j
    <3> QED
      BY <1>0, <2>1, <3>1
  <2> HIDE DEF j
  <2> QED
    BY <2>2, NothingSkipped DEF j
<1>2. ASSUME NEW b \in TextsNow, NEW i \in (i0 + 1)..((Len(TokenArray) + 1) - 1)
      PROVE  /\ Worth(b, i) <= size_best
             /\ size_best # 0 /\ Worth(b, i) = size_best => i_best <= i
  <2>1. CASE i \in (i0 + 1)..i1
    <3>1. i \in (i0 + 1)..((i1 + 1) - 1)
      BY <1>0, <2>1
    <3> QED
      BY <1>0, <3>1 DEF BestBefore
  <2>2. CASE i \in (i1 + 1)..Len(TokenArray)
    BY <1>0, <1>1, <2>2
  <2> QED
    BY <1>0, <2>1, <2>2
<1> QED
  BY <1>2 DEF BestBefore

\* lcs starts at the position itself.
LEMMA WalkStarts ==
  ASSUME IInv, pc = "lcs", i1 = i0, size_best = 0
  PROVE  Walk
<1>1. Types /\ Tiles /\ Place
  BY DEF IInv
<1>2. i0 \in 1..Len(TokenArray) /\ i0 \in Nat /\ Len(TokenArray) \in Nat
  BY <1>1, AtWork
<1>3. BestBefore(i1 + 1)
  BY <1>2 DEF BestBefore
<1> QED
  BY <1>2, <1>3 DEF Walk

-----------------------------------------------------------------------------
(* The comparisons *)

\* the number of the text that is compared says how far the program is; without
\* option e a text is compared to all others at once.
Stages ==
  /\ pc \in {"args", "read", "table", "hash1", "hash2"} => n = 0
  /\ pc \in {"range", "lcs"} /\ ~option_set("e") =>
       m = First(n) \/ (pc = "range" /\ m > NumberOfTexts)

\* the state of LongestRuns
Stage == IF n = 0 THEN "input"
         ELSE IF pc = "range" \/ AtPosition THEN "work" ELSE "done"
Job == IF AtPosition
       THEN <<n, IF option_set("e") THEN {m} ELSE m..NumberOfTexts>> ELSE <<>>
At == IF AtPosition THEN i0 ELSE 0

\* the comparison of new text a to text b, or to b and all texts after it
JobOf(a, b) == <<a, IF option_set("e") THEN {b} ELSE b..NumberOfTexts>>

Pending(a, b) ==
  /\ n # 0 /\ First(a) <= b
  /\ a > n \/ (a = n /\ (b > m \/ (b = m /\ pc = "range")))
  /\ ~option_set("e") => b = First(a)

Todo == {<<ab[1], IF option_set("e") THEN {ab[2]} ELSE ab[2]..NumberOfTexts>> :
           ab \in {ab \in (1..NumberOfNewTexts) \X (1..NumberOfTexts) :
              /\ n # 0 /\ First(ab[1]) <= ab[2]
              /\ ab[1] > n \/ (ab[1] = n /\ (ab[2] > m \/ (ab[2] = m /\ pc = "range")))
              /\ ~option_set("e") => ab[2] = First(ab[1])}}

TodoIsPending ==
  \A x : x \in Todo <=> \E a \in 1..NumberOfNewTexts, b \in 1..NumberOfTexts :
                          Pending(a, b) /\ x = JobOf(a, b)

LEMMA TodoIs == TodoIsPending
<1> DEFINE P == {ab \in (1..NumberOfNewTexts) \X (1..NumberOfTexts) : Pending(ab[1], ab[2])}
<1>1. Todo = {JobOf(ab[1], ab[2]) : ab \in P}
  BY DEF Todo, JobOf, Pending
<1>2. ASSUME NEW x, NEW ab \in P, x = JobOf(ab[1], ab[2])
      PROVE  \E a \in 1..NumberOfNewTexts, b \in 1..NumberOfTexts :
               Pending(a, b) /\ x = JobOf(a, b)
  <2>1. ab[1] \in 1..NumberOfNewTexts /\ ab[2] \in 1..NumberOfTexts /\ Pending(ab[1], ab[2])
    OBVIOUS
  <2> QED
    BY <1>2, <2>1
<1>3. ASSUME NEW x, NEW a \in 1..NumberOfNewTexts, NEW b \in 1..NumberOfTexts,
             Pending(a, b), x = JobOf(a, b)
      PROVE  \E ab \in P : x = JobOf(ab[1], ab[2])
  <2>1. <<a, b>> \in P /\ <<a, b>>[1] = a /\ <<a, b>>[2] = b
    BY <1>3
  <2> QED
    BY <1>3, <2>1
<1> HIDE DEF P
<1> QED
  BY <1>1, <1>2, <1>3 DEF TodoIsPending

LEMMA TodoWillBe == TodoIsPending'
BY TodoIs, PTL

LEMMA JobsDiffer ==
  ASSUME NEW a, NEW b, NEW c, NEW d, JobOf(a, b) = JobOf(c, d),
         ~option_set("e") => b = First(a) /\ d = First(c)
  PROVE  a = c /\ b = d
<1>1. JobOf(a, b)[1] = a /\ JobOf(c, d)[1] = c
  BY DEF JobOf
<1>2. option_set("e") => JobOf(a, b)[2] = {b} /\ JobOf(c, d)[2] = {d}
  BY DEF JobOf
<1>3. a = c
  BY <1>1
<1>4. option_set("e") => b = d
  BY <1>2
<1> QED
  BY <1>3, <1>4

\* First and Others are the same choice of texts.
LEMMA OthersAre ==
  ASSUME Types, NEW a \in 1..NumberOfNewTexts
  PROVE  /\ Promise!Others(a) = First(a)..NumberOfTexts
         /\ First(a) \in Nat \ {0} /\ NumberOfTexts \in Nat
<1>1. NumberOfNewTexts \in Nat /\ NumberOfTexts \in Nat /\ a \in Nat \ {0}
  BY Lengths DEF Types
<1>2. Promise!Others(a) = First(a)..NumberOfTexts
  BY DEF Promise!Others, First, option_set, NumberOfTexts
<1> QED
  BY <1>1, <1>2 DEF First

LEMMA JobsAre ==
  ASSUME Types
  PROVE  \A x : x \in Promise!Jobs <=>
           \E a \in 1..NumberOfNewTexts, b \in 1..NumberOfTexts :
             /\ First(a) <= b /\ (~option_set("e") => b = First(a))
             /\ x = JobOf(a, b)
<1> DEFINE Of(a) == IF option_set("e")
                    THEN {<<a, {b}>> : b \in Promise!Others(a)}
                    ELSE {<<a, Promise!Others(a)>>} \ {<<a, {}>>}
           Is(a, x) == \E b \in 1..NumberOfTexts :
                         /\ First(a) <= b /\ (~option_set("e") => b = First(a))
                         /\ x = JobOf(a, b)
<1>1. Promise!Jobs = UNION {Of(a) : a \in 1..NumberOfNewTexts}
  BY DEF Promise!Jobs, option_set
<1>2. ASSUME NEW a \in 1..NumberOfNewTexts, NEW x
      PROVE  x \in Of(a) <=> Is(a, x)
  <2>0. /\ Promise!Others(a) = First(a)..NumberOfTexts
        /\ First(a) \in Nat \ {0} /\ NumberOfTexts \in Nat
    BY OthersAre
  <2>1. CASE option_set("e")
    <3>1. x \in Of(a) <=> \E b \in First(a)..NumberOfTexts : x = <<a, {b}>>
      BY <2>0, <2>1
    <3>2. \A b : JobOf(a, b) = <<a, {b}>>
      BY <2>1 DEF JobOf
    <3>3. \A b : b \in First(a)..NumberOfTexts <=> b \in 1..NumberOfTexts /\ First(a) <= b
      BY <2>0
    <3> HIDE DEF Of
    <3> QED
      BY <2>1, <3>1, <3>2, <3>3
  <2>2. CASE ~option_set("e")
    <3>1. x \in Of(a) <=> x = <<a, First(a)..NumberOfTexts>> /\ x # <<a, {}>>
      BY <2>0, <2>2
    <3>2. JobOf(a, First(a)) = <<a, First(a)..NumberOfTexts>>
      BY <2>2 DEF JobOf
    <3>3. First(a)..NumberOfTexts = {} <=> ~(First(a) <= NumberOfTexts)
      BY <2>0
    <3>4. Is(a, x) <=> First(a) <= NumberOfTexts /\ x = JobOf(a, First(a))
      BY <2>0, <2>2
    <3>5. <<a, First(a)..NumberOfTexts>> # <<a, {}>> <=> First(a)..NumberOfTexts # {}
      <4>1. \A S, T : <<a, S>>[2] = S /\ <<a, T>>[2] = T
        OBVIOUS
      <4> QED
        BY <4>1
    <3> HIDE DEF Of, Is
    <3> QED
      BY <3>1, <3>2, <3>3, <3>4, <3>5
  <2> QED
    BY <2>1, <2>2
<1> HIDE DEF Of, Is
<1>3. \A x : x \in Promise!Jobs <=> \E a \in 1..NumberOfNewTexts : Is(a, x)
  BY <1>1, <1>2
<1> QED
  BY <1>3 DEF Is

\* The comparisons that have not begun once a comparison is being made.
LEMMA TodoAfterLook ==
  ASSUME IInv, Stages, UNCHANGED <<textVars, n>>, NEW i, LookAt(i),
         pc \in {"range", "lcs"}, n <= NumberOfNewTexts, m <= NumberOfTexts
  PROVE  /\ \A a \in 1..NumberOfNewTexts, b \in 1..NumberOfTexts :
              Pending(a, b)' <=> /\ First(a) <= b /\ (~option_set("e") => b = First(a))
                                 /\ a > n \/ (a = n /\ b > m)
         /\ NumberOfNewTexts' = NumberOfNewTexts /\ NumberOfTexts' = NumberOfTexts
         /\ \A a, b : JobOf(a, b)' = JobOf(a, b)
         /\ \A a : First(a)' = First(a)
         /\ (~option_set("e") => m = First(n))
<1>0. /\ Types /\ NumberOfTexts \in Nat /\ n \in Nat \ {0} /\ m \in Int
      /\ m >= First(n) /\ First(n) \in Int
  <2>1. Types /\ Place
    BY DEF IInv
  <2>2. n \in Nat \ {0} /\ m \in Int /\ m >= First(n)
    BY <2>1 DEF Place
  <2> QED
    BY <2>1, <2>2, Lengths, FirstAfter
<1>1. /\ Text' = Text /\ opt' = opt /\ n' = n
      /\ NumberOfNewTexts' = NumberOfNewTexts /\ NumberOfTexts' = NumberOfTexts
  BY DEF textVars, NumberOfTexts
<1>2. /\ \A a, b : JobOf(a, b)' = JobOf(a, b)
      /\ \A a : First(a)' = First(a)
      /\ option_set("e")' <=> option_set("e")
  BY <1>1 DEF JobOf, First, option_set
<1>3. ~option_set("e") => m = First(n)
  BY <1>0 DEF Stages
<1>4. \/ pc' = "lcs" /\ m' = m
      \/ pc' = "range" /\ m' = (IF option_set("e") THEN m ELSE NumberOfTexts) + 1
  BY DEF LookAt
<1>5. ASSUME NEW a \in 1..NumberOfNewTexts, NEW b \in 1..NumberOfTexts
      PROVE  Pending(a, b)' <=> /\ First(a) <= b /\ (~option_set("e") => b = First(a))
                                /\ a > n \/ (a = n /\ b > m)
  <2>0. b \in Nat /\ b <= NumberOfTexts /\ a \in Nat
    BY <1>0
  <2>1. Pending(a, b)' <=>
          /\ First(a) <= b
          /\ a > n \/ (a = n /\ (b > m' \/ (b = m' /\ pc' = "range")))
          /\ ~option_set("e") => b = First(a)
    BY <1>0, <1>1, <1>2 DEF Pending
  <2>2. ASSUME ~option_set("e"), a = n, b = First(a) PROVE b = m
    BY <1>3, <2>2
  <2>3. CASE pc' = "lcs" /\ m' = m
    BY <2>1, <2>3
  <2>4. CASE pc' = "range" /\ m' = (IF option_set("e") THEN m ELSE NumberOfTexts) + 1
    <3>1. CASE option_set("e")
      <4>1. b > m' \/ b = m' <=> b > m
        BY <1>0, <2>0, <2>4, <3>1
      <4> QED
        BY <2>1, <2>4, <3>1, <4>1
    <3>2. CASE ~option_set("e")
      <4>1. ~(b > m') /\ b # m'
        BY <1>0, <2>0, <2>4, <3>2
      <4>2. a = n /\ b = First(a) => ~(b > m)
        BY <1>0, <2>0, <2>2, <3>2
      <4> QED
        BY <2>1, <2>4, <3>2, <4>1, <4>2
    <3> QED
      BY <3>1, <3>2
  <2> QED
    BY <1>4, <2>3, <2>4
<1> QED
  BY <1>1, <1>2, <1>3, <1>5

-----------------------------------------------------------------------------
(* Every step is a step of LongestRuns or leaves its state alone. *)

LEMMA LookAtGoesTo ==
  ASSUME IInv, UNCHANGED <<textVars, n>>, NEW i \in Nat, LookAt(i),
         pc \in {"range", "lcs"}, n <= NumberOfNewTexts, m <= NumberOfTexts
  PROVE  /\ Promise!GoTo(<<n, TextsNow>>, i)
         /\ Stage = "work" /\ Stage' = "work"
<1>0. /\ n \in Nat \ {0} /\ n \in 1..NumberOfTexts /\ n \in 1..NumberOfNewTexts
      /\ MinRunSize \in Nat /\ Text[n].limit \in Nat
  <2>1. Types /\ n \in Nat \ {0} /\ NumberOfTexts \in Nat /\ NumberOfNewTexts \in 0..NumberOfTexts
        /\ MinRunSize \in Nat
    BY Lengths DEF IInv, Place, Types
  <2>2. n \in 1..NumberOfTexts /\ n \in 1..NumberOfNewTexts
    BY <2>1
  <2>3. Text[n].limit \in Nat
    BY <2>1, <2>2, Lengths DEF TextType
  <2> QED
    BY <2>1, <2>2, <2>3
<1>1. /\ Text' = Text /\ opt' = opt /\ n' = n /\ i0' = i
      /\ NumberOfNewTexts' = NumberOfNewTexts /\ NumberOfTexts' = NumberOfTexts
  BY DEF textVars, NumberOfTexts, LookAt
<1>2. i + MinRunSize - 1 < Text[n].limit <=> i + MinRunSize <= Text[n].limit
  BY <1>0
<1>3. CASE i + MinRunSize <= Text[n].limit
  <2>1. pc' = "lcs" /\ m' = m
    BY <1>2, <1>3 DEF LookAt
  <2>2. AtPosition'
    BY <2>1 DEF AtPosition
  <2>3. At' = i
    BY <1>1, <2>2 DEF At
  <2>4. Job' = <<n, TextsNow>>
    BY <1>1, <2>1, <2>2 DEF Job, TextsNow, option_set
  <2>5. Promise!GoTo(<<n, TextsNow>>, i)
    BY <1>3, <2>3, <2>4 DEF Promise!GoTo, At, Job, MinRunSize
  <2> QED
    BY <1>0, <1>1, <2>2, <2>5 DEF Stage, AtPosition
<1>4. CASE ~(i + MinRunSize <= Text[n].limit)
  <2>1. pc' = "range"
    BY <1>2, <1>4 DEF LookAt
  <2>2. ~AtPosition'
    BY <2>1 DEF AtPosition
  <2>3. At' = 0 /\ Job' = <<>>
    BY <2>2 DEF At, Job
  <2>4. Promise!GoTo(<<n, TextsNow>>, i)
    BY <1>4, <2>3 DEF Promise!GoTo, At, Job, MinRunSize
  <2> QED
    BY <1>0, <1>1, <2>1, <2>4 DEF Stage, AtPosition
<1> QED
  BY <1>3, <1>4

LEMMA TakeMapped ==
  ASSUME IInv, Stages, StartRange
  PROVE  Promise!Take
<1>0. /\ pc = "range" /\ n <= NumberOfNewTexts /\ m <= NumberOfTexts
      /\ UNCHANGED <<textVars, n>> /\ UNCHANGED runs /\ UNCHANGED textVars
      /\ LookAt(Text[n].start)
  BY DEF StartRange
<1>1. /\ Types /\ n \in 1..NumberOfNewTexts /\ m \in 1..NumberOfTexts /\ m >= First(n)
      /\ Text[n].start \in Nat /\ n \in Nat /\ m \in Nat /\ NumberOfTexts \in Nat
      /\ First(n) \in Int /\ NumberOfNewTexts \in Nat /\ n # 0
  <2>1. Types /\ n \in Nat \ {0} /\ m \in Int /\ m >= First(n)
    BY <1>0 DEF IInv, Place
  <2>2. NumberOfTexts \in Nat /\ NumberOfNewTexts \in 0..NumberOfTexts
    BY <2>1, Lengths DEF Types
  <2>3. First(n) \in Int /\ First(n) >= n
    BY <1>0, <2>1, FirstAfter
  <2>4. n \in 1..NumberOfNewTexts /\ m \in 1..NumberOfTexts /\ n \in 1..NumberOfTexts
    BY <1>0, <2>1, <2>2, <2>3
  <2>5. Text[n].start \in Nat
    BY <2>1, <2>4, Lengths DEF TextType
  <2> QED
    BY <2>1, <2>2, <2>3, <2>4, <2>5
<1>2. /\ \A a \in 1..NumberOfNewTexts, b \in 1..NumberOfTexts :
           Pending(a, b)' <=> /\ First(a) <= b /\ (~option_set("e") => b = First(a))
                              /\ a > n \/ (a = n /\ b > m)
      /\ NumberOfNewTexts' = NumberOfNewTexts /\ NumberOfTexts' = NumberOfTexts
      /\ \A a, b : JobOf(a, b)' = JobOf(a, b)
      /\ (~option_set("e") => m = First(n))
  BY <1>0, TodoAfterLook
<1>3. Promise!GoTo(<<n, TextsNow>>, Text[n].start) /\ Stage = "work" /\ Stage' = "work"
  BY <1>0, <1>1, LookAtGoesTo
<1> DEFINE j == JobOf(n, m)
<1>4. j = <<n, TextsNow>>
  BY DEF JobOf, TextsNow
<1>5. Pending(n, m)
  BY <1>0, <1>1, <1>2 DEF Pending
<1>6. j \in Todo
  BY <1>1, <1>5, TodoIs DEF TodoIsPending
<1>7. Todo' = Todo \ {j}
  <2>1. ASSUME NEW a \in 1..NumberOfNewTexts, NEW b \in 1..NumberOfTexts
        PROVE  Pending(a, b)' <=> Pending(a, b) /\ JobOf(a, b) # j
    <3>1. Pending(a, b)' <=> Pending(a, b) /\ ~(a = n /\ b = m)
      <4>1. Pending(a, b) <=>
              /\ First(a) <= b /\ (~option_set("e") => b = First(a))
              /\ a > n \/ (a = n /\ (b > m \/ b = m))
        BY <1>0, <1>1 DEF Pending
      <4>2. a \in Nat /\ b \in Nat
        BY <1>1
      <4> QED
        BY <1>1, <1>2, <4>1, <4>2
    <3>2. ASSUME Pending(a, b), JobOf(a, b) = j PROVE a = n /\ b = m
      <4>1. ~option_set("e") => b = First(a) /\ m = First(n)
        BY <1>2, <3>2 DEF Pending
      <4> QED
        BY <3>2, <4>1, JobsDiffer
    <3> QED
      BY <3>1, <3>2
  <2>2. \A x : x \in Todo' <=> \E a \in 1..NumberOfNewTexts, b \in 1..NumberOfTexts :
                                 Pending(a, b)' /\ x = JobOf(a, b)
    <3>1. \A x : x \in Todo' <=>
             \E a \in 1..NumberOfNewTexts', b \in 1..NumberOfTexts' :
               Pending(a, b)' /\ x = JobOf(a, b)'
      BY TodoWillBe DEF TodoIsPending
    <3> QED
      BY <1>2, <3>1
  <2> HIDE DEF j
  <2> QED
    BY <2>1, <2>2, TodoIs DEF TodoIsPending
<1>8. At = 0
  BY <1>0 DEF At, AtPosition
<1>9. Text[j[1]].start = Text[n].start
  BY DEF JobOf
<1> HIDE DEF j
<1>10. Promise!GoTo(j, Text[j[1]].start)
  BY <1>3, <1>4, <1>9
<1> QED
  BY <1>0, <1>3, <1>6, <1>7, <1>8, <1>10
     DEF Promise!Take, Promise!inputVars, Todo, At, Stage, textVars

LEMMA TodoKept ==
  ASSUME IInv, Stages, UNCHANGED <<textVars, n>>, NEW i, LookAt(i), pc = "lcs"
  PROVE  Todo' = Todo
<1>0. /\ pc \in {"range", "lcs"} /\ n <= NumberOfNewTexts /\ m <= NumberOfTexts /\ n # 0
  BY DEF IInv, Place
<1>1. /\ \A a \in 1..NumberOfNewTexts, b \in 1..NumberOfTexts :
           Pending(a, b)' <=> /\ First(a) <= b /\ (~option_set("e") => b = First(a))
                              /\ a > n \/ (a = n /\ b > m)
      /\ NumberOfNewTexts' = NumberOfNewTexts /\ NumberOfTexts' = NumberOfTexts
      /\ \A a, b : JobOf(a, b)' = JobOf(a, b)
  BY <1>0, TodoAfterLook
<1>2. \A a \in 1..NumberOfNewTexts, b \in 1..NumberOfTexts : Pending(a, b)' <=> Pending(a, b)
  BY <1>0, <1>1 DEF Pending
<1>3. \A x : x \in Todo' <=> \E a \in 1..NumberOfNewTexts, b \in 1..NumberOfTexts :
                               Pending(a, b)' /\ x = JobOf(a, b)
  BY <1>1, TodoWillBe DEF TodoIsPending
<1> QED
  BY <1>2, <1>3, TodoIs DEF TodoIsPending

LEMMA RepetitionsAre ==
  ASSUME pc = "lcs"
  PROVE  /\ \A c : c \in Promise!Repetitions <=>
              c \in TextsNow \X ((i0 + 1)..Len(TokenArray)) /\ Worth(c[1], c[2]) > 0
         /\ Job = <<n, TextsNow>> /\ At = i0
<1>1. AtPosition
  BY DEF AtPosition
<1>2. Job = <<n, TextsNow>> /\ At = i0
  BY <1>1 DEF Job, At, TextsNow
<1>3. \A b, i : Promise!Accepted(b, i) = Worth(b, i)
  BY SameWorth
<1>4. Promise!Repetitions =
        {c \in Job[2] \X ((At + 1)..Len(TokenArray)) : Promise!Accepted(c[1], c[2]) > 0}
  BY DEF Promise!Repetitions, Job, At
<1>5. Job[2] = TextsNow
  BY <1>2
<1> QED
  BY <1>2, <1>3, <1>4, <1>5

LEMMA MoveOnMapped ==
  ASSUME FInv, Walk, Stages, NoRun
  PROVE  Promise!MoveOn
<1>0. /\ pc = "lcs" /\ NextOpportunity = 0 /\ size_best = 0 /\ LookAt(i0 + 1)
      /\ UNCHANGED <<textVars, n>> /\ UNCHANGED runs /\ UNCHANGED textVars
  BY DEF NoRun
<1>1. /\ IInv /\ Types /\ Tiles /\ Place /\ i0 \in Nat /\ i0 # 0 /\ i0 + 1 \in Nat
      /\ n <= NumberOfNewTexts /\ m <= NumberOfTexts /\ n \in Nat /\ NumberOfTexts \in Nat
      /\ TextsNow \in SUBSET (m..NumberOfTexts) /\ m \in n..NumberOfTexts
      /\ Len(TokenArray) \in Nat
  <2>1. IInv /\ Types /\ Tiles /\ Place
    BY DEF FInv, IInv
  <2>2. /\ n <= NumberOfNewTexts /\ n \in Nat /\ NumberOfTexts \in Nat /\ Len(TokenArray) \in Nat
        /\ TextsNow \in SUBSET (m..NumberOfTexts) /\ m \in n..NumberOfTexts
        /\ i0 \in 1..Len(TokenArray)
    BY <1>0, <2>1, AtWork
  <2> QED
    BY <2>1, <2>2
<1>2. Promise!GoTo(<<n, TextsNow>>, i0 + 1) /\ Stage = "work" /\ Stage' = "work"
  BY <1>0, <1>1, LookAtGoesTo
<1>3. Todo' = Todo
  BY <1>0, <1>1, TodoKept
<1>4. /\ \A c : c \in Promise!Repetitions <=>
           c \in TextsNow \X ((i0 + 1)..Len(TokenArray)) /\ Worth(c[1], c[2]) > 0
      /\ Job = <<n, TextsNow>> /\ At = i0
  BY <1>0, RepetitionsAre
<1>5. Promise!Repetitions = {}
  <2> SUFFICES ASSUME NEW b \in TextsNow, NEW i \in (i0 + 1)..Len(TokenArray), Worth(b, i) > 0
               PROVE  FALSE
    <3>1. ASSUME NEW c \in TextsNow \X ((i0 + 1)..Len(TokenArray))
          PROVE  c[1] \in TextsNow /\ c[2] \in (i0 + 1)..Len(TokenArray)
      OBVIOUS
    <3> QED
      BY <1>4, <3>1
  <2>1. BestBefore(Len(TokenArray) + 1)
    BY <1>0, WalkIsOver
  <2>2. i \in (i0 + 1)..((Len(TokenArray) + 1) - 1)
    BY <1>1
  <2>3. Worth(b, i) <= 0
    BY <1>0, <2>1, <2>2 DEF BestBefore
  <2>4. Worth(b, i) \in Nat
    <3>1. b \in n..NumberOfTexts /\ i \in Nat
      BY <1>1
    <3> QED
      BY <1>0, <1>1, <3>1, WorthIsLength
  <2> QED
    BY <2>3, <2>4
<1> QED
  BY <1>0, <1>1, <1>2, <1>3, <1>4, <1>5
     DEF Promise!MoveOn, Promise!inputVars, Todo, At, Job, Stage, textVars

LEMMA ReportMapped ==
  ASSUME FInv, Walk, Stages, AddRun
  PROVE  Promise!Report
<1>0. /\ pc = "lcs" /\ NextOpportunity = 0 /\ size_best # 0 /\ LookAt(i0 + size_best)
      /\ UNCHANGED <<textVars, n>> /\ UNCHANGED textVars /\ runs' = Append(runs, Run)
  BY DEF AddRun
<1>1. /\ IInv /\ Types /\ Tiles /\ Place /\ i0 \in Nat /\ i0 # 0 /\ i0 + size_best \in Nat
      /\ n <= NumberOfNewTexts /\ m <= NumberOfTexts /\ n \in Nat /\ NumberOfTexts \in Nat
      /\ TextsNow \in SUBSET (m..NumberOfTexts) /\ m \in n..NumberOfTexts
      /\ Len(TokenArray) \in Nat /\ size_best \in Nat
  <2>1. IInv /\ Types /\ Tiles /\ Place
    BY DEF FInv, IInv
  <2>2. /\ n <= NumberOfNewTexts /\ n \in Nat /\ NumberOfTexts \in Nat /\ Len(TokenArray) \in Nat
        /\ TextsNow \in SUBSET (m..NumberOfTexts) /\ m \in n..NumberOfTexts
        /\ i0 \in 1..Len(TokenArray) /\ size_best \in Nat
    BY <1>0, <2>1, AtWork
  <2> QED
    BY <2>1, <2>2
<1>2. Promise!GoTo(<<n, TextsNow>>, i0 + size_best) /\ Stage = "work" /\ Stage' = "work"
  BY <1>0, <1>1, LookAtGoesTo
<1>3. Todo' = Todo
  BY <1>0, <1>1, TodoKept
<1>4. /\ \A c : c \in Promise!Repetitions <=>
           c \in TextsNow \X ((i0 + 1)..Len(TokenArray)) /\ Worth(c[1], c[2]) > 0
      /\ Job = <<n, TextsNow>> /\ At = i0
  BY <1>0, RepetitionsAre
<1> DEFINE b == TextAt(i_best)
           best == <<b, i_best>>
<1>5. /\ b \in TextsNow /\ Worth(b, i_best) = size_best
      /\ i_best \in (i0 + 1)..Len(TokenArray) /\ best[1] = b /\ best[2] = i_best
  <2>1. /\ i_best \in (i0 + 1)..i1 /\ i1 \in i0..Len(TokenArray)
        /\ TextAt(i_best) \in TextsNow
        /\ Worth(TextAt(i_best), i_best) = size_best
    BY <1>0 DEF Walk
  <2> QED
    BY <1>1, <2>1
<1>6. \A a, i : Promise!Accepted(a, i) = Worth(a, i)
  BY <1>0, SameWorth
<1>7. best \in Promise!Repetitions
  <2>1. best \in TextsNow \X ((i0 + 1)..Len(TokenArray)) /\ Worth(best[1], best[2]) > 0
    BY <1>0, <1>1, <1>5
  <2> HIDE DEF best
  <2> QED
    BY <1>4, <2>1
<1>8. Promise!Best(best)
  <2> SUFFICES ASSUME NEW d \in Promise!Repetitions
               PROVE  \/ Promise!Accepted(d[1], d[2]) < Promise!Accepted(best[1], best[2])
                      \/ /\ Promise!Accepted(d[1], d[2]) = Promise!Accepted(best[1], best[2])
                         /\ best[2] <= d[2]
    <3> HIDE DEF best
    <3> QED
      BY Zenon DEF Promise!Best
  <2>1. d[1] \in TextsNow /\ d[2] \in (i0 + 1)..Len(TokenArray)
    <3>1. d \in TextsNow \X ((i0 + 1)..Len(TokenArray))
      BY <1>4
    <3> QED
      BY <3>1
  <2>2. BestBefore(Len(TokenArray) + 1)
    BY <1>0, WalkIsOver
  <2>3. d[2] \in (i0 + 1)..((Len(TokenArray) + 1) - 1)
    BY <1>1, <2>1
  <2>4. /\ Worth(d[1], d[2]) <= size_best
        /\ Worth(d[1], d[2]) = size_best => i_best <= d[2]
    BY <1>0, <2>1, <2>2, <2>3 DEF BestBefore
  <2>5. Worth(d[1], d[2]) \in Nat
    <3>1. d[1] \in n..NumberOfTexts /\ d[2] \in Nat
      <4>1. \A x \in TextsNow : x \in n..NumberOfTexts
        BY <1>1
      <4>2. \A x \in (i0 + 1)..Len(TokenArray) : x \in Nat
        BY <1>1
      <4> QED
        BY <2>1, <4>1, <4>2
    <3> QED
      BY <1>0, <1>1, <3>1, WorthIsLength
  <2> HIDE DEF best, b
  <2> QED
    BY <1>1, <1>5, <1>6, <2>4, <2>5
<1>9. Run = [text0 |-> Job[1], pos0 |-> At - Text[Job[1]].start,
             text1 |-> best[1], pos1 |-> best[2] - Text[best[1]].start,
             size |-> Promise!Accepted(best[1], best[2])]
  <2>1. Job[1] = n
    BY <1>4
  <2> HIDE DEF best, b
  <2> QED
    BY <1>4, <1>5, <1>6, <2>1 DEF Run, b
<1>10. Promise!GoTo(Job, At + Promise!Accepted(best[1], best[2]))
  BY <1>2, <1>4, <1>5, <1>6
<1> HIDE DEF best, b
<1> QED
  BY <1>0, <1>1, <1>2, <1>3, <1>4, <1>7, <1>8, <1>9, <1>10
     DEF Promise!Report, Promise!inputVars, Todo, At, Job, Stage, textVars

LEMMA FinishMapped ==
  ASSUME IInv, CompareDone
  PROVE  Promise!Finish
<1>0. /\ pc = "range" /\ n > NumberOfNewTexts /\ pc' = "pass2"
      /\ UNCHANGED <<n, m, i0>> /\ UNCHANGED runs /\ UNCHANGED textVars /\ Text' = Text
      /\ UNCHANGED NumberOfNewTexts
  BY DEF CompareDone, compareVars, textVars
<1>1. n \in Nat \ {0} /\ NumberOfNewTexts \in Nat
  BY <1>0 DEF IInv, Place, Types
<1>2. /\ ~AtPosition /\ ~AtPosition' /\ Stage = "work" /\ Stage' = "done"
  BY <1>0, <1>1 DEF AtPosition, Stage
<1>3. At = 0 /\ At' = 0 /\ Job = <<>> /\ Job' = <<>>
  BY <1>2 DEF At, Job
<1>4. Todo = {}
  <2>1. \A a \in 1..NumberOfNewTexts : ~(a > n) /\ a # n
    BY <1>0, <1>1
  <2>2. \A a \in 1..NumberOfNewTexts, b \in 1..NumberOfTexts : ~Pending(a, b)
    BY <2>1 DEF Pending
  <2> QED
    BY <2>2, TodoIs DEF TodoIsPending
<1>5. Todo' = {}
  <2>1. \A a \in 1..NumberOfNewTexts : ~(a > n) /\ a # n
    BY <1>0, <1>1
  <2>2. \A a \in 1..NumberOfNewTexts, b \in 1..NumberOfTexts : ~Pending(a, b)'
    BY <1>0, <2>1 DEF Pending
  <2>3. NumberOfTexts' = NumberOfTexts
    BY <1>0 DEF NumberOfTexts
  <2> QED
    BY <1>0, <2>2, <2>3, TodoWillBe DEF TodoIsPending
<1> QED
  BY <1>0, <1>2, <1>3, <1>4, <1>5
     DEF Promise!Finish, Promise!inputVars, Todo, At, Job, Stage, textVars

LEMMA BeginMapped ==
  ASSUME IInv, Stages, Hash2Done
  PROVE  Promise!Begin
<1>0. /\ pc = "hash2" /\ pc' = "range" /\ n' = 1 /\ m' = First(1) /\ n = 0
      /\ UNCHANGED runs /\ UNCHANGED textVars /\ Text' = Text /\ opt' = opt
      /\ NumberOfNewTexts' = NumberOfNewTexts /\ NumberOfTexts' = NumberOfTexts /\ Types
  BY DEF Hash2Done, Stages, textVars, NumberOfTexts, IInv
<1>1. /\ ~AtPosition /\ ~AtPosition' /\ Stage = "input" /\ Stage' = "work"
  BY <1>0 DEF AtPosition, Stage
<1>2. At = 0 /\ At' = 0 /\ Job = <<>> /\ Job' = <<>>
  BY <1>1 DEF At, Job
<1>3. Todo' = Promise!Jobs
  <2>1. /\ \A a, b : JobOf(a, b)' = JobOf(a, b)
        /\ \A a : First(a)' = First(a)
        /\ option_set("e")' <=> option_set("e")
    BY <1>0 DEF JobOf, First, option_set
  <2>2. ASSUME NEW a \in 1..NumberOfNewTexts, NEW b \in 1..NumberOfTexts
        PROVE  Pending(a, b)' <=> First(a) <= b /\ (~option_set("e") => b = First(a))
    <3>1. Pending(a, b)' <=>
            /\ First(a) <= b
            /\ a > 1 \/ (a = 1 /\ (b > First(1) \/ b = First(1)))
            /\ ~option_set("e") => b = First(a)
      BY <1>0, <2>1 DEF Pending
    <3>2. a \in Nat /\ a >= 1 /\ b \in Nat /\ First(1) \in Int
      <4>1. NumberOfNewTexts \in Nat /\ NumberOfTexts \in Nat
        BY <1>0, Lengths DEF Types
      <4> QED
        BY <1>0, <4>1, FirstAfter
    <3> QED
      BY <3>1, <3>2
  <2>3. \A x : x \in Todo' <=> \E a \in 1..NumberOfNewTexts, b \in 1..NumberOfTexts :
                                 Pending(a, b)' /\ x = JobOf(a, b)
    BY <1>0, <2>1, TodoWillBe DEF TodoIsPending
  <2>4. \A x : x \in Promise!Jobs <=>
           \E a \in 1..NumberOfNewTexts, b \in 1..NumberOfTexts :
             /\ First(a) <= b /\ (~option_set("e") => b = First(a))
             /\ x = JobOf(a, b)
    BY <1>0, JobsAre
  <2> QED
    BY <2>2, <2>3, <2>4
<1> QED
  BY <1>0, <1>1, <1>2, <1>3
     DEF Promise!Begin, Promise!inputVars, Todo, At, Job, Stage, textVars

\* Before the comparison nothing happens but input.
LEMMA ReadInputMapped ==
  ASSUME n = 0, n' = 0, pc # "lcs", pc' # "lcs", UNCHANGED runs, NumberOfNewTexts \in Nat,
         NumberOfNewTexts' \in Nat
  PROVE  Promise!ReadInput
<1>1. ~AtPosition /\ ~AtPosition'
  BY DEF AtPosition
<1>2. /\ At = 0 /\ At' = 0 /\ Job = <<>> /\ Job' = <<>>
      /\ Stage = "input" /\ Stage' = "input"
  BY <1>1 DEF At, Job, Stage
<1>3. Todo = {} /\ Todo' = {}
  BY DEF Todo
<1> QED
  BY <1>2, <1>3 DEF Promise!ReadInput, Todo, At, Job, Stage

\* Steps that leave the state of LongestRuns alone.
LEMMA StutterMapped ==
  ASSUME IInv, Stages, UNCHANGED textVars, UNCHANGED runs,
         NextText \/ LcsStep \/ RunOutOfMemory \/ UNCHANGED vars
  PROVE  UNCHANGED Promise!vars
<1>0. /\ Text' = Text /\ opt' = opt /\ NumberOfTexts' = NumberOfTexts
      /\ NumberOfNewTexts' = NumberOfNewTexts /\ TokenArray' = TokenArray
  BY DEF textVars, NumberOfTexts
<1>1. /\ \A a, b : JobOf(a, b)' = JobOf(a, b)
      /\ \A a : First(a)' = First(a)
      /\ option_set("e")' <=> option_set("e")
  BY <1>0 DEF JobOf, First, option_set
<1> DEFINE Same == Stage' = Stage /\ Job' = Job /\ At' = At /\ Todo' = Todo
<1>2. ASSUME pc = "range" \/ pc = "lcs"
      PROVE  /\ n \in Nat \ {0} /\ m \in Int /\ First(n) \in Int /\ NumberOfNewTexts \in Nat
             /\ NumberOfTexts \in Nat /\ Types
             /\ pc = "lcs" => n \in 1..NumberOfNewTexts
  <2>1. Types /\ n \in Nat \ {0} /\ m \in Int /\ (pc = "lcs" => n <= NumberOfNewTexts)
    BY <1>2 DEF IInv, Place
  <2>2. NumberOfNewTexts \in Nat /\ NumberOfTexts \in Nat /\ First(n) \in Int
    BY <2>1, Lengths, FirstAfter DEF Types
  <2> QED
    BY <2>1, <2>2
<1>3. ASSUME NextText PROVE Same
  <2>0. /\ pc = "range" /\ pc' = "range" /\ n <= NumberOfNewTexts /\ m > NumberOfTexts
        /\ n' = n + 1 /\ m' = First(n + 1)
    BY <1>3 DEF NextText
  <2>1. /\ n \in Nat \ {0} /\ m \in Int /\ NumberOfNewTexts \in Nat /\ NumberOfTexts \in Nat
        /\ First(n + 1) \in Int
    <3>1. Types /\ n + 1 \in Nat
      BY <1>2, <2>0
    <3> QED
      BY <1>2, <2>0, <3>1, FirstAfter
  <2>2. ~AtPosition /\ ~AtPosition'
    BY <2>0 DEF AtPosition
  <2>3. Stage' = Stage /\ Job' = Job /\ At' = At
    BY <2>0, <2>1, <2>2 DEF Stage, Job, At
  <2>4. ASSUME NEW a \in 1..NumberOfNewTexts, NEW b \in 1..NumberOfTexts
        PROVE  Pending(a, b)' <=> Pending(a, b)
    <3>1. Pending(a, b)' <=>
            /\ n + 1 # 0 /\ First(a) <= b
            /\ a > n + 1 \/ (a = n + 1 /\ (b > First(n + 1) \/ b = First(n + 1)))
            /\ ~option_set("e") => b = First(a)
      BY <1>1, <2>0 DEF Pending
    <3>2. Pending(a, b) <=>
            /\ n # 0 /\ First(a) <= b
            /\ a > n \/ (a = n /\ (b > m \/ b = m))
            /\ ~option_set("e") => b = First(a)
      BY <2>0 DEF Pending
    <3>3. a \in Nat /\ b \in Nat /\ b <= NumberOfTexts
      BY <2>1
    <3>4. ASSUME First(a) <= b, a = n + 1
          PROVE  b > First(n + 1) \/ b = First(n + 1)
      BY <2>1, <3>3, <3>4
    <3> QED
      BY <2>0, <2>1, <3>1, <3>2, <3>3, <3>4
  <2>5. \A x : x \in Todo' <=> \E a \in 1..NumberOfNewTexts, b \in 1..NumberOfTexts :
                                 Pending(a, b)' /\ x = JobOf(a, b)
    BY <1>0, <1>1, TodoWillBe DEF TodoIsPending
  <2>6. Todo' = Todo
    BY <2>4, <2>5, TodoIs DEF TodoIsPending
  <2> QED
    BY <2>3, <2>6
<1>4. ASSUME LcsStep PROVE Same
  <2>1. pc' = pc /\ n' = n /\ m' = m /\ i0' = i0
    BY <1>4 DEF LcsStep
  <2> QED
    BY <1>0, <2>1 DEF Stage, Job, At, Todo, AtPosition, option_set, NumberOfTexts, First
<1>5. ASSUME RunOutOfMemory PROVE Same
  <2>0. pc = "lcs" /\ pc' = "fatal" /\ n' = n /\ m' = m /\ i0' = i0
    BY <1>5 DEF RunOutOfMemory, compareVars
  <2>1. AtPosition /\ AtPosition' /\ n # 0
    BY <1>0, <1>2, <2>0 DEF AtPosition
  <2>2. Stage' = Stage /\ Job' = Job /\ At' = At
    BY <1>0, <1>1, <2>0, <2>1 DEF Stage, Job, At
  <2>3. \A a, b : Pending(a, b)' <=> Pending(a, b)
    BY <1>1, <2>0 DEF Pending
  <2>4. \A x : x \in Todo' <=> \E a \in 1..NumberOfNewTexts, b \in 1..NumberOfTexts :
                                 Pending(a, b)' /\ x = JobOf(a, b)
    BY <1>0, <1>1, TodoWillBe DEF TodoIsPending
  <2>5. Todo' = Todo
    BY <2>3, <2>4, TodoIs DEF TodoIsPending
  <2> QED
    BY <2>2, <2>5
<1>6. ASSUME UNCHANGED vars PROVE Same
  <2>1. pc' = pc /\ n' = n /\ m' = m /\ i0' = i0
    BY <1>6 DEF vars, compareVars
  <2> QED
    BY <1>0, <2>1 DEF Stage, Job, At, Todo, AtPosition, option_set, NumberOfTexts, First
<1>7. Same
  BY <1>3, <1>4, <1>5, <1>6
<1> QED
  BY <1>0, <1>7 DEF Promise!vars, Promise!inputVars, Stage, Job, At, Todo

-----------------------------------------------------------------------------
(* The theorem *)

\* lcs has just been called.
Fresh == pc = "lcs" /\ i1 = i0 /\ size_best = 0

LEMMA StagesStep ==
  ASSUME IInv, Stages, [Next]_vars
  PROVE  Stages'
<1>1. CASE Pass1 /\ UNCHANGED <<hashVars, compareVars>>
  <2>1. pc \in {"args", "read"} /\ pc' \in {"args", "read", "table", "fatal"}
    BY <1>1 DEF Pass1, InitOutOfMemory, Separator, OpenFile, EndArgs, TokensOutOfMemory,
                ReadToken, ReadEol, EndFile
  <2> QED
    BY <1>1, <2>1 DEF Stages, compareVars
<1>2. CASE InitHashTable \/ TableOutOfMemory \/ Hash1Step \/ Hash1Done \/ Hash2Step
  <2>1. /\ pc \in {"table", "hash1", "hash2"} /\ pc' \in {"hash1", "hash2", "fatal"}
        /\ n' = n
    BY <1>2 DEF InitHashTable, TableOutOfMemory, Hash1Step, Hash1Done, Hash2Step, compareVars
  <2> QED
    BY <2>1 DEF Stages
<1>3. CASE Hash2Done
  <2>1. pc' = "range" /\ n' = 1 /\ m' = First(1) /\ opt' = opt
        /\ NumberOfNewTexts' = NumberOfNewTexts
    BY <1>3 DEF Hash2Done, textVars
  <2>2. First(n)' = First(1)
    BY <2>1 DEF First, option_set
  <2> QED
    BY <2>1, <2>2 DEF Stages
<1>4. ASSUME NEW i, LookAt(i), UNCHANGED <<textVars, n>>, pc \in {"range", "lcs"},
             m <= NumberOfTexts
      PROVE  Stages'
  <2>1. /\ n' = n /\ opt' = opt /\ NumberOfNewTexts' = NumberOfNewTexts
        /\ NumberOfTexts' = NumberOfTexts
    BY <1>4 DEF textVars, NumberOfTexts
  <2>2. First(n)' = First(n) /\ (option_set("e")' <=> option_set("e"))
    BY <2>1 DEF First, option_set
  <2>3. NumberOfTexts \in Nat /\ m \in Int
    BY <1>4, Lengths DEF IInv, Place
  <2>4. ~option_set("e") => m = First(n)
    BY <1>4, <2>3 DEF Stages
  <2>5. \/ pc' = "lcs" /\ m' = m
        \/ pc' = "range" /\ m' = (IF option_set("e") THEN m ELSE NumberOfTexts) + 1
    BY <1>4 DEF LookAt
  <2> QED
    BY <2>1, <2>2, <2>3, <2>4, <2>5 DEF Stages
<1>5. CASE StartRange \/ NoRun \/ AddRun
  <2>1. PICK i : LookAt(i)
    BY <1>5 DEF StartRange, NoRun, AddRun
  <2>2. UNCHANGED <<textVars, n>> /\ pc \in {"range", "lcs"} /\ m <= NumberOfTexts
    BY <1>5 DEF StartRange, NoRun, AddRun, IInv, Place
  <2> QED
    BY <1>4, <2>1, <2>2
<1>6. CASE NextText
  <2>1. pc' = "range" /\ n' = n + 1 /\ m' = First(n + 1) /\ opt' = opt
        /\ NumberOfNewTexts' = NumberOfNewTexts
    BY <1>6 DEF NextText, textVars
  <2>2. First(n)' = First(n + 1)
    BY <2>1 DEF First, option_set
  <2> QED
    BY <2>1, <2>2 DEF Stages
<1>7. CASE LcsStep \/ UNCHANGED vars
  <2>1. /\ pc' = pc /\ n' = n /\ m' = m /\ opt' = opt /\ Text' = Text
        /\ NumberOfNewTexts' = NumberOfNewTexts
    BY <1>7 DEF LcsStep, vars, compareVars, textVars
  <2>2. First(n)' = First(n) /\ (option_set("e")' <=> option_set("e"))
        /\ NumberOfTexts' = NumberOfTexts
    BY <2>1 DEF First, option_set, NumberOfTexts
  <2> QED
    BY <2>1, <2>2 DEF Stages
<1>8. CASE RunOutOfMemory \/ CompareDone
  <2>1. pc' \in {"fatal", "pass2"}
    BY <1>8 DEF RunOutOfMemory, CompareDone
  <2> QED
    BY <2>1 DEF Stages
<1> QED
  BY <1>1, <1>2, <1>3, <1>5, <1>6, <1>7, <1>8 DEF Next, Match

LEMMA WalkGoesOn ==
  ASSUME FInv, Walk, [Next]_vars
  PROVE  Fresh' \/ Walk'
<1>1. ASSUME pc' # "lcs" PROVE Walk'
  BY <1>1 DEF Walk
<1>2. ASSUME NEW i, LookAt(i) PROVE Fresh' \/ Walk'
  BY <1>1, <1>2 DEF LookAt, Fresh
<1>3. CASE Pass1
  <2>1. pc' \in {"args", "read", "table", "fatal"}
    BY <1>3 DEF Pass1, InitOutOfMemory, Separator, OpenFile, EndArgs, TokensOutOfMemory,
                ReadToken, ReadEol, EndFile
  <2> QED
    BY <1>1, <2>1
<1>4. CASE StartRange \/ NoRun \/ AddRun
  <2>1. PICK i : LookAt(i)
    BY <1>4 DEF StartRange, NoRun, AddRun
  <2> QED
    BY <1>2, <2>1
<1>5. CASE LcsStep
  BY <1>5, WalkStep
<1>6. CASE \/ InitHashTable \/ TableOutOfMemory \/ Hash1Step \/ Hash1Done \/ Hash2Step
           \/ Hash2Done \/ NextText \/ RunOutOfMemory \/ CompareDone
  <2>1. pc' \in {"hash1", "hash2", "range", "fatal", "pass2"}
    BY <1>6 DEF InitHashTable, TableOutOfMemory, Hash1Step, Hash1Done, Hash2Step,
                Hash2Done, NextText, RunOutOfMemory, CompareDone
  <2> QED
    BY <1>1, <2>1
<1>7. CASE UNCHANGED vars
  <2>1. /\ pc' = pc /\ i1' = i1 /\ size_best' = size_best /\ i_best' = i_best
        /\ TokenArray' = TokenArray /\ UNCHANGED <<textVars, hashVars, n, m, i0>>
    BY <1>7 DEF vars, compareVars, textVars
  <2>2. /\ TextsNow' = TextsNow
        /\ \A b, i : Worth(b, i)' = Worth(b, i)
        /\ \A i : TextAt(i)' = TextAt(i)
        /\ \A i, j : Same2(i, j)' <=> Same2(i, j)
    BY <2>1, WorthKept
  <2>3. BestBefore(i1 + 1)' <=> BestBefore(i1 + 1)
    BY <2>1, <2>2 DEF BestBefore
  <2> QED
    BY <2>1, <2>2, <2>3 DEF Walk
<1> QED
  BY <1>3, <1>4, <1>5, <1>6, <1>7 DEF Next, Match

LEMMA StepMapped ==
  ASSUME FInv, IInv', Walk, Stages, [Next]_vars
  PROVE  [Promise!Next]_(Promise!vars)
<1>0. IInv /\ NumberOfNewTexts \in Nat /\ NumberOfNewTexts' \in Nat
  <2>1. NumberOfNewTexts \in Nat
    BY Lengths DEF FInv, IInv, Types
  <2>2. NumberOfNewTexts' \in 0..NumberOfTexts' /\ Text' \in Seq(TextType)
    BY DEF IInv, Types
  <2>3. NumberOfTexts' \in Nat
    BY <2>2 DEF NumberOfTexts
  <2> QED
    BY <2>1, <2>2, <2>3 DEF FInv
<1>1. CASE Pass1 /\ UNCHANGED <<hashVars, compareVars>>
  <2>1. pc \in {"args", "read"} /\ pc' \in {"args", "read", "table", "fatal"}
    BY <1>1 DEF Pass1, InitOutOfMemory, Separator, OpenFile, EndArgs, TokensOutOfMemory,
                ReadToken, ReadEol, EndFile
  <2>2. n = 0 /\ n' = 0 /\ UNCHANGED runs
    BY <1>1, <2>1 DEF Stages, compareVars
  <2>3. Promise!ReadInput
    BY <1>0, <2>1, <2>2, ReadInputMapped
  <2> QED
    BY <2>3 DEF Promise!Next
<1>2. CASE InitHashTable \/ TableOutOfMemory \/ Hash1Step \/ Hash1Done \/ Hash2Step
  <2>1. /\ pc \in {"table", "hash1", "hash2"} /\ pc' \in {"hash1", "hash2", "fatal"}
        /\ n' = n /\ UNCHANGED runs
    BY <1>2 DEF InitHashTable, TableOutOfMemory, Hash1Step, Hash1Done, Hash2Step, compareVars
  <2>2. n = 0 /\ n' = 0
    BY <2>1 DEF Stages
  <2>3. Promise!ReadInput
    BY <1>0, <2>1, <2>2, ReadInputMapped
  <2> QED
    BY <2>3 DEF Promise!Next
<1>3. CASE Hash2Done
  BY <1>0, <1>3, BeginMapped DEF Promise!Next
<1>4. CASE StartRange
  BY <1>0, <1>4, TakeMapped DEF Promise!Next
<1>5. CASE NoRun
  BY <1>5, MoveOnMapped DEF Promise!Next
<1>6. CASE AddRun
  BY <1>6, ReportMapped DEF Promise!Next
<1>7. CASE CompareDone
  BY <1>0, <1>7, FinishMapped DEF Promise!Next
<1>8. CASE NextText \/ LcsStep \/ RunOutOfMemory \/ UNCHANGED vars
  <2>1. UNCHANGED textVars /\ UNCHANGED runs
    BY <1>8 DEF NextText, LcsStep, RunOutOfMemory, vars, compareVars
  <2> QED
    BY <1>0, <1>8, <2>1, StutterMapped
<1> QED
  BY <1>1, <1>2, <1>3, <1>4, <1>5, <1>6, <1>7, <1>8 DEF Next, Match

LEMMA InitMapped == Init => Promise!Init /\ Walk /\ Stages
<1> SUFFICES ASSUME Init PROVE Promise!Init /\ Walk /\ Stages
  OBVIOUS
<1>1. pc = "args" /\ n = 0 /\ runs = <<>> /\ NumberOfNewTexts = 0
  BY DEF Init, InitPass1, InitCompare
<1>2. Stage = "input" /\ Job = <<>> /\ At = 0 /\ Todo = {}
  BY <1>1 DEF Stage, Job, At, Todo, AtPosition
<1> QED
  BY <1>1, <1>2 DEF Promise!Init, Stage, Job, At, Todo, Walk, Stages

\* For all files, options, languages and hash functions: the comparison reports
\* the runs that LongestRuns promises.  The hash table, the references cut short in
\* the second pass, the pruning by the best run so far and the limits of the ranges
\* lose no repetition, prefer no shorter one and none further to the right.
THEOREM ComparisonImplements == Spec => Refinement
<1>1. FInv /\ IInv' /\ Walk /\ Stages /\ [Next]_vars => [Promise!Next]_(Promise!vars)
  BY StepMapped
<1>2. FInv /\ Walk /\ [Next]_vars => Fresh' \/ Walk'
  BY WalkGoesOn
<1>3. IInv /\ Fresh => Walk
  BY WalkStarts DEF Fresh
<1>4. IInv /\ Stages /\ [Next]_vars => Stages'
  BY StagesStep
<1>5. FInv => IInv
  BY DEF FInv
<1>6. FInv /\ [Next]_vars => FInv'
  BY ForwardStep
<1>7. Init => Promise!Init /\ Walk /\ Stages
  BY InitMapped
<1> QED
  BY <1>1, <1>2, <1>3, <1>4, <1>5, <1>6, <1>7, ForwardInit, PTL
  DEF Spec, Refinement, Promise!Spec

-----------------------------------------------------------------------------
(***************************************************************************)
(* The whole program.                                                      *)
(***************************************************************************)

allVars == <<vars, runVars, findVars, showVars>>

\* until the comparison is done, and after it
Early == text = 0 /\ pc \in {"args", "read", "table", "hash1", "hash2", "range", "lcs", "fatal"}
Later == text \in Nat \ {0} /\ pc \in {"pass2", "lines", "pass3", "done", "fatal"}

\* what Pass 2 and Pass 3 are left with
Found ==
  /\ Types /\ Tiles /\ RunsGenuine
  /\ \A i \in 1..(TextLength - 1) : Next2(forward_references[i], i)
  /\ n \in Nat \ {0} /\ n > NumberOfNewTexts

EarlyInv == Early /\ FInv /\ Walk /\ Stages
LaterInv == Later /\ Found

\* Before it is done the comparison goes on as if it were alone.
LEMMA EarlyStep ==
  ASSUME Early, [SimNext]_allVars
  PROVE  /\ [Next]_vars
         /\ Early' \/ (CompareDone /\ Later')
<1>1. CASE Pass1 /\ UNCHANGED <<hashVars, compareVars>> /\ UNCHANGED findVars
  <2>1. pc' \in {"args", "read", "table", "fatal"}
    BY <1>1 DEF Pass1, InitOutOfMemory, Separator, OpenFile, EndArgs, TokensOutOfMemory,
                ReadToken, ReadEol, EndFile
  <2> QED
    BY <1>1, <2>1 DEF Next, Early, findVars
<1>2. CASE Match /\ UNCHANGED findVars
  <2>1. pc' \in {"hash1", "hash2", "range", "lcs", "fatal"}
    BY <1>2 DEF Match, InitHashTable, TableOutOfMemory, Hash1Step, Hash1Done, Hash2Step,
                Hash2Done, StartRange, NextText, LcsStep, NoRun, RunOutOfMemory, LookAt
  <2> QED
    BY <1>2, <2>1 DEF Next, Early, findVars
<1>3. CASE EnterRun
  <2>1. AddRun /\ UNCHANGED findVars /\ pc' \in {"lcs", "range"}
    BY <1>3 DEF EnterRun, AddRun, LookAt
  <2> QED
    BY <2>1 DEF Next, Early, findVars
<1>4. CASE StartPass2
  BY <1>4 DEF Next, StartPass2, CompareDone, Later
<1>5. CASE UNCHANGED allVars
  BY <1>5 DEF allVars, vars, Early, findVars
<1>6. pc \notin {"pass2", "lines", "pass3"}
  BY DEF Early
<1> QED
  BY <1>1, <1>2, <1>3, <1>4, <1>5, <1>6
  DEF SimNext, Pass2, SkipText, OpenText2, NextLine, NoMoreLines, OnThisLine, CloseText2,
      Pass3, StartPass3, ReportOutOfMemory, ShowRun, Finish, Disappear

\* After it only Pass 2 and Pass 3 run.
LEMMA LaterMoves ==
  ASSUME Later, [SimNext]_allVars
  PROVE  Pass2 \/ Pass3 \/ (\E t \in 1..NumberOfTexts : Disappear(t)) \/ UNCHANGED allVars
<1>1. pc \notin {"args", "read", "table", "hash1", "hash2", "range", "lcs"}
  BY DEF Later
<1>2. ~Pass1 /\ ~Match /\ ~AddRun /\ ~CompareDone
  BY <1>1 DEF Pass1, InitOutOfMemory, Separator, OpenFile, EndArgs, TokensOutOfMemory,
              ReadToken, ReadEol, EndFile, Match, InitHashTable, TableOutOfMemory, Hash1Step,
              Hash1Done, Hash2Step, Hash2Done, StartRange, NextText, LcsStep, NoRun,
              RunOutOfMemory, AddRun, CompareDone
<1> QED
  BY <1>2 DEF SimNext, EnterRun, StartPass2

\* Nothing that was found changes.
LEMMA LaterStep ==
  ASSUME Later, [SimNext]_allVars
  PROVE  Later' /\ UNCHANGED searchVars
<1>1. CASE Pass2 \/ Pass3 \/ \E t \in 1..NumberOfTexts : Disappear(t)
  <2>1. UNCHANGED searchVars
    BY <1>1 DEF Pass2, SkipText, OpenText2, NextLine, NoMoreLines, OnThisLine, CloseText2,
                Pass3, StartPass3, ReportOutOfMemory, ShowRun, Finish, Disappear
  <2>2. text' \in {text, text + 1} /\ pc' \in {"pass2", "lines", "pass3", "done", "fatal"}
    BY <1>1
    DEF Later, Pass2, SkipText, OpenText2, NextLine, NoMoreLines, OnThisLine, CloseText2,
        Pass3, StartPass3, ReportOutOfMemory, ShowRun, Finish, Disappear, findVars
  <2> QED
    BY <2>1, <2>2 DEF Later
<1>2. CASE UNCHANGED allVars
  BY <1>2 DEF allVars, vars, searchVars, Later, findVars
<1> QED
  BY <1>1, <1>2, LaterMoves

LEMMA FoundKept ==
  ASSUME Found, UNCHANGED searchVars
  PROVE  Found'
<1>1. UNCHANGED textVars /\ UNCHANGED hashVars /\ UNCHANGED compareVars
  BY DEF searchVars
<1>2. Types' /\ Tiles' /\ n' = n /\ NumberOfNewTexts' = NumberOfNewTexts
  BY <1>1 DEF Found, Types, Tiles, textVars, compareVars, NumberOfTexts, TextLength
<1>3. RunsGenuine'
  BY <1>1, RunsKept DEF Found, compareVars
<1>4. /\ TextLength' = TextLength
      /\ \A a, b : Same2(a, b)' <=> Same2(a, b)
      /\ forward_references' = forward_references
  BY <1>1, CodesKept DEF hashVars
<1>5. \A i \in 1..(TextLength - 1) : Next2(forward_references[i], i)'
  BY <1>4 DEF Next2, Found
<1>6. \A i \in 1..(TextLength' - 1) : Next2(forward_references[i], i)'
  BY <1>4, <1>5
<1> QED
  BY <1>2, <1>3, <1>6 DEF Found

LEMMA SearchEnds ==
  ASSUME FInv, CompareDone
  PROVE  Found'
<1>1. pc = "range" /\ n > NumberOfNewTexts /\ UNCHANGED searchVars
  BY DEF CompareDone, searchVars
<1>2. Found
  BY <1>1 DEF FInv, IInv, Place, AllExact, Comparing, Found
<1> QED
  BY <1>1, <1>2, FoundKept

LEMMA SimInvariant == SimSpec => [](EarlyInv \/ LaterInv)
<1>1. SimInit => EarlyInv
  <2>1. SimInit => Early /\ Init
    BY DEF SimInit, Early, Init, InitPass1
  <2> QED
    BY <2>1, ForwardInit, InitMapped DEF EarlyInv
<1>2. Early /\ [SimNext]_allVars => [Next]_vars /\ (Early' \/ (CompareDone /\ Later'))
  BY EarlyStep
<1>3. FInv /\ [Next]_vars => FInv'
  BY ForwardStep
<1>4. FInv /\ Walk /\ [Next]_vars => Fresh' \/ Walk'
  BY WalkGoesOn
<1>5. IInv /\ Fresh => Walk
  BY WalkStarts DEF Fresh
<1>6. IInv /\ Stages /\ [Next]_vars => Stages'
  BY StagesStep
<1>7. FInv /\ CompareDone => Found'
  BY SearchEnds
<1>8. Later /\ Found /\ [SimNext]_allVars => Later' /\ Found'
  BY LaterStep, FoundKept
<1>9. FInv => IInv
  BY DEF FInv
<1> QED
  BY <1>1, <1>2, <1>3, <1>4, <1>5, <1>6, <1>7, <1>8, <1>9, PTL
  DEF SimSpec, EarlyInv, LaterInv, allVars

\* Of the whole program, for all files, options, languages and hash functions: a
\* run the similarity tester reports consists of two chunks of a pair of texts the
\* options ask for, which lie in their texts, have the same tokens, at least as
\* many as required, do not overlap, and start and end as the language allows.
THEOREM EveryRunIsGenuine == SimSpec => []RunsGenuine
<1>1. EarlyInv \/ LaterInv => RunsGenuine
  BY DEF EarlyInv, LaterInv, FInv, IInv, Found
<1> QED
  BY <1>1, SimInvariant, PTL

\* Of the whole program: once the two hash passes are over, a forward reference is
\* the next position at which a run of minimum size starts and which has the same
\* hash codes, zero if there is none.
THEOREM EveryReferenceIsExact == SimSpec => []ForwardExact
<1>1. EarlyInv => ForwardExact
  <2>1. ASSUME FInv, Comparing PROVE ForwardExact
    BY <2>1, ForwardIsExact DEF FInv, AllExact
  <2> QED
    BY <2>1 DEF ForwardExact, EarlyInv
<1>2. LaterInv => ForwardExact
  BY ForwardIsExact DEF LaterInv, Found
<1> QED
  BY <1>1, <1>2, SimInvariant, PTL

\* The whole program implements LongestRuns: what comes after the comparison, and
\* a fatal lack of memory anywhere, are stuttering steps of it.
THEOREM SimImplements == SimSpec => Refinement
<1>1. FInv /\ IInv' /\ Walk /\ Stages /\ [Next]_vars => [Promise!Next]_(Promise!vars)
  BY StepMapped
<1>2. Later /\ Found /\ Later' /\ Found' /\ UNCHANGED searchVars => UNCHANGED Promise!vars
  <2> SUFFICES ASSUME Later, Found, Later', Found', UNCHANGED searchVars
               PROVE  UNCHANGED Promise!vars
    OBVIOUS
  <2>1. /\ UNCHANGED textVars /\ n' = n /\ m' = m /\ i0' = i0 /\ runs' = runs
        /\ NumberOfNewTexts \in Nat /\ n \in Nat
    BY Lengths DEF searchVars, compareVars, Found, Types
  <2>2. ~AtPosition /\ ~AtPosition' /\ n # 0 /\ pc # "range" /\ pc' # "range"
    <3>1. n > NumberOfNewTexts /\ NumberOfNewTexts' = NumberOfNewTexts
      BY <2>1 DEF Found, textVars
    <3> QED
      BY <2>1, <3>1 DEF Later, AtPosition
  <2>3. Stage' = Stage /\ Job' = Job /\ At' = At /\ Todo' = Todo
    BY <2>1, <2>2 DEF Stage, Job, At, Todo, First, option_set, NumberOfTexts, textVars
  <2> QED
    BY <2>1, <2>3 DEF Promise!vars, Promise!inputVars, Stage, Job, At, Todo, textVars
<1>3. Later /\ [SimNext]_allVars => Later' /\ UNCHANGED searchVars
  BY LaterStep
<1>4. Early /\ [SimNext]_allVars => [Next]_vars
  BY EarlyStep
<1>5. FInv /\ [Next]_vars => FInv'
  BY ForwardStep
<1>6. FInv => IInv
  BY DEF FInv
<1>7. Found /\ UNCHANGED searchVars => Found'
  BY FoundKept
<1>8. SimInit => Promise!Init
  BY InitMapped DEF SimInit
<1> QED
  BY <1>1, <1>2, <1>3, <1>4, <1>5, <1>6, <1>7, <1>8, SimInvariant, PTL
  DEF SimSpec, EarlyInv, LaterInv, allVars, Refinement, Promise!Spec

-----------------------------------------------------------------------------
(***************************************************************************)
(* The types of the whole program.                                         *)
(***************************************************************************)

\* what Pass 1 counts and keeps of the line ends
Buffer ==
  /\ lex_token \in Tokens \cup {EOL, NoToken}
  /\ lex_tk_cnt \in Nat /\ last_tk_cnt \in Nat /\ last_tk_cnt <= lex_tk_cnt
  /\ have_nl \in BOOLEAN /\ nl_buff \in Seq(0..MaxDiff)

\* The entries of a text that has been read lie in the newline buffer.
Newlines ==
  have_nl => \A t \in 1..NumberOfTexts :
    /\ Text[t].nl_start <= Len(nl_buff) /\ Text[t].nl_limit <= Len(nl_buff)
    /\ \/ Text[t].nl_start <= Text[t].nl_limit
       \/ text = 0 /\ pc \in {"read", "fatal"} /\ t = NumberOfTexts

LEMMA StoresNewline ==
  ASSUME Buffer, NEW room, StoreNewline(room)
  PROVE  /\ have_nl' \in BOOLEAN /\ nl_buff' \in Seq(0..MaxDiff)
         /\ have_nl' => have_nl /\ Len(nl_buff') = Len(nl_buff) + 1
<1> DEFINE diff == lex_tk_cnt - last_tk_cnt
           kept == have_nl /\ (NlFull => room) /\ diff <= MaxDiff
<1>1. have_nl' = kept /\ nl_buff' = IF kept THEN Append(nl_buff, diff) ELSE <<>>
  BY DEF StoreNewline
<1>2. diff \in Nat
  BY DEF Buffer
<1>3. kept => diff \in 0..MaxDiff
  BY <1>2, SizesAssumption
<1>4. kept \in BOOLEAN /\ (kept => have_nl)
  OBVIOUS
<1> HIDE DEF diff, kept
<1>5. CASE kept
  <2>1. nl_buff' = Append(nl_buff, diff) /\ diff \in 0..MaxDiff /\ nl_buff \in Seq(0..MaxDiff)
    BY <1>1, <1>3, <1>5 DEF Buffer
  <2>2. nl_buff' \in Seq(0..MaxDiff) /\ Len(nl_buff') = Len(nl_buff) + 1
    BY <2>1
  <2> QED
    BY <1>1, <1>4, <2>2, Zenon
<1>6. CASE ~kept
  <2>1. nl_buff' = <<>> /\ have_nl' = kept
    BY <1>1, <1>6
  <2>2. nl_buff' \in Seq(0..MaxDiff)
    BY <2>1
  <2> QED
    BY <1>4, <1>6, <2>1, <2>2, Zenon
<1> QED
  BY <1>5, <1>6

\* A text behind the others has its entries in the buffer or is being read.
LEMMA NewlinesGrow ==
  ASSUME Types, Newlines, pc = "args", NEW txt \in TextType, Text' = Append(Text, txt),
         UNCHANGED TokenArray, nl_buff' = nl_buff, have_nl' => have_nl,
         nl_buff \in Seq(0..MaxDiff),
         text = 0, text' = 0,
         txt.nl_limit = 0,
         \/ txt.nl_start = 0
         \/ txt.nl_start = Len(nl_buff) /\ pc' = "read"
  PROVE  Newlines'
<1>1. /\ NumberOfTexts' = NumberOfTexts + 1 /\ NumberOfTexts \in Nat
      /\ \A t \in 1..NumberOfTexts : Text'[t] = Text[t]
      /\ Text'[NumberOfTexts + 1] = txt
  BY AppendText, Lengths
<1>2. Len(nl_buff) \in Nat /\ nl_buff' = nl_buff
  OBVIOUS
<1> SUFFICES ASSUME have_nl, NEW t \in 1..(NumberOfTexts + 1)
             PROVE  /\ Text'[t].nl_start <= Len(nl_buff) /\ Text'[t].nl_limit <= Len(nl_buff)
                    /\ \/ Text'[t].nl_start <= Text'[t].nl_limit
                       \/ pc' \in {"read", "fatal"} /\ t = NumberOfTexts + 1
  BY <1>1, <1>2 DEF Newlines
<1>3. CASE t \in 1..NumberOfTexts
  BY <1>1, <1>3 DEF Newlines
<1>4. CASE t = NumberOfTexts + 1
  <2>1. Text'[t] = txt
    BY <1>1, <1>4
  <2> QED
    BY <1>2, <1>4, <2>1
<1>5. t \in 1..NumberOfTexts \/ t = NumberOfTexts + 1
  BY <1>1
<1> QED
  BY <1>3, <1>4, <1>5

\* The text that is being read stays inside the buffer that grows with it.
LEMMA NewlinesLast ==
  ASSUME Types, Newlines, pc = "read", NumberOfTexts # 0, NEW txt \in TextType,
         Text' = [Text EXCEPT ![NumberOfTexts] = txt],
         nl_buff \in Seq(0..MaxDiff), nl_buff' \in Seq(0..MaxDiff),
         have_nl' => have_nl /\ Len(nl_buff) <= Len(nl_buff'),
         text = 0, text' = 0,
         txt.nl_start = Text[NumberOfTexts].nl_start,
         \/ txt.nl_limit = Text[NumberOfTexts].nl_limit /\ pc' = "read"
         \/ txt.nl_limit = Len(nl_buff')
  PROVE  Newlines'
<1>1. /\ NumberOfTexts' = NumberOfTexts /\ NumberOfTexts \in Nat
      /\ \A t \in 1..NumberOfTexts : t # NumberOfTexts => Text'[t] = Text[t]
      /\ Text'[NumberOfTexts] = txt
  BY ChangeText, Lengths
<1>2. Len(nl_buff) \in Nat /\ Len(nl_buff') \in Nat
  OBVIOUS
<1> SUFFICES ASSUME have_nl', NEW t \in 1..NumberOfTexts
             PROVE  /\ Text'[t].nl_start <= Len(nl_buff') /\ Text'[t].nl_limit <= Len(nl_buff')
                    /\ \/ Text'[t].nl_start <= Text'[t].nl_limit
                       \/ pc' \in {"read", "fatal"} /\ t = NumberOfTexts
  BY <1>1 DEF Newlines
<1>3. /\ Text[t].nl_start <= Len(nl_buff) /\ Text[t].nl_limit <= Len(nl_buff)
      /\ Text[t].nl_start <= Text[t].nl_limit \/ t = NumberOfTexts
      /\ Len(nl_buff) <= Len(nl_buff')
      /\ Text[t].nl_start \in Nat /\ Text[t].nl_limit \in Nat
  BY Lengths DEF Newlines, TextType
<1>4. CASE t # NumberOfTexts
  BY <1>1, <1>2, <1>3, <1>4
<1>5. CASE t = NumberOfTexts
  BY <1>1, <1>2, <1>3, <1>5
<1> QED
  BY <1>4, <1>5

LEMMA Pass1Buffer ==
  ASSUME IInv, Buffer, Newlines, Pass1, text = 0, text' = 0
  PROVE  Buffer' /\ Newlines'
<1>0. Types /\ NumberOfTexts \in Nat /\ nl_buff \in Seq(0..MaxDiff) /\ Len(nl_buff) \in Nat
      /\ lex_tk_cnt \in Nat /\ last_tk_cnt \in Nat
  BY Lengths DEF IInv, Buffer
<1>1. CASE InitOutOfMemory \/ EndArgs \/ TokensOutOfMemory
  <2>1. UNCHANGED textVars /\ (pc' = "fatal" \/ pc \notin {"read", "fatal"})
    BY <1>1 DEF InitOutOfMemory, EndArgs, TokensOutOfMemory
  <2> QED
    BY <2>1 DEF textVars, Buffer, Newlines, NumberOfTexts
<1>2. CASE Separator
  <2>1. /\ pc = "args" /\ Text' = Append(Text, NewText)
        /\ UNCHANGED <<TokenArray, lex_token, lex_tk_cnt, last_tk_cnt, nl_buff>>
    BY <1>2 DEF Separator
  <2>4. have_nl' = have_nl
    BY <1>2 DEF Separator
  <2>5. (have_nl' => have_nl) /\ (have_nl \in BOOLEAN => have_nl' \in BOOLEAN)
    BY <2>4, Zenon
  <2>2. NewText \in TextType /\ NewText.nl_start = 0 /\ NewText.nl_limit = 0
    BY <1>0, Lengths DEF NewText, TextType
  <2>3. Newlines'
    BY <1>0, <2>1, <2>2, <2>5, NewlinesGrow
  <2> QED
    BY <2>1, <2>3, <2>5 DEF Buffer
<1>3. CASE OpenFile
  <2> DEFINE txt == [NewText EXCEPT !.nl_start = Len(nl_buff)]
  <2>1. /\ pc = "args" /\ pc' = "read" /\ Text' = Append(Text, txt)
        /\ UNCHANGED <<TokenArray, lex_token, nl_buff>>
        /\ lex_tk_cnt' = 0 /\ last_tk_cnt' = 0
    BY <1>3 DEF OpenFile
  <2>4. have_nl' = have_nl
    BY <1>3 DEF OpenFile
  <2>5. (have_nl' => have_nl) /\ (have_nl \in BOOLEAN => have_nl' \in BOOLEAN)
    BY <2>4, Zenon
  <2>2. txt \in TextType /\ txt.nl_start = Len(nl_buff) /\ txt.nl_limit = 0
    <3>1. NewText \in TextType /\ NewText.nl_limit = 0
      BY <1>0, Lengths DEF NewText, TextType
    <3> QED
      BY <1>0, <3>1 DEF TextType
  <2> HIDE DEF txt
  <2>3. Newlines'
    BY <1>0, <2>1, <2>2, <2>5, NewlinesGrow
  <2> QED
    BY <2>1, <2>3, <2>5 DEF Buffer
<1>4. pc = "read" => /\ NumberOfTexts # 0 /\ Text[NumberOfTexts] \in TextType
                     /\ Text[NumberOfTexts].file \in Seq(Tokens \cup {EOL})
  BY <1>0, Lengths DEF IInv, Collected, TextType
<1>5. ASSUME NEW tk \in Tokens, ReadToken(tk) PROVE Buffer' /\ Newlines'
  <2> DEFINE txt == [Text[NumberOfTexts] EXCEPT !.file = Append(@, tk)]
  <2>1. /\ pc = "read" /\ pc' = "read" /\ Text' = [Text EXCEPT ![NumberOfTexts] = txt]
        /\ lex_token' = tk /\ lex_tk_cnt' = lex_tk_cnt + 1
        /\ UNCHANGED <<last_tk_cnt, nl_buff>>
    BY <1>5 DEF ReadToken
  <2>4. have_nl' = have_nl
    BY <1>5 DEF ReadToken
  <2>5. (have_nl' => have_nl) /\ (have_nl \in BOOLEAN => have_nl' \in BOOLEAN)
    BY <2>4, Zenon
  <2>2. /\ txt \in TextType /\ txt.nl_start = Text[NumberOfTexts].nl_start
        /\ txt.nl_limit = Text[NumberOfTexts].nl_limit
    <3>1. Append(Text[NumberOfTexts].file, tk) \in Seq(Tokens \cup {EOL})
      BY <1>4, <2>1
    <3> QED
      BY <1>4, <2>1, <3>1 DEF TextType
  <2> HIDE DEF txt
  <2>6. nl_buff' \in Seq(0..MaxDiff) /\ Len(nl_buff) <= Len(nl_buff')
    BY <1>0, <2>1
  <2>7. have_nl' => have_nl /\ Len(nl_buff) <= Len(nl_buff')
    BY <2>5, <2>6, Zenon
  <2>3. Newlines'
    BY <1>0, <1>4, <2>1, <2>2, <2>6, <2>7, NewlinesLast
  <2> QED
    BY <1>0, <2>1, <2>3, <2>5 DEF Buffer
<1>6. ASSUME NEW room \in BOOLEAN, ReadEol(room) PROVE Buffer' /\ Newlines'
  <2> DEFINE txt == [Text[NumberOfTexts] EXCEPT !.file = Append(@, EOL)]
  <2>1. /\ pc = "read" /\ pc' = "read" /\ Text' = [Text EXCEPT ![NumberOfTexts] = txt]
        /\ lex_token' = EOL /\ lex_tk_cnt' = lex_tk_cnt /\ last_tk_cnt' = lex_tk_cnt
        /\ StoreNewline(room)
    BY <1>6 DEF ReadEol
  <2>2. /\ txt \in TextType /\ txt.nl_start = Text[NumberOfTexts].nl_start
        /\ txt.nl_limit = Text[NumberOfTexts].nl_limit
    <3>1. Append(Text[NumberOfTexts].file, EOL) \in Seq(Tokens \cup {EOL})
      BY <1>4, <2>1
    <3> QED
      BY <1>4, <2>1, <3>1 DEF TextType
  <2> HIDE DEF txt
  <2>3. /\ have_nl' \in BOOLEAN /\ nl_buff' \in Seq(0..MaxDiff)
        /\ have_nl' => have_nl /\ Len(nl_buff) <= Len(nl_buff')
    BY <1>0, <2>1, StoresNewline
  <2>4. Newlines'
    BY <1>0, <1>4, <2>1, <2>2, <2>3, NewlinesLast
  <2> QED
    BY <1>0, <2>1, <2>3, <2>4 DEF Buffer
<1>7. ASSUME NEW room \in BOOLEAN, EndFile(room) PROVE Buffer' /\ Newlines'
  <2> DEFINE txt == [Text[NumberOfTexts] EXCEPT !.limit = TextLength,
                                                !.nl_limit = Len(nl_buff')]
  <2>1. /\ pc = "read" /\ pc' = "args" /\ Text' = [Text EXCEPT ![NumberOfTexts] = txt]
        /\ UNCHANGED <<lex_token, lex_tk_cnt>> /\ last_tk_cnt' \in {last_tk_cnt, lex_tk_cnt}
        /\ StoreNewline(room) \/ UNCHANGED <<have_nl, nl_buff>>
    BY <1>7 DEF EndFile
  <2>2. /\ have_nl' \in BOOLEAN /\ nl_buff' \in Seq(0..MaxDiff)
        /\ have_nl' => have_nl /\ Len(nl_buff) <= Len(nl_buff')
    BY <1>0, <2>1, StoresNewline DEF Buffer
  <2>3. /\ txt \in TextType /\ txt.nl_start = Text[NumberOfTexts].nl_start
        /\ txt.nl_limit = Len(nl_buff')
    <3>1. Len(nl_buff') \in Nat /\ TextLength \in Nat
      BY <1>0, <2>2, Lengths
    <3> QED
      BY <1>4, <2>1, <3>1 DEF TextType
  <2> HIDE DEF txt
  <2>4. Newlines'
    BY <1>0, <1>4, <2>1, <2>2, <2>3, NewlinesLast
  <2> QED
    BY <2>1, <2>2, <2>4 DEF Buffer
<1> QED
  BY <1>1, <1>2, <1>3, <1>5, <1>6, <1>7 DEF Pass1

Numbers ==
  /\ hash_table_size \in Nat /\ n \in Nat /\ m \in Nat
  /\ i0 \in Nat /\ i1 \in Nat /\ size_best \in Nat /\ i_best \in Nat

\* The tables hold positions.
Indices ==
  /\ pc \in {"args", "read", "table"} => last_index = <<>> /\ forward_references = <<>>
  /\ \A i \in DOMAIN forward_references : forward_references[i] \in 0..(TextLength - 1)
  /\ \A h \in DOMAIN last_index : last_index[h] \in 0..(TextLength - 1)

LEMMA LookAtNumbers ==
  ASSUME Types, Numbers, NEW i \in Nat, LookAt(i), UNCHANGED <<textVars, hashVars, n>>
  PROVE  Numbers'
<1>1. /\ i0' = i /\ i1' = i /\ size_best' = 0 /\ i_best' = 0
      /\ m' \in {m, m + 1, NumberOfTexts + 1}
      /\ hash_table_size' = hash_table_size /\ n' = n
  BY DEF LookAt, hashVars
<1>2. NumberOfTexts \in Nat
  BY Lengths
<1> QED
  BY <1>1, <1>2 DEF Numbers

LEMMA FirstIsNumber ==
  ASSUME Types, NEW k \in Nat
  PROVE  First(k) \in Nat
<1>1. NumberOfNewTexts \in Nat
  BY Lengths DEF Types
<1> QED
  BY <1>1 DEF First

LEMMA NumbersStep ==
  ASSUME IInv, IInv', Numbers, [Next]_vars
  PROVE  Numbers'
<1>0. Types /\ NumberOfTexts \in Nat /\ NumberOfNewTexts \in Nat /\ NumberOfNewTexts <= NumberOfTexts
  BY Lengths DEF IInv, Types
<1>1. CASE (Pass1 /\ UNCHANGED <<hashVars, compareVars>>) \/ UNCHANGED vars
  BY <1>1 DEF Numbers, vars, hashVars, compareVars
<1>2. CASE InitHashTable
  <2>1. PICK k \in 1..Len(Primes) : hash_table_size' = Primes[k]
    BY <1>2 DEF InitHashTable
  <2>2. hash_table_size' \in Nat
    BY <2>1, PrimesAssumption
  <2> QED
    BY <1>2, <2>2 DEF InitHashTable, Numbers
<1>3. CASE TableOutOfMemory \/ Hash1Step \/ Hash1Done \/ RunOutOfMemory \/ CompareDone
  BY <1>3 DEF TableOutOfMemory, Hash1Step, Hash1Done, RunOutOfMemory, CompareDone, Numbers,
              hashVars, compareVars
<1>4. CASE Hash2Step
  <2>1. /\ pc' = "hash2" /\ i0' \in {i0, i0 + 1} /\ hash_table_size' = hash_table_size
        /\ UNCHANGED <<n, m, size_best, i_best>>
    BY <1>4 DEF Hash2Step
  <2>2. i1' = i0' \/ i1' \in 0..(TextLength' - 1)
    BY <2>1 DEF IInv, References
  <2>3. TextLength' \in Nat
    BY Lengths, <1>0, <1>4 DEF Hash2Step, TextLength, textVars
  <2> QED
    BY <2>1, <2>2, <2>3 DEF Numbers
<1>5. CASE Hash2Done \/ NextText
  <2>1. /\ n' \in {1, n + 1} /\ m' = First(n')
        /\ UNCHANGED <<hash_table_size, i0, i1, size_best, i_best>>
    BY <1>5 DEF Hash2Done, NextText, hashVars
  <2>2. n' \in Nat
    BY <2>1 DEF Numbers
  <2>3. First(n') \in Nat
    BY <1>0, <2>2, FirstIsNumber
  <2> QED
    BY <2>1, <2>2, <2>3 DEF Numbers
<1>6. CASE StartRange
  <2>1. LookAt(Text[n].start) /\ UNCHANGED <<textVars, hashVars, n>> /\ n \in 1..NumberOfTexts
    BY <1>0, <1>6 DEF StartRange, IInv, Place
  <2>2. Text[n].start \in Nat
    BY <1>0, <2>1, Lengths DEF TextType
  <2> QED
    BY <1>0, <2>1, <2>2, LookAtNumbers
<1>7. CASE NoRun \/ AddRun
  <2>1. PICK i \in {i0 + 1, i0 + size_best} : LookAt(i) /\ UNCHANGED <<textVars, hashVars, n>>
    BY <1>7 DEF NoRun, AddRun
  <2>2. i \in Nat
    BY DEF Numbers
  <2> QED
    BY <1>0, <2>1, <2>2, LookAtNumbers
<1>8. CASE LcsStep
  <2>1. /\ pc' = "lcs" /\ i1' = NextOpportunity /\ i_best' \in {i_best, i1'}
        /\ UNCHANGED <<textVars, hash_table_size, n, m, i0>>
    BY <1>8 DEF LcsStep, hashVars
  <2>2. i1' \in 0..(TextLength' - 1) /\ size_best' \in Nat
    BY <2>1 DEF IInv, Place
  <2>3. TextLength' \in Nat
    BY <1>0, <2>1, Lengths DEF TextLength, textVars
  <2> QED
    BY <2>1, <2>2, <2>3 DEF Numbers
<1> QED
  BY <1>1, <1>2, <1>3, <1>4, <1>5, <1>6, <1>7, <1>8 DEF Next, Match

LEMMA IndicesStep ==
  ASSUME IInv, IInv', Indices, [Next]_vars
  PROVE  Indices'
<1>0. Types /\ TextLength \in Nat \ {0}
  BY Lengths DEF IInv
<1>1. CASE Pass1 /\ UNCHANGED <<hashVars, compareVars>>
  <2>1. pc \in {"args", "read"}
    BY <1>1 DEF Pass1, InitOutOfMemory, Separator, OpenFile, EndArgs, TokensOutOfMemory,
                ReadToken, ReadEol, EndFile
  <2>2. last_index' = <<>> /\ forward_references' = <<>>
    BY <1>1, <2>1 DEF Indices, hashVars
  <2> QED
    BY <2>2 DEF Indices
<1>2. ASSUME UNCHANGED textVars, UNCHANGED hashVars,
             pc' \notin {"args", "read", "table"} \/ pc' = pc
      PROVE  Indices'
  <2>1. TextLength' = TextLength /\ last_index' = last_index
        /\ forward_references' = forward_references
    BY <1>2 DEF textVars, hashVars, TextLength
  <2> QED
    BY <1>2, <2>1 DEF Indices
<1>3. CASE \/ TableOutOfMemory \/ Hash1Done \/ Hash2Done \/ StartRange \/ NextText \/ LcsStep
           \/ NoRun \/ AddRun \/ RunOutOfMemory \/ CompareDone \/ UNCHANGED vars
  <2>1. UNCHANGED textVars /\ UNCHANGED hashVars
    BY <1>3 DEF TableOutOfMemory, Hash1Done, Hash2Done, StartRange, NextText, LcsStep, NoRun,
                AddRun, RunOutOfMemory, CompareDone, vars
  <2>2. pc' \notin {"args", "read", "table"} \/ pc' = pc
    BY <1>3 DEF TableOutOfMemory, Hash1Done, Hash2Done, StartRange, NextText, LcsStep, NoRun,
                AddRun, RunOutOfMemory, CompareDone, vars, LookAt
  <2> QED
    BY <1>2, <2>1, <2>2
<1>4. ASSUME pc' \in {"hash1", "hash2"}, UNCHANGED textVars,
             \A h \in DOMAIN last_index' : last_index'[h] \in 0..(TextLength - 1)
      PROVE  Indices'
  <2>1. TextLength' = TextLength
    BY <1>4 DEF textVars, TextLength
  <2>2. forward_references' \in [0..(TextLength - 1) -> 0..(TextLength - 1)]
    BY <1>4, <2>1 DEF IInv, References
  <2> QED
    BY <1>4, <2>1, <2>2 DEF Indices
<1>5. CASE InitHashTable
  <2>1. PICK k \in 1..Len(Primes) : last_index' = [h \in 0..(Primes[k] - 1) |-> 0]
    BY <1>5 DEF InitHashTable
  <2>2. \A h \in DOMAIN last_index' : last_index'[h] \in 0..(TextLength - 1)
    BY <1>0, <2>1
  <2> QED
    BY <1>4, <1>5, <2>2 DEF InitHashTable
<1>6. CASE Hash1Step
  <2>1. /\ i0 < TextLength /\ i0 \in Nat
        /\ \/ last_index' = last_index
           \/ last_index' = [last_index EXCEPT ![hash1(i0)] = i0]
    BY <1>6 DEF Hash1Step, IInv, References
  <2>2. \A h \in DOMAIN last_index' : last_index'[h] \in 0..(TextLength - 1)
    BY <1>0, <2>1 DEF Indices
  <2> QED
    BY <1>4, <1>6, <2>2 DEF Hash1Step
<1>7. CASE Hash2Step
  <2>1. \A h \in DOMAIN last_index' : last_index'[h] \in 0..(TextLength - 1)
    BY <1>7 DEF Hash2Step, Indices
  <2> QED
    BY <1>4, <1>7, <2>1 DEF Hash2Step
<1> QED
  BY <1>1, <1>3, <1>5, <1>6, <1>7 DEF Next, Match
-----------------------------------------------------------------------------
(* Pass 2 *)

Finding ==
  /\ nl_next \in Nat /\ lex_nl_cnt \in Nat /\ old_nl_cnt \in Nat /\ tk_cnt \in Nat
  /\ \A p \in DOMAIN nl_cnt : nl_cnt[p] \in Nat
  /\ input \in Seq(Tokens \cup {EOL}) /\ left \in [1..opt.texts -> Nat]
  /\ gone \subseteq 1..NumberOfTexts
  /\ text = 0 => gone = {}
  /\ pc = "lines" =>
       /\ text <= NumberOfTexts
       /\ nl_next <= IF have_nl THEN Text[text].nl_limit ELSE Len(input)

\* The next line end is ahead, in the input.
LEMMA NextInFile ==
  ASSUME input \in Seq(Tokens \cup {EOL}), nl_next \in Nat, EolsAhead # {}
  PROVE  Min(EolsAhead) \in (nl_next + 1)..Len(input) /\ Len(input) \in Nat
<1>1. Len(input) \in Nat
  OBVIOUS
<1>2. EolsAhead \in SUBSET ((nl_next + 1)..Len(input))
  BY DEF EolsAhead
<1>3. EolsAhead \in SUBSET Nat
  BY <1>1, <1>2
<1>4. \E x \in EolsAhead : \A y \in EolsAhead : x <= y
  BY <1>3, LeastExists
<1>5. Min(EolsAhead) \in EolsAhead
  BY <1>4, Zenon DEF Min
<1> QED
  BY <1>1, <1>2, <1>5

\* A part of a sequence, and what is left of it without its last element.
LEMMA PartOfSeq ==
  ASSUME NEW S, NEW s \in Seq(S), NEW i \in Nat, NEW k \in i..Len(s)
  PROVE  SubSeq(s, i + 1, k) \in Seq(S)
OBVIOUS

LEMMA FrontOfSeq ==
  ASSUME NEW S, NEW s \in Seq(S), s # <<>>
  PROVE  Front(s) \in Seq(S)
BY DEF Front

\* What the scanner yields are tokens and line ends, and when nothing was left,
\* those of the file.
LEMMA ScannedIs ==
  ASSUME input \in Seq(Tokens \cup {EOL}), nl_next \in Nat, NEW rest \in Buffered,
         NEW file \in Seq(Tokens \cup {EOL}), NEW s \in Scanned(rest, file)
  PROVE  /\ s \in Seq(Tokens \cup {EOL}) /\ Len(rest) \in Nat
         /\ Len(rest) = 0 => s = file
<1> DEFINE T == Tokens \cup {EOL}
<1>1. rest \in Seq(T)
  <2>1. PICK k \in nl_next..Len(input) : rest = SubSeq(input, nl_next + 1, k)
    BY DEF Buffered
  <2> HIDE DEF T
  <2> QED
    BY <2>1, PartOfSeq DEF T
<1>2. s = rest \o file \/ (rest # <<>> /\ s = Front(rest) \o file)
  BY DEF Scanned
<1>3. CASE s = rest \o file
  <2> HIDE DEF T
  <2> QED
    BY <1>1, <1>3 DEF T
<1>4. CASE rest # <<>> /\ s = Front(rest) \o file
  <2>1. Front(rest) \in Seq(T)
    BY <1>1, <1>4, FrontOfSeq
  <2>2. Len(rest) \in Nat /\ Len(rest) # 0
    BY <1>1, <1>4
  <2> HIDE DEF T
  <2> QED
    BY <1>4, <2>1, <2>2 DEF T
<1> QED
  BY <1>2, <1>3, <1>4

\* What is filled in is a line number.
LEMMA FillNumbers ==
  ASSUME \A p \in DOMAIN nl_cnt : nl_cnt[p] \in Nat,
         NEW old \in Nat, NEW new \in Nat, Fill(old, new)
  PROVE  \A p \in DOMAIN nl_cnt' : nl_cnt'[p] \in Nat
BY DEF Fill

LEMMA FindingStep ==
  ASSUME Types, Buffer, Newlines, Finding, Later, [SimNext]_allVars
  PROVE  Finding'
<1>1. /\ UNCHANGED textVars /\ Text' = Text /\ NumberOfTexts' = NumberOfTexts
      /\ NumberOfTexts \in Nat /\ text \in Nat \ {0} /\ text' # 0 /\ nl_buff \in Seq(0..MaxDiff)
      /\ opt' = opt
  BY LaterStep, Lengths DEF searchVars, textVars, NumberOfTexts, Later, Buffer
<1>2. have_nl' = have_nl
  BY <1>1 DEF textVars
<1>3. ASSUME pc' # "lines", UNCHANGED <<input, left, nl_next, lex_nl_cnt, old_nl_cnt, tk_cnt, nl_cnt>>,
             gone' \subseteq 1..NumberOfTexts
      PROVE  Finding'
  BY <1>1, <1>3 DEF Finding
<1>4. CASE SkipText \/ CloseText2 \/ Pass3 \/ \E t \in 1..NumberOfTexts : Disappear(t)
  <2>1. /\ pc' # "lines"
        /\ UNCHANGED <<input, left, nl_next, lex_nl_cnt, old_nl_cnt, tk_cnt, nl_cnt>>
        /\ gone' = gone \/ \E t \in 1..NumberOfTexts : gone' = {t}
    BY <1>4 DEF SkipText, CloseText2, Pass3, StartPass3, ReportOutOfMemory, ShowRun, Finish,
                Disappear, findVars, showVars
  <2> QED
    BY <1>3, <2>1 DEF Finding
<1>5. CASE OpenText2
  <2>1. /\ text <= NumberOfTexts /\ text' = text /\ nl_cnt' = nl_cnt /\ gone' = gone
        /\ lex_nl_cnt' = 1 /\ old_nl_cnt' = 1 /\ tk_cnt' = 0
    BY <1>5 DEF OpenText2, showVars
  <2>2. /\ text \in 1..NumberOfTexts
        /\ Text[text].nl_start \in Nat /\ FileNow(text) \in Seq(Tokens \cup {EOL})
    BY <1>1, <2>1, Lengths DEF TextType, FileNow
  <2>3. CASE have_nl
    <3>1. nl_next' = Text[text].nl_start /\ input' = input /\ left' = left
      BY <1>5, <2>3 DEF OpenText2
    <3>2. Text[text].nl_start <= Text[text].nl_limit
      BY <1>1, <2>2, <2>3 DEF Newlines
    <3> QED
      BY <1>1, <1>2, <2>1, <2>2, <2>3, <3>1, <3>2 DEF Finding
  <2>4. CASE ~have_nl
    <3>1. PICK rest \in Buffered : /\ input' \in Scanned(rest, FileNow(text))
                                   /\ left' = [left EXCEPT ![text] = Len(rest)]
                                   /\ nl_next' = 0
      BY <1>5, <2>4 DEF OpenText2
    <3>2. input' \in Seq(Tokens \cup {EOL}) /\ Len(rest) \in Nat
      BY <2>2, <3>1, ScannedIs DEF Finding
    <3>3. left' \in [1..opt.texts -> Nat]
      <4> DEFINE D == 1..opt.texts  c == Len(rest)
      <4>1. left \in [D -> Nat] /\ c \in Nat /\ left' = [left EXCEPT ![text] = c]
        BY <3>1, <3>2 DEF Finding
      <4> HIDE DEF D, c
      <4>2. left' \in [D -> Nat]
        BY <4>1
      <4> QED
        BY <4>2 DEF D
    <3>4. Len(input') \in Nat
      BY <3>2
    <3> QED
      BY <1>1, <1>2, <2>1, <2>4, <3>1, <3>2, <3>3, <3>4 DEF Finding
  <2> QED
    BY <2>3, <2>4
<1>6. ASSUME pc = "lines", pc' = "lines", text' = text, gone' = gone,
             input' = input, left' = left,
             nl_next' \in Nat, lex_nl_cnt' \in Nat, old_nl_cnt' \in Nat, tk_cnt' \in Nat,
             \A p \in DOMAIN nl_cnt' : nl_cnt'[p] \in Nat,
             nl_next' <= IF have_nl THEN Text[text].nl_limit ELSE Len(input)
      PROVE  Finding'
  BY <1>1, <1>2, <1>6 DEF Finding
<1>7. pc = "lines" =>
        /\ text \in 1..NumberOfTexts
        /\ Text[text].nl_limit \in Nat
        /\ Len(input) \in Nat
        /\ have_nl => Text[text].nl_limit <= Len(nl_buff)
  <2> SUFFICES ASSUME pc = "lines" PROVE /\ text \in 1..NumberOfTexts
                                         /\ Text[text].nl_limit \in Nat
                                         /\ Len(input) \in Nat
                                         /\ have_nl => Text[text].nl_limit <= Len(nl_buff)
    OBVIOUS
  <2>1. text \in 1..NumberOfTexts
    BY <1>1 DEF Finding
  <2>2. Text[text] \in TextType
    BY <2>1, Lengths
  <2> QED
    BY <2>1, <2>2 DEF Newlines, TextType, Finding
<1>8. CASE NextLine
  <2>1. /\ pc = "lines" /\ pc' = "lines" /\ text' = text /\ gone' = gone /\ nl_cnt' = nl_cnt
        /\ input' = input /\ left' = left
        /\ old_nl_cnt' = lex_nl_cnt /\ lex_nl_cnt' = lex_nl_cnt + 1
    BY <1>8 DEF NextLine, NextEol, showVars
  <2>2. CASE have_nl
    <3>1. /\ nl_next # Text[text].nl_limit /\ nl_next' = nl_next + 1
          /\ tk_cnt' = tk_cnt + nl_buff[nl_next + 1]
      BY <1>8, <2>2 DEF NextLine, NextEol
    <3>2. nl_next < Text[text].nl_limit /\ nl_next + 1 \in 1..Len(nl_buff)
      BY <1>1, <1>7, <2>1, <2>2, <3>1 DEF Finding
    <3>3. nl_buff[nl_next + 1] \in Nat
      <4>1. nl_buff[nl_next + 1] \in 0..MaxDiff
        BY <1>1, <3>2, ElementOfSeq
      <4> QED
        BY <4>1
    <3> QED
      BY <1>6, <1>7, <2>1, <2>2, <3>1, <3>2, <3>3 DEF Finding
  <2>3. CASE ~have_nl
    <3>1. /\ EolsAhead # {} /\ nl_next' = Min(EolsAhead)
          /\ tk_cnt' = tk_cnt + nl_next' - nl_next - 1
      BY <1>8, <2>3 DEF NextLine, NextEol
    <3>2. nl_next' \in (nl_next + 1)..Len(input)
      BY <1>7, <2>1, <3>1, NextInFile DEF Finding
    <3> QED
      BY <1>6, <1>7, <2>1, <2>3, <3>1, <3>2 DEF Finding
  <2> QED
    BY <2>2, <2>3
<1>9. CASE NoMoreLines
  <2>1. /\ pc = "lines" /\ pc' = "lines" /\ text' = text /\ gone' = gone
        /\ input' = input /\ left' = left
        /\ old_nl_cnt' = lex_nl_cnt /\ lex_nl_cnt' = lex_nl_cnt /\ Fill(lex_nl_cnt, lex_nl_cnt)
    BY <1>9 DEF NoMoreLines, showVars
  <2>2. \A p \in DOMAIN nl_cnt' : nl_cnt'[p] \in Nat
    BY <2>1, FillNumbers DEF Finding
  <2>3. CASE have_nl
    <3>1. nl_next' = nl_next /\ tk_cnt' = tk_cnt
      BY <1>9, <2>3 DEF NoMoreLines
    <3> QED
      BY <1>6, <2>1, <2>2, <2>3, <3>1 DEF Finding
  <2>4. CASE ~have_nl
    <3>1. nl_next' = Len(input) /\ tk_cnt' = tk_cnt + nl_next' - nl_next
      BY <1>9, <2>4 DEF NoMoreLines
    <3> QED
      BY <1>6, <1>7, <2>1, <2>2, <2>4, <3>1 DEF Finding
  <2> QED
    BY <2>3, <2>4
<1>10. CASE OnThisLine
  <2>1. /\ pc = "lines" /\ pc' = "lines" /\ text' = text /\ gone' = gone
        /\ input' = input /\ left' = left
        /\ UNCHANGED <<nl_next, lex_nl_cnt, old_nl_cnt, tk_cnt>> /\ Fill(old_nl_cnt, lex_nl_cnt)
    BY <1>10 DEF OnThisLine, showVars
  <2>2. \A p \in DOMAIN nl_cnt' : nl_cnt'[p] \in Nat
    BY <2>1, FillNumbers DEF Finding
  <2> QED
    BY <1>6, <2>1, <2>2 DEF Finding
<1>11. CASE UNCHANGED allVars
  <2>1. /\ UNCHANGED <<pc, text, nl_next, lex_nl_cnt, old_nl_cnt, tk_cnt, nl_cnt, gone>>
        /\ input' = input /\ left' = left
    BY <1>11 DEF allVars, vars, findVars, showVars
  <2> QED
    BY <1>1, <1>2, <2>1 DEF Finding
<1> QED
  BY <1>4, <1>5, <1>8, <1>9, <1>10, <1>11, LaterMoves DEF Pass2

-----------------------------------------------------------------------------
(* The store of the runs, and their printing *)

LEMMA SeqGrows ==
  ASSUME NEW S, NEW T, S \subseteq T, NEW s \in Seq(S)
  PROVE  s \in Seq(T)
OBVIOUS

LEMMA InsertedAt ==
  ASSUME NEW S, NEW s \in Seq(S), NEW v \in S, NEW k \in 1..(Len(s) + 1),
         NEW t, t = InsertAt(s, k, v)
  PROVE  /\ t \in Seq(S) /\ Len(t) = Len(s) + 1
         /\ \A i \in 1..Len(t) : t[i] = IF i < k THEN s[i] ELSE IF i = k THEN v ELSE s[i - 1]
<1> DEFINE a == SubSeq(s, 1, k - 1)
           b == SubSeq(s, k, Len(s))
           c == a \o <<v>>
<1>1. a \in Seq(S) /\ Len(a) = k - 1 /\ \A i \in 1..(k - 1) : a[i] = s[i]
  OBVIOUS
<1>2. b \in Seq(S) /\ Len(b) = Len(s) - k + 1 /\ \A i \in 1..(Len(s) - k + 1) : b[i] = s[k + i - 1]
  OBVIOUS
<1>3. t = c \o b
  BY DEF InsertAt
<1> HIDE DEF a, b
<1>4. c \in Seq(S) /\ Len(c) = k /\ c[k] = v /\ \A i \in 1..(k - 1) : c[i] = a[i]
  BY <1>1
<1> HIDE DEF c
<1>5. /\ t \in Seq(S) /\ Len(t) = Len(c) + Len(b)
      /\ \A i \in 1..(Len(c) + Len(b)) : t[i] = IF i <= Len(c) THEN c[i] ELSE b[i - Len(c)]
  <2>1. c \in Seq(S) /\ b \in Seq(S)
    BY <1>2, <1>4
  <2> QED
    BY <2>1, <1>3, ConcatProperties, Zenon
<1>6. Len(t) = Len(s) + 1
  BY <1>2, <1>4, <1>5
<1>7. ASSUME NEW i \in 1..Len(t)
      PROVE  t[i] = IF i < k THEN s[i] ELSE IF i = k THEN v ELSE s[i - 1]
  <2>1. t[i] = IF i <= k THEN c[i] ELSE b[i - k]
    BY <1>2, <1>4, <1>5, <1>6
  <2>2. CASE i < k
    BY <1>1, <1>4, <1>6, <2>1, <2>2
  <2>3. CASE i = k
    BY <1>4, <2>1, <2>3
  <2>4. CASE i > k
    <3>1. i - k \in 1..(Len(s) - k + 1) /\ k + (i - k) - 1 = i - 1
      BY <1>6, <2>4
    <3>2. b[i - k] = s[k + (i - k) - 1]
      BY <1>2, <3>1
    <3> QED
      BY <2>1, <2>4, <3>1, <3>2
  <2> QED
    BY <2>2, <2>3, <2>4
<1> QED
  BY <1>5, <1>6, <1>7

IsInserted(t, s, k, v) ==
  /\ Len(t) = Len(s) + 1
  /\ \A i \in 1..Len(t) : t[i] = IF i < k THEN s[i] ELSE IF i = k THEN v ELSE s[i - 1]

LEMMA InsertedIs ==
  ASSUME NEW S, NEW s \in Seq(S), NEW v \in S, NEW k \in 1..(Len(s) + 1),
         NEW t, t = InsertAt(s, k, v)
  PROVE  t \in Seq(S) /\ IsInserted(t, s, k, v)
BY InsertedAt DEF IsInserted

\* Longer runs are in front, equally long ones in the order they were found.
InFront(v, w) == v.size > w.size \/ (v.size = w.size /\ v.run < w.run)

\* The AISO store holds the runs, without option p all of them.
Store ==
  /\ aiso \in Seq([run : 1..Len(runs), size : Nat])
  /\ \A k \in 1..Len(aiso) : aiso[k].size = runs[aiso[k].run].size
  /\ \A j, k \in 1..Len(aiso) : j < k => InFront(aiso[j], aiso[k])
  /\ ~option_set("p") => \A r \in 1..Len(runs) : \E k \in 1..Len(aiso) : aiso[k].run = r

LEMMA StoreKept ==
  ASSUME Store, aiso' = aiso, runs' = runs, opt' = opt
  PROVE  Store'
BY DEF Store, option_set

LEMMA RunIsStored ==
  ASSUME Types, Store, Numbers, EnterRun
  PROVE  Store'
<1>1. /\ runs \in Seq(RunType) /\ Len(runs) \in Nat /\ size_best \in Nat
      /\ runs' = Append(runs, Run) /\ opt' = opt /\ Run.size = size_best
  BY DEF Types, Numbers, EnterRun, AddRun, textVars, Run
<1>2. /\ Len(runs') = Len(runs) + 1 /\ runs'[Len(runs) + 1].size = size_best
      /\ \A r \in 1..Len(runs) : runs'[r] = runs[r]
  BY <1>1
<1> DEFINE S == [run : 1..(Len(runs) + 1), size : Nat]
<1>3. aiso \in Seq(S)
  <2>1. [run : 1..Len(runs), size : Nat] \subseteq S
    BY <1>1
  <2>2. aiso \in Seq([run : 1..Len(runs), size : Nat])
    BY DEF Store
  <2> HIDE DEF S
  <2> QED
    BY <2>1, <2>2, SeqGrows
<1>9. \A k \in 1..Len(aiso) : aiso[k].run \in 1..Len(runs) /\ aiso[k].size \in Nat
  <2>1. aiso \in Seq([run : 1..Len(runs), size : Nat])
    BY DEF Store
  <2>2. \A k \in 1..Len(aiso) : aiso[k] \in [run : 1..Len(runs), size : Nat]
    BY <2>1, ElementOfSeq
  <2> QED
    BY <2>2
<1>4. CASE option_set("p")
  <2>1. aiso' = aiso
    BY <1>4 DEF EnterRun
  <2> QED
    BY <1>1, <1>2, <1>3, <1>4, <1>9, <2>1 DEF Store, option_set
<1>5. CASE ~option_set("p")
  <2> DEFINE v == [run |-> Len(runs) + 1, size |-> size_best]
  <2>1. PICK k \in 1..(Len(aiso) + 1) : AISO!ProperPlace(v, k) /\ aiso' = InsertAt(aiso, k, v)
    BY <1>5 DEF EnterRun, AISO!Insert, AISO!InsertAt, InsertAt
  <2>2. v \in S
    BY <1>1
  <2>3. /\ \A i \in 1..(k - 1) : ~(size_best > aiso[i].size)
        /\ \A i \in k..Len(aiso) : size_best > aiso[i].size
    BY <2>1 DEF AISO!ProperPlace, Before
  <2>4. v.run = Len(runs) + 1 /\ v.size = size_best
    OBVIOUS
  <2> HIDE DEF v, S
  <2>5. /\ aiso' \in Seq(S) /\ Len(aiso') = Len(aiso) + 1
        /\ \A i \in 1..Len(aiso') : aiso'[i] = IF i < k THEN aiso[i]
                                               ELSE IF i = k THEN v ELSE aiso[i - 1]
    <3>1. aiso' = InsertAt(aiso, k, v)
      BY <2>1
    <3>2. aiso' \in Seq(S) /\ IsInserted(aiso', aiso, k, v)
      BY <1>3, <2>2, <3>1, InsertedIs, Zenon
    <3> QED
      BY <3>2 DEF IsInserted
  <2>6. /\ Len(aiso) \in Nat
        /\ \A i \in 1..Len(aiso) : /\ aiso[i].run \in 1..Len(runs) /\ aiso[i].size \in Nat
                                   /\ aiso[i].size = runs[aiso[i].run].size
    BY <1>9 DEF Store
  <2>7. \A i \in 1..Len(aiso') : aiso'[i].size = runs'[aiso'[i].run].size
    <3> SUFFICES ASSUME NEW i \in 1..Len(aiso')
                 PROVE  aiso'[i].size = runs'[aiso'[i].run].size
      OBVIOUS
    <3>1. CASE i = k
      BY <1>2, <2>4, <2>5, <3>1
    <3>2. CASE i < k
      <4>1. i \in 1..Len(aiso) /\ aiso'[i] = aiso[i]
        BY <2>5, <2>6, <3>2
      <4> QED
        BY <1>2, <2>6, <4>1
    <3>3. CASE i > k
      <4>1. i - 1 \in 1..Len(aiso) /\ aiso'[i] = aiso[i - 1]
        BY <2>5, <2>6, <3>3
      <4> QED
        BY <1>2, <2>6, <4>1
    <3> QED
      BY <2>6, <3>1, <3>2, <3>3
  <2>8. ASSUME NEW i \in 1..Len(aiso'), NEW j \in 1..Len(aiso'), i < j
        PROVE  InFront(aiso'[i], aiso'[j])
    <3>1. CASE j < k
      <4>1. i \in 1..Len(aiso) /\ j \in 1..Len(aiso) /\ aiso'[i] = aiso[i] /\ aiso'[j] = aiso[j]
        BY <2>5, <2>6, <2>8, <3>1
      <4> QED
        BY <2>8, <4>1 DEF Store
    <3>2. CASE j = k
      <4>1. i \in 1..Len(aiso) /\ i \in 1..(k - 1) /\ aiso'[i] = aiso[i] /\ aiso'[j] = v
        BY <2>5, <2>6, <2>8, <3>2
      <4> QED
        BY <1>1, <2>3, <2>4, <2>6, <4>1 DEF InFront
    <3>3. CASE j > k /\ i = k
      <4>1. j - 1 \in k..Len(aiso) /\ aiso'[j] = aiso[j - 1] /\ aiso'[i] = v
        BY <2>5, <2>6, <3>3
      <4> QED
        BY <1>1, <2>3, <2>4, <4>1 DEF InFront
    <3>4. CASE j > k /\ i < k
      <4>1. /\ i \in 1..Len(aiso) /\ j - 1 \in 1..Len(aiso) /\ i < j - 1
            /\ aiso'[i] = aiso[i] /\ aiso'[j] = aiso[j - 1]
        BY <2>5, <2>6, <3>4
      <4> QED
        BY <4>1 DEF Store
    <3>5. CASE j > k /\ i > k
      <4>1. /\ i - 1 \in 1..Len(aiso) /\ j - 1 \in 1..Len(aiso) /\ i - 1 < j - 1
            /\ aiso'[i] = aiso[i - 1] /\ aiso'[j] = aiso[j - 1]
        BY <2>5, <2>6, <2>8, <3>5
      <4> QED
        BY <4>1 DEF Store
    <3> QED
      BY <2>6, <3>1, <3>2, <3>3, <3>4, <3>5
  <2>9. ASSUME NEW r \in 1..(Len(runs) + 1)
        PROVE  \E i \in 1..Len(aiso') : aiso'[i].run = r
    <3>1. CASE r = Len(runs) + 1
      <4>1. k \in 1..Len(aiso') /\ aiso'[k] = v
        BY <2>5, <2>6
      <4> QED
        BY <2>4, <3>1, <4>1
    <3>2. CASE r \in 1..Len(runs)
      <4>1. PICK i \in 1..Len(aiso) : aiso[i].run = r
        BY <1>5, <3>2 DEF Store
      <4>2. CASE i < k
        <5>1. i \in 1..Len(aiso') /\ aiso'[i] = aiso[i]
          BY <2>5, <2>6, <4>2
        <5> QED
          BY <4>1, <5>1
      <4>3. CASE i >= k
        <5>1. i + 1 \in 1..Len(aiso') /\ aiso'[i + 1] = aiso[i]
          BY <2>5, <2>6, <4>3
        <5> QED
          BY <4>1, <5>1
      <4> QED
        BY <2>6, <4>2, <4>3
    <3> QED
      BY <1>1, <3>1, <3>2
  <2>10. aiso' \in Seq([run : 1..Len(runs'), size : Nat])
    BY <1>2, <2>5 DEF S
  <2> QED
    BY <1>2, <2>7, <2>8, <2>9, <2>10 DEF Store
<1> QED
  BY <1>4, <1>5

LEMMA StoreStep ==
  ASSUME Types, Store, Numbers, Early \/ Later, [SimNext]_allVars
  PROVE  Store'
<1>1. CASE EnterRun
  BY <1>1, RunIsStored
<1>2. CASE Pass1 /\ UNCHANGED <<hashVars, compareVars>> /\ UNCHANGED aiso
  <2>1. opt' = opt
    BY <1>2 DEF Pass1, InitOutOfMemory, Separator, OpenFile, EndArgs, TokensOutOfMemory,
                ReadToken, ReadEol, EndFile, textVars
  <2> QED
    BY <1>2, <2>1, StoreKept DEF compareVars
<1>3. CASE Match /\ UNCHANGED aiso
  <2>1. UNCHANGED textVars /\ runs' = runs
    BY <1>3 DEF Match, InitHashTable, TableOutOfMemory, Hash1Step, Hash1Done, Hash2Step,
                Hash2Done, StartRange, NextText, LcsStep, NoRun, RunOutOfMemory, compareVars
  <2> QED
    BY <1>3, <2>1, StoreKept DEF textVars
<1>4. CASE StartPass2
  BY <1>4, StoreKept DEF runVars, StartPass2, CompareDone, compareVars, textVars
<1>5. CASE Pass2 \/ Pass3 \/ \E t \in 1..NumberOfTexts : Disappear(t)
  <2>1. UNCHANGED searchVars /\ aiso' = aiso
    BY <1>5
    DEF runVars, Pass2, SkipText, OpenText2, NextLine, NoMoreLines, OnThisLine, CloseText2,
        Pass3, StartPass3, ReportOutOfMemory, ShowRun, Finish, Disappear
  <2> QED
    BY <2>1, StoreKept DEF searchVars, compareVars, textVars
<1>6. CASE UNCHANGED allVars
  BY <1>6, StoreKept DEF runVars, allVars, vars, compareVars, textVars
<1> QED
  BY <1>1, <1>2, <1>3, <1>4, <1>5, <1>6 DEF runVars, SimNext

-----------------------------------------------------------------------------
(* All of it together *)

AllTypes == Buffer /\ Newlines /\ Numbers /\ Indices /\ Finding /\ Store

LEMMA NewlinesKept ==
  ASSUME Newlines, UNCHANGED textVars,
         \/ pc \notin {"read", "fatal"}
         \/ text # 0 /\ text' # 0
         \/ pc' = pc /\ text' = text
  PROVE  Newlines'
<1>1. NumberOfTexts' = NumberOfTexts /\ Text' = Text /\ nl_buff' = nl_buff
  BY DEF textVars, NumberOfTexts
<1>2. have_nl' => have_nl
  BY Zenon DEF textVars
<1> QED
  BY <1>1, <1>2 DEF Newlines

LEMMA BufferKept ==
  ASSUME Buffer, UNCHANGED textVars
  PROVE  Buffer'
<1>1. have_nl \in BOOLEAN => have_nl' \in BOOLEAN
  BY Zenon DEF textVars
<1> QED
  BY <1>1 DEF Buffer, textVars

\* The newline buffer until the comparison is done.
LEMMA BufferStep ==
  ASSUME IInv, Buffer, Newlines, Early, [Next]_vars, text' = 0 \/ CompareDone
  PROVE  Buffer' /\ Newlines'
<1>1. CASE Pass1
  <2>1. ~CompareDone
    BY <1>1 DEF Pass1, InitOutOfMemory, Separator, OpenFile, EndArgs, TokensOutOfMemory,
                ReadToken, ReadEol, EndFile, CompareDone
  <2> QED
    BY <1>1, <2>1, Pass1Buffer DEF Early
<1>2. CASE Match \/ AddRun \/ CompareDone
  <2>1. UNCHANGED textVars /\ pc \notin {"read", "fatal"}
    BY <1>2 DEF Match, InitHashTable, TableOutOfMemory, Hash1Step, Hash1Done, Hash2Step,
                Hash2Done, StartRange, NextText, LcsStep, NoRun, RunOutOfMemory, AddRun,
                CompareDone
  <2> QED
    BY <2>1, NewlinesKept, BufferKept
<1>3. CASE UNCHANGED vars
  <2>1. UNCHANGED textVars /\ pc' = pc /\ text = 0
    BY <1>3 DEF vars, Early
  <2>2. text' = 0 \/ pc \notin {"read", "fatal"}
    BY DEF CompareDone
  <2> QED
    BY <2>1, <2>2, NewlinesKept, BufferKept
<1> QED
  BY <1>1, <1>2, <1>3 DEF Next

\* Until it is done nothing is found, and no file disappears.
LEMMA FindingStarts ==
  ASSUME Finding, Early, [SimNext]_allVars
  PROVE  Finding'
<1>1. gone = {} /\ text = 0
  BY DEF Finding, Early
<1>2. pc' # "lines" /\ (text' = 0 \/ CompareDone) /\ opt' = opt
  <2>1. [Next]_vars /\ (Early' \/ CompareDone)
    BY EarlyStep
  <2>2. opt' = opt
    BY <2>1 DEF Next, Pass1, InitOutOfMemory, Separator, OpenFile, EndArgs, TokensOutOfMemory,
                ReadToken, ReadEol, EndFile, Match, InitHashTable, TableOutOfMemory, Hash1Step,
                Hash1Done, Hash2Step, Hash2Done, StartRange, NextText, LcsStep, NoRun,
                RunOutOfMemory, AddRun, CompareDone, textVars, vars
  <2> QED
    BY <2>1, <2>2 DEF Early, CompareDone
<1>3. CASE StartPass2
  <2>1. /\ UNCHANGED <<input, left, nl_next, lex_nl_cnt, old_nl_cnt, tk_cnt, gone>>
        /\ nl_cnt' = [p \in Positions |-> 0] /\ text' = 1
    BY <1>3 DEF StartPass2, showVars
  <2> QED
    BY <1>1, <1>2, <2>1 DEF Finding
<1>4. CASE UNCHANGED <<findVars, gone>>
  <2>1. UNCHANGED <<input, left, nl_next, lex_nl_cnt, old_nl_cnt, tk_cnt, nl_cnt, gone>>
    BY <1>4 DEF findVars
  <2> QED
    BY <1>1, <1>2, <2>1 DEF Finding
<1>5. StartPass2 \/ UNCHANGED <<findVars, gone>>
  <2>1. pc \notin {"pass2", "lines", "pass3"}
    BY DEF Early
  <2> QED
    BY <2>1
    DEF SimNext, EnterRun, Pass2, SkipText, OpenText2, NextLine, NoMoreLines, OnThisLine,
        CloseText2, Pass3, StartPass3, ReportOutOfMemory, ShowRun, Finish, Disappear,
        allVars, showVars
<1> QED
  BY <1>3, <1>4, <1>5

LEMMA TypesKept ==
  ASSUME Later, [SimNext]_allVars, Types, AllTypes
  PROVE  AllTypes'
<1>1. /\ Later' /\ UNCHANGED textVars /\ UNCHANGED hashVars /\ UNCHANGED compareVars
      /\ text # 0 /\ text' # 0 /\ TextLength' = TextLength
  BY LaterStep DEF searchVars, Later, textVars, TextLength
<1>2. Buffer' /\ Newlines'
  BY <1>1, BufferKept, NewlinesKept DEF AllTypes
<1>3. Numbers'
  BY <1>1 DEF AllTypes, Numbers, hashVars, compareVars
<1>4. Indices'
  BY <1>1 DEF AllTypes, Indices, hashVars, Later
<1>5. Finding' /\ Store'
  BY FindingStep, StoreStep DEF AllTypes
<1> QED
  BY <1>2, <1>3, <1>4, <1>5 DEF AllTypes

LEMMA TypesStep ==
  ASSUME EarlyInv \/ LaterInv, AllTypes, [SimNext]_allVars
  PROVE  AllTypes'
<1>1. CASE EarlyInv
  <2>1. Early /\ FInv /\ IInv /\ Types
    BY <1>1 DEF EarlyInv, FInv, IInv
  <2>2. [Next]_vars /\ (text' = 0 \/ CompareDone)
    BY <2>1, EarlyStep DEF Early
  <2>3. FInv'
    BY <2>1, <2>2, ForwardStep
  <2>4. IInv'
    BY <2>3 DEF FInv
  <2>5. Buffer' /\ Newlines'
    BY <2>1, <2>2, BufferStep DEF AllTypes
  <2>6. Numbers' /\ Indices'
    BY <2>1, <2>2, <2>4, NumbersStep, IndicesStep DEF AllTypes
  <2>7. Finding' /\ Store'
    BY <2>1, FindingStarts, StoreStep DEF AllTypes
  <2> QED
    BY <2>5, <2>6, <2>7 DEF AllTypes
<1>2. CASE LaterInv
  BY <1>2, TypesKept DEF LaterInv, Found
<1> QED
  BY <1>1, <1>2

LEMMA TypesStart == SimInit => AllTypes
<1> SUFFICES ASSUME SimInit PROVE AllTypes
  OBVIOUS
<1>1. Init /\ InitPass1 /\ InitCompare /\ text = 0
  BY DEF SimInit, Init
<1>2. Buffer /\ Newlines
  <2>1. have_nl \in BOOLEAN
    BY <1>1, Zenon DEF InitPass1
  <2>2. NumberOfTexts = 0
    BY <1>1 DEF InitPass1, NumberOfTexts
  <2>3. /\ lex_token = NoToken /\ lex_tk_cnt = 0 /\ last_tk_cnt = 0 /\ nl_buff = <<>>
    BY <1>1 DEF InitPass1
  <2> QED
    BY <2>1, <2>2, <2>3 DEF Buffer, Newlines
<1>3. Numbers /\ Indices
  BY <1>1 DEF InitCompare, Numbers, Indices
<1>4. Finding
  BY <1>1 DEF SimInit, InitPass1, Finding
<1>5. Store
  BY <1>1 DEF SimInit, InitCompare, AISO!Init, Store
<1> QED
  BY <1>2, <1>3, <1>4, <1>5 DEF AllTypes

LEMMA TypesInvariant == SimSpec => []AllTypes
<1>1. SimInit => AllTypes
  BY TypesStart
<1>2. (EarlyInv \/ LaterInv) /\ AllTypes /\ [SimNext]_allVars => AllTypes'
  BY TypesStep
<1> QED
  BY <1>1, <1>2, SimInvariant, PTL DEF SimSpec, allVars

\* Of the whole program, for all files, options, languages and hash functions, and
\* whatever memory there is: the differences in the newline buffer fit into an
\* unsigned char, the references and the entries of the hash table are positions
\* of TokenArray or zero, the texts lie in TokenArray, the AISO store refers to
\* runs, and no counter becomes negative.
THEOREM TypeCorrect == SimSpec => []TypeOK
<1>1. ASSUME EarlyInv \/ LaterInv, AllTypes PROVE TypeOK
  <2>1. Types /\ Tiles
    BY <1>1 DEF EarlyInv, LaterInv, FInv, IInv, Found
  <2>2. /\ text \in Nat
        /\ pc \in {"args", "read", "table", "hash1", "hash2", "range", "lcs", "pass2",
                   "lines", "pass3", "done", "fatal"}
    BY <1>1 DEF EarlyInv, LaterInv, Early, Later
  <2>3. \A t \in 1..NumberOfTexts :
          /\ Text[t].start \in 1..TextLength /\ Text[t].limit \in 1..TextLength
          /\ Text[t].nl_start \in Nat /\ Text[t].nl_limit \in Nat
          /\ Text[t].file \in Seq(Tokens \cup {EOL})
    BY <2>1, Lengths DEF Tiles, TextType
  <2>4. \A k \in 1..Len(runs) : DOMAIN runs[k] = {"text0", "pos0", "text1", "pos1", "size"}
    <3>1. \A k \in 1..Len(runs) : runs[k] \in RunType
      BY <2>1, ElementOfSeq DEF Types
    <3> QED
      BY <3>1 DEF RunType
  <2>5. opt \in Commands /\ TokenArray \in Seq(Tokens) /\ NumberOfNewTexts \in 0..NumberOfTexts
    BY <2>1 DEF Types
  <2>6. /\ lex_token \in Tokens \cup {EOL, NoToken}
        /\ {lex_tk_cnt, last_tk_cnt} \subseteq Nat
        /\ have_nl \in BOOLEAN /\ nl_buff \in Seq(0..MaxDiff)
    BY <1>1 DEF AllTypes, Buffer
  <2>7. /\ \A i \in DOMAIN forward_references : forward_references[i] \in 0..(TextLength - 1)
        /\ \A h \in DOMAIN last_index : last_index[h] \in 0..(TextLength - 1)
        /\ {hash_table_size, n, m, i0, i1, size_best, i_best} \subseteq Nat
    BY <1>1 DEF AllTypes, Indices, Numbers
  <2>8. /\ aiso \in Seq([run : 1..Len(runs), size : Nat])
        /\ {text, nl_next, lex_nl_cnt, old_nl_cnt, tk_cnt} \subseteq Nat
        /\ \A p \in DOMAIN nl_cnt : nl_cnt[p] \in Nat
        /\ input \in Seq(Tokens \cup {EOL}) /\ left \in [1..opt.texts -> Nat]
        /\ gone \subseteq 1..NumberOfTexts
    BY <1>1, <2>2 DEF AllTypes, Store, Finding
  <2> QED
    BY <2>2, <2>3, <2>4, <2>5, <2>6, <2>7, <2>8 DEF TypeOK
<1> QED
  BY <1>1, SimInvariant, TypesInvariant, PTL

-----------------------------------------------------------------------------
(***************************************************************************)
(* The order of the report.                                                *)
(***************************************************************************)

Sequence(s) == Len(s) \in Nat /\ s = [k \in 1..Len(s) |-> s[k]]

LEMMA SequenceOf ==
  ASSUME NEW S, NEW s \in Seq(S)
  PROVE  Sequence(s)
<1>1. Len(s) \in Nat /\ s \in [1..Len(s) -> S]
  BY LenProperties, Zenon
<1> QED
  BY <1>1 DEF Sequence

LEMMA SequenceAppend ==
  ASSUME NEW s, Sequence(s), NEW v
  PROVE  /\ Sequence(Append(s, v)) /\ Len(Append(s, v)) = Len(s) + 1
         /\ \A k \in 1..Len(s) : Append(s, v)[k] = s[k]
         /\ Append(s, v)[Len(s) + 1] = v
<1> DEFINE S == {s[k] : k \in 1..Len(s)} \cup {v}
<1>1. s \in Seq(S) /\ v \in S
  <2>1. [k \in 1..Len(s) |-> s[k]] \in [1..Len(s) -> S]
    OBVIOUS
  <2> QED
    BY <2>1 DEF Sequence
<1> HIDE DEF S
<1>2. Append(s, v) \in Seq(S) /\ Len(Append(s, v)) = Len(s) + 1
  BY <1>1
<1>3. Sequence(Append(s, v))
  BY <1>2, SequenceOf
<1> QED
  BY <1>1, <1>2, <1>3

\* What has been printed is a first part of the AISO store, what is still to be
\* shown the rest.
Printing ==
  ~option_set("p") =>
    IF pc \in {"pass3", "done"}
    THEN /\ Sequence(report) /\ Len(report) + Len(iter) = Len(aiso)
         /\ \A k \in 1..Len(report) : report[k].run = aiso[k].run /\ report[k].size = aiso[k].size
         /\ iter \in Seq([run : 1..Len(runs), size : Nat])
         /\ \A k \in 1..Len(iter) : iter[k] = aiso[Len(report) + k]
         /\ pc = "done" => iter = <<>>
    ELSE report = <<>>

LEMMA RunIsShown ==
  ASSUME Store, Printing, Later, ShowRun
  PROVE  Printing'
<1> DEFINE S == [run : 1..Len(runs), size : Nat]
           e == [run |-> iter[1].run, size |-> iter[1].size,
                 left |-> Shown(iter[1].run, 0), right |-> Shown(iter[1].run, 1)]
<1>1. /\ pc = "pass3" /\ pc' = "pass3" /\ ~option_set("p") /\ iter # <<>>
      /\ aiso' = aiso /\ runs' = runs /\ opt' = opt
      /\ report' = Append(report, e) /\ iter' = Tail(iter)
  BY DEF runVars, ShowRun, searchVars, textVars, compareVars
<1>2. /\ Sequence(report) /\ Len(report) + Len(iter) = Len(aiso)
      /\ \A k \in 1..Len(report) : report[k].run = aiso[k].run /\ report[k].size = aiso[k].size
      /\ iter \in Seq(S)
      /\ \A k \in 1..Len(iter) : iter[k] = aiso[Len(report) + k]
  BY <1>1 DEF Printing
<1>3. e.run = iter[1].run /\ e.size = iter[1].size
  OBVIOUS
<1> HIDE DEF e, S
<1>4. /\ Sequence(report') /\ Len(report') = Len(report) + 1
      /\ \A k \in 1..Len(report) : report'[k] = report[k]
      /\ report'[Len(report) + 1] = e
  BY <1>1, <1>2, SequenceAppend
<1>5. /\ Len(iter) \in Nat \ {0} /\ iter' \in Seq(S) /\ Len(iter') = Len(iter) - 1
      /\ \A k \in 1..Len(iter') : iter'[k] = iter[k + 1]
  BY <1>1, <1>2
<1>6. Len(report) \in Nat
  BY <1>2 DEF Sequence
<1>7. \A k \in 1..Len(report') : report'[k].run = aiso[k].run /\ report'[k].size = aiso[k].size
  BY <1>2, <1>3, <1>4, <1>5, <1>6, SMTT(30)
<1>8. \A k \in 1..Len(iter') : iter'[k] = aiso[Len(report') + k]
  BY <1>2, <1>4, <1>5, <1>6
<1>9. Len(report') + Len(iter') = Len(aiso')
  BY <1>1, <1>2, <1>4, <1>5, <1>6
<1> QED
  BY <1>1, <1>4, <1>5, <1>7, <1>8, <1>9 DEF Printing, S

LEMMA PrintingStep ==
  ASSUME Store, Printing, Early \/ Later, [SimNext]_allVars
  PROVE  Printing'
<1>1. ASSUME report' = report, iter' = iter, aiso' = aiso, runs' = runs, opt' = opt,
             \/ pc \notin {"pass3", "done"} /\ pc' \notin {"pass3", "done"}
             \/ pc' = pc
      PROVE  Printing'
  BY <1>1 DEF Printing, option_set
<1>2. CASE Early
  <2>1. report = <<>> \/ option_set("p")
    BY <1>2 DEF Printing, Early
  <2>2. pc' \notin {"pass3", "done"}
    BY <1>2, EarlyStep DEF Early, CompareDone
  <2>3. report' = report /\ opt' = opt
    <3>1. pc \notin {"pass2", "lines", "pass3"}
      BY <1>2 DEF Early
    <3>2. report' = report
      BY <3>1
      DEF SimNext, EnterRun, StartPass2, Pass2, SkipText, OpenText2, NextLine, NoMoreLines,
          OnThisLine, CloseText2, Pass3, StartPass3, ReportOutOfMemory, ShowRun, Finish,
          Disappear, allVars, showVars
    <3>3. [Next]_vars
      BY <1>2, EarlyStep
    <3>4. opt' = opt
      BY <3>3
      DEF Next, Pass1, InitOutOfMemory, Separator, OpenFile, EndArgs, TokensOutOfMemory,
          ReadToken, ReadEol, EndFile, Match, InitHashTable, TableOutOfMemory, Hash1Step,
          Hash1Done, Hash2Step, Hash2Done, StartRange, NextText, LcsStep, NoRun,
          RunOutOfMemory, AddRun, CompareDone, vars, textVars
    <3> QED
      BY <3>2, <3>4
  <2> QED
    BY <2>1, <2>2, <2>3 DEF Printing, option_set
<1>3. CASE Later
  <2>0. /\ aiso' = aiso /\ runs' = runs /\ opt' = opt
    <3>1. UNCHANGED searchVars
      BY <1>3, LaterStep
    <3>2. aiso' = aiso
      BY <1>3, LaterMoves
      DEF runVars, Pass2, SkipText, OpenText2, NextLine, NoMoreLines, OnThisLine, CloseText2,
          Pass3, StartPass3, ReportOutOfMemory, ShowRun, Finish, Disappear, allVars
    <3> QED
      BY <3>1, <3>2 DEF searchVars, textVars, compareVars
  <2>1. CASE Pass2
    <3>1. /\ report' = report /\ iter' = iter
          /\ pc \in {"pass2", "lines"} /\ pc' \in {"pass2", "lines"}
      BY <2>1 DEF Pass2, SkipText, OpenText2, NextLine, NoMoreLines, OnThisLine, CloseText2,
                  showVars
    <3> QED
      BY <1>1, <2>0, <3>1
  <2>2. CASE StartPass3
    <3>1. pc = "pass2" /\ pc' = "pass3" /\ iter' = aiso /\ report' = report
      BY <2>2 DEF StartPass3
    <3>2. /\ aiso \in Seq([run : 1..Len(runs), size : Nat]) /\ Len(aiso) \in Nat
          /\ ~option_set("p") => report = <<>>
      BY <3>1 DEF Store, Printing
    <3> QED
      <4>1. ASSUME ~option_set("p")
            PROVE  /\ Sequence(report') /\ Len(report') + Len(iter') = Len(aiso)
                   /\ \A k \in 1..Len(report') : FALSE
                   /\ \A k \in 1..Len(iter') : iter'[k] = aiso[Len(report') + k]
        BY <3>1, <3>2, <4>1 DEF Sequence
      <4> QED
        BY <2>0, <3>1, <3>2, <4>1 DEF Printing, option_set
  <2>3. CASE ReportOutOfMemory
    <3>1. report' = report /\ iter' = iter /\ pc = "pass2" /\ pc' = "fatal"
      BY <2>3 DEF ReportOutOfMemory, showVars
    <3> QED
      BY <1>1, <2>0, <3>1
  <2>4. CASE ShowRun
    BY <1>3, <2>4, RunIsShown
  <2>5. CASE Finish
    <3>1. /\ pc = "pass3" /\ pc' = "done" /\ iter' = iter
          /\ ~option_set("p") => iter = <<>> /\ report' = report
      BY <2>5 DEF Finish
    <3> QED
      BY <2>0, <3>1 DEF Printing, option_set
  <2>6. CASE \E t \in 1..NumberOfTexts : Disappear(t)
    <3>1. report' = report /\ iter' = iter /\ pc' = pc
      BY <2>6 DEF Disappear
    <3> QED
      BY <1>1, <2>0, <3>1
  <2>7. CASE UNCHANGED allVars
    <3>1. report' = report /\ iter' = iter /\ pc' = pc
      BY <2>7 DEF allVars, vars, showVars
    <3> QED
      BY <1>1, <2>0, <3>1
  <2> QED
    BY <1>3, <2>1, <2>2, <2>3, <2>4, <2>5, <2>6, <2>7, LaterMoves DEF Pass3
<1> QED
  BY <1>2, <1>3

LEMMA PrintedInOrder ==
  ASSUME Types, Store, Printing, ~option_set("p"), pc \in {"pass3", "done"}
  PROVE  AllInOrder
<1>1. /\ Sequence(report) /\ Len(report) + Len(iter) = Len(aiso)
      /\ \A k \in 1..Len(report) : report[k].run = aiso[k].run /\ report[k].size = aiso[k].size
      /\ iter \in Seq([run : 1..Len(runs), size : Nat])
      /\ pc = "done" => iter = <<>>
  BY DEF Printing
<1>2. Len(report) \in Nat /\ Len(iter) \in Nat /\ Len(aiso) \in Nat /\ Len(runs) \in Nat
  <2>1. Len(report) \in Nat /\ Len(iter) \in Nat
    BY <1>1 DEF Sequence
  <2>2. Len(aiso) \in Nat /\ Len(runs) \in Nat
    BY DEF Store, Types
  <2> QED
    BY <2>1, <2>2
<1>3. \A j, k \in 1..Len(report) : j < k =>
        LET v == report[j]  w == report[k]
        IN  v.size > w.size \/ (v.size = w.size /\ v.run < w.run)
  <2> SUFFICES ASSUME NEW j \in 1..Len(report), NEW k \in 1..Len(report), j < k
               PROVE  InFront(report[j], report[k])
    BY DEF InFront
  <2>1. j \in 1..Len(aiso) /\ k \in 1..Len(aiso)
    BY <1>1, <1>2
  <2>2. InFront(aiso[j], aiso[k])
    BY <2>1 DEF Store
  <2> QED
    BY <1>1, <2>2 DEF InFront
<1>4. ASSUME pc = "done"
      PROVE  {[run |-> report[k].run, size |-> report[k].size] : k \in 1..Len(report)}
                = {[run |-> k, size |-> runs[k].size] : k \in 1..Len(runs)}
  <2>1. Len(report) = Len(aiso)
    BY <1>1, <1>2, <1>4
  <2>2. \A k \in 1..Len(report) :
          /\ report[k].run \in 1..Len(runs)
          /\ report[k].size = runs[report[k].run].size
    <3>1. \A k \in 1..Len(aiso) : aiso[k] \in [run : 1..Len(runs), size : Nat]
      BY ElementOfSeq DEF Store
    <3> QED
      BY <1>1, <2>1, <3>1 DEF Store
  <2>3. \A r \in 1..Len(runs) : \E k \in 1..Len(report) : report[k].run = r
    BY <1>1, <2>1 DEF Store
  <2>4. ASSUME NEW k \in 1..Len(report)
        PROVE  [run |-> report[k].run, size |-> report[k].size]
                 \in {[run |-> r, size |-> runs[r].size] : r \in 1..Len(runs)}
    BY <2>2
  <2>5. ASSUME NEW r \in 1..Len(runs)
        PROVE  [run |-> r, size |-> runs[r].size]
                 \in {[run |-> report[k].run, size |-> report[k].size] : k \in 1..Len(report)}
    <3>1. PICK k \in 1..Len(report) : report[k].run = r
      BY <2>3
    <3>2. report[k].size = runs[r].size
      BY <2>2, <3>1
    <3> QED
      BY <3>1, <3>2
  <2> QED
    BY <2>4, <2>5
<1> QED
  BY <1>3, <1>4 DEF AllInOrder

\* Of the whole program, for all files, options, languages and hash functions:
\* without option p the runs are printed from the longest to the shortest, equally
\* long ones in the order they were found, and when the program ends every run it
\* has found has been printed, once.
THEOREM ReportInOrder == SimSpec => [](~option_set("p") => AllInOrder)
<1>1. SimInit => Printing
  BY DEF SimInit, Init, InitPass1, Printing
<1>2. AllTypes /\ Printing /\ (Early \/ Later) /\ [SimNext]_allVars => Printing'
  BY PrintingStep DEF AllTypes
<1>3. EarlyInv \/ LaterInv => Types /\ (Early \/ Later)
  BY DEF EarlyInv, LaterInv, FInv, IInv, Found
<1>4. Types /\ AllTypes /\ Printing => (~option_set("p") => AllInOrder)
  <2> SUFFICES ASSUME Types, AllTypes, Printing, ~option_set("p") PROVE AllInOrder
    OBVIOUS
  <2>1. CASE pc \in {"pass3", "done"}
    BY <2>1, PrintedInOrder DEF AllTypes
  <2>2. CASE pc \notin {"pass3", "done"}
    BY <2>2 DEF Printing, AllInOrder
  <2> QED
    BY <2>1, <2>2
<1> QED
  BY <1>1, <1>2, <1>3, <1>4, SimInvariant, TypesInvariant, PTL DEF SimSpec, allVars

-----------------------------------------------------------------------------
(***************************************************************************)
(* Recursion and sorting                                                   *)
(***************************************************************************)

\* Induction up to n, about the set of the numbers for which something holds.
LEMMA UpTo ==
  ASSUME NEW n0 \in Nat, NEW P, 0 \in P, \A k \in 1..n0 : k - 1 \in P => k \in P
  PROVE  \A k \in 0..n0 : k \in P
<1> DEFINE T == (0..n0) \ P
<1>1. ASSUME T # {} PROVE FALSE
  <2>1. T \in SUBSET Nat
    OBVIOUS
  <2>2. PICK x \in T : \A y \in T : x <= y
    <3> HIDE DEF T
    <3> QED
      BY <1>1, <2>1, LeastExists
  <2>3. x \in 1..n0 /\ x - 1 \in 0..n0 /\ x \notin P
    BY <2>2
  <2>4. x - 1 \notin T
    BY <2>2, <2>3
  <2> QED
    BY <2>3, <2>4
<1> QED
  BY <1>1

\* h is the recursion from s by the steps F, up to j.
Follows(h, j, s, F, S) ==
  h \in [0..j -> S] /\ h[0] = s /\ \A k \in 1..j : h[k] = F[k][h[k - 1]]

\* A recursion over 0..n has a result.
LEMMA Iteration ==
  ASSUME NEW S, NEW n0 \in Nat, NEW s \in S, NEW F \in [1..n0 -> [S -> S]]
  PROVE  \E h : Follows(h, n0, s, F, S)
<1> DEFINE P == {j \in 0..n0 : \E h : Follows(h, j, s, F, S)}
<1>1. 0 \in P
  <2>1. Follows([k \in 0..0 |-> s], 0, s, F, S)
    BY DEF Follows
  <2> QED
    BY <2>1
<1>2. ASSUME NEW j \in 1..n0, j - 1 \in P
      PROVE  j \in P
  <2>0. PICK h : Follows(h, j - 1, s, F, S)
    BY <1>2
  <2>1. /\ h \in [0..(j - 1) -> S] /\ h[0] = s
        /\ \A k \in 1..(j - 1) : h[k] = F[k][h[k - 1]]
    BY <2>0 DEF Follows
  <2> DEFINE g == [k \in 0..j |-> IF k = j THEN F[j][h[j - 1]] ELSE h[k]]
  <2>2. h[j - 1] \in S /\ F[j] \in [S -> S]
    BY <2>1
  <2>3. g \in [0..j -> S]
    BY <2>1, <2>2
  <2>4. g[0] = s
    BY <2>1
  <2>5. ASSUME NEW k \in 1..j PROVE g[k] = F[k][g[k - 1]]
    <3>1. CASE k = j
      BY <3>1
    <3>2. CASE k # j
      BY <2>1, <3>2
    <3> QED
      BY <3>1, <3>2
  <2>6. Follows(g, j, s, F, S)
    <3> HIDE DEF g
    <3> QED
      BY <2>3, <2>4, <2>5 DEF Follows
  <2> QED
    BY <2>6
<1>3. \A j \in 0..n0 : j \in P
  <2>1. \A j \in 1..n0 : j - 1 \in P => j \in P
    BY <1>2
  <2> HIDE DEF P
  <2> QED
    BY <1>1, <2>1, UpTo, Zenon
<1> QED
  BY <1>3

-----------------------------------------------------------------------------
(* Sorting *)

\* an order in which elements may be equal
WeakOrder(S, before) ==
  /\ \A x, y \in S : <<x, y>> \in before => <<y, x>> \notin before
  /\ \A x, y, z \in S : <<x, y>> \notin before /\ <<y, z>> \notin before => <<x, z>> \notin before

\* t is s in the order pi.
Through(pi, n0, t, s) ==
  /\ pi \in [1..n0 -> 1..n0]
  /\ \A j, k \in 1..n0 : pi[j] = pi[k] => j = k
  /\ \A k \in 1..n0 : \E j \in 1..n0 : pi[j] = k
  /\ \A k \in 1..n0 : t[k] = s[pi[k]]
Permuted(t, s) ==
  Len(t) = Len(s) /\ \E pi : Through(pi, Len(s), t, s)

\* Permutations can be done one after the other.
LEMMA PermutedTwice ==
  ASSUME NEW s, NEW t, NEW u, Permuted(t, s), Permuted(u, t)
  PROVE  Permuted(u, s)
<1>1. PICK f : Through(f, Len(s), t, s)
  BY DEF Permuted
<1>2. Len(t) = Len(s) /\ Len(u) = Len(s)
  BY DEF Permuted
<1>3. PICK g : Through(g, Len(s), u, t)
  BY <1>2 DEF Permuted
<1> DEFINE h == [k \in 1..Len(s) |-> f[g[k]]]
<1>4. h \in [1..Len(s) -> 1..Len(s)]
  BY <1>1, <1>3 DEF Through
<1>5. ASSUME NEW j \in 1..Len(s), NEW k \in 1..Len(s), h[j] = h[k] PROVE j = k
  <2>1. g[j] \in 1..Len(s) /\ g[k] \in 1..Len(s) /\ f[g[j]] = f[g[k]]
    BY <1>3, <1>5 DEF Through
  <2>2. g[j] = g[k]
    BY <1>1, <2>1 DEF Through
  <2> QED
    BY <1>3, <2>2 DEF Through
<1>6. ASSUME NEW k \in 1..Len(s) PROVE \E j \in 1..Len(s) : h[j] = k
  <2>1. PICK i \in 1..Len(s) : f[i] = k
    BY <1>1 DEF Through
  <2>2. PICK j \in 1..Len(s) : g[j] = i
    BY <1>3 DEF Through
  <2> QED
    BY <2>1, <2>2
<1>7. ASSUME NEW k \in 1..Len(s) PROVE u[k] = s[h[k]]
  <2>1. g[k] \in 1..Len(s) /\ u[k] = t[g[k]]
    BY <1>3 DEF Through
  <2> QED
    BY <1>1, <2>1 DEF Through
<1> HIDE DEF h
<1>8. Through(h, Len(s), u, s)
  BY <1>4, <1>5, <1>6, <1>7 DEF Through
<1> QED
  BY <1>2, <1>8 DEF Permuted

\* There is a first smallest element from the k-th one on.
LEMMA SmallestExists ==
  ASSUME NEW S, NEW before, WeakOrder(S, before), NEW l \in Seq(S), NEW k \in 1..Len(l)
  PROVE  /\ Smallest(l, k, before) \in k..Len(l)
         /\ \A j \in k..Len(l) : <<l[j], l[Smallest(l, k, before)]>> \notin before
<1> DEFINE Least(i, e) == i \in k..e /\ \A j \in k..e : <<l[j], l[i]>> \notin before
           N == Len(l) - k
           P == {d \in 0..N : \E i : Least(i, k + d)}
<1>0. N \in Nat /\ Len(l) \in Nat /\ \A j \in k..Len(l) : l[j] \in S
  OBVIOUS
<1>1. 0 \in P
  <2>1. Least(k, k + 0)
    BY <1>0 DEF WeakOrder
  <2> QED
    BY <1>0, <2>1
<1>2. ASSUME NEW d \in 1..N, d - 1 \in P
      PROVE  d \in P
  <2>1. PICK i : Least(i, k + (d - 1))
    BY <1>2
  <2> DEFINE e == k + d
  <2>2. /\ i \in k..(e - 1) /\ e \in k..Len(l)
        /\ \A j \in k..(e - 1) : <<l[j], l[i]>> \notin before
    BY <1>0, <2>1
  <2>3. \A j \in k..e : j = e \/ j \in k..(e - 1)
    OBVIOUS
  <2>4. l[e] \in S /\ l[i] \in S /\ \A j \in k..e : l[j] \in S
    BY <1>0, <2>2
  <2> HIDE DEF e
  <2>5. CASE <<l[e], l[i]>> \notin before
    <3>1. Least(i, e)
      BY <2>2, <2>3, <2>5
    <3> QED
      BY <3>1 DEF e
  <2>6. CASE <<l[e], l[i]>> \in before
    <3>1. <<l[i], l[e]>> \notin before /\ <<l[e], l[e]>> \notin before
      BY <2>4, <2>6 DEF WeakOrder
    <3>2. ASSUME NEW j \in k..(e - 1) PROVE <<l[j], l[e]>> \notin before
      <4>1. l[j] \in S /\ <<l[j], l[i]>> \notin before
        BY <2>2, <2>4, <2>3
      <4> QED
        BY <2>4, <3>1, <4>1 DEF WeakOrder
    <3>3. Least(e, e)
      BY <2>2, <2>3, <3>1, <3>2, SMTT(30)
    <3> QED
      BY <3>3 DEF e
  <2> QED
    BY <2>5, <2>6
<1>3. N \in P
  <2>1. \A d \in 1..N : d - 1 \in P => d \in P
    BY <1>2
  <2>2. N \in Nat /\ N \in 0..N
    BY <1>0
  <2> HIDE DEF P, N
  <2>3. \A d \in 0..N : d \in P
    BY <1>1, <2>1, <2>2, UpTo, Zenon
  <2> QED
    BY <2>2, <2>3
<1> DEFINE M == {i \in k..Len(l) : \A j \in k..Len(l) : <<l[j], l[i]>> \notin before}
<1>4. M # {} /\ M \in SUBSET Nat
  BY <1>0, <1>3
<1>5. PICK i \in M : \A j \in M : i <= j
  <2> HIDE DEF M
  <2> QED
    BY <1>4, LeastExists
<1>6. ASSUME NEW j \in k..(i - 1) PROVE <<l[i], l[j]>> \in before
  <2>1. j \in k..Len(l) /\ j \notin M
    BY <1>5
  <2>2. PICK x \in k..Len(l) : <<l[x], l[j]>> \in before
    BY <2>1
  <2>3. <<l[x], l[i]>> \notin before
    BY <1>5
  <2> QED
    BY <1>0, <1>5, <2>1, <2>2, <2>3 DEF WeakOrder
<1>7. \E x \in k..Len(l) : /\ \A j \in k..Len(l) : <<l[j], l[x]>> \notin before
                           /\ \A j \in k..(x - 1) : <<l[x], l[j]>> \in before
  BY <1>5, <1>6
<1> QED
  BY <1>7, Zenon DEF Smallest

\* t is l with its i-th element moved to place k.
Moved(t, l, k, i) ==
  /\ Len(t) = Len(l)
  /\ \A j \in 1..Len(l) : t[j] = IF j = k THEN l[i]
                                 ELSE IF j \in (k + 1)..i THEN l[j - 1] ELSE l[j]

\* MoveToFront permutes, and leaves what is before place k alone.
LEMMA MovedToFront ==
  ASSUME NEW S, NEW l \in Seq(S), NEW k \in 1..Len(l), NEW i \in k..Len(l)
  PROVE  MoveToFront(l, k, i) \in Seq(S) /\ Moved(MoveToFront(l, k, i), l, k, i)
<1> DEFINE a == SubSeq(l, 1, i - 1)
           b == SubSeq(l, i + 1, Len(l))
           r == RemoveAt(l, i)
           t == MoveToFront(l, k, i)
<1>1. /\ Len(l) \in Nat /\ a \in Seq(S) /\ Len(a) = i - 1 /\ b \in Seq(S) /\ Len(b) = Len(l) - i
      /\ \A j \in 1..(i - 1) : a[j] = l[j]
      /\ \A j \in 1..(Len(l) - i) : b[j] = l[i + j]
  OBVIOUS
<1>2. r = a \o b
  BY DEF RemoveAt
<1> HIDE DEF a, b, r
<1>3. /\ r \in Seq(S) /\ Len(r) = Len(l) - 1
      /\ \A j \in 1..Len(r) : r[j] = IF j < i THEN l[j] ELSE l[j + 1]
  <2>0. a \in Seq(S) /\ b \in Seq(S)
    BY <1>1
  <2>1. r \in Seq(S) /\ Len(r) = Len(a) + Len(b)
    BY <2>0, <1>2, ConcatProperties, Zenon
  <2>2. \A j \in 1..Len(r) : r[j] = IF j <= Len(a) THEN a[j] ELSE b[j - Len(a)]
    BY <1>1, <1>2, <2>1, ConcatProperties
  <2>3. ASSUME NEW j \in 1..Len(r) PROVE r[j] = IF j < i THEN l[j] ELSE l[j + 1]
    <3>1. CASE j < i
      BY <1>1, <2>1, <2>2, <3>1
    <3>2. CASE j >= i
      <4>1. j - (i - 1) \in 1..(Len(l) - i) /\ i + (j - (i - 1)) = j + 1
        BY <1>1, <2>1, <3>2
      <4>2. r[j] = b[j - (i - 1)]
        BY <1>1, <2>1, <2>2, <3>2
      <4> QED
        BY <1>1, <3>2, <4>1, <4>2
    <3> QED
      BY <1>1, <2>1, <3>1, <3>2
  <2> QED
    BY <1>1, <2>1, <2>3
<1>4. l[i] \in S /\ k \in 1..(Len(r) + 1)
  BY <1>1, <1>3
<1>5. t = InsertAt(r, k, l[i])
  BY DEF MoveToFront, r
<1> HIDE DEF t
<1>6. t \in Seq(S) /\ IsInserted(t, r, k, l[i])
  BY <1>3, <1>4, <1>5, InsertedIs, Zenon
<1>7. Len(t) = Len(l) /\ \A j \in 1..Len(l) : t[j] = IF j < k THEN r[j] ELSE IF j = k THEN l[i]
                                                     ELSE r[j - 1]
  BY <1>1, <1>3, <1>6 DEF IsInserted
<1>8. ASSUME NEW j \in 1..Len(l)
      PROVE  t[j] = IF j = k THEN l[i] ELSE IF j \in (k + 1)..i THEN l[j - 1] ELSE l[j]
  <2>1. CASE j < k
    <3>1. j \in 1..Len(r) /\ j < i /\ t[j] = r[j]
      BY <1>1, <1>3, <1>7, <2>1
    <3>2. t[j] = l[j]
      BY <1>3, <3>1
    <3> QED
      BY <2>1, <3>2
  <2>2. CASE j = k
    BY <1>1, <1>7, <2>2
  <2>3. CASE j > k
    <3>1. j - 1 \in 1..Len(r) /\ t[j] = r[j - 1] /\ (j - 1) + 1 = j
      BY <1>1, <1>3, <1>7, <2>3
    <3>2. r[j - 1] = IF j - 1 < i THEN l[j - 1] ELSE l[j]
      BY <1>3, <3>1
    <3> QED
      BY <2>3, <3>1, <3>2
  <2> QED
    BY <2>1, <2>2, <2>3
<1> QED
  BY <1>6, <1>7, <1>8 DEF t, Moved

\* t has the elements of s, and no later one has to be before an earlier one.
SortedFrom(t, s, before) ==
  /\ Permuted(t, s)
  /\ \A j, k \in 1..Len(s) : j < k => <<t[k], t[j]>> \notin before

\* For any list and any order in which elements may be equal, the selection sort of
\* sortlist.bdy sorts: its result has the elements of the list, each as often as the
\* list, and no later one has to be before an earlier one.
THEOREM Sorts ==
  ASSUME NEW S, NEW s \in Seq(S), NEW before, WeakOrder(S, before)
  PROVE  SortList(s, before) \in Seq(S) /\ SortedFrom(SortList(s, before), s, before)
<1> DEFINE n0 == Len(s)
           L == {l \in Seq(S) : Len(l) = n0}
           Round(k, l) == MoveToFront(l, k, Smallest(l, k, before))
           F == [k \in 1..n0 |-> [l \in L |-> Round(k, l)]]
           Sat(f) == f = [k \in 0..n0 |->
                            IF k = 0 THEN s
                            ELSE LET list == f[k - 1]
                                 IN  MoveToFront(list, k, Smallest(list, k, before))]
           c == CHOOSE f : Sat(f)
<1>0. n0 \in Nat /\ s \in L
  OBVIOUS
<1>1. ASSUME NEW k \in 1..n0, NEW l \in L
      PROVE  /\ Smallest(l, k, before) \in k..n0 /\ Round(k, l) \in L
             /\ \A j \in k..n0 : <<l[j], l[Smallest(l, k, before)]>> \notin before
             /\ \A j \in 1..n0 : Round(k, l)[j] =
                   IF j = k THEN l[Smallest(l, k, before)]
                   ELSE IF j \in (k + 1)..Smallest(l, k, before) THEN l[j - 1] ELSE l[j]
  <2>1. l \in Seq(S) /\ Len(l) = n0 /\ k \in 1..Len(l)
    OBVIOUS
  <2>2. /\ Smallest(l, k, before) \in k..Len(l)
        /\ \A j \in k..Len(l) : <<l[j], l[Smallest(l, k, before)]>> \notin before
    BY <2>1, SmallestExists, Zenon
  <2> DEFINE i == Smallest(l, k, before)
  <2> HIDE DEF i
  <2>3. i \in k..Len(l)
    BY <2>2 DEF i
  <2>4. MoveToFront(l, k, i) \in Seq(S) /\ Moved(MoveToFront(l, k, i), l, k, i)
    BY <2>1, <2>3, MovedToFront, Zenon
  <2> QED
    BY <2>1, <2>2, <2>4 DEF i, Moved
<1> HIDE DEF L
<1>2. F \in [1..n0 -> [L -> L]]
  BY <1>1
<1>3. PICK h \in [0..n0 -> L] : h[0] = s /\ \A k \in 1..n0 : h[k] = F[k][h[k - 1]]
  <2> HIDE DEF F, n0
  <2>1. PICK h : Follows(h, n0, s, F, L)
    BY <1>0, <1>2, Iteration, Zenon
  <2> QED
    BY <2>1 DEF Follows
<1>4. \A k \in 1..n0 : h[k] = Round(k, h[k - 1])
  <2>1. \A k \in 1..n0 : h[k - 1] \in L
    BY <1>0, <1>3
  <2> QED
    BY <1>3, <2>1
<1>5. Sat(h)
  <2> HIDE DEF Round
  <2>1. h = [k \in 0..n0 |-> IF k = 0 THEN s ELSE Round(k, h[k - 1])]
    BY <1>0, <1>3, <1>4
  <2> QED
    BY <2>1 DEF Round
<1>6. Sat(c)
  <2>1. \E f : Sat(f)
    BY <1>5
  <2> HIDE DEF Sat
  <2> QED
    BY <2>1
<1>7. SortList(s, before) = c[n0]
  BY DEF SortList
<1> HIDE DEF c
<1>8. c[0] = s /\ \A k \in 1..n0 : c[k] = Round(k, c[k - 1])
  <2> HIDE DEF Round
  <2>1. c = [k \in 0..n0 |-> IF k = 0 THEN s ELSE Round(k, c[k - 1])]
    BY <1>6 DEF Round
  <2> HIDE DEF Sat
  <2> QED
    BY <1>0, <2>1
<1> DEFINE Good(k) ==
      /\ c[k] \in L /\ Permuted(c[k], s)
      /\ \A i \in 1..k : \A j \in (i + 1)..n0 : <<c[k][j], c[k][i]>> \notin before
<1>9. Good(0)
  <2> DEFINE id == [k \in 1..n0 |-> k]
  <2>1. Through(id, Len(s), s, s)
    BY DEF Through
  <2>2. Permuted(s, s)
    BY <2>1 DEF Permuted
  <2> QED
    BY <1>0, <1>8, <2>2
<1>10. ASSUME NEW k \in 1..n0, Good(k - 1)
       PROVE  Good(k)
  <2> DEFINE l == c[k - 1]
             t == c[k]
             i == Smallest(l, k, before)
  <2>1. l \in L /\ t = Round(k, l)
    BY <1>8, <1>10
  <2>2. l \in Seq(S) /\ Len(l) = n0
    BY <2>1 DEF L
  <2>3. /\ i \in k..n0 /\ t \in L
        /\ \A j \in k..n0 : <<l[j], l[i]>> \notin before
        /\ \A j \in 1..n0 : t[j] = IF j = k THEN l[i]
                                    ELSE IF j \in (k + 1)..i THEN l[j - 1] ELSE l[j]
    <3> HIDE DEF Round, l, t
    <3> QED
      BY <1>1, <2>1
  <2>4. Permuted(l, s) /\ \A x \in 1..(k - 1) : \A y \in (x + 1)..n0 : <<l[y], l[x]>> \notin before
    BY <1>10
  <2>5. Len(t) = n0
    BY <2>3 DEF L
  <2> HIDE DEF i, l, t
  <2>6. Permuted(t, l)
    <3> DEFINE pi == [j \in 1..n0 |-> IF j = k THEN i ELSE IF j \in (k + 1)..i THEN j - 1 ELSE j]
    <3>1. pi \in [1..n0 -> 1..n0]
      BY <1>0, <2>3
    <3>2. \A x, y \in 1..n0 : pi[x] = pi[y] => x = y
      BY <1>0, <2>3
    <3>3. ASSUME NEW y \in 1..n0 PROVE \E x \in 1..n0 : pi[x] = y
      <4>1. CASE y = i
        BY <2>3, <4>1
      <4>2. CASE y \in k..(i - 1)
        <5>1. y + 1 \in 1..n0 /\ y + 1 \in (k + 1)..i /\ y + 1 # k
          BY <1>0, <2>3, <4>2
        <5> QED
          BY <5>1
      <4>3. CASE y \notin k..i
        BY <2>3, <4>3
      <4> QED
        BY <2>3, <4>1, <4>2, <4>3
    <3>4. \A x \in 1..n0 : t[x] = l[pi[x]]
      BY <2>3
    <3> HIDE DEF pi
    <3>5. Through(pi, Len(l), t, l)
      BY <2>2, <3>1, <3>2, <3>3, <3>4 DEF Through
    <3> QED
      BY <2>2, <2>5, <3>5 DEF Permuted
  <2>7. ASSUME NEW x \in 1..k, NEW y \in (x + 1)..n0
        PROVE  <<t[y], t[x]>> \notin before
    <3>1. PICK z \in x..n0 : t[y] = l[z] /\ (x < k => z > x) /\ (x = k => z >= k)
      <4>1. CASE y = k
        BY <1>0, <2>3, <4>1
      <4>2. CASE y \in (k + 1)..i
        BY <1>0, <2>3, <4>2
      <4>3. CASE y # k /\ y \notin (k + 1)..i
        BY <1>0, <2>3, <4>3
      <4> QED
        BY <4>1, <4>2, <4>3
    <3>2. CASE x = k
      <4>1. t[x] = l[i] /\ z \in k..n0
        BY <1>0, <2>3, <3>1, <3>2
      <4> QED
        BY <2>3, <3>1, <4>1
    <3>3. CASE x < k
      <4>1. t[x] = l[x] /\ z \in (x + 1)..n0 /\ x \in 1..(k - 1)
        BY <1>0, <2>3, <3>1, <3>3
      <4> QED
        BY <2>4, <3>1, <4>1
    <3> QED
      BY <3>2, <3>3
  <2>8. Permuted(t, s)
    BY <2>4, <2>6, PermutedTwice
  <2> QED
    BY <2>3, <2>7, <2>8 DEF t
<1>11. Good(n0)
  <2> DEFINE P == {k \in 0..n0 : Good(k)}
  <2>1. 0 \in P
    BY <1>0, <1>9
  <2>2. \A k \in 1..n0 : k - 1 \in P => k \in P
    <3> HIDE DEF Good
    <3> QED
      BY <1>0, <1>10
  <2>3. \A k \in 0..n0 : k \in P
    <3> HIDE DEF P, n0
    <3> QED
      BY <1>0, <2>1, <2>2, UpTo, Zenon
  <2>4. n0 \in 0..n0
    BY <1>0
  <2> QED
    BY <2>3, <2>4
<1> DEFINE t == SortList(s, before)
<1>12. t = c[n0]
  BY <1>7
<1> HIDE DEF t
<1>13. t \in Seq(S) /\ Permuted(t, s)
  BY <1>11, <1>12 DEF L
<1>14. ASSUME NEW j \in 1..Len(s), NEW k \in 1..Len(s), j < k
       PROVE  <<t[k], t[j]>> \notin before
  <2>1. j \in 1..n0 /\ k \in (j + 1)..n0
    BY <1>0, <1>14
  <2> QED
    BY <1>11, <1>12, <2>1
<1> QED
  BY <1>13, <1>14 DEF t, SortedFrom

-----------------------------------------------------------------------------
(***************************************************************************)
(* Tokens and lines of a file                                              *)
(***************************************************************************)

\* tokens and line ends among the first k items of a file
Toks(f, k) == Cardinality({j \in 1..k : f[j] # EOL})
Eols(f, k) == Cardinality({j \in 1..k : f[j] = EOL})

\* tokens on the lines up to one
UpToLine(f, j) == Cardinality({k \in 1..Len(f) : f[k] # EOL /\ LineOf(f, k) <= j})

\* Parts of an interval are finite.
LEMMA PartOfInterval ==
  ASSUME NEW k \in Nat, NEW T \in SUBSET (1..k)
  PROVE  IsFiniteSet(T) /\ Cardinality(T) \in Nat /\ Cardinality(T) <= k
<1>1. IsFiniteSet(1..k) /\ Cardinality(1..k) = k
  BY FS_Interval
<1>2. IsFiniteSet(T) /\ Cardinality(T) <= Cardinality(1..k)
  BY <1>1, FS_Subset
<1> QED
  BY <1>1, <1>2, FS_CardinalityType

\* Nothing has been counted at the start of a file.
LEMMA CountsStart == \A f : Toks(f, 0) = 0 /\ Eols(f, 0) = 0
<1> SUFFICES ASSUME NEW f PROVE Toks(f, 0) = 0 /\ Eols(f, 0) = 0
  OBVIOUS
<1>1. {j \in 1..0 : f[j] # EOL} = {} /\ {j \in 1..0 : f[j] = EOL} = {}
  OBVIOUS
<1> QED
  BY <1>1, FS_EmptySet DEF Toks, Eols

\* One more item is one more token or one more line end.
LEMMA CountsStep ==
  ASSUME NEW f, NEW k \in Nat
  PROVE  /\ Toks(f, k + 1) = IF f[k + 1] # EOL THEN Toks(f, k) + 1 ELSE Toks(f, k)
         /\ Eols(f, k + 1) = IF f[k + 1] = EOL THEN Eols(f, k) + 1 ELSE Eols(f, k)
         /\ Toks(f, k) \in Nat /\ Eols(f, k) \in Nat
<1> DEFINE T(i) == {j \in 1..i : f[j] # EOL}
           E(i) == {j \in 1..i : f[j] = EOL}
<1>1. /\ IsFiniteSet(T(k)) /\ IsFiniteSet(E(k))
      /\ Cardinality(T(k)) \in Nat /\ Cardinality(E(k)) \in Nat
  BY PartOfInterval
<1>2. k + 1 \notin T(k) /\ k + 1 \notin E(k)
  OBVIOUS
<1>3. CASE f[k + 1] = EOL
  <2>1. T(k + 1) = T(k) /\ E(k + 1) = E(k) \cup {k + 1}
    BY <1>3
  <2> HIDE DEF T, E
  <2>2. Cardinality(E(k) \cup {k + 1}) = Cardinality(E(k)) + 1
    BY <1>1, <1>2, FS_AddElement
  <2>3. Cardinality(T(k + 1)) = Cardinality(T(k)) /\ Cardinality(E(k + 1)) = Cardinality(E(k)) + 1
    BY <2>1, <2>2
  <2> QED
    BY <1>1, <1>3, <2>3 DEF T, E, Toks, Eols
<1>4. CASE f[k + 1] # EOL
  <2>1. E(k + 1) = E(k) /\ T(k + 1) = T(k) \cup {k + 1}
    BY <1>4
  <2> HIDE DEF T, E
  <2>2. Cardinality(T(k) \cup {k + 1}) = Cardinality(T(k)) + 1
    BY <1>1, <1>2, FS_AddElement
  <2>3. Cardinality(E(k + 1)) = Cardinality(E(k)) /\ Cardinality(T(k + 1)) = Cardinality(T(k)) + 1
    BY <2>1, <2>2
  <2> QED
    BY <1>1, <1>4, <2>3 DEF T, E, Toks, Eols
<1> QED
  BY <1>3, <1>4

\* What is counted are natural numbers.
LEMMA CountsAreNumbers ==
  ASSUME NEW f, NEW k \in Nat
  PROVE  Toks(f, k) \in Nat /\ Eols(f, k) \in Nat /\ LineOf(f, k + 1) = Eols(f, k) + 1
<1>1. Toks(f, k) \in Nat /\ Eols(f, k) \in Nat
  BY CountsStep
<1>2. (k + 1) - 1 = k
  OBVIOUS
<1> QED
  BY <1>1, <1>2 DEF LineOf, Eols

\* Every item is a token or a line end.
LEMMA CountsAdd ==
  ASSUME NEW f, NEW k \in Nat
  PROVE  Toks(f, k) + Eols(f, k) = k
<1> DEFINE P == {i \in Nat : Toks(f, i) + Eols(f, i) = i}
<1>1. 0 \in P
  BY CountsStart
<1>2. ASSUME NEW i \in 1..k, i - 1 \in P PROVE i \in P
  <2>1. i - 1 \in Nat /\ (i - 1) + 1 = i /\ i \in Nat
    OBVIOUS
  <2> HIDE DEF P
  <2>2. Toks(f, i - 1) + Eols(f, i - 1) = i - 1
    BY <1>2 DEF P
  <2>3. /\ Toks(f, i) = IF f[i] # EOL THEN Toks(f, i - 1) + 1 ELSE Toks(f, i - 1)
        /\ Eols(f, i) = IF f[i] = EOL THEN Eols(f, i - 1) + 1 ELSE Eols(f, i - 1)
        /\ Toks(f, i - 1) \in Nat /\ Eols(f, i - 1) \in Nat
    BY <2>1, CountsStep
  <2>4. Toks(f, i) + Eols(f, i) = i
    BY <2>2, <2>3
  <2> QED
    BY <2>1, <2>4 DEF P
<1>3. \A i \in 1..k : i - 1 \in P => i \in P
  BY <1>2
<1> HIDE DEF P
<1>4. \A i \in 0..k : i \in P
  BY <1>1, <1>3, UpTo, Zenon
<1> QED
  BY <1>4 DEF P

\* Counts do not go down.
LEMMA CountsGrow ==
  ASSUME NEW f, NEW k \in Nat, NEW j \in 0..k
  PROVE  Toks(f, j) <= Toks(f, k) /\ Eols(f, j) <= Eols(f, k)
<1> DEFINE T(i) == {x \in 1..i : f[x] # EOL}
           E(i) == {x \in 1..i : f[x] = EOL}
<1>1. T(j) \in SUBSET T(k) /\ E(j) \in SUBSET E(k)
  OBVIOUS
<1>2. IsFiniteSet(T(k)) /\ IsFiniteSet(E(k))
  BY PartOfInterval
<1> HIDE DEF T, E
<1>3. Cardinality(T(j)) <= Cardinality(T(k)) /\ Cardinality(E(j)) <= Cardinality(E(k))
  BY <1>1, <1>2, FS_Subset
<1> QED
  BY <1>3 DEF T, E, Toks, Eols

\* Later items are on later lines, or on the same.
LEMMA LinesGrow ==
  ASSUME NEW f, NEW k \in Nat \ {0}, NEW j \in 1..k
  PROVE  LineOf(f, j) \in Nat \ {0} /\ LineOf(f, j) <= LineOf(f, k)
<1>1. j - 1 \in 0..(k - 1) /\ k - 1 \in Nat /\ j - 1 \in Nat
  OBVIOUS
<1>2. Eols(f, j - 1) <= Eols(f, k - 1) /\ Eols(f, j - 1) \in Nat /\ Eols(f, k - 1) \in Nat
  BY <1>1, CountsGrow, CountsStep
<1> QED
  BY <1>2 DEF LineOf, Eols

\* The counts depend on the items counted only.
LEMMA CountsAgree ==
  ASSUME NEW f, NEW g, NEW k \in Nat, \A j \in 1..k : f[j] = g[j]
  PROVE  Toks(f, k) = Toks(g, k) /\ Eols(f, k) = Eols(g, k)
<1>1. /\ {j \in 1..k : f[j] # EOL} = {j \in 1..k : g[j] # EOL}
      /\ {j \in 1..k : f[j] = EOL} = {j \in 1..k : g[j] = EOL}
  OBVIOUS
<1> QED
  BY <1>1 DEF Toks, Eols

\* So do the lines.
LEMMA LinesAgree ==
  ASSUME NEW f, NEW g, NEW k \in Nat, \A j \in 1..k : f[j] = g[j]
  PROVE  \A j \in 1..(k + 1) : LineOf(f, j) = LineOf(g, j)
<1> SUFFICES ASSUME NEW j \in 1..(k + 1) PROVE LineOf(f, j) = LineOf(g, j)
  OBVIOUS
<1>1. j - 1 \in Nat /\ \A i \in 1..(j - 1) : f[i] = g[i]
  OBVIOUS
<1>2. Eols(f, j - 1) = Eols(g, j - 1)
  BY <1>1, CountsAgree
<1> QED
  BY <1>2 DEF LineOf, Eols

\* Token number c of a file is one of its items.
LEMMA ItemIs ==
  ASSUME NEW f, Len(f) \in Nat, NEW c \in Nat, c < Toks(f, Len(f))
  PROVE  /\ ItemAt(f, c) \in 1..Len(f) /\ f[ItemAt(f, c)] # EOL
         /\ Toks(f, ItemAt(f, c) - 1) = c
<1> DEFINE P == {k \in Nat : c < Toks(f, k) => \E i \in 1..k : f[i] # EOL /\ Toks(f, i - 1) = c}
<1>1. 0 \in P
  <2>1. ~(c < Toks(f, 0))
    BY CountsStart
  <2> QED
    BY <2>1
<1>2. \A k \in 1..Len(f) : k - 1 \in P => k \in P
  <2> SUFFICES ASSUME NEW k \in 1..Len(f), k - 1 \in P, c < Toks(f, k)
               PROVE  \E i \in 1..k : f[i] # EOL /\ Toks(f, i - 1) = c
    OBVIOUS
  <2>1. k - 1 \in Nat /\ (k - 1) + 1 = k /\ k \in 1..k
    OBVIOUS
  <2> DEFINE q == k - 1
  <2>q. q \in Nat /\ q + 1 = k
    BY <2>1
  <2>5. /\ Toks(f, q + 1) = IF f[q + 1] # EOL THEN Toks(f, q) + 1 ELSE Toks(f, q)
        /\ Toks(f, q) \in Nat
    <3> HIDE DEF q
    <3> QED
      BY <2>q, CountsStep
  <2>2. /\ Toks(f, k) = IF f[k] # EOL THEN Toks(f, k - 1) + 1 ELSE Toks(f, k - 1)
        /\ Toks(f, k - 1) \in Nat
    BY <2>q, <2>5
  <2>3. CASE c < Toks(f, k - 1)
    BY <2>3
  <2>4. CASE ~(c < Toks(f, k - 1))
    BY <2>1, <2>2, <2>4
  <2> QED
    BY <2>3, <2>4
<1> HIDE DEF P
<1>3. \A k \in 0..Len(f) : k \in P
  BY <1>1, <1>2, UpTo, Zenon
<1>4. Len(f) \in 0..Len(f)
  OBVIOUS
<1>5. \E i \in 1..Len(f) : f[i] # EOL /\ Toks(f, i - 1) = c
  BY <1>3, <1>4 DEF P
<1> QED
  BY <1>5, Zenon DEF ItemAt, Toks

\* Later tokens are later items.
LEMMA ItemsGrow ==
  ASSUME NEW f, Len(f) \in Nat, NEW c \in Nat, NEW d \in Nat, c <= d, d < Toks(f, Len(f))
  PROVE  ItemAt(f, c) <= ItemAt(f, d)
<1> DEFINE i == ItemAt(f, c)  k == ItemAt(f, d)
<1>0. Toks(f, Len(f)) \in Nat
  BY CountsAreNumbers
<1>1. /\ i \in 1..Len(f) /\ Toks(f, i - 1) = c
      /\ k \in 1..Len(f) /\ f[k] # EOL /\ Toks(f, k - 1) = d
  BY <1>0, ItemIs
<1> HIDE DEF i, k
<1>2. CASE k < i
  <2>1. k - 1 \in Nat /\ (k - 1) + 1 = k /\ k \in 0..(i - 1) /\ i - 1 \in Nat
    BY <1>1, <1>2
  <2> DEFINE q == k - 1
  <2>q. q \in Nat /\ q + 1 = k /\ Toks(f, q) = d /\ f[q + 1] # EOL
    BY <1>1, <2>1
  <2>4. Toks(f, q + 1) = d + 1
    <3> HIDE DEF q
    <3> QED
      BY <2>q, CountsStep
  <2>2. Toks(f, k) = d + 1
    BY <2>q, <2>4
  <2>3. Toks(f, k) <= Toks(f, i - 1)
    BY <2>1, CountsGrow
  <2> QED
    BY <1>1, <2>2, <2>3
<1>3. CASE ~(k < i)
  <2>1. i <= k
    BY <1>1, <1>3
  <2> QED
    BY <2>1 DEF i, k
<1> QED
  BY <1>2, <1>3

\* The token items up to a line.
TokensUpTo(f, j) == {k \in 1..Len(f) : f[k] # EOL /\ LineOf(f, k) <= j}

\* They are finitely many.
LEMMA TokensUpToFinite ==
  ASSUME NEW f, Len(f) \in Nat, NEW j
  PROVE  /\ IsFiniteSet(TokensUpTo(f, j)) /\ UpToLine(f, j) = Cardinality(TokensUpTo(f, j))
         /\ UpToLine(f, j) \in Nat
<1>1. TokensUpTo(f, j) \in SUBSET (1..Len(f))
  BY DEF TokensUpTo
<1> QED
  BY <1>1, PartOfInterval DEF TokensUpTo, UpToLine

\* Later lines only add tokens.
LEMMA UpToGrows ==
  ASSUME NEW f, Len(f) \in Nat, NEW i \in Int, NEW j \in Int, i <= j
  PROVE  UpToLine(f, i) <= UpToLine(f, j)
<1>1. TokensUpTo(f, i) \subseteq TokensUpTo(f, j)
  <2> SUFFICES ASSUME NEW k \in 1..Len(f), LineOf(f, k) <= i PROVE LineOf(f, k) <= j
    BY DEF TokensUpTo
  <2>1. LineOf(f, k) \in Nat
    BY LinesGrow
  <2> QED
    BY <2>1
<1> QED
  BY <1>1, TokensUpToFinite, FS_Subset

\* No tokens are before the first line.
LEMMA UpToNone ==
  ASSUME NEW f, Len(f) \in Nat
  PROVE  UpToLine(f, 0) = 0
<1>1. TokensUpTo(f, 0) = {}
  <2> SUFFICES ASSUME NEW k \in 1..Len(f) PROVE ~(LineOf(f, k) <= 0)
    BY DEF TokensUpTo
  <2>1. LineOf(f, k) \in Nat \ {0}
    BY LinesGrow
  <2> QED
    BY <2>1
<1> QED
  BY <1>1, TokensUpToFinite, FS_EmptySet

\* A token is on one of the lines up to j iff more tokens than those before it are.
LEMMA UpToToken ==
  ASSUME NEW f, Len(f) \in Nat, NEW j \in Int, NEW k \in 1..Len(f), f[k] # EOL
  PROVE  LineOf(f, k) <= j <=> Toks(f, k - 1) < UpToLine(f, j)
<1> DEFINE T(i) == {x \in 1..i : f[x] # EOL}
<1>0. /\ k - 1 \in Nat /\ (k - 1) + 1 = k
      /\ Toks(f, k - 1) \in Nat /\ Toks(f, k) = Toks(f, k - 1) + 1
      /\ LineOf(f, k) \in Nat /\ UpToLine(f, j) \in Nat
  <2>1. k - 1 \in Nat /\ (k - 1) + 1 = k /\ k \in 1..k /\ k \in Nat \ {0}
    OBVIOUS
  <2> QED
    BY <2>1, CountsStep, LinesGrow, TokensUpToFinite
<1>1. CASE LineOf(f, k) <= j
  <2>1. T(k) \subseteq TokensUpTo(f, j)
    <3> SUFFICES ASSUME NEW x \in 1..k, f[x] # EOL PROVE x \in 1..Len(f) /\ LineOf(f, x) <= j
      BY DEF TokensUpTo
    <3>1. LineOf(f, x) \in Nat /\ LineOf(f, x) <= LineOf(f, k)
      BY LinesGrow
    <3> QED
      BY <1>0, <1>1, <3>1
  <2> HIDE DEF T
  <2>2. Cardinality(T(k)) <= UpToLine(f, j)
    BY <2>1, TokensUpToFinite, FS_Subset
  <2> QED
    BY <1>0, <1>1, <2>2 DEF T, Toks
<1>2. CASE ~(LineOf(f, k) <= j)
  <2>1. TokensUpTo(f, j) \subseteq T(k - 1)
    <3> SUFFICES ASSUME NEW x \in 1..Len(f), f[x] # EOL, LineOf(f, x) <= j PROVE x \in 1..(k - 1)
      BY DEF TokensUpTo
    <3>1. CASE x < k
      BY <3>1
    <3>2. CASE x >= k
      <4>1. k \in 1..x /\ x \in Nat \ {0}
        BY <3>2
      <4>2. LineOf(f, k) <= LineOf(f, x) /\ LineOf(f, x) \in Nat
        BY <4>1, LinesGrow
      <4> QED
        BY <1>0, <1>2, <4>2
    <3> QED
      BY <3>1, <3>2
  <2>2. IsFiniteSet(T(k - 1))
    BY <1>0, PartOfInterval
  <2> HIDE DEF T
  <2>3. UpToLine(f, j) <= Cardinality(T(k - 1))
    BY <2>1, <2>2, TokensUpToFinite, FS_Subset
  <2> QED
    BY <1>0, <1>2, <2>3 DEF T, Toks
<1> QED
  BY <1>1, <1>2

\* The lines up to the r-th item, which ends one, have the tokens up to it.
LEMMA UpToEol ==
  ASSUME NEW f, Len(f) \in Nat, NEW r \in 0..Len(f), r = 0 \/ f[r] = EOL
  PROVE  UpToLine(f, Eols(f, r)) = Toks(f, r)
<1>1. CASE r = 0
  BY <1>1, CountsStart, UpToNone
<1>2. CASE r # 0
  <2>0. r - 1 \in Nat /\ (r - 1) + 1 = r /\ r \in Nat /\ f[r] = EOL
    BY <1>2
  <2>1. Eols(f, r) = Eols(f, r - 1) + 1 /\ Eols(f, r - 1) \in Nat
    BY <2>0, CountsStep
  <2>2. ASSUME NEW k \in 1..Len(f), f[k] # EOL
        PROVE  k <= r <=> LineOf(f, k) <= Eols(f, r)
    <3>0. k - 1 \in Nat /\ LineOf(f, k) = Eols(f, k - 1) + 1 /\ Eols(f, k - 1) \in Nat
      <4>1. k - 1 \in Nat /\ (k - 1) + 1 = k
        OBVIOUS
      <4> QED
        BY <4>1, CountsAreNumbers
    <3>1. CASE k <= r
      <4>1. k - 1 \in 0..(r - 1)
        BY <2>0, <2>2, <3>1
      <4>2. Eols(f, k - 1) <= Eols(f, r - 1)
        BY <2>0, <4>1, CountsGrow
      <4> QED
        BY <2>1, <3>0, <3>1, <4>2
    <3>2. CASE ~(k <= r)
      <4>1. r \in 0..(k - 1)
        BY <2>0, <3>2
      <4>2. Eols(f, r) <= Eols(f, k - 1)
        BY <3>0, <4>1, CountsGrow
      <4> QED
        BY <2>1, <3>0, <3>2, <4>2
    <3> QED
      BY <3>1, <3>2
  <2>3. TokensUpTo(f, Eols(f, r)) = {j \in 1..r : f[j] # EOL}
    BY <2>2 DEF TokensUpTo
  <2> QED
    BY <2>3 DEF TokensUpTo, UpToLine, Toks
<1> QED
  BY <1>1, <1>2

\* The last line is the one after the last line end.
LEMMA UpToLast ==
  ASSUME NEW f, Len(f) \in Nat, NEW j \in Int, j >= Eols(f, Len(f)) + 1
  PROVE  UpToLine(f, j) = Toks(f, Len(f))
<1>1. ASSUME NEW k \in 1..Len(f) PROVE LineOf(f, k) <= j
  <2>1. k - 1 \in Nat /\ (k - 1) + 1 = k /\ k - 1 \in 0..Len(f)
    OBVIOUS
  <2>2. /\ LineOf(f, k) = Eols(f, k - 1) + 1 /\ Eols(f, k - 1) \in Nat
        /\ Eols(f, k - 1) <= Eols(f, Len(f)) /\ Eols(f, Len(f)) \in Nat
    BY <2>1, CountsAreNumbers, CountsGrow
  <2> QED
    BY <2>2
<1>2. TokensUpTo(f, j) = {k \in 1..Len(f) : f[k] # EOL}
  BY <1>1 DEF TokensUpTo
<1> QED
  BY <1>2 DEF TokensUpTo, UpToLine, Toks

\* A file that goes on with one more item.
Continues(g, f, x) ==
  /\ Len(g) = Len(f) + 1 /\ g[Len(f) + 1] = x
  /\ \A k \in 1..Len(f) : g[k] = f[k]

\* What was counted before stays so when a file goes on.
LEMMA CountsContinue ==
  ASSUME NEW f, NEW g, NEW x, Len(f) \in Nat, Continues(g, f, x)
  PROVE  /\ \A k \in 0..Len(f) : Toks(g, k) = Toks(f, k) /\ Eols(g, k) = Eols(f, k)
         /\ \A k \in 1..(Len(f) + 1) : LineOf(g, k) = LineOf(f, k)
         /\ Toks(g, Len(g)) = IF x = EOL THEN Toks(f, Len(f)) ELSE Toks(f, Len(f)) + 1
         /\ Eols(g, Len(g)) = IF x = EOL THEN Eols(f, Len(f)) + 1 ELSE Eols(f, Len(f))
<1>1. ASSUME NEW k \in 0..Len(f) PROVE Toks(g, k) = Toks(f, k) /\ Eols(g, k) = Eols(f, k)
  <2>1. k \in Nat /\ \A j \in 1..k : g[j] = f[j]
    BY DEF Continues
  <2> QED
    BY <2>1, CountsAgree
<1>2. \A k \in 1..(Len(f) + 1) : LineOf(g, k) = LineOf(f, k)
  BY LinesAgree DEF Continues
<1>3. Len(f) \in 0..Len(f)
  OBVIOUS
<1>4. /\ Toks(g, Len(f) + 1) = IF g[Len(f) + 1] # EOL THEN Toks(g, Len(f)) + 1 ELSE Toks(g, Len(f))
      /\ Eols(g, Len(f) + 1) = IF g[Len(f) + 1] = EOL THEN Eols(g, Len(f)) + 1 ELSE Eols(g, Len(f))
  BY CountsStep
<1> QED
  BY <1>1, <1>2, <1>3, <1>4 DEF Continues

\* A line end does not change the lines before it, a token only the last one.
LEMMA UpToContinues ==
  ASSUME NEW f, NEW g, NEW x, Len(f) \in Nat, Continues(g, f, x), NEW j \in Int,
         x = EOL \/ j <= Eols(f, Len(f))
  PROVE  UpToLine(g, j) = UpToLine(f, j)
<1>1. \A k \in 1..(Len(f) + 1) : LineOf(g, k) = LineOf(f, k)
  BY CountsContinue
<1>2. LineOf(f, Len(f) + 1) = Eols(f, Len(f)) + 1 /\ Eols(f, Len(f)) \in Nat
  BY CountsAreNumbers
<1>3. TokensUpTo(g, j) = TokensUpTo(f, j)
  BY <1>1, <1>2 DEF TokensUpTo, Continues
<1> QED
  BY <1>3 DEF TokensUpTo, UpToLine

-----------------------------------------------------------------------------
(***************************************************************************)
(* What Pass 1 keeps of the files                                          *)
(***************************************************************************)

\* An array has the tokens of a text, of which there are size.
TokensAre(txt, size, array) ==
  /\ Toks(txt.file, Len(txt.file)) = size
  /\ \A k \in 1..Len(txt.file) :
       txt.file[k] # EOL => txt.file[k] = array[txt.start + Toks(txt.file, k - 1)]

\* A buffer has the numbers of tokens on the first e lines of a text.
LinesAre(txt, e, buff) ==
  \A j \in 1..e : buff[txt.nl_start + j] = UpToLine(txt.file, j) - UpToLine(txt.file, j - 1)

\* all of a text, when it has been read
ReadText(txt, array) == TokensAre(txt, txt.limit - txt.start, array)
ReadLines(txt, buff) ==
  LET e == txt.nl_limit - txt.nl_start
  IN  e \in Nat /\ LinesAre(txt, e, buff) /\ UpToLine(txt.file, e) = Toks(txt.file, Len(txt.file))

\* the part of it that has been read, which has size tokens, last of them before
\* the last line end
PartOfText(txt, size, array) ==
  Len(array) + 1 - txt.start = size /\ TokensAre(txt, size, array)
PartOfLines(txt, last, buff) ==
  LET e == Eols(txt.file, Len(txt.file))
  IN  /\ LinesAre(txt, e, buff) /\ Len(buff) = txt.nl_start + e
      /\ last = UpToLine(txt.file, e)

\* the text Pass 1 is reading
IsOpen(t) == pc = "read" /\ t = NumberOfTexts

\* What Pass 1 has stored of the texts is what it has read from their files.
FilesAre ==
  \A t \in 1..NumberOfTexts :
    /\ IsOpen(t) => /\ PartOfText(Text[t], lex_tk_cnt, TokenArray)
                    /\ have_nl => PartOfLines(Text[t], last_tk_cnt, nl_buff)
    /\ ~IsOpen(t) => /\ ReadText(Text[t], TokenArray)
                     /\ have_nl => ReadLines(Text[t], nl_buff)

\* A lack of memory in Pass 1 leaves the last file unread.
Files == (text = 0 /\ pc = "fatal") \/ FilesAre

\* Files have a length.
LEMMA FileLength ==
  ASSUME NEW txt \in TextType
  PROVE  /\ Len(txt.file) \in Nat /\ txt.start \in Nat /\ txt.limit \in Nat
         /\ txt.nl_start \in Nat /\ txt.nl_limit \in Nat
         /\ txt.file \in Seq(Tokens \cup {EOL})
BY DEF TextType

\* A text keeps its tokens when TokenArray grows.
LEMMA TokensKept ==
  ASSUME NEW txt \in TextType, NEW size, NEW array, NEW array2, TokensAre(txt, size, array),
         txt.start >= 1,
         \A i \in 1..(txt.start + size - 1) : array2[i] = array[i]
  PROVE  TokensAre(txt, size, array2)
<1>0. Len(txt.file) \in Nat /\ txt.start \in Nat /\ size \in Nat
      /\ Toks(txt.file, Len(txt.file)) = size
  BY FileLength, CountsAreNumbers DEF TokensAre
<1> SUFFICES ASSUME NEW k \in 1..Len(txt.file), txt.file[k] # EOL
             PROVE  txt.file[k] = array2[txt.start + Toks(txt.file, k - 1)]
  BY DEF TokensAre
<1>1. txt.file[k] = array[txt.start + Toks(txt.file, k - 1)]
  BY DEF TokensAre
<1>2. Toks(txt.file, k - 1) \in Nat /\ Toks(txt.file, k - 1) < size
  <2> DEFINE q == k - 1  f == txt.file
  <2>1. q \in Nat /\ q + 1 = k /\ f[q + 1] # EOL
    OBVIOUS
  <2>2. Toks(f, q) \in Nat /\ Toks(f, q + 1) = Toks(f, q) + 1
    <3> HIDE DEF q, f
    <3> QED
      BY <2>1, CountsStep
  <2>3. Toks(f, k) <= Toks(f, Len(f))
    <3>1. k \in 0..Len(f)
      BY <1>0
    <3> HIDE DEF f
    <3> QED
      BY <1>0, <3>1, CountsGrow DEF f
  <2> QED
    BY <1>0, <2>1, <2>2, <2>3
<1>3. txt.start + Toks(txt.file, k - 1) \in 1..(txt.start + size - 1)
  BY <1>0, <1>2
<1> QED
  BY <1>1, <1>3

\* A text keeps its lines when the newline buffer grows.
LEMMA LinesKept ==
  ASSUME NEW txt \in TextType, NEW e \in Nat, NEW buff, NEW buff2, LinesAre(txt, e, buff),
         \A i \in 1..(txt.nl_start + e) : buff2[i] = buff[i]
  PROVE  LinesAre(txt, e, buff2)
<1>0. txt.nl_start \in Nat
  BY FileLength
<1> QED
  BY <1>0 DEF LinesAre

\* the next item of a file
GoesOn(txt2, txt, x) ==
  /\ Continues(txt2.file, txt.file, x)
  /\ txt2.start = txt.start /\ txt2.nl_start = txt.nl_start

\* The tokens of a text go on as its file does.
LEMMA TokensGoOn ==
  ASSUME NEW txt \in TextType, NEW size, NEW array, TokensAre(txt, size, array),
         NEW x, NEW txt2, GoesOn(txt2, txt, x), NEW array2, TokensAre(txt, size, array2),
         x # EOL => array2[txt.start + size] = x
  PROVE  TokensAre(txt2, IF x = EOL THEN size ELSE size + 1, array2)
<1> DEFINE f == txt.file  g == txt2.file
<1>0. /\ Len(f) \in Nat /\ txt.start \in Nat /\ size \in Nat /\ Toks(f, Len(f)) = size
      /\ Continues(g, f, x) /\ txt2.start = txt.start
  BY FileLength, CountsAreNumbers DEF TokensAre, GoesOn
<1>1. /\ \A k \in 0..Len(f) : Toks(g, k) = Toks(f, k)
      /\ Toks(g, Len(g)) = IF x = EOL THEN Toks(f, Len(f)) ELSE Toks(f, Len(f)) + 1
  <2> HIDE DEF f, g
  <2> QED
    BY <1>0, CountsContinue
<1>2. ASSUME NEW k \in 1..Len(g), g[k] # EOL
      PROVE  g[k] = array2[txt2.start + Toks(g, k - 1)]
  <2>0. Len(g) = Len(f) + 1 /\ g[Len(f) + 1] = x /\ \A i \in 1..Len(f) : g[i] = f[i]
    BY <1>0 DEF Continues
  <2>1. k - 1 \in 0..Len(f)
    BY <1>0, <2>0
  <2>2. Toks(g, k - 1) = Toks(f, k - 1)
    BY <1>1, <2>1
  <2>3. CASE k \in 1..Len(f)
    BY <1>0, <1>2, <2>0, <2>2, <2>3 DEF TokensAre
  <2>4. CASE k = Len(f) + 1
    <3>1. k - 1 = Len(f)
      BY <1>0, <2>4
    <3>2. Toks(g, k - 1) = size
      BY <1>0, <2>2, <3>1
    <3> QED
      BY <1>0, <1>2, <2>0, <2>4, <3>2
  <2> QED
    BY <1>0, <2>0, <2>3, <2>4
<1> QED
  BY <1>0, <1>1, <1>2 DEF TokensAre

\* A token does not change the lines before its own.
LEMMA LinesGoOn ==
  ASSUME NEW txt \in TextType, NEW x, NEW txt2, GoesOn(txt2, txt, x), NEW buff, NEW buff2,
         NEW last, NEW last2, PartOfLines(txt, last, buff),
         IF x = EOL
         THEN /\ last2 = Toks(txt.file, Len(txt.file)) /\ Len(buff2) = Len(buff) + 1
              /\ buff2[Len(buff) + 1] = last2 - last
              /\ \A i \in 1..Len(buff) : buff2[i] = buff[i]
         ELSE last2 = last /\ buff2 = buff
  PROVE  PartOfLines(txt2, last2, buff2)
<1> DEFINE f == txt.file  g == txt2.file  e == Eols(f, Len(f))
<1>0. /\ Len(f) \in Nat /\ txt.nl_start \in Nat /\ txt2.nl_start = txt.nl_start
      /\ Continues(g, f, x)
  BY FileLength DEF GoesOn
<1>1. /\ Eols(g, Len(g)) = IF x = EOL THEN e + 1 ELSE e
      /\ e \in Nat
  <2> HIDE DEF f, g
  <2> QED
    BY <1>0, CountsContinue, CountsAreNumbers
<1>2. ASSUME NEW j \in Int, x = EOL \/ j <= e
      PROVE  UpToLine(g, j) = UpToLine(f, j)
  <2> HIDE DEF f, g
  <2> QED
    BY <1>0, <1>2, UpToContinues
<1>3. LinesAre(txt, e, buff) /\ Len(buff) = txt.nl_start + e /\ last = UpToLine(f, e)
  BY DEF PartOfLines
<1>4. \A j \in 1..e : buff[txt.nl_start + j] = UpToLine(g, j) - UpToLine(g, j - 1)
  <2> SUFFICES ASSUME NEW j \in 1..e
               PROVE  buff[txt.nl_start + j] = UpToLine(g, j) - UpToLine(g, j - 1)
    OBVIOUS
  <2>1. j \in Int /\ j - 1 \in Int /\ j <= e /\ j - 1 <= e
    BY <1>1
  <2>2. UpToLine(g, j) = UpToLine(f, j) /\ UpToLine(g, j - 1) = UpToLine(f, j - 1)
    BY <1>2, <2>1
  <2> QED
    BY <1>3, <2>2 DEF LinesAre
<1>5. CASE x = EOL
  <2>1. UpToLine(f, e + 1) = Toks(f, Len(f))
    <3>1. e + 1 \in Int /\ e + 1 >= Eols(f, Len(f)) + 1
      BY <1>1
    <3> HIDE DEF f, e
    <3> QED
      BY <1>0, <3>1, UpToLast DEF f
  <2>2. e + 1 \in Int /\ e \in Int
    BY <1>1
  <2>3. UpToLine(g, e + 1) = UpToLine(f, e + 1) /\ UpToLine(g, e) = UpToLine(f, e)
    BY <1>2, <1>5, <2>2
  <2>4. last2 = UpToLine(g, e + 1)
    BY <1>5, <2>1, <2>3
  <2>5. \A j \in 1..(e + 1) : buff2[txt2.nl_start + j] = UpToLine(g, j) - UpToLine(g, j - 1)
    <3> SUFFICES ASSUME NEW j \in 1..(e + 1)
                 PROVE  buff2[txt2.nl_start + j] = UpToLine(g, j) - UpToLine(g, j - 1)
      OBVIOUS
    <3>1. CASE j = e + 1
      <4>1. j - 1 = e
        BY <1>1, <3>1
      <4>2. txt2.nl_start + j = Len(buff) + 1
        BY <1>0, <1>1, <1>3, <3>1
      <4> QED
        BY <1>3, <1>5, <2>3, <2>4, <3>1, <4>1, <4>2
    <3>2. CASE j \in 1..e
      <4>1. txt2.nl_start + j \in 1..Len(buff)
        BY <1>0, <1>1, <1>3, <3>2
      <4> QED
        BY <1>0, <1>4, <1>5, <3>2, <4>1
    <3> QED
      BY <1>1, <3>1, <3>2
  <2>6. Len(buff2) = txt2.nl_start + (e + 1)
    BY <1>0, <1>1, <1>3, <1>5
  <2>7. Eols(g, Len(g)) = e + 1
    BY <1>1, <1>5
  <2> HIDE DEF e
  <2> QED
    BY <2>4, <2>5, <2>6, <2>7 DEF PartOfLines, LinesAre
<1>6. CASE x # EOL
  <2>1. Eols(g, Len(g)) = e
    BY <1>1, <1>6
  <2>2. last2 = UpToLine(g, e)
    <3>1. e \in Int /\ e <= e
      BY <1>1
    <3> QED
      BY <1>2, <1>3, <1>6, <3>1
  <2> HIDE DEF e
  <2> QED
    BY <1>0, <1>3, <1>4, <1>6, <2>1, <2>2 DEF PartOfLines, LinesAre
<1> QED
  BY <1>5, <1>6

\* CloseText(First) stores the number of tokens on the last line, if there are any.
LEMMA LinesEnd ==
  ASSUME NEW txt \in TextType, NEW size, NEW last, NEW buff, NEW buff2, NEW txt2,
         Toks(txt.file, Len(txt.file)) = size, PartOfLines(txt, last, buff),
         txt2.file = txt.file, txt2.nl_start = txt.nl_start, txt2.nl_limit = Len(buff2),
         \/ /\ Len(buff2) = Len(buff) + 1 /\ buff2[Len(buff) + 1] = size - last
            /\ \A i \in 1..Len(buff) : buff2[i] = buff[i]
         \/ buff2 = buff /\ last = size
  PROVE  ReadLines(txt2, buff2)
<1> DEFINE f == txt.file  e == Eols(f, Len(f))
<1>0. /\ Len(f) \in Nat /\ txt.nl_start \in Nat /\ e \in Nat
      /\ LinesAre(txt, e, buff) /\ Len(buff) = txt.nl_start + e /\ last = UpToLine(f, e)
      /\ size = Toks(f, Len(f)) /\ size \in Nat
  BY FileLength, CountsAreNumbers DEF PartOfLines
<1>1. UpToLine(f, e + 1) = size
  <2>1. e + 1 \in Int /\ e + 1 >= Eols(f, Len(f)) + 1
    BY <1>0
  <2> HIDE DEF f, e
  <2> QED
    BY <1>0, <2>1, UpToLast DEF f
<1> HIDE DEF e
<1>2. CASE buff2 = buff /\ last = size
  <2>1. txt2.nl_limit - txt2.nl_start = e
    BY <1>0, <1>2
  <2>2. LinesAre(txt2, e, buff2) /\ UpToLine(txt2.file, e) = Toks(txt2.file, Len(txt2.file))
    BY <1>0, <1>2 DEF LinesAre
  <2> QED
    BY <1>0, <2>1, <2>2 DEF ReadLines
<1>3. CASE /\ Len(buff2) = Len(buff) + 1 /\ buff2[Len(buff) + 1] = size - last
           /\ \A i \in 1..Len(buff) : buff2[i] = buff[i]
  <2>1. txt2.nl_limit - txt2.nl_start = e + 1
    BY <1>0, <1>3
  <2>2. ASSUME NEW j \in 1..(e + 1)
        PROVE  buff2[txt2.nl_start + j] = UpToLine(f, j) - UpToLine(f, j - 1)
    <3>1. CASE j = e + 1
      <4>1. j - 1 = e /\ txt2.nl_start + j = Len(buff) + 1
        BY <1>0, <3>1
      <4> QED
        BY <1>0, <1>1, <1>3, <3>1, <4>1
    <3>2. CASE j \in 1..e
      <4>1. txt2.nl_start + j \in 1..Len(buff)
        BY <1>0, <3>2
      <4> QED
        BY <1>0, <1>3, <3>2, <4>1 DEF LinesAre
    <3> QED
      BY <1>0, <3>1, <3>2
  <2> QED
    BY <1>0, <1>1, <2>1, <2>2 DEF ReadLines, LinesAre
<1> QED
  BY <1>2, <1>3

\* What store_newline appends to the buffer.
LEMMA StoredIs ==
  ASSUME Buffer, NEW room, StoreNewline(room)
  PROVE  have_nl' =>
           /\ have_nl /\ Len(nl_buff') = Len(nl_buff) + 1
           /\ nl_buff'[Len(nl_buff) + 1] = lex_tk_cnt - last_tk_cnt
           /\ \A i \in 1..Len(nl_buff) : nl_buff'[i] = nl_buff[i]
<1> DEFINE diff == lex_tk_cnt - last_tk_cnt
           kept == have_nl /\ (NlFull => room) /\ diff <= MaxDiff
<1>1. have_nl' = kept /\ nl_buff' = IF kept THEN Append(nl_buff, diff) ELSE <<>>
  BY DEF StoreNewline
<1>2. nl_buff \in Seq(Nat) /\ diff \in Nat
  <2>1. nl_buff \in Seq(0..MaxDiff) /\ 0..MaxDiff \subseteq Nat
    BY DEF Buffer
  <2>2. nl_buff \in Seq(Nat)
    BY <2>1, SeqGrows
  <2> QED
    BY <2>2 DEF Buffer
<1>3. kept => have_nl
  BY Zenon
<1> HIDE DEF kept, diff
<1>4. have_nl' => kept
  BY <1>1, Zenon
<1>5. kept => nl_buff' = Append(nl_buff, diff)
  BY <1>1, Zenon
<1>6. /\ Len(Append(nl_buff, diff)) = Len(nl_buff) + 1
      /\ Append(nl_buff, diff)[Len(nl_buff) + 1] = diff
      /\ \A i \in 1..Len(nl_buff) : Append(nl_buff, diff)[i] = nl_buff[i]
  BY <1>2
<1> QED
  BY <1>3, <1>4, <1>5, <1>6, Zenon DEF diff

\* A text that has been read stays as it is.
LEMMA ReadKept ==
  ASSUME Types, Tiles, Newlines, pc # "fatal" \/ text # 0, FilesAre,
         NEW t \in 1..NumberOfTexts, ~IsOpen(t),
         \A i \in 1..Len(TokenArray) : TokenArray'[i] = TokenArray[i],
         have_nl' => have_nl /\ \A i \in 1..Len(nl_buff) : nl_buff'[i] = nl_buff[i]
  PROVE  ReadText(Text[t], TokenArray') /\ (have_nl' => ReadLines(Text[t], nl_buff'))
<1> DEFINE txt == Text[t]  e == txt.nl_limit - txt.nl_start
<1>0. /\ txt \in TextType /\ txt.start \in Nat /\ txt.limit \in Nat
      /\ txt.nl_start \in Nat /\ txt.nl_limit \in Nat
      /\ txt.start >= 1 /\ txt.limit <= Len(TokenArray) + 1 /\ Len(TokenArray) \in Nat
      /\ txt.start <= txt.limit
  BY Lengths, FileLength DEF Tiles, TextLength
<1>1. TokensAre(txt, txt.limit - txt.start, TokenArray)
  BY DEF FilesAre, ReadText
<1>2. \A i \in 1..(txt.start + (txt.limit - txt.start) - 1) : TokenArray'[i] = TokenArray[i]
  BY <1>0
<1>3. ReadText(txt, TokenArray')
  <2> HIDE DEF txt
  <2> QED
    BY <1>0, <1>1, <1>2, TokensKept DEF ReadText
<1>4. ASSUME have_nl' PROVE ReadLines(txt, nl_buff')
  <2>1. ReadLines(txt, nl_buff) /\ \A i \in 1..Len(nl_buff) : nl_buff'[i] = nl_buff[i]
    BY <1>4 DEF FilesAre
  <2>2. txt.nl_limit <= Len(nl_buff)
    BY <1>4 DEF Newlines
  <2>3. e \in Nat /\ LinesAre(txt, e, nl_buff)
    BY <2>1 DEF ReadLines
  <2>4. \A i \in 1..(txt.nl_start + e) : nl_buff'[i] = nl_buff[i]
    <3>1. txt.nl_start + e = txt.nl_limit
      BY <1>0
    <3>2. nl_buff \in Seq(Int)
      BY DEF Types
    <3>3. Len(nl_buff) \in Nat
      BY <3>2
    <3> QED
      BY <1>0, <2>1, <2>2, <3>1, <3>3
  <2>5. LinesAre(txt, e, nl_buff')
    <3> HIDE DEF txt, e
    <3> QED
      BY <1>0, <2>3, <2>4, LinesKept
  <2> QED
    BY <2>1, <2>5 DEF ReadLines
<1> QED
  BY <1>3, <1>4

\* The other texts when the last one is being read, or is a new one.
LEMMA OthersRead ==
  ASSUME Types, Tiles, Newlines, FilesAre, pc \in {"args", "read"},
         \A i \in 1..Len(TokenArray) : TokenArray'[i] = TokenArray[i],
         have_nl' => have_nl /\ \A i \in 1..Len(nl_buff) : nl_buff'[i] = nl_buff[i],
         NEW last \in Nat, NumberOfTexts' = last, last = NumberOfTexts \/ pc = "args",
         \A t \in 1..NumberOfTexts : t # last => Text'[t] = Text[t],
         last # 0 =>
           /\ pc' = "read" => /\ PartOfText(Text'[last], lex_tk_cnt', TokenArray')
                              /\ have_nl' => PartOfLines(Text'[last], last_tk_cnt', nl_buff')
           /\ pc' # "read" => /\ ReadText(Text'[last], TokenArray')
                              /\ have_nl' => ReadLines(Text'[last], nl_buff'),
         last <= NumberOfTexts + 1
  PROVE  FilesAre'
<1>0. NumberOfTexts \in Nat
  BY Lengths
<1>1. ASSUME NEW t \in 1..last, t # last
      PROVE  ReadText(Text'[t], TokenArray') /\ (have_nl' => ReadLines(Text'[t], nl_buff'))
  <2>1. t \in 1..NumberOfTexts /\ ~IsOpen(t)
    BY <1>0, <1>1 DEF IsOpen
  <2>2. Text'[t] = Text[t]
    BY <1>1, <2>1
  <2>3. pc # "fatal"
    OBVIOUS
  <2> QED
    BY <2>1, <2>2, <2>3, ReadKept
<1> SUFFICES ASSUME NEW t \in 1..last
             PROVE  /\ IsOpen(t)' => /\ PartOfText(Text'[t], lex_tk_cnt', TokenArray')
                                     /\ have_nl' => PartOfLines(Text'[t], last_tk_cnt', nl_buff')
                    /\ ~IsOpen(t)' => /\ ReadText(Text'[t], TokenArray')
                                      /\ have_nl' => ReadLines(Text'[t], nl_buff')
  BY DEF FilesAre
<1>2. IsOpen(t)' <=> pc' = "read" /\ t = last
  BY DEF IsOpen
<1> QED
  BY <1>1, <1>2

\* Every step of Pass 1 leaves what is stored right.
LEMMA Pass1Files ==
  ASSUME IInv, Buffer, Newlines, FilesAre, Pass1, text' = 0
  PROVE  Files'
<1>0. /\ Types /\ Tiles /\ NumberOfTexts \in Nat /\ Len(TokenArray) \in Nat
      /\ TextLength = Len(TokenArray) + 1 /\ TokenArray \in Seq(Tokens)
      /\ nl_buff \in Seq(0..MaxDiff) /\ Len(nl_buff) \in Nat
      /\ lex_tk_cnt \in Nat /\ last_tk_cnt \in Nat
  <2>1. Types /\ Tiles
    BY DEF IInv
  <2>2. nl_buff \in Seq(0..MaxDiff) /\ lex_tk_cnt \in Nat /\ last_tk_cnt \in Nat
    BY DEF Buffer
  <2>3. Len(nl_buff) \in Nat
    BY <2>2
  <2>4. TokenArray \in Seq(Tokens)
    BY <2>1 DEF Types
  <2> QED
    BY <2>1, <2>2, <2>3, <2>4, Lengths DEF TextLength
<1>1. CASE InitOutOfMemory \/ TokensOutOfMemory
  BY <1>1 DEF InitOutOfMemory, TokensOutOfMemory, Files
<1>2. CASE EndArgs
  <2>1. pc = "args" /\ pc' = "table" /\ UNCHANGED <<Text, TokenArray, nl_buff>>
    BY <1>2 DEF EndArgs, textVars
  <2>2. have_nl' => have_nl
    BY <1>2, Zenon DEF EndArgs, textVars
  <2> QED
    BY <2>1, <2>2 DEF Files, FilesAre, IsOpen, NumberOfTexts
\* an empty file, or the empty text of a separator
<1>3. ASSUME NEW txt \in TextType, pc = "args", Text' = Append(Text, txt), TokenArray' = TokenArray,
             nl_buff' = nl_buff, have_nl' => have_nl, txt.file = <<>>,
             txt.start = TextLength, txt.limit = TextLength, txt.nl_limit = 0,
             \/ pc' = "args" /\ txt.nl_start = 0
             \/ pc' = "read" /\ txt.nl_start = Len(nl_buff) /\ lex_tk_cnt' = 0 /\ last_tk_cnt' = 0
      PROVE  Files'
  <2>1. /\ NumberOfTexts' = NumberOfTexts + 1
        /\ \A t \in 1..NumberOfTexts : Text'[t] = Text[t]
        /\ Text'[NumberOfTexts + 1] = txt
    BY <1>0, <1>3, AppendText
  <2>2. Len(txt.file) = 0 /\ Toks(txt.file, 0) = 0 /\ Eols(txt.file, 0) = 0
        /\ UpToLine(txt.file, 0) = 0
    BY <1>3, CountsStart, UpToNone
  <2>3. TokensAre(txt, 0, TokenArray')
    BY <2>2 DEF TokensAre
  <2>4. LinesAre(txt, 0, nl_buff')
    BY DEF LinesAre
  <2>7. /\ NumberOfTexts + 1 \in Nat /\ NumberOfTexts + 1 <= NumberOfTexts + 1
        /\ NumberOfTexts' = NumberOfTexts + 1
        /\ \A t \in 1..NumberOfTexts : t # NumberOfTexts + 1 => Text'[t] = Text[t]
        /\ Text'[NumberOfTexts + 1] = txt
        /\ \A i \in 1..Len(TokenArray) : TokenArray'[i] = TokenArray[i]
        /\ \A i \in 1..Len(nl_buff) : nl_buff'[i] = nl_buff[i]
        /\ pc \in {"args", "read"} /\ Types /\ Tiles
    <3>1. /\ \A i \in 1..Len(TokenArray) : TokenArray'[i] = TokenArray[i]
          /\ \A i \in 1..Len(nl_buff) : nl_buff'[i] = nl_buff[i]
          /\ pc \in {"args", "read"}
      BY <1>3
    <3>2. NumberOfTexts + 1 \in Nat /\ NumberOfTexts + 1 <= NumberOfTexts + 1
      BY <1>0
    <3> QED
      BY <1>0, <2>1, <3>1, <3>2
  <2>5. CASE pc' = "args"
    <3>1. ReadText(txt, TokenArray') /\ ReadLines(txt, nl_buff')
      <4>1. txt.limit - txt.start = 0 /\ txt.nl_limit - txt.nl_start = 0
        BY <1>0, <1>3, <2>5
      <4> QED
        BY <2>2, <2>3, <2>4, <4>1 DEF ReadText, ReadLines
    <3>2. FilesAre'
      BY <1>3, <2>7, <2>5, <3>1, OthersRead
    <3> QED
      BY <3>2 DEF Files
  <2>6. CASE pc' = "read"
    <3>1. PartOfText(txt, lex_tk_cnt', TokenArray') /\ PartOfLines(txt, last_tk_cnt', nl_buff')
      <4>1. Len(TokenArray') + 1 - txt.start = 0 /\ Len(nl_buff') = txt.nl_start + 0
        BY <1>0, <1>3, <2>6
      <4> QED
        BY <1>3, <2>2, <2>3, <2>4, <2>6, <4>1 DEF PartOfText, PartOfLines
    <3>2. FilesAre'
      BY <1>3, <2>7, <2>6, <3>1, OthersRead
    <3> QED
      BY <3>2 DEF Files
  <2> QED
    BY <1>3, <2>5, <2>6
<1>4. CASE Separator
  <2>1. /\ pc = "args" /\ pc' = "args" /\ Text' = Append(Text, NewText)
        /\ UNCHANGED <<TokenArray, nl_buff>>
    BY <1>4 DEF Separator
  <2>2. have_nl' => have_nl
    BY <1>4, Zenon DEF Separator
  <2>3. /\ NewText \in TextType /\ NewText.nl_start = 0 /\ NewText.nl_limit = 0
        /\ NewText.file = <<>> /\ NewText.start = TextLength /\ NewText.limit = TextLength
    BY <1>0 DEF NewText, TextType
  <2> QED
    BY <1>3, <2>1, <2>2, <2>3
<1>5. CASE OpenFile
  <2> DEFINE txt == [NewText EXCEPT !.nl_start = Len(nl_buff)]
  <2>1. /\ pc = "args" /\ pc' = "read" /\ Text' = Append(Text, txt)
        /\ UNCHANGED <<TokenArray, nl_buff>> /\ lex_tk_cnt' = 0 /\ last_tk_cnt' = 0
    BY <1>5 DEF OpenFile
  <2>2. have_nl' => have_nl
    BY <1>5, Zenon DEF OpenFile
  <2>3. /\ txt \in TextType /\ txt.nl_start = Len(nl_buff) /\ txt.nl_limit = 0
        /\ txt.file = <<>> /\ txt.start = TextLength /\ txt.limit = TextLength
    <3>1. /\ NewText \in TextType /\ NewText.nl_limit = 0 /\ NewText.file = <<>>
          /\ NewText.start = TextLength /\ NewText.limit = TextLength
      BY <1>0 DEF NewText, TextType
    <3> QED
      BY <1>0, <3>1 DEF TextType
  <2> HIDE DEF txt
  <2> QED
    BY <1>3, <2>1, <2>2, <2>3
\* the file that is open
<1> DEFINE txt == Text[NumberOfTexts]
<1>6. pc = "read" =>
        /\ NumberOfTexts # 0 /\ txt \in TextType /\ txt.start >= 1
        /\ PartOfText(txt, lex_tk_cnt, TokenArray)
        /\ have_nl => PartOfLines(txt, last_tk_cnt, nl_buff)
  <2>1. ASSUME pc = "read"
        PROVE  /\ NumberOfTexts # 0 /\ txt \in TextType /\ txt.start >= 1
               /\ PartOfText(txt, lex_tk_cnt, TokenArray)
               /\ have_nl => PartOfLines(txt, last_tk_cnt, nl_buff)
    <3>1. NumberOfTexts \in 1..NumberOfTexts
      BY <1>0, <2>1 DEF IInv, Collected
    <3> QED
      BY <1>0, <2>1, <3>1, Lengths DEF FilesAre, IsOpen, Tiles
  <2> QED
    BY <2>1, Zenon
<1> HIDE DEF txt
<1>7. ASSUME NEW txt2 \in TextType, pc = "read", Text' = [Text EXCEPT ![NumberOfTexts] = txt2],
             \A i \in 1..Len(TokenArray) : TokenArray'[i] = TokenArray[i],
             have_nl' => have_nl /\ \A i \in 1..Len(nl_buff) : nl_buff'[i] = nl_buff[i],
             pc' = "read" => /\ PartOfText(txt2, lex_tk_cnt', TokenArray')
                             /\ have_nl' => PartOfLines(txt2, last_tk_cnt', nl_buff'),
             pc' # "read" => /\ ReadText(txt2, TokenArray')
                             /\ have_nl' => ReadLines(txt2, nl_buff')
      PROVE  Files'
  <2>1. /\ NumberOfTexts' = NumberOfTexts
        /\ \A t \in 1..NumberOfTexts : t # NumberOfTexts => Text'[t] = Text[t]
        /\ Text'[NumberOfTexts] = txt2
    BY <1>0, <1>6, <1>7, ChangeText
  <2>2. NumberOfTexts <= NumberOfTexts + 1
    BY <1>0
  <2>3. FilesAre'
    BY <1>0, <1>7, <2>1, <2>2, OthersRead
  <2> QED
    BY <2>3 DEF Files
<1>8. ASSUME NEW tk \in Tokens, ReadToken(tk) PROVE Files'
  <2> DEFINE txt2 == [txt EXCEPT !.file = Append(@, tk)]
  <2>1. /\ pc = "read" /\ pc' = "read" /\ Text' = [Text EXCEPT ![NumberOfTexts] = txt2]
        /\ lex_tk_cnt' = lex_tk_cnt + 1 /\ TokenArray' = Append(TokenArray, tk)
        /\ UNCHANGED <<last_tk_cnt, nl_buff>>
    BY <1>8 DEF ReadToken, txt
  <2>2. have_nl' => have_nl
    BY <1>8, Zenon DEF ReadToken
  <2>3. /\ txt \in TextType /\ txt.start >= 1 /\ PartOfText(txt, lex_tk_cnt, TokenArray)
        /\ have_nl => PartOfLines(txt, last_tk_cnt, nl_buff)
        /\ tk # EOL
    BY <1>6, <2>1, TokensAssumption
  <2>4. txt2 \in TextType /\ GoesOn(txt2, txt, tk)
    <3>1. txt.file \in Seq(Tokens \cup {EOL}) /\ tk \in Tokens \cup {EOL}
      BY <2>3, FileLength
    <3>2. /\ Append(txt.file, tk) \in Seq(Tokens \cup {EOL})
          /\ Continues(Append(txt.file, tk), txt.file, tk)
      BY <3>1 DEF Continues
    <3> QED
      BY <2>3, <3>2 DEF GoesOn, TextType
  <2> HIDE DEF txt2
  <2>5. /\ Len(TokenArray') = Len(TokenArray) + 1 /\ TokenArray'[Len(TokenArray) + 1] = tk
        /\ \A i \in 1..Len(TokenArray) : TokenArray'[i] = TokenArray[i]
    BY <1>0, <2>1
  <2>6. PartOfText(txt2, lex_tk_cnt', TokenArray')
    <3>1. /\ Len(TokenArray) + 1 - txt.start = lex_tk_cnt
          /\ TokensAre(txt, lex_tk_cnt, TokenArray)
          /\ txt.start \in Nat
      BY <2>3, FileLength DEF PartOfText
    <3>2. \A i \in 1..(txt.start + lex_tk_cnt - 1) : TokenArray'[i] = TokenArray[i]
      BY <1>0, <2>5, <3>1
    <3>3. TokensAre(txt, lex_tk_cnt, TokenArray')
      BY <2>3, <3>1, <3>2, TokensKept
    <3>4. TokenArray'[txt.start + lex_tk_cnt] = tk
      <4>1. txt.start + lex_tk_cnt = Len(TokenArray) + 1
        BY <1>0, <3>1
      <4> QED
        BY <2>5, <4>1
    <3>5. TokensAre(txt2, lex_tk_cnt + 1, TokenArray')
      <4>1. TokensAre(txt2, IF tk = EOL THEN lex_tk_cnt ELSE lex_tk_cnt + 1, TokenArray')
        BY <2>3, <2>4, <3>1, <3>3, <3>4, TokensGoOn
      <4> QED
        BY <2>3, <4>1
    <3>6. txt2.start = txt.start
      BY <2>4 DEF GoesOn
    <3>7. Len(TokenArray') + 1 - txt2.start = lex_tk_cnt + 1
      BY <1>0, <2>5, <3>1, <3>6
    <3> QED
      BY <2>1, <3>5, <3>7 DEF PartOfText
  <2>7. have_nl' => PartOfLines(txt2, last_tk_cnt', nl_buff')
    <3>1. ASSUME have_nl PROVE PartOfLines(txt2, last_tk_cnt', nl_buff')
      BY <2>1, <2>3, <2>4, <3>1, LinesGoOn
    <3> QED
      BY <2>2, <3>1, Zenon
  <2>8. have_nl' => have_nl /\ \A i \in 1..Len(nl_buff) : nl_buff'[i] = nl_buff[i]
    BY <2>1, <2>2, Zenon
  <2> QED
    BY <1>7, <2>1, <2>4, <2>5, <2>6, <2>7, <2>8
<1>9. ASSUME NEW room \in BOOLEAN, ReadEol(room) PROVE Files'
  <2> DEFINE txt2 == [txt EXCEPT !.file = Append(@, EOL)]
  <2>1. /\ pc = "read" /\ pc' = "read" /\ Text' = [Text EXCEPT ![NumberOfTexts] = txt2]
        /\ lex_tk_cnt' = lex_tk_cnt /\ last_tk_cnt' = lex_tk_cnt /\ TokenArray' = TokenArray
        /\ StoreNewline(room)
    BY <1>9 DEF ReadEol, txt
  <2>3. /\ txt \in TextType /\ txt.start >= 1 /\ PartOfText(txt, lex_tk_cnt, TokenArray)
        /\ have_nl => PartOfLines(txt, last_tk_cnt, nl_buff)
    BY <1>6, <2>1
  <2>4. txt2 \in TextType /\ GoesOn(txt2, txt, EOL)
    <3>1. txt.file \in Seq(Tokens \cup {EOL}) /\ EOL \in Tokens \cup {EOL}
      BY <2>3, FileLength
    <3>2. /\ Append(txt.file, EOL) \in Seq(Tokens \cup {EOL})
          /\ Continues(Append(txt.file, EOL), txt.file, EOL)
      BY <3>1 DEF Continues
    <3> QED
      BY <2>3, <3>2 DEF GoesOn, TextType
  <2> HIDE DEF txt2
  <2>5. have_nl' =>
           /\ have_nl /\ Len(nl_buff') = Len(nl_buff) + 1
           /\ nl_buff'[Len(nl_buff) + 1] = lex_tk_cnt - last_tk_cnt
           /\ \A i \in 1..Len(nl_buff) : nl_buff'[i] = nl_buff[i]
    BY <2>1, StoredIs
  <2>6. PartOfText(txt2, lex_tk_cnt', TokenArray')
    <3>1. /\ Len(TokenArray) + 1 - txt.start = lex_tk_cnt
          /\ TokensAre(txt, lex_tk_cnt, TokenArray)
      BY <2>3 DEF PartOfText
    <3>2. TokensAre(txt2, lex_tk_cnt, TokenArray)
      <4>1. TokensAre(txt2, IF EOL = EOL THEN lex_tk_cnt ELSE lex_tk_cnt + 1, TokenArray)
        BY <2>3, <2>4, <3>1, TokensGoOn
      <4> QED
        BY <4>1
    <3>3. txt2.start = txt.start
      BY <2>4 DEF GoesOn
    <3> QED
      BY <2>1, <3>1, <3>2, <3>3 DEF PartOfText
  <2>7. have_nl' => PartOfLines(txt2, last_tk_cnt', nl_buff')
    <3>1. ASSUME have_nl' PROVE PartOfLines(txt2, last_tk_cnt', nl_buff')
      <4>1. last_tk_cnt' = Toks(txt.file, Len(txt.file))
        BY <2>1, <2>3 DEF PartOfText, TokensAre
      <4>2. PartOfLines(txt, last_tk_cnt, nl_buff)
        BY <2>3, <2>5, <3>1
      <4>3. /\ Len(nl_buff') = Len(nl_buff) + 1
            /\ nl_buff'[Len(nl_buff) + 1] = last_tk_cnt' - last_tk_cnt
            /\ \A i \in 1..Len(nl_buff) : nl_buff'[i] = nl_buff[i]
        BY <2>1, <2>5, <3>1
      <4> QED
        BY <2>3, <2>4, <4>1, <4>2, <4>3, LinesGoOn
    <3> QED
      BY <3>1
  <2>8. have_nl' => have_nl /\ \A i \in 1..Len(nl_buff) : nl_buff'[i] = nl_buff[i]
    BY <2>5
  <2>9. \A i \in 1..Len(TokenArray) : TokenArray'[i] = TokenArray[i]
    BY <2>1
  <2> QED
    BY <1>7, <2>1, <2>4, <2>6, <2>7, <2>8, <2>9
<1>10. ASSUME NEW room \in BOOLEAN, EndFile(room) PROVE Files'
  <2> DEFINE txt2 == [txt EXCEPT !.limit = TextLength, !.nl_limit = Len(nl_buff')]
  <2>1. /\ pc = "read" /\ pc' = "args" /\ Text' = [Text EXCEPT ![NumberOfTexts] = txt2]
        /\ TokenArray' = TokenArray
        /\ \/ StoreNewline(room)
           \/ last_tk_cnt = lex_tk_cnt /\ UNCHANGED <<have_nl, nl_buff>>
    BY <1>10 DEF EndFile, txt
  <2>3. /\ txt \in TextType /\ txt.start >= 1 /\ PartOfText(txt, lex_tk_cnt, TokenArray)
        /\ have_nl => PartOfLines(txt, last_tk_cnt, nl_buff)
    BY <1>6, <2>1
  <2>5. have_nl' =>
           /\ have_nl
           /\ \/ /\ Len(nl_buff') = Len(nl_buff) + 1
                 /\ nl_buff'[Len(nl_buff) + 1] = lex_tk_cnt - last_tk_cnt
                 /\ \A i \in 1..Len(nl_buff) : nl_buff'[i] = nl_buff[i]
              \/ nl_buff' = nl_buff /\ last_tk_cnt = lex_tk_cnt
    <3>1. CASE StoreNewline(room)
      BY <3>1, StoredIs
    <3>2. CASE last_tk_cnt = lex_tk_cnt /\ UNCHANGED <<have_nl, nl_buff>>
      <4>1. have_nl' => have_nl
        BY <3>2, Zenon
      <4>2. nl_buff' = nl_buff /\ last_tk_cnt = lex_tk_cnt
        BY <3>2, Zenon
      <4> QED
        BY <4>1, <4>2, Zenon
    <3> QED
      BY <2>1, <3>1, <3>2
  <2>6. nl_buff' \in Seq(0..MaxDiff)
    BY <1>0, <2>1, StoresNewline
  <2>4. /\ txt2 \in TextType /\ txt2.file = txt.file /\ txt2.start = txt.start
        /\ txt2.limit = TextLength /\ txt2.nl_start = txt.nl_start
        /\ txt2.nl_limit = Len(nl_buff')
    <3>1. Len(nl_buff') \in Nat /\ TextLength \in Nat
      BY <1>0, <2>6
    <3> QED
      BY <2>3, <3>1 DEF TextType
  <2> HIDE DEF txt2
  <2>7. ReadText(txt2, TokenArray')
    <3>1. TextLength - txt.start = lex_tk_cnt
      <4>1. Len(TokenArray) + 1 - txt.start = lex_tk_cnt
        BY <2>3 DEF PartOfText
      <4>2. txt.start \in Nat
        BY <2>3, FileLength
      <4> QED
        BY <1>0, <4>1, <4>2
    <3>2. TokensAre(txt, lex_tk_cnt, TokenArray)
      BY <2>3 DEF PartOfText
    <3> QED
      BY <2>1, <2>4, <3>1, <3>2 DEF ReadText, TokensAre
  <2>8. have_nl' => ReadLines(txt2, nl_buff')
    <3>1. ASSUME have_nl' PROVE ReadLines(txt2, nl_buff')
      <4>1. Toks(txt.file, Len(txt.file)) = lex_tk_cnt
        BY <2>3 DEF PartOfText, TokensAre
      <4>2. PartOfLines(txt, last_tk_cnt, nl_buff)
        BY <2>3, <2>5, <3>1
      <4>3. \/ /\ Len(nl_buff') = Len(nl_buff) + 1
               /\ nl_buff'[Len(nl_buff) + 1] = lex_tk_cnt - last_tk_cnt
               /\ \A i \in 1..Len(nl_buff) : nl_buff'[i] = nl_buff[i]
            \/ nl_buff' = nl_buff /\ last_tk_cnt = lex_tk_cnt
        BY <2>5, <3>1
      <4> QED
        BY <2>3, <2>4, <4>1, <4>2, <4>3, LinesEnd
    <3> QED
      BY <3>1
  <2>9. have_nl' => have_nl /\ \A i \in 1..Len(nl_buff) : nl_buff'[i] = nl_buff[i]
    BY <2>5
  <2>10. \A i \in 1..Len(TokenArray) : TokenArray'[i] = TokenArray[i]
    BY <2>1
  <2> QED
    BY <1>7, <2>1, <2>4, <2>7, <2>8, <2>9, <2>10
<1> QED
  BY <1>1, <1>2, <1>4, <1>5, <1>8, <1>9, <1>10 DEF Pass1

\* After Pass 1 nothing is read any more.
LEMMA FilesKept ==
  ASSUME Files, UNCHANGED textVars,
         \/ pc' = pc /\ text' = text
         \/ pc # "read" /\ pc' # "read" /\ ~(text = 0 /\ pc = "fatal")
  PROVE  Files'
<1>1. UNCHANGED <<Text, TokenArray, nl_buff, lex_tk_cnt, last_tk_cnt>>
  BY DEF textVars
<1>2. have_nl' => have_nl
  BY Zenon DEF textVars
<1>3. CASE text = 0 /\ pc = "fatal"
  BY <1>3 DEF Files
<1>4. CASE FilesAre /\ pc = "read" /\ pc' = "read"
  BY <1>1, <1>2, <1>4 DEF Files, FilesAre, IsOpen, NumberOfTexts
<1>5. CASE FilesAre /\ pc # "read" /\ pc' # "read"
  BY <1>1, <1>2, <1>5 DEF Files, FilesAre, IsOpen, NumberOfTexts
<1> QED
  BY <1>3, <1>4, <1>5 DEF Files

\* So does every other step.
LEMMA FilesStep ==
  ASSUME EarlyInv \/ LaterInv, AllTypes, Files, [SimNext]_allVars
  PROVE  Files'
<1>1. CASE EarlyInv
  <2>0. Early /\ IInv /\ Buffer /\ Newlines
    BY <1>1 DEF EarlyInv, FInv, AllTypes
  <2>1. [Next]_vars /\ (Early' \/ (CompareDone /\ Later'))
    BY <2>0, EarlyStep
  <2>2. CASE Pass1
    <3>1. pc \in {"args", "read"} /\ ~CompareDone
      BY <2>2 DEF Pass1, InitOutOfMemory, Separator, OpenFile, EndArgs, TokensOutOfMemory,
                  ReadToken, ReadEol, EndFile, CompareDone
    <3>2. FilesAre /\ text' = 0
      BY <2>1, <3>1 DEF Files, Early
    <3> QED
      BY <2>0, <2>2, <3>2, Pass1Files
  <2>3. CASE Match \/ AddRun \/ CompareDone
    <3>1. /\ UNCHANGED textVars /\ pc \notin {"read", "fatal"} /\ pc' # "read"
      BY <2>3 DEF Match, InitHashTable, TableOutOfMemory, Hash1Step, Hash1Done, Hash2Step,
                  Hash2Done, StartRange, NextText, LcsStep, NoRun, RunOutOfMemory, AddRun,
                  CompareDone, LookAt
    <3> QED
      BY <3>1, FilesKept
  <2>4. CASE UNCHANGED vars
    <3>1. UNCHANGED textVars /\ pc' = pc
      BY <2>4 DEF vars
    <3>2. text = 0 /\ (text' = 0 \/ pc = "range")
      BY <2>0, <2>1 DEF Early, CompareDone
    <3> QED
      BY <3>1, <3>2, FilesKept
  <2> QED
    BY <2>1, <2>2, <2>3, <2>4 DEF Next
<1>2. CASE LaterInv
  <2>1. Later /\ Later' /\ UNCHANGED searchVars
    BY <1>2, LaterStep DEF LaterInv
  <2>2. UNCHANGED textVars /\ pc # "read" /\ pc' # "read" /\ text # 0
    BY <2>1 DEF Later, searchVars
  <2> QED
    BY <2>2, FilesKept
<1> QED
  BY <1>1, <1>2

-----------------------------------------------------------------------------
(* The positions of the runs *)

\* The list of each text has all positions in it, each of them once.
PositionLists ==
  /\ NumberOfTexts <= opt.texts
  /\ tx_pos \in [1..opt.texts -> Seq(Positions)]
  /\ \A t \in 1..opt.texts : ToSet(tx_pos[t]) = {p \in Positions : ps_text(p) = t}

\* the set of the elements of a list
LEMMA SetOf ==
  ASSUME NEW S, NEW s \in Seq(S)
  PROVE  ToSet(s) = {s[k] : k \in 1..Len(s)} /\ ToSet(s) \subseteq S
BY DEF ToSet

\* Two elements in front of a list.
LEMMA InFrontOf ==
  ASSUME NEW S, NEW s \in Seq(S), NEW v \in S, NEW w \in S
  PROVE  <<v, w>> \o s \in Seq(S) /\ ToSet(<<v, w>> \o s) = ToSet(s) \cup {v, w}
<1> DEFINE t == <<v, w>> \o s
<1>1. /\ t \in Seq(S) /\ Len(t) = Len(s) + 2 /\ Len(s) \in Nat
      /\ t[1] = v /\ t[2] = w /\ \A k \in 1..Len(s) : t[k + 2] = s[k]
  <2>1. <<v, w>> \in Seq(S) /\ Len(<<v, w>>) = 2 /\ <<v, w>>[1] = v /\ <<v, w>>[2] = w
    OBVIOUS
  <2> QED
    BY <2>1, ConcatProperties
<1> HIDE DEF t
<1>2. ToSet(t) = {t[k] : k \in 1..Len(t)} /\ ToSet(s) = {s[k] : k \in 1..Len(s)}
  BY <1>1, SetOf
<1>3. ASSUME NEW x \in ToSet(t) PROVE x \in ToSet(s) \cup {v, w}
  <2>1. PICK k \in 1..Len(t) : x = t[k]
    BY <1>2
  <2>2. k = 1 \/ k = 2 \/ (k - 2 \in 1..Len(s) /\ k = (k - 2) + 2)
    BY <1>1
  <2> QED
    BY <1>1, <1>2, <2>1, <2>2
<1>4. ASSUME NEW x \in ToSet(s) PROVE x \in ToSet(t)
  <2>1. PICK k \in 1..Len(s) : x = s[k]
    BY <1>2
  <2>2. k + 2 \in 1..Len(t) /\ t[k + 2] = x
    BY <1>1, <2>1
  <2> QED
    BY <1>2, <2>2
<1>5. v \in ToSet(t) /\ w \in ToSet(t)
  <2>1. 1 \in 1..Len(t) /\ 2 \in 1..Len(t)
    BY <1>1
  <2> QED
    BY <1>1, <1>2, <2>1
<1>6. ToSet(t) = ToSet(s) \cup {v, w}
  BY <1>3, <1>4, <1>5
<1> QED
  BY <1>1, <1>6 DEF t

\* The new list of each text has the positions of chunk c of run k if they are in
\* it, and those of the old list.
HasChunk(new, old, e, t, k, c) ==
  \A u \in 1..e : ToSet(new[u])
    = ToSet(old[u]) \cup (IF u = t THEN {<<k, c, 1>>, <<k, c, 0>>} ELSE {})

\* This is what set_chunk does.
LEMMA ChunkIsSet ==
  ASSUME NEW S, NEW e \in Nat, NEW lists \in [1..e -> Seq(S)], NEW t \in 1..e, NEW k, NEW c,
         <<k, c, 0>> \in S, <<k, c, 1>> \in S
  PROVE  /\ set_chunk(lists, t, k, c) \in [1..e -> Seq(S)]
         /\ HasChunk(set_chunk(lists, t, k, c), lists, e, t, k, c)
<1> DEFINE s == <<<<k, c, 1>>, <<k, c, 0>>>> \o lists[t]
<1>1. s \in Seq(S) /\ ToSet(s) = ToSet(lists[t]) \cup {<<k, c, 1>>, <<k, c, 0>>}
  BY InFrontOf
<1>2. set_chunk(lists, t, k, c) = [lists EXCEPT ![t] = s]
  BY DEF set_chunk
<1> HIDE DEF s
<1> QED
  BY <1>1, <1>2 DEF HasChunk

\* A list over a set is one over a larger set.
LEMMA SeqsGrow ==
  ASSUME NEW S, NEW T, S \subseteq T, NEW e \in Nat, NEW lists \in [1..e -> Seq(S)]
  PROVE  lists \in [1..e -> Seq(T)]
<1>1. Seq(S) \subseteq Seq(T)
  BY SeqGrows
<1> QED
  BY <1>1

\* Without a new run the positions stay as they are.
LEMMA PositionsKept ==
  ASSUME PositionLists, opt' = opt, NumberOfTexts' <= opt.texts,
         UNCHANGED <<tx_pos, runs>>
  PROVE  PositionLists'
<1>1. Positions' = Positions /\ \A p : ps_text(p)' = ps_text(p)
  BY DEF Positions, ps_text
<1> QED
  BY <1>1 DEF PositionLists

\* A run has four positions.
LEMMA PositionsGrow ==
  ASSUME Types, Types', RunsGenuine', PositionLists, EnterRun, NEW K, K = Len(runs) + 1
  PROVE  PositionLists'
<1> DEFINE a1 == Run.text0  a2 == Run.text1
           e == opt.texts
           S == Positions'
           l0 == set_chunk(tx_pos, a1, K, 0)
           l1 == set_chunk(l0, a2, K, 1)
<1>1. /\ runs' = Append(runs, Run) /\ tx_pos' = l1 /\ opt' = opt
      /\ NumberOfTexts' = NumberOfTexts /\ NumberOfNewTexts' = NumberOfNewTexts
  BY DEF EnterRun, AddRun, textVars, NumberOfTexts
<1>2. /\ Len(runs) \in Nat /\ Len(runs') = K
      /\ runs'[K] = Run /\ \A k \in 1..Len(runs) : runs'[k] = runs[k]
  <2>1. runs \in Seq(RunType) /\ runs' \in Seq(RunType)
    BY DEF Types
  <2> QED
    BY <1>1, <2>1
<1>3. e \in Nat /\ a1 \in 1..e /\ a2 \in 1..e
  <2>1. Genuine(runs[K])'
    BY <1>2 DEF RunsGenuine
  <2>2. a1 \in 1..NumberOfNewTexts /\ a2 \in a1..NumberOfTexts
    BY <1>1, <1>2, <2>1 DEF Genuine
  <2>3. NumberOfNewTexts \in 0..NumberOfTexts /\ NumberOfTexts \in Nat /\ e \in Nat
    BY Lengths, CommandsAssumption DEF Types
  <2>4. NumberOfTexts <= e
    BY DEF PositionLists
  <2> QED
    BY <2>2, <2>3, <2>4
<1>4. /\ S = Positions \cup ({K} \X {0, 1} \X {0, 1})
      /\ \A p \in Positions : p[1] \in 1..Len(runs)
  <2>1. S = (1..K) \X {0, 1} \X {0, 1} /\ Positions = (1..Len(runs)) \X {0, 1} \X {0, 1}
    BY <1>2 DEF Positions
  <2>2. 1..K = (1..Len(runs)) \cup {K}
    BY <1>2
  <2> HIDE DEF S
  <2> QED
    BY <2>1, <2>2
<1>5. /\ \A p \in Positions : ps_text(p)' = ps_text(p)
      /\ \A d \in {0, 1} : ps_text(<<K, 0, d>>)' = a1 /\ ps_text(<<K, 1, d>>)' = a2
  <2>1. ASSUME NEW p \in Positions PROVE ps_text(p)' = ps_text(p)
    BY <1>2, <1>4 DEF ps_text
  <2>2. ASSUME NEW d \in {0, 1} PROVE ps_text(<<K, 0, d>>)' = a1 /\ ps_text(<<K, 1, d>>)' = a2
    BY <1>2 DEF ps_text
  <2> QED
    BY <2>1, <2>2
<1>6. tx_pos \in [1..e -> Seq(S)]
  <2>1. tx_pos \in [1..e -> Seq(Positions)] /\ Positions \subseteq S
    BY <1>4 DEF PositionLists
  <2> HIDE DEF S, e
  <2> QED
    BY <1>3, <2>1, SeqsGrow
<1>7. <<K, 0, 0>> \in S /\ <<K, 0, 1>> \in S /\ <<K, 1, 0>> \in S /\ <<K, 1, 1>> \in S
  BY <1>4
<1> HIDE DEF S, a1, a2, e
<1>8. /\ l0 \in [1..e -> Seq(S)]
      /\ HasChunk(l0, tx_pos, e, a1, K, 0)
  BY <1>3, <1>6, <1>7, ChunkIsSet, Zenon
<1> HIDE DEF l0
<1>9. /\ l1 \in [1..e -> Seq(S)]
      /\ HasChunk(l1, l0, e, a2, K, 1)
  BY <1>3, <1>7, <1>8, ChunkIsSet, Zenon
<1> HIDE DEF l1
<1>10. ASSUME NEW u \in 1..e PROVE ToSet(l1[u]) = {p \in S : ps_text(p)' = u}
  <2>1. ToSet(tx_pos[u]) = {p \in Positions : ps_text(p) = u}
    BY DEF PositionLists, e
  <2>2. {K} \X {0, 1} \X {0, 1} = {<<K, 0, 1>>, <<K, 0, 0>>} \cup {<<K, 1, 1>>, <<K, 1, 0>>}
    OBVIOUS
  <2>3. S = Positions \cup {<<K, 0, 1>>, <<K, 0, 0>>} \cup {<<K, 1, 1>>, <<K, 1, 0>>}
    BY <1>4, <2>2
  <2>4. \A p \in {<<K, 0, 1>>, <<K, 0, 0>>} : ps_text(p)' = a1
    BY <1>5
  <2>5. \A p \in {<<K, 1, 1>>, <<K, 1, 0>>} : ps_text(p)' = a2
    BY <1>5
  <2>6. ASSUME NEW p \in ToSet(l1[u]) PROVE p \in S /\ ps_text(p)' = u
    <3>1. \/ p \in ToSet(tx_pos[u])
          \/ u = a1 /\ p \in {<<K, 0, 1>>, <<K, 0, 0>>}
          \/ u = a2 /\ p \in {<<K, 1, 1>>, <<K, 1, 0>>}
      BY <1>8, <1>9, <2>6 DEF HasChunk
    <3> QED
      BY <1>5, <2>1, <2>3, <2>4, <2>5, <3>1
  <2>7. ASSUME NEW p \in S, ps_text(p)' = u PROVE p \in ToSet(l1[u])
    <3>1. CASE p \in Positions
      BY <1>5, <1>8, <1>9, <2>1, <2>7, <3>1 DEF HasChunk
    <3>2. CASE p \in {<<K, 0, 1>>, <<K, 0, 0>>}
      BY <1>8, <1>9, <2>4, <2>7, <3>2, SMTT(30) DEF HasChunk
    <3>3. CASE p \in {<<K, 1, 1>>, <<K, 1, 0>>}
      BY <1>9, <2>5, <2>7, <3>3 DEF HasChunk
    <3> QED
      BY <2>3, <3>1, <3>2, <3>3
  <2> QED
    BY <2>6, <2>7
<1>11. NumberOfTexts <= opt.texts
  BY DEF PositionLists
<1> QED
  BY <1>1, <1>9, <1>10, <1>11 DEF PositionLists, S, e

\* At the start there are none.
LEMMA PositionsStart == SimInit => PositionLists
<1> SUFFICES ASSUME SimInit PROVE PositionLists
  OBVIOUS
<1>1. /\ opt.texts \in Nat /\ NumberOfTexts = 0 /\ runs = <<>>
      /\ tx_pos = [t \in 1..opt.texts |-> <<>>]
  BY CommandsAssumption DEF SimInit, Init, InitPass1, InitCompare, NumberOfTexts
<1>2. Positions = {}
  BY <1>1 DEF Positions
<1>3. \A t \in 1..opt.texts : ToSet(tx_pos[t]) = {}
  BY <1>1 DEF ToSet
<1>4. tx_pos \in [1..opt.texts -> Seq(Positions)]
  BY <1>1
<1> QED
  BY <1>1, <1>2, <1>3, <1>4 DEF PositionLists

\* The positions of a text in the order of their tokens.
LEMMA PositionsSorted ==
  ASSUME NEW s \in Seq(Positions), \A p \in Positions : ps_tk_cnt(p) \in Int
  PROVE  /\ sort_pos_list(s) \in Seq(Positions) /\ ToSet(sort_pos_list(s)) = ToSet(s)
         /\ Len(sort_pos_list(s)) = Len(s)
         /\ \A j, k \in 1..Len(s) :
              j < k => ps_tk_cnt(sort_pos_list(s)[j]) <= ps_tk_cnt(sort_pos_list(s)[k])
<1> DEFINE S == ToSet(s)
           before == {e \in S \X S : ps_tk_cnt(e[1]) < ps_tk_cnt(e[2])}
           t == sort_pos_list(s)
<1>1. /\ S \subseteq Positions /\ S = {s[k] : k \in 1..Len(s)} /\ Len(s) \in Nat
  BY SetOf
<1>2. s \in Seq(S)
  <2>1. s \in [1..Len(s) -> Positions]
    OBVIOUS
  <2>2. s \in [1..Len(s) -> S]
    BY <1>1, <2>1
  <2> HIDE DEF S
  <2> QED
    BY <1>1, <2>2
<1>3. \A x, y \in S : <<x, y>> \in before <=> ps_tk_cnt(x) < ps_tk_cnt(y)
  OBVIOUS
<1>4. WeakOrder(S, before)
  <2>1. \A x \in S : ps_tk_cnt(x) \in Int
    BY <1>1
  <2> HIDE DEF before, S
  <2> QED
    BY <1>3, <2>1 DEF WeakOrder
<1>5. t = SortList(s, before)
  BY DEF sort_pos_list
<1> HIDE DEF S, before, t
<1>6. t \in Seq(S) /\ SortedFrom(t, s, before)
  BY <1>2, <1>4, <1>5, Sorts, Zenon
<1>7. PICK f : Through(f, Len(s), t, s)
  BY <1>6 DEF SortedFrom, Permuted
<1>8. Len(t) = Len(s)
  BY <1>6 DEF SortedFrom, Permuted
<1>9. ToSet(t) = {t[k] : k \in 1..Len(t)}
  BY <1>6, SetOf
<1>10. ToSet(t) = S
  <2>1. \A k \in 1..Len(s) : f[k] \in 1..Len(s) /\ t[k] = s[f[k]]
    BY <1>7 DEF Through
  <2>2. \A k \in 1..Len(s) : \E j \in 1..Len(s) : f[j] = k
    BY <1>7 DEF Through
  <2>3. ASSUME NEW x \in ToSet(t) PROVE x \in S
    <3>1. PICK k \in 1..Len(s) : x = t[k]
      BY <1>8, <1>9
    <3> QED
      BY <1>1, <2>1, <3>1
  <2>4. ASSUME NEW x \in S PROVE x \in ToSet(t)
    <3>1. PICK k \in 1..Len(s) : x = s[k]
      BY <1>1
    <3>2. PICK j \in 1..Len(s) : f[j] = k
      BY <2>2
    <3>3. t[j] = x
      BY <2>1, <3>1, <3>2
    <3> QED
      BY <1>8, <1>9, <3>3
  <2> QED
    BY <2>3, <2>4
<1>11. t \in Seq(Positions)
  BY <1>1, <1>6, SeqGrows
<1>12. ASSUME NEW j \in 1..Len(s), NEW k \in 1..Len(s), j < k
       PROVE  ps_tk_cnt(t[j]) <= ps_tk_cnt(t[k])
  <2>1. t[j] \in S /\ t[k] \in S
    BY <1>8, <1>9, <1>10
  <2>2. ~(ps_tk_cnt(t[k]) < ps_tk_cnt(t[j]))
    BY <1>3, <1>6, <1>12, <2>1 DEF SortedFrom
  <2>3. ps_tk_cnt(t[j]) \in Int /\ ps_tk_cnt(t[k]) \in Int
    BY <1>1, <2>1
  <2> QED
    BY <2>2, <2>3
<1> QED
  BY <1>8, <1>10, <1>11, <1>12 DEF t, S

\* Where the positions lie: on tokens of their texts.
LEMMA PositionInText ==
  ASSUME Types, RunsGenuine, NEW p \in Positions
  PROVE  /\ ps_text(p) \in 1..NumberOfTexts
         /\ ps_tk_cnt(p) \in Nat
         /\ ps_tk_cnt(p) < Text[ps_text(p)].limit - Text[ps_text(p)].start
         /\ p[1] \in 1..Len(runs) /\ p[2] \in {0, 1} /\ p[3] \in {0, 1}
         /\ p = <<p[1], p[2], p[3]>>
<1>0. /\ p[1] \in 1..Len(runs) /\ p[2] \in {0, 1} /\ p[3] \in {0, 1}
      /\ p = <<p[1], p[2], p[3]>>
  BY DEF Positions
<1> DEFINE r == runs[p[1]]
<1>1. Genuine(r) /\ r \in RunType
  <2>1. Genuine(runs[p[1]])
    BY <1>0 DEF RunsGenuine
  <2>2. runs \in Seq(RunType)
    BY DEF Types
  <2> QED
    BY <1>0, <2>1, <2>2
<1>2. /\ NumberOfTexts \in Nat /\ NumberOfNewTexts \in 0..NumberOfTexts
      /\ MinRunSize \in Nat \ {0}
  BY Lengths DEF Types
<1>3. /\ r.text0 \in 1..NumberOfNewTexts /\ r.text1 \in r.text0..NumberOfTexts
      /\ r.size >= MinRunSize /\ r.pos0 >= 0 /\ r.pos1 >= 0
      /\ Text[r.text0].start + r.pos0 + r.size <= Text[r.text0].limit
      /\ Text[r.text1].start + r.pos1 + r.size <= Text[r.text1].limit
      /\ r.text0 \in Int /\ r.text1 \in Int /\ r.pos0 \in Int /\ r.pos1 \in Int
      /\ r.size \in Int
  BY <1>1 DEF Genuine, RunType
<1>4. r.text0 \in 1..NumberOfTexts /\ r.text1 \in 1..NumberOfTexts
  BY <1>2, <1>3
<1>5. /\ Text[r.text0].start \in Nat /\ Text[r.text0].limit \in Nat
      /\ Text[r.text1].start \in Nat /\ Text[r.text1].limit \in Nat
  BY <1>4, Lengths DEF TextType
<1>6. ps_text(p) = IF p[2] = 0 THEN r.text0 ELSE r.text1
  BY DEF ps_text
<1>7. ps_tk_cnt(p) = (IF p[2] = 0 THEN r.pos0 ELSE r.pos1) + (IF p[3] = 1 THEN r.size - 1 ELSE 0)
  BY DEF ps_tk_cnt
<1>8. CASE p[2] = 0
  <2>1. ps_text(p) = r.text0 /\ ps_tk_cnt(p) = r.pos0 + (IF p[3] = 1 THEN r.size - 1 ELSE 0)
    BY <1>6, <1>7, <1>8
  <2>2. ps_text(p) \in 1..NumberOfTexts
    BY <1>4, <2>1
  <2> HIDE DEF r
  <2>3. ps_tk_cnt(p) \in Nat /\ ps_tk_cnt(p) < Text[r.text0].limit - Text[r.text0].start
    BY <1>2, <1>3, <1>5, <2>1
  <2> QED
    BY <1>0, <2>1, <2>2, <2>3
<1>9. CASE p[2] # 0
  <2>1. ps_text(p) = r.text1 /\ ps_tk_cnt(p) = r.pos1 + (IF p[3] = 1 THEN r.size - 1 ELSE 0)
    BY <1>6, <1>7, <1>9
  <2>2. ps_text(p) \in 1..NumberOfTexts
    BY <1>4, <2>1
  <2> HIDE DEF r
  <2>3. ps_tk_cnt(p) \in Nat /\ ps_tk_cnt(p) < Text[r.text1].limit - Text[r.text1].start
    BY <1>2, <1>3, <1>5, <2>1
  <2> QED
    BY <1>0, <2>1, <2>2, <2>3
<1> QED
  BY <1>8, <1>9

\* What a step changes of the texts, the runs and their positions.
LEMMA EarlyMoves ==
  ASSUME Early, [SimNext]_allVars
  PROVE  \/ Pass1 /\ UNCHANGED <<hashVars, compareVars>> /\ UNCHANGED runVars
         \/ EnterRun
         \/ UNCHANGED textVars /\ runs' = runs /\ UNCHANGED runVars
<1>1. CASE Match /\ UNCHANGED <<runVars, findVars, showVars>>
  <2>1. UNCHANGED textVars /\ runs' = runs
    BY <1>1 DEF Match, InitHashTable, TableOutOfMemory, Hash1Step, Hash1Done, Hash2Step,
                Hash2Done, StartRange, NextText, LcsStep, NoRun, RunOutOfMemory, compareVars
  <2> QED
    BY <1>1, <2>1
<1>2. CASE StartPass2
  BY <1>2 DEF StartPass2, CompareDone, compareVars
<1>3. CASE UNCHANGED allVars
  BY <1>3 DEF allVars, vars, compareVars
<1>4. pc \notin {"pass2", "lines", "pass3"}
  BY DEF Early
<1> QED
  BY <1>1, <1>2, <1>3, <1>4
  DEF SimNext, Pass2, SkipText, OpenText2, NextLine, NoMoreLines, OnThisLine, CloseText2,
      Pass3, StartPass3, ReportOutOfMemory, ShowRun, Finish, Disappear

\* No step adds a position to the wrong list, or loses one.
LEMMA PositionsStep ==
  ASSUME EarlyInv \/ LaterInv, PositionLists, [SimNext]_allVars
  PROVE  PositionLists'
<1>1. CASE EarlyInv
  <2>0. Early /\ FInv /\ IInv
    BY <1>1 DEF EarlyInv, FInv
  <2>1. [Next]_vars
    BY <2>0, EarlyStep
  <2>2. IInv'
    <3>1. FInv'
      BY <2>0, <2>1, ForwardStep
    <3> QED
      BY <3>1 DEF FInv
  <2>3. CASE EnterRun
    BY <2>0, <2>2, <2>3, PositionsGrow DEF IInv
  <2>4. CASE UNCHANGED textVars /\ runs' = runs /\ UNCHANGED runVars
    <3>1. /\ tx_pos' = tx_pos /\ opt' = opt /\ NumberOfTexts' = NumberOfTexts
          /\ NumberOfTexts <= opt.texts
      BY <2>4 DEF runVars, textVars, NumberOfTexts, PositionLists
    <3> QED
      BY <2>4, <3>1, PositionsKept
  <2>5. CASE Pass1 /\ UNCHANGED <<hashVars, compareVars>> /\ UNCHANGED runVars
    <3>1. tx_pos' = tx_pos /\ runs' = runs
      BY <2>5 DEF runVars, compareVars
    <3>2. opt' = opt
      BY <2>5 DEF Pass1, InitOutOfMemory, Separator, OpenFile, EndArgs, TokensOutOfMemory,
                  ReadToken, ReadEol, EndFile, textVars
    <3>3. /\ NumberOfTexts' \in {NumberOfTexts, NumberOfTexts + 1}
          /\ NumberOfTexts' = NumberOfTexts \/ NumberOfTexts < opt.texts
      <4>1. CASE InitOutOfMemory \/ EndArgs \/ TokensOutOfMemory
        BY <4>1 DEF InitOutOfMemory, EndArgs, TokensOutOfMemory, textVars, NumberOfTexts
      <4>2. CASE Separator \/ OpenFile
        <5>1. NumberOfTexts < opt.texts /\ \E txt : Text' = Append(Text, txt)
          BY <4>2 DEF Separator, OpenFile
        <5>2. Text \in Seq(TextType)
          BY <2>0 DEF IInv, Types
        <5> QED
          BY <5>1, <5>2 DEF NumberOfTexts
      <4>3. CASE \/ \E tk \in Tokens : ReadToken(tk)
                 \/ \E room \in BOOLEAN : ReadEol(room) \/ EndFile(room)
        <5>1. \E txt : Text' = [Text EXCEPT ![NumberOfTexts] = txt]
          BY <4>3 DEF ReadToken, ReadEol, EndFile
        <5>2. Text \in Seq(TextType) /\ Text' \in Seq(TextType)
          BY <2>0, <2>2 DEF IInv, Types
        <5> QED
          BY <5>1, <5>2 DEF NumberOfTexts
      <4> QED
        BY <2>5, <4>1, <4>2, <4>3 DEF Pass1
    <3>4. /\ NumberOfTexts \in Nat /\ opt.texts \in Nat /\ NumberOfTexts <= opt.texts
      BY <2>0, Lengths, CommandsAssumption DEF IInv, Types, PositionLists
    <3>5. NumberOfTexts' <= opt.texts
      BY <3>3, <3>4
    <3> QED
      BY <3>1, <3>2, <3>5, PositionsKept
  <2> QED
    BY <2>0, <2>3, <2>4, <2>5, EarlyMoves
<1>2. CASE LaterInv
  <2>0. Later /\ Found /\ Types /\ RunsGenuine
    BY <1>2 DEF LaterInv, Found
  <2>1. /\ opt' = opt /\ runs' = runs /\ NumberOfTexts' = NumberOfTexts
        /\ NumberOfTexts <= opt.texts
    BY <2>0, LaterStep DEF searchVars, textVars, compareVars, NumberOfTexts, PositionLists
  <2>2. CASE tx_pos' = tx_pos
    BY <2>1, <2>2, PositionsKept
  <2>3. CASE OpenText2
    <3>1. /\ text <= NumberOfTexts /\ tx_pos' = [tx_pos EXCEPT ![text] = sort_pos_list(tx_pos[text])]
      BY <2>3 DEF OpenText2
    <3>2. text \in 1..opt.texts /\ opt.texts \in Nat
      <4>1. NumberOfTexts \in Nat /\ opt.texts \in Nat
        BY <2>0, Lengths, CommandsAssumption DEF Types
      <4> QED
        BY <2>0, <2>1, <3>1, <4>1 DEF Later
    <3>3. \A p \in Positions : ps_tk_cnt(p) \in Int
      BY <2>0, PositionInText
    <3>4. tx_pos[text] \in Seq(Positions)
      BY <3>2 DEF PositionLists
    <3>5. /\ sort_pos_list(tx_pos[text]) \in Seq(Positions)
          /\ ToSet(sort_pos_list(tx_pos[text])) = ToSet(tx_pos[text])
      BY <3>3, <3>4, PositionsSorted, Zenon
    <3>6. tx_pos' \in [1..opt.texts -> Seq(Positions)]
      BY <3>1, <3>2, <3>5 DEF PositionLists
    <3>7. \A t \in 1..opt.texts : ToSet(tx_pos'[t]) = ToSet(tx_pos[t])
      BY <3>1, <3>2, <3>5 DEF PositionLists
    <3>8. Positions' = Positions /\ \A p : ps_text(p)' = ps_text(p)
      BY <2>1 DEF Positions, ps_text
    <3> QED
      BY <2>1, <3>6, <3>7, <3>8 DEF PositionLists
  <2>4. OpenText2 \/ tx_pos' = tx_pos
    BY <2>0, LaterMoves
    DEF runVars, allVars, Pass2, SkipText, OpenText2, NextLine, NoMoreLines, OnThisLine,
        CloseText2, Pass3, StartPass3, ReportOutOfMemory, ShowRun, Finish, Disappear
  <2> QED
    BY <2>2, <2>3, <2>4
<1> QED
  BY <1>1, <1>2

-----------------------------------------------------------------------------
(***************************************************************************)
(* The lines Pass 2 finds                                                  *)
(***************************************************************************)

\* The line ends of text t can be had: from the newline buffer, or from its file,
\* with nothing left of another one before it.
Readable(t) == have_nl \/ (t \notin gone /\ left[t] = 0)

\* the line of a position, and whether it is the last one, without a line end
LineOfPos(p) == LET f == Text[ps_text(p)].file IN LineOf(f, ItemAt(f, ps_tk_cnt(p)))
OnLastLine(p) ==
  LET t == ps_text(p)
  IN  Unterminated(t) /\ LineOfPos(p) = LineOf(Text[t].file, Len(Text[t].file))

\* A position has the line of its token, a last one the line after it.
FilledRight(p) ==
  Readable(ps_text(p)) /\ (have_nl \/ p[3] = 0 \/ ~OnLastLine(p))
    => nl_cnt[p] = LineOfPos(p) + p[3]

\* Pass 2 has read lex_nl_cnt - 1 line ends of the text, and the positions ahead
\* are not before the last line it has read.
AtLine ==
  LET f == Text[text].file
      j == lex_nl_cnt - 1
  IN  /\ j \in Nat /\ old_nl_cnt = (IF j = 0 THEN 1 ELSE j)
      /\ have_nl => nl_next = Text[text].nl_start + j
      /\ ~have_nl => /\ input = f /\ nl_next \in 0..Len(f) /\ Eols(f, nl_next) = j
                     /\ nl_next = 0 \/ f[nl_next] = EOL
      /\ tk_cnt = UpToLine(f, j)
      /\ \A i \in 1..Len(pos) : LineOfPos(pos[i]) >= j

\* It has read on to the end of a file without a last line end.
PastEnd ==
  LET f == Text[text].file
  IN  /\ ~have_nl /\ tk_cnt = Toks(f, Len(f)) /\ old_nl_cnt = lex_nl_cnt
      /\ \A i \in 1..Len(pos) : LineOfPos(pos[i]) = lex_nl_cnt /\ OnLastLine(pos[i])

\* where Pass 2 is in the text
Lines ==
  pc = "lines" =>
    /\ text \in 1..NumberOfTexts
    /\ pos \in Seq({p \in Positions : ps_text(p) = text})
    /\ \A i, k \in 1..Len(pos) : i < k => ps_tk_cnt(pos[i]) <= ps_tk_cnt(pos[k])
    /\ Readable(text) => AtLine \/ PastEnd

\* The positions in the texts that are done, and those in this one that are not
\* ahead, are filled in.
Filled ==
  text # 0 =>
    /\ nl_cnt \in [Positions -> Nat]
    /\ \A p \in Positions :
         ps_text(p) < text \/ (ps_text(p) = text /\ pc = "lines" /\ p \notin ToSet(pos))
           => FilledRight(p)

\* When Pass 3 starts, Pass 2 has been through all texts.
PassOver == pc \in {"pass3", "done"} => text > NumberOfTexts

\* the invariant of Pass 2
FoundLines == Lines /\ Filled /\ PassOver

\* what the other invariants say
Pass1Over == Later /\ Found /\ Files /\ Newlines /\ Buffer /\ Finding /\ PositionLists

\* Every text has been read.
LEMMA TextReady ==
  ASSUME Pass1Over, NEW t \in 1..NumberOfTexts
  PROVE  /\ Text[t] \in TextType /\ Len(Text[t].file) \in Nat
         /\ TokensAre(Text[t], Text[t].limit - Text[t].start, TokenArray)
         /\ have_nl => ReadLines(Text[t], nl_buff) /\ Text[t].nl_limit <= Len(nl_buff)
         /\ Text[t].nl_start \in Nat /\ Text[t].nl_limit \in Nat
<1>1. FilesAre /\ ~IsOpen(t)
  BY DEF Pass1Over, Files, Later, IsOpen
<1>2. Text[t] \in TextType
  BY Lengths DEF Pass1Over, Found
<1>3. Len(Text[t].file) \in Nat /\ Text[t].nl_start \in Nat /\ Text[t].nl_limit \in Nat
  BY <1>2, FileLength
<1>4. have_nl => Text[t].nl_limit <= Len(nl_buff)
  BY DEF Pass1Over, Newlines
<1> QED
  BY <1>1, <1>2, <1>3, <1>4 DEF FilesAre, ReadText

\* Every position has a token and a line in its text.
LEMMA PositionLine ==
  ASSUME Pass1Over, NEW p \in Positions, NEW f, f = Text[ps_text(p)].file
  PROVE  /\ ps_text(p) \in 1..NumberOfTexts /\ ps_tk_cnt(p) \in Nat
         /\ ps_tk_cnt(p) < Toks(f, Len(f)) /\ Toks(f, Len(f)) \in Nat /\ Len(f) \in Nat
         /\ LineOfPos(p) \in Nat \ {0}
         /\ \A j \in Int : LineOfPos(p) <= j <=> ps_tk_cnt(p) < UpToLine(f, j)
         /\ LineOfPos(p) <= Eols(f, Len(f)) + 1
<1>1. /\ ps_text(p) \in 1..NumberOfTexts /\ ps_tk_cnt(p) \in Nat
      /\ ps_tk_cnt(p) < Text[ps_text(p)].limit - Text[ps_text(p)].start
  BY PositionInText DEF Pass1Over, Found
<1>2. /\ Len(f) \in Nat /\ Toks(f, Len(f)) = Text[ps_text(p)].limit - Text[ps_text(p)].start
  BY <1>1, TextReady DEF TokensAre
<1> DEFINE c == ps_tk_cnt(p)  i == ItemAt(f, c)
<1>3. Toks(f, Len(f)) \in Nat /\ Eols(f, Len(f)) \in Nat
  BY <1>2, CountsAreNumbers
<1>4. i \in 1..Len(f) /\ f[i] # EOL /\ Toks(f, i - 1) = c
  BY <1>1, <1>2, <1>3, ItemIs
<1>5. LineOfPos(p) = LineOf(f, i)
  BY DEF LineOfPos
<1> HIDE DEF i
<1>6. LineOf(f, i) \in Nat \ {0}
  <2>1. i \in Nat \ {0} /\ i \in 1..i
    BY <1>4
  <2> QED
    BY <2>1, LinesGrow
<1>7. \A j \in Int : LineOf(f, i) <= j <=> c < UpToLine(f, j)
  BY <1>2, <1>4, UpToToken
<1>8. LineOf(f, i) <= Eols(f, Len(f)) + 1
  <2>1. UpToLine(f, Eols(f, Len(f)) + 1) = Toks(f, Len(f))
    BY <1>2, <1>3, UpToLast
  <2> QED
    BY <1>1, <1>2, <1>3, <1>7, <2>1
<1> QED
  BY <1>1, <1>2, <1>3, <1>5, <1>6, <1>7, <1>8

\* No line end between two items.
LEMMA NoEolBetween ==
  ASSUME NEW f, NEW i \in Nat, NEW k \in Nat, i <= k, \A x \in (i + 1)..k : f[x] # EOL
  PROVE  Eols(f, k) = Eols(f, i) /\ Toks(f, k) = Toks(f, i) + (k - i)
<1>1. {j \in 1..k : f[j] = EOL} = {j \in 1..i : f[j] = EOL}
  OBVIOUS
<1>2. Eols(f, k) = Eols(f, i)
  BY <1>1 DEF Eols
<1>3. /\ Toks(f, k) + Eols(f, k) = k /\ Toks(f, i) + Eols(f, i) = i
      /\ Toks(f, k) \in Nat /\ Toks(f, i) \in Nat /\ Eols(f, k) \in Nat
  BY CountsAdd, CountsAreNumbers
<1> QED
  BY <1>2, <1>3

\* The lines of the positions stay as they are.
LEMMA LinesOfKept ==
  ASSUME UNCHANGED textVars, runs' = runs
  PROVE  /\ Positions' = Positions
         /\ \A p : /\ ps_text(p)' = ps_text(p) /\ ps_tk_cnt(p)' = ps_tk_cnt(p)
                   /\ LineOfPos(p)' = LineOfPos(p) /\ (OnLastLine(p)' <=> OnLastLine(p))
         /\ Text' = Text /\ NumberOfTexts' = NumberOfTexts /\ nl_buff' = nl_buff
         /\ have_nl' <=> have_nl
<1>1. Text' = Text /\ nl_buff' = nl_buff
  BY DEF textVars
<1>2. have_nl' <=> have_nl
  BY Zenon DEF textVars
<1>3. Positions' = Positions /\ \A p : ps_text(p)' = ps_text(p) /\ ps_tk_cnt(p)' = ps_tk_cnt(p)
  BY DEF Positions, ps_text, ps_tk_cnt
<1>4. \A p : LineOfPos(p)' = LineOfPos(p)
  BY <1>1, <1>3 DEF LineOfPos
<1>5. \A p : OnLastLine(p)' <=> OnLastLine(p)
  BY <1>1, <1>3, <1>4 DEF OnLastLine, Unterminated
<1> QED
  BY <1>1, <1>2, <1>3, <1>4, <1>5 DEF NumberOfTexts

-----------------------------------------------------------------------------
\* What is still to be found are positions of this text.
LEMMA PosAre ==
  ASSUME Pass1Over, Lines, pc = "lines", NEW f, f = Text[text].file
  PROVE  /\ text \in 1..NumberOfTexts /\ Len(pos) \in Nat /\ Len(f) \in Nat
         /\ Toks(f, Len(f)) \in Nat /\ Eols(f, Len(f)) \in Nat
         /\ \A i \in 1..Len(pos) :
              /\ pos[i] \in Positions /\ ps_text(pos[i]) = text
              /\ ps_tk_cnt(pos[i]) \in Nat /\ ps_tk_cnt(pos[i]) < Toks(f, Len(f))
              /\ LineOfPos(pos[i]) \in Nat \ {0}
              /\ LineOfPos(pos[i]) <= Eols(f, Len(f)) + 1
              /\ \A j \in Int : LineOfPos(pos[i]) <= j <=> ps_tk_cnt(pos[i]) < UpToLine(f, j)
         /\ pos # <<>> => 1 \in 1..Len(pos)
         /\ lex_nl_cnt \in Nat /\ old_nl_cnt \in Nat /\ tk_cnt \in Nat /\ nl_next \in Nat
<1>1. /\ text \in 1..NumberOfTexts /\ pos \in Seq({p \in Positions : ps_text(p) = text})
  BY DEF Lines
<1>2. Len(f) \in Nat
  BY <1>1, TextReady
<1>3. Toks(f, Len(f)) \in Nat /\ Eols(f, Len(f)) \in Nat
  BY <1>2, CountsAreNumbers
<1>4. \A i \in 1..Len(pos) : pos[i] \in Positions /\ ps_text(pos[i]) = text
  BY <1>1
<1>5. \A i \in 1..Len(pos) :
              /\ ps_tk_cnt(pos[i]) \in Nat /\ ps_tk_cnt(pos[i]) < Toks(f, Len(f))
              /\ LineOfPos(pos[i]) \in Nat \ {0}
              /\ LineOfPos(pos[i]) <= Eols(f, Len(f)) + 1
              /\ \A j \in Int : LineOfPos(pos[i]) <= j <=> ps_tk_cnt(pos[i]) < UpToLine(f, j)
  BY <1>4, PositionLine
<1>6. Len(pos) \in Nat /\ (pos # <<>> => 1 \in 1..Len(pos))
  BY <1>1
<1>7. lex_nl_cnt \in Nat /\ old_nl_cnt \in Nat /\ tk_cnt \in Nat /\ nl_next \in Nat
  BY DEF Pass1Over, Finding
<1> QED
  BY <1>1, <1>2, <1>3, <1>4, <1>5, <1>6, <1>7

\* None of the positions is on a line that has been read.
LEMMA AllAhead ==
  ASSUME Pass1Over, Lines, pc = "lines", pos # <<>>, ps_tk_cnt(pos[1]) >= tk_cnt, Readable(text)
  PROVE  AtLine /\ \A i \in 1..Len(pos) : LineOfPos(pos[i]) >= lex_nl_cnt
<1> DEFINE f == Text[text].file
<1>0. /\ text \in 1..NumberOfTexts /\ Len(pos) \in Nat /\ 1 \in 1..Len(pos)
      /\ \A i \in 1..Len(pos) :
           /\ ps_tk_cnt(pos[i]) \in Nat /\ ps_tk_cnt(pos[i]) < Toks(f, Len(f))
           /\ LineOfPos(pos[i]) \in Nat \ {0}
           /\ \A j \in Int : LineOfPos(pos[i]) <= j <=> ps_tk_cnt(pos[i]) < UpToLine(f, j)
      /\ lex_nl_cnt \in Nat /\ tk_cnt \in Nat /\ Toks(f, Len(f)) \in Nat
  BY PosAre
<1>1. ~PastEnd
  BY <1>0 DEF PastEnd
<1>2. AtLine
  BY <1>1 DEF Lines
<1>3. tk_cnt = UpToLine(f, lex_nl_cnt - 1) /\ lex_nl_cnt - 1 \in Nat
  BY <1>2 DEF AtLine
<1>4. ASSUME NEW i \in 1..Len(pos) PROVE LineOfPos(pos[i]) >= lex_nl_cnt
  <2>1. i = 1 \/ ps_tk_cnt(pos[1]) <= ps_tk_cnt(pos[i])
    BY <1>0 DEF Lines
  <2>2. ps_tk_cnt(pos[i]) \in Nat /\ ps_tk_cnt(pos[1]) \in Nat
    BY <1>0
  <2>3. ~(ps_tk_cnt(pos[i]) < tk_cnt)
    BY <1>0, <2>1, <2>2
  <2>4. lex_nl_cnt - 1 \in Int
    BY <1>3
  <2>5. ~(LineOfPos(pos[i]) <= lex_nl_cnt - 1)
    <3> HIDE DEF f
    <3> QED
      BY <1>0, <1>3, <2>3, <2>4
  <2>6. LineOfPos(pos[i]) \in Nat
    BY <1>0
  <2> QED
    BY <1>0, <2>5, <2>6
<1> QED
  BY <1>2, <1>4

\* After one more line end nothing ahead is before the new line.
LEMMA OnToNextLine ==
  ASSUME Pass1Over, Lines, NextLine, Readable(text)
  PROVE  AtLine'
<1> DEFINE f == Text[text].file  j == lex_nl_cnt - 1
<1>0. /\ pc = "lines" /\ pos # <<>> /\ ps_tk_cnt(pos[1]) >= tk_cnt /\ NextEol
      /\ text' = text /\ pos' = pos /\ gone' = gone /\ runs' = runs /\ input' = input
      /\ old_nl_cnt' = lex_nl_cnt /\ lex_nl_cnt' = lex_nl_cnt + 1 /\ UNCHANGED textVars
  BY DEF NextLine, searchVars, compareVars, showVars
<1>1. /\ text \in 1..NumberOfTexts /\ Len(f) \in Nat
      /\ lex_nl_cnt \in Nat /\ tk_cnt \in Nat /\ nl_next \in Nat
  BY <1>0, PosAre
<1>2. AtLine /\ \A i \in 1..Len(pos) : LineOfPos(pos[i]) >= lex_nl_cnt
  BY <1>0, AllAhead
<1>3. /\ j \in Nat /\ tk_cnt = UpToLine(f, j)
      /\ have_nl => nl_next = Text[text].nl_start + j
      /\ ~have_nl => /\ input = f /\ nl_next \in 0..Len(f) /\ Eols(f, nl_next) = j
                     /\ nl_next = 0 \/ f[nl_next] = EOL
  BY <1>2 DEF AtLine
<1>4. /\ Text' = Text /\ (have_nl' <=> have_nl)
      /\ \A i \in 1..Len(pos) : LineOfPos(pos[i])' = LineOfPos(pos[i])
  BY <1>0, LinesOfKept
<1>5. CASE have_nl
  <2>1. /\ nl_next # Text[text].nl_limit /\ nl_next' = nl_next + 1
        /\ tk_cnt' = tk_cnt + nl_buff[nl_next + 1]
    BY <1>0, <1>5 DEF NextEol
  <2>2. /\ nl_next <= Text[text].nl_limit
        /\ Text[text].nl_limit \in Nat /\ Text[text].nl_start \in Nat
        /\ ReadLines(Text[text], nl_buff)
    BY <1>0, <1>1, <1>5, TextReady DEF Pass1Over, Finding
  <2>3. /\ j + 1 \in 1..(Text[text].nl_limit - Text[text].nl_start)
        /\ nl_next + 1 = Text[text].nl_start + (j + 1) /\ (j + 1) - 1 = j
    BY <1>1, <1>3, <1>5, <2>1, <2>2
  <2>4. nl_buff[nl_next + 1] = UpToLine(f, j + 1) - UpToLine(f, j)
    <3>1. LinesAre(Text[text], Text[text].nl_limit - Text[text].nl_start, nl_buff)
      BY <2>2 DEF ReadLines
    <3> HIDE DEF j
    <3>2. nl_buff[Text[text].nl_start + (j + 1)] = UpToLine(f, j + 1) - UpToLine(f, (j + 1) - 1)
      BY <2>3, <3>1 DEF LinesAre
    <3> QED
      BY <2>3, <3>2
  <2>5. UpToLine(f, j + 1) \in Nat /\ UpToLine(f, j) \in Nat
    <3> HIDE DEF f, j
    <3> QED
      BY <1>1, TokensUpToFinite
  <2>6. tk_cnt' = UpToLine(f, j + 1) /\ nl_next' = Text[text].nl_start + (j + 1)
    BY <1>3, <2>1, <2>3, <2>4, <2>5
  <2> QED
    BY <1>0, <1>1, <1>2, <1>3, <1>4, <1>5, <2>6 DEF AtLine
<1>6. CASE ~have_nl
  <2>1. EolsAhead # {} /\ nl_next' = Min(EolsAhead) /\ tk_cnt' = tk_cnt + nl_next' - nl_next - 1
    BY <1>0, <1>6 DEF NextEol
  <2>2. input = f
    BY <1>3, <1>6
  <2> DEFINE q == nl_next'
  <2>3. q \in (nl_next + 1)..Len(f) /\ f[q] = EOL /\ \A x \in (nl_next + 1)..(q - 1) : f[x] # EOL
    <3>1. EolsAhead = {k \in (nl_next + 1)..Len(f) : f[k] = EOL}
      BY <2>2 DEF EolsAhead
    <3>2. EolsAhead \in SUBSET Nat
      BY <1>1, <3>1
    <3>3. \E x \in EolsAhead : \A y \in EolsAhead : x <= y
      BY <2>1, <3>2, LeastExists
    <3>4. q \in EolsAhead /\ \A y \in EolsAhead : q <= y
      BY <2>1, <3>3, Zenon DEF Min
    <3> HIDE DEF f, q
    <3>5. q \in (nl_next + 1)..Len(f) /\ f[q] = EOL
      BY <3>1, <3>4
    <3>6. ASSUME NEW x \in (nl_next + 1)..(q - 1) PROVE f[x] # EOL
      <4>1. x \in (nl_next + 1)..Len(f) /\ ~(q <= x)
        BY <1>1, <3>5
      <4> QED
        BY <3>1, <3>4, <4>1
    <3> QED
      BY <3>5, <3>6
  <2> HIDE DEF q
  <2>4. q - 1 \in Nat /\ (q - 1) + 1 = q /\ nl_next <= q - 1 /\ q \in 0..Len(f) /\ q \in Nat
    BY <1>1, <2>3
  <2>5. Eols(f, q - 1) = j /\ Toks(f, q - 1) = Toks(f, nl_next) + ((q - 1) - nl_next)
    <3> HIDE DEF f, j
    <3>1. Eols(f, q - 1) = Eols(f, nl_next) /\ Toks(f, q - 1) = Toks(f, nl_next) + ((q - 1) - nl_next)
      BY <1>1, <2>3, <2>4, NoEolBetween
    <3> QED
      BY <1>3, <1>6, <3>1
  <2>6. Eols(f, q) = j + 1 /\ Toks(f, q) = Toks(f, nl_next) + ((q - 1) - nl_next)
    <3> DEFINE z == q - 1
    <3>1. z \in Nat /\ z + 1 = q /\ f[z + 1] = EOL
      BY <2>3, <2>4
    <3> HIDE DEF z, f
    <3>2. Eols(f, z + 1) = Eols(f, z) + 1 /\ Toks(f, z + 1) = Toks(f, z)
      BY <3>1, CountsStep
    <3> QED
      BY <2>5, <3>1, <3>2 DEF z
  <2>7. UpToLine(f, Eols(f, nl_next)) = Toks(f, nl_next) /\ UpToLine(f, Eols(f, q)) = Toks(f, q)
    <3> HIDE DEF f
    <3> QED
      BY <1>1, <1>3, <1>6, <2>3, <2>4, UpToEol
  <2>8. tk_cnt' = UpToLine(f, j + 1)
    <3>1. Toks(f, nl_next) \in Nat /\ tk_cnt' = tk_cnt + q - nl_next - 1
      BY <1>1, <2>1, CountsAreNumbers DEF q
    <3> QED
      BY <1>1, <1>3, <1>6, <2>4, <2>6, <2>7, <3>1
  <2>9. ~have_nl'
    BY <1>4, <1>6, Zenon
  <2>10. nl_next' = q /\ Text[text].file' = f /\ lex_nl_cnt' - 1 = j + 1 /\ input' = f
    BY <1>0, <1>1, <1>4, <2>2 DEF q
  <2>12. \A i \in 1..Len(pos') : LineOfPos(pos[i])' >= lex_nl_cnt' - 1
    BY <1>0, <1>1, <1>2, <1>4
  <2>11. j + 1 \in Nat /\ old_nl_cnt' = (IF j + 1 = 0 THEN 1 ELSE j + 1)
    BY <1>0, <1>1, <1>3
  <2> HIDE DEF f, j
  <2> QED
    BY <2>3, <2>4, <2>6, <2>8, <2>9, <2>10, <2>11, <2>12 DEF AtLine
<1> QED
  BY <1>5, <1>6

\* What a file without another line end has left is its last line.
LEMMA NothingAhead ==
  ASSUME Pass1Over, Lines, pc = "lines", pos # <<>>, ps_tk_cnt(pos[1]) >= tk_cnt, Readable(text),
         IF have_nl THEN nl_next = Text[text].nl_limit ELSE EolsAhead = {},
         NEW f, f = Text[text].file
  PROVE  /\ ~have_nl /\ input = f
         /\ nl_next \in 0..Len(f) /\ tk_cnt = Toks(f, nl_next)
         /\ Toks(f, Len(f)) = tk_cnt + (Len(f) - nl_next)
         /\ \A i \in 1..Len(pos) : LineOfPos(pos[i]) = lex_nl_cnt /\ OnLastLine(pos[i])
<1> DEFINE j == lex_nl_cnt - 1
<1>0. /\ text \in 1..NumberOfTexts /\ Len(pos) \in Nat /\ Len(f) \in Nat /\ 1 \in 1..Len(pos)
      /\ Toks(f, Len(f)) \in Nat /\ Eols(f, Len(f)) \in Nat
      /\ \A i \in 1..Len(pos) :
           /\ ps_text(pos[i]) = text /\ ps_tk_cnt(pos[i]) \in Nat
           /\ ps_tk_cnt(pos[i]) < Toks(f, Len(f)) /\ LineOfPos(pos[i]) \in Nat \ {0}
           /\ LineOfPos(pos[i]) <= Eols(f, Len(f)) + 1
      /\ lex_nl_cnt \in Nat /\ tk_cnt \in Nat /\ nl_next \in Nat
  BY PosAre
<1>1. AtLine /\ \A i \in 1..Len(pos) : LineOfPos(pos[i]) >= lex_nl_cnt
  BY AllAhead
<1>2. /\ j \in Nat /\ tk_cnt = UpToLine(f, j)
      /\ have_nl => nl_next = Text[text].nl_start + j
      /\ ~have_nl => /\ input = f /\ nl_next \in 0..Len(f) /\ Eols(f, nl_next) = j
                     /\ nl_next = 0 \/ f[nl_next] = EOL
  BY <1>1 DEF AtLine
<1>3. tk_cnt # Toks(f, Len(f))
  BY <1>0
<1>4. ~have_nl
  <2> SUFFICES ASSUME have_nl PROVE FALSE
    OBVIOUS
  <2>1. nl_next = Text[text].nl_limit /\ ReadLines(Text[text], nl_buff)
        /\ Text[text].nl_start \in Nat /\ Text[text].nl_limit \in Nat
    BY <1>0, TextReady
  <2>2. j = Text[text].nl_limit - Text[text].nl_start
    BY <1>2, <2>1
  <2>3. UpToLine(f, j) = Toks(f, Len(f))
    BY <2>1, <2>2 DEF ReadLines
  <2> QED
    BY <1>2, <1>3, <2>3
<1>5. input = f /\ EolsAhead = {}
  BY <1>2, <1>4
<1>6. \A x \in (nl_next + 1)..Len(f) : f[x] # EOL
  BY <1>5 DEF EolsAhead
<1>7. /\ nl_next \in 0..Len(f) /\ Eols(f, nl_next) = j
      /\ nl_next = 0 \/ f[nl_next] = EOL
  BY <1>2, <1>4
<1>8. Eols(f, Len(f)) = j /\ Toks(f, Len(f)) = Toks(f, nl_next) + (Len(f) - nl_next)
  <2> HIDE DEF j
  <2>1. nl_next <= Len(f)
    BY <1>0, <1>7
  <2> DEFINE e == Len(f)
  <2>2. e \in Nat /\ nl_next \in Nat /\ nl_next <= e /\ \A x \in (nl_next + 1)..e : f[x] # EOL
    BY <1>0, <1>6, <2>1
  <2> HIDE DEF e
  <2>3. Eols(f, e) = Eols(f, nl_next) /\ Toks(f, e) = Toks(f, nl_next) + (e - nl_next)
    BY <2>2, NoEolBetween
  <2> QED
    BY <1>7, <2>3 DEF e
<1>9. tk_cnt = Toks(f, nl_next)
  BY <1>0, <1>2, <1>7, UpToEol
<1>10. nl_next # Len(f)
  BY <1>0, <1>3, <1>8, <1>9
<1>11. Len(f) \in Nat \ {0} /\ f[Len(f)] # EOL /\ f # <<>>
  BY <1>0, <1>6, <1>7, <1>10
<1>12. LineOf(f, Len(f)) = lex_nl_cnt
  <2> DEFINE z == Len(f) - 1
  <2>1. z \in Nat /\ z + 1 = Len(f)
    BY <1>11
  <2>4. f[z + 1] # EOL
    BY <1>11, <2>1
  <2> HIDE DEF z
  <2>2. Eols(f, z + 1) = Eols(f, z) /\ LineOf(f, z + 1) = Eols(f, z) + 1
    BY <2>1, <2>4, CountsStep, CountsAreNumbers
  <2>3. LineOf(f, Len(f)) = Eols(f, Len(f)) + 1
    BY <2>1, <2>2
  <2> QED
    BY <1>0, <1>8, <2>3
<1>13. ASSUME NEW i \in 1..Len(pos)
       PROVE  LineOfPos(pos[i]) = lex_nl_cnt /\ OnLastLine(pos[i])
  <2>1. LineOfPos(pos[i]) = lex_nl_cnt
    BY <1>0, <1>1, <1>8
  <2>2. Unterminated(text)
    BY <1>11 DEF Unterminated
  <2> QED
    BY <1>0, <1>12, <2>1, <2>2 DEF OnLastLine
<1> QED
  BY <1>4, <1>5, <1>7, <1>8, <1>9, <1>13

\* Fill leaves the other positions and fills in the first one.
LEMMA FillIs ==
  ASSUME nl_cnt \in [Positions -> Nat], NEW S, pos \in Seq(S), S \subseteq Positions, pos # <<>>,
         NEW old \in Nat, NEW new \in Nat, Fill(old, new), runs' = runs
  PROVE  /\ nl_cnt' \in [Positions -> Nat] /\ pos' \in Seq(S) /\ Len(pos') = Len(pos) - 1
         /\ \A i \in 1..Len(pos') : i + 1 \in 1..Len(pos) /\ pos'[i] = pos[i + 1]
         /\ nl_cnt'[pos[1]] = (IF pos[1][3] = 0 THEN old ELSE new)
         /\ \A p \in Positions : p # pos[1] => nl_cnt'[p] = nl_cnt[p]
         /\ \A p : p \notin ToSet(pos') => p = pos[1] \/ p \notin ToSet(pos)
         /\ pos[1] \in Positions /\ Len(pos) \in Nat \ {0}
<1>1. pos[1] \in S /\ pos[1] \in Positions /\ Len(pos) \in Nat \ {0}
  BY ElementOfSeq
<1>2. /\ nl_cnt' = [nl_cnt EXCEPT ![pos[1]] = IF pos[1][3] = 0 THEN old ELSE new]
      /\ pos' = Tail(pos)
  BY DEF Fill
<1>3. /\ nl_cnt' \in [Positions -> Nat]
      /\ nl_cnt'[pos[1]] = (IF pos[1][3] = 0 THEN old ELSE new)
      /\ \A p \in Positions : p # pos[1] => nl_cnt'[p] = nl_cnt[p]
  BY <1>1, <1>2
<1>4. /\ pos' \in Seq(S) /\ Len(pos') = Len(pos) - 1
      /\ \A i \in 1..Len(pos') : i + 1 \in 1..Len(pos) /\ pos'[i] = pos[i + 1]
  BY <1>1, <1>2
<1>5. ASSUME NEW p, p \notin ToSet(pos'), p # pos[1] PROVE p \notin ToSet(pos)
  <2> SUFFICES ASSUME NEW k \in 1..Len(pos), p = pos[k] PROVE FALSE
    BY SetOf
  <2>1. k # 1 /\ k - 1 \in 1..Len(pos') /\ (k - 1) + 1 = k
    BY <1>1, <1>4, <1>5
  <2>2. pos'[k - 1] = p
    BY <1>4, <2>1
  <2>3. pos'[k - 1] \in ToSet(pos')
    BY <1>4, <2>1, SetOf
  <2> QED
    BY <1>5, <2>2, <2>3
<1> QED
  BY <1>1, <1>3, <1>4, <1>5
-----------------------------------------------------------------------------
\* A position that is filled in stays right,
LEMMA FilledRightKept ==
  ASSUME UNCHANGED textVars, runs' = runs, gone \subseteq gone',
         NEW p, nl_cnt'[p] = nl_cnt[p], left'[ps_text(p)] = left[ps_text(p)], FilledRight(p)
  PROVE  FilledRight(p)'
<1>1. Readable(ps_text(p))' => Readable(ps_text(p))
  <2>1. have_nl' => have_nl
    BY LinesOfKept, Zenon
  <2>2. ps_text(p)' = ps_text(p)
    BY LinesOfKept
  <2>3. /\ ps_text(p) \notin gone' => ps_text(p) \notin gone
        /\ left'[ps_text(p)] = left[ps_text(p)]
    OBVIOUS
  <2> QED
    BY <2>1, <2>2, <2>3, Zenon DEF Readable
<1>2. (have_nl' <=> have_nl) /\ (OnLastLine(p)' <=> OnLastLine(p))
  BY LinesOfKept
<1>3. LineOfPos(p)' = LineOfPos(p)
  BY LinesOfKept
<1>4. CASE Readable(ps_text(p)) /\ (have_nl \/ p[3] = 0 \/ ~OnLastLine(p))
  <2>1. nl_cnt[p] = LineOfPos(p) + p[3]
    BY <1>4, Zenon DEF FilledRight
  <2>2. nl_cnt[p]' = LineOfPos(p)' + p[3]
    BY <1>3, <2>1
  <2> QED
    BY <2>2, Zenon DEF FilledRight
<1>5. CASE ~(Readable(ps_text(p)) /\ (have_nl \/ p[3] = 0 \/ ~OnLastLine(p)))
  BY <1>1, <1>2, <1>5, Zenon DEF FilledRight
<1> QED
  BY <1>4, <1>5

\* the positions that are filled in
IsFilled(p) == ps_text(p) < text \/ (ps_text(p) = text /\ pc = "lines" /\ p \notin ToSet(pos))

\* and so do all of them.
LEMMA FilledKept ==
  ASSUME Filled, text # 0, UNCHANGED textVars, runs' = runs, gone \subseteq gone',
         nl_cnt' \in [Positions -> Nat],
         \A p \in Positions : IsFilled(p) => left'[ps_text(p)] = left[ps_text(p)],
         \A p \in Positions : IsFilled(p)' => \/ FilledRight(p)'
                                              \/ nl_cnt'[p] = nl_cnt[p] /\ IsFilled(p)
  PROVE  Filled'
<1>1. Positions' = Positions
  BY LinesOfKept
<1>2. ASSUME NEW p \in Positions, IsFilled(p)' PROVE FilledRight(p)'
  <2>1. CASE nl_cnt'[p] = nl_cnt[p] /\ IsFilled(p)
    <3>1. FilledRight(p)
      BY <2>1 DEF Filled, IsFilled
    <3> QED
      BY <2>1, <3>1, FilledRightKept
  <2> QED
    BY <1>2, <2>1
<1> QED
  BY <1>1, <1>2 DEF Filled, IsFilled

\* What is ahead stays ahead when the first position has been filled in.
LEMMA TailAhead ==
  ASSUME Pass1Over, FoundLines, NEW old \in Nat, NEW new \in Nat, Fill(old, new),
         pc = "lines", pos # <<>>, pc' = pc, text' = text, gone' = gone, left' = left,
         UNCHANGED textVars, runs' = runs,
         NEW p1, p1 = pos[1],
         Readable(text) => FilledRight(p1)' /\ (AtLine' \/ PastEnd')
  PROVE  FoundLines'
<1> DEFINE S == {p \in Positions : ps_text(p) = text}
<1>1. /\ text \in 1..NumberOfTexts /\ pos \in Seq(S) /\ S \subseteq Positions
      /\ nl_cnt \in [Positions -> Nat]
  BY DEF FoundLines, Lines, Filled
<1>2. /\ Positions' = Positions /\ NumberOfTexts' = NumberOfTexts
      /\ \A p : ps_text(p)' = ps_text(p) /\ ps_tk_cnt(p)' = ps_tk_cnt(p)
      /\ have_nl' <=> have_nl
  BY LinesOfKept
<1>3. Readable(text)' => Readable(text)
  BY <1>2, Zenon DEF Readable
<1> HIDE DEF S
<1>4. /\ nl_cnt' \in [Positions -> Nat] /\ pos' \in Seq(S) /\ Len(pos') = Len(pos) - 1
      /\ \A i \in 1..Len(pos') : i + 1 \in 1..Len(pos) /\ pos'[i] = pos[i + 1]
      /\ \A p \in Positions : p # p1 => nl_cnt'[p] = nl_cnt[p]
      /\ \A p : p \notin ToSet(pos') => p = p1 \/ p \notin ToSet(pos)
      /\ p1 \in S /\ Len(pos) \in Nat \ {0}
  <2>1. /\ nl_cnt' \in [Positions -> Nat] /\ pos' \in Seq(S) /\ Len(pos') = Len(pos) - 1
        /\ \A i \in 1..Len(pos') : i + 1 \in 1..Len(pos) /\ pos'[i] = pos[i + 1]
        /\ \A p \in Positions : p # pos[1] => nl_cnt'[p] = nl_cnt[p]
        /\ \A p : p \notin ToSet(pos') => p = pos[1] \/ p \notin ToSet(pos)
        /\ Len(pos) \in Nat \ {0}
    BY <1>1, FillIs, Zenon
  <2>2. pos[1] \in S
    BY <1>1, <2>1, ElementOfSeq
  <2> QED
    BY <2>1, <2>2, Zenon
<1>5. S' = S
  BY <1>2 DEF S
<1>6. \A i, k \in 1..Len(pos') : i < k => ps_tk_cnt(pos[i])' <= ps_tk_cnt(pos[k])'
  <2>1. \A i, k \in 1..Len(pos) : i < k => ps_tk_cnt(pos[i]) <= ps_tk_cnt(pos[k])
    BY DEF FoundLines, Lines
  <2> SUFFICES ASSUME NEW i \in 1..Len(pos'), NEW k \in 1..Len(pos'), i < k
               PROVE  ps_tk_cnt(pos'[i]) <= ps_tk_cnt(pos'[k])
    BY <1>2
  <2>2. i + 1 < k + 1 /\ i + 1 \in 1..Len(pos) /\ k + 1 \in 1..Len(pos)
    BY <1>4
  <2> QED
    BY <1>4, <2>1, <2>2
<1>7. Lines'
  <2>1. Readable(text)' => AtLine' \/ PastEnd'
    BY <1>3
  <2>2. pos' \in Seq({p \in Positions : ps_text(p) = text})'
    BY <1>4, <1>5 DEF S
  <2> QED
    BY <1>1, <1>2, <1>6, <2>1, <2>2 DEF Lines
<1>8. FilledRight(p1)'
  <2>1. ps_text(p1)' = text'
    BY <1>2, <1>4 DEF S
  <2> QED
    BY <1>3, <2>1 DEF FilledRight
<1>9. Filled'
  <2>1. ASSUME NEW p \in Positions, IsFilled(p)', p # p1 PROVE nl_cnt'[p] = nl_cnt[p] /\ IsFilled(p)
    <3>1. nl_cnt'[p] = nl_cnt[p]
      BY <1>4, <2>1
    <3>2. \/ ps_text(p) < text
          \/ ps_text(p) = text /\ p \notin ToSet(pos')
      BY <1>2, <2>1 DEF IsFilled
    <3>3. p \notin ToSet(pos') => p \notin ToSet(pos)
      BY <1>4, <2>1
    <3> QED
      BY <3>1, <3>2, <3>3 DEF IsFilled
  <2>2. text # 0 /\ Filled
    BY <1>1 DEF FoundLines
  <2> QED
    BY <1>4, <1>8, <2>1, <2>2, FilledKept
<1> QED
  BY <1>7, <1>9 DEF FoundLines, PassOver

-----------------------------------------------------------------------------
\* The steps of Pass 2: the next line,
LEMMA NextLineFound ==
  ASSUME Pass1Over, FoundLines, NextLine
  PROVE  FoundLines'
<1>1. /\ pc = "lines" /\ pc' = pc /\ text' = text /\ pos' = pos /\ nl_cnt' = nl_cnt
      /\ gone' = gone /\ left' = left /\ runs' = runs /\ UNCHANGED textVars
  BY DEF NextLine, searchVars, compareVars, showVars
<1>2. /\ Positions' = Positions /\ NumberOfTexts' = NumberOfTexts
      /\ \A p : ps_text(p)' = ps_text(p) /\ ps_tk_cnt(p)' = ps_tk_cnt(p)
      /\ have_nl' <=> have_nl
  BY <1>1, LinesOfKept
<1>3. Readable(text)' => AtLine'
  <2>1. Readable(text)' => Readable(text)
    BY <1>1, <1>2, Zenon DEF Readable
  <2> QED
    BY <2>1, OnToNextLine DEF FoundLines
<1>4. Lines'
  <2>1. pos' \in Seq({p \in Positions : ps_text(p) = text})'
    BY <1>1, <1>2 DEF FoundLines, Lines
  <2>2. \A i, k \in 1..Len(pos') : i < k => ps_tk_cnt(pos[i])' <= ps_tk_cnt(pos[k])'
    BY <1>1, <1>2 DEF FoundLines, Lines
  <2> QED
    BY <1>1, <1>2, <1>3, <2>1, <2>2 DEF FoundLines, Lines
<1>5. Filled'
  <2>1. text # 0 /\ Filled /\ nl_cnt \in [Positions -> Nat]
    BY DEF FoundLines, Filled, Pass1Over, Later
  <2>2. \A p \in Positions : IsFilled(p)' => IsFilled(p)
    BY <1>1, <1>2 DEF IsFilled
  <2> QED
    BY <1>1, <2>1, <2>2, FilledKept
<1> QED
  BY <1>1, <1>4, <1>5 DEF FoundLines, PassOver

\* no more lines,
LEMMA NoMoreLinesFound ==
  ASSUME Pass1Over, FoundLines, NoMoreLines, NEW p1, p1 = pos[1]
  PROVE  FoundLines'
<1> DEFINE f == Text[text].file
<1>1. /\ pc = "lines" /\ pos # <<>> /\ ps_tk_cnt(pos[1]) >= tk_cnt
      /\ pc' = pc /\ text' = text /\ gone' = gone /\ left' = left /\ runs' = runs
      /\ UNCHANGED textVars /\ input' = input
      /\ old_nl_cnt' = lex_nl_cnt /\ lex_nl_cnt' = lex_nl_cnt /\ Fill(lex_nl_cnt, lex_nl_cnt)
  BY DEF NoMoreLines, searchVars, compareVars, showVars
<1>2. IF have_nl THEN nl_next = Text[text].nl_limit
                 ELSE /\ EolsAhead = {} /\ nl_next' = Len(input)
                      /\ tk_cnt' = tk_cnt + nl_next' - nl_next
  BY DEF NoMoreLines
<1>3. /\ Positions' = Positions /\ Text' = Text
      /\ \A p : /\ ps_text(p)' = ps_text(p) /\ LineOfPos(p)' = LineOfPos(p)
                /\ OnLastLine(p)' <=> OnLastLine(p)
      /\ have_nl' <=> have_nl
  BY <1>1, LinesOfKept
<1>4. lex_nl_cnt \in Nat /\ nl_next \in Nat /\ tk_cnt \in Nat
  BY DEF Pass1Over, Finding
<1>5. ASSUME Readable(text) PROVE FilledRight(p1)' /\ PastEnd'
  <2>0. Lines /\ IF have_nl THEN nl_next = Text[text].nl_limit ELSE EolsAhead = {}
    BY <1>2 DEF FoundLines
  <2>1. /\ ~have_nl /\ input = f
        /\ nl_next \in 0..Len(f) /\ tk_cnt = Toks(f, nl_next)
        /\ Toks(f, Len(f)) = tk_cnt + (Len(f) - nl_next)
        /\ \A i \in 1..Len(pos) : LineOfPos(pos[i]) = lex_nl_cnt /\ OnLastLine(pos[i])
    BY <1>1, <1>5, <2>0, NothingAhead
  <2>2. /\ text \in 1..NumberOfTexts /\ Len(f) \in Nat /\ 1 \in 1..Len(pos)
        /\ pos \in Seq({p \in Positions : ps_text(p) = text}) /\ ps_text(p1) = text
    BY <1>1, <2>0, PosAre DEF Lines
  <2>3. p1 \in Positions /\ p1[3] \in {0, 1}
    <3>1. p1 \in {p \in Positions : ps_text(p) = text}
      BY <2>2, ElementOfSeq
    <3> QED
      BY <3>1 DEF Positions
  <2>4. tk_cnt' = Toks(f, Len(f))
    BY <1>2, <1>4, <2>1, <2>2
  <2>5. nl_cnt \in [Positions -> Nat]
    BY <2>2 DEF FoundLines, Filled
  <2>6. pos' = Tail(pos) /\ nl_cnt'[p1] = lex_nl_cnt
    BY <1>1, <2>3, <2>5 DEF Fill
  <2>7. \A i \in 1..Len(pos') : i + 1 \in 1..Len(pos) /\ pos'[i] = pos[i + 1]
    BY <2>2, <2>6, <1>1
  <2>8. \A i \in 1..Len(pos') : LineOfPos(pos'[i]) = lex_nl_cnt /\ OnLastLine(pos'[i])
    BY <2>1, <2>7
  <2>9. ~have_nl'
    BY <1>3, <2>1
  <2>10. Text[text].file' = f
    BY <1>1, <1>3
  <2>11. \A i \in 1..Len(pos') : LineOfPos(pos[i])' = lex_nl_cnt' /\ OnLastLine(pos[i])'
    BY <1>1, <1>3, <2>8
  <2>12. PastEnd'
    BY <1>1, <2>4, <2>9, <2>10, <2>11 DEF PastEnd
  <2>13. FilledRight(p1)'
    <3>1. LineOfPos(p1) = lex_nl_cnt /\ OnLastLine(p1)
      BY <2>1, <2>2
    <3>2. OnLastLine(p1)'
      BY <1>3, <3>1
    <3>3. p1[3] = 0 => (nl_cnt[p1])' = LineOfPos(p1)' + p1[3]
      BY <1>3, <1>4, <2>6, <3>1
    <3> QED
      BY <2>9, <3>2, <3>3, Zenon DEF FilledRight
  <2> QED
    BY <2>12, <2>13
<1> QED
  BY <1>1, <1>4, <1>5, TailAhead

\* and a position on this one.
LEMMA OnThisLineFound ==
  ASSUME Pass1Over, FoundLines, OnThisLine, NEW p1, p1 = pos[1]
  PROVE  FoundLines'
<1> DEFINE f == Text[text].file
<1>1. /\ pc = "lines" /\ pos # <<>> /\ ps_tk_cnt(p1) < tk_cnt
      /\ pc' = pc /\ text' = text /\ gone' = gone /\ left' = left /\ runs' = runs
      /\ UNCHANGED textVars /\ input' = input
      /\ old_nl_cnt' = old_nl_cnt /\ lex_nl_cnt' = lex_nl_cnt /\ Fill(old_nl_cnt, lex_nl_cnt)
      /\ nl_next' = nl_next /\ tk_cnt' = tk_cnt
  BY DEF OnThisLine, searchVars, compareVars, showVars
<1>2. /\ text \in 1..NumberOfTexts /\ Len(f) \in Nat /\ 1 \in 1..Len(pos)
      /\ lex_nl_cnt \in Nat /\ old_nl_cnt \in Nat /\ tk_cnt \in Nat /\ nl_next \in Nat
      /\ \A i \in 1..Len(pos) :
           /\ pos[i] \in Positions /\ ps_text(pos[i]) = text
           /\ ps_tk_cnt(pos[i]) \in Nat /\ LineOfPos(pos[i]) \in Nat \ {0}
           /\ \A j \in Int : LineOfPos(pos[i]) <= j <=> ps_tk_cnt(pos[i]) < UpToLine(f, j)
  BY <1>1, PosAre DEF FoundLines
<1>3. /\ Positions' = Positions /\ Text' = Text
      /\ \A p : /\ ps_text(p)' = ps_text(p) /\ LineOfPos(p)' = LineOfPos(p)
                /\ OnLastLine(p)' <=> OnLastLine(p)
      /\ have_nl' <=> have_nl
  BY <1>1, LinesOfKept
<1>4. /\ p1 \in Positions /\ ps_text(p1) = text /\ LineOfPos(p1) \in Nat /\ p1[3] \in {0, 1}
  <2>1. \A p \in Positions : p[3] \in {0, 1}
    BY DEF Positions
  <2> QED
    BY <1>2, <2>1
<1>5. /\ nl_cnt'[p1] = (IF p1[3] = 0 THEN old_nl_cnt ELSE lex_nl_cnt)
      /\ \A i \in 1..Len(pos') : i + 1 \in 1..Len(pos) /\ pos'[i] = pos[i + 1]
  <2>1. nl_cnt \in [Positions -> Nat] /\ pos \in Seq({p \in Positions : ps_text(p) = text})
    BY <1>1, <1>2 DEF FoundLines, Lines, Filled
  <2>2. pos' = Tail(pos) /\ nl_cnt'[p1] = (IF p1[3] = 0 THEN old_nl_cnt ELSE lex_nl_cnt)
    BY <1>1, <1>4, <2>1 DEF Fill
  <2> QED
    BY <1>1, <2>1, <2>2
<1>6. Text[text].file' = f
  BY <1>1, <1>3
<1>7. ASSUME AtLine PROVE FilledRight(p1)' /\ AtLine'
  <2> DEFINE j == lex_nl_cnt - 1
  <2>1. /\ j \in Nat /\ old_nl_cnt = (IF j = 0 THEN 1 ELSE j) /\ tk_cnt = UpToLine(f, j)
        /\ \A i \in 1..Len(pos) : LineOfPos(pos[i]) >= j
    BY <1>7 DEF AtLine
  <2>2. LineOfPos(p1) = j
    <3>1. LineOfPos(p1) >= j
      BY <1>2, <2>1
    <3>2. j \in Int
      BY <2>1
    <3>3. LineOfPos(p1) <= j <=> ps_tk_cnt(p1) < UpToLine(f, j)
      <4> HIDE DEF f, j
      <4> QED
        BY <1>2, <3>2
    <3> QED
      BY <1>1, <1>4, <2>1, <3>1, <3>3
  <2>3. LineOfPos(p1) # 0
    BY <1>2
  <2>4. nl_cnt'[p1] = LineOfPos(p1) + p1[3]
    BY <1>2, <1>4, <1>5, <2>1, <2>2, <2>3
  <2>5. (nl_cnt[p1])' = LineOfPos(p1)' + p1[3]
    BY <1>3, <2>4
  <2>6. \A i \in 1..Len(pos') : LineOfPos(pos[i])' >= lex_nl_cnt' - 1
    BY <1>1, <1>3, <1>5, <2>1
  <2>7. AtLine'
    <3>1. /\ have_nl => nl_next = Text[text].nl_start + j
          /\ ~have_nl => /\ input = f /\ nl_next \in 0..Len(f) /\ Eols(f, nl_next) = j
                         /\ nl_next = 0 \/ f[nl_next] = EOL
      BY <1>7 DEF AtLine
    <3>2. (have_nl => nl_next = Text[text].nl_start + j)'
      BY <1>1, <1>3, <3>1
    <3>3. (~have_nl => /\ input = f /\ nl_next \in 0..Len(f) /\ Eols(f, nl_next) = j
                       /\ nl_next = 0 \/ f[nl_next] = EOL)'
      BY <1>1, <1>3, <1>6, <3>1
    <3> QED
      BY <1>1, <1>6, <2>1, <2>6, <3>2, <3>3 DEF AtLine
  <2> QED
    BY <2>5, <2>7, Zenon DEF FilledRight
<1>8. ASSUME PastEnd PROVE FilledRight(p1)' /\ PastEnd'
  <2>1. /\ ~have_nl /\ tk_cnt = Toks(f, Len(f)) /\ old_nl_cnt = lex_nl_cnt
        /\ \A i \in 1..Len(pos) : LineOfPos(pos[i]) = lex_nl_cnt /\ OnLastLine(pos[i])
    BY <1>8 DEF PastEnd
  <2>2. ~have_nl'
    BY <1>3, <2>1
  <2>3. LineOfPos(p1) = lex_nl_cnt /\ OnLastLine(p1)
    BY <1>2, <2>1
  <2>4. OnLastLine(p1)'
    BY <1>3, <2>3
  <2>5. p1[3] = 0 => (nl_cnt[p1])' = LineOfPos(p1)' + p1[3]
    BY <1>3, <1>2, <1>5, <2>1, <2>3
  <2>6. FilledRight(p1)'
    BY <2>2, <2>4, <2>5, Zenon DEF FilledRight
  <2>7. \A i \in 1..Len(pos') : LineOfPos(pos[i])' = lex_nl_cnt' /\ OnLastLine(pos[i])'
    BY <1>1, <1>3, <1>5, <2>1
  <2>8. PastEnd'
    BY <1>1, <1>6, <2>1, <2>2, <2>7 DEF PastEnd
  <2> QED
    BY <2>6, <2>8
<1>9. Readable(text) => FilledRight(p1)' /\ (AtLine' \/ PastEnd')
  BY <1>1, <1>7, <1>8 DEF FoundLines, Lines
<1> QED
  BY <1>1, <1>2, <1>9, TailAhead

\* OpenText(Second) sorts the positions, so the first one is on the first lines.
LEMMA OpenText2Found ==
  ASSUME Pass1Over, FoundLines, OpenText2
  PROVE  FoundLines'
<1> DEFINE f == Text[text].file  new == sort_pos_list(tx_pos[text])
           S == {p \in Positions : ps_text(p) = text}
<1>1. /\ pc = "pass2" /\ pc' = "lines" /\ text' = text /\ text <= NumberOfTexts
      /\ tx_pos' = [tx_pos EXCEPT ![text] = new] /\ pos' = tx_pos'[text]
      /\ lex_nl_cnt' = 1 /\ old_nl_cnt' = 1 /\ tk_cnt' = 0
      /\ nl_cnt' = nl_cnt /\ gone' = gone /\ runs' = runs /\ UNCHANGED textVars
  BY DEF OpenText2, searchVars, compareVars, showVars
<1>2. /\ Positions' = Positions /\ Text' = Text /\ NumberOfTexts' = NumberOfTexts
      /\ \A p : /\ ps_text(p)' = ps_text(p) /\ LineOfPos(p)' = LineOfPos(p)
                /\ ps_tk_cnt(p)' = ps_tk_cnt(p)
      /\ have_nl' <=> have_nl
  BY <1>1, LinesOfKept
<1>3. text \in 1..NumberOfTexts /\ text \in 1..opt.texts /\ text # 0
  <2>1. NumberOfTexts \in Nat /\ opt.texts \in Nat
    BY Lengths, CommandsAssumption DEF Pass1Over, Found, Types
  <2> QED
    BY <1>1, <2>1 DEF Pass1Over, Later, PositionLists
<1>4. /\ tx_pos[text] \in Seq(Positions) /\ ToSet(tx_pos[text]) = S
      /\ tx_pos \in [1..opt.texts -> Seq(Positions)]
  BY <1>3 DEF Pass1Over, PositionLists
<1>5. \A p \in Positions : /\ ps_tk_cnt(p) \in Int /\ LineOfPos(p) \in Nat
  BY PositionLine
<1>6. /\ new \in Seq(Positions) /\ ToSet(new) = ToSet(tx_pos[text])
      /\ Len(new) = Len(tx_pos[text])
      /\ \A j, k \in 1..Len(tx_pos[text]) : j < k => ps_tk_cnt(new[j]) <= ps_tk_cnt(new[k])
  BY <1>4, <1>5, PositionsSorted, Zenon
<1> HIDE DEF new, S
<1>7. pos' = new
  BY <1>1, <1>3, <1>4
<1>8. new \in Seq(S) /\ \A i \in 1..Len(new) : new[i] \in S
  <2>1. \A i \in 1..Len(new) : new[i] \in S
    BY <1>4, <1>6, SetOf
  <2> QED
    BY <1>6, <2>1
<1>12. \A x \in 1..opt.texts : x # text => left'[x] = left[x]
  <2>1. left \in [1..opt.texts -> Nat] /\ (left' = left \/ \E c : left' = [left EXCEPT ![text] = c])
    BY DEF OpenText2, Pass1Over, Finding
  <2> QED
    BY <2>1
<1>13. ASSUME ~have_nl
       PROVE  nl_next' = 0 /\ (Readable(text)' => input' = f)
  <2>1. PICK rest \in Buffered : /\ input' \in Scanned(rest, FileNow(text))
                                 /\ left' = [left EXCEPT ![text] = Len(rest)]
                                 /\ nl_next' = 0
    BY <1>13 DEF OpenText2
  <2>2. Text[text] \in TextType
    BY <1>3, TextReady
  <2>3. f \in Seq(Tokens \cup {EOL})
    BY <2>2, FileLength
  <2>4. FileNow(text) \in Seq(Tokens \cup {EOL}) /\ (text \notin gone => FileNow(text) = f)
    BY <2>3 DEF FileNow
  <2>5. Len(rest) = 0 => input' = FileNow(text)
    <3> DEFINE now == FileNow(text)
    <3>1. input \in Seq(Tokens \cup {EOL}) /\ nl_next \in Nat
      BY DEF Pass1Over, Finding
    <3>2. now \in Seq(Tokens \cup {EOL}) /\ input' \in Scanned(rest, now)
      BY <2>1, <2>4
    <3> HIDE DEF now
    <3>3. Len(rest) = 0 => input' = now
      BY <3>1, <3>2, ScannedIs
    <3> QED
      BY <3>3 DEF now
  <2>6. left'[text] = Len(rest)
    <3>1. left \in [1..opt.texts -> Nat]
      BY DEF Pass1Over, Finding
    <3> QED
      BY <1>3, <2>1, <3>1
  <2>7. Readable(text)' => text \notin gone /\ left'[text] = 0
    <3>1. ~have_nl'
      BY <1>2, <1>13, Zenon
    <3> QED
      BY <1>1, <3>1 DEF Readable
  <2> HIDE DEF f
  <2> QED
    BY <2>1, <2>4, <2>5, <2>6, <2>7
<1>9. ASSUME Readable(text)' PROVE AtLine'
  <2>1. Len(f) \in Nat
    BY <1>3, TextReady
  <2>2. UpToLine(f, 0) = 0 /\ Eols(f, 0) = 0
    <3> HIDE DEF f
    <3> QED
      BY <2>1, UpToNone, CountsStart
  <2>3. Text[text].file' = f /\ lex_nl_cnt' - 1 = 0
    BY <1>1, <1>2
  <2>4. \A i \in 1..Len(pos') : LineOfPos(pos[i])' >= 0
    BY <1>2, <1>5, <1>7, <1>8 DEF S
  <2>5. have_nl' => nl_next' = Text'[text].nl_start + 0
    <3>1. have_nl => nl_next' = Text[text].nl_start /\ Text[text].nl_start \in Nat
      BY <1>3, TextReady DEF OpenText2
    <3> QED
      BY <1>2, <3>1
  <2>6. ~have_nl' => nl_next' = 0 /\ input' = f
    BY <1>2, <1>9, <1>13
  <2> HIDE DEF f
  <2> QED
    BY <1>1, <2>1, <2>2, <2>3, <2>4, <2>5, <2>6 DEF AtLine
<1>10. Lines'
  <2>1. S' = S
    BY <1>1, <1>2 DEF S
  <2>2. pos' \in Seq({p \in Positions : ps_text(p) = text})'
    BY <1>7, <1>8, <2>1 DEF S
  <2>3. \A i, k \in 1..Len(pos') : i < k => ps_tk_cnt(pos[i])' <= ps_tk_cnt(pos[k])'
    BY <1>2, <1>6, <1>7
  <2> QED
    <3>1. (Readable(text) => AtLine)'
      BY <1>9
    <3> QED
      BY <1>1, <1>2, <1>3, <2>2, <2>3, <3>1 DEF Lines
<1>11. Filled'
  <2>1. Filled /\ nl_cnt \in [Positions -> Nat]
    BY <1>3 DEF FoundLines, Filled
  <2>2. ASSUME NEW p \in Positions, IsFilled(p)' PROVE IsFilled(p)
    <3>1. ps_text(p) = text => p \in ToSet(pos')
      BY <1>4, <1>6, <1>7, <2>2 DEF S
    <3> QED
      BY <1>1, <1>2, <2>2, <3>1 DEF IsFilled
  <2> QED
    <3>1. ASSUME NEW p \in Positions, IsFilled(p) PROVE left'[ps_text(p)] = left[ps_text(p)]
      <4>1. ps_text(p) \in 1..NumberOfTexts /\ NumberOfTexts \in Nat /\ opt.texts \in Nat
            /\ NumberOfTexts <= opt.texts
        BY PositionLine, Lengths, CommandsAssumption DEF Pass1Over, Found, Types, PositionLists
      <4>2. ps_text(p) < text
        BY <1>1, <3>1 DEF IsFilled
      <4>3. ps_text(p) \in 1..opt.texts /\ ps_text(p) # text
        BY <1>3, <4>1, <4>2
      <4> QED
        BY <1>12, <4>3
    <3> QED
      BY <1>1, <1>3, <2>1, <2>2, <3>1, FilledKept
<1> QED
  BY <1>1, <1>10, <1>11 DEF FoundLines, PassOver

\* the steps that read no lines
LEMMA OthersFound ==
  ASSUME Pass1Over, FoundLines,
         SkipText \/ CloseText2 \/ Pass3 \/ (\E t \in 1..NumberOfTexts : Disappear(t))
           \/ UNCHANGED allVars
  PROVE  FoundLines'
<1>1. /\ runs' = runs /\ UNCHANGED textVars /\ nl_cnt' = nl_cnt /\ gone \subseteq gone'
      /\ left' = left
      /\ \/ pc = "pass2" /\ pc' = pc /\ text' = text + 1 /\ text <= NumberOfTexts
            /\ tx_pos[text] = <<>>
         \/ pc = "lines" /\ pc' = "pass2" /\ text' = text + 1 /\ pos = <<>>
         \/ text' = text /\ pc' # "lines" /\ (pc = "lines" => pc' = "fatal")
            /\ (pc' \in {"pass3", "done"} => pc \in {"pass3", "done"} \/ text > NumberOfTexts)
         \/ UNCHANGED allVars
  <2>1. CASE SkipText
    BY <2>1 DEF SkipText, searchVars, compareVars, showVars
  <2>2. CASE CloseText2
    BY <2>2 DEF CloseText2, searchVars, compareVars, showVars
  <2>3. CASE Pass3
    BY <2>3 DEF Pass3, StartPass3, ReportOutOfMemory, ShowRun, Finish, searchVars, compareVars,
                findVars, showVars
  <2>4. CASE \E t \in 1..NumberOfTexts : Disappear(t)
    BY <2>4 DEF Disappear, searchVars, compareVars, findVars
  <2>5. CASE UNCHANGED allVars
    BY <2>5 DEF allVars, vars, compareVars, findVars, showVars
  <2> QED
    BY <2>1, <2>2, <2>3, <2>4, <2>5
<1>2. /\ Positions' = Positions /\ NumberOfTexts' = NumberOfTexts
      /\ \A p : ps_text(p)' = ps_text(p)
  BY <1>1, LinesOfKept
<1>3. text \in Nat \ {0} /\ nl_cnt \in [Positions -> Nat] /\ Filled
  BY DEF Pass1Over, Later, FoundLines, Filled
<1>4. ASSUME NEW p \in Positions PROVE ps_text(p) \in Nat
  <2>1. ps_text(p) \in 1..NumberOfTexts
    BY PositionLine
  <2> QED
    BY <2>1
<1>5. CASE text' = text + 1
  <2>1. ASSUME NEW p \in Positions, IsFilled(p)' PROVE IsFilled(p)
    <3>1. pc' = "pass2"
      BY <1>1, <1>3, <1>5 DEF allVars, findVars
    <3>2. ps_text(p) < text \/ ps_text(p) = text
      BY <1>2, <1>3, <1>4, <1>5, <2>1, <3>1 DEF IsFilled
    <3>3. CASE pc = "lines" /\ pos = <<>>
      <4>1. p \notin ToSet(pos)
        BY <3>3 DEF ToSet
      <4> QED
        BY <3>2, <3>3, <4>1 DEF IsFilled
    <3>4. CASE pc = "pass2" /\ text <= NumberOfTexts /\ tx_pos[text] = <<>>
      <4>1. text \in 1..opt.texts
        <5>1. NumberOfTexts \in Nat /\ opt.texts \in Nat
          BY Lengths, CommandsAssumption DEF Pass1Over, Found, Types
        <5> QED
          BY <1>3, <3>4, <5>1 DEF Pass1Over, PositionLists
      <4>2. ToSet(tx_pos[text]) = {q \in Positions : ps_text(q) = text}
        BY <4>1 DEF Pass1Over, PositionLists
      <4>3. ps_text(p) # text
        BY <3>4, <4>2 DEF ToSet
      <4> QED
        BY <3>2, <4>3 DEF IsFilled
    <3> QED
      BY <1>1, <1>3, <1>5, <3>3, <3>4 DEF allVars, findVars
  <2>2. pc' = "pass2"
    BY <1>1, <1>3, <1>5 DEF allVars, findVars
  <2>3. Filled'
    BY <1>1, <1>3, <2>1, FilledKept
  <2> QED
    BY <2>2, <2>3 DEF FoundLines, Lines, PassOver
<1>6. CASE text' = text /\ pc' # "lines" /\ (pc = "lines" => pc' = "fatal")
            /\ (pc' \in {"pass3", "done"} => pc \in {"pass3", "done"} \/ text > NumberOfTexts)
  <2>1. \A p \in Positions : IsFilled(p)' => IsFilled(p)
    BY <1>2, <1>6 DEF IsFilled
  <2>2. Filled'
    BY <1>1, <1>3, <2>1, FilledKept
  <2>3. PassOver'
    BY <1>2, <1>6 DEF FoundLines, PassOver
  <2> QED
    BY <1>6, <2>2, <2>3 DEF FoundLines, Lines
<1>7. CASE UNCHANGED allVars
  <2>1. /\ pc' = pc /\ text' = text /\ pos' = pos /\ gone' = gone /\ nl_next' = nl_next
        /\ left' = left /\ input' = input /\ tk_cnt' = tk_cnt /\ old_nl_cnt' = old_nl_cnt /\ lex_nl_cnt' = lex_nl_cnt
    BY <1>7 DEF allVars, vars, findVars, showVars
  <2>2. /\ Text' = Text
        /\ \A p : /\ ps_tk_cnt(p)' = ps_tk_cnt(p) /\ LineOfPos(p)' = LineOfPos(p)
                  /\ OnLastLine(p)' <=> OnLastLine(p)
        /\ have_nl' <=> have_nl
    BY <1>1, LinesOfKept
  <2>3. Readable(text)' => Readable(text)
    BY <2>1, <2>2, Zenon DEF Readable
  <2>4. AtLine => AtLine'
    <3> SUFFICES ASSUME AtLine PROVE AtLine'
      OBVIOUS
    <3>1. (have_nl => nl_next = Text[text].nl_start + (lex_nl_cnt - 1))'
      BY <2>1, <2>2 DEF AtLine
    <3>2. (~have_nl => /\ input = Text[text].file /\ nl_next \in 0..Len(Text[text].file)
                       /\ Eols(Text[text].file, nl_next) = lex_nl_cnt - 1
                       /\ nl_next = 0 \/ Text[text].file[nl_next] = EOL)'
      BY <2>1, <2>2 DEF AtLine
    <3>3. \A i \in 1..Len(pos') : LineOfPos(pos[i])' >= lex_nl_cnt' - 1
      <4>1. \A i \in 1..Len(pos) : LineOfPos(pos[i]) >= lex_nl_cnt - 1
        BY DEF AtLine
      <4> QED
        BY <2>1, <2>2, <4>1
    <3> QED
      BY <2>1, <2>2, <3>1, <3>2, <3>3 DEF AtLine
  <2>5. PastEnd => PastEnd'
    <3> SUFFICES ASSUME PastEnd PROVE PastEnd'
      OBVIOUS
    <3>1. ~have_nl'
      BY <2>2 DEF PastEnd
    <3>2. \A i \in 1..Len(pos') : LineOfPos(pos[i])' = lex_nl_cnt' /\ OnLastLine(pos[i])'
      BY <2>1, <2>2 DEF PastEnd
    <3> QED
      BY <2>1, <2>2, <3>1, <3>2 DEF PastEnd
  <2>6. Lines'
    <3> SUFFICES ASSUME pc = "lines" PROVE Lines'
      BY <2>1 DEF Lines
    <3>1. (pos \in Seq({p \in Positions : ps_text(p) = text}))' <=>
            pos \in Seq({p \in Positions : ps_text(p) = text})
      BY <1>2, <2>1
    <3>2. \A i, k \in 1..Len(pos') :
            i < k => ps_tk_cnt(pos[i])' <= ps_tk_cnt(pos[k])'
      <4>1. \A i, k \in 1..Len(pos) : i < k => ps_tk_cnt(pos[i]) <= ps_tk_cnt(pos[k])
        BY DEF FoundLines, Lines
      <4> QED
        BY <2>1, <2>2, <4>1
    <3> QED
      BY <1>2, <2>1, <2>3, <2>4, <2>5, <3>1, <3>2 DEF FoundLines, Lines
  <2>7. \A p \in Positions : IsFilled(p)' => IsFilled(p)
    BY <1>2, <2>1 DEF IsFilled
  <2>8. Filled'
    BY <1>1, <1>3, <2>7, FilledKept
  <2> QED
    BY <1>2, <2>1, <2>6, <2>8 DEF FoundLines, PassOver
<1> QED
  BY <1>1, <1>5, <1>6, <1>7

\* Every position is in one of the texts.
PositionsInTexts ==
  Types /\ RunsGenuine => \A p \in Positions : ps_text(p) \in 1..NumberOfTexts

LEMMA PositionsAreInTexts == PositionsInTexts
BY PositionInText DEF PositionsInTexts

LEMMA PositionsWillBeInTexts == PositionsInTexts'
BY PositionsAreInTexts, PTL

\* The start of Pass 2 has filled in nothing.
LEMMA FoundStart ==
  ASSUME EarlyInv, [SimNext]_allVars
  PROVE  FoundLines'
<1>1. Early /\ FInv
  BY DEF EarlyInv
<1>2. CASE Early'
  BY <1>2 DEF Early, FoundLines, Lines, Filled, PassOver
<1>3. CASE CompareDone /\ Later'
  <2>1. Found'
    BY <1>1, <1>3, SearchEnds
  <2>2. StartPass2
    <3>1. pc = "range" /\ n > NumberOfNewTexts /\ pc' # pc
      BY <1>3 DEF CompareDone
    <3>2. ~(UNCHANGED allVars)
      BY <3>1 DEF allVars, vars
    <3>3. ~(AddRun)
      BY <3>1 DEF AddRun
    <3>4. text' # 0
      BY <1>3 DEF Later
    <3>5. text = 0
      BY <1>1 DEF Early
    <3> QED
      BY <3>1, <3>2, <3>3, <3>4, <3>5
      DEF SimNext, EnterRun, findVars, Pass2, SkipText, OpenText2, NextLine, NoMoreLines,
          OnThisLine, CloseText2, Pass3, StartPass3, ReportOutOfMemory, ShowRun, Finish,
          Disappear
  <2>3. /\ text' = 1 /\ nl_cnt' = [p \in Positions |-> 0] /\ pc' = "pass2" /\ runs' = runs
    BY <2>2 DEF StartPass2, CompareDone, compareVars
  <2>4. Positions' = Positions
    BY <2>3 DEF Positions
  <2>5. \A p \in Positions : ps_text(p)' \in Int /\ ps_text(p)' >= 1
    <3>1. \A p \in Positions' : ps_text(p)' \in 1..NumberOfTexts'
      <4>1. Types' /\ RunsGenuine'
        BY <2>1 DEF Found
      <4> QED
        BY <4>1, PositionsWillBeInTexts DEF PositionsInTexts
    <3> QED
      BY <2>4, <3>1
  <2>6. Filled'
    BY <2>3, <2>4, <2>5 DEF Filled
  <2> QED
    BY <2>3, <2>6 DEF FoundLines, Lines, PassOver
<1> QED
  BY <1>1, <1>2, <1>3, EarlyStep

\* Every step of the program keeps what Pass 2 has found.
LEMMA FoundStep ==
  ASSUME EarlyInv \/ LaterInv, AllTypes, Files, PositionLists, FoundLines, [SimNext]_allVars
  PROVE  FoundLines'
<1>1. CASE EarlyInv
  BY <1>1, FoundStart
<1>2. CASE LaterInv
  <2>1. Pass1Over
    BY <1>2 DEF LaterInv, AllTypes, Pass1Over
  <2>2. Later
    BY <1>2 DEF LaterInv
  <2> QED
    BY <2>1, <2>2, LaterMoves, NextLineFound, NoMoreLinesFound, OnThisLineFound,
       OpenText2Found, OthersFound DEF Pass2
<1> QED
  BY <1>1, <1>2

\* The entries of a report without percentages.
Shows ==
  ~option_set("p") => \A k \in 1..Len(report) :
    /\ report[k].run \in 1..Len(runs)
    /\ ChunkExact(report[k].run, 0, report[k].left)
    /\ ChunkExact(report[k].run, 1, report[k].right)

\* What show_run shows of a chunk is right.
LEMMA ChunkShown ==
  ASSUME Pass1Over, FoundLines, pc = "pass3", NEW k \in 1..Len(runs), NEW c \in {0, 1}
  PROVE  ChunkExact(k, c, Shown(k, c))
<1> DEFINE p0 == <<k, c, 0>>  p1 == <<k, c, 1>>  t == ps_text(p0)
           file == Text[t].file  from == ps_tk_cnt(p0)
           lastline == LineOf(file, ItemAt(file, ps_tk_cnt(p1)))
           readable == t \notin gone /\ left[t] = 0 /\ ~EndsOpen(k, c)
           shown == Shown(k, c)
<1>1. p0 \in Positions /\ p1 \in Positions
  BY DEF Positions
<1>2. ps_text(p1) = t
  BY DEF ps_text
<1>3. t \in 1..NumberOfTexts /\ t < text
  <2>1. t \in 1..NumberOfTexts
    BY <1>1, PositionLine
  <2>2. text > NumberOfTexts /\ text \in Nat /\ NumberOfTexts \in Nat
    BY Lengths DEF FoundLines, PassOver, Pass1Over, Later, Found, Types
  <2> HIDE DEF t
  <2> QED
    BY <2>1, <2>2
<1>4. FilledRight(p0) /\ FilledRight(p1)
  <2>1. text # 0
    BY DEF Pass1Over, Later
  <2> QED
    BY <1>1, <1>2, <1>3, <2>1 DEF FoundLines, Filled
<1>5. LineOfPos(p0) = LineOf(file, ItemAt(file, from)) /\ LineOfPos(p1) = lastline
  BY <1>2 DEF LineOfPos
<1>6. /\ LineOfPos(p0) \in Nat /\ LineOfPos(p1) \in Nat /\ Len(file) \in Nat
      /\ from \in Nat /\ ps_tk_cnt(p1) \in Nat /\ ps_tk_cnt(p1) < Toks(file, Len(file))
      /\ Toks(file, Len(file)) \in Nat
  BY <1>1, <1>2, PositionLine
<1>7. shown.first = nl_cnt[p0] /\ shown.last = nl_cnt[p1] - 1
      /\ shown.items = ItemsOn(FileNow(t), shown.first..shown.last)
  BY DEF Shown
<1>8. ASSUME have_nl \/ readable
      PROVE  shown.first = LineOf(file, ItemAt(file, from)) /\ shown.last = lastline
  <2>1. Readable(t)
    BY <1>8, Zenon DEF Readable
  <2>2. have_nl \/ ~OnLastLine(p1)
    BY <1>2, <1>5, <1>8 DEF OnLastLine, EndsOpen
  <2>3. nl_cnt[p0] = LineOfPos(p0) + p0[3]
    BY <1>4, <2>1 DEF FilledRight
  <2>4. nl_cnt[p1] = LineOfPos(p1) + p1[3]
    <3>1. Readable(ps_text(p1))
      BY <1>2, <2>1
    <3> QED
      BY <1>4, <2>2, <3>1 DEF FilledRight
  <2>5. p0[3] = 0 /\ p1[3] = 1
    OBVIOUS
  <2> HIDE DEF p0, p1, shown, lastline, file, from
  <2> QED
    BY <1>5, <1>6, <1>7, <2>3, <2>4, <2>5
<1>9. runs[k].size \in Int /\ ps_tk_cnt(p1) = from + (runs[k].size - 1)
  <2>1. runs[k] \in RunType
    BY DEF Pass1Over, Found, Types
  <2>2. runs[k].size \in Int /\ runs[k].pos0 \in Int /\ runs[k].pos1 \in Int
    BY <2>1 DEF RunType
  <2> QED
    BY <2>2 DEF ps_tk_cnt
<1>10. ASSUME have_nl \/ readable, t \notin gone, NEW d \in 0..(runs[k].size - 1),
              NEW i, i = ItemAt(file, from + d)
       PROVE  i \in shown.items /\ file[i] = TokenArray[Text[t].start + from + d]
  <2>1. FileNow(t) = file
    BY <1>10 DEF FileNow
  <2>2. /\ from + d \in Nat /\ from <= from + d /\ from + d <= ps_tk_cnt(p1)
        /\ from + d < Toks(file, Len(file)) /\ from < Toks(file, Len(file))
    <3> HIDE DEF from, p0, p1, file
    <3> QED
      BY <1>6, <1>9
  <2>3. i \in 1..Len(file) /\ file[i] # EOL /\ Toks(file, i - 1) = from + d
    <3> DEFINE x == from + d
    <3>1. x \in Nat /\ x < Toks(file, Len(file)) /\ i = ItemAt(file, x)
      BY <1>10, <2>2
    <3> HIDE DEF x, file
    <3>2. i \in 1..Len(file) /\ file[i] # EOL /\ Toks(file, i - 1) = x
      BY <1>6, <3>1, ItemIs
    <3> QED
      BY <3>2 DEF x
  <2>4. ItemAt(file, from) <= i /\ i <= ItemAt(file, ps_tk_cnt(p1))
        /\ ItemAt(file, from) \in 1..Len(file) /\ ItemAt(file, ps_tk_cnt(p1)) \in 1..Len(file)
    <3> DEFINE x == from + d  y == ps_tk_cnt(p1)  z == from
    <3>1. /\ x \in Nat /\ y \in Nat /\ z \in Nat /\ z <= x /\ x <= y
          /\ x < Toks(file, Len(file)) /\ y < Toks(file, Len(file)) /\ z < Toks(file, Len(file))
          /\ i = ItemAt(file, x)
      BY <1>6, <1>10, <2>2
    <3> HIDE DEF x, y, z, file
    <3>2. /\ ItemAt(file, z) <= i /\ i <= ItemAt(file, y)
          /\ ItemAt(file, z) \in 1..Len(file) /\ ItemAt(file, y) \in 1..Len(file)
      BY <1>6, <3>1, ItemIs, ItemsGrow
    <3> QED
      BY <3>2 DEF y, z
  <2>5. /\ LineOf(file, i) \in Nat
        /\ LineOf(file, ItemAt(file, from)) <= LineOf(file, i)
        /\ LineOf(file, i) <= lastline
    <3> DEFINE y == ItemAt(file, ps_tk_cnt(p1))  z == ItemAt(file, from)
    <3>1. /\ y \in Nat \ {0} /\ i \in 1..y /\ i \in Nat \ {0} /\ z \in 1..i
          /\ lastline = LineOf(file, y)
      BY <1>6, <2>3, <2>4, SMTT(30)
    <3> HIDE DEF y, z, file, lastline
    <3>2. LineOf(file, i) \in Nat /\ LineOf(file, z) <= LineOf(file, i) /\ LineOf(file, i) <= lastline
      BY <3>1, LinesGrow
    <3> QED
      BY <3>2 DEF z
  <2>6. LineOf(file, i) \in shown.first..shown.last
    <3> HIDE DEF file, from, lastline, shown
    <3> QED
      BY <1>5, <1>6, <1>8, <1>10, <2>5
  <2>7. i \in shown.items
    <3> HIDE DEF file, shown, t
    <3> QED
      BY <1>7, <2>1, <2>3, <2>6 DEF ItemsOn
  <2>8. file[i] = TokenArray[Text[t].start + Toks(file, i - 1)]
    BY <1>3, <2>3, TextReady DEF TokensAre
  <2>9. Text[t].start \in Nat
    BY <1>3, TextReady, FileLength
  <2>10. Text[t].start + Toks(file, i - 1) = Text[t].start + from + d
    <3>1. d \in Int
      BY <1>9
    <3> DEFINE x == Text[t].start  y == Toks(file, i - 1)
    <3>2. x \in Int /\ from \in Int /\ y = from + d
      BY <1>6, <2>3, <2>9
    <3> HIDE DEF x, y, from
    <3>3. x + y = x + from + d
      BY <3>1, <3>2
    <3> QED
      BY <3>3 DEF x, y
  <2> QED
    BY <2>7, <2>8, <2>10
<1> QED
  BY <1>8, <1>10 DEF ChunkExact, ShowsChunk

\* What has been shown right stays so, whatever file disappears.
LEMMA ChunkKept ==
  ASSUME UNCHANGED textVars, runs' = runs, gone \subseteq gone', left' = left,
         NEW k, NEW c, NEW shown, ChunkExact(k, c, shown)
  PROVE  ChunkExact(k, c, shown)'
<1>1. /\ Text' = Text /\ TokenArray' = TokenArray
      /\ \A p : ps_text(p)' = ps_text(p) /\ ps_tk_cnt(p)' = ps_tk_cnt(p)
  BY LinesOfKept DEF textVars
<1>2. have_nl' <=> have_nl
  BY LinesOfKept
<1>3. EndsOpen(k, c)' <=> EndsOpen(k, c)
  BY <1>1 DEF EndsOpen, Unterminated
<1> DEFINE t == ps_text(<<k, c, 0>>)
           file == Text[t].file
           lastline == LineOf(file, ItemAt(file, ps_tk_cnt(<<k, c, 1>>)))
           Ends == /\ shown.first = LineOf(file, ItemAt(file, ps_tk_cnt(<<k, c, 0>>)))
                   /\ shown.last = lastline
           Items == \A d \in 0..(runs[k].size - 1) :
                      LET i == ItemAt(file, ps_tk_cnt(<<k, c, 0>>) + d)
                      IN  /\ i \in shown.items
                          /\ file[i] = TokenArray[Text[t].start + ps_tk_cnt(<<k, c, 0>>) + d]
           readable == t \notin gone /\ left[t] = 0 /\ ~EndsOpen(k, c)
<1>4. have_nl \/ readable => Ends /\ (t \notin gone => Items)
  BY DEF ChunkExact, ShowsChunk
<1>5. (Ends => Ends') /\ (Items => Items')
  BY <1>1
<1>6. (t \notin gone)' => t \notin gone
  BY <1>1
<1>7. readable' => readable
  BY <1>1, <1>3, <1>6
<1>8. (have_nl \/ readable)' => have_nl \/ readable
  <2> HIDE DEF readable
  <2> QED
    BY <1>2, <1>7, Zenon
<1>9. (have_nl \/ readable)' => Ends' /\ ((t \notin gone)' => Items')
  <2> HIDE DEF readable, Ends, Items, t
  <2> QED
    BY <1>4, <1>5, <1>6, <1>8, Zenon
<1> QED
  BY <1>9 DEF ChunkExact, ShowsChunk

\* Every step of the program keeps the report right.
LEMMA ShowsStep ==
  ASSUME EarlyInv \/ LaterInv, AllTypes, Files, PositionLists, FoundLines, Printing, Shows,
         [SimNext]_allVars
  PROVE  Shows'
<1>0. Early \/ Later
  BY DEF EarlyInv, LaterInv
<1>1. Printing' /\ Store /\ Finding
  BY <1>0, PrintingStep DEF AllTypes
<1>2. CASE pc' \notin {"pass3", "done"}
  <2>1. ~option_set("p")' => report' = <<>>
    BY <1>1, <1>2 DEF Printing
  <2> QED
    BY <2>1 DEF Shows
<1>3. CASE pc' \in {"pass3", "done"}
  <2>1. LaterInv /\ Later /\ Pass1Over
    <3>1. ~EarlyInv \/ FALSE
      <4> SUFFICES ASSUME EarlyInv PROVE FALSE
        OBVIOUS
      <4>1. Early' \/ CompareDone
        BY EarlyStep DEF EarlyInv
      <4> QED
        BY <1>3, <4>1 DEF Early, CompareDone
    <3> QED
      BY <3>1 DEF LaterInv, AllTypes, Pass1Over
  <2>2. UNCHANGED textVars /\ runs' = runs /\ opt' = opt
    BY <2>1, LaterStep DEF searchVars, compareVars, textVars
  <2>3. gone \subseteq gone' /\ left' = left
    BY <1>3, <2>1, LaterMoves
    DEF Pass2, SkipText, OpenText2, NextLine, NoMoreLines, OnThisLine, CloseText2, Pass3,
        StartPass3, ReportOutOfMemory, ShowRun, Finish, Disappear, allVars, showVars, findVars
  <2> SUFFICES ASSUME ~option_set("p")', NEW k \in 1..Len(report')
               PROVE  /\ report'[k].run \in 1..Len(runs')
                      /\ ChunkExact(report[k].run, 0, report[k].left)'
                      /\ ChunkExact(report[k].run, 1, report[k].right)'
    BY DEF Shows
  <2>6. \A x, y, z : ChunkExact(x, y, z) => ChunkExact(x, y, z)'
    BY <2>2, <2>3, ChunkKept
  <2>4. ~option_set("p")
    BY <2>2 DEF option_set
  <2>5. CASE ~ShowRun
    <3>1. report' = report
      BY <2>1, <2>4, <2>5, LaterMoves
      DEF Pass2, SkipText, OpenText2, NextLine, NoMoreLines, OnThisLine, CloseText2, Pass3,
          StartPass3, ReportOutOfMemory, Finish, Disappear, allVars, showVars
    <3>2. /\ report[k].run \in 1..Len(runs)
          /\ ChunkExact(report[k].run, 0, report[k].left)
          /\ ChunkExact(report[k].run, 1, report[k].right)
      BY <2>4, <3>1 DEF Shows
    <3> QED
      BY <2>2, <3>1, <3>2, <2>6
  <2>7. CASE ShowRun
    <3>1. /\ pc = "pass3" /\ iter # <<>>
          /\ report' = Append(report, [run |-> iter[1].run, size |-> iter[1].size,
                                       left |-> Shown(iter[1].run, 0),
                                       right |-> Shown(iter[1].run, 1)])
      BY <2>7 DEF ShowRun
    <3> DEFINE r == iter[1].run
               e == [run |-> r, size |-> iter[1].size, left |-> Shown(r, 0), right |-> Shown(r, 1)]
    <3>2. Sequence(report) /\ iter \in Seq([run : 1..Len(runs), size : Nat])
      BY <2>4, <3>1 DEF Printing
    <3>3. r \in 1..Len(runs)
      <4>1. 1 \in 1..Len(iter)
        BY <3>1, <3>2
      <4>2. iter[1] \in [run : 1..Len(runs), size : Nat]
        BY <3>2, <4>1, ElementOfSeq
      <4> QED
        BY <4>2
    <3>4. ChunkExact(r, 0, Shown(r, 0)) /\ ChunkExact(r, 1, Shown(r, 1))
      BY <2>1, <3>1, <3>3, ChunkShown
    <3>5. e.run = r /\ e.left = Shown(r, 0) /\ e.right = Shown(r, 1)
      OBVIOUS
    <3> HIDE DEF e
    <3>6. report' = Append(report, e)
      BY <3>1 DEF e
    <3>7. /\ Len(report') = Len(report) + 1 /\ report'[Len(report) + 1] = e
          /\ \A j \in 1..Len(report) : report'[j] = report[j]
      BY <3>2, <3>6, SequenceAppend
    <3>8. Len(report) \in Nat
      BY <3>2 DEF Sequence
    <3>9. CASE k \in 1..Len(report)
      <4>1. /\ report[k].run \in 1..Len(runs)
            /\ ChunkExact(report[k].run, 0, report[k].left)
            /\ ChunkExact(report[k].run, 1, report[k].right)
        BY <2>4, <3>9 DEF Shows
      <4> QED
        BY <2>2, <2>6, <3>7, <3>9, <4>1
    <3>10. CASE k = Len(report) + 1
      <4>1. report'[k] = e
        BY <3>7, <3>10
      <4>2. /\ e.run \in 1..Len(runs)
            /\ ChunkExact(e.run, 0, e.left) /\ ChunkExact(e.run, 1, e.right)
        BY <3>3, <3>4, <3>5
      <4> HIDE DEF r
      <4> QED
        BY <2>2, <2>6, <4>1, <4>2
    <3> QED
      BY <3>7, <3>8, <3>9, <3>10
  <2> QED
    BY <2>5, <2>7
<1> QED
  BY <1>2, <1>3

\* At the start there are no files.
LEMMA FilesStart == SimInit => Files
BY DEF SimInit, Init, InitPass1, Files, FilesAre, NumberOfTexts

\* The invariants of Pass 1, of the positions, of Pass 2 and of the report.
LEMMA ShowsInvariant ==
  SimSpec => [](Shows /\ Printing /\ FoundLines /\ PositionLists /\ Files)
<1>1. SimInit => Printing /\ Shows /\ FoundLines
  BY DEF SimInit, Init, InitPass1, Printing, Shows, FoundLines, Lines, Filled, PassOver
<1>2. SimInit => Files /\ PositionLists
  BY FilesStart, PositionsStart
<1>3. (EarlyInv \/ LaterInv) /\ AllTypes /\ Printing /\ [SimNext]_allVars => Printing'
  BY PrintingStep DEF AllTypes, EarlyInv, LaterInv
<1>4. (EarlyInv \/ LaterInv) /\ AllTypes /\ Files /\ [SimNext]_allVars => Files'
  BY FilesStep
<1>5. (EarlyInv \/ LaterInv) /\ PositionLists /\ [SimNext]_allVars => PositionLists'
  BY PositionsStep
<1>6. /\ EarlyInv \/ LaterInv
      /\ AllTypes /\ Files /\ PositionLists /\ FoundLines /\ [SimNext]_allVars
      => FoundLines'
  BY FoundStep
<1>7. /\ EarlyInv \/ LaterInv
      /\ AllTypes /\ Files /\ PositionLists /\ FoundLines /\ Printing /\ Shows
      /\ [SimNext]_allVars
      => Shows'
  BY ShowsStep
<1> QED
  BY <1>1, <1>2, <1>3, <1>4, <1>5, <1>6, <1>7, SimInvariant, TypesInvariant, PTL
  DEF SimSpec, allVars

\* Of the whole program, without option p: with the newline buffer every chunk of
\* the report has the lines of its first and its last token, even when the file has
\* gone.  Without the buffer so has a chunk of a file that is still there, if the
\* scanner had nothing left of an earlier file when it reread this one and the chunk
\* does not end on a last line without a line end.  The tokens of the chunk are among
\* what is printed under it, if the file is still there.
THEOREM LinesAreExact == SimSpec => [](~option_set("p") => LinesExact)
<1>1. Shows => (~option_set("p") => LinesExact)
  BY DEF Shows, LinesExact
<1> QED
  BY <1>1, ShowsInvariant, PTL

-----------------------------------------------------------------------------
(***************************************************************************)
(* The percentages                                                         *)
(***************************************************************************)

\* what a run adds to the total of two texts
Part(r, t, u) == IF {r.text0, r.text1} = {t, u} THEN r.size ELSE 0

\* c has the sums over the first runs of a list.
SumsTo(c, list, t, u) ==
  /\ c \in [0..Len(list) -> Nat] /\ c[0] = 0
  /\ \A k \in 1..Len(list) : c[k] = c[k - 1] + Part(list[k], t, u)

\* The total of two texts is the sum over the runs.
TotalsAre ==
  Types /\ RunsGenuine =>
    \A t, u : \E c : SumsTo(c, runs, t, u) /\ Total(t, u) = c[Len(runs)]

LEMMA TotalIs == TotalsAre
<1> SUFFICES ASSUME Types, RunsGenuine, NEW t, NEW u
             PROVE  \E c : SumsTo(c, runs, t, u) /\ Total(t, u) = c[Len(runs)]
  BY DEF TotalsAre
<1> DEFINE n0 == Len(runs)
           F == [k \in 1..n0 |-> [x \in Nat |-> x + Part(runs[k], t, u)]]
           Sat(f) == f = [k \in 0..n0 |->
                            IF k = 0 THEN 0
                            ELSE f[k - 1] + IF {runs[k].text0, runs[k].text1} = {t, u}
                                            THEN runs[k].size ELSE 0]
           c == CHOOSE f : Sat(f)
<1>0. n0 \in Nat
  BY DEF Types
<1>1. \A k \in 1..n0 : Part(runs[k], t, u) \in Nat
  <2> SUFFICES ASSUME NEW k \in 1..n0 PROVE runs[k].size \in Nat
    BY DEF Part
  <2>1. runs[k] \in RunType /\ Genuine(runs[k])
    BY DEF Types, RunsGenuine
  <2>2. runs[k].size \in Int /\ runs[k].size >= MinRunSize /\ MinRunSize \in Nat
    BY <2>1, Lengths DEF RunType, Genuine
  <2> QED
    BY <2>2
<1>2. F \in [1..n0 -> [Nat -> Nat]]
  BY <1>1
<1>3. PICK h \in [0..n0 -> Nat] : h[0] = 0 /\ \A k \in 1..n0 : h[k] = F[k][h[k - 1]]
  <2> HIDE DEF F, n0
  <2>0. 0 \in Nat
    OBVIOUS
  <2>1. PICK h : Follows(h, n0, 0, F, Nat)
    BY <1>0, <1>2, <2>0, Iteration, Zenon
  <2> QED
    BY <2>1 DEF Follows
<1>4. \A k \in 1..n0 : h[k] = h[k - 1] + Part(runs[k], t, u)
  BY <1>3
<1>5. Sat(h)
  <2>1. h = [k \in 0..n0 |-> IF k = 0 THEN 0 ELSE h[k - 1] + Part(runs[k], t, u)]
    BY <1>0, <1>3, <1>4
  <2> QED
    BY <2>1 DEF Part
<1>6. Sat(c)
  <2>1. \E f : Sat(f)
    BY <1>5
  <2> HIDE DEF Sat
  <2> QED
    BY <2>1
<1>7. Total(t, u) = c[n0]
  BY DEF Total
<1>8. c = [k \in 0..n0 |-> IF k = 0 THEN 0 ELSE c[k - 1] + Part(runs[k], t, u)]
  BY <1>6 DEF Part
<1> HIDE DEF c, Sat, n0
<1>9. c[0] = 0 /\ \A k \in 1..n0 : c[k] = c[k - 1] + Part(runs[k], t, u)
  BY <1>0, <1>8
<1>10. \A k \in 0..n0 : c[k] \in Nat
  <2> DEFINE P == {k \in 0..n0 : c[k] \in Nat}
  <2>1. 0 \in P
    BY <1>0, <1>9
  <2>2. ASSUME NEW k \in 1..n0, k - 1 \in P PROVE k \in P
    BY <1>1, <1>9, <2>2
  <2>3. \A k \in 1..n0 : k - 1 \in P => k \in P
    BY <2>2
  <2>4. \A k \in 0..n0 : k \in P
    <3> HIDE DEF P
    <3> QED
      BY <1>0, <2>1, <2>3, UpTo, Zenon
  <2> QED
    BY <2>4
<1>11. c \in [0..n0 -> Nat]
  BY <1>8, <1>10
<1>12. SumsTo(c, runs, t, u)
  BY <1>9, <1>11 DEF SumsTo, n0
<1> QED
  BY <1>7, <1>12 DEF n0

\* and so in the next state
LEMMA TotalWillBe == TotalsAre'
BY TotalIs, PTL

\* A sum depends on the list only, and goes on when the list does.
LEMMA SumsAgree ==
  ASSUME NEW c, NEW d, NEW list, NEW list2, NEW t, NEW u, NEW t2, NEW u2, {t, u} = {t2, u2},
         SumsTo(c, list, t, u), SumsTo(d, list2, t2, u2),
         Len(list) \in Nat, Len(list2) \in Nat, Len(list) <= Len(list2),
         \A k \in 1..Len(list) : list[k] = list2[k]
  PROVE  c[Len(list)] = d[Len(list)]
<1> DEFINE P == {k \in 0..Len(list) : c[k] = d[k]}
<1>1. 0 \in P
  BY DEF SumsTo
<1>2. ASSUME NEW k \in 1..Len(list), k - 1 \in P PROVE k \in P
  <2>1. c[k] = c[k - 1] + Part(list[k], t, u) /\ d[k] = d[k - 1] + Part(list2[k], t2, u2)
    BY DEF SumsTo
  <2>2. Part(list[k], t, u) = Part(list2[k], t2, u2)
    BY DEF Part
  <2> QED
    BY <1>2, <2>1, <2>2
<1>3. \A k \in 1..Len(list) : k - 1 \in P => k \in P
  BY <1>2
<1>4. \A k \in 0..Len(list) : k \in P
  <2> HIDE DEF P
  <2> QED
    BY <1>1, <1>3, UpTo, Zenon
<1> QED
  BY <1>4

\* It is a number, whatever the order of the texts,
LEMMA TotalIsNumber ==
  ASSUME Types, RunsGenuine, NEW t, NEW u
  PROVE  Total(t, u) \in Nat /\ Total(u, t) = Total(t, u) /\ (runs = <<>> => Total(t, u) = 0)
<1>0. Len(runs) \in Nat
  BY DEF Types
<1>1. PICK c : SumsTo(c, runs, t, u) /\ Total(t, u) = c[Len(runs)]
  BY TotalIs DEF TotalsAre
<1>2. PICK d : SumsTo(d, runs, u, t) /\ Total(u, t) = d[Len(runs)]
  BY TotalIs DEF TotalsAre
<1>3. c[Len(runs)] = d[Len(runs)]
  <2>1. {t, u} = {u, t}
    OBVIOUS
  <2> QED
    BY <1>0, <1>1, <1>2, <2>1, SumsAgree
<1>4. Total(t, u) \in Nat /\ (runs = <<>> => Total(t, u) = 0)
  BY <1>0, <1>1 DEF SumsTo
<1> QED
  BY <1>1, <1>2, <1>3, <1>4

\* does not change when there is no new run,
LEMMA TotalKept ==
  ASSUME Types, RunsGenuine, Types', RunsGenuine', runs' = runs, NEW t, NEW u
  PROVE  Total(t, u)' = Total(t, u)
<1>0. Len(runs) \in Nat
  BY DEF Types
<1>1. PICK c : SumsTo(c, runs, t, u) /\ Total(t, u) = c[Len(runs)]
  BY TotalIs DEF TotalsAre
<1>2. PICK d : SumsTo(d, runs', t, u) /\ Total(t, u)' = d[Len(runs')]
  BY TotalWillBe DEF TotalsAre
<1> QED
  BY <1>0, <1>1, <1>2, SumsAgree

\* and grows by the size of a new one.
LEMMA TotalGrows ==
  ASSUME Types, RunsGenuine, Types', RunsGenuine', NEW r, runs' = Append(runs, r), NEW t, NEW u
  PROVE  Total(t, u)' = Total(t, u) + Part(r, t, u)
<1>0. /\ Len(runs) \in Nat /\ Len(runs') = Len(runs) + 1 /\ runs'[Len(runs) + 1] = r
      /\ \A k \in 1..Len(runs) : runs[k] = runs'[k]
  BY DEF Types
<1>1. PICK c : SumsTo(c, runs, t, u) /\ Total(t, u) = c[Len(runs)]
  BY TotalIs DEF TotalsAre
<1>2. PICK d : SumsTo(d, runs', t, u) /\ Total(t, u)' = d[Len(runs')]
  BY TotalWillBe DEF TotalsAre
<1>3. c[Len(runs)] = d[Len(runs)]
  <2> DEFINE l == runs  l2 == runs'
  <2>1. /\ Len(l) \in Nat /\ Len(l2) \in Nat /\ Len(l) <= Len(l2)
        /\ \A k \in 1..Len(l) : l[k] = l2[k]
    BY <1>0
  <2>2. SumsTo(c, l, t, u) /\ SumsTo(d, l2, t, u) /\ {t, u} = {t, u}
    BY <1>1, <1>2
  <2> HIDE DEF l, l2
  <2>3. c[Len(l)] = d[Len(l)]
    BY <2>1, <2>2, SumsAgree
  <2> QED
    BY <2>3 DEF l
<1>4. d[Len(runs) + 1] = d[(Len(runs) + 1) - 1] + Part(runs'[Len(runs) + 1], t, u)
  BY <1>0, <1>2 DEF SumsTo
<1>5. (Len(runs) + 1) - 1 = Len(runs)
  BY <1>0
<1> QED
  BY <1>0, <1>1, <1>2, <1>3, <1>4, <1>5

\* What a new text has in common with a later one, so far: nothing when it has not
\* been compared to it yet, and no more than the tokens before the position that is
\* being looked at.
Shared ==
  /\ n = 0 => runs = <<>> /\ matches = <<>>
  /\ n # 0 => \A t, u \in 1..NumberOfTexts : t < u =>
       /\ Total(t, u) <= Text[t].limit - Text[t].start
       /\ t > n => Total(t, u) = 0
       /\ t = n /\ pc = "range" /\ u >= m => Total(t, u) = 0
       /\ t = n /\ pc = "lcs" /\ option_set("e") /\ u > m => Total(t, u) = 0
       /\ t = n /\ pc = "lcs" /\ u \in TextsNow => Total(t, u) <= i0 - Text[t].start

\* After a look at the next position.
LEMMA SharedAfterLook ==
  ASSUME Types, Place, pc \in {"range", "lcs"}, m <= NumberOfTexts,
         UNCHANGED textVars, n' = n, n # 0, NEW i, LookAt(i),
         \A t, u \in 1..NumberOfTexts : t < u =>
           /\ Total(t, u)' <= Text[t].limit - Text[t].start
           /\ t > n => Total(t, u)' = 0
           /\ t = n /\ option_set("e") /\ u > m => Total(t, u)' = 0
           /\ t = n /\ u \in TextsNow => Total(t, u)' <= i - Text[t].start
  PROVE  Shared'
<1>1. /\ Text' = Text /\ NumberOfTexts' = NumberOfTexts
      /\ option_set("e")' <=> option_set("e")
  BY DEF textVars, NumberOfTexts, option_set
<1>2. m \in Int /\ NumberOfTexts \in Nat
  BY Lengths DEF Place
<1>3. i0' = i /\ \/ pc' = "lcs" /\ m' = m
                 \/ pc' = "range" /\ m' = (IF option_set("e") THEN m ELSE NumberOfTexts) + 1
  BY DEF LookAt
<1>4. ASSUME NEW t \in 1..NumberOfTexts, NEW u \in 1..NumberOfTexts, t < u
      PROVE  /\ Total(t, u)' <= Text'[t].limit - Text'[t].start
             /\ t > n' => Total(t, u)' = 0
             /\ t = n' /\ pc' = "range" /\ u >= m' => Total(t, u)' = 0
             /\ t = n' /\ pc' = "lcs" /\ option_set("e")' /\ u > m' => Total(t, u)' = 0
             /\ t = n' /\ pc' = "lcs" /\ u \in TextsNow' => Total(t, u)' <= i0' - Text'[t].start
  <2>1. /\ Total(t, u)' <= Text[t].limit - Text[t].start
        /\ t > n => Total(t, u)' = 0
        /\ t = n /\ option_set("e") /\ u > m => Total(t, u)' = 0
        /\ t = n /\ u \in TextsNow => Total(t, u)' <= i - Text[t].start
    BY <1>4
  <2>2. CASE pc' = "lcs" /\ m' = m
    <3>1. TextsNow' = TextsNow
      BY <1>1, <2>2 DEF TextsNow
    <3> QED
      BY <1>1, <1>3, <2>1, <2>2, <3>1
  <2>3. CASE pc' = "range" /\ m' = (IF option_set("e") THEN m ELSE NumberOfTexts) + 1
    <3>1. u >= m' => option_set("e") /\ u > m
      BY <1>2, <2>3
    <3> QED
      BY <1>1, <2>1, <2>3, <3>1
  <2> QED
    BY <1>3, <2>2, <2>3
<1> QED
  BY <1>1, <1>4 DEF Shared

\* Every step but a new run keeps this:
LEMMA SharedStep ==
  ASSUME IInv, IInv', Stages, Shared, [Next]_vars, ~AddRun, matches' = matches
  PROVE  Shared'
<1>0. Types /\ RunsGenuine /\ Types' /\ RunsGenuine' /\ Tiles /\ Place
  BY DEF IInv
<1>1. CASE n = 0 /\ n' = 0 /\ runs' = runs
  BY <1>1 DEF Shared
<1>2. CASE Hash2Done
  <2>1. n = 0 /\ n' = 1 /\ runs' = runs /\ pc' = "range"
    BY <1>2 DEF Hash2Done, Stages
  <2>2. \A t, u : Total(t, u)' = 0
    <3>1. \A t, u : Total(t, u)' = Total(t, u) /\ Total(t, u) = 0
      BY <1>0, <2>1, TotalKept, TotalIsNumber DEF Shared
    <3> QED
      BY <3>1
  <2>3. \A t \in 1..NumberOfTexts : 0 <= Text[t].limit - Text[t].start
    BY <1>0, Lengths DEF Tiles, TextType
  <2>4. Text' = Text /\ NumberOfTexts' = NumberOfTexts
    BY <1>2 DEF Hash2Done, textVars, NumberOfTexts
  <2> QED
    BY <2>1, <2>2, <2>3, <2>4 DEF Shared
<1>3. ASSUME n # 0, UNCHANGED textVars, runs' = runs
      PROVE  /\ \A t, u : Total(t, u)' = Total(t, u)
             /\ Text' = Text /\ NumberOfTexts' = NumberOfTexts
             /\ option_set("e")' <=> option_set("e")
             /\ \A t, u \in 1..NumberOfTexts : t < u =>
                  /\ Total(t, u) <= Text[t].limit - Text[t].start
                  /\ t > n => Total(t, u) = 0
                  /\ t = n /\ pc = "range" /\ u >= m => Total(t, u) = 0
                  /\ t = n /\ pc = "lcs" /\ option_set("e") /\ u > m => Total(t, u) = 0
                  /\ t = n /\ pc = "lcs" /\ u \in TextsNow => Total(t, u) <= i0 - Text[t].start
  <2>1. \A t, u : Total(t, u)' = Total(t, u)
    BY <1>0, <1>3, TotalKept
  <2>2. Text' = Text /\ NumberOfTexts' = NumberOfTexts /\ (option_set("e")' <=> option_set("e"))
    BY <1>3 DEF textVars, NumberOfTexts, option_set
  <2> QED
    BY <1>3, <2>1, <2>2 DEF Shared
<1>4. CASE StartRange
  <2>1. /\ pc = "range" /\ m <= NumberOfTexts /\ LookAt(Text[n].start) /\ n <= NumberOfNewTexts
        /\ UNCHANGED textVars /\ n' = n /\ runs' = runs
    BY <1>4 DEF StartRange
  <2>2. n # 0 /\ n \in Nat /\ m \in Int
    BY <1>0, <2>1 DEF Place
  <2>3. n \in 1..NumberOfTexts
    BY <1>0, <2>1, <2>2, Lengths DEF Types
  <2>4. Text[n].start - Text[n].start = 0
    BY <1>0, <2>3, Lengths DEF TextType
  <2>5. \A u \in TextsNow : u >= m
    BY <2>2 DEF TextsNow
  <2>6. ASSUME NEW t \in 1..NumberOfTexts, NEW u \in 1..NumberOfTexts, t < u
        PROVE  /\ Total(t, u)' <= Text[t].limit - Text[t].start
               /\ t > n => Total(t, u)' = 0
               /\ t = n /\ option_set("e") /\ u > m => Total(t, u)' = 0
               /\ t = n /\ u \in TextsNow => Total(t, u)' <= Text[n].start - Text[t].start
    BY <1>3, <2>1, <2>2, <2>4, <2>5, <2>6
  <2> QED
    BY <1>0, <2>1, <2>2, <2>6, SharedAfterLook
<1>5. CASE NoRun
  <2> DEFINE y == i0 + 1
  <2>1. /\ pc = "lcs" /\ LookAt(y) /\ UNCHANGED textVars /\ n' = n /\ runs' = runs
    BY <1>5 DEF NoRun
  <2>2. n # 0 /\ n \in Nat /\ m \in Int /\ m <= NumberOfTexts /\ i0 \in Nat /\ n <= NumberOfNewTexts
    BY <1>0, <2>1 DEF Place
  <2>3. ASSUME NEW t \in 1..NumberOfTexts, NEW u \in 1..NumberOfTexts, t < u
        PROVE  /\ Total(t, u)' <= Text[t].limit - Text[t].start
               /\ t > n => Total(t, u)' = 0
               /\ t = n /\ option_set("e") /\ u > m => Total(t, u)' = 0
               /\ t = n /\ u \in TextsNow => Total(t, u)' <= y - Text[t].start
    <3>1. Text[t].start \in Nat /\ Total(t, u) \in Nat
      BY <1>0, Lengths, TotalIsNumber DEF TextType
    <3> QED
      BY <1>3, <2>1, <2>2, <2>3, <3>1
  <2> HIDE DEF y
  <2> QED
    BY <1>0, <2>1, <2>2, <2>3, SharedAfterLook
<1>6. CASE NextText
  <2>1. /\ pc = "range" /\ pc' = pc /\ n' = n + 1 /\ UNCHANGED textVars /\ runs' = runs
    BY <1>6 DEF NextText
  <2>2. n # 0 /\ n \in Nat
    BY <1>0, <2>1 DEF Place
  <2>3. \A t, u \in 1..NumberOfTexts : t < u /\ t >= n + 1 => Total(t, u)' = 0
    BY <1>3, <2>1, <2>2
  <2>4. \A t \in Nat : t > n + 1 \/ t = n + 1 => t >= n + 1
    BY <2>2
  <2> QED
    BY <1>3, <2>1, <2>2, <2>3, <2>4 DEF Shared
<1>7. CASE n # 0 /\ UNCHANGED textVars /\ runs' = runs /\ n' = n
           /\ \/ pc' \notin {"range", "lcs"}
              \/ pc' = pc /\ m' = m /\ i0' = i0
  <2>1. TextsNow' = TextsNow \/ pc' \notin {"range", "lcs"}
    BY <1>3, <1>7 DEF TextsNow
  <2> QED
    BY <1>3, <1>7, <2>1 DEF Shared
<1> QED
  <2>1. CASE Pass1 /\ UNCHANGED <<hashVars, compareVars>>
    <3>1. n = 0
      BY <2>1 DEF Stages, Pass1, InitOutOfMemory, Separator, OpenFile, EndArgs,
                  TokensOutOfMemory, ReadToken, ReadEol, EndFile
    <3> QED
      BY <1>1, <2>1, <3>1 DEF compareVars
  <2>2. CASE InitHashTable \/ TableOutOfMemory \/ Hash1Step \/ Hash1Done \/ Hash2Step
    <3>1. n = 0 /\ n' = 0 /\ runs' = runs
      BY <2>2 DEF Stages, InitHashTable, TableOutOfMemory, Hash1Step, Hash1Done, Hash2Step,
                  compareVars
    <3> QED
      BY <1>1, <3>1
  <2>3. CASE LcsStep \/ RunOutOfMemory \/ CompareDone
    <3>1. pc \in {"range", "lcs"}
      BY <2>3 DEF LcsStep, RunOutOfMemory, CompareDone
    <3>2. n # 0
      BY <1>0, <3>1 DEF Place
    <3>3. UNCHANGED textVars /\ runs' = runs /\ n' = n
          /\ \/ pc' \notin {"range", "lcs"}
             \/ pc' = pc /\ m' = m /\ i0' = i0
      BY <2>3 DEF LcsStep, RunOutOfMemory, CompareDone, compareVars
    <3> QED
      BY <1>7, <3>2, <3>3
  <2>4. CASE UNCHANGED vars
    <3>1. UNCHANGED textVars /\ runs' = runs /\ n' = n /\ pc' = pc /\ m' = m /\ i0' = i0
      BY <2>4 DEF vars, compareVars
    <3> QED
      BY <1>1, <1>7, <3>1
  <2> QED
    BY <1>2, <1>4, <1>5, <1>6, <2>1, <2>2, <2>3, <2>4 DEF Next, Match

\* A run is counted for its two texts, when these are different ones.
LEMMA RunCounts ==
  ASSUME IInv, IInv', AddRun
  PROVE  /\ Run.text0 = n /\ Run.text1 \in TextsNow /\ Run.text1 \in n..NumberOfTexts
         /\ Run.size = size_best /\ size_best \in Nat \ {0} /\ n \in 1..NumberOfTexts
         /\ i0 \in Nat /\ i0 + size_best <= Text[n].limit /\ pc = "lcs"
         /\ \A t \in 1..NumberOfTexts, u \in 1..NumberOfTexts : t < u =>
              Total(t, u)' = Total(t, u) + (IF t = n /\ u = Run.text1 THEN size_best ELSE 0)
<1>1. /\ pc = "lcs" /\ size_best # 0 /\ runs' = Append(runs, Run)
  BY DEF AddRun
<1>2. Types /\ RunsGenuine /\ Types' /\ RunsGenuine' /\ Tiles /\ Place /\ BestIsRun
  BY DEF IInv
<1>3. IsRun(i_best, size_best) /\ size_best \in Nat
  BY <1>1, <1>2 DEF BestIsRun, Place
<1>4. /\ Run.text0 = n /\ Run.text1 = TextAt(i_best) /\ Run.size = size_best
  BY DEF Run
<1>5. TextAt(i_best) \in TextsNow /\ TextAt(i_best) \in n..NumberOfTexts
  <2>1. i_best \in Nat /\ Text[m].start <= i_best /\ i_best < i_limit
    BY <1>3 DEF IsRun
  <2> QED
    BY <1>1, <1>2, <2>1, TextFound
<1>6. /\ n \in 1..NumberOfTexts /\ n \in Nat /\ i0 \in Nat /\ NumberOfTexts \in Nat
      /\ Text[n].limit \in Nat
  BY <1>1, <1>2, AtWork
<1>7. i0 + size_best <= Text[n].limit
  <2>1. i0 + size_best - 1 < Text[n].limit
    BY <1>3 DEF IsRun, Common
  <2> QED
    BY <1>3, <1>6, <2>1
<1>8. ASSUME NEW t \in 1..NumberOfTexts, NEW u \in 1..NumberOfTexts, t < u
      PROVE  Total(t, u)' = Total(t, u) + (IF t = n /\ u = Run.text1 THEN size_best ELSE 0)
  <2>1. Total(t, u)' = Total(t, u) + Part(Run, t, u)
    BY <1>1, <1>2, TotalGrows
  <2> DEFINE b == Run.text1
  <2>2. b \in n..NumberOfTexts
    BY <1>4, <1>5
  <2>3. Part(Run, t, u) = IF {n, b} = {t, u} THEN size_best ELSE 0
    BY <1>4 DEF Part
  <2>4. {n, b} = {t, u} <=> t = n /\ u = b
    <3> HIDE DEF b
    <3>1. t \in Int /\ u \in Int /\ b \in Int /\ n \in Int /\ n <= b
      BY <1>6, <2>2
    <3>2. ASSUME {n, b} = {t, u} PROVE t = n /\ u = b
      <4>1. t \in {n, b} /\ u \in {n, b} /\ n \in {t, u}
        BY <3>2
      <4> QED
        BY <1>8, <3>1, <4>1
    <3> QED
      BY <3>2
  <2> QED
    BY <2>1, <2>3, <2>4
<1> QED
  BY <1>1, <1>3, <1>4, <1>5, <1>6, <1>7, <1>8

\* and so does a new run, which ends before the next position.
LEMMA SharedGrows ==
  ASSUME IInv, IInv', Shared, AddRun
  PROVE  Shared'
<1> DEFINE b == Run.text1  y == i0 + size_best
<1>0. /\ b \in TextsNow /\ b \in n..NumberOfTexts
      /\ size_best \in Nat \ {0} /\ n \in 1..NumberOfTexts
      /\ i0 \in Nat /\ y <= Text[n].limit /\ pc = "lcs"
      /\ \A t \in 1..NumberOfTexts, u \in 1..NumberOfTexts : t < u =>
           Total(t, u)' = Total(t, u) + (IF t = n /\ u = b THEN size_best ELSE 0)
  BY RunCounts
<1>1. Types /\ RunsGenuine /\ Tiles /\ Place
  BY DEF IInv
<1>2. /\ LookAt(y) /\ UNCHANGED textVars /\ n' = n
  BY DEF AddRun
<1>3. n # 0 /\ m \in Int /\ m <= NumberOfTexts /\ NumberOfTexts \in Nat
  BY <1>0, <1>1, Lengths DEF Place
<1>4. option_set("e") => b = m
  BY <1>0 DEF TextsNow
<1> HIDE DEF b
<1>5. ASSUME NEW t \in 1..NumberOfTexts, NEW u \in 1..NumberOfTexts, t < u
      PROVE  /\ Total(t, u)' <= Text[t].limit - Text[t].start
             /\ t > n => Total(t, u)' = 0
             /\ t = n /\ option_set("e") /\ u > m => Total(t, u)' = 0
             /\ t = n /\ u \in TextsNow => Total(t, u)' <= y - Text[t].start
  <2>1. /\ Total(t, u) \in Nat /\ Text[t].start \in Nat /\ Text[t].limit \in Nat
    BY <1>1, Lengths, TotalIsNumber DEF TextType
  <2>2. /\ Total(t, u) <= Text[t].limit - Text[t].start
        /\ t > n => Total(t, u) = 0
        /\ t = n /\ option_set("e") /\ u > m => Total(t, u) = 0
        /\ t = n /\ u \in TextsNow => Total(t, u) <= i0 - Text[t].start
    BY <1>0, <1>3, <1>5 DEF Shared
  <2>3. CASE t = n /\ u = b
    <3>1. Total(t, u)' = Total(t, u) + size_best
      BY <1>0, <1>5, <2>3
    <3>2. Total(t, u) <= i0 - Text[t].start /\ y <= Text[t].limit
      BY <1>0, <2>2, <2>3
    <3>3. ~(t > n) /\ ~(option_set("e") /\ u > m)
      BY <1>0, <1>3, <1>4, <2>3
    <3>4. Total(t, u)' <= y - Text[t].start /\ Total(t, u)' <= Text[t].limit - Text[t].start
      BY <1>0, <2>1, <3>1, <3>2
    <3> QED
      BY <3>3, <3>4
  <2>4. CASE ~(t = n /\ u = b)
    <3>1. Total(t, u)' = Total(t, u)
      BY <1>0, <1>5, <2>1, <2>4
    <3> QED
      BY <1>0, <2>1, <2>2, <3>1
  <2> QED
    BY <2>3, <2>4
<1> HIDE DEF y
<1> QED
  BY <1>0, <1>1, <1>2, <1>3, <1>5, SharedAfterLook

\* an entry of the list of matches
MatchType == [text0 : Nat, text1 : Nat, size : Nat]

\* It is about texts t and u, in this order.
PairIs(e, t, u) == e.text0 = t /\ e.text1 = u

\* Entry k0 of the new list has the size of r more than before, which is the size
\* of r when it is a new one.
AddedTo(l2, l, r, k0) ==
  /\ \/ k0 \in 1..Len(l) /\ PairIs(l[k0], r.text0, r.text1) /\ Len(l2) = Len(l)
        /\ l2[k0].size = l[k0].size + r.size
     \/ k0 = Len(l) + 1 /\ Len(l2) = Len(l) + 1 /\ l2[k0].size = r.size
        /\ \A k \in 1..Len(l) : ~PairIs(l[k], r.text0, r.text1)
  /\ PairIs(l2[k0], r.text0, r.text1)
  /\ \A k \in 1..Len(l) : k # k0 => l2[k] = l[k]

\* This is what add_to_percentages does.
LEMMA MatchAdded ==
  ASSUME NEW l \in Seq(MatchType), NEW r, r.text0 \in Nat, r.text1 \in Nat, r.size \in Nat,
         r.text0 # r.text1
  PROVE  /\ AddToPercentages(l, r) \in Seq(MatchType)
         /\ \E k0 \in Nat : AddedTo(AddToPercentages(l, r), l, r, k0)
<1> DEFINE l2 == AddToPercentages(l, r)
           found == {k \in 1..Len(l) : l[k].text0 = r.text0 /\ l[k].text1 = r.text1}
           e == [text0 |-> r.text0, text1 |-> r.text1, size |-> r.size]
<1>1. l2 = CASE r.text0 = r.text1 -> l
             [] r.text0 # r.text1 /\ found # {} ->
                  [l EXCEPT ![CHOOSE k \in found : TRUE].size = @ + r.size]
             [] OTHER -> Append(l, e)
  BY DEF AddToPercentages
<1>2. CASE found # {}
  <2> DEFINE k0 == CHOOSE k \in found : TRUE
  <2>1. k0 \in found
    BY <1>2
  <2> HIDE DEF k0
  <2>2. l2 = [l EXCEPT ![k0].size = @ + r.size]
    BY <1>1, <1>2 DEF k0
  <2>3. k0 \in 1..Len(l) /\ l[k0] \in MatchType /\ l[k0].text0 = r.text0 /\ l[k0].text1 = r.text1
    BY <2>1
  <2>4. l[k0].size + r.size \in Nat
    BY <2>3 DEF MatchType
  <2> DEFINE v == [l[k0] EXCEPT !.size = @ + r.size]
  <2>5. v \in MatchType /\ v.size = l[k0].size + r.size /\ v.text0 = r.text0 /\ v.text1 = r.text1
    BY <2>3, <2>4 DEF MatchType
  <2>6. l2 = [l EXCEPT ![k0] = v]
    BY <2>2
  <2> HIDE DEF v, l2
  <2>7. /\ l2 \in Seq(MatchType) /\ Len(l2) = Len(l) /\ l2[k0] = v
        /\ \A k \in 1..Len(l) : k # k0 => l2[k] = l[k]
    BY <2>3, <2>5, <2>6
  <2>8. k0 \in Nat /\ AddedTo(l2, l, r, k0)
    BY <2>3, <2>5, <2>7 DEF AddedTo, PairIs
  <2> QED
    BY <2>7, <2>8 DEF l2
<1>3. CASE found = {}
  <2>1. l2 = Append(l, e)
    BY <1>1, <1>3
  <2>2. e \in MatchType /\ e.text0 = r.text0 /\ e.text1 = r.text1 /\ e.size = r.size
    BY DEF MatchType
  <2> HIDE DEF e, l2
  <2>3. /\ l2 \in Seq(MatchType) /\ Len(l2) = Len(l) + 1 /\ l2[Len(l) + 1] = e
        /\ \A k \in 1..Len(l) : l2[k] = l[k]
        /\ Len(l) \in Nat
    BY <2>1, <2>2
  <2>4. \A k \in 1..Len(l) : ~PairIs(l[k], r.text0, r.text1)
    BY <1>3 DEF PairIs
  <2>5. AddedTo(l2, l, r, Len(l) + 1)
    BY <2>2, <2>3, <2>4 DEF AddedTo, PairIs
  <2> QED
    BY <2>3, <2>5 DEF l2
<1> QED
  BY <1>2, <1>3

-----------------------------------------------------------------------------
\* An entry of the list of matches is about two different texts, which are not
\* empty, and has the tokens of all their runs.
IsMatch(e) ==
  /\ e.text0 \in 1..NumberOfTexts /\ e.text1 \in 1..NumberOfTexts /\ e.text0 < e.text1
  /\ e.size = Total(e.text0, e.text1) /\ e.size > 0
  /\ Text[e.text0].start < Text[e.text0].limit
  /\ Text[e.text1].start < Text[e.text1].limit

\* Every two texts with a run have one entry.
Matches ==
  option_set("p") =>
    /\ matches \in Seq(MatchType)
    /\ \A k \in 1..Len(matches) : IsMatch(matches[k])
    /\ \A j, k \in 1..Len(matches) :
         PairIs(matches[j], matches[k].text0, matches[k].text1) => j = k
    /\ \A t, u \in 1..NumberOfTexts : t < u /\ Total(t, u) > 0 =>
         \E k \in 1..Len(matches) : PairIs(matches[k], t, u)

\* Without runs no texts have anything in common.
NoTotals == Types /\ RunsGenuine /\ runs = <<>> => \A t, u : Total(t, u) = 0

\* in this state,
LEMMA NoTotalsYet == NoTotals
BY TotalIsNumber DEF NoTotals

\* and in the next one
LEMMA NoTotalsThen == NoTotals'
BY NoTotalsYet, PTL

\* An empty list is right when there are no runs,
LEMMA NoMatches ==
  ASSUME Types', RunsGenuine', runs' = <<>>, matches' = <<>>
  PROVE  Matches'
<1>1. \A t, u : Total(t, u)' = 0
  BY NoTotalsThen DEF NoTotals
<1> QED
  BY <1>1 DEF Matches

\* a list stays right without a new run,
LEMMA MatchesKept ==
  ASSUME Types, RunsGenuine, Types', RunsGenuine', UNCHANGED textVars, runs' = runs,
         matches' = matches, Matches
  PROVE  Matches'
<1>1. \A t, u : Total(t, u)' = Total(t, u)
  BY TotalKept
<1>2. /\ Text' = Text /\ NumberOfTexts' = NumberOfTexts
      /\ option_set("p")' <=> option_set("p")
  BY DEF textVars, NumberOfTexts, option_set
<1>3. \A e : IsMatch(e)' <=> IsMatch(e)
  BY <1>1, <1>2 DEF IsMatch
<1> QED
  BY <1>1, <1>2, <1>3 DEF Matches, PairIs

\* and with one.
LEMMA MatchesGrow ==
  ASSUME IInv, IInv', EnterRun, Matches, NEW a, a = n, NEW b, b = Run.text1
  PROVE  Matches'
<1> SUFFICES ASSUME option_set("p")' PROVE Matches'
  BY DEF Matches
<1>0. /\ AddRun /\ UNCHANGED textVars /\ runs' = Append(runs, Run)
  BY DEF EnterRun, AddRun
<1>1. /\ Text' = Text /\ NumberOfTexts' = NumberOfTexts /\ option_set("p")
  BY <1>0 DEF textVars, NumberOfTexts, option_set
<1>2. matches' = AddToPercentages(matches, Run)
  BY <1>1 DEF EnterRun
<1>3. /\ Run.text0 = a /\ b \in a..NumberOfTexts /\ Run.size = size_best
      /\ size_best \in Nat \ {0} /\ a \in 1..NumberOfTexts
      /\ \A t \in 1..NumberOfTexts, u \in 1..NumberOfTexts : t < u =>
           Total(t, u)' = Total(t, u) + (IF t = a /\ u = b THEN size_best ELSE 0)
  BY <1>0, RunCounts
<1>4. /\ Types /\ RunsGenuine /\ NumberOfTexts \in Nat
      /\ \A t, u : Total(t, u) \in Nat
  BY Lengths, TotalIsNumber DEF IInv
<1>5. b \in 1..NumberOfTexts /\ b \in Nat /\ a \in Nat
  BY <1>3, <1>4
<1>6. /\ matches \in Seq(MatchType)
      /\ \A k \in 1..Len(matches) : IsMatch(matches[k])
      /\ \A j, k \in 1..Len(matches) :
           PairIs(matches[j], matches[k].text0, matches[k].text1) => j = k
      /\ \A t, u \in 1..NumberOfTexts : t < u /\ Total(t, u) > 0 =>
           \E k \in 1..Len(matches) : PairIs(matches[k], t, u)
  BY <1>1 DEF Matches
<1>7. CASE a = b
  <2>1. matches' = matches
    BY <1>2, <1>3, <1>7 DEF AddToPercentages
  <2>2. \A t \in 1..NumberOfTexts, u \in 1..NumberOfTexts : t < u => Total(t, u)' = Total(t, u)
    BY <1>3, <1>4, <1>7
  <2>3. \A e : IsMatch(e) => IsMatch(e)'
    BY <1>1, <2>2 DEF IsMatch
  <2> QED
    BY <1>1, <1>6, <2>1, <2>2, <2>3 DEF Matches, PairIs
<1>8. CASE a # b
  <2>1. a < b
    <3> QED
      BY <1>3, <1>5, <1>8
  <2>2. /\ matches' \in Seq(MatchType)
        /\ \E k0 \in Nat : AddedTo(matches', matches, Run, k0)
    <3>1. Run.text0 \in Nat /\ Run.text1 \in Nat /\ Run.size \in Nat /\ Run.text0 # Run.text1
      BY <1>3, <1>5, <1>8
    <3> QED
      BY <1>2, <1>6, <3>1, MatchAdded, Zenon
  <2>3. PICK k0 \in Nat : AddedTo(matches', matches, Run, k0)
    BY <2>2
  <2> DEFINE l == matches  l2 == matches'
  <2>4. /\ \/ k0 \in 1..Len(l) /\ PairIs(l[k0], a, b) /\ Len(l2) = Len(l)
              /\ l2[k0].size = l[k0].size + size_best
           \/ k0 = Len(l) + 1 /\ Len(l2) = Len(l) + 1 /\ l2[k0].size = size_best
              /\ \A k \in 1..Len(l) : ~PairIs(l[k], a, b)
        /\ PairIs(l2[k0], a, b) /\ \A k \in 1..Len(l) : k # k0 => l2[k] = l[k]
    BY <1>3, <2>3 DEF AddedTo
  <2>5. /\ Len(l) \in Nat /\ k0 \in 1..Len(l2) /\ Len(l) <= Len(l2)
        /\ \A k \in 1..Len(l2) : k # k0 => k \in 1..Len(l)
    BY <1>6, <2>4
  <2>6. \A k \in 1..Len(l2) : k # k0 => l2[k] = l[k] /\ ~PairIs(l[k], a, b)
    <3>1. ASSUME NEW k \in 1..Len(l2), k # k0 PROVE ~PairIs(l[k], a, b)
      <4>1. k \in 1..Len(l)
        BY <2>5, <3>1
      <4>2. CASE k0 \in 1..Len(l) /\ PairIs(l[k0], a, b)
        BY <1>6, <3>1, <4>1, <4>2 DEF PairIs
      <4> QED
        BY <2>4, <4>1, <4>2
    <3> QED
      BY <2>4, <2>5, <3>1
  <2>7. l2[k0].size = Total(a, b)' /\ l2[k0].size > 0
    <3>1. Total(a, b)' = Total(a, b) + size_best
      <4> QED
        BY <1>3, <1>5, <2>1
    <3>2. CASE k0 \in 1..Len(l) /\ PairIs(l[k0], a, b) /\ l2[k0].size = l[k0].size + size_best
      <4>1. l[k0].size = Total(a, b)
        BY <1>6, <3>2 DEF IsMatch, PairIs
      <4> QED
        BY <1>3, <1>4, <3>1, <3>2, <4>1
    <3>3. CASE l2[k0].size = size_best /\ \A k \in 1..Len(l) : ~PairIs(l[k], a, b)
      <4>1. ~(Total(a, b) > 0)
        BY <1>3, <1>5, <1>6, <2>1, <3>3
      <4>2. Total(a, b) \in Nat
        BY <1>4
      <4> QED
        BY <1>3, <3>1, <3>3, <4>1, <4>2
    <3> QED
      BY <2>4, <3>2, <3>3
  <2>8. Text[a].start < Text[a].limit /\ Text[b].start < Text[b].limit
    <3>1. Types /\ Types' /\ RunsGenuine'
      BY DEF IInv
    <3>2. \E q \in 1..Len(runs') : runs'[q] = Run /\ runs'[q] \in RunType
      <4>1. /\ runs'[Len(runs) + 1] = Run /\ Len(runs) + 1 \in 1..Len(runs')
            /\ runs'[Len(runs) + 1] \in RunType
        BY <1>0, <3>1 DEF Types
      <4> QED
        BY <4>1
    <3>3. PICK q \in 1..Len(runs') : runs'[q] = Run /\ runs'[q] \in RunType
      BY <3>2
    <3> DEFINE r == Run
    <3> HIDE DEF r
    <3>4. /\ r.pos0 >= 0 /\ Text[r.text0].start + r.pos0 + r.size <= Text[r.text0].limit
          /\ r.pos1 >= 0 /\ Text[r.text1].start + r.pos1 + r.size <= Text[r.text1].limit
          /\ r.pos0 \in Int /\ r.pos1 \in Int
      <4>1. r = runs'[q] /\ r \in RunType
        BY <3>3 DEF r
      <4>2. Genuine(runs[q])'
        BY <3>1 DEF RunsGenuine
      <4> QED
        BY <1>1, <4>1, <4>2 DEF Genuine, RunType
    <3>5. r.text0 = a /\ r.text1 = b /\ r.size = size_best
      BY <1>3 DEF r
    <3>6. /\ Text[a].start \in Nat /\ Text[a].limit \in Nat
          /\ Text[b].start \in Nat /\ Text[b].limit \in Nat
      BY <1>3, <1>4, <1>5, Lengths DEF TextType
    <3>7. /\ r.pos0 \in Int /\ r.pos0 >= 0
          /\ Text[a].start + r.pos0 + size_best <= Text[a].limit
          /\ r.pos1 \in Int /\ r.pos1 >= 0
          /\ Text[b].start + r.pos1 + size_best <= Text[b].limit
      BY <3>4, <3>5
    <3>8. size_best \in Nat \ {0}
      BY <1>3
    <3> QED
      BY <3>6, <3>7, <3>8, SMTT(30)
  <2>9. ASSUME NEW k \in 1..Len(l2) PROVE IsMatch(matches[k])'
    <3>1. CASE k = k0
      BY <1>1, <1>3, <1>5, <2>1, <2>4, <2>7, <2>8, <3>1 DEF IsMatch, PairIs
    <3>2. CASE k # k0
      <4>1. IsMatch(l[k]) /\ l2[k] = l[k] /\ ~PairIs(l[k], a, b)
        BY <1>6, <2>5, <2>6, <3>2
      <4>2. Total(l[k].text0, l[k].text1)' = Total(l[k].text0, l[k].text1)
        BY <1>3, <1>4, <4>1 DEF IsMatch, PairIs
      <4> QED
        BY <1>1, <4>1, <4>2 DEF IsMatch
    <3> QED
      BY <3>1, <3>2
  <2>10. ASSUME NEW j \in 1..Len(l2), NEW k \in 1..Len(l2), PairIs(l2[j], l2[k].text0, l2[k].text1)
         PROVE  j = k
    <3>1. CASE j # k0 /\ k # k0
      BY <1>6, <2>5, <2>6, <2>10, <3>1
    <3>2. CASE j = k0 \/ k = k0
      BY <2>4, <2>6, <2>10, <3>2 DEF PairIs
    <3> QED
      BY <3>1, <3>2
  <2>11. ASSUME NEW t \in 1..NumberOfTexts, NEW u \in 1..NumberOfTexts, t < u, Total(t, u)' > 0
         PROVE  \E k \in 1..Len(l2) : PairIs(l2[k], t, u)
    <3>1. CASE t = a /\ u = b
      BY <2>4, <2>5, <3>1
    <3>2. CASE ~(t = a /\ u = b)
      <4>1. Total(t, u) > 0
        BY <1>3, <1>4, <2>11, <3>2
      <4>2. PICK k \in 1..Len(l) : PairIs(l[k], t, u)
        BY <1>6, <2>11, <4>1
      <4>3. k # k0
        <5>1. k = k0 => PairIs(l[k], a, b)
          BY <2>4, <2>5, <4>2
        <5> QED
          BY <3>2, <4>2, <5>1 DEF PairIs
      <4>4. l2[k] = l[k] /\ k \in 1..Len(l2)
        BY <2>4, <2>5, <4>3
      <4> QED
        BY <4>2, <4>4
    <3> QED
      BY <3>1, <3>2
  <2> QED
    BY <1>1, <2>2, <2>9, <2>10, <2>11 DEF Matches
<1> QED
  BY <1>7, <1>8

\* Every step of the program keeps the totals and the list of matches right.
LEMMA TotalsStep ==
  ASSUME EarlyInv \/ LaterInv, Shared, Matches, [SimNext]_allVars
  PROVE  Shared' /\ Matches'
<1>1. CASE EarlyInv
  <2>0. Early /\ FInv /\ IInv /\ Stages
    BY <1>1 DEF EarlyInv, FInv
  <2>1. [Next]_vars
    BY <2>0, EarlyStep
  <2>2. IInv'
    <3>1. FInv'
      BY <2>0, <2>1, ForwardStep
    <3> QED
      BY <3>1 DEF FInv
  <2>3. Types /\ RunsGenuine /\ Types' /\ RunsGenuine'
    BY <2>0, <2>2 DEF IInv
  <2>4. CASE EnterRun
    <3>1. Shared'
      <4>1. AddRun
        BY <2>4 DEF EnterRun
      <4> QED
        BY <2>0, <2>2, <4>1, SharedGrows
    <3>2. \A a, b : a = n /\ b = Run.text1 => Matches'
      BY <2>0, <2>2, <2>4, MatchesGrow
    <3> QED
      BY <3>1, <3>2
  <2>5. ASSUME runs' = runs, matches' = matches,
               UNCHANGED textVars \/ (runs = <<>> /\ matches = <<>>)
        PROVE  Shared' /\ Matches'
    <3>1. ~AddRun
      <4> SUFFICES ASSUME AddRun PROVE FALSE
        OBVIOUS
      <4>1. runs' = Append(runs, Run)
        BY DEF AddRun
      <4>2. Len(runs') = Len(runs) + 1 /\ Len(runs) \in Nat
        BY <2>3, <4>1 DEF Types
      <4> QED
        BY <2>5, <4>2
    <3>2. Shared'
      BY <2>0, <2>1, <2>2, <2>5, <3>1, SharedStep
    <3>3. Matches'
      <4>1. CASE UNCHANGED textVars
        BY <2>3, <2>5, <4>1, MatchesKept
      <4>2. CASE runs = <<>> /\ matches = <<>>
        BY <2>3, <2>5, <4>2, NoMatches
      <4> QED
        BY <2>5, <4>1, <4>2
    <3> QED
      BY <3>2, <3>3
  <2>6. CASE UNCHANGED textVars /\ runs' = runs /\ UNCHANGED runVars
    <3>1. runs' = runs /\ matches' = matches /\ UNCHANGED textVars
      BY <2>6 DEF runVars
    <3> QED
      BY <2>5, <3>1
  <2>7. CASE Pass1 /\ UNCHANGED <<hashVars, compareVars>> /\ UNCHANGED runVars
    <3>1. n = 0
      BY <2>0, <2>7 DEF Stages, Pass1, InitOutOfMemory, Separator, OpenFile, EndArgs,
                        TokensOutOfMemory, ReadToken, ReadEol, EndFile
    <3>2. runs = <<>> /\ matches = <<>>
      BY <3>1 DEF Shared
    <3> QED
      BY <2>5, <2>7, <3>2 DEF runVars, compareVars
  <2> QED
    BY <2>0, <2>4, <2>6, <2>7, EarlyMoves
<1>2. CASE LaterInv
  <2>1. Later /\ Found /\ Types /\ RunsGenuine
    BY <1>2 DEF LaterInv, Found
  <2>2. UNCHANGED searchVars /\ Later'
    BY <2>1, LaterStep
  <2>3. UNCHANGED textVars /\ runs' = runs /\ n' = n /\ n # 0 /\ pc' \notin {"range", "lcs"}
    BY <2>1, <2>2 DEF searchVars, compareVars, Found, Later
  <2>4. Types' /\ RunsGenuine'
    <3>1. Found'
      BY <2>1, <2>2, FoundKept
    <3> QED
      BY <3>1 DEF Found
  <2>5. matches' = matches
    BY <2>1, LaterMoves
    DEF Pass2, SkipText, OpenText2, NextLine, NoMoreLines, OnThisLine, CloseText2, Pass3,
        StartPass3, ReportOutOfMemory, ShowRun, Finish, Disappear, allVars, runVars
  <2>6. Matches'
    BY <2>1, <2>3, <2>4, <2>5, MatchesKept
  <2>7. \A t, u : Total(t, u)' = Total(t, u)
    BY <2>1, <2>3, <2>4, TotalKept
  <2>8. Text' = Text /\ NumberOfTexts' = NumberOfTexts
    BY <2>3 DEF textVars, NumberOfTexts
  <2>9. \A t, u \in 1..NumberOfTexts : t < u =>
          /\ Total(t, u) <= Text[t].limit - Text[t].start
          /\ t > n => Total(t, u) = 0
    BY <2>3 DEF Shared
  <2>10. Shared'
    BY <2>3, <2>7, <2>8, <2>9 DEF Shared
  <2> QED
    BY <2>6, <2>10
<1> QED
  BY <1>1, <1>2

\* They are right at the start.
LEMMA TotalsStart == SimInit => Shared /\ Matches
<1> SUFFICES ASSUME SimInit PROVE Shared /\ Matches
  OBVIOUS
<1>1. n = 0 /\ runs = <<>> /\ matches = <<>>
  BY DEF SimInit, Init, InitCompare
<1>2. Types /\ RunsGenuine
  BY ForwardInit DEF SimInit, FInv, IInv
<1>3. \A t, u : Total(t, u) = 0
  BY <1>1, <1>2, TotalIsNumber
<1> QED
  BY <1>1, <1>3 DEF Shared, Matches

-----------------------------------------------------------------------------
\* What is printed with option p.
Percentages == option_set("p") /\ pc = "done" => report = show_percentages

\* The percentages depend on the texts and the list of matches.
LEMMA PercentagesKept ==
  ASSUME UNCHANGED textVars, matches' = matches
  PROVE  show_percentages' = show_percentages
<1>1. Text' = Text
  BY DEF textVars
<1>2. AddReverseEntries(matches') = AddReverseEntries(matches)
  BY DEF AddReverseEntries
<1>3. \A e : size0(e)' = size0(e)
  BY <1>1 DEF size0
<1>4. \A e, f : LargerPart(e, f)' <=> LargerPart(e, f)
  BY <1>3 DEF LargerPart
<1> QED
  BY <1>3, <1>4 DEF show_percentages

\* Every step keeps what is printed.
LEMMA PercentagesStep ==
  ASSUME EarlyInv \/ LaterInv, Percentages, [SimNext]_allVars
  PROVE  Percentages'
<1>1. CASE EarlyInv
  <2>1. Early' \/ CompareDone
    BY <1>1, EarlyStep DEF EarlyInv
  <2>2. pc' # "done"
    BY <2>1 DEF Early, CompareDone
  <2> QED
    BY <2>2 DEF Percentages
<1>2. CASE LaterInv
  <2>1. Later
    BY <1>2 DEF LaterInv
  <2>2. UNCHANGED textVars
    BY <2>1, LaterStep DEF searchVars
  <2>3. opt' = opt
    BY <2>2 DEF textVars
  <2>4. matches' = matches
    BY <2>1, LaterMoves
    DEF Pass2, SkipText, OpenText2, NextLine, NoMoreLines, OnThisLine, CloseText2, Pass3,
        StartPass3, ReportOutOfMemory, ShowRun, Finish, Disappear, allVars, runVars
  <2>5. show_percentages' = show_percentages
    BY <2>2, <2>4, PercentagesKept
  <2>6. CASE Finish
    BY <2>3, <2>5, <2>6 DEF Finish, Percentages, option_set
  <2>7. CASE ~Finish
    <3>1. pc' = "done" => pc = "done" /\ report' = report
      BY <2>1, <2>7, LaterMoves
      DEF Pass2, SkipText, OpenText2, NextLine, NoMoreLines, OnThisLine, CloseText2, Pass3,
          StartPass3, ReportOutOfMemory, ShowRun, Disappear, allVars, vars, showVars
    <3> QED
      BY <2>3, <2>5, <3>1 DEF Percentages, option_set
  <2> QED
    BY <2>6, <2>7
<1> QED
  BY <1>1, <1>2

\* The invariants of the percentages.
LEMMA TotalsInvariant == SimSpec => [](Shared /\ Matches /\ Percentages)
<1>1. SimInit => Shared /\ Matches
  BY TotalsStart
<1>2. SimInit => Percentages
  BY DEF SimInit, Init, InitPass1, Percentages
<1>3. (EarlyInv \/ LaterInv) /\ Shared /\ Matches /\ [SimNext]_allVars => Shared' /\ Matches'
  BY TotalsStep
<1>4. (EarlyInv \/ LaterInv) /\ Percentages /\ [SimNext]_allVars => Percentages'
  BY PercentagesStep
<1> QED
  BY <1>1, <1>2, <1>3, <1>4, SimInvariant, PTL DEF SimSpec, allVars

\* The list of matches and their doubles.
LEMMA ReverseEntries ==
  ASSUME NEW l \in Seq(MatchType), NEW s, s = AddReverseEntries(l)
  PROVE  /\ s \in Seq(MatchType) /\ Len(s) = 2 * Len(l) /\ Len(l) \in Nat
         /\ \A k \in 1..Len(l) :
              /\ 2 * k \in 1..Len(s) /\ 2 * k - 1 \in 1..Len(s)
              /\ s[2 * k - 1] = l[k]
              /\ s[2 * k].text0 = l[k].text1 /\ s[2 * k].text1 = l[k].text0
              /\ s[2 * k].size = l[k].size
         /\ \A q \in 1..Len(s) : \E k \in 1..Len(l) : q = 2 * k \/ q = 2 * k - 1
<1> DEFINE n0 == Len(l)
           Entry(q) == LET e == l[(q + 1) \div 2]
                       IN  IF q % 2 = 1 THEN e ELSE [e EXCEPT !.text0 = e.text1, !.text1 = e.text0]
<1>1. n0 \in Nat
  OBVIOUS
<1>2. s = [q \in 1..(2 * n0) |-> Entry(q)]
  BY DEF AddReverseEntries
<1>3. ASSUME NEW q \in 1..(2 * n0)
      PROVE  \E k \in 1..n0 : q = 2 * k \/ q = 2 * k - 1
  <2> DEFINE k == (q + 1) \div 2
  <2> HIDE DEF n0
  <2>1. k \in 1..n0 /\ (q = 2 * k \/ q = 2 * k - 1)
    BY <1>1
  <2> QED
    BY <2>1
<1>4. ASSUME NEW k \in 1..n0
      PROVE  /\ 2 * k \in 1..(2 * n0) /\ 2 * k - 1 \in 1..(2 * n0)
             /\ (2 * k + 1) \div 2 = k /\ ((2 * k - 1) + 1) \div 2 = k
             /\ (2 * k) % 2 # 1 /\ (2 * k - 1) % 2 = 1
  <2> HIDE DEF n0
  <2> QED
    BY <1>1
<1>5. \A k \in 1..n0 : l[k] \in MatchType
  OBVIOUS
<1>6. ASSUME NEW k \in 1..n0
      PROVE  /\ Entry(2 * k - 1) = l[k]
             /\ Entry(2 * k) = [l[k] EXCEPT !.text0 = l[k].text1, !.text1 = l[k].text0]
  <2>1. ((2 * k - 1) + 1) \div 2 = k /\ (2 * k - 1) % 2 = 1
        /\ (2 * k + 1) \div 2 = k /\ (2 * k) % 2 # 1
    BY <1>4
  <2> QED
    BY <2>1
<1>7. ASSUME NEW k \in 1..n0
      PROVE  /\ Entry(2 * k - 1) \in MatchType /\ Entry(2 * k) \in MatchType
             /\ Entry(2 * k).text0 = l[k].text1 /\ Entry(2 * k).text1 = l[k].text0
             /\ Entry(2 * k).size = l[k].size
  <2> DEFINE e == l[k]
  <2>1. e \in MatchType /\ Entry(2 * k - 1) = e
        /\ Entry(2 * k) = [e EXCEPT !.text0 = e.text1, !.text1 = e.text0]
    BY <1>5, <1>6
  <2> HIDE DEF e, Entry
  <2>2. /\ Entry(2 * k) \in MatchType
        /\ Entry(2 * k).text0 = e.text1 /\ Entry(2 * k).text1 = e.text0
        /\ Entry(2 * k).size = e.size
    BY <2>1 DEF MatchType
  <2> QED
    BY <2>1, <2>2 DEF e
<1> HIDE DEF Entry, n0
<1>8. \A q \in 1..(2 * n0) : Entry(q) \in MatchType
  BY <1>3, <1>7
<1>9. s \in Seq(MatchType) /\ Len(s) = 2 * n0
  <2>1. 2 * n0 \in Nat
    BY <1>1
  <2> QED
    BY <1>2, <1>8, <2>1
<1>10. \A q \in 1..Len(s) : \E k \in 1..n0 : q = 2 * k \/ q = 2 * k - 1
  BY <1>3, <1>9
<1>11. ASSUME NEW k \in 1..n0
       PROVE  /\ 2 * k \in 1..Len(s) /\ 2 * k - 1 \in 1..Len(s)
              /\ s[2 * k - 1] = l[k]
              /\ s[2 * k].text0 = l[k].text1 /\ s[2 * k].text1 = l[k].text0
              /\ s[2 * k].size = l[k].size
  <2>1. 2 * k \in 1..(2 * n0) /\ 2 * k - 1 \in 1..(2 * n0)
    BY <1>4
  <2>2. s[2 * k] = Entry(2 * k) /\ s[2 * k - 1] = Entry(2 * k - 1)
    BY <1>2, <2>1
  <2> QED
    BY <1>6, <1>7, <1>9, <2>1, <2>2
<1> QED
  BY <1>1, <1>9, <1>10, <1>11 DEF n0

-----------------------------------------------------------------------------
\* An entry of the report: the tokens two different texts have in common, of the
\* tokens of the first one.
IsEntry(e) ==
  /\ e.text0 \in 1..NumberOfTexts /\ e.text1 \in 1..NumberOfTexts /\ e.text0 # e.text1
  /\ e.size = Total(e.text0, e.text1) /\ e.size \in Nat /\ e.size > 0
  /\ size0(e) \in Nat /\ size0(e) > 0
  /\ e.text0 < e.text1 => e.size <= size0(e)

\* one for every two texts with a run, in each direction
Entries(s) ==
  /\ s \in Seq(MatchType)
  /\ \A k \in 1..Len(s) : IsEntry(s[k])
  /\ \A j, k \in 1..Len(s) : PairIs(s[j], s[k].text0, s[k].text1) => j = k
  /\ \A t, u \in 1..NumberOfTexts : t # u /\ Total(t, u) > 0 =>
       \E k \in 1..Len(s) : PairIs(s[k], t, u)

\* The list of matches with its doubles is one.
LEMMA EntriesAre ==
  ASSUME Types, RunsGenuine, Tiles, Shared, Matches, option_set("p")
  PROVE  Entries(AddReverseEntries(matches))
<1> DEFINE l == matches  s == AddReverseEntries(l)
<1>1. /\ l \in Seq(MatchType)
      /\ \A k \in 1..Len(l) : IsMatch(l[k])
      /\ \A j, k \in 1..Len(l) : PairIs(l[j], l[k].text0, l[k].text1) => j = k
      /\ \A t, u \in 1..NumberOfTexts : t < u /\ Total(t, u) > 0 =>
           \E k \in 1..Len(l) : PairIs(l[k], t, u)
  BY DEF Matches
<1>2. NumberOfTexts \in Nat /\ \A t \in 1..NumberOfTexts : Text[t] \in TextType
  BY Lengths
<1>3. \A t, u : Total(t, u) \in Nat /\ Total(u, t) = Total(t, u)
  BY TotalIsNumber
<1>4. ASSUME NEW k \in 1..Len(l)
      PROVE  n # 0
  <2>1. l # <<>>
    BY <1>1, <1>4
  <2> QED
    BY <2>1 DEF Shared
<1> HIDE DEF s, l
<1>5. /\ s \in Seq(MatchType) /\ Len(s) = 2 * Len(l) /\ Len(l) \in Nat
      /\ \A k \in 1..Len(l) :
           /\ 2 * k \in 1..Len(s) /\ 2 * k - 1 \in 1..Len(s)
           /\ s[2 * k - 1] = l[k]
           /\ s[2 * k].text0 = l[k].text1 /\ s[2 * k].text1 = l[k].text0
           /\ s[2 * k].size = l[k].size
      /\ \A q \in 1..Len(s) : \E k \in 1..Len(l) : q = 2 * k \/ q = 2 * k - 1
  BY <1>1, ReverseEntries DEF s
<1>6. ASSUME NEW k \in 1..Len(l)
      PROVE  IsEntry(s[2 * k - 1]) /\ IsEntry(s[2 * k])
  <2> DEFINE e == l[k]  t == l[k].text0  u == l[k].text1
             d0 == Text[t].limit - Text[t].start  d1 == Text[u].limit - Text[u].start
  <2>1. /\ t \in 1..NumberOfTexts /\ u \in 1..NumberOfTexts /\ t < u
        /\ e.size = Total(t, u) /\ e.size > 0
        /\ Text[t].start < Text[t].limit /\ Text[u].start < Text[u].limit
    BY <1>1 DEF IsMatch
  <2>2. t \in Int /\ u \in Int /\ t # u
    BY <1>2, <2>1
  <2>3. e.size \in Nat /\ e.size = Total(u, t)
    BY <1>3, <2>1
  <2>4. d0 \in Nat /\ d0 > 0 /\ d1 \in Nat /\ d1 > 0
    <3>1. /\ Text[t] \in TextType /\ Text[u] \in TextType
          /\ Text[t].start < Text[t].limit /\ Text[u].start < Text[u].limit
      BY <1>2, <2>1
    <3> HIDE DEF t, u
    <3>2. /\ Text[t].limit \in Nat /\ Text[t].start \in Nat
          /\ Text[u].limit \in Nat /\ Text[u].start \in Nat
      BY <3>1 DEF TextType
    <3> QED
      BY <3>1, <3>2
  <2>5. e.size <= d0
    BY <1>4, <2>1 DEF Shared
  <2>6. size0(s[2 * k - 1]) = d0 /\ size0(s[2 * k]) = d1
    BY <1>5 DEF size0
  <2>7. /\ s[2 * k - 1].text0 = t /\ s[2 * k - 1].text1 = u /\ s[2 * k - 1].size = e.size
        /\ s[2 * k].text0 = u /\ s[2 * k].text1 = t /\ s[2 * k].size = e.size
    BY <1>5
  <2> DEFINE z == e.size
  <2> HIDE DEF t, u, d0, d1, z
  <2>8. s[2 * k - 1].size = z /\ s[2 * k].size = z /\ z \in Nat /\ z > 0 /\ z <= d0
        /\ z = Total(t, u) /\ z = Total(u, t)
    BY <2>1, <2>3, <2>5, <2>7 DEF z
  <2>9. IsEntry(s[2 * k - 1])
    BY <2>1, <2>2, <2>4, <2>6, <2>7, <2>8 DEF IsEntry
  <2>10. ~(u < t)
    BY <2>1, <2>2
  <2> QED
    BY <2>1, <2>2, <2>4, <2>6, <2>7, <2>8, <2>9, <2>10 DEF IsEntry
<1>7. \A q \in 1..Len(s) : IsEntry(s[q])
  BY <1>5, <1>6
<1>8. ASSUME NEW p \in 1..Len(s), NEW q \in 1..Len(s), PairIs(s[p], s[q].text0, s[q].text1)
      PROVE  p = q
  <2>1. PICK j \in 1..Len(l) : p = 2 * j \/ p = 2 * j - 1
    BY <1>5
  <2>2. PICK k \in 1..Len(l) : q = 2 * k \/ q = 2 * k - 1
    BY <1>5
  <2>3. s[p].text0 = s[q].text0 /\ s[p].text1 = s[q].text1
    BY <1>8 DEF PairIs
  <2>4. /\ s[2 * j - 1].text0 = l[j].text0 /\ s[2 * j - 1].text1 = l[j].text1
        /\ s[2 * k - 1].text0 = l[k].text0 /\ s[2 * k - 1].text1 = l[k].text1
        /\ s[2 * j].text0 = l[j].text1 /\ s[2 * j].text1 = l[j].text0
        /\ s[2 * k].text0 = l[k].text1 /\ s[2 * k].text1 = l[k].text0
    BY <1>5
  <2>5. /\ l[j].text0 \in Int /\ l[j].text1 \in Int /\ l[j].text0 < l[j].text1
        /\ l[k].text0 \in Int /\ l[k].text1 \in Int /\ l[k].text0 < l[k].text1
    BY <1>1, <1>2 DEF IsMatch
  <2>6. CASE (p = 2 * j /\ q = 2 * k) \/ (p = 2 * j - 1 /\ q = 2 * k - 1)
    <3>1. l[j].text0 = l[k].text0 /\ l[j].text1 = l[k].text1
      BY <2>3, <2>4, <2>6
    <3>2. j = k
      BY <1>1, <3>1 DEF PairIs
    <3> QED
      BY <2>6, <3>2
  <2>7. CASE (p = 2 * j /\ q = 2 * k - 1) \/ (p = 2 * j - 1 /\ q = 2 * k)
    <3>1. l[j].text0 = l[k].text1 /\ l[j].text1 = l[k].text0
      BY <2>3, <2>4, <2>7
    <3> QED
      BY <2>5, <3>1
  <2> QED
    BY <2>1, <2>2, <2>6, <2>7
<1>9. ASSUME NEW t \in 1..NumberOfTexts, NEW u \in 1..NumberOfTexts, t # u, Total(t, u) > 0
      PROVE  \E q \in 1..Len(s) : PairIs(s[q], t, u)
  <2>1. CASE t < u
    <3>1. PICK k \in 1..Len(l) : PairIs(l[k], t, u)
      BY <1>1, <1>9, <2>1
    <3> QED
      BY <1>5, <3>1 DEF PairIs
  <2>2. CASE u < t
    <3>1. Total(u, t) > 0
      BY <1>3, <1>9
    <3>2. PICK k \in 1..Len(l) : PairIs(l[k], u, t)
      BY <1>1, <2>2, <3>1
    <3> QED
      BY <1>5, <3>2 DEF PairIs
  <2> QED
    BY <1>2, <1>9, <2>1, <2>2
<1> QED
  BY <1>5, <1>7, <1>8, <1>9 DEF Entries, s, l

\* For fractions with positive denominators "not larger" is transitive.
LEMMA NotLargerTransitive ==
  ASSUME NEW a \in Nat, NEW b \in Nat, NEW c \in Nat,
         NEW d \in Nat, d > 0, NEW e \in Nat, e > 0, NEW f \in Nat, f > 0,
         a * e <= b * d, b * f <= c * e
  PROVE  a * f <= c * d
<1>1. \A x, y, z \in Nat : x <= y => x * z <= y * z
  OBVIOUS
<1>2. a * e \in Nat /\ b * d \in Nat /\ b * f \in Nat /\ c * e \in Nat /\ a * f \in Nat /\ c * d \in Nat
  OBVIOUS
<1>3. (a * e) * f <= (b * d) * f
  BY <1>1, <1>2
<1>4. (b * f) * d <= (c * e) * d
  BY <1>1, <1>2
<1>5. (a * e) * f = (a * f) * e /\ (b * d) * f = (b * f) * d /\ (c * e) * d = (c * d) * e
  OBVIOUS
<1>6. (a * f) * e <= (c * d) * e
  <2>1. (a * f) * e \in Nat /\ (b * f) * d \in Nat /\ (c * d) * e \in Nat
    BY <1>2
  <2>2. (a * f) * e <= (b * f) * d /\ (b * f) * d <= (c * d) * e
    BY <1>3, <1>4, <1>5
  <2> QED
    BY <2>1, <2>2
<1>7. \A x, y \in Nat : x * e <= y * e => x <= y
  <2> SUFFICES ASSUME NEW x \in Nat, NEW y \in Nat, y < x
               PROVE  ~(x * e <= y * e)
    OBVIOUS
  <2>1. x - y \in Nat /\ x - y >= 1 /\ x * e = y * e + (x - y) * e
    OBVIOUS
  <2>2. (x - y) * e >= e
    <3> DEFINE w == x - y
    <3>1. w \in Nat /\ w >= 1
      BY <2>1
    <3> HIDE DEF w
    <3>2. w * e >= e
      BY <3>1
    <3> QED
      BY <3>2 DEF w
  <2>3. y * e \in Nat /\ x * e \in Nat /\ (x - y) * e \in Nat
    OBVIOUS
  <2> QED
    BY <2>1, <2>2, <2>3
<1> QED
  BY <1>2, <1>6, <1>7

-----------------------------------------------------------------------------
\* The order of the report is one in which entries may be equal.
LEMMA PartsAreOrdered ==
  ASSUME NEW S, \A e \in S : e.size \in Nat /\ size0(e) \in Nat /\ size0(e) > 0,
         NEW before, before = {e \in S \X S : LargerPart(e[1], e[2])}
  PROVE  WeakOrder(S, before)
<1>1. \A x, y \in S : <<x, y>> \in before <=> LargerPart(x, y)
  OBVIOUS
<1>2. ASSUME NEW x \in S, NEW y \in S
      PROVE  x.size * size0(y) \in Nat /\ y.size * size0(x) \in Nat
  <2> DEFINE a == x.size  b == y.size  d == size0(x)  e == size0(y)
  <2>1. a \in Nat /\ b \in Nat /\ d \in Nat /\ e \in Nat
    OBVIOUS
  <2> HIDE DEF a, b, d, e
  <2>2. a * e \in Nat /\ b * d \in Nat
    BY <2>1
  <2> QED
    BY <2>2 DEF a, b, d, e
<1>3. ASSUME NEW x \in S, NEW y \in S
      PROVE  /\ ~LargerPart(x, y) <=> x.size * size0(y) <= y.size * size0(x)
             /\ LargerPart(x, y) => ~LargerPart(y, x)
  <2> DEFINE v == x.size * size0(y)  w == y.size * size0(x)
  <2>1. v \in Nat /\ w \in Nat
    BY <1>2
  <2>2. (LargerPart(x, y) <=> v > w) /\ (LargerPart(y, x) <=> w > v)
    BY DEF LargerPart
  <2> HIDE DEF v, w
  <2>3. (~LargerPart(x, y) <=> v <= w) /\ (LargerPart(x, y) => ~LargerPart(y, x))
    BY <2>1, <2>2
  <2> QED
    BY <2>3 DEF v, w
<1>4. ASSUME NEW x \in S, NEW y \in S, NEW z \in S, ~LargerPart(x, y), ~LargerPart(y, z)
      PROVE  ~LargerPart(x, z)
  <2> DEFINE a == x.size  b == y.size  c == z.size
             d == size0(x)  e == size0(y)  f == size0(z)
  <2>1. /\ a \in Nat /\ b \in Nat /\ c \in Nat
        /\ d \in Nat /\ d > 0 /\ e \in Nat /\ e > 0 /\ f \in Nat /\ f > 0
    OBVIOUS
  <2>2. a * e <= b * d /\ b * f <= c * e /\ (~LargerPart(x, z) <=> a * f <= c * d)
    BY <1>3, <1>4
  <2> HIDE DEF a, b, c, d, e, f
  <2>3. a * f <= c * d
    BY <2>1, <2>2, NotLargerTransitive
  <2> QED
    BY <2>2, <2>3
<1> QED
  BY <1>1, <1>3, <1>4 DEF WeakOrder

\* Sorting keeps the entries.
LEMMA EntriesSorted ==
  ASSUME NEW s, Entries(s), NEW t, NEW before,
         before = {e \in ToSet(s) \X ToSet(s) : LargerPart(e[1], e[2])},
         t = SortList(s, before)
  PROVE  /\ Entries(t)
         /\ \A j, k \in 1..Len(t) : j < k =>
              t[j].size * size0(t[k]) >= t[k].size * size0(t[j])
<1> DEFINE S == ToSet(s)
<1>1. /\ s \in Seq(MatchType) /\ Len(s) \in Nat
      /\ \A k \in 1..Len(s) : IsEntry(s[k])
      /\ \A j, k \in 1..Len(s) : PairIs(s[j], s[k].text0, s[k].text1) => j = k
      /\ \A x, y \in 1..NumberOfTexts : x # y /\ Total(x, y) > 0 =>
           \E k \in 1..Len(s) : PairIs(s[k], x, y)
  BY DEF Entries
<1>2. S = {s[k] : k \in 1..Len(s)} /\ S \subseteq MatchType
  BY <1>1, SetOf
<1>3. \A e \in S : e.size \in Nat /\ size0(e) \in Nat /\ size0(e) > 0
  BY <1>1, <1>2 DEF IsEntry
<1>4. before = {e \in S \X S : LargerPart(e[1], e[2])}
  OBVIOUS
<1>5. s \in Seq(S)
  <2>1. s \in [1..Len(s) -> MatchType]
    BY <1>1
  <2>2. s \in [1..Len(s) -> S]
    BY <1>2, <2>1
  <2> HIDE DEF S
  <2> QED
    BY <1>1, <2>2
<1> HIDE DEF S
<1>6. WeakOrder(S, before)
  BY <1>3, <1>4, PartsAreOrdered
<1>7. t \in Seq(S) /\ SortedFrom(t, s, before)
  BY <1>5, <1>6, Sorts, Zenon
<1>8. Len(t) = Len(s) /\ t \in Seq(MatchType)
  <2>1. Len(t) = Len(s)
    BY <1>7 DEF SortedFrom, Permuted
  <2>2. t \in [1..Len(t) -> S]
    BY <1>7, LenProperties, Zenon
  <2>3. t \in [1..Len(t) -> MatchType]
    BY <1>2, <2>2
  <2> QED
    BY <1>1, <2>1, <2>3
<1>9. PICK f : Through(f, Len(s), t, s)
  BY <1>7 DEF SortedFrom, Permuted
<1>10. /\ \A k \in 1..Len(s) : f[k] \in 1..Len(s) /\ t[k] = s[f[k]]
       /\ \A j, k \in 1..Len(s) : f[j] = f[k] => j = k
       /\ \A k \in 1..Len(s) : \E j \in 1..Len(s) : f[j] = k
  BY <1>9 DEF Through
<1>11. ASSUME NEW j \in 1..Len(t), NEW k \in 1..Len(t), PairIs(t[j], t[k].text0, t[k].text1)
       PROVE  j = k
  <2>1. /\ f[j] \in 1..Len(s) /\ f[k] \in 1..Len(s) /\ t[j] = s[f[j]] /\ t[k] = s[f[k]]
    BY <1>8, <1>10
  <2>2. f[j] = f[k]
    BY <1>1, <1>11, <2>1
  <2> QED
    BY <1>8, <1>10, <2>2
<1>12. ASSUME NEW x \in 1..NumberOfTexts, NEW y \in 1..NumberOfTexts, x # y, Total(x, y) > 0
       PROVE  \E k \in 1..Len(t) : PairIs(t[k], x, y)
  <2>1. PICK k \in 1..Len(s) : PairIs(s[k], x, y)
    BY <1>1, <1>12
  <2>2. PICK j \in 1..Len(s) : f[j] = k
    BY <1>10
  <2>3. t[j] = s[k]
    BY <1>10, <2>2
  <2> QED
    BY <1>8, <2>1, <2>3
<1>13. Entries(t)
  <2>1. \A k \in 1..Len(t) : IsEntry(t[k])
    <3>1. \A k \in 1..Len(s) : f[k] \in 1..Len(s) /\ t[k] = s[f[k]]
      BY <1>10
    <3> QED
      BY <1>1, <1>8, <3>1
  <2> QED
    BY <1>8, <1>11, <1>12, <2>1, Zenon DEF Entries
<1>14. ASSUME NEW j \in 1..Len(t), NEW k \in 1..Len(t), j < k
       PROVE  t[j].size * size0(t[k]) >= t[k].size * size0(t[j])
  <2>1. <<t[k], t[j]>> \notin before
    BY <1>7, <1>8, <1>14 DEF SortedFrom
  <2>2. t[j] \in S /\ t[k] \in S
    BY <1>7
  <2>3. ~LargerPart(t[k], t[j])
    BY <1>4, <2>1, <2>2
  <2> DEFINE v == t[j].size * size0(t[k])  w == t[k].size * size0(t[j])
  <2>4. v \in Nat /\ w \in Nat
    <3> DEFINE a == t[j].size  b == t[k].size  d == size0(t[j])  e == size0(t[k])
    <3>1. a \in Nat /\ b \in Nat /\ d \in Nat /\ e \in Nat
      BY <1>3, <2>2
    <3> HIDE DEF a, b, d, e
    <3>2. a * e \in Nat /\ b * d \in Nat
      BY <3>1
    <3> QED
      BY <3>2 DEF a, b, d, e
  <2>5. LargerPart(t[k], t[j]) <=> w > v
    BY DEF LargerPart
  <2> HIDE DEF v, w
  <2>6. v >= w
    BY <2>3, <2>4, <2>5
  <2> QED
    BY <2>6 DEF v, w
<1> QED
  BY <1>13, <1>14

-----------------------------------------------------------------------------
\* As many entries as there are pairs.
LEMMA EntriesCounted ==
  ASSUME NEW s, Entries(s),
         \A t, u : Total(t, u) \in Nat
  PROVE  Len(s) = Cardinality({e \in (1..NumberOfTexts) \X (1..NumberOfTexts) :
                                 e[1] # e[2] /\ Total(e[1], e[2]) > 0})
<1> DEFINE n0 == Len(s)
           P == {e \in (1..NumberOfTexts) \X (1..NumberOfTexts) :
                   e[1] # e[2] /\ Total(e[1], e[2]) > 0}
           f == [k \in 1..n0 |-> <<s[k].text0, s[k].text1>>]
<1>1. /\ n0 \in Nat
      /\ \A k \in 1..n0 : IsEntry(s[k])
      /\ \A j, k \in 1..n0 : PairIs(s[j], s[k].text0, s[k].text1) => j = k
      /\ \A t, u \in 1..NumberOfTexts : t # u /\ Total(t, u) > 0 =>
           \E k \in 1..n0 : PairIs(s[k], t, u)
  BY DEF Entries
<1> HIDE DEF n0
<1>2. \A k \in 1..n0 : f[k] = <<s[k].text0, s[k].text1>> /\ f[k] \in P
  BY <1>1 DEF IsEntry
<1>3. ASSUME NEW j \in 1..n0, NEW k \in 1..n0, f[j] = f[k] PROVE j = k
  <2>1. <<s[j].text0, s[j].text1>> = <<s[k].text0, s[k].text1>>
    BY <1>2, <1>3
  <2>2. PairIs(s[j], s[k].text0, s[k].text1)
    BY <2>1 DEF PairIs
  <2> QED
    BY <1>1, <2>2
<1>4. ASSUME NEW e \in P PROVE \E k \in 1..n0 : f[k] = e
  <2>1. /\ e[1] \in 1..NumberOfTexts /\ e[2] \in 1..NumberOfTexts
        /\ e[1] # e[2] /\ Total(e[1], e[2]) > 0 /\ e = <<e[1], e[2]>>
    OBVIOUS
  <2>2. PICK k \in 1..n0 : PairIs(s[k], e[1], e[2])
    BY <1>1, <2>1
  <2>3. f[k] = e
    BY <1>2, <2>1, <2>2 DEF PairIs
  <2> QED
    BY <2>3
<1>5. f \in [1..n0 -> P]
  <2>1. \A k \in 1..n0 : <<s[k].text0, s[k].text1>> \in P
    BY <1>2
  <2> HIDE DEF P
  <2> QED
    BY <2>1
<1> HIDE DEF f, P
<1>6. f \in Bijection(1..n0, P)
  <2>1. DOMAIN f = 1..n0
    BY <1>5
  <2>2. f \in Injection(1..n0, P)
    BY <1>3, <1>5, <2>1 DEF Injection, IsInjective
  <2>3. f \in Surjection(1..n0, P)
    BY <1>4, <1>5 DEF Surjection
  <2> QED
    BY <2>2, <2>3 DEF Bijection
<1>7. ExistsBijection(1..n0, P)
  BY <1>6 DEF ExistsBijection
<1>8. IsFiniteSet(1..n0) /\ Cardinality(1..n0) = IF 1 > n0 THEN 0 ELSE n0 - 1 + 1
  BY <1>1, FS_Interval
<1>9. Cardinality(P) = Cardinality(1..n0)
  BY <1>7, <1>8, FS_Bijection
<1>10. Cardinality(P) = n0
  BY <1>1, <1>8, <1>9
<1> QED
  BY <1>10 DEF n0, P

\* The report of the percentages.
LEMMA PercentagesPrinted ==
  ASSUME Types, RunsGenuine, Tiles, Shared, Matches, option_set("p"), report = show_percentages
  PROVE  PercentagesExact
<1> DEFINE s == AddReverseEntries(matches)
           before == {e \in ToSet(s) \X ToSet(s) : LargerPart(e[1], e[2])}
           t == SortList(s, before)
<1>1. Entries(s)
  BY EntriesAre
<1>2. report = [k \in 1..Len(t) |-> [text0 |-> t[k].text0, text1 |-> t[k].text1,
                                     size |-> t[k].size, size0 |-> size0(t[k])]]
  BY DEF show_percentages
<1>3. before = {e \in ToSet(s) \X ToSet(s) : LargerPart(e[1], e[2])} /\ t = SortList(s, before)
  OBVIOUS
<1> HIDE DEF s, before, t
<1>4. /\ Entries(t)
      /\ \A j, k \in 1..Len(t) : j < k => t[j].size * size0(t[k]) >= t[k].size * size0(t[j])
  BY <1>1, <1>3, EntriesSorted
<1>5. /\ Len(t) \in Nat
      /\ \A k \in 1..Len(t) : IsEntry(t[k])
      /\ \A j, k \in 1..Len(t) : PairIs(t[j], t[k].text0, t[k].text1) => j = k
  BY <1>4 DEF Entries
<1>6. Len(report) = Len(t)
  BY <1>2, <1>5
<1>7. \A k \in 1..Len(t) : /\ report[k].text0 = t[k].text0 /\ report[k].text1 = t[k].text1
                           /\ report[k].size = t[k].size /\ report[k].size0 = size0(t[k])
  BY <1>2
<1>8. \A x, y : Total(x, y) \in Nat
  BY TotalIsNumber
<1>9. Len(report) = Cardinality({e \in (1..NumberOfTexts) \X (1..NumberOfTexts) :
                                   e[1] # e[2] /\ Total(e[1], e[2]) > 0})
  BY <1>4, <1>6, <1>8, EntriesCounted
<1>10. ASSUME NEW k \in 1..Len(report)
       PROVE  /\ report[k].text0 # report[k].text1
              /\ report[k].size = Total(report[k].text0, report[k].text1)
              /\ report[k].text0 < report[k].text1 => report[k].size <= report[k].size0
  BY <1>5, <1>6, <1>7 DEF IsEntry
<1>11. ASSUME NEW k \in 1..Len(report), NEW l \in 1..(k - 1)
       PROVE  /\ <<report[l].text0, report[l].text1>> # <<report[k].text0, report[k].text1>>
              /\ report[l].size * report[k].size0 >= report[k].size * report[l].size0
  <2>1. l \in 1..Len(t) /\ k \in 1..Len(t) /\ l < k /\ l # k
    BY <1>5, <1>6
  <2>2. ~PairIs(t[l], t[k].text0, t[k].text1)
    BY <1>5, <2>1
  <2>3. report[l].text0 = report[k].text0 => report[l].text1 # report[k].text1
    BY <1>7, <2>1, <2>2 DEF PairIs
  <2>4. report[l].size * report[k].size0 >= report[k].size * report[l].size0
    BY <1>4, <1>7, <2>1
  <2> QED
    BY <2>3, <2>4
<1> QED
  BY <1>9, <1>10, <1>11 DEF PercentagesExact

\* Of the whole program, with or without option p: the report has the right lines,
\* but for the cases LinesAreExact leaves out, in the right order; or it has every
\* pair of different texts with runs once in each direction, with all the tokens of
\* its runs, the larger parts first, and a new text has not more in common with a
\* later one than it has tokens.
THEOREM ReportIsExact == SimSpec => []ReportExact
<1>1. EarlyInv \/ LaterInv => Types /\ RunsGenuine /\ Tiles
  BY DEF EarlyInv, LaterInv, FInv, IInv, Found
<1>2. Types /\ RunsGenuine /\ Tiles /\ Shared /\ Matches /\ Percentages =>
        (option_set("p") /\ pc = "done" => PercentagesExact)
  BY PercentagesPrinted DEF Percentages
<1>3. /\ ~option_set("p") => LinesExact
      /\ ~option_set("p") => AllInOrder
      /\ option_set("p") /\ pc = "done" => PercentagesExact
      => ReportExact
  BY DEF ReportExact
<1> QED
  BY <1>1, <1>2, <1>3, SimInvariant, TotalsInvariant, LinesAreExact, ReportInOrder, PTL
=============================================================================
