----------------------------- MODULE SimCompare -----------------------------
(***************************************************************************)
(* The matching half of the similarity tester: hash.c builds the table of  *)
(* forward references over TokenArray, compare.c looks along them for the  *)
(* longest run that starts at each position of a new text, and add_run.c   *)
(* keeps the run.                                                          *)
(*                                                                         *)
(* Each step is one iteration of the loop that is running: of the two      *)
(* hash passes, of the walk along a chain in the second one, of lcs, and   *)
(* of the loops of Compare and compare1text.  hash1 is any function of its *)
(* sample of tokens; hash2 is the pair the code packs into a short.        *)
(***************************************************************************)
EXTENDS SimText, SimLanguage

CONSTANTS
  Hash1(_, _),  \* hash code of a sample of tokens in a table of a given size
  N_SAMPLES,
  Primes        \* prime[], ascending

ASSUME PrimesAssumption ==
  /\ N_SAMPLES \in Nat /\ N_SAMPLES > 1
  /\ \A k \in 1..Len(Primes) : Primes[k] \in Nat \ {0}
  /\ \A c \in Commands : \E k \in 1..Len(Primes) : Primes[k] > Len(c.tokens)
ASSUME Hash1Assumption ==
  \A sample \in [1..N_SAMPLES -> Tokens], k \in 1..Len(Primes) :
    Hash1(sample, Primes[k]) \in 0..(Primes[k] - 1)

VARIABLES
  hash_table_size,
  last_index,
  forward_references,
  n,            \* text to be compared
  m,            \* first text it is being compared to
  i0,           \* position in text n; the loop counter of the hash passes
  i1,           \* position on the chain of i0
  size_best, i_best,
  runs          \* the runs found, in that order

hashVars == <<hash_table_size, last_index, forward_references>>
compareVars == <<n, m, i0, i1, size_best, i_best, runs>>

InitCompare ==
  /\ hash_table_size = 0 /\ last_index = <<>> /\ forward_references = <<>>
  /\ n = 0 /\ m = 0 /\ i0 = 0 /\ i1 = 0 /\ size_best = 0 /\ i_best = 0
  /\ runs = <<>>

-----------------------------------------------------------------------------
(* The forward references *)

\* the n-th sampled token of a run, by a straight line through both ends
SamplePos(k) == (2 * k * (MinRunSize - 1) + (N_SAMPLES - 1)) \div (2 * (N_SAMPLES - 1))

hash1(i) ==
  Hash1([k \in 1..N_SAMPLES |-> TokenArray[i + SamplePos(k - 1)]], hash_table_size)

hash2(i) == <<TokenArray[i], TokenArray[i + MinRunSize - 1]>>

\* a run may start at i: enough tokens are left in the text of i
StartsRun(i) ==
  /\ \E t \in 1..NumberOfTexts : Text[t].start <= i /\ i + MinRunSize - 1 < Text[t].limit
  /\ MayBeStartOfRun(TokenArray[i])

\* init_hash_table: the smallest prime that is large enough, or any smaller
\* one when there is no room for it
InitHashTable ==
  /\ pc = "table"
  /\ \E k \in 1..Len(Primes) :
       /\ \A l \in 1..(k - 1) : Primes[l] < TextLength
       /\ hash_table_size' = Primes[k]
       /\ last_index' = [h \in 0..(Primes[k] - 1) |-> 0]
  /\ forward_references' = [i \in 0..(TextLength - 1) |-> 0]
  /\ i0' = 1
  /\ pc' = "hash1"
  /\ UNCHANGED <<textVars, n, m, i1, size_best, i_best, runs>>

\* calloc finds no room for the smallest table either: fatal.
TableOutOfMemory ==
  /\ pc = "table"
  /\ pc' = "fatal"
  /\ UNCHANGED <<textVars, hashVars, compareVars>>

\* One position of the loops over the texts and over their positions.
Hash1Step ==
  /\ pc = "hash1" /\ i0 < TextLength
  /\ IF StartsRun(i0)
     THEN LET h == hash1(i0) IN
          /\ forward_references' = IF last_index[h] # 0
               THEN [forward_references EXCEPT ![last_index[h]] = i0]
               ELSE forward_references
          /\ last_index' = [last_index EXCEPT ![h] = i0]
     ELSE UNCHANGED <<forward_references, last_index>>
  /\ i0' = i0 + 1
  /\ UNCHANGED <<pc, textVars, hash_table_size, n, m, i1, size_best, i_best, runs>>

\* The second pass starts; it skips position 0, whose reference stays 0.
Hash1Done ==
  /\ pc = "hash1" /\ i0 = TextLength
  /\ i0' = 1 /\ i1' = 1
  /\ pc' = "hash2"
  /\ UNCHANGED <<textVars, hashVars, n, m, size_best, i_best, runs>>

\* the walk gives up at the first sequence that does not match
Hash2Step_GivesUp ==
  /\ pc = "hash2" /\ i0 + MinRunSize < TextLength
  /\ LET j == forward_references[i1] IN
     forward_references' =
       [forward_references EXCEPT ![i0] = IF j # 0 /\ hash2(j) # hash2(i0) THEN 0 ELSE j]
  /\ i0' = i0 + 1 /\ i1' = i0 + 1
  /\ UNCHANGED <<pc, textVars, hash_table_size, last_index, n, m, size_best, i_best, runs>>

\* The chain of i0 is followed to the first token sequence with the same hash
\* code, and the reference of i0 is short-circuited to it, or to zero.
Hash2Step ==
  /\ pc = "hash2" /\ i0 + MinRunSize < TextLength
  /\ LET j == forward_references[i1] IN
     IF j # 0 /\ hash2(j) # hash2(i0)
     THEN i1' = j /\ UNCHANGED <<i0, forward_references>>
     ELSE /\ forward_references' = [forward_references EXCEPT ![i0] = j]
          /\ i0' = i0 + 1 /\ i1' = i0 + 1
  /\ UNCHANGED <<pc, textVars, hash_table_size, last_index, n, m, size_best, i_best, runs>>

-----------------------------------------------------------------------------
(* Compare *)

\* the first text to which text k is compared
First(k) == IF option_set("S") THEN NumberOfNewTexts + 2
            ELSE IF option_set("s") THEN k + 1 ELSE k

\* the range of positions text n is being compared to
i_first == Text[m].start
i_limit == Text[IF option_set("e") THEN m ELSE NumberOfTexts].limit

\* compare1text looks at position i of text n, or is done with it.
LookAt(i) ==
  /\ i0' = i /\ i1' = i
  /\ size_best' = 0 /\ i_best' = 0
  /\ IF i + MinRunSize - 1 < Text[n].limit
     THEN pc' = "lcs" /\ m' = m
     ELSE pc' = "range" /\ m' = (IF option_set("e") THEN m ELSE NumberOfTexts) + 1

Hash2Done ==
  /\ pc = "hash2" /\ i0 + MinRunSize >= TextLength
  /\ n' = 1 /\ m' = First(1)
  /\ pc' = "range"
  /\ UNCHANGED <<textVars, hashVars, i0, i1, size_best, i_best, runs>>

\* compare1text(n, m, ...) starts.
StartRange ==
  /\ pc = "range" /\ n <= NumberOfNewTexts /\ m <= NumberOfTexts
  /\ LookAt(Text[n].start)
  /\ UNCHANGED <<textVars, hashVars, n, runs>>

NextText ==
  /\ pc = "range" /\ n <= NumberOfNewTexts /\ m > NumberOfTexts
  /\ n' = n + 1 /\ m' = First(n + 1)
  /\ UNCHANGED <<pc, textVars, hashVars, i0, i1, size_best, i_best, runs>>

CompareDone ==
  /\ pc = "range" /\ n > NumberOfNewTexts
  /\ pc' = "pass2"
  /\ UNCHANGED <<textVars, hashVars, compareVars>>

\* txt1 is bumped from text n to the text that contains position i.
TextAt(i) == CHOOSE t \in n..NumberOfTexts :
  /\ i < Text[t].limit
  /\ \A u \in n..(t - 1) : i >= Text[u].limit

\* the runs may overlap
Common_Overlapping(i, k) ==
  /\ i0 + k - 1 < Text[n].limit
  /\ i + k - 1 < Text[TextAt(i)].limit
  /\ \A d \in 0..(k - 1) : TokenArray[i0 + d] = TokenArray[i + d]

\* The first k tokens from i0 and from i match; both runs are inside their texts
\* and they do not overlap.
Common(i, k) ==
  /\ i0 + k - 1 < Text[n].limit
  /\ i + k - 1 < Text[TextAt(i)].limit
  /\ i0 + k - 1 < i
  /\ \A d \in 0..(k - 1) : TokenArray[i0 + d] = TokenArray[i + d]

\* the length that would beat the best run so far
min_size == IF size_best # 0 THEN size_best + 1 ELSE MinRunSize

\* the language is asked about the first min_size tokens only
new_size_Shortest(i) ==
  IF Common(i, min_size) /\ MayBeStartOfRun(TokenArray[i0])
  THEN CheckRun(SubSeq(TokenArray, i0, i0 + min_size - 1), option_set("f"))
  ELSE 0

\* what the language accepts of the longest match at i, 0 if there is no match
\* of min_size tokens
new_size(i) ==
  IF Common(i, min_size) /\ MayBeStartOfRun(TokenArray[i0])
  THEN LET size == Max({k \in min_size..Len(TokenArray) : Common(i, k)})
       IN  CheckRun(SubSeq(TokenArray, i0, i0 + size - 1), option_set("f"))
  ELSE 0

\* the next position on the chain, 0 if it is out of range
NextOpportunity ==
  LET i == forward_references[i1] IN IF i # 0 /\ i < i_limit THEN i ELSE 0

\* One iteration of lcs.
LcsStep ==
  /\ pc = "lcs" /\ NextOpportunity # 0
  /\ i1' = NextOpportunity
  /\ LET i == NextOpportunity
         size == IF i < i_first THEN 0 ELSE new_size(i)
     IN IF size >= MinRunSize /\ size > size_best
        THEN size_best' = size /\ i_best' = i
        ELSE UNCHANGED <<size_best, i_best>>
  /\ UNCHANGED <<pc, textVars, hashVars, n, m, i0, runs>>

\* add_run: positions are relative to the texts.
Run == [text0 |-> n, pos0 |-> i0 - Text[n].start,
        text1 |-> TextAt(i_best), pos1 |-> i_best - Text[TextAt(i_best)].start,
        size |-> size_best]

\* lcs found a run, which is entered and skipped.
AddRun ==
  /\ pc = "lcs" /\ NextOpportunity = 0 /\ size_best # 0
  /\ runs' = Append(runs, Run)
  /\ LookAt(i0 + size_best)
  /\ UNCHANGED <<textVars, hashVars, n>>

\* lcs found none: "we try our luck at the next token".
NoRun ==
  /\ pc = "lcs" /\ NextOpportunity = 0 /\ size_best = 0
  /\ LookAt(i0 + 1)
  /\ UNCHANGED <<textVars, hashVars, n, runs>>

\* add_run finds no memory for the run: fatal.
RunOutOfMemory ==
  /\ pc = "lcs" /\ NextOpportunity = 0 /\ size_best # 0
  /\ pc' = "fatal"
  /\ UNCHANGED <<textVars, hashVars, compareVars>>

-----------------------------------------------------------------------------
\* everything but the entering of a run and the end of the comparison
Match ==
  \/ InitHashTable \/ TableOutOfMemory
  \/ Hash1Step \/ Hash1Done \/ Hash2Step \/ Hash2Done
  \/ StartRange \/ NextText \/ LcsStep \/ NoRun \/ RunOutOfMemory

Init == InitPass1 /\ InitCompare

Next == \/ Pass1 /\ UNCHANGED <<hashVars, compareVars>>
        \/ Match \/ AddRun \/ CompareDone

vars == <<pc, textVars, hashVars, compareVars>>

Spec == Init /\ [][Next]_vars

Comparing == pc \in {"range", "lcs", "pass2"}

-----------------------------------------------------------------------------
(* Properties *)

\* The forward reference of a position is the next position with the same hash
\* codes, zero if there is none; so chains never touch each other (hash.c:358)
\* and no repetition is off its chain.
ForwardExact ==
  Comparing =>
    \A i \in 1..(TextLength - 1) :
      LET same == {j \in (i + 1)..(TextLength - 1) :
                     StartsRun(i) /\ StartsRun(j) /\ hash1(j) = hash1(i) /\ hash2(j) = hash2(i)}
      IN  forward_references[i] = IF same = {} THEN 0 ELSE Min(same)

\* the tokens of text t from offset p on
Piece(t, p, size) == [d \in 1..size |-> TokenArray[Text[t].start + p + d - 1]]

\* A reported run is one: both chunks lie in their texts, have the same tokens,
\* at least MinRunSize of them, and do not overlap; the first may start a run and
\* the last end one; the texts are a pair the options ask for ("old files are
\* never compared to each other", sim.1:84; "the contents of a file are not
\* compared to itself", sim.1:124); with option f parentheses balance (sim.1:99).
Genuine(r) ==
  /\ r.text0 \in 1..NumberOfNewTexts /\ r.text1 \in r.text0..NumberOfTexts
  /\ r.size >= MinRunSize
  /\ r.pos0 >= 0 /\ Text[r.text0].start + r.pos0 + r.size <= Text[r.text0].limit
  /\ r.pos1 >= 0 /\ Text[r.text1].start + r.pos1 + r.size <= Text[r.text1].limit
  /\ Piece(r.text0, r.pos0, r.size) = Piece(r.text1, r.pos1, r.size)
  /\ r.text0 = r.text1 => r.pos0 + r.size <= r.pos1
  /\ option_set("s") => r.text0 # r.text1
  /\ option_set("S") => r.text1 > NumberOfNewTexts
  /\ LET str == Piece(r.text0, r.pos0, r.size) IN
     /\ str[1] \notin NonInitials /\ str[r.size] \notin NonFinals
     /\ option_set("f") => Balanced(str, r.size) /\ \A p \in 1..r.size : NoSurplus(str, p)

RunsGenuine == \A k \in 1..Len(runs) : Genuine(runs[k])

-----------------------------------------------------------------------------
(* The comparison implements LongestRuns. *)

\* at a position of text n, or stopped there
AtPosition == pc = "lcs" \/ (pc = "fatal" /\ n \in 1..NumberOfNewTexts)

Promise == INSTANCE LongestRuns WITH
  stage <- IF n = 0 THEN "input"
           ELSE IF pc = "range" \/ AtPosition THEN "work" ELSE "done",
  job   <- IF AtPosition
           THEN <<n, IF option_set("e") THEN {m} ELSE m..NumberOfTexts>> ELSE <<>>,
  at    <- IF AtPosition THEN i0 ELSE 0,
  todo  <- {<<ab[1], IF option_set("e") THEN {ab[2]} ELSE ab[2]..NumberOfTexts>> :
              ab \in {ab \in (1..NumberOfNewTexts) \X (1..NumberOfTexts) :
                 /\ n # 0 /\ First(ab[1]) <= ab[2]
                 /\ ab[1] > n \/ (ab[1] = n /\ (ab[2] > m \/ (ab[2] = m /\ pc = "range")))
                 /\ ~option_set("e") => ab[2] = First(ab[1])}}

\* Hash tables, forward references, pruning by the best run so far and the limits
\* of the ranges lose no repetition and prefer no shorter one: the runs are
\* those the plain quadratic search finds.
Refinement == Promise!Spec
=============================================================================
