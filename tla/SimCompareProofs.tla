-------------------------- MODULE SimCompareProofs --------------------------
(***************************************************************************)
(* Proofs about SimLanguage and SimCompare, for all inputs, options,       *)
(* languages and hash functions: what CheckRun accepts may end a run and,  *)
(* with option f, has balanced parentheses; every run the similarity       *)
(* tester reports is one; and after the two hash passes the reference of a *)
(* position is the next position with the same hash codes.                 *)
(***************************************************************************)
EXTENDS SimCompare, FiniteSetTheorems, WellFoundedInduction, NaturalsInduction, TLAPS

(***************************************************************************)
(* The Language interface, for any four lists of tokens and any string.    *)
(***************************************************************************)

Less == {ss \in Nat \X Nat : ss[1] < ss[2]}

LEMMA LessWellFounded == IsWellFoundedOn(Less, Nat)
<1>1. OpToRel(<, Nat) = Less
  BY DEF Less, OpToRel
<1>2. IsWellFoundedOn(OpToRel(<, Nat), Nat)
  BY NatLessThanWellFounded
<1> QED
  BY <1>1, <1>2, Zenon

LEMMA LeastExists ==
  ASSUME NEW T \in SUBSET Nat, T # {}
  PROVE  \E x \in T : \A y \in T : x <= y
<1>1. PICK x \in T : \A y \in T : ~(<<y, x>> \in Less)
  BY LessWellFounded, WFMin, Zenon
<1>2. ASSUME NEW y \in T PROVE x <= y
  <2>1. x \in Nat /\ y \in Nat
    OBVIOUS
  <2>2. y < x => <<y, x>> \in Less
    BY <2>1 DEF Less
  <2> QED
    BY <1>1, <2>1, <2>2
<1> QED
  BY <1>2

LEMMA GreatestExists ==
  ASSUME NEW N \in Nat, NEW T \in SUBSET (0..N), T # {}
  PROVE  \E x \in T : \A y \in T : y <= x
<1> DEFINE U == {N - k : k \in T}
<1>1. U \in SUBSET Nat
  OBVIOUS
<1>2. U # {}
  OBVIOUS
<1>3. PICK u \in U : \A v \in U : u <= v
  <2> HIDE DEF U
  <2> QED
    BY <1>1, <1>2, LeastExists
<1>4. PICK x \in T : u = N - x
  OBVIOUS
<1>5. ASSUME NEW y \in T PROVE y <= x
  <2>1. N - y \in U
    OBVIOUS
  <2>2. u <= N - y
    BY <2>1, <1>3
  <2> QED
    BY <2>2, <1>4
<1> QED
  BY <1>5

\* The loops that keep the last position with a property find one.
LEMMA MaxIsGreatest ==
  ASSUME NEW N \in Nat, NEW T \in SUBSET (0..N), T # {}
  PROVE  Max(T) \in T /\ \A y \in T : y <= Max(T)
<1>1. PICK x \in T : \A y \in T : x >= y
  <2>1. PICK x \in T : \A y \in T : y <= x
    BY GreatestExists
  <2>2. \A y \in T : x >= y
    BY <2>1
  <2> QED
    BY <2>2
<1>2. Max(T) \in T /\ \A y \in T : Max(T) >= y
  BY <1>1, Zenon DEF Max
<1> QED
  BY <1>2

LEMMA SomePositions ==
  ASSUME NEW p \in Nat, NEW T \in SUBSET (1..p)
  PROVE  IsFiniteSet(T) /\ Cardinality(T) \in Nat
<1>1. IsFiniteSet(1..p)
  BY FS_Interval
<1>2. IsFiniteSet(T)
  BY <1>1, FS_Subset
<1> QED
  BY <1>2, FS_CardinalityType

\* The balance of the first p tokens depends on these only.
LEMMA BalanceOfPrefix ==
  ASSUME NEW s1, NEW s2, NEW k, NEW p \in Nat, \A q \in 1..p : s1[q] = s2[q]
  PROVE  Balance(s1, k, p) = Balance(s2, k, p)
<1>1. {q \in 1..p : s1[q] = Openers[k]} = {q \in 1..p : s2[q] = Openers[k]}
  OBVIOUS
<1>2. {q \in 1..p : s1[q] = Closers[k]} = {q \in 1..p : s2[q] = Closers[k]}
  OBVIOUS
<1> QED
  BY <1>1, <1>2, Zenon DEF Balance

\* Parentheses that balance, with no closer too many before, still do so when
\* tokens that are no closers are cut from the end.
LEMMA CutKeepsBalance ==
  ASSUME NEW str, NEW size \in Nat, NEW cut \in 1..size,
         Balanced(str, size), \A p \in 1..size : NoSurplus(str, p),
         \A q \in (cut + 1)..size : str[q] \in NonFinals
  PROVE  Balanced(str, cut)
<1> SUFFICES ASSUME NEW k \in 1..Len(Openers) PROVE Balance(str, k, cut) = 0
  BY DEF Balanced
<1> DEFINE Open(p) == {q \in 1..p : str[q] = Openers[k]}
           Close(p) == {q \in 1..p : str[q] = Closers[k]}
<1>1. Close(cut) = Close(size)
  BY ParenthesesAssumption, ClosersAssumption
<1>2. /\ Open(size) \in SUBSET (1..size) /\ Open(cut) \in SUBSET (1..cut)
      /\ Open(cut) \in SUBSET Open(size) /\ Close(size) \in SUBSET (1..size)
      /\ cut \in Nat
  OBVIOUS
<1>3. /\ Cardinality(Open(cut)) <= Cardinality(Open(size))
      /\ Cardinality(Open(cut)) \in Nat /\ Cardinality(Open(size)) \in Nat
      /\ Cardinality(Close(size)) \in Nat
  <2> HIDE DEF Open, Close
  <2> QED
    BY <1>2, SomePositions, FS_Subset
<1>4. Cardinality(Open(size)) - Cardinality(Close(size)) = 0
  BY Zenon DEF Balanced, Balance
<1>5. Cardinality(Open(cut)) - Cardinality(Close(cut)) >= 0
  <2>1. NoSurplus(str, cut)
    OBVIOUS
  <2> QED
    BY <2>1, Zenon DEF NoSurplus, Balance
<1>6. Cardinality(Open(cut)) - Cardinality(Close(cut)) = 0
  <2> HIDE DEF Open, Close
  <2> QED
    BY <1>1, <1>3, <1>4, <1>5
<1> QED
  BY <1>6, Zenon DEF Balance

\* What is accepted of a string may end a run, and with option f it has
\* balanced parentheses and nowhere a closer too many.
THEOREM CheckRunAccepts ==
  ASSUME NEW S, NEW str \in Seq(S), NEW f \in BOOLEAN,
         NEW size, size = CheckRun(str, f)
  PROVE  /\ size \in 0..Len(str)
         /\ size # 0 => str[size] \notin NonFinals
         /\ f /\ size # 0 => Balanced(str, size) /\ \A p \in 1..size : NoSurplus(str, p)
<1> DEFINE Balances == {p \in 0..Len(str) : p = 0 \/ /\ Balanced(str, p)
                                                     /\ \A q \in 1..p : NoSurplus(str, q)}
           full == IF f THEN LargestFunction(str) ELSE Len(str)
           Ends == {k \in 0..full : k = 0 \/ str[k] \notin NonFinals}
<1>0. Len(str) \in Nat
  OBVIOUS
<1>1. full \in 0..Len(str) /\ full \in Nat /\ (f => full \in Balances)
  <2>1. 0 \in Balances
    BY <1>0
  <2>2. Balances \in SUBSET (0..Len(str))
    OBVIOUS
  <2>3. Max(Balances) \in Balances
    <3> HIDE DEF Balances
    <3> QED
      BY <1>0, <2>1, <2>2, MaxIsGreatest
  <2>4. LargestFunction(str) = Max(Balances)
    BY DEF LargestFunction
  <2> QED
    BY <1>0, <2>2, <2>3, <2>4
<1>2. f /\ full # 0 => Balanced(str, full) /\ \A q \in 1..full : NoSurplus(str, q)
  BY <1>1
<1> HIDE DEF full
<1>3. Max(Ends) \in Ends /\ \A k \in Ends : k <= Max(Ends)
  <2>1. Ends \in SUBSET (0..full) /\ 0 \in Ends /\ full \in Nat
    BY <1>0, <1>1
  <2> HIDE DEF Ends
  <2> QED
    BY <2>1, MaxIsGreatest
<1>4. size = Max(Ends)
  BY DEF CheckRun, full
<1>5. size \in 0..full /\ (size # 0 => str[size] \notin NonFinals)
  BY <1>3, <1>4
<1>6. ASSUME f, size # 0
      PROVE  Balanced(str, size) /\ \A p \in 1..size : NoSurplus(str, p)
  <2>0. size \in 0..full /\ full \in Nat
    BY <1>1, <1>5
  <2>1. size \in 1..full /\ full \in Nat /\ full # 0
    <3>1. size # 0
      BY <1>6
    <3> QED
      BY <2>0, <3>1
  <2>2. \A q \in (size + 1)..full : str[q] \in NonFinals
    <3> SUFFICES ASSUME NEW q \in (size + 1)..full, str[q] \notin NonFinals PROVE FALSE
      OBVIOUS
    <3>1. q \in Ends
      BY <2>1
    <3> HIDE DEF Ends
    <3> QED
      BY <3>1, <2>1, <1>3, <1>4
  <2>3. Balanced(str, full) /\ \A q \in 1..full : NoSurplus(str, q)
    BY <1>2, <1>6, <2>1
  <2> QED
    BY <2>1, <2>2, <2>3, CutKeepsBalance
<1> QED
  BY <1>0, <1>1, <1>5, <1>6

-----------------------------------------------------------------------------
(***************************************************************************)
(* The comparison.                                                         *)
(***************************************************************************)

TextType == [start : Nat, limit : Nat, nl_start : Nat, nl_limit : Nat,
             file : Seq(Tokens \cup {EOL})]
RunType == [text0 : Int, pos0 : Int, text1 : Int, pos1 : Int, size : Int]

Types ==
  /\ opt \in Commands
  /\ TokenArray \in Seq(Tokens)
  /\ Text \in Seq(TextType)
  /\ NumberOfNewTexts \in 0..NumberOfTexts
  /\ lex_tk_cnt \in Int /\ last_tk_cnt \in Int
  /\ nl_buff \in Seq(Int)
  /\ runs \in Seq(RunType)

\* The texts lie one after the other in TokenArray.
Tiles ==
  /\ \A t \in 1..NumberOfTexts :
       1 <= Text[t].start /\ Text[t].start <= Text[t].limit /\ Text[t].limit <= TextLength
  /\ \A t, u \in 1..NumberOfTexts : t < u => Text[t].limit <= Text[u].start
  /\ \A t, u \in 1..NumberOfTexts : u = t + 1 => Text[t].limit = Text[u].start

\* while they are being read
Collected ==
  /\ pc = "args" /\ NumberOfTexts # 0 => Text[NumberOfTexts].limit = TextLength
  /\ pc = "read" => NumberOfTexts # 0
  /\ pc \in {"args", "read", "table"} => runs = <<>>

\* References and the walk along them stay in TokenArray.
References ==
  /\ pc \in {"hash1", "hash2", "range", "lcs", "pass2"} =>
       forward_references \in [0..(TextLength - 1) -> 0..(TextLength - 1)]
  /\ pc \in {"hash1", "hash2"} => i0 \in Nat
  /\ pc = "hash2" => i1 = i0 \/ i1 \in 0..(TextLength - 1)

\* The pair of texts, and the position, that is being compared.
Place ==
  /\ pc \in {"range", "lcs"} => n \in Nat \ {0} /\ m \in Int /\ m >= First(n)
  /\ pc = "lcs" =>
       /\ n <= NumberOfNewTexts /\ m <= NumberOfTexts
       /\ i0 \in Nat /\ i0 >= Text[n].start /\ i0 + MinRunSize - 1 < Text[n].limit
       /\ i1 \in 0..(TextLength - 1)
       /\ size_best \in Nat

\* size tokens from position i0 are acceptable as a run.
Acceptable(size) ==
  /\ TokenArray[i0] \notin NonInitials
  /\ TokenArray[i0 + size - 1] \notin NonFinals
  /\ LET str == [d \in 1..size |-> TokenArray[i0 + d - 1]] IN
     option_set("f") => Balanced(str, size) /\ \A p \in 1..size : NoSurplus(str, p)

IsRun(i, size) ==
  /\ i \in Nat /\ Text[m].start <= i /\ i < i_limit
  /\ size \in Nat /\ size >= MinRunSize
  /\ Common(i, size) /\ Acceptable(size)

\* The best run so far is one.
BestIsRun == pc = "lcs" /\ size_best # 0 => IsRun(i_best, size_best)

IInv == Types /\ Tiles /\ Collected /\ References /\ Place /\ BestIsRun /\ RunsGenuine

-----------------------------------------------------------------------------
LEMMA InitInv == Init => IInv
<1> SUFFICES ASSUME Init PROVE IInv
  OBVIOUS
<1> USE DEF Init, InitPass1, InitCompare
<1>1. Types
  BY DEF Types, NumberOfTexts
<1>2. Tiles /\ Collected
  BY DEF Tiles, Collected, NumberOfTexts
<1>3. References /\ Place /\ BestIsRun /\ RunsGenuine
  BY DEF References, Place, BestIsRun, RunsGenuine
<1> QED
  BY <1>1, <1>2, <1>3 DEF IInv

\* The number of texts and the length of TokenArray are what they look like.
LEMMA Lengths ==
  ASSUME Types
  PROVE  /\ NumberOfTexts \in Nat /\ TextLength \in Nat \ {0}
         /\ Len(TokenArray) \in Nat
         /\ MinRunSize \in Nat \ {0}
         /\ \A t \in 1..NumberOfTexts : Text[t] \in TextType
BY CommandsAssumption DEF Types, NumberOfTexts, TextLength, MinRunSize

-----------------------------------------------------------------------------
(* Pass 1 *)

\* One more text lies after the others.
LEMMA TilesGrow ==
  ASSUME Types, Tiles, Collected, pc = "args",
         NumberOfTexts' = NumberOfTexts + 1, TextLength' = TextLength,
         \A t \in 1..NumberOfTexts : Text'[t] = Text[t],
         Text'[NumberOfTexts + 1].start = TextLength,
         Text'[NumberOfTexts + 1].limit = TextLength
  PROVE  Tiles'
<1>0. NumberOfTexts \in Nat /\ TextLength \in Nat \ {0}
  BY Lengths
<1>1. \A t \in 1..NumberOfTexts : Text[t].limit \in Nat /\ Text[t].start \in Nat
  BY Lengths DEF TextType
<1>2. ASSUME NEW t \in 1..NumberOfTexts'
      PROVE  t = NumberOfTexts + 1 \/ t \in 1..NumberOfTexts
  BY <1>0
<1>3. ASSUME NEW t \in 1..NumberOfTexts'
      PROVE  /\ 1 <= Text'[t].start /\ Text'[t].start <= Text'[t].limit
             /\ Text'[t].limit <= TextLength'
  <2>1. CASE t = NumberOfTexts + 1
    BY <1>0, <2>1
  <2>2. CASE t \in 1..NumberOfTexts
    BY <2>2 DEF Tiles
  <2> QED
    BY <1>2, <2>1, <2>2
<1>4. ASSUME NEW t \in 1..NumberOfTexts', NEW u \in 1..NumberOfTexts', t < u
      PROVE  Text'[t].limit <= Text'[u].start /\ (u = t + 1 => Text'[t].limit = Text'[u].start)
  <2>1. t \in 1..NumberOfTexts
    BY <1>0, <1>4
  <2>2. CASE u = NumberOfTexts + 1
    <3>1. Text[t].limit <= TextLength
      BY <2>1 DEF Tiles
    <3>2. t = NumberOfTexts => Text[t].limit = TextLength
      BY <1>0, <2>1 DEF Collected
    <3> QED
      BY <1>0, <2>1, <2>2, <3>1, <3>2
  <2>3. CASE u \in 1..NumberOfTexts
    BY <1>4, <2>1, <2>3 DEF Tiles
  <2> QED
    BY <1>2, <2>2, <2>3
<1> QED
  BY <1>0, <1>3, <1>4 DEF Tiles

LEMMA AppendText ==
  ASSUME Types, NEW txt \in TextType,
         Text' = Append(Text, txt), UNCHANGED TokenArray
  PROVE  /\ Text' \in Seq(TextType)
         /\ NumberOfTexts' = NumberOfTexts + 1 /\ TextLength' = TextLength
         /\ \A t \in 1..NumberOfTexts : Text'[t] = Text[t]
         /\ Text'[NumberOfTexts + 1] = txt
BY DEF Types, NumberOfTexts, TextLength

\* The last text changes.
LEMMA ChangeText ==
  ASSUME Types, NumberOfTexts # 0, NEW txt \in TextType,
         Text' = [Text EXCEPT ![NumberOfTexts] = txt]
  PROVE  /\ Text' \in Seq(TextType)
         /\ NumberOfTexts' = NumberOfTexts
         /\ \A t \in 1..NumberOfTexts : t # NumberOfTexts => Text'[t] = Text[t]
         /\ Text'[NumberOfTexts] = txt
BY DEF Types, NumberOfTexts

LEMMA TilesAtEnd ==
  ASSUME Types, Tiles, NumberOfTexts # 0,
         NumberOfTexts' = NumberOfTexts, TextLength' \in Nat, TextLength <= TextLength',
         \A t \in 1..NumberOfTexts : t # NumberOfTexts => Text'[t] = Text[t],
         Text'[NumberOfTexts].start = Text[NumberOfTexts].start,
         Text'[NumberOfTexts].limit \in {Text[NumberOfTexts].limit, TextLength'}
  PROVE  Tiles'
<1>0. /\ NumberOfTexts \in Nat /\ TextLength \in Nat \ {0}
      /\ \A t \in 1..NumberOfTexts : Text[t].limit \in Nat /\ Text[t].start \in Nat
  BY Lengths DEF TextType
<1>1. ASSUME NEW t \in 1..NumberOfTexts
      PROVE  /\ Text'[t].start = Text[t].start
             /\ t # NumberOfTexts => Text'[t].limit = Text[t].limit
  BY <1>0
<1>2. ASSUME NEW t \in 1..NumberOfTexts
      PROVE  /\ 1 <= Text'[t].start /\ Text'[t].start <= Text'[t].limit
             /\ Text'[t].limit <= TextLength'
  <2>1. 1 <= Text[t].start /\ Text[t].start <= Text[t].limit /\ Text[t].limit <= TextLength
    BY DEF Tiles
  <2>2. Text'[t].limit \in {Text[t].limit, TextLength'}
    BY <1>1
  <2> QED
    BY <1>0, <1>1, <2>1, <2>2
<1>3. ASSUME NEW t \in 1..NumberOfTexts, NEW u \in 1..NumberOfTexts, t < u
      PROVE  Text'[t].limit = Text[t].limit /\ Text'[u].start = Text[u].start
  BY <1>0, <1>1, <1>3
<1>4. \A t, u \in 1..NumberOfTexts : t < u => Text'[t].limit <= Text'[u].start
  BY <1>3 DEF Tiles
<1>5. \A t, u \in 1..NumberOfTexts : u = t + 1 => Text'[t].limit = Text'[u].start
  BY <1>3 DEF Tiles
<1> QED
  BY <1>2, <1>4, <1>5 DEF Tiles

\* Pass 1 comes before everything the other parts of the invariant are about.
LEMMA Pass1Rest ==
  ASSUME Collected, pc \in {"args", "read"}, pc' \in {"args", "read", "table", "fatal"},
         UNCHANGED <<hashVars, compareVars>>
  PROVE  /\ References' /\ Place' /\ BestIsRun' /\ RunsGenuine'
         /\ runs = <<>> /\ runs' = <<>>
<1>1. runs = <<>> /\ runs' = <<>>
  BY DEF Collected, compareVars
<1>2. References' /\ Place' /\ BestIsRun'
  BY DEF References, Place, BestIsRun
<1> QED
  BY <1>1, <1>2 DEF RunsGenuine

LEMMA Pass1Inv ==
  ASSUME IInv, Pass1, UNCHANGED <<hashVars, compareVars>>
  PROVE  IInv'
<1>0. Types /\ Tiles /\ Collected
  BY DEF IInv
<1>1. ASSUME pc \in {"args", "read"}, pc' \in {"args", "read", "table", "fatal"},
             Types', Tiles', pc' = "read" => NumberOfTexts' # 0,
             pc' = "args" /\ NumberOfTexts' # 0 => Text'[NumberOfTexts'].limit = TextLength'
      PROVE  IInv'
  BY <1>0, <1>1, Pass1Rest DEF IInv, Collected
<1>2. ASSUME pc \in {"args", "read"}, UNCHANGED textVars, pc' \in {"table", "fatal"}
      PROVE  IInv'
  <2>1. Types' /\ Tiles'
    <3>1. runs' = runs
      BY DEF compareVars
    <3> QED
      BY <1>0, <1>2, <3>1 DEF Types, Tiles, textVars, NumberOfTexts, TextLength
  <2> QED
    BY <1>1, <1>2, <2>1
<1>3. CASE InitOutOfMemory \/ EndArgs \/ TokensOutOfMemory
  BY <1>2, <1>3 DEF InitOutOfMemory, EndArgs, TokensOutOfMemory
<1>4. ASSUME NEW txt \in TextType, pc = "args", pc' \in {"args", "read"},
             txt.start = TextLength, txt.limit = TextLength,
             Text' = Append(Text, txt),
             UNCHANGED <<opt, TokenArray, nl_buff>>,
             NumberOfNewTexts' \in {NumberOfNewTexts, NumberOfTexts, NumberOfTexts + 1},
             lex_tk_cnt' \in Int, last_tk_cnt' \in Int
      PROVE  IInv'
  <2>1. /\ Text' \in Seq(TextType)
        /\ NumberOfTexts' = NumberOfTexts + 1 /\ TextLength' = TextLength
        /\ \A t \in 1..NumberOfTexts : Text'[t] = Text[t]
        /\ Text'[NumberOfTexts + 1] = txt
    BY <1>0, <1>4, AppendText
  <2>2. Tiles'
    BY <1>0, <1>4, <2>1, TilesGrow
  <2>3. NumberOfTexts \in Nat /\ NumberOfNewTexts \in 0..NumberOfTexts
    BY <1>0, Lengths DEF Types
  <2>4. Types'
    <3>1. NumberOfNewTexts' \in 0..NumberOfTexts'
      BY <1>4, <2>1, <2>3
    <3>2. runs' = runs
      BY DEF compareVars
    <3> QED
      BY <1>0, <1>4, <2>1, <3>1, <3>2 DEF Types
  <2> QED
    BY <1>1, <1>4, <2>1, <2>2, <2>3, <2>4
<1>5. CASE Separator
  <2>1. NewText \in TextType /\ NewText.start = TextLength /\ NewText.limit = TextLength
    BY <1>0, Lengths DEF NewText, TextType
  <2>2. lex_tk_cnt' \in Int /\ last_tk_cnt' \in Int
    BY <1>0, <1>5 DEF Types, Separator
  <2> QED
    BY <1>4, <1>5, <2>1, <2>2 DEF Separator
<1>6. CASE OpenFile
  <2> DEFINE txt == [NewText EXCEPT !.nl_start = Len(nl_buff)]
  <2>1. txt \in TextType /\ txt.start = TextLength /\ txt.limit = TextLength
    <3>1. Len(nl_buff) \in Nat
      BY <1>0 DEF Types
    <3>2. NewText \in TextType /\ NewText.start = TextLength /\ NewText.limit = TextLength
      BY <1>0, Lengths DEF NewText, TextType
    <3> QED
      BY <3>1, <3>2 DEF TextType
  <2>2. /\ lex_tk_cnt' \in Int /\ last_tk_cnt' \in Int
        /\ NumberOfNewTexts' \in {NumberOfNewTexts, NumberOfTexts, NumberOfTexts + 1}
    BY <1>6 DEF OpenFile
  <2>3. Text' = Append(Text, txt)
    BY <1>6 DEF OpenFile
  <2>4. pc = "args" /\ pc' = "read" /\ UNCHANGED <<opt, TokenArray, nl_buff>>
    BY <1>6 DEF OpenFile
  <2> HIDE DEF txt
  <2> QED
    BY <1>4, <2>1, <2>2, <2>3, <2>4
<1>7. ASSUME pc = "read", NEW txt \in TextType, UNCHANGED <<opt, NumberOfNewTexts>>,
             Text' = [Text EXCEPT ![NumberOfTexts] = txt],
             txt.start = Text[NumberOfTexts].start,
             \/ pc' = "read" /\ txt.limit = Text[NumberOfTexts].limit
             \/ pc' = "args" /\ txt.limit = TextLength',
             TokenArray' \in Seq(Tokens), TextLength <= TextLength',
             lex_tk_cnt' \in Int, last_tk_cnt' \in Int, nl_buff' \in Seq(Int)
      PROVE  IInv'
  <2>1. NumberOfTexts # 0
    BY <1>0, <1>7 DEF Collected
  <2>2. /\ Text' \in Seq(TextType)
        /\ NumberOfTexts' = NumberOfTexts
        /\ \A t \in 1..NumberOfTexts : t # NumberOfTexts => Text'[t] = Text[t]
        /\ Text'[NumberOfTexts] = txt
    BY <1>0, <1>7, <2>1, ChangeText
  <2>3. TextLength' \in Nat
    BY <1>7 DEF TextLength
  <2>4. Tiles'
    BY <1>0, <1>7, <2>1, <2>2, <2>3, TilesAtEnd
  <2>5. Types'
    <3>1. runs' = runs
      BY DEF compareVars
    <3> QED
      BY <1>0, <1>7, <2>2, <3>1 DEF Types
  <2> QED
    BY <1>1, <1>7, <2>1, <2>2, <2>4, <2>5
<1>8. pc = "read" => /\ NumberOfTexts # 0 /\ Text[NumberOfTexts] \in TextType
                     /\ Text[NumberOfTexts].file \in Seq(Tokens \cup {EOL})
  BY <1>0, Lengths DEF Collected, TextType
<1>9. ASSUME NEW tk \in Tokens, ReadToken(tk) PROVE IInv'
  <2> DEFINE txt == [Text[NumberOfTexts] EXCEPT !.file = Append(@, tk)]
  <2>1. txt \in TextType /\ txt.start = Text[NumberOfTexts].start
        /\ txt.limit = Text[NumberOfTexts].limit
    <3>1. pc = "read"
      BY <1>9 DEF ReadToken
    <3>2. Append(Text[NumberOfTexts].file, tk) \in Seq(Tokens \cup {EOL})
      BY <1>8, <3>1
    <3> QED
      BY <1>8, <3>1, <3>2 DEF TextType
  <2>2. TokenArray' \in Seq(Tokens) /\ TextLength <= TextLength'
    BY <1>0, <1>9 DEF ReadToken, Types, TextLength
  <2>3. lex_tk_cnt' \in Int /\ last_tk_cnt' \in Int /\ nl_buff' \in Seq(Int)
    BY <1>0, <1>9 DEF ReadToken, Types
  <2>4. Text' = [Text EXCEPT ![NumberOfTexts] = txt]
    BY <1>9 DEF ReadToken
  <2>5. pc = "read" /\ pc' = "read" /\ UNCHANGED <<opt, NumberOfNewTexts>>
    BY <1>9 DEF ReadToken
  <2> HIDE DEF txt
  <2> QED
    BY <1>7, <2>1, <2>2, <2>3, <2>4, <2>5
<1>10. ASSUME NEW room \in BOOLEAN, StoreNewline(room) PROVE nl_buff' \in Seq(Int)
  BY <1>0, <1>10 DEF Types, StoreNewline
<1>11. ASSUME NEW room \in BOOLEAN, ReadEol(room) PROVE IInv'
  <2> DEFINE txt == [Text[NumberOfTexts] EXCEPT !.file = Append(@, EOL)]
  <2>1. txt \in TextType /\ txt.start = Text[NumberOfTexts].start
        /\ txt.limit = Text[NumberOfTexts].limit
    <3>1. pc = "read"
      BY <1>11 DEF ReadEol
    <3>2. Append(Text[NumberOfTexts].file, EOL) \in Seq(Tokens \cup {EOL})
      BY <1>8, <3>1
    <3> QED
      BY <1>8, <3>1, <3>2 DEF TextType
  <2>2. TokenArray' \in Seq(Tokens) /\ TextLength <= TextLength'
    <3>1. TokenArray' = TokenArray /\ TextLength' = TextLength
      BY <1>11 DEF ReadEol, TextLength
    <3> QED
      BY <1>0, <3>1, Lengths DEF Types
  <2>3. lex_tk_cnt' \in Int /\ last_tk_cnt' \in Int /\ nl_buff' \in Seq(Int)
    BY <1>0, <1>10, <1>11 DEF ReadEol, Types
  <2>4. Text' = [Text EXCEPT ![NumberOfTexts] = txt]
    BY <1>11 DEF ReadEol
  <2>5. pc = "read" /\ pc' = "read" /\ UNCHANGED <<opt, NumberOfNewTexts>>
    BY <1>11 DEF ReadEol
  <2> HIDE DEF txt
  <2> QED
    BY <1>7, <2>1, <2>2, <2>3, <2>4, <2>5
<1>12. ASSUME NEW room \in BOOLEAN, EndFile(room) PROVE IInv'
  <2> DEFINE txt == [Text[NumberOfTexts] EXCEPT !.limit = TextLength,
                                                !.nl_limit = Len(nl_buff')]
  <2>1. TokenArray' = TokenArray /\ TextLength' = TextLength /\ TextLength \in Nat
    BY <1>0, <1>12, Lengths DEF EndFile, TextLength
  <2>2. lex_tk_cnt' \in Int /\ last_tk_cnt' \in Int /\ nl_buff' \in Seq(Int)
    BY <1>0, <1>10, <1>12 DEF EndFile, Types
  <2>3. txt \in TextType /\ txt.start = Text[NumberOfTexts].start /\ txt.limit = TextLength
    <3>1. Len(nl_buff') \in Nat
      BY <2>2
    <3> QED
      BY <1>8, <1>12, <2>1, <3>1 DEF EndFile, TextType
  <2>4. Text' = [Text EXCEPT ![NumberOfTexts] = txt]
    BY <1>12 DEF EndFile
  <2>5. pc = "read" /\ pc' = "args" /\ UNCHANGED <<opt, NumberOfNewTexts>>
    BY <1>12 DEF EndFile
  <2>6. TokenArray' \in Seq(Tokens) /\ TextLength <= TextLength'
    BY <1>0, <2>1 DEF Types
  <2> HIDE DEF txt
  <2> QED
    BY <1>7, <2>1, <2>2, <2>3, <2>4, <2>5, <2>6
<1> QED
  BY <1>3, <1>5, <1>6, <1>9, <1>11, <1>12 DEF Pass1

-----------------------------------------------------------------------------
(* The forward references and the walk along them *)

LEMMA RunsKept ==
  ASSUME RunsGenuine, UNCHANGED textVars, UNCHANGED runs
  PROVE  RunsGenuine'
BY DEF RunsGenuine, Genuine, Piece, textVars, option_set, MinRunSize, NumberOfTexts

LEMMA InputKept ==
  ASSUME Types, Tiles, UNCHANGED textVars, runs' \in Seq(RunType),
         pc' \notin {"args", "read", "table"}
  PROVE  Types' /\ Tiles' /\ Collected'
BY DEF Types, Tiles, Collected, textVars, NumberOfTexts, TextLength

LEMMA StepKeeps ==
  ASSUME IInv, UNCHANGED textVars, UNCHANGED runs, pc' \notin {"args", "read", "table"},
         References', Place', BestIsRun'
  PROVE  IInv'
<1>1. runs' \in Seq(RunType)
  BY DEF IInv, Types
<1> QED
  BY <1>1, RunsKept, InputKept DEF IInv

LEMMA FirstAfter ==
  ASSUME Types, NEW k \in Nat
  PROVE  First(k) \in Int /\ (k <= NumberOfNewTexts => First(k) >= k)
BY Lengths DEF First, Types

LEMMA HashInv ==
  ASSUME IInv,
         InitHashTable \/ TableOutOfMemory \/ Hash1Step \/ Hash1Done \/ Hash2Step \/ Hash2Done
  PROVE  IInv'
<1>0. Types /\ References /\ TextLength \in Nat \ {0} /\ MinRunSize \in Nat \ {0}
  BY Lengths DEF IInv
<1>1. CASE InitHashTable
  <2>1. forward_references' \in [0..(TextLength - 1) -> 0..(TextLength - 1)]
    BY <1>0, <1>1 DEF InitHashTable
  <2>2. References' /\ Place' /\ BestIsRun'
    BY <1>1, <2>1 DEF InitHashTable, References, Place, BestIsRun, textVars, TextLength
  <2> QED
    BY <1>1, <2>2, StepKeeps DEF InitHashTable
<1>2. CASE TableOutOfMemory
  <2>1. References' /\ Place' /\ BestIsRun'
    BY <1>2 DEF TableOutOfMemory, References, Place, BestIsRun
  <2> QED
    BY <1>2, <2>1, StepKeeps DEF TableOutOfMemory, compareVars
<1>3. CASE Hash1Step
  <2>1. pc = "hash1" /\ i0 \in Nat /\ i0 <= TextLength - 1
    BY <1>0, <1>3 DEF Hash1Step, References
  <2>2. forward_references \in [0..(TextLength - 1) -> 0..(TextLength - 1)]
    BY <1>0, <2>1 DEF References
  <2>3. forward_references' \in [0..(TextLength - 1) -> 0..(TextLength - 1)]
    <3>1. i0 \in 0..(TextLength - 1)
      BY <1>0, <2>1
    <3>2. \A k : [forward_references EXCEPT ![k] = i0]
                   \in [0..(TextLength - 1) -> 0..(TextLength - 1)]
      BY <2>2, <3>1
    <3>3. \/ forward_references' = forward_references
          \/ \E k : forward_references' = [forward_references EXCEPT ![k] = i0]
      BY <1>3 DEF Hash1Step
    <3> QED
      BY <2>2, <3>2, <3>3
  <2>4. References' /\ Place' /\ BestIsRun'
    BY <1>3, <2>1, <2>3 DEF Hash1Step, References, Place, BestIsRun, textVars, TextLength
  <2> QED
    BY <1>3, <2>4, StepKeeps DEF Hash1Step
<1>4. CASE Hash1Done
  <2>1. References' /\ Place' /\ BestIsRun'
    BY <1>0, <1>4 DEF Hash1Done, References, Place, BestIsRun, hashVars, textVars, TextLength
  <2> QED
    BY <1>4, <2>1, StepKeeps DEF Hash1Done
<1>5. CASE Hash2Step
  <2>1. /\ pc = "hash2" /\ i0 \in Nat /\ i0 + MinRunSize < TextLength
        /\ i1 = i0 \/ i1 \in 0..(TextLength - 1)
        /\ forward_references \in [0..(TextLength - 1) -> 0..(TextLength - 1)]
    BY <1>0, <1>5 DEF Hash2Step, References
  <2>2. i0 \in 0..(TextLength - 1) /\ i1 \in 0..(TextLength - 1)
    BY <1>0, <2>1
  <2> DEFINE j == forward_references[i1]
  <2>3. j \in 0..(TextLength - 1)
    BY <2>1, <2>2
  <2>4. /\ forward_references' \in [0..(TextLength - 1) -> 0..(TextLength - 1)]
        /\ i0' \in Nat
        /\ i1' = i0' \/ i1' \in 0..(TextLength - 1)
    <3>1. \/ i1' = j /\ i0' = i0 /\ forward_references' = forward_references
          \/ /\ forward_references' = [forward_references EXCEPT ![i0] = j]
             /\ i0' = i0 + 1 /\ i1' = i0 + 1
      BY <1>5 DEF Hash2Step
    <3> HIDE DEF j
    <3> QED
      BY <2>1, <2>3, <3>1
  <2>5. References' /\ Place' /\ BestIsRun'
    BY <1>5, <2>1, <2>4 DEF Hash2Step, References, Place, BestIsRun, textVars, TextLength
  <2> QED
    BY <1>5, <2>5, StepKeeps DEF Hash2Step
<1>6. CASE Hash2Done
  <2>1. References'
    BY <1>0, <1>6 DEF Hash2Done, References, hashVars, textVars, TextLength
  <2>2. Place'
    <3>1. First(1)' = First(1)
      BY <1>6 DEF Hash2Done, First, textVars, option_set
    <3>2. First(1) \in Int
      BY <1>0, FirstAfter
    <3> QED
      BY <1>6, <3>1, <3>2 DEF Hash2Done, Place
  <2>3. BestIsRun'
    BY <1>6 DEF Hash2Done, BestIsRun
  <2> QED
    BY <1>6, <2>1, <2>2, <2>3, StepKeeps DEF Hash2Done
<1> QED
  BY <1>1, <1>2, <1>3, <1>4, <1>5, <1>6

-----------------------------------------------------------------------------
(* Compare *)

\* A position before the limit of text u lies in a text from n to u, and not in
\* one before the text v it is not before.
LEMMA TextAtPosition ==
  ASSUME Types, Tiles, n \in 1..NumberOfTexts,
         NEW v \in n..NumberOfTexts, NEW u \in v..NumberOfTexts,
         NEW i \in Nat, Text[v].start <= i, i < Text[u].limit
  PROVE  /\ TextAt(i) \in v..NumberOfTexts
         /\ Text[TextAt(i)].start <= i /\ i < Text[TextAt(i)].limit
<1>0. /\ NumberOfTexts \in Nat /\ n \in Nat
      /\ \A t \in 1..NumberOfTexts : Text[t].limit \in Nat /\ Text[t].start \in Nat
  BY Lengths DEF TextType
<1> DEFINE Behind == {t \in n..NumberOfTexts : i < Text[t].limit}
           IsText(t) == i < Text[t].limit /\ \A w \in n..(t - 1) : i >= Text[w].limit
<1>1. \E t \in n..NumberOfTexts : IsText(t)
  <2>1. Behind \in SUBSET Nat /\ u \in Behind
    BY <1>0
  <2>2. PICK t \in Behind : \A w \in Behind : t <= w
    <3> HIDE DEF Behind
    <3> QED
      BY <2>1, LeastExists
  <2>3. ASSUME NEW w \in n..(t - 1) PROVE i >= Text[w].limit
    <3>1. w \in n..NumberOfTexts /\ w \in 1..NumberOfTexts /\ ~(t <= w)
      BY <1>0
    <3>2. w \notin Behind
      BY <2>2, <3>1
    <3> QED
      BY <1>0, <3>1, <3>2
  <2> QED
    BY <2>2, <2>3
<1>2. TextAt(i) \in n..NumberOfTexts /\ IsText(TextAt(i))
  <2>1. TextAt(i) = CHOOSE t \in n..NumberOfTexts : IsText(t)
    BY DEF TextAt
  <2> HIDE DEF IsText
  <2> QED
    BY <1>1, <2>1
<1> DEFINE t == TextAt(i)
<1>3. t \in 1..NumberOfTexts /\ i < Text[t].limit
  BY <1>0, <1>2
<1>4. \A w \in n..(t - 1) : i >= Text[w].limit
  BY <1>2
<1> HIDE DEF t
<1>5. t >= v
  <2> SUFFICES ASSUME t < v PROVE FALSE
    BY <1>0, <1>3
  <2>1. Text[t].limit <= Text[v].start
    BY <1>0, <1>3 DEF Tiles
  <2> QED
    BY <1>0, <1>3, <2>1
<1>6. Text[t].start <= i
  <2>1. CASE t = v
    BY <2>1
  <2>2. CASE t > v
    <3>1. t - 1 \in n..(t - 1) /\ t - 1 \in 1..NumberOfTexts /\ t = (t - 1) + 1
      BY <1>0, <1>3, <2>2
    <3>2. Text[t - 1].limit = Text[t].start
      BY <1>3, <3>1 DEF Tiles
    <3> QED
      BY <1>4, <3>1, <3>2
  <2> QED
    BY <1>0, <1>3, <1>5, <2>1, <2>2
<1> QED
  BY <1>0, <1>3, <1>5, <1>6 DEF t

\* What Place says of the texts that are being compared.
LEMMA ComparedTexts ==
  ASSUME Types, Tiles, Place, pc = "lcs"
  PROVE  /\ n \in 1..NumberOfTexts /\ n <= NumberOfNewTexts
         /\ m \in n..NumberOfTexts /\ m >= First(n)
         /\ (IF option_set("e") THEN m ELSE NumberOfTexts) \in m..NumberOfTexts
         /\ i_limit \in Nat /\ i_limit <= TextLength
         /\ Text[n].limit \in Nat /\ Text[n].limit <= TextLength
         /\ i0 \in 1..Len(TokenArray)
<1>1. n \in 1..NumberOfTexts /\ n \in Nat /\ n <= NumberOfNewTexts /\ NumberOfTexts \in Nat
  BY Lengths DEF Place, Types
<1>2. m \in n..NumberOfTexts /\ m >= First(n)
  BY <1>1, FirstAfter DEF Place
<1>3. (IF option_set("e") THEN m ELSE NumberOfTexts) \in m..NumberOfTexts
  BY <1>1, <1>2
<1>4. \A t \in 1..NumberOfTexts : /\ Text[t].limit \in Nat /\ Text[t].limit <= TextLength
                                 /\ 1 <= Text[t].start /\ Text[t].start \in Nat
  BY Lengths DEF TextType, Tiles
<1>5. i_limit \in Nat /\ i_limit <= TextLength
  BY <1>1, <1>2, <1>3, <1>4 DEF i_limit
<1>6. i0 \in 1..Len(TokenArray)
  <2>1. /\ i0 \in Nat /\ i0 >= Text[n].start /\ i0 + MinRunSize - 1 < Text[n].limit
        /\ MinRunSize \in Nat \ {0} /\ Len(TokenArray) \in Nat
    BY Lengths DEF Place
  <2>2. i0 <= Len(TokenArray)
    BY <1>1, <1>4, <2>1 DEF TextLength
  <2> QED
    BY <1>1, <1>4, <2>1, <2>2
<1> QED
  BY <1>1, <1>2, <1>3, <1>4, <1>5, <1>6

LEMMA LookAtInv ==
  ASSUME IInv, UNCHANGED <<textVars, hashVars, n>>, pc \in {"range", "lcs"},
         n <= NumberOfNewTexts, m <= NumberOfTexts,
         NEW i \in Nat, i >= Text[n].start, LookAt(i)
  PROVE  References' /\ Place' /\ BestIsRun'
<1>0. /\ Types /\ Tiles /\ NumberOfTexts \in Nat /\ NumberOfNewTexts <= NumberOfTexts
      /\ n \in Nat \ {0} /\ m \in Int /\ m >= First(n)
      /\ First(n) \in Int /\ First(n)' = First(n)
      /\ MinRunSize \in Nat \ {0} /\ MinRunSize' = MinRunSize
      /\ TextLength \in Nat \ {0} /\ TextLength' = TextLength
      /\ NumberOfTexts' = NumberOfTexts
  <2>1. Types /\ Tiles /\ Place
    BY DEF IInv
  <2>2. First(n)' = First(n) /\ MinRunSize' = MinRunSize /\ TextLength' = TextLength
        /\ NumberOfTexts' = NumberOfTexts
    BY DEF First, option_set, MinRunSize, TextLength, NumberOfTexts, textVars
  <2>3. n \in Nat \ {0} /\ m \in Int /\ m >= First(n) /\ First(n) \in Int
    BY <2>1, FirstAfter DEF Place
  <2> QED
    BY <2>1, <2>2, <2>3, Lengths DEF Types
<1>1. References'
  BY <1>0 DEF IInv, References, LookAt, hashVars
<1>2. Place'
  <2>1. CASE i + MinRunSize - 1 < Text[n].limit
    <3>1. pc' = "lcs" /\ m' = m /\ i0' = i /\ i1' = i /\ size_best' = 0
      BY <2>1 DEF LookAt
    <3>2. n \in 1..NumberOfTexts /\ Text[n].limit \in Nat /\ Text[n].limit <= TextLength
      <4>1. n \in 1..NumberOfTexts
        BY <1>0 DEF Types
      <4>2. Text[n] \in TextType /\ Text[n].limit <= TextLength
        BY <1>0, <4>1, Lengths DEF Tiles
      <4> QED
        BY <4>1, <4>2 DEF TextType
    <3>3. i \in 0..(TextLength - 1)
      BY <1>0, <2>1, <3>2
    <3> QED
      BY <1>0, <2>1, <3>1, <3>3 DEF Place, textVars
  <2>2. CASE ~(i + MinRunSize - 1 < Text[n].limit)
    <3>1. pc' = "range" /\ m' = (IF option_set("e") THEN m ELSE NumberOfTexts) + 1
      BY <2>2 DEF LookAt
    <3>2. m' \in Int /\ m' >= First(n)
      BY <1>0, <3>1
    <3> QED
      BY <1>0, <3>1, <3>2 DEF Place
  <2> QED
    BY <2>1, <2>2
<1>3. BestIsRun'
  BY DEF LookAt, BestIsRun
<1> QED
  BY <1>1, <1>2, <1>3

\* What new_size returns is the length of a common and acceptable run.
LEMMA NewSizeIsRun ==
  ASSUME Types, Tiles, Place, pc = "lcs",
         NEW i \in Nat, Text[m].start <= i, i < i_limit,
         NEW size, size = new_size(i), size # 0
  PROVE  size \in Nat /\ Common(i, size) /\ Acceptable(size)
<1>1. /\ n \in 1..NumberOfTexts /\ m \in n..NumberOfTexts
      /\ Text[n].limit \in Nat /\ Text[n].limit <= TextLength
      /\ i0 \in 1..Len(TokenArray) /\ Len(TokenArray) \in Nat /\ i0 \in Nat
  BY ComparedTexts, Lengths
<1>2. Text[TextAt(i)].limit \in Nat
  <2> DEFINE u == IF option_set("e") THEN m ELSE NumberOfTexts
  <2>1. u \in m..NumberOfTexts /\ i < Text[u].limit
    BY ComparedTexts DEF i_limit
  <2>2. TextAt(i) \in m..NumberOfTexts
    <3> HIDE DEF u
    <3> QED
      BY <1>1, <2>1, TextAtPosition
  <2>3. TextAt(i) \in 1..NumberOfTexts
    BY <1>1, <2>2
  <2> QED
    BY <2>3, Lengths DEF TextType
<1>3. min_size \in Nat \ {0}
  BY Lengths DEF min_size, Place
<1> DEFINE Lens == {k \in min_size..Len(TokenArray) : Common(i, k)}
           full == Max(Lens)
           str == SubSeq(TokenArray, i0, i0 + full - 1)
           f == option_set("f")
<1>4. /\ Common(i, min_size) /\ TokenArray[i0] \notin NonInitials
      /\ size = CheckRun(str, f)
  BY DEF new_size, MayBeStartOfRun
<1>5. full \in min_size..Len(TokenArray) /\ Common(i, full)
  <2>1. i0 + min_size - 1 < Text[n].limit
    BY <1>4 DEF Common
  <2>2. min_size \in min_size..Len(TokenArray)
    BY <1>1, <1>3, <2>1 DEF TextLength
  <2>3. Lens \in SUBSET (0..Len(TokenArray)) /\ Lens # {}
    BY <1>1, <1>3, <1>4, <2>2
  <2>4. full \in Lens
    <3> HIDE DEF Lens
    <3> QED
      BY <1>1, <2>3, MaxIsGreatest
  <2> QED
    BY <2>4
<1> HIDE DEF full
<1>6. full \in Nat /\ i0 + full - 1 < Text[n].limit /\ i + full - 1 < Text[TextAt(i)].limit
      /\ i0 + full - 1 < i
      /\ \A d \in 0..(full - 1) : TokenArray[i0 + d] = TokenArray[i + d]
  BY <1>1, <1>3, <1>5 DEF Common
<1>7. /\ str \in Seq(Tokens) /\ Len(str) = full
      /\ \A k \in 1..full : str[k] = TokenArray[i0 + k - 1]
  <2>1. i0 + full - 1 \in 0..Len(TokenArray) /\ TokenArray \in Seq(Tokens)
    BY <1>1, <1>6 DEF TextLength, Types
  <2> QED
    BY <1>1, <1>6, <2>1
<1>8. /\ size \in 0..full
      /\ str[size] \notin NonFinals
      /\ f => Balanced(str, size) /\ \A p \in 1..size : NoSurplus(str, p)
  <2>1. f \in BOOLEAN
    BY DEF option_set
  <2> HIDE DEF str, f
  <2>2. /\ size \in 0..Len(str)
        /\ size # 0 => str[size] \notin NonFinals
        /\ f /\ size # 0 => Balanced(str, size) /\ \A p \in 1..size : NoSurplus(str, p)
    BY <1>4, <1>7, <2>1, CheckRunAccepts
  <2> QED
    BY <1>7, <2>2
<1> HIDE DEF str, f
<1>9. size \in 1..full /\ size \in Nat
  BY <1>6, <1>8
<1>10. Common(i, size)
  <2>1. /\ i0 + size - 1 < Text[n].limit /\ i + size - 1 < Text[TextAt(i)].limit
        /\ i0 + size - 1 < i
    BY <1>1, <1>2, <1>6, <1>9
  <2>2. ASSUME NEW d \in 0..(size - 1) PROVE TokenArray[i0 + d] = TokenArray[i + d]
    <3>1. d \in 0..(full - 1)
      BY <1>6, <1>9
    <3> QED
      BY <1>6, <3>1
  <2> QED
    BY <2>1, <2>2 DEF Common
<1>11. Acceptable(size)
  <2> DEFINE piece == [d \in 1..size |-> TokenArray[i0 + d - 1]]
  <2>1. \A q \in 1..size : str[q] = piece[q]
    BY <1>6, <1>7, <1>9
  <2>2. TokenArray[i0 + size - 1] \notin NonFinals
    BY <1>7, <1>8, <1>9
  <2>3. ASSUME f PROVE Balanced(piece, size) /\ \A p \in 1..size : NoSurplus(piece, p)
    <3> HIDE DEF piece
    <3>1. ASSUME NEW p \in 1..size, NEW k PROVE Balance(piece, k, p) = Balance(str, k, p)
      <4>1. p \in Nat /\ \A q \in 1..p : piece[q] = str[q]
        BY <1>9, <2>1
      <4> QED
        BY <4>1, BalanceOfPrefix
    <3>2. Balanced(str, size) /\ \A p \in 1..size : NoSurplus(str, p)
      BY <1>8, <2>3
    <3>3. size \in 1..size
      BY <1>9
    <3> QED
      BY <3>1, <3>2, <3>3, Zenon DEF Balanced, NoSurplus
  <2> QED
    BY <1>4, <2>2, <2>3, Zenon DEF Acceptable, f
<1> QED
  BY <1>9, <1>10, <1>11

LEMMA LcsInv ==
  ASSUME IInv, LcsStep
  PROVE  IInv'
<1>0. Types /\ Tiles /\ References /\ Place /\ BestIsRun /\ pc = "lcs" /\ pc' = "lcs"
  BY DEF IInv, LcsStep
<1> DEFINE i == NextOpportunity
           new == IF i < i_first THEN 0 ELSE new_size(i)
<1>1. i \in 0..(TextLength - 1) /\ i # 0 /\ i < i_limit /\ TextLength \in Nat \ {0}
  <2>1. forward_references[i1] \in 0..(TextLength - 1) /\ TextLength \in Nat \ {0}
    BY <1>0, Lengths DEF References, Place
  <2> QED
    BY <2>1 DEF NextOpportunity, LcsStep
<1>2. /\ i1' = i
      /\ UNCHANGED <<textVars, hashVars, n, m, i0, runs>>
      /\ \/ new >= MinRunSize /\ size_best' = new /\ i_best' = i
         \/ UNCHANGED <<size_best, i_best>>
  BY DEF LcsStep
<1> HIDE DEF i
<1>3. ASSUME new >= MinRunSize PROVE IsRun(i, new)
  <2>1. new # 0 /\ MinRunSize \in Nat \ {0} /\ i \in Nat
    <3> HIDE DEF new
    <3> QED
      BY <1>0, <1>1, <1>3, Lengths
  <2>2. ~(i < i_first) /\ new = new_size(i)
    BY <2>1
  <2>3. Text[m].start <= i
    <3>1. Text[m].start \in Nat
      BY <1>0, ComparedTexts, Lengths DEF TextType
    <3> QED
      BY <2>1, <2>2, <3>1 DEF i_first
  <2> HIDE DEF new
  <2>4. new \in Nat /\ Common(i, new) /\ Acceptable(new)
    BY <1>0, <1>1, <2>1, <2>2, <2>3, NewSizeIsRun
  <2> QED
    BY <1>1, <1>3, <2>1, <2>3, <2>4 DEF IsRun
<1> HIDE DEF new
<1>4. size_best' \in Nat /\ (size_best' # 0 => IsRun(i_best', size_best'))
  <2>1. CASE UNCHANGED <<size_best, i_best>>
    <3>1. size_best \in Nat /\ (size_best # 0 => IsRun(i_best, size_best))
      BY <1>0 DEF Place, BestIsRun
    <3> QED
      BY <2>1, <3>1
  <2>2. CASE IsRun(i, new) /\ size_best' = new /\ i_best' = i
    BY <2>2 DEF IsRun
  <2> QED
    BY <1>2, <1>3, <2>1, <2>2
<1>5. References' /\ Place'
  <2>1. /\ NumberOfTexts' = NumberOfTexts /\ TextLength' = TextLength
        /\ MinRunSize' = MinRunSize /\ First(n)' = First(n)
    BY <1>2 DEF NumberOfTexts, TextLength, MinRunSize, First, option_set, textVars
  <2>2. References'
    BY <1>0, <1>2, <2>1 DEF References, hashVars
  <2>3. Place'
    BY <1>0, <1>1, <1>2, <1>4, <2>1 DEF Place, textVars
  <2> QED
    BY <2>2, <2>3
<1>6. BestIsRun'
  <2>1. /\ Text' = Text /\ TokenArray' = TokenArray /\ opt' = opt
        /\ n' = n /\ m' = m /\ i0' = i0
    BY <1>2 DEF textVars
  <2> QED
    BY <1>4, <2>1 DEF BestIsRun, IsRun, Common, Acceptable, TextAt, i_limit, NumberOfTexts,
                      MinRunSize, option_set
<1> QED
  BY <1>0, <1>2, <1>5, <1>6, StepKeeps

\* The run that is entered is genuine: the first text is new, the second is one
\* the options ask for, and the tokens are the same.
LEMMA RunIsGenuine ==
  ASSUME IInv, pc = "lcs", size_best # 0
  PROVE  Run \in RunType /\ Genuine(Run)
<1>0. /\ Types /\ Tiles /\ Place /\ IsRun(i_best, size_best)
      /\ n \in 1..NumberOfTexts /\ n \in Nat /\ n <= NumberOfNewTexts
      /\ NumberOfNewTexts \in Nat /\ NumberOfTexts \in Nat
      /\ m \in n..NumberOfTexts /\ m >= First(n)
      /\ i0 \in Nat /\ size_best \in Nat /\ i_best \in Nat /\ size_best >= MinRunSize
      /\ MinRunSize \in Nat \ {0}
  BY ComparedTexts, Lengths DEF IInv, BestIsRun, Place, IsRun, Types
<1> DEFINE t == TextAt(i_best)
<1>1. t \in m..NumberOfTexts /\ Text[t].start <= i_best
  <2> DEFINE u == IF option_set("e") THEN m ELSE NumberOfTexts
  <2>1. u \in m..NumberOfTexts /\ i_best < Text[u].limit
    BY <1>0, ComparedTexts DEF IsRun, i_limit
  <2>2. Text[m].start <= i_best
    BY <1>0 DEF IsRun
  <2> HIDE DEF u
  <2> QED
    BY <1>0, <2>1, <2>2, TextAtPosition
<1>2. /\ i0 + size_best - 1 < Text[n].limit
      /\ i_best + size_best - 1 < Text[t].limit
      /\ i0 + size_best - 1 < i_best
      /\ \A d \in 0..(size_best - 1) : TokenArray[i0 + d] = TokenArray[i_best + d]
  BY <1>0 DEF IsRun, Common
<1> HIDE DEF t
<1>3. /\ Text[n].start \in Nat /\ Text[n].limit \in Nat
      /\ Text[t].start \in Nat /\ Text[t].limit \in Nat
      /\ Text[n].start <= i0 /\ t \in 1..NumberOfTexts /\ t \in Nat
  <2>1. t \in 1..NumberOfTexts /\ t \in Nat
    BY <1>0, <1>1
  <2>2. Text[n] \in TextType /\ Text[t] \in TextType
    BY <1>0, <2>1, Lengths
  <2>3. Text[n].start <= i0
    BY <1>0 DEF Place
  <2> QED
    BY <2>1, <2>2, <2>3 DEF TextType
<1>4. Run = [text0 |-> n, pos0 |-> i0 - Text[n].start,
             text1 |-> t, pos1 |-> i_best - Text[t].start, size |-> size_best]
  BY DEF Run, t
<1>5. Run \in RunType
  BY <1>0, <1>3, <1>4 DEF RunType
<1> DEFINE str == Piece(n, i0 - Text[n].start, size_best)
<1>6. str = [d \in 1..size_best |-> TokenArray[i0 + d - 1]]
  BY <1>0, <1>3 DEF Piece
<1>7. Piece(t, i_best - Text[t].start, size_best) = str
  <2>1. Piece(t, i_best - Text[t].start, size_best)
          = [d \in 1..size_best |-> TokenArray[i_best + d - 1]]
    BY <1>0, <1>3 DEF Piece
  <2>2. ASSUME NEW d \in 1..size_best
        PROVE  TokenArray[i0 + d - 1] = TokenArray[i_best + d - 1]
    <3>1. d - 1 \in 0..(size_best - 1) /\ i0 + (d - 1) = i0 + d - 1
          /\ i_best + (d - 1) = i_best + d - 1
      BY <1>0
    <3> QED
      BY <1>2, <3>1
  <2> HIDE DEF str
  <2> QED
    BY <1>6, <2>1, <2>2
<1>8. /\ str[1] \notin NonInitials /\ str[size_best] \notin NonFinals
      /\ option_set("f") => Balanced(str, size_best) /\ \A p \in 1..size_best : NoSurplus(str, p)
  <2>1. Acceptable(size_best)
    BY <1>0 DEF IsRun
  <2> HIDE DEF str
  <2>2. str[1] = TokenArray[i0] /\ str[size_best] = TokenArray[i0 + size_best - 1]
    BY <1>0, <1>6
  <2> QED
    BY <1>6, <2>1, <2>2, Zenon DEF Acceptable
<1>9. /\ option_set("s") => n # t
      /\ option_set("S") => t > NumberOfNewTexts
  BY <1>0, <1>1, <1>3 DEF First
<1> HIDE DEF str
<1>10. /\ n \in 1..NumberOfNewTexts /\ t \in n..NumberOfTexts /\ size_best >= MinRunSize
       /\ i0 - Text[n].start >= 0
       /\ Text[n].start + (i0 - Text[n].start) + size_best <= Text[n].limit
       /\ i_best - Text[t].start >= 0
       /\ Text[t].start + (i_best - Text[t].start) + size_best <= Text[t].limit
       /\ n = t => i0 - Text[n].start + size_best <= i_best - Text[t].start
  BY <1>0, <1>1, <1>2, <1>3
<1> QED
  BY <1>4, <1>5, <1>7, <1>8, <1>9, <1>10 DEF Genuine, str

LEMMA AddRunInv ==
  ASSUME IInv, AddRun
  PROVE  IInv'
<1>1. Types /\ Tiles /\ Place /\ RunsGenuine /\ pc = "lcs" /\ size_best # 0
  BY DEF IInv, AddRun
<1>2. UNCHANGED <<textVars, hashVars, n>> /\ runs' = Append(runs, Run) /\ LookAt(i0 + size_best)
  BY DEF AddRun
<1>3. References' /\ Place' /\ BestIsRun'
  <2>1. n <= NumberOfNewTexts /\ m <= NumberOfTexts /\ n \in 1..NumberOfTexts
    BY <1>1, ComparedTexts, Lengths DEF Place
  <2>2. i0 + size_best \in Nat /\ i0 + size_best >= Text[n].start
    <3>1. Text[n].start \in Nat
      BY <1>1, <2>1, Lengths DEF TextType
    <3> QED
      BY <1>1, <3>1 DEF Place
  <2> QED
    BY <1>1, <1>2, <2>1, <2>2, LookAtInv
<1>4. Run \in RunType /\ Genuine(Run) /\ runs \in Seq(RunType)
  BY <1>1, RunIsGenuine DEF Types
<1>5. /\ runs' \in Seq(RunType)
      /\ \A k \in 1..Len(runs') : runs'[k] = Run \/ \E l \in 1..Len(runs) : runs'[k] = runs[l]
  BY <1>2, <1>4
<1>6. ASSUME NEW k \in 1..Len(runs') PROVE Genuine(runs[k])'
  <2>1. Genuine(runs'[k])
    BY <1>1, <1>4, <1>5 DEF RunsGenuine
  <2> QED
    BY <1>2, <2>1 DEF Genuine, Piece, textVars, option_set, MinRunSize, NumberOfTexts
<1>7. RunsGenuine'
  BY <1>6 DEF RunsGenuine
<1>8. pc' \in {"lcs", "range"}
  BY <1>2 DEF LookAt
<1> QED
  BY <1>1, <1>2, <1>3, <1>5, <1>7, <1>8, InputKept DEF IInv

LEMMA RangeInv ==
  ASSUME IInv, StartRange \/ NextText \/ NoRun \/ RunOutOfMemory \/ CompareDone
  PROVE  IInv'
<1>0. Types /\ Tiles /\ Place /\ References /\ NumberOfTexts \in Nat
      /\ NumberOfNewTexts \in 0..NumberOfTexts
  BY Lengths DEF IInv, Types
<1>1. CASE StartRange
  <2>1. /\ pc = "range" /\ n <= NumberOfNewTexts /\ m <= NumberOfTexts
        /\ UNCHANGED <<textVars, hashVars, n, runs>> /\ LookAt(Text[n].start)
    BY <1>1 DEF StartRange
  <2>2. n \in 1..NumberOfTexts
    BY <1>0, <2>1 DEF Place
  <2>3. Text[n].start \in Nat
    BY <1>0, <2>2, Lengths DEF TextType
  <2>4. pc' \in {"lcs", "range"}
    BY <2>1 DEF LookAt
  <2>5. References' /\ Place' /\ BestIsRun'
    BY <2>1, <2>3, LookAtInv
  <2> QED
    BY <2>1, <2>4, <2>5, StepKeeps
<1>2. CASE NoRun
  <2>1. /\ pc = "lcs" /\ UNCHANGED <<textVars, hashVars, n, runs>> /\ LookAt(i0 + 1)
    BY <1>2 DEF NoRun
  <2>2. /\ n <= NumberOfNewTexts /\ m <= NumberOfTexts /\ n \in 1..NumberOfTexts
        /\ i0 \in Nat /\ i0 >= Text[n].start
    BY <1>0, <2>1, ComparedTexts, Lengths DEF Place
  <2>3. Text[n].start \in Nat
    BY <1>0, <2>2, Lengths DEF TextType
  <2>4. i0 + 1 \in Nat /\ i0 + 1 >= Text[n].start
    BY <2>2, <2>3
  <2>5. pc' \in {"lcs", "range"}
    BY <2>1 DEF LookAt
  <2>6. References' /\ Place' /\ BestIsRun'
    BY <2>1, <2>2, <2>4, LookAtInv
  <2> QED
    BY <2>1, <2>5, <2>6, StepKeeps
<1>3. CASE NextText
  <2>1. /\ pc = "range" /\ pc' = "range" /\ n' = n + 1 /\ m' = First(n + 1)
        /\ UNCHANGED <<textVars, hashVars, runs>>
    BY <1>3 DEF NextText
  <2>2. First(n)' = First(n + 1)
    BY <2>1 DEF First, option_set, textVars
  <2>3. n + 1 \in Nat \ {0} /\ First(n + 1) \in Int
    BY <1>0, <2>1, FirstAfter DEF Place
  <2>4. Place'
    BY <2>1, <2>2, <2>3 DEF Place
  <2>5. References' /\ BestIsRun'
    BY <1>0, <2>1 DEF References, BestIsRun, hashVars, textVars, TextLength
  <2> QED
    BY <2>1, <2>4, <2>5, StepKeeps
<1>4. CASE RunOutOfMemory
  <2>1. References' /\ Place' /\ BestIsRun'
    BY <1>4 DEF RunOutOfMemory, References, Place, BestIsRun
  <2> QED
    BY <1>4, <2>1, StepKeeps DEF RunOutOfMemory, compareVars
<1>5. CASE CompareDone
  <2>1. References' /\ Place' /\ BestIsRun'
    BY <1>0, <1>5 DEF CompareDone, References, Place, BestIsRun, hashVars, textVars, TextLength
  <2> QED
    BY <1>5, <2>1, StepKeeps DEF CompareDone, compareVars
<1> QED
  BY <1>1, <1>2, <1>3, <1>4, <1>5

LEMMA StutterInv ==
  ASSUME IInv, UNCHANGED vars
  PROVE  IInv'
<1> USE DEF vars, textVars, hashVars, compareVars
<1>1. Types' /\ Tiles' /\ Collected'
  BY DEF IInv, Types, Tiles, Collected, NumberOfTexts, TextLength
<1>2. References' /\ Place'
  BY DEF IInv, References, Place, First, option_set, NumberOfTexts, TextLength, MinRunSize
<1>3. BestIsRun'
  BY DEF IInv, BestIsRun, IsRun, Common, Acceptable, TextAt, i_limit, NumberOfTexts,
         MinRunSize, option_set
<1>4. RunsGenuine'
  BY RunsKept DEF IInv
<1> QED
  BY <1>1, <1>2, <1>3, <1>4 DEF IInv

LEMMA StepInv ==
  ASSUME IInv, [Next]_vars
  PROVE  IInv'
<1>1. CASE Pass1 /\ UNCHANGED <<hashVars, compareVars>>
  BY <1>1, Pass1Inv
<1>2. CASE Match
  BY <1>2, HashInv, RangeInv, LcsInv DEF Match
<1>3. CASE AddRun
  BY <1>3, AddRunInv
<1>4. CASE CompareDone
  BY <1>4, RangeInv
<1>5. CASE UNCHANGED vars
  BY <1>5, StutterInv
<1> QED
  BY <1>1, <1>2, <1>3, <1>4, <1>5 DEF Next

\* For all files, options, languages and hash functions: a run the similarity
\* tester reports consists of two chunks of a pair of texts the options ask for,
\* which lie in their texts, have the same tokens, at least as many as required,
\* do not overlap, and start and end as the language allows.
THEOREM RunsAreGenuine == Spec => []RunsGenuine
<1>1. IInv /\ [Next]_vars => IInv'
  BY StepInv
<1>2. IInv => RunsGenuine
  BY DEF IInv
<1> QED
  BY <1>1, <1>2, InitInv, PTL DEF Spec

(***************************************************************************)
(* The forward references.                                                 *)
(***************************************************************************)

\* Runs of minimum size start at i and j and have the same first hash code;
\* the same second one too.
Same1(i, j) == StartsRun(i) /\ StartsRun(j) /\ hash1(j) = hash1(i)
Same2(i, j) == Same1(i, j) /\ hash2(j) = hash2(i)

\* j is the first position after i, before lim, with the same first hash code;
\* with the same hash codes; 0 stands for none.
Next1(j, i, lim) ==
  /\ j # 0 => j \in (i + 1)..(lim - 1) /\ Same1(i, j) /\ \A k \in (i + 1)..(j - 1) : ~Same1(i, k)
  /\ j = 0 => \A k \in (i + 1)..(lim - 1) : ~Same1(i, k)
Next2(j, i) ==
  /\ j # 0 => /\ j \in (i + 1)..(TextLength - 1) /\ Same2(i, j)
              /\ \A k \in (i + 1)..(j - 1) : ~Same2(i, k)
  /\ j = 0 => \A k \in (i + 1)..(TextLength - 1) : ~Same2(i, k)

\* A run of minimum size with hash code h starts at i.
Has(i, h) == StartsRun(i) /\ hash1(i) = h

\* j is the last position before lim with hash code h.
LastWith(j, h, lim) ==
  /\ j # 0 => j \in 1..(lim - 1) /\ Has(j, h) /\ \A k \in (j + 1)..(lim - 1) : ~Has(k, h)
  /\ j = 0 => \A k \in 1..(lim - 1) : ~Has(k, h)

\* The walk along the chain of p has passed nothing with the hash codes of p.
Passed(p, q) ==
  q = p \/ /\ q \in (p + 1)..(TextLength - 1)
           /\ Same1(p, q)
           /\ \A k \in (p + 1)..q : ~Same2(p, k)

Table ==
  pc \in {"hash1", "hash2"} => hash_table_size \in {Primes[k] : k \in 1..Len(Primes)}

FirstPass ==
  pc = "hash1" =>
    /\ i0 \in 1..TextLength
    /\ last_index \in [0..(hash_table_size - 1) -> Nat]
    /\ \A h \in 0..(hash_table_size - 1) : LastWith(last_index[h], h, i0)
    /\ \A i \in 1..(TextLength - 1) : Next1(forward_references[i], i, i0)

SecondPass ==
  pc = "hash2" =>
    /\ i0 \in Nat \ {0}
    /\ Passed(i0, i1)
    /\ \A i \in 1..(TextLength - 1) :
         IF i < i0 THEN Next2(forward_references[i], i)
         ELSE Next1(forward_references[i], i, TextLength)

\* ForwardExact, position by position
AllExact == Comparing => \A i \in 1..(TextLength - 1) : Next2(forward_references[i], i)

FInv == IInv /\ Table /\ FirstPass /\ SecondPass /\ AllExact

-----------------------------------------------------------------------------
\* The straight line ends at the end of the run.
LEMMA SampleInRun ==
  ASSUME Types, NEW k \in 0..(N_SAMPLES - 1)
  PROVE  SamplePos(k) \in 0..(MinRunSize - 1)
<1> DEFINE r == MinRunSize - 1
           d == N_SAMPLES - 1
           x == 2 * k * r + d
           q == x \div (2 * d)
<1>1. r \in Nat /\ d \in Nat /\ d > 0 /\ k \in Nat /\ k <= d
  BY Lengths, PrimesAssumption
<1>2. SamplePos(k) = q
  BY DEF SamplePos
<1>3. MinRunSize = r + 1 /\ MinRunSize \in Nat
  BY Lengths
<1> HIDE DEF r, d
<1>4. x \in Nat /\ 2 * d \in Nat /\ 2 * d > 0
  BY <1>1
<1>5. x <= 2 * d * r + d
  BY <1>1
<1>6. q \in Nat /\ q * (2 * d) <= x
  BY <1>4
<1>7. q <= r
  <2> SUFFICES ASSUME q >= r + 1 PROVE FALSE
    BY <1>1, <1>6
  <2> HIDE DEF q
  <2>1. q * (2 * d) >= (r + 1) * (2 * d)
    BY <1>1, <1>6
  <2>2. (r + 1) * (2 * d) = 2 * d * r + 2 * d
    BY <1>1
  <2> HIDE DEF x
  <2> QED
    BY <1>1, <1>4, <1>5, <1>6, <2>1, <2>2
<1> QED
  BY <1>1, <1>2, <1>3, <1>6, <1>7

\* A run that starts at a position ends before the end of TokenArray.
LEMMA RunFits ==
  ASSUME Types, Tiles, NEW i \in Nat, StartsRun(i)
  PROVE  i \in 1..(TextLength - 1) /\ i + MinRunSize <= TextLength
<1>1. PICK t \in 1..NumberOfTexts : Text[t].start <= i /\ i + MinRunSize - 1 < Text[t].limit
  BY DEF StartsRun
<1>2. /\ Text[t].start \in Nat /\ Text[t].limit \in Nat
      /\ 1 <= Text[t].start /\ Text[t].limit <= TextLength
      /\ MinRunSize \in Nat \ {0} /\ TextLength \in Nat \ {0}
  <2>1. Text[t] \in TextType
    BY Lengths
  <2> QED
    BY <2>1, Lengths DEF TextType, Tiles
<1> QED
  BY <1>1, <1>2

LEMMA HashInTable ==
  ASSUME Types, Tiles, hash_table_size \in {Primes[k] : k \in 1..Len(Primes)},
         NEW i \in Nat, StartsRun(i)
  PROVE  hash1(i) \in 0..(hash_table_size - 1)
<1>1. /\ i \in 1..(TextLength - 1) /\ i + MinRunSize <= TextLength
      /\ MinRunSize \in Nat \ {0} /\ Len(TokenArray) \in Nat /\ N_SAMPLES \in Nat
  BY RunFits, Lengths, PrimesAssumption
<1>2. ASSUME NEW k \in 1..N_SAMPLES
      PROVE  TokenArray[i + SamplePos(k - 1)] \in Tokens
  <2>1. SamplePos(k - 1) \in 0..(MinRunSize - 1)
    BY <1>1, SampleInRun
  <2>2. i + SamplePos(k - 1) \in 1..Len(TokenArray)
    BY <1>1, <2>1 DEF TextLength
  <2> QED
    BY <2>2 DEF Types
<1> DEFINE sample == [k \in 1..N_SAMPLES |-> TokenArray[i + SamplePos(k - 1)]]
<1>3. sample \in [1..N_SAMPLES -> Tokens]
  BY <1>2
<1>4. hash1(i) = Hash1(sample, hash_table_size)
  BY DEF hash1
<1> HIDE DEF sample
<1> QED
  BY <1>3, <1>4, Hash1Assumption

\* The steps of the hash passes leave the hash codes alone.
LEMMA CodesKept ==
  ASSUME UNCHANGED textVars, UNCHANGED hash_table_size
  PROVE  /\ TextLength' = TextLength
         /\ \A i : StartsRun(i)' <=> StartsRun(i)
         /\ \A i : hash1(i)' = hash1(i)
         /\ \A i, j : Same1(i, j)' <=> Same1(i, j)
         /\ \A i, j : Same2(i, j)' <=> Same2(i, j)
         /\ \A i, h : Has(i, h)' <=> Has(i, h)
<1> USE DEF textVars
<1>1. /\ TokenArray' = TokenArray /\ Text' = Text /\ opt' = opt
      /\ hash_table_size' = hash_table_size
  OBVIOUS
<1>2. TextLength' = TextLength
  BY <1>1 DEF TextLength
<1>3. \A i : StartsRun(i)' <=> StartsRun(i)
  BY <1>1 DEF StartsRun, NumberOfTexts, MinRunSize
<1>4. \A i : hash1(i)' = hash1(i)
  BY <1>1 DEF hash1, SamplePos, MinRunSize
<1>5. \A i, j : Same1(i, j)' <=> Same1(i, j)
  BY <1>3, <1>4 DEF Same1
<1>6. \A i : hash2(i)' = hash2(i)
  BY <1>1 DEF hash2, MinRunSize
<1>7. \A i, j : Same2(i, j)' <=> Same2(i, j)
  BY <1>5, <1>6 DEF Same2
<1>8. \A i, h : Has(i, h)' <=> Has(i, h)
  BY <1>3, <1>4 DEF Has
<1> QED
  BY <1>2, <1>3, <1>4, <1>5, <1>7, <1>8

\* Position p joins the chain of its hash code.
LEMMA ChainGrows ==
  ASSUME NEW p \in 1..(TextLength - 1), TextLength \in Nat, StartsRun(p),
         NEW last \in Nat, LastWith(last, hash1(p), p),
         NEW i \in 1..(TextLength - 1), NEW j, Next1(j, i, p)
  PROVE  Next1(IF i = last THEN p ELSE j, i, p + 1)
<1>1. CASE i = last
  <2>1. i # 0 /\ i \in 1..(p - 1) /\ Has(i, hash1(p)) /\ \A k \in (i + 1)..(p - 1) : ~Has(k, hash1(p))
    BY <1>1 DEF LastWith
  <2>2. Same1(i, p) /\ \A k \in (i + 1)..(p - 1) : ~Same1(i, k)
    BY <2>1 DEF Has, Same1
  <2> QED
    BY <1>1, <2>1, <2>2 DEF Next1
<1>2. CASE i # last
  <2>1. ASSUME j = 0, i < p PROVE ~Same1(i, p)
    <3> SUFFICES ASSUME Same1(i, p) PROVE FALSE
      OBVIOUS
    <3>1. Has(i, hash1(p)) /\ i \in 1..(p - 1)
      BY <2>1 DEF Has, Same1
    <3>2. last # 0 /\ last \in 1..(p - 1) /\ Has(last, hash1(p)) /\ ~(i > last)
      BY <3>1 DEF LastWith
    <3>3. last \in (i + 1)..(p - 1)
      BY <1>2, <3>2
    <3>4. Same1(i, last)
      BY <3>1, <3>2 DEF Has, Same1
    <3> QED
      BY <2>1, <3>3, <3>4 DEF Next1
  <2>2. j = 0 => \A k \in (i + 1)..p : ~Same1(i, k)
    <3> SUFFICES ASSUME j = 0, NEW k \in (i + 1)..p PROVE ~Same1(i, k)
      OBVIOUS
    <3>1. CASE k = p
      BY <2>1, <3>1
    <3>2. CASE k # p
      <4>1. k \in (i + 1)..(p - 1)
        BY <3>2
      <4> QED
        BY <4>1 DEF Next1
    <3> QED
      BY <3>1, <3>2
  <2>3. j # 0 => j \in (i + 1)..p /\ Same1(i, j) /\ \A k \in (i + 1)..(j - 1) : ~Same1(i, k)
    BY DEF Next1
  <2> QED
    BY <1>2, <2>2, <2>3 DEF Next1
<1> QED
  BY <1>1, <1>2

\* A position at which no run starts changes nothing.
LEMMA NoRunAt ==
  ASSUME NEW p \in 1..(TextLength - 1), TextLength \in Nat, ~StartsRun(p)
  PROVE  /\ \A i \in 1..(TextLength - 1) : \A j : Next1(j, i, p) => Next1(j, i, p + 1)
         /\ \A h, j : LastWith(j, h, p) => LastWith(j, h, p + 1)
<1>1. ASSUME NEW i \in 1..(TextLength - 1), NEW j, Next1(j, i, p) PROVE Next1(j, i, p + 1)
  <2>1. ASSUME j = 0, NEW k \in (i + 1)..p PROVE ~Same1(i, k)
    <3>1. CASE k = p
      BY <3>1 DEF Same1
    <3>2. CASE k # p
      <4>1. k \in (i + 1)..(p - 1)
        BY <3>2
      <4> QED
        BY <1>1, <2>1, <4>1 DEF Next1
    <3> QED
      BY <3>1, <3>2
  <2>2. j # 0 => j \in (i + 1)..p /\ Same1(i, j) /\ \A k \in (i + 1)..(j - 1) : ~Same1(i, k)
    BY <1>1 DEF Next1
  <2> QED
    BY <2>1, <2>2 DEF Next1
<1>2. ASSUME NEW h, NEW j, LastWith(j, h, p) PROVE LastWith(j, h, p + 1)
  <2>1. ~Has(p, h)
    BY DEF Has
  <2>2. j # 0 => j \in 1..p /\ Has(j, h) /\ \A k \in (j + 1)..p : ~Has(k, h)
    <3> SUFFICES ASSUME j # 0
                 PROVE  j \in 1..p /\ Has(j, h) /\ \A k \in (j + 1)..p : ~Has(k, h)
      OBVIOUS
    <3>1. j \in 1..(p - 1) /\ Has(j, h) /\ \A k \in (j + 1)..(p - 1) : ~Has(k, h)
      BY <1>2 DEF LastWith
    <3> QED
      BY <2>1, <3>1
  <2>3. j = 0 => \A k \in 1..p : ~Has(k, h)
    BY <1>2, <2>1 DEF LastWith
  <2> QED
    BY <2>2, <2>3 DEF LastWith
<1> QED
  BY <1>1, <1>2

LEMMA FirstPassStep ==
  ASSUME FInv, Hash1Step
  PROVE  FirstPass'
<1> DEFINE p == i0
           h == hash1(i0)
           last == last_index[h]
<1>0. /\ Types /\ Tiles /\ pc = "hash1" /\ TextLength \in Nat \ {0} /\ pc' = "hash1"
      /\ hash_table_size \in {Primes[k] : k \in 1..Len(Primes)}
      /\ hash_table_size \in Nat \ {0}
      /\ forward_references \in [0..(TextLength - 1) -> 0..(TextLength - 1)]
      /\ p \in 1..(TextLength - 1) /\ i0' = p + 1
      /\ UNCHANGED textVars /\ UNCHANGED hash_table_size
  BY Lengths, PrimesAssumption DEF FInv, IInv, Table, References, FirstPass, Hash1Step
<1>1. /\ last_index \in [0..(hash_table_size - 1) -> Nat]
      /\ \A g \in 0..(hash_table_size - 1) : LastWith(last_index[g], g, p)
      /\ \A i \in 1..(TextLength - 1) : Next1(forward_references[i], i, p)
  BY <1>0 DEF FInv, FirstPass
<1>2. /\ last_index' \in [0..(hash_table_size - 1) -> Nat]
      /\ \A g \in 0..(hash_table_size - 1) : LastWith(last_index'[g], g, p + 1)
      /\ \A i \in 1..(TextLength - 1) : Next1(forward_references'[i], i, p + 1)
  <2>1. CASE ~StartsRun(p)
    <3>1. last_index' = last_index /\ forward_references' = forward_references
      BY <2>1 DEF Hash1Step
    <3> HIDE DEF p
    <3> QED
      BY <1>0, <1>1, <2>1, <3>1, NoRunAt
  <2>2. CASE StartsRun(p)
    <3>1. /\ last_index' = [last_index EXCEPT ![h] = p]
          /\ forward_references' = IF last # 0 THEN [forward_references EXCEPT ![last] = p]
                                   ELSE forward_references
      BY <2>2 DEF Hash1Step
    <3>2. h \in 0..(hash_table_size - 1)
      BY <1>0, <2>2, HashInTable
    <3>3. last \in Nat /\ LastWith(last, h, p)
      BY <1>1, <3>2
    <3>4. h = hash1(p)
      OBVIOUS
    <3> HIDE DEF last, h, p
    <3>5. ASSUME NEW i \in 1..(TextLength - 1)
          PROVE  Next1(forward_references'[i], i, p + 1)
      <4>1. forward_references'[i] = IF i = last THEN p ELSE forward_references[i]
        BY <1>0, <3>1
      <4> QED
        BY <1>0, <1>1, <2>2, <3>3, <3>4, <4>1, ChainGrows
    <3>6. ASSUME NEW g \in 0..(hash_table_size - 1)
          PROVE  LastWith(last_index'[g], g, p + 1)
      <4>1. CASE g = h
        <5>1. last_index'[g] = p
          BY <1>1, <3>1, <4>1
        <5>2. Has(p, g)
          BY <2>2, <3>4, <4>1 DEF Has
        <5>3. p \in Nat \ {0}
          BY <1>0
        <5>4. p \in 1..((p + 1) - 1) /\ \A k \in (p + 1)..((p + 1) - 1) : FALSE
          BY <5>3
        <5> QED
          BY <5>1, <5>2, <5>3, <5>4 DEF LastWith
      <4>2. CASE g # h
        <5> DEFINE j == last_index[g]
        <5>1. last_index'[g] = j /\ LastWith(j, g, p) /\ ~Has(p, g)
          BY <1>1, <3>1, <3>4, <4>2 DEF Has
        <5> HIDE DEF j
        <5>2. \A k \in 1..p : k = p \/ k \in 1..(p - 1)
          BY <1>0
        <5>3. j # 0 => j \in 1..p /\ Has(j, g) /\ \A k \in (j + 1)..p : ~Has(k, g)
          <6> SUFFICES ASSUME j # 0
                       PROVE  j \in 1..p /\ Has(j, g) /\ \A k \in (j + 1)..p : ~Has(k, g)
            OBVIOUS
          <6>1. j \in 1..(p - 1) /\ Has(j, g) /\ \A k \in (j + 1)..(p - 1) : ~Has(k, g)
            BY <5>1 DEF LastWith
          <6>2. p \in Nat
            BY <1>0
          <6>3. \A k \in (j + 1)..p : k = p \/ k \in (j + 1)..(p - 1)
            BY <6>1, <6>2
          <6>4. \A k \in (j + 1)..p : ~Has(k, g)
            BY <5>1, <6>1, <6>3
          <6>5. j \in 1..p
            BY <6>1, <6>2
          <6> QED
            BY <6>1, <6>4, <6>5
        <5>4. j = 0 => \A k \in 1..p : ~Has(k, g)
          BY <5>1, <5>2 DEF LastWith
        <5>5. (p + 1) - 1 = p
          BY <1>0
        <5> QED
          BY <5>1, <5>3, <5>4, <5>5 DEF LastWith
      <4> QED
        BY <4>1, <4>2
    <3>7. last_index' \in [0..(hash_table_size - 1) -> Nat]
      <4>1. p \in Nat
        BY <1>0
      <4>2. last_index \in [0..(hash_table_size - 1) -> Nat]
        BY <1>1, Zenon
      <4> QED
        BY <3>1, <4>1, <4>2
    <3> QED
      BY <3>5, <3>6, <3>7
  <2> QED
    BY <2>1, <2>2
<1> HIDE DEF p, last, h
<1>3. /\ TextLength' = TextLength
      /\ \A i, j : Same1(i, j)' <=> Same1(i, j)
      /\ \A i, g : Has(i, g)' <=> Has(i, g)
  BY <1>0, CodesKept
<1>4. \A g \in 0..(hash_table_size - 1) : LastWith(last_index[g], g, i0)'
  BY <1>0, <1>2, <1>3 DEF LastWith
<1>5. \A i \in 1..(TextLength - 1) : Next1(forward_references[i], i, i0)'
  BY <1>0, <1>2, <1>3 DEF Next1
<1> QED
  BY <1>0, <1>2, <1>3, <1>4, <1>5 DEF FirstPass

-----------------------------------------------------------------------------
(* The second pass *)

\* Nothing that starts at i0 or later has a repetition behind it when no run of
\* minimum size fits there.
LEMMA NoneFitsAtEnd ==
  ASSUME Types, Tiles, NEW p \in Nat, p + MinRunSize >= TextLength,
         NEW i \in p..(TextLength - 1), NEW j, Next1(j, i, TextLength)
  PROVE  Next2(j, i)
<1>0. TextLength \in Nat /\ MinRunSize \in Nat \ {0} /\ i \in Nat
  BY Lengths
<1>1. ASSUME NEW k \in (i + 1)..(TextLength - 1) PROVE ~Same1(i, k)
  <2>1. k \in Nat /\ k + MinRunSize > TextLength
    BY <1>0
  <2>2. ~StartsRun(k)
    BY <1>0, <2>1, RunFits
  <2> QED
    BY <2>2 DEF Same1
<1>2. j = 0
  BY <1>1 DEF Next1
<1> QED
  BY <1>1, <1>2 DEF Next2, Same2

LEMMA WalkPasses ==
  ASSUME TextLength \in Nat, NEW p \in 1..(TextLength - 1),
         NEW q \in 1..(TextLength - 1), Passed(p, q),
         NEW j, Next1(j, q, TextLength)
  PROVE  /\ j # 0 /\ hash2(j) # hash2(p) => Passed(p, j)
         /\ ~(j # 0 /\ hash2(j) # hash2(p)) => Next2(j, p)
<1>0. q >= p
  BY DEF Passed
<1>1. ASSUME NEW k \in (q + 1)..(TextLength - 1), Same1(p, k) PROVE Same1(q, k)
  BY <1>1 DEF Passed, Same1
<1>2. ASSUME j = 0 PROVE \A k \in (p + 1)..(TextLength - 1) : ~Same2(p, k)
  <2> SUFFICES ASSUME NEW k \in (p + 1)..(TextLength - 1), Same2(p, k) PROVE FALSE
    OBVIOUS
  <2>1. CASE k \in (p + 1)..q
    BY <2>1 DEF Passed
  <2>2. CASE k \in (q + 1)..(TextLength - 1)
    BY <1>1, <1>2, <2>2 DEF Next1, Same2
  <2> QED
    BY <1>0, <2>1, <2>2
<1>3. ASSUME j # 0
      PROVE  /\ j \in (p + 1)..(TextLength - 1) /\ Same1(p, j)
             /\ \A k \in (p + 1)..(j - 1) : ~Same2(p, k)
  <2>1. j \in (q + 1)..(TextLength - 1) /\ Same1(q, j) /\ \A k \in (q + 1)..(j - 1) : ~Same1(q, k)
    BY <1>3 DEF Next1
  <2>2. j \in (p + 1)..(TextLength - 1)
    BY <1>0, <2>1
  <2>3. Same1(p, j)
    BY <2>1 DEF Passed, Same1
  <2>4. ASSUME NEW k \in (p + 1)..(j - 1), Same2(p, k) PROVE FALSE
    <3>1. CASE k \in (p + 1)..q
      BY <2>4, <3>1 DEF Passed
    <3>2. CASE k \in (q + 1)..(j - 1)
      <4>1. k \in (q + 1)..(TextLength - 1)
        BY <2>1, <3>2
      <4> QED
        BY <1>1, <2>1, <2>4, <3>2, <4>1 DEF Same2
    <3> QED
      BY <1>0, <3>1, <3>2
  <2> QED
    BY <2>2, <2>3, <2>4
<1>4. ASSUME j # 0, hash2(j) # hash2(p) PROVE Passed(p, j)
  <2>1. ~Same2(p, j)
    BY <1>4 DEF Same2
  <2>2. \A k \in (p + 1)..j : k = j \/ k \in (p + 1)..(j - 1)
    BY <1>3, <1>4
  <2> QED
    BY <1>3, <1>4, <2>1, <2>2 DEF Passed
<1>5. ASSUME j # 0, hash2(j) = hash2(p) PROVE Next2(j, p)
  BY <1>3, <1>5 DEF Next2, Same2
<1>6. ASSUME j = 0 PROVE Next2(j, p)
  BY <1>2, <1>6 DEF Next2
<1> QED
  BY <1>4, <1>5, <1>6

LEMMA SecondPassStep ==
  ASSUME FInv, Hash2Step
  PROVE  SecondPass'
<1> DEFINE p == i0
           q == i1
           j == forward_references[i1]
<1>0. /\ Types /\ Tiles /\ pc = "hash2" /\ TextLength \in Nat \ {0} /\ pc' = "hash2"
      /\ MinRunSize \in Nat \ {0}
      /\ forward_references \in [0..(TextLength - 1) -> 0..(TextLength - 1)]
      /\ p \in Nat \ {0} /\ p + MinRunSize < TextLength
      /\ UNCHANGED textVars /\ UNCHANGED hash_table_size
  BY Lengths DEF FInv, IInv, References, SecondPass, Hash2Step
<1>1. /\ Passed(p, q)
      /\ \A i \in 1..(TextLength - 1) :
           IF i < p THEN Next2(forward_references[i], i)
           ELSE Next1(forward_references[i], i, TextLength)
  BY <1>0 DEF FInv, SecondPass
<1>2. IF j # 0 /\ hash2(j) # hash2(p)
      THEN i1' = j /\ i0' = p /\ forward_references' = forward_references
      ELSE /\ forward_references' = [forward_references EXCEPT ![p] = j]
           /\ i0' = p + 1 /\ i1' = p + 1
  BY DEF Hash2Step
<1>3. p \in 1..(TextLength - 1) /\ q \in 1..(TextLength - 1) /\ q >= p
  <2>1. p \in 1..(TextLength - 1)
    BY <1>0
  <2> HIDE DEF p, q
  <2> QED
    BY <1>1, <2>1 DEF Passed
<1> HIDE DEF p
<1>4. Next1(j, q, TextLength)
  <2>1. ~(q < p)
    BY <1>0, <1>3
  <2> QED
    BY <1>1, <1>3, <2>1
<1> HIDE DEF q, j
<1>5. /\ i0' \in Nat \ {0} /\ Passed(i0', i1')
      /\ \A i \in 1..(TextLength - 1) :
           IF i < i0' THEN Next2(forward_references'[i], i)
           ELSE Next1(forward_references'[i], i, TextLength)
  <2>1. CASE j # 0 /\ hash2(j) # hash2(p)
    <3>1. Passed(p, j)
      BY <1>0, <1>1, <1>3, <1>4, <2>1, WalkPasses
    <3> QED
      BY <1>0, <1>1, <1>2, <2>1, <3>1
  <2>2. CASE ~(j # 0 /\ hash2(j) # hash2(p))
    <3>1. Next2(j, p)
      BY <1>0, <1>1, <1>3, <1>4, <2>2, WalkPasses
    <3>2. /\ forward_references' = [forward_references EXCEPT ![p] = j]
          /\ i0' = p + 1 /\ i1' = p + 1
      BY <1>2, <2>2
    <3>3. Passed(i0', i1')
      BY <3>2 DEF Passed
    <3>4. ASSUME NEW i \in 1..(TextLength - 1)
          PROVE  IF i < i0' THEN Next2(forward_references'[i], i)
                 ELSE Next1(forward_references'[i], i, TextLength)
      <4>1. CASE i = p
        BY <1>0, <3>1, <3>2, <4>1
      <4>2. CASE i # p
        <5>1. forward_references'[i] = forward_references[i] /\ (i < i0' <=> i < p)
          BY <1>0, <3>2, <4>2
        <5> QED
          BY <1>1, <5>1
      <4> QED
        BY <4>1, <4>2
    <3> QED
      BY <1>0, <3>2, <3>3, <3>4
  <2> QED
    BY <2>1, <2>2
<1>6. /\ TextLength' = TextLength
      /\ \A a, b : Same1(a, b)' <=> Same1(a, b)
      /\ \A a, b : Same2(a, b)' <=> Same2(a, b)
  BY <1>0, CodesKept
<1>7. Passed(i0, i1)'
  BY <1>5, <1>6 DEF Passed
<1>8. \A i \in 1..(TextLength - 1) :
        (IF i < i0 THEN Next2(forward_references[i], i)
         ELSE Next1(forward_references[i], i, TextLength))'
  BY <1>5, <1>6 DEF Next1, Next2
<1> QED
  BY <1>0, <1>5, <1>6, <1>7, <1>8 DEF SecondPass

\* A step that leaves the texts and tables alone leaves the references exact.
LEMMA ExactKept ==
  ASSUME FInv, UNCHANGED textVars, UNCHANGED hashVars, Comparing
  PROVE  AllExact'
<1>1. \A i \in 1..(TextLength - 1) : Next2(forward_references[i], i)
  BY DEF FInv, AllExact
<1>2. /\ TextLength' = TextLength
      /\ \A a, b : Same2(a, b)' <=> Same2(a, b)
      /\ forward_references' = forward_references
  BY CodesKept DEF hashVars
<1>3. \A i \in 1..(TextLength - 1) : Next2(forward_references[i], i)'
  BY <1>1, <1>2 DEF Next2
<1> QED
  BY <1>2, <1>3 DEF AllExact

LEMMA HashPassesInv ==
  ASSUME FInv, InitHashTable \/ Hash1Done \/ Hash2Done \/ Hash1Step \/ Hash2Step
  PROVE  Table' /\ FirstPass' /\ SecondPass' /\ AllExact'
<1>0. Types /\ Tiles /\ TextLength \in Nat \ {0} /\ MinRunSize \in Nat \ {0}
  BY Lengths DEF FInv, IInv
<1>1. CASE InitHashTable
  <2>1. PICK k \in 1..Len(Primes) :
          /\ hash_table_size' = Primes[k]
          /\ last_index' = [h \in 0..(Primes[k] - 1) |-> 0]
    BY <1>1 DEF InitHashTable
  <2>2. /\ pc' = "hash1" /\ i0' = 1 /\ TextLength' = TextLength
        /\ forward_references' = [i \in 0..(TextLength - 1) |-> 0]
    BY <1>1 DEF InitHashTable, textVars, TextLength
  <2>3. \A h \in 0..(Primes[k] - 1) : LastWith(last_index[h], h, i0)'
    BY <2>1, <2>2 DEF LastWith
  <2>4. \A i \in 1..(TextLength - 1) : Next1(forward_references[i], i, i0)'
    BY <1>0, <2>2 DEF Next1
  <2>5. FirstPass'
    BY <1>0, <2>1, <2>2, <2>3, <2>4 DEF FirstPass
  <2> QED
    BY <2>1, <2>2, <2>5 DEF Table, SecondPass, AllExact, Comparing
<1>2. CASE Hash1Step
  <2>1. /\ pc = "hash1" /\ pc' = "hash1" /\ hash_table_size' = hash_table_size
    BY <1>2 DEF Hash1Step
  <2> QED
    BY <1>2, <2>1, FirstPassStep DEF FInv, Table, SecondPass, AllExact, Comparing
<1>3. CASE Hash1Done
  <2>1. /\ pc = "hash1" /\ i0 = TextLength /\ pc' = "hash2" /\ i0' = 1 /\ i1' = 1
        /\ UNCHANGED textVars /\ UNCHANGED hashVars /\ UNCHANGED hash_table_size
        /\ UNCHANGED forward_references
    BY <1>3 DEF Hash1Done, hashVars
  <2>2. TextLength' = TextLength /\ \A i, j : Same1(i, j)' <=> Same1(i, j)
    BY <2>1, CodesKept
  <2>3. \A i \in 1..(TextLength - 1) : Next1(forward_references[i], i, TextLength)
    BY <2>1 DEF FInv, FirstPass
  <2>4. \A i \in 1..(TextLength - 1) :
          ~(i < i0') /\ Next1(forward_references[i], i, TextLength)'
    BY <1>0, <2>1, <2>2, <2>3 DEF Next1
  <2>5. Passed(i0, i1)'
    BY <2>1 DEF Passed
  <2>6. SecondPass'
    BY <2>1, <2>2, <2>4, <2>5 DEF SecondPass
  <2> QED
    BY <2>1, <2>6 DEF FInv, Table, FirstPass, AllExact, Comparing
<1>4. CASE Hash2Step
  <2>1. /\ pc = "hash2" /\ pc' = "hash2" /\ hash_table_size' = hash_table_size
    BY <1>4 DEF Hash2Step
  <2> QED
    BY <1>4, <2>1, SecondPassStep DEF FInv, Table, FirstPass, AllExact, Comparing
<1>5. CASE Hash2Done
  <2>1. /\ pc = "hash2" /\ i0 + MinRunSize >= TextLength /\ pc' = "range"
        /\ UNCHANGED textVars /\ UNCHANGED hash_table_size /\ UNCHANGED forward_references
    BY <1>5 DEF Hash2Done, hashVars
  <2>2. ASSUME NEW i \in 1..(TextLength - 1) PROVE Next2(forward_references[i], i)
    <3>1. /\ i0 \in Nat \ {0}
          /\ IF i < i0 THEN Next2(forward_references[i], i)
             ELSE Next1(forward_references[i], i, TextLength)
      BY <2>1 DEF FInv, SecondPass
    <3>2. CASE i < i0
      BY <3>1, <3>2
    <3>3. CASE ~(i < i0)
      <4>1. i \in i0..(TextLength - 1) /\ Next1(forward_references[i], i, TextLength)
        BY <1>0, <3>1, <3>3
      <4> QED
        BY <1>0, <2>1, <3>1, <4>1, NoneFitsAtEnd
    <3> QED
      BY <3>2, <3>3
  <2>3. TextLength' = TextLength /\ \A i, j : Same2(i, j)' <=> Same2(i, j)
    BY <2>1, CodesKept
  <2>4. \A i \in 1..(TextLength - 1) : Next2(forward_references[i], i)'
    BY <2>1, <2>2, <2>3 DEF Next2
  <2>5. AllExact'
    BY <2>3, <2>4 DEF AllExact
  <2> QED
    BY <2>1, <2>5 DEF Table, FirstPass, SecondPass
<1> QED
  BY <1>1, <1>2, <1>3, <1>4, <1>5

LEMMA ForwardStutter ==
  ASSUME FInv, UNCHANGED vars
  PROVE  Table' /\ FirstPass' /\ SecondPass' /\ AllExact'
<1>1. /\ TextLength' = TextLength
      /\ \A i, j : Same1(i, j)' <=> Same1(i, j)
      /\ \A i, j : Same2(i, j)' <=> Same2(i, j)
      /\ \A i, h : Has(i, h)' <=> Has(i, h)
  BY CodesKept DEF vars, hashVars
<1>2. /\ pc' = pc /\ i0' = i0 /\ i1' = i1 /\ last_index' = last_index
      /\ forward_references' = forward_references /\ hash_table_size' = hash_table_size
  BY DEF vars, hashVars, compareVars
<1>3. Table /\ FirstPass /\ SecondPass /\ AllExact
  BY DEF FInv
<1>4. Table' /\ FirstPass'
  BY <1>1, <1>2, <1>3 DEF Table, FirstPass, Next1, LastWith
<1>5. SecondPass' /\ AllExact'
  BY <1>1, <1>2, <1>3 DEF SecondPass, AllExact, Comparing, Passed, Next1, Next2
<1> QED
  BY <1>4, <1>5

LEMMA ForwardStep ==
  ASSUME FInv, [Next]_vars
  PROVE  FInv'
<1> DEFINE Goal == Table' /\ FirstPass' /\ SecondPass' /\ AllExact'
<1> SUFFICES Goal
  BY StepInv DEF FInv
<1>1. ASSUME pc' \in {"args", "read", "table", "fatal"} PROVE Goal
  BY <1>1 DEF Table, FirstPass, SecondPass, AllExact, Comparing
<1>2. ASSUME UNCHANGED textVars, UNCHANGED hashVars, Comparing, pc' \notin {"hash1", "hash2"}
      PROVE  Goal
  BY <1>2, ExactKept DEF Table, FirstPass, SecondPass
<1>3. CASE Pass1
  <2>1. pc' \in {"args", "read", "table", "fatal"}
    BY <1>3 DEF Pass1, InitOutOfMemory, Separator, OpenFile, EndArgs, TokensOutOfMemory,
                ReadToken, ReadEol, EndFile
  <2> QED
    BY <1>1, <2>1
<1>4. CASE InitHashTable \/ Hash1Done \/ Hash2Done \/ Hash1Step \/ Hash2Step
  BY <1>4, HashPassesInv
<1>5. CASE TableOutOfMemory \/ RunOutOfMemory
  BY <1>1, <1>5 DEF TableOutOfMemory, RunOutOfMemory
<1>6. CASE StartRange \/ NextText \/ LcsStep \/ NoRun \/ AddRun \/ CompareDone
  BY <1>2, <1>6 DEF StartRange, NextText, LcsStep, NoRun, AddRun, CompareDone, LookAt, Comparing
<1>7. CASE UNCHANGED vars
  BY <1>7, ForwardStutter
<1> QED
  BY <1>3, <1>4, <1>5, <1>6, <1>7 DEF Next, Match

LEMMA ForwardInit == Init => FInv
<1>1. Init => Table /\ FirstPass /\ SecondPass /\ AllExact
  BY DEF Init, InitPass1, Table, FirstPass, SecondPass, AllExact, Comparing
<1> QED
  BY <1>1, InitInv DEF FInv

LEMMA ForwardIsExact ==
  ASSUME \A i \in 1..(TextLength - 1) : Next2(forward_references[i], i)
  PROVE  ForwardExact
<1> SUFFICES ASSUME NEW i \in 1..(TextLength - 1)
             PROVE  LET same == {j \in (i + 1)..(TextLength - 1) :
                                  /\ StartsRun(i) /\ StartsRun(j)
                                  /\ hash1(j) = hash1(i) /\ hash2(j) = hash2(i)}
                    IN  forward_references[i] = IF same = {} THEN 0 ELSE Min(same)
  BY DEF ForwardExact
<1> DEFINE same == {j \in (i + 1)..(TextLength - 1) : Same2(i, j)}
           j == forward_references[i]
<1>1. Next2(j, i)
  OBVIOUS
<1>2. j = IF same = {} THEN 0 ELSE Min(same)
  <2>1. CASE j = 0
    BY <1>1, <2>1 DEF Next2
  <2>2. CASE j # 0
    <3>1. j \in same /\ \A k \in same : j <= k
      BY <1>1, <2>2 DEF Next2
    <3>2. j \in Int /\ same \in SUBSET Int
      BY <3>1
    <3> HIDE DEF j, same
    <3>3. \A k \in same : (\A l \in same : k <= l) => k = j
      BY <3>1, <3>2
    <3>4. Min(same) = j
      BY <3>1, <3>3, Zenon DEF Min
    <3> QED
      BY <3>1, <3>4
  <2> QED
    BY <2>1, <2>2
<1> QED
  BY <1>2 DEF Same1, Same2

\* For all files, options and hash functions: once the two hash passes are over,
\* the forward reference of a position is the next position at which a run of
\* minimum size starts and which has the same hash codes, zero if there is none;
\* so the comparison, which only follows references, misses no repetition.
THEOREM ForwardReferencesExact == Spec => []ForwardExact
<1>1. FInv => ForwardExact
  <2>1. ASSUME FInv, Comparing PROVE ForwardExact
    BY <2>1, ForwardIsExact DEF FInv, AllExact
  <2> QED
    BY <2>1 DEF ForwardExact
<1>2. FInv /\ [Next]_vars => FInv'
  BY ForwardStep
<1> QED
  BY <1>1, <1>2, ForwardInit, PTL DEF Spec
=============================================================================
