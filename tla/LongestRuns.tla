----------------------------- MODULE LongestRuns -----------------------------
(***************************************************************************)
(* What the comparison of the similarity tester promises, without hash     *)
(* tables: every new text is compared to the texts the options ask for; at *)
(* each position the longest acceptable repetition to the right of it is   *)
(* reported, the leftmost of the longest ones, and skipped (compare.c:20,  *)
(* sim.1:45 and the options in sim.1).                                     *)
(***************************************************************************)
EXTENDS SimLanguage

VARIABLES
  stage,                                      \* "input", "work" or "done"
  opt, TokenArray, Text, NumberOfNewTexts,    \* the input
  todo,         \* comparisons that have not begun
  job,          \* the current one: a new text and the texts it is compared to, or <<>>
  at,           \* the position in the new text, 0 outside a comparison
  runs

inputVars == <<opt, TokenArray, Text, NumberOfNewTexts>>

\* the texts to which new text a is compared
Others(a) ==
  IF "S" \in opt.flags THEN NumberOfNewTexts + 2 .. Len(Text)
  ELSE IF "s" \in opt.flags THEN a + 1 .. Len(Text) ELSE a .. Len(Text)

\* in isolation, or in one action
Jobs == LET Of(a) == IF "e" \in opt.flags
                     THEN {<<a, {b}>> : b \in Others(a)} ELSE {<<a, Others(a)>>} \ {<<a, {}>>}
        IN  UNION {Of(a) : a \in 1..NumberOfNewTexts}

In(b, i, k) == Text[b].start <= i /\ i + k <= Text[b].limit

\* k tokens from position at are repeated at position i of text b.
Repeated(b, i, k) ==
  /\ In(job[1], at, k) /\ In(b, i, k) /\ at + k <= i
  /\ \A d \in 0..(k - 1) : TokenArray[at + d] = TokenArray[i + d]

\* the number of tokens that are acceptable of the repetition at i
Accepted(b, i) ==
  LET lengths == {k \in 1..Len(TokenArray) : Repeated(b, i, k)}
      size == IF lengths = {} \/ ~MayBeStartOfRun(TokenArray[at]) THEN 0
              ELSE CheckRun(SubSeq(TokenArray, at, at + Max(lengths) - 1), "f" \in opt.flags)
  IN  IF size >= opt.r THEN size ELSE 0

Repetitions == {c \in job[2] \X (at + 1 .. Len(TokenArray)) : Accepted(c[1], c[2]) > 0}

Best(c) == \A d \in Repetitions :
  \/ Accepted(d[1], d[2]) < Accepted(c[1], c[2])
  \/ Accepted(d[1], d[2]) = Accepted(c[1], c[2]) /\ c[2] <= d[2]

\* to position i of the new text, as long as a run of minimum size fits there
GoTo(j, i) == IF i + opt.r <= Text[j[1]].limit THEN at' = i /\ job' = j
              ELSE at' = 0 /\ job' = <<>>

-----------------------------------------------------------------------------
Init == stage = "input" /\ todo = {} /\ job = <<>> /\ at = 0 /\ runs = <<>>

ReadInput == stage = "input" /\ UNCHANGED <<stage, todo, job, at, runs>>

Begin == /\ stage = "input"
         /\ stage' = "work"
         /\ todo' = Jobs
         /\ UNCHANGED <<inputVars, job, at, runs>>

Take == /\ stage = "work" /\ at = 0
        /\ \E j \in todo : /\ todo' = todo \ {j}
                           /\ GoTo(j, Text[j[1]].start)
        /\ UNCHANGED <<stage, inputVars, runs>>

Report ==
  /\ at # 0
  /\ \E c \in Repetitions :
       LET size == Accepted(c[1], c[2]) IN
       /\ Best(c)
       /\ runs' = Append(runs, [text0 |-> job[1], pos0 |-> at - Text[job[1]].start,
                                text1 |-> c[1], pos1 |-> c[2] - Text[c[1]].start,
                                size |-> size])
       /\ GoTo(job, at + size)
  /\ UNCHANGED <<stage, inputVars, todo>>

MoveOn == /\ at # 0 /\ Repetitions = {}
          /\ GoTo(job, at + 1)
          /\ UNCHANGED <<stage, inputVars, todo, runs>>

Finish == /\ stage = "work" /\ at = 0 /\ todo = {}
          /\ stage' = "done"
          /\ UNCHANGED <<inputVars, todo, job, at, runs>>

Next == ReadInput \/ Begin \/ Take \/ Report \/ MoveOn \/ Finish

vars == <<stage, inputVars, todo, job, at, runs>>

Spec == Init /\ [][Next]_vars
=============================================================================
