------------------------------- MODULE MCSim -------------------------------
(***************************************************************************)
(* Small inputs for Sim: one letter and a pair of parentheses.  A command  *)
(* comes with the inputs that make its options matter.                     *)
(***************************************************************************)
EXTENDS Sim, Bitwise

CONSTANTS a, b, open, close

MCTokens == {a, b, open, close}
Code(tk) == CASE tk = a -> 1 [] tk = open -> 2 [] tk = close -> 3 [] tk = b -> 4

\* OPERATION of hash.c is an exclusive or.
MCHash1(sample, size) ==
  FoldLeft(LAMBDA h, tk : (2 * h) ^^ Code(tk), 0, sample) % size

Command(r, flags, alphabet, texts, tokens, eols) ==
  [r |-> r, flags |-> flags, texts |-> texts,
   tokens |-> [k \in 1..tokens |-> alphabet], eols |-> eols]

\* many runs of several sizes, in one text or in two
Long == LET str == <<b, b, a, a, b, a, b, b, b, b, b>>
        IN  [r |-> 1, flags |-> {}, texts |-> 2,
             tokens |-> [k \in 1..Len(str) |-> {str[k]}], eols |-> 0]

\* parentheses in all orders, twice
Parentheses == [r |-> 2, flags |-> {"f"}, texts |-> 2, eols |-> 0,
                tokens |-> [k \in 1..8 |-> CASE k % 4 = 1 -> {open}
                                             [] k % 4 = 2 -> {close}
                                             [] OTHER -> {open, close}]]

MCCommands == {
  Command(1, {}, {a, open}, 3, 4, 0),
  Command(1, {}, {a}, 2, 4, 2),
  Command(1, {"x"}, {a}, 2, 3, 2),
  Command(1, {"x"}, {a, b}, 2, 3, 1),
  Command(2, {}, {a, open}, 1, 6, 0),
  Command(3, {}, {a, open}, 2, 6, 0),
  Command(1, {"e"}, {a, b}, 3, 4, 0),
  Command(1, {"s"}, {a, open}, 2, 5, 0),
  Command(1, {"S"}, {a}, 4, 4, 0),
  Command(1, {"e", "S"}, {a}, 4, 4, 0),
  Command(1, {"p"}, {a, b}, 3, 4, 0),
  Long, Parentheses}

\* without the newline buffer, lines without tokens
MCNoBuffer == {Command(1, {"x"}, {a}, 2, 3, 2)}

MCOpeners == <<open>>
MCClosers == <<close>>
MCPrimes == <<2, 11, 13>>
=============================================================================
