------------------------------ MODULE SimText ------------------------------
(***************************************************************************)
(* Pass 1 of the similarity tester: pass1.c, tokenarray.c and the first    *)
(* half of text.c.  The files are read one after the other; their tokens   *)
(* go to TokenArray, and the number of tokens between two line ends goes   *)
(* to the newline buffer, so that Pass 2 need not read the files again.    *)
(* The buffer is given up when it cannot grow or when a difference does    *)
(* not fit into its unsigned char.                                         *)
(*                                                                         *)
(* A file is the sequence of tokens and EOLs its scanner yields.  The      *)
(* arguments are not fixed in advance: every step chooses the next one, or *)
(* the next token.  Indices are those of the C arrays where these start at *)
(* 1 (TokenArray, "don't use position 0"); texts count from 1 here.        *)
(*                                                                         *)
(* A definition X_Something is X with a plausible slip.  No specification  *)
(* uses it: it stands in for X to show that a property notices the slip.   *)
(***************************************************************************)
EXTENDS Integers, Sequences

CONSTANTS
  Tokens,       \* what yylex returns other than EOL
  EOL,          \* the token for the end of a line
  NoToken,      \* lex_token before the first call of yylex
  Commands,     \* the command lines: records with the minimum run size r, the
                \* set flags of the options e, s, S, f, p and x, and the bounds
                \* on the input: the arguments (texts), what the k-th token of
                \* all files may be (tokens), and the line ends of a file (eols)
  MaxDiff,      \* the largest unsigned char
  NlIncr,       \* NL_INCR
  TkIncr        \* TK_INCR

ASSUME TokensAssumption == EOL \notin Tokens /\ NoToken \notin Tokens \cup {EOL}
ASSUME CommandsAssumption == \A c \in Commands :
  /\ c.r \in Nat \ {0}
  /\ c.flags \subseteq {"e", "s", "S", "f", "p", "x"}
  /\ c.tokens \in Seq(SUBSET Tokens)
  /\ {c.texts, c.eols} \subseteq Nat
ASSUME SizesAssumption == MaxDiff \in Nat /\ {NlIncr, TkIncr} \subseteq Nat \ {0}

VARIABLES
  opt,              \* the command line, one of Commands
  pc,               \* the part of main that is running
  TokenArray,
  Text,             \* the text descriptors
  NumberOfNewTexts,
  lex_token, lex_tk_cnt,
  last_tk_cnt,      \* token count at the last line end
  have_nl,          \* nl_buff # 0
  nl_buff

textVars == <<opt, TokenArray, Text, NumberOfNewTexts, lex_token, lex_tk_cnt,
              last_tk_cnt, have_nl, nl_buff>>

option_set(ch) == ch \in opt.flags
MinRunSize == opt.r
NumberOfTexts == Len(Text)
TextLength == Len(TokenArray) + 1     \* tk_free

InitPass1 ==
  /\ opt \in Commands
  /\ pc = "args"
  /\ TokenArray = <<>>
  /\ Text = <<>>
  /\ NumberOfNewTexts = 0
  /\ lex_token = NoToken /\ lex_tk_cnt = 0 /\ last_tk_cnt = 0
  /\ have_nl = ~option_set("x")
  /\ nl_buff = <<>>

\* the descriptor of the next text; file is what its scanner yields
NewText == [start |-> TextLength, limit |-> TextLength,
            nl_start |-> 0, nl_limit |-> 0, file |-> <<>>]

\* InitText and InitTokenArray find no memory: fatal.
InitOutOfMemory ==
  /\ pc = "args" /\ Text = <<>>
  /\ pc' = "fatal"
  /\ UNCHANGED textVars

\* The argument "/": an empty text; the texts before it are the new ones.
Separator ==
  /\ pc = "args" /\ NumberOfTexts < opt.texts
  /\ Text' = Append(Text, NewText)
  /\ NumberOfNewTexts' = NumberOfTexts
  /\ UNCHANGED <<opt, pc, TokenArray, lex_token, lex_tk_cnt, last_tk_cnt,
                 have_nl, nl_buff>>

\* the token count at the last line end is not reset
OpenFile_KeepsCount ==
  /\ pc = "args" /\ NumberOfTexts < opt.texts
  /\ Text' = Append(Text, [NewText EXCEPT !.nl_start = Len(nl_buff)])
  /\ NumberOfNewTexts' = IF NumberOfNewTexts = NumberOfTexts
                         THEN NumberOfTexts + 1 ELSE NumberOfNewTexts
  /\ lex_tk_cnt' = 0
  /\ pc' = "read"
  /\ UNCHANGED <<opt, TokenArray, lex_token, last_tk_cnt, have_nl, nl_buff>>

\* OpenText(First): a text is new as long as there is no separator.
OpenFile ==
  /\ pc = "args" /\ NumberOfTexts < opt.texts
  /\ Text' = Append(Text, [NewText EXCEPT !.nl_start = Len(nl_buff)])
  /\ NumberOfNewTexts' = IF NumberOfNewTexts = NumberOfTexts
                         THEN NumberOfTexts + 1 ELSE NumberOfNewTexts
  /\ lex_tk_cnt' = 0 /\ last_tk_cnt' = 0
  /\ pc' = "read"
  /\ UNCHANGED <<opt, TokenArray, lex_token, have_nl, nl_buff>>

EndArgs ==
  /\ pc = "args"
  /\ pc' = "table"
  /\ UNCHANGED textVars

-----------------------------------------------------------------------------
(* Reading a file *)

Reading == Text[NumberOfTexts]
EolsRead == Len(Reading.file) - lex_tk_cnt
TkFull == TextLength % TkIncr = 0
NlFull == nl_buff # <<>> /\ Len(nl_buff) % NlIncr = 0

\* the difference is cut to the width of the field
StoreNewline_Cut(room) ==
  LET diff == (lex_tk_cnt - last_tk_cnt) % (MaxDiff + 1)
      kept == have_nl /\ (NlFull => room)
  IN /\ room \/ (have_nl /\ NlFull)
     /\ have_nl' = kept
     /\ nl_buff' = IF kept THEN Append(nl_buff, diff) ELSE <<>>

\* store_newline: realloc is called for a full buffer and may find no room
StoreNewline(room) ==
  LET diff == lex_tk_cnt - last_tk_cnt
      kept == have_nl /\ (NlFull => room) /\ diff <= MaxDiff
  IN /\ room \/ (have_nl /\ NlFull)
     /\ have_nl' = kept
     /\ nl_buff' = IF kept THEN Append(nl_buff, diff) ELSE <<>>

\* NextTextTokenObtained(First) yields a token, and StoreToken keeps it.
ReadToken(tk) ==
  /\ pc = "read" /\ Len(TokenArray) < Len(opt.tokens)
  /\ tk \in opt.tokens[TextLength]
  /\ lex_token' = tk
  /\ lex_tk_cnt' = lex_tk_cnt + 1
  /\ TokenArray' = Append(TokenArray, tk)
  /\ Text' = [Text EXCEPT ![NumberOfTexts].file = Append(@, tk)]
  /\ UNCHANGED <<opt, pc, NumberOfNewTexts, last_tk_cnt, have_nl, nl_buff>>

\* NextTextTokenObtained(First) yields an EOL.
ReadEol(room) ==
  /\ pc = "read" /\ EolsRead < opt.eols
  /\ lex_token' = EOL
  /\ StoreNewline(room)
  /\ last_tk_cnt' = lex_tk_cnt
  /\ Text' = [Text EXCEPT ![NumberOfTexts].file = Append(@, EOL)]
  /\ UNCHANGED <<opt, pc, TokenArray, NumberOfNewTexts, lex_tk_cnt>>

\* At the end of the file yylex leaves lex_token alone, so a last EOL, even one
\* of the file before an empty one, is stored again; then CloseText(First)
\* stores a line end for the tokens after the last EOL.
EndFile(room) ==
  /\ pc = "read"
  /\ IF lex_token = EOL \/ last_tk_cnt # lex_tk_cnt
     THEN StoreNewline(room)
     ELSE room /\ UNCHANGED <<have_nl, nl_buff>>
  /\ last_tk_cnt' = IF lex_token = EOL THEN lex_tk_cnt ELSE last_tk_cnt
  /\ Text' = [Text EXCEPT ![NumberOfTexts].limit = TextLength,
                          ![NumberOfTexts].nl_limit = Len(nl_buff')]
  /\ pc' = "args"
  /\ UNCHANGED <<opt, TokenArray, NumberOfNewTexts, lex_token, lex_tk_cnt>>

\* StoreToken cannot extend TokenArray: fatal.
TokensOutOfMemory ==
  /\ pc = "read" /\ TkFull /\ Len(TokenArray) < Len(opt.tokens)
  /\ pc' = "fatal"
  /\ UNCHANGED textVars

Pass1 ==
  \/ InitOutOfMemory \/ Separator \/ OpenFile \/ EndArgs \/ TokensOutOfMemory
  \/ \E tk \in Tokens : ReadToken(tk)
  \/ \E room \in BOOLEAN : ReadEol(room) \/ EndFile(room)
=============================================================================
