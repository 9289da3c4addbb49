-------------------------------- MODULE Sim --------------------------------
(***************************************************************************)
(* The similarity tester SIM (utils/sim_pasc), from its arguments to its   *)
(* report: Pass 1 (SimText), the comparison (SimCompare) and, in this      *)
(* module, what follows: the runs go to the AISO store or to the list of   *)
(* percentages, Pass 2 finds the lines of their ends, Pass 3 prints them.  *)
(*                                                                         *)
(* Pass 2 takes the line ends from the newline buffer or, when that has    *)
(* been given up, from the file, which may be gone by then.  It stops      *)
(* reading a file once it has found the lines it needs, and nothing empties *)
(* the buffer of the scanner before the next file is opened.               *)
(***************************************************************************)
EXTENDS SimCompare, SimRuns

VARIABLES
  aiso,         \* the runs in the AISO store, in the order of its list
  matches,      \* match_start
  tx_pos,       \* the positions in each text, the last one set in front
  text,         \* the text Pass 2 is at
  pos,          \* the positions in it that still have to be found
  input,        \* the tokens and line ends the scanner yields when Pass 2 rereads
  left,         \* how many of them, for each text, were left from an earlier file
  nl_next,      \* the entries of the newline buffer, or of input, that have been read
  lex_nl_cnt, old_nl_cnt,
  tk_cnt,       \* lex_tk_cnt in Pass 2
  nl_cnt,       \* ps_nl_cnt of the positions; 0 for one that is not set
  gone,         \* texts whose file has disappeared since Pass 1
  iter,         \* the runs that are still to be shown
  report        \* what has been printed

runVars == <<aiso, matches, tx_pos>>
findVars == <<text, pos, input, left, nl_next, lex_nl_cnt, old_nl_cnt, tk_cnt, nl_cnt>>
showVars == <<iter, report, gone>>
searchVars == <<textVars, hashVars, compareVars>>

-----------------------------------------------------------------------------
(* Runs *)

\* AISO_BEFORE of runs.c
Before(v, w) == v.size > w.size

\* What the store promises, which Aiso implements
AISO == INSTANCE SortedStore WITH list <- aiso, Values <- [run : Nat, size : Nat],
                                  Before <- Before

-----------------------------------------------------------------------------
(* Positions *)

\* A position is the end (0 first, 1 last) of a chunk (0 left, 1 right) of a run.
Positions == (1..Len(runs)) \X {0, 1} \X {0, 1}

ps_text(p) == IF p[2] = 0 THEN runs[p[1]].text0 ELSE runs[p[1]].text1
ps_tk_cnt(p) == (IF p[2] = 0 THEN runs[p[1]].pos0 ELSE runs[p[1]].pos1)
                  + (IF p[3] = 1 THEN runs[p[1]].size - 1 ELSE 0)

\* set_chunk sets the positions of a chunk of run k; set_pos puts a position in
\* front of those of its text.
set_chunk(lists, t, k, c) ==
  [lists EXCEPT ![t] = <<<<k, c, 1>>, <<k, c, 0>>>> \o @]

sort_pos_list(s) ==
  SortList(s, {e \in ToSet(s) \X ToSet(s) : ps_tk_cnt(e[1]) < ps_tk_cnt(e[2])})

\* A file that has disappeared reads as an empty one (NULLFILE).
FileNow(t) == IF t \in gone THEN <<>> ELSE Text[t].file

\* the line ends that are ahead in the input
EolsAhead == {k \in (nl_next + 1)..Len(input) : input[k] = EOL}

\* What is still in the buffer of the scanner when a text is closed: the rest of
\* its file, as far as that has been read into the buffer.
Buffered == {SubSeq(input, nl_next + 1, k) : k \in nl_next..Len(input)}

\* What the scanner yields of that and of the next file: the last token of the
\* one may go on in the first token of the other.
Scanned(rest, file) ==
  {rest \o file} \cup
    IF rest # <<>> /\ file # <<>> /\ EOL \notin {rest[Len(rest)], file[1]}
    THEN {Front(rest) \o file} ELSE {}

-----------------------------------------------------------------------------
(* The end of the comparison *)

SimInit == /\ Init
           /\ AISO!Init /\ matches = <<>> /\ tx_pos = [t \in 1..opt.texts |-> <<>>]
           /\ text = 0 /\ pos = <<>> /\ nl_next = 0
           /\ input = <<>> /\ left = [t \in 1..opt.texts |-> 0]
           /\ lex_nl_cnt = 0 /\ old_nl_cnt = 0 /\ tk_cnt = 0 /\ nl_cnt = <<>> /\ gone = {}
           /\ iter = <<>> /\ report = <<>>

\* add_run sets the positions of the run and hands it to the percentages or to
\* the AISO store.
EnterRun ==
  /\ AddRun
  /\ tx_pos' = set_chunk(set_chunk(tx_pos, Run.text0, Len(runs) + 1, 0),
                         Run.text1, Len(runs) + 1, 1)
  /\ IF option_set("p")
     THEN matches' = AddToPercentages(matches, Run) /\ aiso' = aiso
     ELSE AISO!Insert([run |-> Len(runs) + 1, size |-> size_best]) /\ matches' = matches
  /\ UNCHANGED <<findVars, showVars>>

StartPass2 ==
  /\ CompareDone
  /\ text' = 1
  /\ nl_cnt' = [p \in Positions |-> 0]
  /\ UNCHANGED <<runVars, pos, input, left, nl_next, lex_nl_cnt, old_nl_cnt, tk_cnt,
                 showVars>>

-----------------------------------------------------------------------------
(* Pass 2 *)

\* no need to scan the file
SkipText ==
  /\ pc = "pass2" /\ text <= NumberOfTexts /\ tx_pos[text] = <<>>
  /\ text' = text + 1
  /\ UNCHANGED <<pc, searchVars, runVars, pos, input, left, nl_next, lex_nl_cnt,
                 old_nl_cnt, tk_cnt, nl_cnt, showVars>>

\* OpenText(Second).  Without the newline buffer OpenStream points the scanner at
\* the file, but leaves in its buffer what is there of an earlier one; the counts
\* start again all the same.
OpenText2 ==
  /\ pc = "pass2" /\ text <= NumberOfTexts /\ tx_pos[text] # <<>>
  /\ tx_pos' = [tx_pos EXCEPT ![text] = sort_pos_list(@)]
  /\ pos' = tx_pos'[text]
  /\ IF have_nl
     THEN nl_next' = Text[text].nl_start /\ UNCHANGED <<input, left>>
     ELSE \E rest \in Buffered :
            /\ input' \in Scanned(rest, FileNow(text))
            /\ left' = [left EXCEPT ![text] = Len(rest)]
            /\ nl_next' = 0
  /\ lex_nl_cnt' = 1 /\ old_nl_cnt' = 1 /\ tk_cnt' = 0
  /\ pc' = "lines"
  /\ UNCHANGED <<searchVars, aiso, matches, text, nl_cnt, showVars>>

\* newline info from the newline buffer or from the scanner
NextEol ==
  IF have_nl
  THEN /\ nl_next # Text[text].nl_limit
       /\ nl_next' = nl_next + 1
       /\ tk_cnt' = tk_cnt + nl_buff[nl_next + 1]
  ELSE /\ EolsAhead # {}
       /\ nl_next' = Min(EolsAhead)
       /\ tk_cnt' = tk_cnt + nl_next' - nl_next - 1

\* pos does not refer to this line, and there is a next one.
NextLine ==
  /\ pc = "lines" /\ pos # <<>> /\ ps_tk_cnt(pos[1]) >= tk_cnt
  /\ NextEol
  /\ old_nl_cnt' = lex_nl_cnt
  /\ lex_nl_cnt' = lex_nl_cnt + 1
  /\ UNCHANGED <<pc, searchVars, runVars, text, pos, input, left, nl_cnt, showVars>>

\* A first position gets the line before the line end that follows it, a last
\* position the one after.
Fill(old, new) ==
  /\ nl_cnt' = [nl_cnt EXCEPT ![pos[1]] = IF pos[1][3] = 0 THEN old ELSE new]
  /\ pos' = Tail(pos)

\* "not enough lines": the position is filled in as it is.  Reading on to the end
\* of the file has counted the tokens after its last line end, and leaves nothing.
NoMoreLines ==
  /\ pc = "lines" /\ pos # <<>> /\ ps_tk_cnt(pos[1]) >= tk_cnt
  /\ IF have_nl
     THEN nl_next = Text[text].nl_limit /\ UNCHANGED <<nl_next, tk_cnt>>
     ELSE /\ EolsAhead = {}
          /\ nl_next' = Len(input)
          /\ tk_cnt' = tk_cnt + nl_next' - nl_next
  /\ old_nl_cnt' = lex_nl_cnt
  /\ Fill(lex_nl_cnt, lex_nl_cnt)
  /\ UNCHANGED <<pc, searchVars, runVars, text, input, left, lex_nl_cnt, showVars>>

OnThisLine ==
  /\ pc = "lines" /\ pos # <<>> /\ ps_tk_cnt(pos[1]) < tk_cnt
  /\ Fill(old_nl_cnt, lex_nl_cnt)
  /\ UNCHANGED <<pc, searchVars, runVars, text, input, left, nl_next, lex_nl_cnt,
                 old_nl_cnt, tk_cnt, showVars>>

CloseText2 ==
  /\ pc = "lines" /\ pos = <<>>
  /\ text' = text + 1
  /\ pc' = "pass2"
  /\ UNCHANGED <<searchVars, runVars, pos, input, left, nl_next, lex_nl_cnt, old_nl_cnt,
                 tk_cnt, nl_cnt, showVars>>

Pass2 == SkipText \/ OpenText2 \/ NextLine \/ NoMoreLines \/ OnThisLine \/ CloseText2

-----------------------------------------------------------------------------
(* Pass 3 *)

StartPass3 ==
  /\ pc = "pass2" /\ text > NumberOfTexts
  /\ iter' = aiso
  /\ pc' = "pass3"
  /\ UNCHANGED <<searchVars, runVars, findVars, report, gone>>

\* show_runs finds no memory for the two lines, or the reversal of the matches
\* none for an entry: fatal.
ReportOutOfMemory ==
  /\ pc = "pass2" /\ text > NumberOfTexts
  /\ ~option_set("p") \/ matches # <<>>
  /\ pc' = "fatal"
  /\ UNCHANGED <<searchVars, runVars, findVars, showVars>>

\* The line of the k-th item of a file, and the items on some of its lines:
\* open_chunk skips the lines before the first one.
LineOf(file, k) == 1 + Cardinality({j \in 1..(k - 1) : file[j] = EOL})
ItemsOn(file, lines) == {k \in 1..Len(file) : LineOf(file, k) \in lines}

\* the heading of a chunk (prhead) and what is on the lines under it
Shown(k, c) ==
  LET first == nl_cnt[<<k, c, 0>>]
      last  == nl_cnt[<<k, c, 1>>] - 1
      t == ps_text(<<k, c, 0>>)
  IN  [text |-> t, first |-> first, last |-> last,
       items |-> ItemsOn(FileNow(t), first..last)]

\* GetAisoItem and show_run
ShowRun ==
  /\ pc = "pass3" /\ ~option_set("p") /\ iter # <<>>
  /\ report' = Append(report, [run |-> iter[1].run, size |-> iter[1].size,
                               left |-> Shown(iter[1].run, 0),
                               right |-> Shown(iter[1].run, 1)])
  /\ iter' = Tail(iter)
  /\ UNCHANGED <<pc, searchVars, runVars, findVars, gone>>

size0(match) == Text[match.text0].limit - Text[match.text0].start

\* match_percentage(p1) > match_percentage(p2), without the rounding
LargerPart(p1, p2) == p1.size * size0(p2) > p2.size * size0(p1)

\* text0 consists for size / size0 of text1 material
show_percentages ==
  LET entries == AddReverseEntries(matches)
      sorted == SortList(entries, {e \in ToSet(entries) \X ToSet(entries) :
                                     LargerPart(e[1], e[2])})
  IN  [k \in 1..Len(sorted) |->
         [text0 |-> sorted[k].text0, text1 |-> sorted[k].text1,
          size |-> sorted[k].size, size0 |-> size0(sorted[k])]]

Finish ==
  /\ pc = "pass3" /\ (option_set("p") \/ iter = <<>>)
  /\ report' = IF option_set("p") THEN show_percentages ELSE report
  /\ pc' = "done"
  /\ UNCHANGED <<searchVars, runVars, findVars, iter, gone>>

Pass3 == StartPass3 \/ ReportOutOfMemory \/ ShowRun \/ Finish

\* A file that Pass 1 has read is removed before Pass 2 or Pass 3 opens it.
Disappear(t) ==
  /\ pc \in {"pass2", "pass3"} /\ tx_pos[t] # <<>>
  /\ gone = {}
  /\ gone' = {t}
  /\ UNCHANGED <<pc, searchVars, runVars, findVars, iter, report>>

SimNext ==
  \/ /\ (Pass1 /\ UNCHANGED <<hashVars, compareVars>>) \/ Match
     /\ UNCHANGED <<runVars, findVars, showVars>>
  \/ EnterRun \/ StartPass2 \/ Pass2 \/ Pass3
  \/ \E t \in 1..NumberOfTexts : Disappear(t)

SimSpec == SimInit /\ [][SimNext]_<<vars, runVars, findVars, showVars>>

-----------------------------------------------------------------------------
(* Properties *)

\* The type invariant: in particular a difference in the newline buffer fits
\* into an unsigned char, and a reference is a position of TokenArray or 0.
TypeOK ==
  /\ opt \in Commands
  /\ pc \in {"args", "read", "table", "hash1", "hash2", "range", "lcs", "pass2",
            "lines", "pass3", "done", "fatal"}
  /\ TokenArray \in Seq(Tokens)
  /\ \A t \in 1..NumberOfTexts :
       /\ {Text[t].start, Text[t].limit} \subseteq 1..TextLength
       /\ {Text[t].nl_start, Text[t].nl_limit} \subseteq Nat
       /\ Text[t].file \in Seq(Tokens \cup {EOL})
  /\ NumberOfNewTexts \in 0..NumberOfTexts
  /\ lex_token \in Tokens \cup {EOL, NoToken}
  /\ {lex_tk_cnt, last_tk_cnt} \subseteq Nat
  /\ have_nl \in BOOLEAN /\ nl_buff \in Seq(0..MaxDiff)
  /\ \A i \in DOMAIN forward_references : forward_references[i] \in 0..(TextLength - 1)
  /\ \A h \in DOMAIN last_index : last_index[h] \in 0..(TextLength - 1)
  /\ {hash_table_size, n, m, i0, i1, size_best, i_best} \subseteq Nat
  /\ \A k \in 1..Len(runs) : DOMAIN runs[k] = {"text0", "pos0", "text1", "pos1", "size"}
  /\ aiso \in Seq([run : 1..Len(runs), size : Nat])
  /\ {text, nl_next, lex_nl_cnt, old_nl_cnt, tk_cnt} \subseteq Nat
  /\ \A p \in DOMAIN nl_cnt : nl_cnt[p] \in Nat
  /\ input \in Seq(Tokens \cup {EOL}) /\ left \in [1..opt.texts -> Nat]
  /\ gone \subseteq 1..NumberOfTexts

\* the last line of text t has tokens, and no line end
Unterminated(t) == Text[t].file # <<>> /\ Text[t].file[Len(Text[t].file)] # EOL

\* the item of a file that is its token number c, counted from 0
ItemAt(file, c) ==
  CHOOSE k \in 1..Len(file) :
    file[k] # EOL /\ Cardinality({j \in 1..(k - 1) : file[j] # EOL}) = c

\* The lines in the heading of a chunk are those of its first and its last token,
\* and what is shown under it contains the chunk.
ShowsChunk(k, c, shown) ==
  LET t == ps_text(<<k, c, 0>>)
      file == Text[t].file
      from == ps_tk_cnt(<<k, c, 0>>)
  IN  /\ shown.first = LineOf(file, ItemAt(file, from))
      /\ shown.last = LineOf(file, ItemAt(file, ps_tk_cnt(<<k, c, 1>>)))
      /\ t \notin gone => \A d \in 0..(runs[k].size - 1) :
           LET i == ItemAt(file, from + d)
           IN  i \in shown.items /\ file[i] = TokenArray[Text[t].start + from + d]

\* the chunk ends on a last line without a line end
EndsOpen(k, c) ==
  LET t == ps_text(<<k, c, 0>>)
      file == Text[t].file
  IN  /\ Unterminated(t)
      /\ LineOf(file, ItemAt(file, ps_tk_cnt(<<k, c, 1>>))) = LineOf(file, Len(file))

\* A reported chunk is shown with its lines.  Without the newline buffer three
\* things are left out: a file that has disappeared, a text before which the
\* scanner had something left from an earlier file, and a chunk that ends on a
\* last line without a line end.
ChunkExact(k, c, shown) ==
  LET t == ps_text(<<k, c, 0>>)
      readable == t \notin gone /\ left[t] = 0 /\ ~EndsOpen(k, c)
  IN  have_nl \/ readable => ShowsChunk(k, c, shown)

LinesExact ==
  \A k \in 1..Len(report) :
    /\ ChunkExact(report[k].run, 0, report[k].left)
    /\ ChunkExact(report[k].run, 1, report[k].right)

\* Whether the lines come from the newline buffer or from the file, which is still
\* there, makes no difference: "this is done transparently" (TechnReport:117), also
\* for a text that is reread after another one.  Chunks that end on a last line
\* without a line end are left out here as well.
RereadExact ==
  ~option_set("p") => \A k \in 1..Len(report) : \A c \in {0, 1} :
    LET run == report[k].run
        shown == IF c = 0 THEN report[k].left ELSE report[k].right
    IN  ps_text(<<run, c, 0>>) \notin gone /\ ~EndsOpen(run, c) => ShowsChunk(run, c, shown)

\* The longest runs are shown first, equally long ones as they were found, and in
\* the end every run has been shown once.
AllInOrder ==
  /\ \A j, k \in 1..Len(report) : j < k =>
       LET v == report[j]  w == report[k]
       IN  v.size > w.size \/ (v.size = w.size /\ v.run < w.run)
  /\ pc = "done" => {[run |-> report[k].run, size |-> report[k].size] : k \in 1..Len(report)}
                      = {[run |-> k, size |-> runs[k].size] : k \in 1..Len(runs)}

\* the number of tokens in runs of texts t and u
Total(t, u) ==
  LET sum[k \in 0..Len(runs)] ==
        IF k = 0 THEN 0
        ELSE sum[k - 1] + IF {runs[k].text0, runs[k].text1} = {t, u} THEN runs[k].size ELSE 0
  IN  sum[Len(runs)]

\* With option p every pair of different texts with runs is printed once in each
\* direction, with the tokens of its runs, the larger parts first.  A new text
\* has no larger part in common with a later one than it has tokens; the other
\* direction may exceed 100 %.
PercentagesExact ==
  /\ \A k \in 1..Len(report) :
       LET e == report[k] IN
       /\ e.text0 # e.text1 /\ e.size = Total(e.text0, e.text1)
       /\ e.text0 < e.text1 => e.size <= e.size0
       /\ \A l \in 1..(k - 1) :
            /\ <<report[l].text0, report[l].text1>> # <<e.text0, e.text1>>
            /\ report[l].size * e.size0 >= e.size * report[l].size0
  /\ Len(report) = Cardinality({e \in (1..NumberOfTexts) \X (1..NumberOfTexts) :
                                 e[1] # e[2] /\ Total(e[1], e[2]) > 0})

\* What is printed is right, in either format.
ReportExact == /\ ~option_set("p") => LinesExact /\ AllInOrder
               /\ option_set("p") /\ pc = "done" => PercentagesExact
=============================================================================
