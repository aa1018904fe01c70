----------------------------- MODULE VimMotions -----------------------------
(***************************************************************************)
(* Where the motions, line operators and text objects of vim mode land      *)
(* (hxy-editor/src/vim.rs).  Offsets count from 0; the caret may stand on   *)
(* the end of the file, offset Len(buf), and after a reload beyond it.      *)
(* Bytes are told apart by what the motions ask of them.                    *)
(***************************************************************************)
EXTENDS Bytes, FiniteSetsExt

CONSTANTS
    WordBytes,   \* letters, digits and the underscore
    Spaces,      \* ASCII whitespace
    NewLine,     \* 0x0A
    Brackets,    \* pairs <<open, close>>
    Quotes,
    Columns      \* bytes in a row of the hex pane

ASSUME VimConstants ==
    /\ NewLine \in Spaces
    /\ WordBytes \cap Spaces = {}
    /\ \A pair \in Brackets : pair[1] # pair[2]
    /\ Columns \in Nat \ {0}

(* source_len.saturating_sub(1) *)
LastOf(buf) == Greater(Len(buf), 1) - 1

Holds(buf, o, b) == o < Len(buf) /\ buf[o + 1] = b

classify(b, big) ==
    IF b \in Spaces THEN "Whitespace" ELSE IF big \/ b \in WordBytes THEN "Word" ELSE "Punct"
ClassAt(buf, o, big) == IF o < Len(buf) THEN classify(buf[o + 1], big) ELSE "None"
IsSpace(buf, o) == ClassAt(buf, o, FALSE) = "Whitespace"

(* The first offset from i on that is in `stops`, or the end of the file. *)
FirstFrom(i, len, stops) ==
    IF i >= len THEN i ELSE Min({j \in i .. len : j = len \/ j \in stops})

-----------------------------------------------------------------------------
(* Words.  In the hex pane every byte is one. *)

(* Bug: whitespace after the word is taken for the next word. *)
word_forward_no_skip(buf, pane, from, big) ==
    IF pane = "Hex" THEN Lesser(from + 1, LastOf(buf))
    ELSE Lesser(FirstFrom(from + 1, Len(buf),
                          {j \in 0 .. Len(buf) : ClassAt(buf, j, big) # ClassAt(buf, from, big)}),
                LastOf(buf))

word_forward(buf, pane, from, big) ==
    LET other == {j \in 0 .. Len(buf) : ClassAt(buf, j, big) # ClassAt(buf, from, big)}
        solid == {j \in 0 .. Len(buf) : ~IsSpace(buf, j)}
    IN  IF pane = "Hex" THEN Lesser(from + 1, LastOf(buf))
        ELSE Lesser(FirstFrom(FirstFrom(from + 1, Len(buf), other), Len(buf), solid),
                    LastOf(buf))

word_back(buf, pane, from, big) ==
    IF from = 0 THEN 0
    ELSE IF pane = "Hex" THEN from - 1
    ELSE LET i == Max({j \in 0 .. (from - 1) : j = 0 \/ ~IsSpace(buf, j)})
         IN  Max({j \in 0 .. i : j = 0 \/ ClassAt(buf, j - 1, big) # ClassAt(buf, i, big)})

(* The last byte of the run of one class that i is in. *)
RunEnd(buf, i, big) ==
    Min({j \in i .. LastOf(buf) : j = LastOf(buf) \/ ClassAt(buf, j + 1, big) # ClassAt(buf, i, big)})

word_end_forward(buf, pane, from, big) ==
    IF pane = "Hex" THEN Lesser(from + 1, LastOf(buf))
    ELSE LET i == FirstFrom(from + 1, Len(buf), {j \in 0 .. Len(buf) : ~IsSpace(buf, j)})
         IN  IF i >= Len(buf) THEN LastOf(buf) ELSE RunEnd(buf, i, big)

-----------------------------------------------------------------------------
(* Lines: rows of the hex pane, text between newlines in the ASCII pane. *)

find_line_start(buf, cur) ==
    Max({i \in 0 .. cur : i = 0 \/ Holds(buf, i - 1, NewLine)})

(* The byte before the next newline; a newline under the caret is not it. *)
find_line_end(buf, cur) ==
    LET before == {i \in cur .. Len(buf) : Holds(buf, i + 1, NewLine)}
    IN  IF before = {} THEN LastOf(buf) ELSE Min(before)

RowStart(cur) == (cur \div Columns) * Columns

line_bounds(buf, pane, cur) ==
    IF buf = << >> THEN <<0, 0>>
    ELSE IF pane = "Hex"
    THEN <<RowStart(cur), Lesser(RowStart(cur) + Columns - 1, LastOf(buf))>>
    ELSE <<find_line_start(buf, cur), find_line_end(buf, cur)>>

(* `count` lines from the caret's on; inclusive bounds. *)
multi_line_bounds(buf, pane, cur, count) ==
    LET first == line_bounds(buf, pane, cur)
        end[n \in 1 .. count] ==
            IF n = 1 THEN first[2]
            ELSE IF end[n - 1] + 1 >= Len(buf) THEN end[n - 1]
            ELSE line_bounds(buf, pane, end[n - 1] + 1)[2]
    IN  <<first[1], end[count]>>

LineStart(buf, pane, cur) ==
    Lesser(IF pane = "Hex" THEN RowStart(cur) ELSE find_line_start(buf, cur), LastOf(buf))
LineEnd(buf, pane, cur) ==
    IF pane = "Hex" THEN Lesser(RowStart(cur) + Columns - 1, LastOf(buf))
    ELSE find_line_end(buf, cur)

-----------------------------------------------------------------------------
(* f, t, F, T. *)

Nth(set, n) == {j \in set : Cardinality({k \in set : k <= j}) = n}
NthBack(set, n) == {j \in set : Cardinality({k \in set : k >= j}) = n}

FindForward(buf, pane, cur, target, count) ==
    Nth({j \in (cur + 1) .. line_bounds(buf, pane, cur)[2] : Holds(buf, j, target)}, count)

(* The scan goes down from cur - 1 and stops at the start of the line.  It  *)
(* has already passed it when the caret is on it: then the scan goes on to  *)
(* the start of the file, and below.                                       *)
FindBackward(buf, pane, cur, target, count) ==
    LET start == line_bounds(buf, pane, cur)[1]
        low   == IF cur = start THEN 0 ELSE start
    IN  NthBack({j \in low .. (cur - 1) : Holds(buf, j, target)}, count)

(* The loop counter of the backward scan is decremented below zero. *)
ScanUnderflows(buf, pane, cur, target, count) ==
    /\ cur > 0
    /\ cur = line_bounds(buf, pane, cur)[1]
    /\ FindBackward(buf, pane, cur, target, count) = {}

(* apply_find_char: the set of landings, at most one. *)
apply_find_char(buf, pane, cur, key, target, count) ==
    IF buf = << >> THEN {}
    ELSE LET end == line_bounds(buf, pane, cur)[2] IN
         CASE key = "f" -> FindForward(buf, pane, cur, target, count)
           [] key = "t" -> {j - 1 : j \in FindForward(buf, pane, cur, target, count)}
           [] key = "F" -> FindBackward(buf, pane, cur, target, count)
           [] key = "T" -> {Lesser(j + 1, end) : j \in FindBackward(buf, pane, cur, target, count)}

-----------------------------------------------------------------------------
(* Text objects: a set with the inclusive range, or none. *)

(* Around takes the delimiters in; inside an empty pair there is nothing. *)
Bounded(open, close, around) ==
    IF around THEN {<<open, close>>}
    ELSE IF close > open + 1 THEN {<<open + 1, close - 1>>} ELSE {}

(* Bug: the walk back takes the first open it meets. *)
OpenBefore_any(buf, cur, pair) ==
    LET opens == {i \in 0 .. cur : Holds(buf, i, pair[1])}
    IN  IF opens = {} THEN {} ELSE {Max(opens)}

(* The walk back to the enclosing open: a close on the way, the one under   *)
(* the caret apart, takes one open with it.                                *)
OpenBefore(buf, cur, pair) ==
    LET walk[i \in 0 .. cur] ==
            LET On(d) == IF i = 0 THEN {} ELSE walk[i - 1][d]
            IN  [depth \in Nat |->
                    CASE Holds(buf, i, pair[2]) /\ i # cur -> On(depth + 1)
                      [] Holds(buf, i, pair[1]) -> IF depth = 0 THEN {i} ELSE On(depth - 1)
                      [] OTHER -> On(depth)]
    IN  IF cur >= Len(buf) THEN {} ELSE walk[cur][0]

(* The walk on from the open, which makes the depth 1, to the close that    *)
(* balances it.                                                            *)
CloseAfter(buf, open, pair) ==
    LET walk[i \in (open + 1) .. Len(buf)] ==
            [depth \in Nat \ {0} |->
                IF i = Len(buf) THEN {}
                ELSE CASE Holds(buf, i, pair[1]) -> walk[i + 1][depth + 1]
                       [] Holds(buf, i, pair[2]) ->
                             IF depth = 1 THEN {i} ELSE walk[i + 1][depth - 1]
                       [] OTHER -> walk[i + 1][depth]]
    IN  walk[open + 1][1]

bracket_range(buf, cur, pair, around) ==
    UNION {UNION {Bounded(o, c, around) : c \in CloseAfter(buf, o, pair)} :
              o \in OpenBefore(buf, cur, pair)}

(* The nearest quote at or before the caret, and the next one after it, in  *)
(* the caret's line.                                                       *)
quote_range(buf, cur, q, around) ==
    LET opens  == {i \in find_line_start(buf, cur) .. cur : Holds(buf, i, q)}
        closes == {i \in (Max(opens) + 1) .. find_line_end(buf, cur) : Holds(buf, i, q)}
    IN  IF opens = {} THEN {}
        ELSE IF closes = {} THEN {} ELSE Bounded(Max(opens), Min(closes), around)

word_object_range(buf, pane, cur, big, around) ==
    IF pane = "Hex" THEN {<<cur, cur>>}
    ELSE IF cur >= Len(buf) THEN {}
    ELSE LET Same(j) == ClassAt(buf, j, big) = ClassAt(buf, cur, big)
             start == Max({i \in 0 .. cur : i = 0 \/ ~Same(i - 1)})
             run   == RunEnd(buf, cur, big)
             end   == IF around
                      THEN FirstFrom(run + 1, Len(buf),
                                     {j \in 0 .. Len(buf) : ~IsSpace(buf, j)}) - 1
                      ELSE run
         IN  {<<start, end>>}

-----------------------------------------------------------------------------
(* Properties, of every caret position in a content.                       *)

(* Where a word begins or ends: next to a byte of another class. *)
Starts(buf, big) ==
    {i \in 0 .. LastOf(buf) : /\ ~IsSpace(buf, i) /\ i < Len(buf)
                              /\ i > 0 => ClassAt(buf, i - 1, big) # ClassAt(buf, i, big)}
Ends(buf, big) ==
    {i \in 0 .. LastOf(buf) : /\ ~IsSpace(buf, i) /\ i < Len(buf)
                              /\ ClassAt(buf, i + 1, big) # ClassAt(buf, i, big)}

NearestAfter(set, from, default) ==
    LET s == {i \in set : i > from} IN IF s = {} THEN default ELSE Min(s)
NearestBefore(set, from, default) ==
    LET s == {i \in set : i < from} IN IF s = {} THEN default ELSE Max(s)

(* Which close belongs to which open: what is between them is balanced. *)
Many(buf, lo, hi, b) == Cardinality({j \in lo .. hi : Holds(buf, j, b)})
Matched(buf, pair) ==
    {m \in (0 .. LastOf(buf)) \X (0 .. LastOf(buf)) :
        LET o == m[1]
            c == m[2]
        IN  /\ o < c /\ Holds(buf, o, pair[1]) /\ Holds(buf, c, pair[2])
            /\ Many(buf, o + 1, c - 1, pair[1]) = Many(buf, o + 1, c - 1, pair[2])
            /\ \A k \in o .. (c - 1) :
                  Many(buf, o + 1, k, pair[1]) >= Many(buf, o + 1, k, pair[2])}

(* w, b and e go to the nearest beginning, the one before, and the nearest  *)
(* end of a word in that direction, over any run of whitespace, and to the  *)
(* edge of the file where there is none (vim.rs word_forward, word_back,    *)
(* word_end_forward).                                                      *)
WordsAreExact(buf) ==
    \A cur \in 0 .. Len(buf), big \in BOOLEAN :
       /\ word_forward(buf, "Ascii", cur, big) = NearestAfter(Starts(buf, big), cur, LastOf(buf))
       /\ word_back(buf, "Ascii", cur, big) = NearestBefore(Starts(buf, big), cur, 0)
       /\ word_end_forward(buf, "Ascii", cur, big) = NearestAfter(Ends(buf, big), cur, LastOf(buf))

(* A bracket object is the innermost balanced pair around the caret, with   *)
(* the caret on either bracket counting as inside, in contents that are     *)
(* balanced or not (vim.rs bracket_range).                                 *)
BracketsAreExact(buf) ==
    \A cur \in 0 .. Len(buf), pair \in Brackets, around \in BOOLEAN :
       LET pairs == {m \in Matched(buf, pair) : m[1] <= cur /\ cur <= m[2]}
           inmost == {m \in pairs : \A n \in pairs : n[1] <= m[1]}
       IN  bracket_range(buf, cur, pair, around)
              = UNION {Bounded(m[1], m[2], around) : m \in inmost}

=============================================================================
