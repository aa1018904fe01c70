----------------------------- MODULE SearchBar -----------------------------
(***************************************************************************)
(* The find and replace bar of a file tab (gpui panels/search_bar.rs over   *)
(* hxy-panels SearchState).  A query that is empty or does not parse is the *)
(* pattern << >>.  Dialogs are modal: the user answers before anything      *)
(* else, but a reload of the file may come first.                          *)
(***************************************************************************)
EXTENDS UndoBuffer, ByteSearch

CONSTANT Patterns   \* what the user finds and what they put in its place

ASSUME PatternsAssumption == \A p \in Patterns : p \in Seq(Nat) /\ Len(p) > 0

VARIABLES
    bar,         \* pattern, replace_pattern, all_results, matches, active_idx (0: None),
                 \* splice_prompt_acked, scope
    selection,   \* << >>, or <<anchor, cursor>>
    dialog,      \* << >>, or the dialog that is up: its kind, offsets, find_len, and
                 \* the bytes the offsets were taken from
    found_in,    \* the bytes the match list was computed from
    agreed       \* the pair the user agreed to resize the file for since either last changed

barVars == <<bar, selection, dialog, found_in, agreed>>

File == [lo |-> 0, hi |-> -1]
Bounds(scope) == IF scope = File THEN [lo |-> 0, hi |-> Len(present)]
                 ELSE clip_bounds(scope, Len(present))

BarInit ==
    /\ bar = [pattern |-> << >>, replace_pattern |-> << >>, all_results |-> FALSE,
              matches |-> << >>, active_idx |-> 0, acked |-> FALSE, scope |-> File]
    /\ selection = << >>
    /\ dialog = << >>
    /\ found_in = << >>
    /\ agreed = << >>

current_caret == IF selection = << >> THEN 0 ELSE selection[2]

(* Selection::range; the end is excluded. *)
Covered(sel) == [lo |-> Lesser(sel[1], sel[2]), hi |-> Greater(sel[1], sel[2]) + 1]

(* nearest_match_idx, counting from 1. *)
nearest_match_idx(matches, caret) ==
    IF matches = << >> THEN 0
    ELSE LET ahead == Lowest({k \in 1 .. Len(matches) : matches[k] >= caret})
         IN  IF ahead = {} THEN Len(matches) ELSE CHOOSE k \in ahead : TRUE

(* SearchState::refresh_pattern, the pattern apart. *)
refresh_pattern(b) == [b EXCEPT !.matches = << >>, !.active_idx = 0, !.acked = FALSE]

recompute_all_results(b, bytes, caret) ==
    LET scope == IF b.scope = File THEN [lo |-> 0, hi |-> Len(bytes)] ELSE b.scope
        list  == IF b.pattern = << >> THEN << >> ELSE find_all(bytes, b.pattern, scope)
    IN  [b EXCEPT !.matches = list, !.active_idx = nearest_match_idx(list, caret)]

(* Install a bar, with its list recomputed if all results are shown. *)
Shown(b, bytes, caret) ==
    /\ bar' = IF b.all_results THEN recompute_all_results(b, bytes, caret) ELSE b
    /\ found_in' = IF b.all_results THEN bytes ELSE << >>

-----------------------------------------------------------------------------
(* open: the scope is the selection, unless it is a caret. *)
OpenBar ==
    /\ bar' = refresh_pattern([bar EXCEPT !.scope =
                 IF selection # << >> /\ selection[1] # selection[2] THEN Covered(selection)
                 ELSE File])
    /\ found_in' = << >> /\ agreed' = << >>
    /\ UNCHANGED <<selection, dialog, bufferVars>>

(* Bug: the list of the old scope stays. *)
ClearScopeOnly ==
    /\ bar' = [bar EXCEPT !.scope = File]
    /\ UNCHANGED <<selection, found_in, agreed, dialog, bufferVars>>

clear_scope ==
    /\ Shown([bar EXCEPT !.scope = File, !.matches = << >>, !.active_idx = 0],
             present, current_caret)
    /\ UNCHANGED <<selection, agreed, dialog, bufferVars>>

(* on_query_event, and set_kind, set_width, set_signed, set_endian, which   *)
(* read both fields anew.                                                  *)
Requery ==
    /\ \E p, r \in Patterns \cup {<< >>} :
          Shown(refresh_pattern([bar EXCEPT !.pattern = p, !.replace_pattern = r]),
                present, current_caret)
    /\ agreed' = << >>
    /\ UNCHANGED <<selection, dialog, bufferVars>>

(* Bug: the agreement outlives the replacement it was given for. *)
on_replace_event_keeps_ack ==
    /\ \E r \in Patterns \cup {<< >>} : bar' = [bar EXCEPT !.replace_pattern = r]
    /\ agreed' = << >>
    /\ UNCHANGED <<selection, found_in, dialog, bufferVars>>

on_replace_event ==
    /\ \E r \in Patterns \cup {<< >>} :
          bar' = [bar EXCEPT !.replace_pattern = r, !.acked = FALSE]
    /\ agreed' = << >>
    /\ UNCHANGED <<selection, found_in, dialog, bufferVars>>

(* apply_match_jump *)
Jumped(off) == <<off, off + Len(bar.pattern) - 1>>
ActiveAt(b, off) ==
    LET at == {k \in 1 .. Len(b.matches) : b.matches[k] = off}
    IN  IF at = {} THEN b.active_idx ELSE CHOOSE k \in at : TRUE

set_all_results ==
    LET on == [recompute_all_results(bar, present, current_caret) EXCEPT !.all_results = TRUE]
    IN  /\ IF bar.all_results
           THEN /\ bar' = [bar EXCEPT !.all_results = FALSE, !.matches = << >>, !.active_idx = 0]
                /\ found_in' = << >>
                /\ UNCHANGED selection
           ELSE /\ bar' = on
                /\ found_in' = present
                /\ selection' = IF on.active_idx > 0 THEN Jumped(on.matches[on.active_idx])
                                ELSE selection
        /\ UNCHANGED <<agreed, dialog, bufferVars>>

JumpTo(hits) ==
    /\ bar.pattern # << >>
    /\ \E hit \in hits :
          /\ selection' = Jumped(hit.offset)
          /\ bar' = [bar EXCEPT !.active_idx = ActiveAt(bar, hit.offset)]
    /\ UNCHANGED <<found_in, agreed, dialog, bufferVars>>

next_match ==
    JumpTo(find_next(present, bar.pattern, current_caret + 1, TRUE, Bounds(bar.scope)))
prev_match ==
    JumpTo(find_prev(present, bar.pattern, current_caret, TRUE, Bounds(bar.scope)))

-----------------------------------------------------------------------------
(* Replacing. *)

Resizes == Len(bar.pattern) # Len(bar.replace_pattern)
BothSet == bar.pattern # << >> /\ bar.replace_pattern # << >>
JoinChoices == {FALSE, past # << >>}

Dialog(kind, offsets) ==
    [kind |-> kind, offsets |-> offsets, find_len |-> Len(bar.pattern), bytes |-> present]

(* After a replacement went in: refresh_pattern, the agreement stays. *)
Replaced(sel) ==
    /\ selection' = sel
    /\ Shown([refresh_pattern(bar) EXCEPT !.acked = TRUE], present',
             IF sel = << >> THEN 0 ELSE sel[2])

(* A write the editor refused: the range ends past the bytes, or two        *)
(* matches overlap.  (A tab in Readonly mode refuses every write; this one  *)
(* is Mutable.)                                                            *)
Refused(acked) ==
    /\ bar' = [bar EXCEPT !.acked = acked]
    /\ UNCHANGED <<selection, found_in, bufferVars>>

(* `acked` is splice_prompt_acked as the caller leaves it. *)
perform_replace_current(offset, acked) ==
    IF offset + Len(bar.pattern) > Len(present) THEN Refused(acked)
    ELSE /\ \E joins \in JoinChoices :
               Edit(offset, Len(bar.pattern), bar.replace_pattern, joins)
         /\ Replaced(<<offset + Len(bar.replace_pattern), offset + Len(bar.replace_pattern)>>)

(* Bug: each match is taken to be as long as its replacement. *)
perform_replace_all_same_length(offsets, find_len, acked) ==
    LET ops == [k \in 1 .. Len(offsets) |-> [offset |-> offsets[k], insert |-> bar.replace_pattern,
                                             remove |-> Len(bar.replace_pattern)]]
        fits == /\ \A k \in 1 .. Len(ops) : ops[k].offset + ops[k].remove <= Len(present)
                /\ \A k \in 2 .. Len(ops) : ops[k].offset >= ops[k - 1].offset + ops[k - 1].remove
    IN  IF fits THEN /\ \E joins \in JoinChoices : EditBatch(ops, joins)
                     /\ Replaced(selection)
        ELSE Refused(acked)

(* One splice_many, which refuses a batch that overlaps itself. *)
perform_replace_all(offsets, find_len, acked) ==
    LET ops == [k \in 1 .. Len(offsets) |-> [offset |-> offsets[k], remove |-> find_len,
                                             insert |-> bar.replace_pattern]]
        fits == /\ \A k \in 1 .. Len(ops) : ops[k].offset + ops[k].remove <= Len(present)
                /\ \A k \in 2 .. Len(ops) : ops[k].offset >= ops[k - 1].offset + ops[k - 1].remove
    IN  IF fits THEN /\ \E joins \in JoinChoices : EditBatch(ops, joins)
                     /\ Replaced(selection)
        ELSE Refused(acked)

(* Whatever is selected is replaced, if it is as long as the pattern. *)
queue_replace_current ==
    /\ BothSet /\ selection # << >>
    /\ Covered(selection).hi - Covered(selection).lo = Len(bar.pattern)
    /\ LET offset == Covered(selection).lo
       IN  IF Resizes /\ ~bar.acked
           THEN /\ dialog' = <<Dialog("resize current", <<offset>>)>>
                /\ UNCHANGED <<bar, selection, found_in, bufferVars>>
           ELSE perform_replace_current(offset, bar.acked) /\ UNCHANGED dialog
    /\ UNCHANGED agreed

continue_replace_all(d) ==
    IF d.find_len # Len(bar.replace_pattern) /\ ~bar.acked
    THEN /\ dialog' = <<[d EXCEPT !.kind = "resize all"]>>
         /\ UNCHANGED <<bar, selection, found_in, bufferVars>>
    ELSE perform_replace_all(d.offsets, d.find_len, bar.acked) /\ dialog' = << >>

queue_replace_all ==
    /\ BothSet
    /\ LET offsets == find_all(present, bar.pattern, Bounds(bar.scope))
       IN  /\ offsets # << >>
           /\ IF Len(offsets) > 1
              THEN /\ dialog' = <<Dialog("confirm all", offsets)>>
                   /\ UNCHANGED <<bar, selection, found_in, bufferVars>>
              ELSE continue_replace_all(Dialog("confirm all", offsets))
    /\ UNCHANGED agreed

(* The dialogs' on_ok. *)
AnswerOk ==
    /\ dialog # << >>
    /\ LET d == dialog[1]
       IN  \/ /\ d.kind = "resize current"
              /\ agreed' = <<bar.pattern, bar.replace_pattern>>
              /\ perform_replace_current(d.offsets[1], TRUE)
              /\ dialog' = << >>
           \/ /\ d.kind = "confirm all"
              /\ continue_replace_all(d)
              /\ UNCHANGED agreed
           \/ /\ d.kind = "resize all"
              /\ agreed' = <<bar.pattern, bar.replace_pattern>>
              /\ perform_replace_all(d.offsets, d.find_len, TRUE)
              /\ dialog' = << >>

AnswerCancel ==
    /\ dialog # << >>
    /\ dialog' = << >>
    /\ UNCHANGED <<bar, selection, found_in, agreed, bufferVars>>

(* The user selects bytes in the grid, left to right. *)
SelectBytes ==
    /\ \E a, c \in 0 .. Len(present) - 1 : a <= c /\ selection' = <<a, c>>
    /\ UNCHANGED <<bar, found_in, agreed, dialog, bufferVars>>

Replaces == queue_replace_current \/ queue_replace_all

BarNext ==
    \/ /\ dialog = << >>
       /\ \/ OpenBar \/ clear_scope \/ Requery \/ on_replace_event \/ set_all_results
          \/ next_match \/ prev_match \/ SelectBytes
          \/ Replaces
    \/ AnswerOk
    \/ AnswerCancel

-----------------------------------------------------------------------------
(* Properties. *)

(* For the pattern and the scope of the bar, wherever the caret is: next,   *)
(* previous and all find exactly the matches a search with no chunks finds, *)
(* those across a chunk boundary, at the edges of the scope and after the   *)
(* wrap included (search.rs find_next, find_prev, find_all).               *)
FindIsExact ==
    bar.pattern # << >> =>
       LET bounds == Bounds(bar.scope)
       IN  /\ \A from \in 0 .. Len(present) + 1 :
                 /\ NextIsNearest(present, bar.pattern, from, bounds)
                 /\ PrevIsNearest(present, bar.pattern, from, bounds)
           /\ AllAreFound(present, bar.pattern, bounds)

(* A match list is that of the pattern and scope in the bar, in some bytes  *)
(* the tab showed (it is not recomputed when they change), and the active   *)
(* index is one of its: set_all_results and the counter index the list with *)
(* it (search_bar.rs set_all_results, render_status).                      *)
ListIsOfQuery ==
    /\ bar.active_idx \in 0 .. Len(bar.matches)
    /\ bar.matches # << >> =>
          bar.matches = recompute_all_results(bar, found_in, 0).matches

(* Replace All, confirmed on the bytes it was asked for, replaces every     *)
(* match in the scope and nothing else, as one undo unit, or nothing at all *)
(* where matches overlap (search_bar.rs queue_replace_all to                *)
(* perform_replace_all, editor.rs splice_many).                            *)
ReplaceAllIsExact ==
    [][ /\ dialog # << >> /\ AnswerOk /\ dialog' = << >>
        /\ dialog[1].kind # "resize current" /\ dialog[1].bytes = present
        => LET all == Inside(present, bar.pattern, Bounds(bar.scope))
               overlap == \E o, p \in all : o < p /\ p < o + Len(bar.pattern)
               at == CHOOSE s \in [1 .. Len(dialog[1].offsets) -> all] :
                        \A k \in 2 .. Len(s) : s[k - 1] < s[k]
               ops == [k \in DOMAIN at |-> [offset |-> at[k], remove |-> Len(bar.pattern),
                                           insert |-> bar.replace_pattern]]
           IN  IF overlap THEN UNCHANGED bufferVars
               ELSE present' = Batch(present, ops) /\ Len(past') <= Len(past) + 1
      ]_<<barVars, bufferVars>>

(* No replacement changes the length of the file before the user agreed to  *)
(* it for the find and replace patterns now in the bar (splice_prompt_acked *)
(* survives replacements, reloads and other dialogs).                      *)
ResizeIsAgreed ==
    [][ Len(present') # Len(present) /\ (Replaces \/ AnswerOk)
        => agreed' = <<bar.pattern, bar.replace_pattern>> ]_<<barVars, bufferVars>>

=============================================================================
