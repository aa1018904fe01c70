----------------------------- MODULE KeepEdits -----------------------------
(***************************************************************************)
(* EditState with a reload from disk that keeps the edits                  *)
(* (lib.rs swap_source_keep_patch, called by watch.rs apply_reload): the   *)
(* patch stays, the stacks it is rebuilt from do not.                      *)
(***************************************************************************)
EXTENDS EditState

VARIABLE kept   \* what the last keep-my-edits reload promised to keep: the
                \* overwritten offsets and their bytes, less what was edited since

keepVars == <<editVars, kept>>

NothingKept == [o \in {} |-> 0]

(* The user replaces `remove` bytes at `offset`: the promise stands for the *)
(* offsets the edit neither covers nor shifts.                             *)
KeptAfter(offset, remove, insert) ==
    LET stays == {o \in DOMAIN kept :
                     \/ o < offset
                     \/ remove = Len(insert) /\ o >= offset + remove}
    IN  [o \in stays |-> kept[o]]

KeepInit == Init /\ kept = NothingKept

EditStep ==
    \E offset \in 0 .. Len(view), bytes \in Payloads :
       /\ bytes # << >>
       /\ UNCHANGED typingVars
       /\ \/ /\ request_write(offset, bytes, history_break)
             /\ kept' = KeptAfter(offset, Len(bytes), bytes)
          \/ /\ splice(offset, 0, bytes, history_break)
             /\ kept' = KeptAfter(offset, 0, bytes)

BoundaryStep == push_history_boundary /\ UNCHANGED kept
TakeBackStep == (undo \/ redo \/ revert) /\ kept' = NothingKept

(* The file changed on disk to `base`; the user keeps the edits.  The patch *)
(* survives swap_base; undo and redo do not.                               *)
swap_source_keep_patch(base) ==
    /\ base_source' = base
    /\ undo_stack' = << >>
    /\ redo_stack' = << >>
    /\ history_break' = TRUE
    /\ last_edit_at' = FALSE
    /\ edit_high_nibble' = TRUE
    /\ non_lp_entries' = 0
    /\ UNCHANGED <<patch, mode, typing_mode, revision>>

KeepEditsStep ==
    \E base \in Sources :
       /\ Len(base) = Len(base_source)
       /\ swap_source_keep_patch(base)
       /\ kept' = patch.over

KeepSpec ==
    KeepInit /\ [][EditStep \/ BoundaryStep \/ TakeBackStep \/ KeepEditsStep]_keepVars

-----------------------------------------------------------------------------
(* lib.rs:334 says of swap_source_keep_patch: "the user's splices stay     *)
(* applied on top of the new disk content".                                *)
KeptEditsStay == \A o \in DOMAIN kept : o < Len(view) /\ view[o + 1] = kept[o]

=============================================================================
