---------------------------- MODULE EditHistory ----------------------------
(***************************************************************************)
(* EditState and the abstract UndoBuffer taking every operation together.  *)
(* The abstract buffer is told what the user asked for, and whether the    *)
(* editor opened a new undo unit; everything else (the patch, its fast     *)
(* path, merged entries, replay and diff) is the editor's own way to get   *)
(* there.  The properties say the two never disagree.                      *)
(***************************************************************************)
EXTENDS EditState, UndoBuffer

CONSTANT MaxRemove     \* bound: most bytes one splice removes

ASSUME MaxRemoveAssumption == MaxRemove \in Nat

historyAndBuffer == <<editVars, bufferVars>>

Offsets == 0 .. Len(view)

(* The editor folded the edit into its latest undo entry. *)
Joined == Len(undo_stack') = Len(undo_stack)

(* The undo stack is not full: the next entry drops no older one.  Beyond   *)
(* the cap the patch shows edits that the stack no longer holds.           *)
BelowCap == Len(undo_stack) < UNDO_HISTORY_CAP

(* Every caller of the editor returns early instead of asking for an edit   *)
(* that removes nothing and inserts nothing.                               *)
Requested(remove, insert) == BelowCap /\ (remove > 0 \/ insert # << >>)

(* Replace All (search_bar.rs perform_replace_all): every match, in order,  *)
(* replaced by the same bytes.                                             *)
ReplaceAll(matches, find_len, repl) ==
    [k \in 1 .. Len(matches) |->
        [offset |-> matches[k], remove |-> find_len, insert |-> repl]]

WriteStep ==
    \E offset \in Offsets, bytes \in Payloads :
       /\ Requested(Len(bytes), bytes)
       /\ request_write(offset, bytes, history_break)
       /\ UNCHANGED typingVars
       /\ Edit(offset, Len(bytes), bytes, Joined)

SpliceStep ==
    \E offset \in Offsets, remove \in 0 .. MaxRemove, insert \in Payloads :
       /\ Requested(remove, insert)
       /\ splice(offset, remove, insert, history_break)
       /\ UNCHANGED typingVars
       /\ Edit(offset, remove, insert, Joined)

InsertStep ==
    \E offset \in Offsets, bytes \in Payloads :
       /\ Requested(0, bytes)
       /\ insert_at(offset, bytes, history_break)
       /\ UNCHANGED typingVars
       /\ Edit(offset, 0, bytes, Joined)

BatchStep ==
    \E a, b \in Offsets, repl \in Payloads :
       LET ops == ReplaceAll(<<a, b>>, 1, repl)
       IN  /\ Requested(1, repl)
           /\ splice_many(ops, history_break)
           /\ UNCHANGED typingVars
           /\ EditBatch(ops, Joined)

UndoStep == undo /\ GoBack
RedoStep == redo /\ GoForward
RevertStep == revert /\ Reset(saved)

(* A save re-anchors the editor on the bytes it just wrote. *)
SaveStep == swap_base(view) /\ Reset(present)

(* The file was replaced on disk and reloaded without the edits. *)
ReloadStep == \E base \in Sources : swap_base(base) /\ Reset(base)

ModeStep == \E m \in {"Readonly", "Mutable"} : set_edit_mode(m) /\ UNCHANGED bufferVars
BoundaryStep == push_history_boundary /\ UNCHANGED bufferVars

HistoryInit == Init /\ Blank(base_source)

HistoryNext ==
    \/ WriteStep
    \/ SpliceStep
    \/ InsertStep
    \/ BatchStep
    \/ UndoStep
    \/ RedoStep
    \/ RevertStep
    \/ SaveStep
    \/ ReloadStep
    \/ ModeStep
    \/ BoundaryStep

HistorySpec == HistoryInit /\ [][HistoryNext]_historyAndBuffer

(* Quit with unsaved edits, open the file again, accept the restore prompt  *)
(* (workspace.rs resolve_restore): a new editor over the same base gets the *)
(* sidecar's patch and stacks.  set_undo_stack assigns the stack and        *)
(* nothing else, so the new editor's non_lp_entries stays 0.               *)
RestoreStep ==
    /\ ~IsEmptyPatch(patch)
    /\ mode' = "Mutable"
    /\ typing_mode' = "Replace"
    /\ edit_high_nibble' = TRUE
    /\ history_break' = TRUE
    /\ last_edit_at' = FALSE
    /\ non_lp_entries' = 0
    /\ revision' = 0
    /\ UNCHANGED <<base_source, patch, undo_stack, redo_stack, bufferVars>>

SessionNext == HistoryNext \/ RestoreStep

SessionSpec == HistoryInit /\ [][SessionNext]_historyAndBuffer

-----------------------------------------------------------------------------
(* The buffer as the editor alone holds it: its base, its view, and the     *)
(* contents its two stacks lead through.                                   *)

(* The contents undo goes back through, oldest first. *)
UndoContents ==
    [k \in 1 .. Len(undo_stack) |-> Contents(base_source, undo_stack)[k - 1]]

(* The contents redo goes forward through, next one last. *)
RedoContents ==
    LET n == Len(redo_stack)
        ahead == Contents(view, [k \in 1 .. n |-> redo_stack[n + 1 - k]])
    IN  [k \in 1 .. n |-> ahead[n + 1 - k]]

Undoable == INSTANCE UndoBuffer
                WITH saved <- base_source, present <- view,
                     past <- UndoContents, future <- RedoContents

-----------------------------------------------------------------------------
(* Properties. *)

(* Types of every variable, of editor.rs EditState and of the buffer. *)
TypeOK ==
    /\ base_source \in Seq(Byte)
    /\ DOMAIN patch.over \subseteq 0 .. (Len(base_source) - 1)
    /\ \A o \in DOMAIN patch.over : patch.over[o] \in Byte
    /\ patch.at \in Nat /\ patch.del \in Nat /\ patch.ins \in Seq(Byte)
    /\ mode \in {"Readonly", "Mutable"}
    /\ typing_mode \in {"Replace", "Insert"}
    /\ edit_high_nibble \in BOOLEAN
    /\ undo_stack \in Seq(EditEntry)
    /\ redo_stack \in Seq(EditEntry)
    /\ history_break \in BOOLEAN
    /\ last_edit_at \in BOOLEAN
    /\ non_lp_entries \in Nat
    /\ revision \in Nat

(* Whatever path recorded the edits (Patch::write in place, or replay and  *)
(* diff), and however they were coalesced, the bytes shown are the base    *)
(* with exactly the edits asked for, undo and redo included.               *)
ViewIsPresent == view = present

(* Undoing every entry one by one walks back through exactly the contents  *)
(* the user left, down to the base: coalescing never mixes two undo units. *)
UndoWalksPast ==
    /\ Len(past) = Len(undo_stack)
    /\ \A k \in 1 .. Len(undo_stack) : Contents(base_source, undo_stack)[k - 1] = past[k]

(* Redo re-applies each undone entry to the content it was taken from.     *)
RedoWalksFuture ==
    LET n == Len(redo_stack)
        ahead == Contents(present, [k \in 1 .. n |-> redo_stack[n + 1 - k]])
    IN  /\ Len(future) = n
        /\ \A k \in 1 .. n : ahead[k] = future[n + 1 - k]

(* Every entry's old_bytes are what its range held before it, also after   *)
(* merging: consumers print them and realign the cursor with them.         *)
OldBytesAreTruthful ==
    \A k \in 1 .. Len(undo_stack) :
       LET e == undo_stack[k]
       IN  e.old_bytes = Slice(past[k], e.offset, Len(e.old_bytes))

(* non_lp_entries counts the length-changing entries; the fast path writes *)
(* in base coordinates on the strength of it being zero.                   *)
NonLpCount ==
    non_lp_entries = Cardinality({k \in 1 .. Len(undo_stack) : ~IsLP(undo_stack[k])})

(* Read through its base, patch and stacks alone, EditState is an undo      *)
(* buffer: whatever it does to them (merging entries, replaying, diffing,   *)
(* restoring a sidecar) is one change, one step back or forward, or a       *)
(* fresh start, and never rewrites a content undo or redo still leads to.   *)
EditorIsUndoBuffer == Undoable!BufferSpec

=============================================================================
