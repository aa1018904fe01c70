----------------------------- MODULE EditState -----------------------------
(***************************************************************************)
(* hxy-editor/src/editor.rs: the patch overlay over an immutable base, the *)
(* undo and redo stacks and the bookkeeping that coalesces a run of typing *)
(* into one undo entry.  The operations are the ones HexEditor (lib.rs)    *)
(* forwards to.  A rejected operation (read-only editor, range past the    *)
(* end) returns before it touches any state, so it is a stuttering step.   *)
(*                                                                         *)
(* Time: record_entry compares the clock with last_edit_at.  Whether       *)
(* EDIT_COALESCE_IDLE has gone by since the last edit is a free choice; it *)
(* can only be true when there was one, and last_edit_at says just that.   *)
(***************************************************************************)
EXTENDS Suture, FiniteSets

CONSTANTS
    Byte,              \* the values of a byte
    Sources,           \* the byte contents an editor can be opened on
    Payloads,          \* the byte strings that are typed, pasted or written
    UNDO_HISTORY_CAP,  \* 1000 in the code
    MaxLen,            \* bound: longest buffer explored
    MaxRevision        \* bound: content mutations explored

ASSUME EditConstants ==
    /\ Sources \subseteq Seq(Byte)
    /\ Payloads \subseteq Seq(Byte)
    /\ UNDO_HISTORY_CAP \in Nat \ {0}
    /\ MaxLen \in Nat
    /\ MaxRevision \in Nat

VARIABLES
    base_source,       \* bytes of the immutable base
    patch,             \* the overlay (module Suture)
    mode,              \* EditMode
    typing_mode,       \* TypingMode
    edit_high_nibble,  \* the next hex digit goes to the high nibble
    undo_stack,
    redo_stack,
    history_break,     \* the next write starts a fresh undo entry
    last_edit_at,      \* Option<Instant>: TRUE for Some
    non_lp_entries,    \* entries of undo_stack that change the length
    revision

(* What record_entry may change. *)
historyVars ==
    <<undo_stack, redo_stack, history_break, last_edit_at, non_lp_entries, revision>>
typingVars == <<typing_mode, edit_high_nibble>>
editVars == <<base_source, patch, mode, historyVars, typingVars>>

EditEntry == [offset : Nat, old_bytes : Seq(Byte), new_bytes : Seq(Byte)]

(* The bytes the user sees: patched_source. *)
view == View(base_source, patch)

-----------------------------------------------------------------------------
(* Entries. *)

(* EditEntry::end *)
End(e) == e.offset + Len(e.new_bytes)

IsLP(e) == Len(e.old_bytes) = Len(e.new_bytes)

ranges_touch(a, b) == a.offset <= End(b) /\ b.offset <= End(a)

(* Bug: the bytes saved for undo are the ones the second write replaced. *)
merge_entry_newer_old(dst, next) ==
    LET start == Lesser(dst.offset, next.offset)
        len   == Greater(End(dst), End(next)) - start
        Pick(a, b, i) == LET o == start + i - 1 IN
                         IF next.offset <= o /\ o < End(next)
                         THEN a[o - next.offset + 1] ELSE b[o - dst.offset + 1]
    IN  [offset    |-> start,
         new_bytes |-> [i \in 1 .. len |-> Pick(next.new_bytes, dst.new_bytes, i)],
         old_bytes |-> [i \in 1 .. len |-> Pick(next.old_bytes, dst.old_bytes, i)]]

(* Union of two touching length-preserving entries: the later bytes win on *)
(* the new side, the earlier ones on the old side.                         *)
merge_entry(dst, next) ==
    LET start == Lesser(dst.offset, next.offset)
        len   == Greater(End(dst), End(next)) - start
        In(e, o) == e.offset <= o /\ o < End(e)
    IN  [offset    |-> start,
         new_bytes |-> [i \in 1 .. len |->
                          LET o == start + i - 1 IN
                          IF In(next, o) THEN next.new_bytes[o - next.offset + 1]
                                         ELSE dst.new_bytes[o - dst.offset + 1]],
         old_bytes |-> [i \in 1 .. len |->
                          LET o == start + i - 1 IN
                          IF In(dst, o) THEN dst.old_bytes[o - dst.offset + 1]
                                        ELSE next.old_bytes[o - next.offset + 1]]]

(* The three coalescing cases of record_entry, in the order they are tried. *)
IsTypingRun(last, e) == IsLP(last) /\ IsLP(e) /\ ranges_touch(last, e)
IsInsideLast(last, e) == IsLP(e) /\ e.offset >= last.offset /\ End(e) <= End(last)
(* Bug: any insert that touches the last one is taken to follow it. *)
IsTouchingInsert(last, e) ==
    last.old_bytes = << >> /\ e.old_bytes = << >> /\ e.offset <= End(last)

IsAdjacentInsert(last, e) ==
    last.old_bytes = << >> /\ e.old_bytes = << >> /\ e.offset = End(last)

Coalesces(last, e) ==
    IsTypingRun(last, e) \/ IsInsideLast(last, e) \/ IsAdjacentInsert(last, e)

Coalesced(last, e) ==
    IF IsTypingRun(last, e) THEN merge_entry(last, e)
    ELSE IF IsInsideLast(last, e)
    THEN [last EXCEPT !.new_bytes =
            Splice(@, e.offset - last.offset, Len(e.new_bytes), e.new_bytes)]
    ELSE [last EXCEPT !.new_bytes = @ \o e.new_bytes]

(* Effect on non_lp_entries of pushing or dropping e. *)
CountPush(n, e) == IF IsLP(e) THEN n ELSE n + 1
(* Bug: every popped entry is taken for a length-changing one. *)
CountPopAny(n, e) == n - 1

CountPop(n, e) == IF IsLP(e) \/ n = 0 THEN n ELSE n - 1

-----------------------------------------------------------------------------
(* rebuild_patch_from_stack: replay the stack over a copy of the base, then *)
(* diff the result against the base.                                       *)

(* One replay step; an entry out of the buffer's range is skipped. *)
Replayed(buf, e) ==
    IF e.offset + Len(e.old_bytes) > Len(buf) THEN buf
    ELSE Splice(buf, e.offset, Len(e.old_bytes), e.new_bytes)

(* The buffer after each prefix of the stack. *)
Contents(base, stack) ==
    LET buffer[k \in 0 .. Len(stack)] ==
            IF k = 0 THEN base ELSE Replayed(buffer[k - 1], stack[k])
    IN  buffer

Replay(base, stack) == Contents(base, stack)[Len(stack)]

(* Differing bytes become overwrites; a length difference becomes a        *)
(* trailing delete or a tail insert.                                       *)
Diff(base, buffer) ==
    LET n == Lesser(Len(base), Len(buffer))
        changed == {o \in 0 .. (n - 1) : base[o + 1] # buffer[o + 1]}
    IN  [over |-> [o \in changed |-> buffer[o + 1]],
         at   |-> IF Len(base) = Len(buffer) THEN 0 ELSE n,
         del  |-> Len(base) - n,
         ins  |-> Slice(buffer, n, Len(buffer) - n)]

rebuild_patch_from_stack(stack) == Diff(base_source, Replay(base_source, stack))

-----------------------------------------------------------------------------
(* Recording an edit. *)

(* The entry that describes replacing `remove` bytes of the view by `insert`. *)
Entry(offset, remove, insert) ==
    [offset |-> offset, old_bytes |-> Slice(view, offset, remove), new_bytes |-> insert]

(* Push a fresh entry, dropping the oldest one beyond the cap. *)
PushEntry(e) ==
    LET pushed == Append(undo_stack, e)
        count  == CountPush(non_lp_entries, e)
    IN  IF Len(pushed) > UNDO_HISTORY_CAP
        THEN /\ undo_stack' = Tail(pushed)
             /\ non_lp_entries' = CountPop(count, Head(pushed))
        ELSE /\ undo_stack' = pushed
             /\ non_lp_entries' = count

(* Fold the entry into the last one: the stack keeps its height. *)
MergeIntoLast(e) ==
    /\ undo_stack' = [undo_stack EXCEPT ![Len(undo_stack)] = Coalesced(@, e)]
    /\ UNCHANGED non_lp_entries

(* Bug: the redo entries outlive a new edit. *)
record_entry_keeps_redo(e, boundary) ==
    /\ revision' = revision + 1
    /\ PushEntry(e)
    /\ history_break' = FALSE
    /\ last_edit_at' = TRUE
    /\ UNCHANGED redo_stack

(* What it does to the stacks; `boundary` is history_break as the caller    *)
(* leaves it.                                                              *)
Recorded(e, boundary) ==
    /\ revision' = revision + 1
    /\ redo_stack' = << >>
    /\ \E idle_break \in IF last_edit_at THEN BOOLEAN ELSE {FALSE} :
          IF /\ ~boundary
             /\ ~idle_break
             /\ undo_stack # << >>
             /\ Coalesces(undo_stack[Len(undo_stack)], e)
          THEN MergeIntoLast(e)
          ELSE PushEntry(e)
    /\ last_edit_at' = TRUE

record_entry(e, boundary) == Recorded(e, boundary) /\ history_break' = FALSE

-----------------------------------------------------------------------------
(* Operations.  They leave typing_mode and edit_high_nibble to the caller  *)
(* where the code does: HexEditor's typing moves the nibble itself.         *)

(* Guard shared by the recording operations; the two bounds are the model's. *)
CanRecord(offset, remove, insert) ==
    /\ mode = "Mutable"
    /\ offset + remove <= Len(view)
    /\ revision < MaxRevision
    /\ Len(view) - remove + Len(insert) <= MaxLen

(* Fast path: with no length-changing entry the last entry's offset is in  *)
(* base coordinates and goes straight to Patch::write; if the patch refuses *)
(* it, or off the fast path, the patch is rebuilt.                         *)
apply_lp_write_to_patch(stack) ==
    LET last == stack[Len(stack)]
    IN  IF AcceptsWrite(patch, base_source, last.offset, last.new_bytes)
        THEN Write(patch, last.offset, last.new_bytes)
        ELSE rebuild_patch_from_stack(stack)

request_write(offset, bytes, boundary) ==
    /\ CanRecord(offset, Len(bytes), bytes)
    /\ record_entry(Entry(offset, Len(bytes), bytes), boundary)
    /\ patch' = IF non_lp_entries = 0 /\ non_lp_entries' = 0
                THEN apply_lp_write_to_patch(undo_stack')
                ELSE rebuild_patch_from_stack(undo_stack')
    /\ UNCHANGED <<base_source, mode>>

splice(offset, remove, insert, boundary) ==
    /\ CanRecord(offset, remove, insert)
    /\ record_entry(Entry(offset, remove, insert), boundary)
    /\ patch' = rebuild_patch_from_stack(undo_stack')
    /\ UNCHANGED <<base_source, mode>>

insert_at(offset, bytes, boundary) ==
    /\ CanRecord(offset, 0, bytes)
    /\ record_entry(Entry(offset, 0, bytes), boundary)
    /\ patch' = rebuild_patch_from_stack(undo_stack')
    /\ UNCHANGED <<base_source, mode>>

(* A batch of splices, each [offset, remove, insert] in the coordinates of *)
(* the view before the batch: sorted, disjoint, inside the view.           *)
ValidBatch(ops) ==
    /\ ops # << >>
    /\ \A k \in 1 .. Len(ops) : ops[k].offset + ops[k].remove <= Len(view)
    /\ \A k \in 2 .. Len(ops) :
          ops[k].offset >= ops[k - 1].offset + ops[k - 1].remove

(* The bytes that replace the batch's span: the kept bytes interleaved with *)
(* each op's insert.                                                       *)
BatchBytes(ops, span) ==
    LET first == ops[1].offset
        out[k \in 0 .. Len(ops)] ==
            IF k = 0 THEN [bytes |-> << >>, cursor |-> 0]
            ELSE LET start == ops[k].offset - first
                     done  == out[k - 1]
                 IN  [bytes  |-> done.bytes
                                   \o Slice(span, done.cursor, start - done.cursor)
                                   \o ops[k].insert,
                      cursor |-> start + ops[k].remove]
        last == out[Len(ops)]
    IN  last.bytes \o Slice(span, last.cursor, Len(span) - last.cursor)

(* One undo entry for the whole batch. *)
splice_many(ops, boundary) ==
    LET first == ops[1].offset
        span  == ops[Len(ops)].offset + ops[Len(ops)].remove - first
        bytes == BatchBytes(ops, Slice(view, first, span))
    IN  /\ ValidBatch(ops)
        /\ CanRecord(first, span, bytes)
        /\ record_entry(Entry(first, span, bytes), boundary)
        /\ patch' = rebuild_patch_from_stack(undo_stack')
        /\ UNCHANGED <<base_source, mode>>

undo ==
    LET n == Len(undo_stack)
    IN  /\ mode = "Mutable"
        /\ n > 0
        /\ revision < MaxRevision
        /\ revision' = revision + 1
        /\ undo_stack' = SubSeq(undo_stack, 1, n - 1)
        /\ redo_stack' = Append(redo_stack, undo_stack[n])
        /\ non_lp_entries' = CountPop(non_lp_entries, undo_stack[n])
        /\ patch' = rebuild_patch_from_stack(undo_stack')
        /\ history_break' = TRUE
        /\ edit_high_nibble' = TRUE
        /\ UNCHANGED <<base_source, mode, typing_mode, last_edit_at>>

redo ==
    LET n == Len(redo_stack)
    IN  /\ mode = "Mutable"
        /\ n > 0
        /\ revision < MaxRevision
        /\ revision' = revision + 1
        /\ redo_stack' = SubSeq(redo_stack, 1, n - 1)
        /\ undo_stack' = Append(undo_stack, redo_stack[n])
        /\ non_lp_entries' = CountPush(non_lp_entries, redo_stack[n])
        /\ patch' = rebuild_patch_from_stack(undo_stack')
        /\ history_break' = TRUE
        /\ edit_high_nibble' = TRUE
        /\ UNCHANGED <<base_source, mode, typing_mode, last_edit_at>>

(* Bug: reverting empties the patch but not the undo stack. *)
revert_keeps_stack ==
    /\ revision < MaxRevision
    /\ revision' = revision + 1
    /\ history_break' = TRUE
    /\ last_edit_at' = FALSE
    /\ redo_stack' = << >>
    /\ patch' = EmptyPatch
    /\ UNCHANGED <<base_source, mode, typingVars, undo_stack, non_lp_entries>>

(* No edit-mode check: a read-only editor can be reverted too. *)
revert ==
    /\ revision < MaxRevision
    /\ revision' = revision + 1
    /\ undo_stack' = << >>
    /\ redo_stack' = << >>
    /\ history_break' = TRUE
    /\ last_edit_at' = FALSE
    /\ non_lp_entries' = 0
    /\ patch' = rebuild_patch_from_stack(<< >>)
    /\ UNCHANGED <<base_source, mode, typingVars>>

(* Bug: the history is dropped and the edits stay in the patch, over the    *)
(* old base.                                                               *)
swap_base_keeps_base(base) ==
    /\ undo_stack' = << >>
    /\ redo_stack' = << >>
    /\ history_break' = TRUE
    /\ last_edit_at' = FALSE
    /\ edit_high_nibble' = TRUE
    /\ non_lp_entries' = 0
    /\ UNCHANGED <<base_source, patch, mode, typing_mode, revision>>

(* A fresh base with no edits on it: after a save, or a reload from disk. *)
swap_base(base) ==
    /\ base_source' = base
    /\ patch' = EmptyPatch
    /\ undo_stack' = << >>
    /\ redo_stack' = << >>
    /\ history_break' = TRUE
    /\ last_edit_at' = FALSE
    /\ edit_high_nibble' = TRUE
    /\ non_lp_entries' = 0
    /\ UNCHANGED <<mode, typing_mode, revision>>

set_edit_mode(m) ==
    /\ mode' = m
    /\ edit_high_nibble' = TRUE
    /\ history_break' = TRUE
    /\ UNCHANGED <<base_source, patch, typing_mode, undo_stack, redo_stack,
                   last_edit_at, non_lp_entries, revision>>

push_history_boundary ==
    /\ history_break' = TRUE
    /\ UNCHANGED <<base_source, patch, mode, typingVars, undo_stack, redo_stack,
                   last_edit_at, non_lp_entries, revision>>

Init ==
    /\ base_source \in Sources
    /\ patch = EmptyPatch
    /\ mode = "Mutable"
    /\ typing_mode = "Replace"
    /\ edit_high_nibble = TRUE
    /\ undo_stack = << >>
    /\ redo_stack = << >>
    /\ history_break = FALSE
    /\ last_edit_at = FALSE
    /\ non_lp_entries = 0
    /\ revision = 0

=============================================================================
