----------------------------- MODULE UndoBuffer -----------------------------
(***************************************************************************)
(* What an editor with undo promises, with no patch, no coalescing rule    *)
(* and no history entries: a buffer, the contents undo will go back        *)
(* through, and the contents redo will go forward through.                 *)
(***************************************************************************)
EXTENDS Bytes

VARIABLES
    saved,    \* the content reverting goes back to
    present,  \* the content shown
    past,     \* contents before each undo unit, oldest first
    future    \* contents redo brings back, next one last

bufferVars == <<saved, present, past, future>>

Blank(content) ==
    /\ saved = content
    /\ present = content
    /\ past = << >>
    /\ future = << >>

(* Change the buffer; `joins` when the change extends the latest undo unit. *)
Change(content, joins) ==
    /\ present' = content
    /\ past' = IF joins THEN past ELSE Append(past, present)
    /\ future' = << >>
    /\ UNCHANGED saved

Edit(off, rem, ins, joins) == Change(Splice(present, off, rem, ins), joins)

(* A batch of disjoint splices, all in the coordinates of the buffer before *)
(* the batch: applied back to front, so that none shifts another.          *)
Batch(buf, ops) ==
    LET after[k \in 1 .. Len(ops) + 1] ==
            IF k > Len(ops) THEN buf
            ELSE Splice(after[k + 1], ops[k].offset, ops[k].remove, ops[k].insert)
    IN  after[1]

EditBatch(ops, joins) == Change(Batch(present, ops), joins)

GoBack ==
    /\ past # << >>
    /\ present' = past[Len(past)]
    /\ past' = SubSeq(past, 1, Len(past) - 1)
    /\ future' = Append(future, present)
    /\ UNCHANGED saved

GoForward ==
    /\ future # << >>
    /\ present' = future[Len(future)]
    /\ future' = SubSeq(future, 1, Len(future) - 1)
    /\ past' = Append(past, present)
    /\ UNCHANGED saved

Reset(content) ==
    /\ saved' = content
    /\ present' = content
    /\ past' = << >>
    /\ future' = << >>

-----------------------------------------------------------------------------
(* The promise on its own: whatever the user asks for, the buffer changes,  *)
(* opening a new undo unit or not, goes back, goes forward or starts over.  *)

BufferNext ==
    \/ \E joins \in BOOLEAN : Change(present', joins)
    \/ GoBack
    \/ GoForward
    \/ Reset(present')

BufferSpec == Blank(saved) /\ [][BufferNext]_bufferVars

=============================================================================
