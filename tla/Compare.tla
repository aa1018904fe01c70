------------------------------ MODULE Compare ------------------------------
(***************************************************************************)
(* The compare panel (gpui panels/compare.rs): the editor is one of its two *)
(* panes, the other does not change.  The diff runs on a background thread  *)
(* over copies of the bytes.  Whether it is out of date is judged by a      *)
(* fingerprint, the height of the undo stack and the length of the bytes    *)
(* (hxy-panels/src/diff.rs PaneFingerprint): an edit that changes neither   *)
(* goes unnoticed.                                                         *)
(***************************************************************************)
EXTENDS UndoBuffer

VARIABLES
    diff,              \* the diff shown, if any: the bytes it was made from
    last_fingerprint,  \* the fingerprint it was made under
    job,               \* the diff being made, if any (recomputing)
    debounce           \* the recompute timer is armed

compareVars == <<diff, last_fingerprint, job, debounce>>

Fingerprint(stack, bytes) == [undo_len |-> Len(stack), source_len |-> Len(bytes)]
fingerprint == Fingerprint(past, present)

Job(stack, bytes) == <<[fingerprint |-> Fingerprint(stack, bytes), bytes |-> bytes]>>

(* from_sources starts the first diff at once; no panel, no diff. *)
CompareInit(opened) ==
    /\ diff = << >>
    /\ last_fingerprint = << >>
    /\ job = IF opened THEN Job(past, present) ELSE << >>
    /\ debounce = FALSE

(* maybe_schedule_recompute: armed unless a diff is in flight or the        *)
(* fingerprint has not moved.                                              *)
maybe_schedule_recompute(last, current, running) ==
    debounce \/ (running = << >> /\ last # <<current>>)

CompareSeesEdit ==
    /\ debounce' = maybe_schedule_recompute(last_fingerprint, fingerprint', job)
    /\ UNCHANGED <<diff, last_fingerprint, job>>

(* The timer fires: recompute, unless a diff is in flight. *)
RecomputeDue ==
    /\ debounce
    /\ debounce' = FALSE
    /\ job' = IF job = << >> THEN Job(past, present) ELSE job
    /\ UNCHANGED <<diff, last_fingerprint, bufferVars>>

(* recompute_now: the toolbar button, disabled while a diff is in flight. *)
RecomputeNow ==
    /\ job = << >>
    /\ job' = Job(past, present)
    /\ UNCHANGED <<diff, last_fingerprint, debounce, bufferVars>>

(* Bug: nobody looks for edits made while the worker ran. *)
ApplyDiffOnly ==
    /\ job # << >>
    /\ job' = << >>
    /\ diff' = <<job[1].bytes>>
    /\ last_fingerprint' = <<job[1].fingerprint>>
    /\ UNCHANGED <<debounce, bufferVars>>

(* apply_diff: show it, then look for edits made meanwhile. *)
ApplyDiff ==
    /\ job # << >>
    /\ job' = << >>
    /\ diff' = <<job[1].bytes>>
    /\ last_fingerprint' = <<job[1].fingerprint>>
    /\ debounce' = maybe_schedule_recompute(last_fingerprint', fingerprint, << >>)
    /\ UNCHANGED bufferVars

(* A diff is out of date as far as the panel can tell. *)
OutOfDate == diff # << >> /\ last_fingerprint # <<fingerprint>>

(* An edit that moves the fingerprint ends up in the diff, also one made    *)
(* while the previous diff was under way; the timer and the worker cannot   *)
(* chase each other over the same old bytes (maybe_schedule_recompute,      *)
(* recompute, apply_diff).                                                 *)
DiffCatchesUp == OutOfDate ~> ~OutOfDate

=============================================================================
