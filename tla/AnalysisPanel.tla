--------------------------- MODULE AnalysisPanel ---------------------------
(***************************************************************************)
(* The strings, checksums and entropy panels (gpui panels/strings.rs,      *)
(* checksums.rs, entropy.rs), which share one protocol: a run reads the     *)
(* file's source on a background thread, a request made meanwhile sets      *)
(* pending_rerun, and the completion handler honours it.  A reload asks     *)
(* for a run too, unless nobody used the panel or the file is empty or too  *)
(* large.  Edits do not.  The run button is off during a run.  In the       *)
(* checksums panel the user ticks algorithms, at any time, and a request    *)
(* whose turn comes with none ticked is dropped.                           *)
(***************************************************************************)
EXTENDS UndoBuffer

CONSTANTS
    AUTO_RUN_MAX_BYTES,  \* largest file a reload recomputes
    MaxRequests          \* bound: requests explored

ASSUME AnalysisConstants ==
    AUTO_RUN_MAX_BYTES \in Nat /\ MaxRequests \in Nat

VARIABLES
    panel,     \* kind: which of the three; range: the configured end, 0 for all;
               \* ticked: whether some algorithm is; running: the run in flight, if any;
               \* pending: pending_rerun; result: whether a result is shown
    due,       \* requests made so far with something to compute
    served,    \* the latest request a finished run was started for
    dropped    \* the latest request that waited for a run, and found nothing ticked

analysisVars == <<panel, due, served, dropped>>

(* StringsPanel::run, ChecksumsPanel::run, EntropyPanel::run; `n` is the    *)
(* latest request.                                                         *)
run(p, n, bytes) ==
    IF ~p.ticked THEN p
    ELSE IF p.running # << >> THEN [p EXCEPT !.pending = TRUE]
    ELSE [p EXCEPT !.running = <<[range |-> p.range, serves |-> n, lengths |-> {Len(bytes)},
                                  live |-> TRUE]>>]

(* bind_pane: the range is the whole file, and small files are run at once; *)
(* the entropy panel has no range and takes files of every size.           *)
AnalysisInit(bound) ==
    \E kind \in {"strings", "checksums", "entropy"}, ticked \in BOOLEAN :
       LET range == IF kind = "entropy" \/ ~bound THEN 0 ELSE Len(present)
           fresh == [kind |-> kind, range |-> range, ticked |-> ticked, running |-> << >>,
                     pending |-> FALSE, result |-> FALSE]
           auto  == /\ bound /\ ticked /\ Len(present) > 0
                    /\ kind = "entropy" \/ Len(present) <= AUTO_RUN_MAX_BYTES
       IN  /\ kind # "checksums" => ticked
           /\ ~bound => kind = "entropy"
           /\ panel = IF auto THEN run(fresh, 1, present) ELSE fresh
           /\ due = IF auto THEN 1 ELSE 0
           /\ served = 0
           /\ dropped = 0

(* A request is none when nothing is ticked. *)
Ask(p, bytes) ==
    /\ p.ticked => due < MaxRequests
    /\ due' = IF p.ticked THEN due + 1 ELSE due
    /\ panel' = run(p, due', bytes)
    /\ UNCHANGED <<served, dropped>>

(* on_run_clicked: a range inside the file or, with the field left blank,   *)
(* the configured one, then a run.                                         *)
on_run_clicked ==
    /\ panel.ticked /\ panel.running = << >>
    /\ \E range \in {panel.range} \cup
                     (IF panel.kind = "entropy" THEN {} ELSE 1 .. Len(present)) :
          Ask([panel EXCEPT !.range = range], present)
    /\ UNCHANGED bufferVars

(* The last algorithm is unticked, or the first one ticked. *)
toggle_algorithm ==
    /\ panel.kind = "checksums"
    /\ panel' = [panel EXCEPT !.ticked = ~@]
    /\ UNCHANGED <<due, served, dropped, bufferVars>>

(* Bug: the run that was in flight answers the request made meanwhile. *)
FinishForgetsPending ==
    /\ panel.running # << >>
    /\ served' = panel.running[1].serves
    /\ panel' = [panel EXCEPT !.running = << >>, !.pending = FALSE]
    /\ UNCHANGED <<due, dropped, bufferVars>>

(* The completion handler.  A range past the end of the bytes read is an    *)
(* error, which leaves the old result.                                     *)
FinishRun ==
    /\ panel.running # << >>
    /\ LET h == panel.running[1]
       IN  \E length \in h.lengths :
             LET idle == [panel EXCEPT !.running = << >>, !.pending = FALSE,
                                       !.result = @ \/ h.range <= length]
             IN  /\ panel' = IF panel.pending THEN run(idle, due, present) ELSE idle
                 /\ served' = h.serves
                 /\ dropped' = IF panel.pending /\ ~panel.ticked THEN due ELSE dropped
    /\ UNCHANGED <<due, bufferVars>>

-----------------------------------------------------------------------------
(* What the panel does when the file changes. *)

(* A run under way may read the source before or after the edit. *)
AnalysisSeesEdit ==
    /\ panel' = [panel EXCEPT !.running =
                    [i \in 1 .. Len(@) |->
                       IF @[i].live THEN [@[i] EXCEPT !.lengths = @ \cup {Len(present')}]
                       ELSE @[i]]]
    /\ UNCHANGED <<due, served, dropped>>

Unhooked(p) ==
    [p EXCEPT !.running = [i \in 1 .. Len(@) |-> [@[i] EXCEPT !.live = FALSE]]]

AnalysisSeesSave ==
    /\ panel' = Unhooked(panel)
    /\ UNCHANGED <<due, served, dropped>>

InUse == panel.result \/ panel.running # << >>

(* recompute_after_reload *)
AnalysisSeesReload ==
    IF InUse /\ Len(present') > 0 /\ Len(present') <= AUTO_RUN_MAX_BYTES
    THEN Ask(Unhooked(panel), present')
    ELSE panel' = Unhooked(panel) /\ UNCHANGED <<due, served, dropped>>

-----------------------------------------------------------------------------
(* Properties. *)

(* Every run the user or a reload asked for happens, on the source and the  *)
(* range of the request or of a later one: none is dropped because another  *)
(* was in flight, and a run that began before a reload never passes for the *)
(* one the reload asked for (pending_rerun, recompute_after_reload).  Only  *)
(* a request that waited may be given up, and only because the user had     *)
(* unticked every algorithm by its turn (ChecksumsPanel::run).             *)
EveryRequestServed ==
    \A n \in 1 .. MaxRequests : due >= n ~> served >= n \/ dropped >= n

=============================================================================
