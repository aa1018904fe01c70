---------------------------- MODULE TemplateRuns ----------------------------
(***************************************************************************)
(* The template runs of a file tab: gpui panels/file.rs and templates.rs.  *)
(* A run parses and executes a template on a background thread against the *)
(* tab's live byte source; an edit arms a debounce timer that runs every   *)
(* finished template again, a reload runs them again at once, and either    *)
(* waits while a run is in flight.                                         *)
(*                                                                         *)
(* A run sees the editor's own source: an edit under way may be in what it  *)
(* read, in part of it, or not at all, and a save or a reload gives the     *)
(* editor a new source while the run keeps the old one.  All of it comes    *)
(* down to whether the bytes changed since the run began: if so its result  *)
(* cannot be relied on.                                                    *)
(*                                                                         *)
(* Instance ids are fresh for every run; here an instance is its place in   *)
(* the list of finished ones or of running ones.                           *)
(***************************************************************************)
EXTENDS UndoBuffer, FiniteSets

CONSTANT Scripts     \* template files the user runs, each at most once at a time

VARIABLES
    tpl,      \* the tab: templates, templates_running, template_rerun_pending, and
              \* whether the debounce timer (_template_rerun_task) is armed
    wanted    \* templates the user ran and did not remove

templateVars == <<tpl, wanted>>

TemplatesInit ==
    /\ tpl = [templates |-> << >>, running |-> << >>, pending |-> FALSE, armed |-> FALSE]
    /\ wanted = {}

DropAt(seq, i) == [k \in 1 .. Len(seq) - 1 |-> seq[IF k < i THEN k ELSE k + 1]]

(* A run over the first `end` bytes, under way or finished; `fresh` while   *)
(* the bytes have not changed since it began.                              *)
Instance(script, end) == [script |-> script, end |-> end, fresh |-> TRUE]

Stale(instances) == [i \in 1 .. Len(instances) |-> [instances[i] EXCEPT !.fresh = FALSE]]
BytesChanged(t) == [t EXCEPT !.templates = Stale(@), !.running = Stale(@)]

-----------------------------------------------------------------------------
(* run_template on the tab `t`: prepare refuses a range past the end of     *)
(* the file and leaves an error instance, otherwise spawn_run starts.       *)
run_template(t, script, end, bytes) ==
    IF end > Len(bytes)
    THEN [t EXCEPT !.templates = Append(@, Instance(script, end))]
    ELSE [t EXCEPT !.running = Append(@, Instance(script, end))]

(* Bug: a request to run again while something runs is dropped. *)
rerun_templates_dropped(t, bytes) ==
    LET again[k \in 0 .. Len(t.templates)] ==
            IF k = 0 THEN [t EXCEPT !.templates = << >>]
            ELSE run_template(again[k - 1], t.templates[k].script, t.templates[k].end, bytes)
    IN  IF t.running # << >> THEN t ELSE again[Len(t.templates)]

(* rerun_templates: not while a run is in flight; otherwise the list is     *)
(* emptied and every template of it run again over its old range.          *)
rerun_templates(t, bytes) ==
    LET again[k \in 0 .. Len(t.templates)] ==
            IF k = 0 THEN [t EXCEPT !.templates = << >>]
            ELSE run_template(again[k - 1], t.templates[k].script, t.templates[k].end, bytes)
    IN  IF t.running # << >> THEN [t EXCEPT !.pending = TRUE] ELSE again[Len(t.templates)]

(* After a run ended or was cancelled: the deferred re-run, once nothing is *)
(* in flight.                                                              *)
ReplayPending(t, bytes) ==
    IF t.running = << >> /\ t.pending
    THEN rerun_templates([t EXCEPT !.pending = FALSE], bytes) ELSE t

-----------------------------------------------------------------------------
(* The user runs a template, on the whole file or on a selection. *)
RunScript ==
    \E script \in Scripts \ wanted, end \in 0 .. Len(present) :
       /\ tpl' = run_template(tpl, script, end, present)
       /\ wanted' = wanted \cup {script}
       /\ UNCHANGED bufferVars

(* RemoveInstance; dropping a running handle cancels the run. *)
RemoveInstance ==
    /\ \/ \E i \in 1 .. Len(tpl.templates) :
             /\ tpl' = ReplayPending([tpl EXCEPT !.templates = DropAt(@, i)], present)
             /\ wanted' = wanted \ {tpl.templates[i].script}
       \/ \E i \in 1 .. Len(tpl.running) :
             /\ tpl' = ReplayPending([tpl EXCEPT !.running = DropAt(@, i)], present)
             /\ wanted' = wanted \ {tpl.running[i].script}
    /\ UNCHANGED bufferVars

(* Bug: the finished run takes the place of every other instance. *)
CompleteAlone(script) ==
    /\ \E i \in 1 .. Len(tpl.running) :
          /\ tpl.running[i].script = script
          /\ tpl' = ReplayPending([tpl EXCEPT !.running = DropAt(@, i),
                                              !.templates = <<tpl.running[i]>>], present)
    /\ UNCHANGED <<wanted, bufferVars>>

(* The completion handler of spawn_run: retain, upsert, replay. *)
Complete(script) ==
    /\ \E i \in 1 .. Len(tpl.running) :
          /\ tpl.running[i].script = script
          /\ tpl' = ReplayPending([tpl EXCEPT !.running = DropAt(@, i),
                                              !.templates = Append(@, tpl.running[i])], present)
    /\ UNCHANGED <<wanted, bufferVars>>

(* The debounce timer fires. *)
RerunDue ==
    /\ tpl.armed
    /\ tpl' = rerun_templates([tpl EXCEPT !.armed = FALSE], present)
    /\ UNCHANGED <<wanted, bufferVars>>

-----------------------------------------------------------------------------
(* What the tab does when its editor changes. *)

(* on_pane_notify with a new revision: schedule_template_rerun arms the     *)
(* timer unless there is nothing to run.                                   *)
TemplatesSeeEdit ==
    /\ tpl' = [BytesChanged(tpl) EXCEPT
                 !.armed = @ \/ tpl.templates # << >> \/ tpl.running # << >>]
    /\ UNCHANGED wanted

(* A reload runs the templates again at once. *)
TemplatesSeeReload ==
    /\ tpl' = rerun_templates(BytesChanged(tpl), present')
    /\ UNCHANGED wanted

-----------------------------------------------------------------------------
(* Properties. *)

(* How often a template is in the tab, finished or running. *)
Copies(script) ==
    Cardinality({i \in 1 .. Len(tpl.templates) : tpl.templates[i].script = script})
    + Cardinality({i \in 1 .. Len(tpl.running) : tpl.running[i].script = script})

(* Every template the user ran and did not remove is in the tab exactly     *)
(* once, and no other is: clearing the list to run it again, cancelling a   *)
(* run, a range that no longer fits and a deferred re-run neither lose an   *)
(* instance, nor double it, nor bring a removed one back (file.rs           *)
(* rerun_templates, RemoveInstance; templates.rs spawn_run).               *)
InstancesKept ==
    \A script \in Scripts : Copies(script) = IF script \in wanted THEN 1 ELSE 0

(* The template has finished on the bytes the tab shows. *)
UpToDate(script) ==
    \E i \in 1 .. Len(tpl.templates) :
       tpl.templates[i].script = script /\ tpl.templates[i].fresh

(* However edits, saves, reloads and removals fall between a run's start    *)
(* and its end, every template ends up showing a result computed from the   *)
(* bytes the tab shows, never from older ones or a mixture (file.rs         *)
(* schedule_template_rerun, template_rerun_pending).                       *)
TemplatesCatchUp ==
    \A script \in Scripts :
       script \in wanted ~> (script \notin wanted \/ UpToDate(script))

=============================================================================
