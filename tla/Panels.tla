------------------------------- MODULE Panels -------------------------------
(***************************************************************************)
(* A file tab and what computes over its bytes: the find bar, and in the    *)
(* background the template runs, the analysis panels, the compare panel and *)
(* the global search.  The tab's editor is an UndoBuffer, the specification *)
(* its EditState is proved to implement (EditHistoryProofs,                 *)
(* EditorImplementsBuffer); which edits extend the latest undo unit is left *)
(* open here.  Each behaviour has one panel open: they meet only in the     *)
(* editor.  "scan", "strings" and "rows" are the algorithms behind the find *)
(* bar, the strings panel and the compare view, each on an input of its own. *)
(***************************************************************************)
EXTENDS TemplateRuns, AnalysisPanel, Compare, GlobalSearch, SearchBar,
        StringScan, RowMaps

CONSTANTS
    Contents,     \* what the file and the buffer hold, for each panel that can be open
    ScanPatterns, \* patterns the search itself is looked at with
    MaxChanges,   \* bound: edits explored, for each panel
    MaxReloads    \* bound: saves and reloads explored

ASSUME PanelsConstants ==
    /\ DOMAIN Contents \subseteq
          {"templates", "analysis", "compare", "search", "find", "scan", "strings", "rows"}
    /\ \A p \in DOMAIN Contents : Contents[p] \subseteq Seq(Nat)
    /\ \A p \in ScanPatterns : p \in Seq(Nat) /\ Len(p) > 0
    /\ MaxChanges \in [DOMAIN Contents -> Nat]
    /\ MaxReloads \in Nat

VARIABLES
    open,      \* the panel that is open
    changes,   \* edits so far
    reloads    \* saves and reloads so far

boundVars == <<open, changes, reloads>>
algorithmVars == <<scanVars, hunks>>
panelsVars ==
    <<bufferVars, templateVars, analysisVars, compareVars, searchVars, barVars, algorithmVars,
      boundVars>>

(* "scan" is the find bar with a query and a scope already in it. *)
Queried ==
    /\ BarInit
    \/ /\ open = "scan"
       /\ \E p \in ScanPatterns, lo, hi \in 0 .. Len(present) :
             /\ lo < hi
             /\ bar = [pattern |-> p, replace_pattern |-> << >>, all_results |-> FALSE,
                       matches |-> << >>, active_idx |-> 0, acked |-> FALSE,
                       scope |-> [lo |-> lo, hi |-> hi]]
       /\ selection = << >> /\ dialog = << >> /\ found_in = << >> /\ agreed = << >>

PanelsInit ==
    /\ open \in DOMAIN Contents
    /\ \E content \in Contents[open] : Blank(content)
    /\ TemplatesInit
    /\ AnalysisInit(open = "analysis")
    /\ SearchInit
    /\ CompareInit(open = "compare")
    /\ Queried
    /\ ScanInit(open = "strings")
    /\ RowsInit
    /\ changes = 0
    /\ reloads = 0

-----------------------------------------------------------------------------
(* The user edits the bytes, undoes, redoes or reverts; the file panel and  *)
(* the compare panel are told (cx.observe), the find bar is not.           *)
EditTab ==
    /\ open \in {"templates", "analysis", "compare", "find"}
    /\ changes < MaxChanges[open]
    /\ dialog = << >>
    /\ \/ \E content \in Contents[open], joins \in {FALSE, past # << >>} : Change(content, joins)
       \/ GoBack \/ GoForward \/ Reset(saved)
    /\ TemplatesSeeEdit /\ AnalysisSeesEdit
    /\ IF open = "compare" THEN CompareSeesEdit ELSE UNCHANGED compareVars
    /\ changes' = changes + 1
    /\ UNCHANGED <<searchVars, barVars, algorithmVars, open, reloads>>

(* The two panes of a compare panel are its own: files saved and reloaded  *)
(* elsewhere do not reach them.                                            *)
CanSwap == open \in {"templates", "analysis", "find"} /\ reloads < MaxReloads

SaveTab ==
    /\ CanSwap
    /\ dialog = << >>
    /\ Reset(present)
    /\ AnalysisSeesSave
    /\ reloads' = reloads + 1
    /\ UNCHANGED <<templateVars, compareVars, searchVars, barVars, algorithmVars, open, changes>>

(* apply_reload without the edits, recompute_panels_for_path,               *)
(* rerun_templates.  The watcher does not wait for dialogs.                *)
ReloadTab ==
    /\ CanSwap
    /\ \E content \in Contents[open] : Reset(content)
    /\ AnalysisSeesReload /\ TemplatesSeeReload
    /\ reloads' = reloads + 1
    /\ UNCHANGED <<compareVars, searchVars, barVars, algorithmVars, open, changes>>

-----------------------------------------------------------------------------
(* The open panel. *)

TemplateStep ==
    /\ open = "templates"
    /\ RunScript \/ RemoveInstance \/ RerunDue \/ \E script \in Scripts : Complete(script)
    /\ UNCHANGED <<analysisVars, compareVars, searchVars, barVars, algorithmVars, boundVars>>

AnalysisStep ==
    /\ open = "analysis"
    /\ on_run_clicked \/ toggle_algorithm \/ FinishRun
    /\ UNCHANGED <<templateVars, compareVars, searchVars, barVars, algorithmVars, boundVars>>

CompareStep ==
    /\ open = "compare"
    /\ RecomputeDue \/ RecomputeNow \/ ApplyDiff
    /\ UNCHANGED <<templateVars, analysisVars, searchVars, barVars, algorithmVars, boundVars>>

SearchStep ==
    /\ open = "search"
    /\ Refresh \/ RunSearch \/ FinishScan
    /\ UNCHANGED <<bufferVars, templateVars, analysisVars, compareVars, barVars, algorithmVars, boundVars>>

FindStep ==
    /\ open = "find"
    /\ BarNext
    /\ changes' = IF UNCHANGED bufferVars THEN changes ELSE changes + 1
    /\ changes' <= MaxChanges[open]
    /\ UNCHANGED <<templateVars, analysisVars, compareVars, searchVars, algorithmVars, open, reloads>>

StringsStep ==
    /\ open = "strings"
    /\ ExtractStep
    /\ UNCHANGED <<bufferVars, templateVars, analysisVars, compareVars, searchVars, barVars,
                   hunks, boundVars>>

RowsStep ==
    /\ open = "rows"
    /\ AddHunk
    /\ UNCHANGED <<bufferVars, templateVars, analysisVars, compareVars, searchVars, barVars,
                   scanVars, boundVars>>

PanelsNext ==
    \/ EditTab \/ SaveTab \/ ReloadTab
    \/ TemplateStep \/ AnalysisStep \/ CompareStep \/ SearchStep \/ FindStep
    \/ StringsStep \/ RowsStep

(* Every background task ends and timers fire; the user owes nothing. *)
PanelsFairness ==
    /\ \A script \in Scripts : WF_templateVars(Complete(script))
    /\ WF_templateVars(RerunDue)
    /\ WF_analysisVars(FinishRun)
    /\ WF_compareVars(RecomputeDue)
    /\ WF_compareVars(ApplyDiff)

PanelsSpec == PanelsInit /\ [][PanelsNext]_panelsVars /\ PanelsFairness

=============================================================================
