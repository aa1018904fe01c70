---------------------------- MODULE FileSession ----------------------------
(***************************************************************************)
(* Unsaved work across prompts, quits and restarts in the gpui front end   *)
(* (gpui/hxy-gpui/src/workspace.rs) with the sidecar store it uses         *)
(* (hxy-panels/src/files/patch_persist.rs).                                *)
(*                                                                         *)
(* A file's bytes are a content number: every write to the disk, by hxy or *)
(* by another program, makes a new one, and the (size, mtime) pair that    *)
(* integrity() compares changes with it.  Edits are units of work; a tab   *)
(* is dirty when its patch holds some.  Whether a change on disk is seen   *)
(* by the watcher, and when, is left open here: `signal` says that an      *)
(* event may still arrive.                                                 *)
(***************************************************************************)
EXTENDS Naturals, Sequences, FiniteSets, SequencesExt

CONSTANTS
    Files,        \* paths
    Digested,     \* the files are at most DIGEST_MAX_BYTES long
    DefaultMode,  \* AppSettings::auto_reload
    MaxContent,   \* bound: writes to each file
    MaxWork       \* bound: units of work on one file

Modes == {"Ask", "Always", "Never"}
None == "none"

ASSUME SessionConstants ==
    /\ IsFiniteSet(Files)
    /\ None \notin Files
    /\ Digested \in BOOLEAN
    /\ DefaultMode \in Modes
    /\ MaxContent \in [Files -> Nat] /\ MaxWork \in Nat

VARIABLES
    disk,             \* content of each file
    sidecar,          \* the unsaved-edits sidecar of each file, or NoSidecar
    layout,           \* files open when the layout was last saved
    running,          \* the process is up
    tab,              \* the tab of each file, or NoTab
    auto_reload,      \* auto_reload_for
    signal,           \* files with a change event still to come
    pending_reload,   \* the file the reload prompt is about, or None
    pending_restore,  \* the restore prompt, or NoPrompt
    pending_close,    \* the file the save-before-closing prompt is about, or None
    restore_queue,    \* restored tabs whose sidecar is still to be offered
    made,             \* units of work done on each file so far
    owed,             \* units of work the user has neither saved nor given up
    dismissed,        \* files whose restore was dismissed or refused: the sidecar stays
    unanswered        \* files with a sidecar that was opened or quit without an answer

diskSide == <<disk, sidecar, layout>>
prompts == <<pending_reload, pending_restore, pending_close, restore_queue>>
left == <<dismissed, unanswered>>
ledger == <<made, owed, left>>
sessionVars == <<diskSide, running, tab, auto_reload, signal, prompts, ledger>>

NoTab == [open |-> FALSE]
NoSidecar == [stored |-> FALSE]
NoPrompt == [file |-> None]

Open(f) == tab[f].open
Dirty(f) == Open(f) /\ tab[f].work # {}
FreshTab(content) == [open |-> TRUE, base |-> content, work |-> {}, cut_on |-> content]

SessionInit ==
    /\ disk = [f \in Files |-> 1]
    /\ sidecar = [f \in Files |-> NoSidecar]
    /\ layout = {}
    /\ running = FALSE
    /\ tab = [f \in Files |-> NoTab]
    /\ auto_reload = [f \in Files |-> DefaultMode]
    /\ signal = {}
    /\ pending_reload = None
    /\ pending_restore = NoPrompt
    /\ pending_close = None
    /\ restore_queue = << >>
    /\ made = [f \in Files |-> 0]
    /\ owed = [f \in Files |-> {}]
    /\ dismissed = {}
    /\ unanswered = {}

-----------------------------------------------------------------------------
(* Sidecars. *)

(* patch_persist::snapshot of a dirty tab: the base is digested, size and   *)
(* mtime are the ones on disk at that moment.                              *)
Snapshot(f) ==
    [stored |-> TRUE, mtime |-> disk[f], work |-> tab[f].work, base |-> tab[f].base]

(* PatchSidecar::integrity *)
Clean(s, f) == s.mtime = disk[f]

(* maybe_stage_restore, when no prompt is up. *)
Staged(f) == [file |-> f, sidecar |-> sidecar[f], clean |-> Clean(sidecar[f], f)]

(* The first queued tab that still has a sidecar gets the prompt. *)
OfferNext(queue) ==
    LET due == {i \in 1 .. Len(queue) : sidecar'[queue[i]].stored}
        next == Min(due)
        f == queue[next]
    IN  IF due = {}
        THEN pending_restore' = NoPrompt /\ restore_queue' = << >>
        ELSE /\ pending_restore' = [file |-> f, sidecar |-> sidecar'[f],
                                    clean |-> Clean(sidecar'[f], f)]
             /\ restore_queue' = SubSeq(queue, next + 1, Len(queue))

(* Bug: an answered prompt still counts as up when the next one is due. *)
StageNextUncleared(pending, queue) ==
    IF pending_restore # NoPrompt
    THEN UNCHANGED <<pending_restore, restore_queue>>
    ELSE IF pending # NoPrompt
    THEN pending_restore' = pending /\ restore_queue' = queue
    ELSE OfferNext(queue)

(* stage_next_restore *)
StageNext(pending, queue) ==
    IF pending # NoPrompt
    THEN pending_restore' = pending /\ restore_queue' = queue
    ELSE OfferNext(queue)

-----------------------------------------------------------------------------
(* The process. *)

(* Launch: the saved layout's tabs come back, and so does a file named on   *)
(* the command line.  Its sidecar is offered first, then the restored       *)
(* tabs', one after the other.                                             *)
Start ==
    /\ ~running
    /\ running' = TRUE
    /\ UNCHANGED <<diskSide, auto_reload, made, owed, left>>
    /\ signal' = {}
    /\ pending_reload' = None
    /\ pending_close' = None
    /\ \E initial \in {None} \cup (Files \ layout) :
          /\ tab' = [f \in Files |-> IF f \in layout \cup {initial}
                                     THEN FreshTab(disk[f]) ELSE NoTab]
          /\ StageNext(IF initial # None /\ sidecar[initial].stored
                       THEN Staged(initial) ELSE NoPrompt,
                       SetToSeq(layout))

(* How far persist_unsaved_on_quit gets with a tab: "done"; "kept" if it    *)
(* fails before it touches the sidecar, or the process is killed before the *)
(* tab's turn; "torn" if the write in place (patch_persist::store) fails or *)
(* is cut off, which leaves a file that does not load: as good as none.    *)
Outcomes == {"done", "kept", "torn"}

(* Bug: every sidecar is dropped, the dirty tabs' too. *)
persist_unsaved_on_quit_drops_all(f, outcome) == NoSidecar

(* persist_unsaved_on_quit for one tab: a dirty one is stored, a clean one's *)
(* sidecar is discarded; failures are only logged, if that.                *)
persist_unsaved_on_quit(f, outcome) ==
    IF ~Open(f) \/ outcome = "kept" THEN sidecar[f]
    ELSE IF Dirty(f) /\ outcome = "done" THEN Snapshot(f)
    ELSE NoSidecar

OpenTabs == {f \in Files : Open(f)}

Stopped ==
    /\ running' = FALSE
    /\ tab' = [f \in Files |-> NoTab]
    /\ signal' = {}
    /\ pending_reload' = None
    /\ pending_restore' = NoPrompt
    /\ pending_close' = None
    /\ restore_queue' = << >>
    /\ UNCHANGED <<disk, auto_reload, made>>

(* Tabs whose sidecar has been loaded or queued and waits for an answer. *)
Unanswered ==
    ({pending_restore.file} \cup ToSet(restore_queue)) \ {None}

(* Quit, to its end or killed on the way.  Work that was not stored went    *)
(* with the process.                                                       *)
Quit ==
    /\ running
    /\ \E outcome \in [Files -> Outcomes] :
          /\ sidecar' = [f \in Files |-> persist_unsaved_on_quit(f, outcome[f])]
          /\ owed' = [f \in Files |-> IF Dirty(f) /\ outcome[f] # "done"
                                      THEN owed[f] \ tab[f].work ELSE owed[f]]
    /\ unanswered' = unanswered \cup Unanswered
    /\ UNCHANGED <<layout, dismissed>>
    /\ Stopped

(* Killed: nothing runs, the sidecars stay as they are.  Work that was only *)
(* in memory is gone, and nobody promised otherwise.                       *)
Crash ==
    /\ running
    /\ owed' = [f \in Files |->
                  owed[f] \cap IF sidecar[f].stored THEN sidecar[f].work ELSE {}]
    /\ Stopped
    /\ UNCHANGED <<sidecar, layout, left>>

(* schedule_save: the debounced timer writes the layout some time after it  *)
(* changed; a quit or a crash before that leaves the older one.            *)
SaveLayout ==
    /\ running
    /\ layout # OpenTabs
    /\ layout' = OpenTabs
    /\ UNCHANGED <<disk, sidecar, running, tab, auto_reload, signal, prompts, ledger>>

-----------------------------------------------------------------------------
(* The user and other programs. *)

OutsideWrite(f) ==
    /\ disk[f] < MaxContent[f]
    /\ disk' = [disk EXCEPT ![f] = @ + 1]
    /\ signal' = IF Open(f) THEN signal \cup {f} ELSE signal
    /\ UNCHANGED <<sidecar, layout, running, tab, auto_reload, prompts, ledger>>

(* open_path: also reached over IPC and by drag and drop while a prompt is  *)
(* up; then a sidecar is neither offered nor queued.                       *)
OpenFile(f) ==
    /\ running
    /\ ~Open(f)
    /\ tab' = [tab EXCEPT ![f] = FreshTab(disk[f])]
    /\ pending_restore' =
          IF pending_restore = NoPrompt /\ sidecar[f].stored THEN Staged(f) ELSE pending_restore
    /\ unanswered' = IF sidecar[f].stored /\ pending_restore # NoPrompt
                     THEN unanswered \cup {f} ELSE unanswered
    /\ UNCHANGED <<diskSide, running, auto_reload, signal, pending_reload, pending_close,
                   restore_queue, made, owed, dismissed>>

(* A dialog covers the window: the user edits, saves and closes only when   *)
(* none is up.                                                             *)
NoDialog == pending_reload = None /\ pending_restore = NoPrompt /\ pending_close = None

Edit(f) ==
    /\ running /\ Open(f) /\ NoDialog
    /\ made[f] < MaxWork
    /\ made' = [made EXCEPT ![f] = @ + 1]
    /\ owed' = [owed EXCEPT ![f] = @ \cup {made'[f]}]
    /\ tab' = [tab EXCEPT ![f].work = @ \cup {made'[f]}]
    /\ UNCHANGED <<diskSide, running, auto_reload, signal, prompts, left>>

(* write_file when the write succeeds: the tab is re-anchored on the bytes  *)
(* written, the sidecar is discarded, and the rename can come back as a     *)
(* change event.                                                           *)
Written(f) ==
    /\ disk[f] < MaxContent[f]
    /\ disk' = [disk EXCEPT ![f] = @ + 1]
    /\ signal' = signal \cup {f}
    /\ sidecar' = [sidecar EXCEPT ![f] = NoSidecar]
    /\ owed' = [owed EXCEPT ![f] = @ \ tab[f].work]

Save(f) ==
    /\ running /\ Open(f) /\ NoDialog
    /\ Written(f)
    /\ tab' = [tab EXCEPT ![f] = FreshTab(disk'[f])]
    /\ UNCHANGED <<layout, running, auto_reload, prompts, made, left>>

(* request_close_file *)
Close(f) ==
    /\ running /\ Open(f) /\ NoDialog
    /\ IF Dirty(f)
       THEN pending_close' = f /\ UNCHANGED tab
       ELSE tab' = [tab EXCEPT ![f] = NoTab] /\ UNCHANGED pending_close
    /\ UNCHANGED <<diskSide, running, auto_reload, signal, pending_reload, pending_restore,
                   restore_queue, ledger>>

(* resolve_close: Save closes only if the write succeeds. *)
ResolveClose ==
    LET f == pending_close
    IN  /\ running /\ f # None
        /\ pending_close' = None
        /\ \/ /\ Written(f)
              /\ tab' = [tab EXCEPT ![f] = NoTab]
           \/ /\ tab' = [tab EXCEPT ![f] = NoTab]
              /\ owed' = [owed EXCEPT ![f] = @ \ tab[f].work]
              /\ UNCHANGED <<disk, signal, sidecar>>
           \/ UNCHANGED <<tab, owed, disk, signal, sidecar>>
        /\ UNCHANGED <<layout, running, auto_reload, pending_reload, pending_restore,
                       restore_queue, made, left>>

-----------------------------------------------------------------------------
(* A change on disk. *)

(* apply_reload: Discard gives the edits up, Keep puts them on the new base. *)
Reloaded(f, decision) ==
    IF ~Open(f) \/ decision = "Ignore" THEN tab[f]
    ELSE IF decision = "DiscardEdits" THEN FreshTab(disk[f])
    ELSE [tab[f] EXCEPT !.base = disk[f], !.cut_on = disk[f]]

GivenUp(f, decision) ==
    IF Open(f) /\ decision = "DiscardEdits" THEN tab[f].work ELSE {}

(* handle_external_change.  Always has the user's word that edits may go;   *)
(* a reload that cannot read the file changes nothing.                     *)
ExternalChange(f) ==
    /\ running
    /\ f \in signal
    /\ signal' = signal \ {f}
    /\ \/ /\ auto_reload[f] = "Always"
          /\ tab' = [tab EXCEPT ![f] = Reloaded(f, "DiscardEdits")]
          /\ owed' = [owed EXCEPT ![f] = @ \ GivenUp(f, "DiscardEdits")]
          /\ UNCHANGED pending_reload
       \/ /\ auto_reload[f] = "Ask"
          /\ pending_reload' = IF pending_reload = None /\ Open(f) THEN f ELSE pending_reload
          /\ UNCHANGED <<tab, owed>>
       \/ UNCHANGED <<tab, owed, pending_reload>>
    /\ UNCHANGED <<diskSide, running, auto_reload, pending_restore, pending_close,
                   restore_queue, made, left>>

RememberAs(decision) ==
    CASE decision = "DiscardEdits" -> "Always"
      [] decision = "Ignore" -> "Never"
      [] decision = "KeepEdits" -> DefaultMode

(* resolve_reload, with or without "remember"; the re-read can fail. *)
ResolveReload ==
    LET f == pending_reload
    IN  /\ running /\ f # None
        /\ pending_reload' = None
        /\ \E decision \in {"DiscardEdits", "KeepEdits", "Ignore"},
              remember, readable \in BOOLEAN :
              /\ auto_reload' = IF remember THEN [auto_reload EXCEPT ![f] = RememberAs(decision)]
                                ELSE auto_reload
              /\ IF readable
                 THEN /\ tab' = [tab EXCEPT ![f] = Reloaded(f, decision)]
                      /\ owed' = [owed EXCEPT ![f] = @ \ GivenUp(f, decision)]
                 ELSE UNCHANGED <<tab, owed>>
        /\ UNCHANGED <<diskSide, running, signal, pending_restore, pending_close,
                       restore_queue, made, left>>

-----------------------------------------------------------------------------
(* The restore prompt. *)

(* The bytes of the pane, as read_pane_bytes sees them: the base if clean. *)
PaneShows(f, content) == tab[f].base = content /\ tab[f].work = {}

(* Bug: a Clean sidecar is applied without looking at the bytes. *)
MayRestoreUnverified(p) == TRUE

(* A Clean sidecar is verified against the pane's bytes, any other one is   *)
(* applied on the user's word.                                             *)
MayRestore(p) ==
    p.clean => IF Digested THEN PaneShows(p.file, p.sidecar.base) ELSE TRUE

(* resolve_restore(Restore): patch and stacks replace the editor's own.     *)
Restore ==
    LET p == pending_restore
        f == p.file
    IN  /\ running /\ p # NoPrompt
        /\ IF MayRestore(p)
           THEN /\ tab' = IF Open(f)
                          THEN [tab EXCEPT ![f].work = p.sidecar.work,
                                           ![f].cut_on = IF p.clean THEN p.sidecar.base ELSE tab[f].base]
                          ELSE tab
                /\ sidecar' = [sidecar EXCEPT ![f] = NoSidecar]
                /\ owed' = [owed EXCEPT ![f] = IF Open(f) THEN @ ELSE @ \ p.sidecar.work]
                /\ UNCHANGED dismissed
           ELSE /\ dismissed' = dismissed \cup {f}
                /\ UNCHANGED <<tab, sidecar, owed>>
        /\ StageNext(NoPrompt, restore_queue)
        /\ UNCHANGED <<disk, layout, running, auto_reload, signal, pending_reload,
                       pending_close, made, unanswered>>

(* resolve_restore(Discard) *)
DiscardSidecar ==
    LET p == pending_restore
        f == p.file
    IN  /\ running /\ p # NoPrompt
        /\ sidecar' = [sidecar EXCEPT ![f] = NoSidecar]
        /\ owed' = [owed EXCEPT ![f] = @ \ (p.sidecar.work \ IF Open(f) THEN tab[f].work ELSE {})]
        /\ StageNext(NoPrompt, restore_queue)
        /\ UNCHANGED <<disk, layout, running, tab, auto_reload, signal, pending_reload,
                       pending_close, made, left>>

(* dismiss_restore: the prompt goes, the sidecar stays. *)
DismissRestore ==
    /\ running /\ pending_restore # NoPrompt
    /\ UNCHANGED sidecar
    /\ StageNext(NoPrompt, restore_queue)
    /\ dismissed' = dismissed \cup {pending_restore.file}
    /\ UNCHANGED <<disk, layout, running, tab, auto_reload, signal, pending_reload,
                   pending_close, made, owed, unanswered>>

-----------------------------------------------------------------------------
SessionNext ==
    \/ Start \/ Quit \/ Crash \/ SaveLayout
    \/ \E f \in Files :
          \/ OutsideWrite(f) \/ OpenFile(f) \/ Edit(f) \/ Save(f) \/ Close(f)
          \/ ExternalChange(f)
    \/ ResolveClose \/ ResolveReload
    \/ Restore \/ DiscardSidecar \/ DismissRestore

(* The user answers a restore prompt that is on screen. *)
SessionFairness == WF_sessionVars(Restore \/ DiscardSidecar \/ DismissRestore)

SessionSpec == SessionInit /\ [][SessionNext]_sessionVars /\ SessionFairness

-----------------------------------------------------------------------------
(* Properties. *)

InSidecar(f) == IF sidecar[f].stored THEN sidecar[f].work ELSE {}
InTab(f) == IF Open(f) THEN tab[f].work ELSE {}
Held(f) == owed[f] \subseteq InTab(f) \cup InSidecar(f)

(* Work the user has neither saved nor given up is in the tab or in the    *)
(* file's sidecar, across any number of quits, crashes, restarts, reloads  *)
(* and restores, unless a restore prompt for that file once went           *)
(* unanswered (persist_unsaved_on_quit, resolve_restore, write_file).      *)
WorkIsHeld == \A f \in Files : Held(f) \/ f \in dismissed \cup unanswered

(* workspace.rs:4820 says dismissing the restore prompt "leaves the sidecar *)
(* on disk, so the next open re-offers it", and 3047-3049 the same of a     *)
(* sidecar whose base no longer matches ("keep it so the edits stay         *)
(* recoverable").                                                          *)
DismissedWorkIsHeld == \A f \in dismissed \ unanswered : Held(f)

(* Restored edits sit on the bytes they were made on, however the file was  *)
(* changed, reloaded or saved before the answer (resolve_restore).         *)
RestoredOnItsBase == \A f \in Files : Open(f) => tab[f].cut_on = tab[f].base

(* Every restored tab's sidecar gets its turn in the one restore prompt, as *)
(* long as the process lives and the sidecar does (stage_next_restore).    *)
EverySidecarIsOffered ==
    \A f \in Files :
        f \in ToSet(restore_queue) /\ sidecar[f].stored
            ~> pending_restore.file = f \/ ~sidecar[f].stored \/ ~running

=============================================================================
