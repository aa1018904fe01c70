---------------------------- MODULE FileWatcher ----------------------------
(***************************************************************************)
(* FileWatcher (hxy-panels/src/watch.rs) and the gpui workspace that       *)
(* drains it (gpui/hxy-gpui/src/watch.rs, workspace.rs).                   *)
(*                                                                         *)
(* Four actors: the UI thread (a timer that reconciles the watched paths   *)
(* and drains events, and the user's saves and answers), the kernel's      *)
(* debounced notifications, the poll worker behind its command and event   *)
(* channels, and other programs writing to the disk.  The UI thread        *)
(* touches the file twice when it reloads or saves, once for the bytes and *)
(* once for mark_synced's snapshot; other programs can write in between.   *)
(*                                                                         *)
(* A file is its version number, 0 while it does not exist; a PollSnapshot *)
(* is the version seen.                                                    *)
(***************************************************************************)
EXTENDS Naturals, Sequences, FiniteSets, SequencesExt

CONSTANTS
    Files,        \* canonical paths
    Prefs,        \* the auto_reload_for modes the user can choose
    TogglesPolling, \* the user changes the polling settings
    MaxWrites,    \* bound: changes made to one file
    MaxCommands   \* bound: commands waiting for the worker

Missing == 0

ASSUME WatcherConstants ==
    /\ IsFiniteSet(Files)
    /\ Prefs \subseteq {"Ask", "Always", "Never"} /\ Prefs # {}
    /\ TogglesPolling \in BOOLEAN
    /\ MaxWrites \in Nat /\ MaxCommands \in Nat

VARIABLES
    disk,            \* version on disk
    writes,          \* versions made so far
    raw,             \* kernel events being debounced
    notify_rx,       \* debounced events
    watched,         \* path -> WatchedEntry
    polling,         \* PollingPrefs
    poll_tx,         \* commands on their way to the worker
    worker,          \* the worker: where it is, its interval
    tracked,         \* the worker's path -> last snapshot
    poll_rx,         \* events from the worker
    shown,           \* version each open tab shows
    auto_reload,     \* effective auto-reload mode
    pending_reload,  \* path of the reload prompt, or None
    inbox,           \* events the UI thread has drained and not handled
    ui,              \* the UI thread between its two looks at the disk
    unseen           \* watched files changed by others since the tab last read them

diskSide == <<disk, writes, raw>>
workerSide == <<worker, tracked>>
uiSide == <<auto_reload, pending_reload, inbox, ui>>
watcherVars == <<diskSide, notify_rx, watched, polling, poll_tx, workerSide, poll_rx, shown,
                 uiSide, unseen>>

None == "none"
Idle == [pc |-> "idle"]
Open(f) == f \in DOMAIN shown
Watched(f) == f \in DOMAIN watched
Without(fn, f) == [g \in DOMAIN fn \ {f} |-> fn[g]]
With(fn, f, x) == [g \in DOMAIN fn \cup {f} |-> IF g = f THEN x ELSE fn[g]]
Event(kind, f) == [kind |-> kind, file |-> f]

WatcherInit ==
    /\ disk = [f \in Files |-> 1]
    /\ writes = [f \in Files |-> 1]
    /\ raw = {}
    /\ notify_rx = << >>
    /\ watched = [f \in {} |-> 0]
    /\ polling \in [interval : {TRUE}, poll_all : BOOLEAN]
    /\ poll_tx = << >>
    /\ worker = [pc |-> "commands", interval |-> TRUE]
    /\ tracked = [f \in {} |-> 0]
    /\ poll_rx = << >>
    /\ shown = [f \in {} |-> 0]
    /\ auto_reload \in [Files -> Prefs]
    /\ pending_reload = None
    /\ inbox = << >>
    /\ ui = Idle
    /\ unseen = {}

-----------------------------------------------------------------------------
(* The disk and the kernel. *)

(* The kernel reports on the paths notify accepted. *)
KernelSees(kind, f) ==
    IF Watched(f) /\ watched[f].notify_active THEN raw \cup {Event(kind, f)} ELSE raw

NewVersion(f) ==
    /\ writes[f] < MaxWrites
    /\ writes' = [writes EXCEPT ![f] = @ + 1]
    /\ disk' = [disk EXCEPT ![f] = writes'[f]]
    /\ raw' = KernelSees("Modified", f)

(* The moment between the bytes and the snapshot belongs to nobody. *)
Syncing(f) == ui.pc = "sync" /\ ui.file = f

OutsideWrite(f) ==
    /\ NewVersion(f)
    /\ unseen' = IF Open(f) /\ Watched(f) /\ ~Syncing(f) THEN unseen \cup {f} ELSE unseen
    /\ UNCHANGED <<notify_rx, watched, polling, poll_tx, workerSide, poll_rx, shown, uiSide>>

(* A removal is only announced, there is nothing to read. *)
OutsideRemove(f) ==
    /\ disk[f] # Missing
    /\ writes[f] < MaxWrites
    /\ writes' = [writes EXCEPT ![f] = @ + 1]
    /\ disk' = [disk EXCEPT ![f] = Missing]
    /\ raw' = KernelSees("Removed", f)
    /\ unseen' = unseen \ {f}
    /\ UNCHANGED <<notify_rx, watched, polling, poll_tx, workerSide, poll_rx, shown,
                   uiSide>>

(* The debouncer hands over what it collected for a path. *)
Debounce ==
    \E ev \in raw :
       /\ raw' = raw \ {ev}
       /\ notify_rx' = Append(notify_rx, ev)
       /\ UNCHANGED <<disk, writes, watched, polling, poll_tx, workerSide, poll_rx, shown,
                      uiSide, unseen>>

-----------------------------------------------------------------------------
(* The poll worker. *)

(* One PollCommand on what the worker tracks. *)
Obeyed(known, cmd) ==
    CASE cmd.op = "Watch" -> With(known, cmd.file, cmd.snapshot)
      [] cmd.op = "Unwatch" -> Without(known, cmd.file)
      [] cmd.op = "Reset" /\ cmd.file \in DOMAIN known -> With(known, cmd.file, cmd.snapshot)
      [] OTHER -> known

After(known, commands) ==
    LET after[i \in 0 .. Len(commands)] ==
            IF i = 0 THEN known ELSE Obeyed(after[i - 1], commands[i])
    IN  after[Len(commands)]

LastInterval(commands) ==
    LET sets == SelectSeq(commands, LAMBDA cmd : cmd.op = "SetInterval")
    IN  IF sets = << >> THEN worker.interval ELSE Last(sets).on

(* The worker takes every waiting command; with nothing to poll, or no      *)
(* interval, it blocks until there is one.                                 *)
TakeCommands ==
    /\ worker.pc = "commands"
    /\ poll_tx # << >> \/ (worker.interval /\ DOMAIN tracked # {})
    /\ tracked' = After(tracked, poll_tx)
    /\ worker' = [pc |-> IF LastInterval(poll_tx) /\ DOMAIN tracked' # {}
                         THEN "sleep" ELSE "commands",
                  interval |-> LastInterval(poll_tx)]
    /\ poll_tx' = << >>
    /\ UNCHANGED <<diskSide, notify_rx, watched, polling, poll_rx, shown, uiSide, unseen>>

(* Bug: the snapshots are refreshed before they are compared. *)
ScanRefreshesFirst ==
    /\ worker.pc = "sleep"
    /\ worker' = [worker EXCEPT !.pc = "commands"]
    /\ tracked' = [f \in DOMAIN tracked |-> disk[f]]
    /\ UNCHANGED <<diskSide, notify_rx, watched, polling, poll_tx, poll_rx, shown, uiSide, unseen>>

(* After its sleep the worker compares every path with its last snapshot.   *)
(* Commands that came during the sleep wait.                               *)
Scan ==
    LET drifted == {f \in DOMAIN tracked : tracked[f] # disk[f]}
        event(f) == Event(IF disk[f] = Missing THEN "Removed" ELSE "Modified", f)
    IN  /\ worker.pc = "sleep"
        /\ worker' = [worker EXCEPT !.pc = "commands"]
        /\ poll_rx' = poll_rx \o SetToSeq({event(f) : f \in drifted})
        /\ tracked' = [f \in DOMAIN tracked |-> disk[f]]
        /\ UNCHANGED <<diskSide, notify_rx, watched, polling, poll_tx, shown, uiSide, unseen>>

-----------------------------------------------------------------------------
(* The UI thread: FileWatcher's methods. *)

Command(op, f) == [op |-> op, file |-> f, snapshot |-> disk[f]]

(* FileWatcher::watch of a path; notify takes it or refuses (accepted).    *)
NewEntry(f, accepted) == [notify_active |-> f \in accepted,
                          polled |-> f \notin accepted \/ polling.poll_all]
PolledOf(entries, paths) == {f \in paths : entries[f].polled}

(* Bug: unwatch leaves the worker polling. *)
ReconcileCommandsKeep(stale, fresh, accepted) ==
    SetToSeq({Command("Watch", f) : f \in {g \in fresh : NewEntry(g, accepted).polled}})

(* The commands that unwatch and watch send. *)
ReconcileCommands(stale, fresh, accepted) ==
    SetToSeq({Command("Unwatch", f) : f \in PolledOf(watched, stale)})
    \o SetToSeq({Command("Watch", f) : f \in {g \in fresh : NewEntry(g, accepted).polled}})

(* Bug: kernel events are dropped. *)
DrainPollOnly(entries) ==
    SelectSeq(poll_rx, LAMBDA ev : ev.file \in DOMAIN entries)

(* drain: kernel events first, then the worker's; unwatched paths drop out. *)
drain(entries) ==
    SelectSeq(notify_rx \o poll_rx, LAMBDA ev : ev.file \in DOMAIN entries)

(* poll_file_watch: reconcile the watched paths with the open tabs (Never   *)
(* means not watched), then drain.  Each time a path is watched, notify     *)
(* may accept or refuse it.                                                *)
Tick ==
    LET live == {f \in DOMAIN shown : auto_reload[f] # "Never"}
        stale == DOMAIN watched \ live
        fresh == live \ DOMAIN watched
    IN  \E accepted \in SUBSET fresh :
          LET entries == [f \in live |-> IF Watched(f) THEN watched[f] ELSE NewEntry(f, accepted)]
          IN  /\ ui = Idle /\ inbox = << >>
              /\ stale \cup fresh # {} \/ notify_rx \o poll_rx # << >>
              /\ Len(poll_tx) + Cardinality(stale \cup fresh) <= MaxCommands
              /\ watched' = entries
              /\ poll_tx' = poll_tx \o ReconcileCommands(stale, fresh, accepted)
              /\ inbox' = drain(entries)
              /\ notify_rx' = << >>
              /\ poll_rx' = << >>
              /\ unseen' = unseen \cap live
              /\ UNCHANGED <<diskSide, polling, workerSide, shown, auto_reload, pending_reload, ui>>

(* set_polling, for one entry: only those notify accepted change sides. *)
Repolled(f, prefs) ==
    [watched[f] EXCEPT !.polled = IF watched[f].notify_active THEN prefs.poll_all ELSE @]

set_polling ==
    \E prefs \in [interval : BOOLEAN, poll_all : BOOLEAN] :
       LET accepted == {f \in DOMAIN watched : watched[f].notify_active}
           moved == IF prefs.poll_all = polling.poll_all THEN {}
                    ELSE {f \in accepted : watched[f].polled # prefs.poll_all}
           op == IF prefs.poll_all THEN "Watch" ELSE "Unwatch"
       IN  /\ TogglesPolling
           /\ ui = Idle /\ inbox = << >>
           /\ prefs # polling
           /\ Len(poll_tx) + 1 + Cardinality(moved) <= MaxCommands
           /\ polling' = prefs
           /\ poll_tx' = Append(poll_tx, [op |-> "SetInterval", on |-> prefs.interval])
                         \o SetToSeq({Command(op, f) : f \in moved})
           /\ watched' = [f \in DOMAIN watched |->
                             IF f \in moved THEN Repolled(f, prefs) ELSE watched[f]]
           /\ UNCHANGED <<diskSide, notify_rx, workerSide, poll_rx, shown, uiSide, unseen>>

(* mark_synced: a fresh snapshot for the worker, on polled paths only. *)
mark_synced ==
    LET f == ui.file
    IN  /\ ui.pc = "sync"
        /\ Len(poll_tx) < MaxCommands
        /\ ui' = Idle
        /\ poll_tx' = IF Watched(f) /\ watched[f].polled
                      THEN Append(poll_tx, Command("Reset", f)) ELSE poll_tx
        /\ UNCHANGED <<diskSide, notify_rx, watched, polling, workerSide, poll_rx, shown,
                       auto_reload, pending_reload, inbox, unseen>>

-----------------------------------------------------------------------------
(* The UI thread: events and the user. *)

(* apply_reload when the file can be read; mark_synced follows. *)
Reload(f) ==
    /\ shown' = [shown EXCEPT ![f] = disk[f]]
    /\ unseen' = unseen \ {f}
    /\ ui' = [pc |-> "sync", file |-> f]

(* handle_watch_event / handle_external_change of the next drained event. *)
Handle ==
    LET ev == Head(inbox)
        f == ev.file
    IN  /\ ui = Idle /\ inbox # << >>
        /\ inbox' = Tail(inbox)
        /\ \/ /\ Open(f) /\ ev.kind = "Modified" /\ auto_reload[f] = "Always"
              /\ disk[f] # Missing
              /\ Reload(f)
              /\ UNCHANGED pending_reload
           \/ /\ Open(f) /\ ev.kind = "Modified" /\ auto_reload[f] = "Ask"
              /\ pending_reload' = IF pending_reload = None THEN f ELSE pending_reload
              /\ UNCHANGED <<shown, unseen, ui>>
           \/ /\ \/ ~Open(f) \/ ev.kind = "Removed" \/ auto_reload[f] = "Never"
                 \/ auto_reload[f] = "Always" /\ disk[f] = Missing
              /\ UNCHANGED <<shown, unseen, ui, pending_reload>>
        /\ UNCHANGED <<diskSide, notify_rx, watched, polling, poll_tx, workerSide, poll_rx,
                       auto_reload>>

(* resolve_reload: Reload and Keep read the file, Ignore only syncs; a      *)
(* failed read changes nothing.                                            *)
ResolveReload ==
    LET f == pending_reload
    IN  /\ ui = Idle /\ inbox = << >>
        /\ f # None
        /\ pending_reload' = None
        /\ \/ disk[f] # Missing /\ Reload(f)
           \/ ui' = [pc |-> "sync", file |-> f] /\ unseen' = unseen \ {f} /\ UNCHANGED shown
           \/ disk[f] = Missing /\ UNCHANGED <<ui, shown, unseen>>
        /\ UNCHANGED <<diskSide, notify_rx, watched, polling, poll_tx, workerSide, poll_rx,
                       auto_reload, inbox>>

(* The user acts when no prompt is up and no event is being handled. *)
UserFree == ui = Idle /\ inbox = << >> /\ pending_reload = None

(* open_or_focus: the bytes are read now, the path is watched from the next *)
(* tick on.                                                                *)
OpenFile(f) ==
    /\ UserFree /\ ~Open(f)
    /\ disk[f] # Missing
    /\ shown' = With(shown, f, disk[f])
    /\ UNCHANGED <<diskSide, notify_rx, watched, polling, poll_tx, workerSide, poll_rx, uiSide,
                   unseen>>

CloseFile(f) ==
    /\ UserFree /\ Open(f)
    /\ shown' = Without(shown, f)
    /\ unseen' = unseen \ {f}
    /\ UNCHANGED <<diskSide, notify_rx, watched, polling, poll_tx, workerSide, poll_rx, uiSide>>

(* write_file up to mark_synced. *)
Save(f) ==
    /\ UserFree /\ Open(f)
    /\ NewVersion(f)
    /\ shown' = [shown EXCEPT ![f] = disk'[f]]
    /\ unseen' = unseen \ {f}
    /\ ui' = [pc |-> "sync", file |-> f]
    /\ UNCHANGED <<notify_rx, watched, polling, poll_tx, workerSide, poll_rx, auto_reload,
                   pending_reload, inbox>>

(* set_auto_reload_for *)
SetPref(f) ==
    /\ UserFree
    /\ \E mode \in Prefs \ {auto_reload[f]} :
          /\ auto_reload' = [auto_reload EXCEPT ![f] = mode]
          /\ unseen' = IF mode = "Never" THEN unseen \ {f} ELSE unseen
    /\ UNCHANGED <<diskSide, notify_rx, watched, polling, poll_tx, workerSide, poll_rx, shown,
                   pending_reload, inbox, ui>>

WorkerStep == TakeCommands \/ Scan
UiStep == Tick \/ Handle \/ mark_synced

WatcherNext ==
    \/ Debounce \/ WorkerStep \/ UiStep \/ set_polling \/ ResolveReload
    \/ \E f \in Files :
          \/ OutsideWrite(f) \/ OutsideRemove(f)
          \/ OpenFile(f) \/ CloseFile(f) \/ Save(f) \/ SetPref(f)

(* The timer keeps ticking and its handler runs to the end, the worker      *)
(* thread is scheduled, the debouncer hands over what it has.  The user     *)
(* owes nothing but an answer to a prompt.                                 *)
WatcherFairness ==
    /\ SF_watcherVars(Tick)
    /\ WF_watcherVars(Handle \/ mark_synced)
    /\ WF_watcherVars(WorkerStep)
    /\ WF_watcherVars(Debounce)
    /\ WF_watcherVars(ResolveReload)

WatcherSpec == WatcherInit /\ [][WatcherNext]_watcherVars /\ WatcherFairness

-----------------------------------------------------------------------------
(* Properties. *)

(* The two threads agree on what is polled: once the worker has obeyed the  *)
(* commands under way it polls exactly the entries the UI thread marked     *)
(* polled, whatever the order of opens, closes and changes of the settings *)
(* (watch, unwatch, set_polling, poll_worker).                             *)
PollSetAgrees == DOMAIN After(tracked, poll_tx) = PolledOf(watched, DOMAIN watched)

(* A change by another program to a watched file reaches the tab, unless    *)
(* the user turned polling off: no combination of save, reload and change   *)
(* of settings swallows it.                                                *)
ChangeReachesTab ==
    \A f \in Files : f \in unseen ~> (f \notin unseen \/ ~polling.interval)

(* workspace.rs:2854 says a save tells the watcher, so "the post-save mtime *)
(* bump doesn't boomerang back as a phantom reload prompt".                *)
NoBoomerang == pending_reload # None => shown[pending_reload] # disk[pending_reload]

=============================================================================
