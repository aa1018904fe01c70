# hxy in TLA+

TLA+ models of the parts of hxy that decide over the user's bytes and the
user's decisions: the editor, its undo history and what keys do to it; the
byte cache; streamed VFS entries and their write-back; sidecars and prompts
around a file tab; snapshots; the file watcher; single instance and forwarded
opens; find and replace, template runs, analysis panels, compare and global
search; the consent given to plugins. TLC checks the models on small
instances. TLAPS proves, for every value of the constants, that the editor
implements a plain undo buffer, whatever keys and clicks drive it, and most of
the safety properties of the editor, its input, the caches, the stream, the
session, the launches, the watcher, the search, the template runs, the strings,
the compare view, the consent and the snapshots (section 5).

`PROJECT.json` lists the components, the runs, the theorems, the hazards and,
for every definition that models code, the lines it stands for.

## 1. Inventory

| Component | State it keeps | Operations | Talks to | What is hard, what makes it correct |
|---|---|---|---|---|
| Edit state (`hxy-editor/src/editor.rs`, `lib.rs`) | base source, patch over it, undo and redo stacks, hand-kept counter of length-changing entries, typing flags | request_write, splice, insert_at, splice_many, undo, redo, revert, swap_base, restore of stacks | session, search, input, streaming source | coalescing in three cases, a fast path that skips the rebuild, a cap on the stack: the bytes shown are the edits asked for, undo walks back through contents the user had |
| Editor input (`hxy-editor/src/dispatch.rs`, `input.rs`, `vim.rs`; `hxy-view-gpui/src/pane.rs`) | selection, active pane, nibble pointer, last caret seen, vim mode, count, pending key, register, drag anchor | keys in two input modes, clicks, drags, jumps, paste, toggles | edit state, host | state of several keys kept in several places: digits meet in one byte, the caret stays inside, a delete is in the register |
| Byte cache (`hxy-core/src/cache.rs`) | LRU of chunks, used_bytes, per-view buckets, limit | read_with, fetch_chunk, set_limit, drop_source, refetch_with, invalidate_range | every reader thread, streaming source | the lock is released during the read: books balance, the budget holds, stale bytes do not come back |
| Streaming source and driver (`cache.rs`, gpui `panels/file.rs`) | demand queue, cache, refresh flag, overlay | paint, fetch, live refresh, save_vfs_entry | the mount of a plugin, the editor | half-failed saves, fetches in flight across a save: no edit is lost, what is on screen loads |
| File session (gpui `workspace.rs`, `watch.rs`, `patches.rs`, `patch_persist.rs`) | tabs, sidecars, saved layout, four prompts and a queue | open, edit, save, close, quit, reload, restore, discard, dismiss | disk, watcher, editor | quits and crashes between any two steps, prompts answered late: unsaved work is in the tab or in the sidecar |
| File watcher (`hxy-panels/src/watch.rs`, workspace) | watched paths, worker's snapshots, two channels, settings | watch, unwatch, set_polling, drain, mark_synced, poll worker | kernel, worker thread, session | three threads and the disk: both sides agree on what is polled, a change gets through |
| Single instance (`hxy-ipc/src/socket.rs`, gpui `main.rs`) | socket, listener thread, channels | probe, send, bind, accept, read, poll, Open With | other processes, workspace | launches that race, take over or die at any step, a window that closes first: a file list is opened once |
| Find and replace (`hxy-panels/src/search.rs`, gpui `search_bar.rs`, `global_search.rs`) | query, matches, active match, scope, dialogs, serial | find, replace, replace all, global scan | edit state, background scan | results of an older content or query, chunk borders |
| Template runs (gpui `panels/file.rs`, `templates.rs`) | finished instances, running handles, rerun flag, debounce | run, rerun, complete, remove | editor, worker | an edit during a run: no instance is lost or doubled, results catch up |
| Analysis panels (gpui `strings.rs`, `checksums.rs`, `entropy.rs`) | range, algorithms, running and pending flags, result | bind, run, tick, finish, reload | editor, worker | a request during a run is answered by a later one |
| Compare (gpui `compare.rs`, `hxy-panels/src/diff.rs`) | diff shown, fingerprint, running diff, debounce | recompute, apply | two editors, worker | edits during a diff, rows that drift apart by rounding |
| Plugin host (`hxy-plugin-host`, gpui `plugins.rs`) | grants in a database and in memory, handlers, operations under way | consent, load, install, delete, uninstall, invoke | settings, front ends, WASM | sidecars swapped behind its back, two front ends: only approved powers |
| Snapshots (`hxy-panels/src/files/snapshot.rs`) | list and counter in memory, bytes and index on disk | capture, delete, rename, restore | disk, tabs | writes that fail between two others: a listed snapshot gives back what was captured |
| Template languages, calculator, inspector, go to | none between calls | pure algorithms | | large languages, or well tested |
| VFS registry, settings database, views, dock, palette, translations | layout and tables | | | drawing, I/O and lookups |

There are two front ends. The gpui one (`src/gpui/`) is modelled; of the egui
one (`src/crates/hxy/`) the cache that all its tabs share, which the gpui front
end does not have, its plugin consent and its snapshot tabs.

## 2. Modules

| Module | Models | State and actions |
|---|---|---|
| `Bytes` | slicing and splicing of byte vectors | operators only |
| `Suture` | the external `suture` patch as the editor uses it, and `PatchedSource::read` (`View`) | a patch is an in-place overlay (`over`) plus at most one length-changing splice (`at`, `del`, `ins`), which is all the editor ever builds |
| `EditState` | `editor.rs` | variables are the struct's fields; one action per method, same names. `record_entry` has the three coalescing cases as operators of their own. Time is one bit, `last_edit_at`: an earlier edit exists; whether the typing run is still fresh is chosen in the step |
| `UndoBuffer` | nothing: the abstract specification | a buffer, its past and its future contents |
| `EditHistory` | the callers of the editor: Replace All, save, reload, restore | each action is an `EditState` action and the matching `UndoBuffer` step; `EditorIsUndoBuffer` is the refinement |
| `KeepEdits` | the reload that keeps the edits | `swap_source_keep_patch`, and in `kept` the promise it makes |
| `VimMotions` | where `vim.rs`'s motions, lines, finds and text objects land | operators; the loops of the code as extrema of sets, or as walks where nesting is counted |
| `VimTexts` | the contents that words and bracket objects are tried on | one content to a behaviour, which has no steps; the run gives all short ones, the proofs leave `Texts` open |
| `EditorInput` | dispatch, typing, vim modes, mouse and host over `EditHistory` | one action per kind of key or host operation. Every edit is an `EditState` action with its `UndoBuffer` step |
| `ByteCache` | the critical sections of `CacheInner` | operators from cache to cache; the `lru` crate's get, put and resize are external and include its own silent eviction |
| `SharedCache` | threads reading through one cache, reload, close, change of the limit | a reader holds its handle (a version) over lock, read, lock |
| `VfsStream` | `StreamingSource`, `attach_vfs_stream`, `save_vfs_entry` | UI thread, driver and mount; uses `ByteCache` for the cache |
| `FileSession` | tabs, sidecars and prompts over several process lives | work is a set of numbered units; `owed` is what the user neither saved nor gave up |
| `FileWatcher` | watcher, poll worker, channels, and the workspace that drains them | a file is its version; the UI thread looks at the disk twice when it reloads or saves |
| `SingleInstance` | launches and their sockets | a process goes through probe, send, bind, window; its listener thread and its poll loop are actions of their own; a window may close before its process goes (`CloseWindow`, then `EndListener`); `lost` is what went with a process or a window |
| `TemplateRuns`, `AnalysisPanel`, `Compare`, `GlobalSearch`, `SearchBar` | the panels of a tab | the fields that their protocols read; a background task is a start and an end. `AnalysisPanel` is any of three panels (`panel.kind`), and only the checksums one has algorithms to untick |
| `ByteSearch`, `StringScan`, `RowMaps` | the chunked matcher, the string scanner, the aligned rows | algorithms, with a definition without chunks beside each |
| `Panels` | a tab's bytes with one of the panels beside it | composes the above: an edit, save or reload of the tab reaches the panel as the code tells it |
| `PluginConsent` | grants, manifests, loader, consent switches, operations that keep their handler | front ends with their maps in memory, one database, one directory; `approved` and `settled` record what the user decided |
| `Snapshots` | stores, indices and tabs | capture is one step with the outcomes its writes can have, torn and failed ones included |
| `MC*` | constants for TLC; `MCStores`, `MCAppLife`, `MCEditHistory` put parts that share no state, or two ways to drive one, into one run | `focus` says whose steps a behaviour takes |
| `EditHistoryProofs`, `EditorInputProofs`, `ByteCacheLemmas`, `StoresProofs`, `VfsStreamProofs`, `AppLifeProofs`, `FileWatcherProofs`, `PanelsProofs` | proofs | see section 5 |

`FileSession` and `FileWatcher` share no state: the session takes an event as
something that may arrive at any time after a change, and the watcher says
when it does.

Definitions whose comment begins with "Bug:" are not part of any
specification. Each is a plausible slip in the code next to it; put in the
place of the definition below it, it makes TLC find the property violated
that `PROJECT.json` names under "mutants".

### Abstractions

* `EditState`: a source is a sequence of bytes. `MaxLen` and `MaxRevision`
  bound TLC's runs. The proofs hold for every value of them.
* `EditorInput`: one key to a batch, as the gpui pane feeds them. A byte has
  two digits of base `NibbleBase`, 16 in the code. Characters are told apart by
  what the motions ask (letter, space, newline, bracket, quote). What goes to
  the clipboard, scrolling, and jumps from panels' lists are left out.
  `stuck` means that the UI thread is in a loop it does not leave.
* `ByteCache`: a chunk's bytes are the version they were read at. Hit and miss
  counters are left out. `LRU_SLACK` is the number of spare entries (16 in the
  code), `Limits` the budgets `set_limit` can choose.
* `VfsStream`: one edit per chunk, numbered. A save is three kinds of steps,
  as in the code: collect the ops, write one range after the other, invalidate.
* `FileSession`: size and mtime are the content's number; two contents are
  never taken for each other. A change event arrives at any later time or not
  at all. `Digested` says whether the file is below `DIGEST_MAX_BYTES`.
* `FileWatcher`: a snapshot is the version seen, so two writes within one
  mtime tick are told apart, which real file systems do not always do.
  The debouncer delivers at any time after the event.
* `SingleInstance`: a file list is a token that names its sender. Messages
  above the size limit are not modelled (section 4). A closed window drops its
  receivers at once; the code's poll loop finds out at its next tick.
* `Panels`: bytes are short sequences over two values; what a template, a
  digest or a diff computes is the bytes it read.
* `PluginConsent`: a manifest is its version and the permissions it asks for.
* `Snapshots`: a name and a time are left out; a content is small enough to be
  cached or not. A torn file is told apart from a whole one by its index entry.

## 3. Runs

States are distinct states, times with two workers.

| Run | Bounds | Shows |
|---|---|---|
| `edit_history` | session: two-byte base, payloads of 0 to 1 byte, 4 revisions per session and any number of sessions, stacks of 2 entries. Keys: the same file, 5 inputs, two hex digits, counts up to 2, rows of 2 bytes, both modes and every caret. Text: every content of up to 5 bytes of four kinds, and of up to 6 without newlines. 445 186 states, 1 min | `TypeOK`, `ViewIsPresent`, `UndoWalksPast`, `RedoWalksFuture`, `OldBytesAreTruthful`, the refinement `EditorIsUndoBuffer`; `CaretStaysInside`, `DigitsMeet`, `DeletedIsKept`; `WordsOfText`, `BracketsOfText`. Enough for an edit, a second that coalesces with it or not, undo and redo on either side, and a restore in between; for enter, type, leave, move and delete; for three nested brackets |
| `keep_edits` | two bases, 4 revisions | **violated**: `KeptEditsStay` |
| `find_char` | as `edit_history` | **violated**: `FindStaysInLine` |
| `stores` | cache: 2 threads, 2 files of 2 chunks in 2 versions, budgets of 1 and 2 chunks. Consent: 2 front ends, 3 sidecars in 2 versions, 2 permissions, 2 switches. Snapshots: 2 tabs, an archive and an entry, 2 contents, ids up to 2. 1 618 009 states, 1 min 15 s | `AccountsBalance`, `WithinBudget`, `StaleOnlyAfterOverlap`; `PowersWereApproved`, `DecisionsHold`; `SnapshotsReturn`. The cache is smaller than what is read, so eviction, double misses and drops all meet; two versions with different wishes are enough for a decision to be inherited or not; two ids for one to be handed out again |
| `snapshot_entries` | as `stores` | **violated**: `EntriesKeepTheirOwn` |
| `vfs_stream` | 2 chunks, the last one short, budgets of 1 and 2 chunks, one change of the mount per chunk; 224 290 states, 1 min 30 s | `NoEditLost`, `StreamBooks`, `OldBytesOnlyInHand`, the action property `NoFlicker`, and `ViewportLoads` (liveness) |
| `vfs_save` | one viewport, 2 changes | **violated**: `SavedBytesShown` |
| `app_life` | session: 2 files, one of which other programs change, 2 contents, 1 unit of work each, any number of sessions. Launches: 3 processes, each with files or bare, two of which may be told to open another file. 259 496 states, 50 s | `WorkIsHeld`, `RestoredOnItsBase`, `EverySidecarIsOffered` (liveness); `NothingMislaid`, `ForwardedIsOpened` (liveness). Two files compete for one prompt; of three launches one serves, one races it and one takes over. A quit stores each sidecar, fails to, or is killed before its turn or in the middle of it |
| `restore_dismissed` | 1 file | **violated**: `DismissedWorkIsHeld` |
| `watch` | 1 path that the kernel accepts or refuses each time, polling toggled, all preferences, 3 writes; 488 620 states, 45 s | `PollSetAgrees`, `ChangeReachesTab` (liveness) |
| `watch_save` | 1 path | **violated**: `NoBoomerang` |
| `panels` | contents of up to 2 bytes (scan: 5), two changes (find: one) and one reload, 2 scripts, 3 requests, chunk sizes 1 to 3, least lengths 1 and 2, hunks of up to 4 bytes in rows of any alignment; 225 422 states, 1 min | `InstancesKept`, `TemplatesCatchUp`, `EveryRequestServed`, `DiffCatchesUp`, `MatchesAreOfQuery`, `ListIsOfQuery`, `ReplaceAllIsExact`, `ResizeIsAgreed`; `FindIsExact`, `StringsAreExact`, `DriftIsRounding` |

What the less obvious properties say:

* `UndoWalksPast`, `RedoWalksFuture`: replaying the stacks gives exactly the
  contents the abstract buffer remembers, entry by entry. A wrong merge of two
  entries can leave the bytes right and the undo wrong; these see it.
* `DigitsMeet`: the second hex digit lands in the byte where the last key left
  the nibble pointer low, whatever the mouse and the host did in between.
* `CaretStaysInside` is about steps: after a reload of a shorter file the caret
  is outside, and no later key is blamed for it.
* `StaleOnlyAfterOverlap`: the cache holds a version other than the file's own
  only if a reader had begun before a drop. The comment in `desktop.rs`
  promises it without the "only if" (section 4).
* `OldBytesOnlyInHand` is the promise a VFS save keeps, `SavedBytesShown` the
  one the comment beside it makes.
* `WorkIsHeld` leaves out files whose restore prompt was dismissed, refused or
  never answered. Those are lost, which is what `restore_dismissed` shows. It also
  leaves out a file whose sidecar the quit could not store (section 6).
* `ChangeReachesTab`: a change another program makes to a watched file ends in
  a reload, in a prompt that the user answers, or in the user's "never".
* `NothingMislaid`: a file list that was asked for and not opened is with some
  live process, on a wire to one, or went with a process that died or a window
  that closed.
* `EveryRequestServed`: a request with something to compute is answered by a run
  started for it or for a later one, unless all algorithms were unticked by its
  turn (section 4).
* `DriftIsRounding`: where every change is a whole number of rows, equal bytes
  face each other; each change that is not may shift them by one row, no more.
* `DiffCatchesUp` speaks of edits that move the fingerprint; section 4 names
  the others.
* `PowersWereApproved`: approved at some time, for the permissions the manifest
  asks for now. `DecisionsHold`: a decision by the only front end running
  decides every later handler of that version.
* `SnapshotsReturn` is about directories that one store at a time has used and
  whose index was never passed over as unreadable (the ghosts `crowded` and
  `misread`).

Deadlock is checked for `FileWatcher`. In the editor the revision bound or the
number of inputs stops the run; in the caches the last version, or the last
change of the mount, does; panels come to rest when the changes are used up;
snapshots, consent and launches when the ids, switches and processes are. Those
runs say `CHECK_DEADLOCK FALSE`.

### Fairness

* `VfsStream`. Strong for `Paint` and `Tick`: both wait their turn in the UI
  thread's event queue, which is served in order, and can be disabled for a
  while by a save. Weak for the rest of a save and for the driver's task,
  which the executor runs to its end. Strong for `ReadChunk`: a read of the
  mount that is retried for ever succeeds some time. Nothing is assumed of the
  user or of the mount's changes.
* `FileSession`. Weak for an answer to a restore prompt on screen. Any of the
  three answers will do.
* `SingleInstance`. Weak for the start-up of a process, its listener thread and
  its poll loop: threads the operating system schedules. Processes may die at
  any step, and nothing makes one start.
* `FileWatcher`. Strong for the 500 ms timer's `Tick`, which the user's
  actions and a handler under way disable for a moment; weak for the handler,
  the worker thread, the debouncer, and the user's answer to a reload prompt.
  Nothing forces a save, an open, or a change of settings.
* `Panels`. Weak for the end of each background task (`Complete`, `FinishRun`,
  `ApplyDiff`) and for the debounce timers (`RerunDue`, `RecomputeDue`), which
  the executor runs. The user owes nothing.

## 4. Where code and text disagree

Six runs check what a comment in the source says and are violated by what the
code does. `PROJECT.json` quotes the lines under "findings".

1. `keep_edits`: edits kept over a reload vanish with the next edit that
   rebuilds the patch.
2. `vfs_save`: a fetch in flight over a save puts old bytes back.
3. `restore_dismissed`: dismiss, then quit, deletes the sidecar.
4. `watch_save`: a save raises a reload prompt for its own bytes.
5. `snapshot_entries`: the entries of one archive share a snapshot directory.
6. `find_char`: `F` or `T` on the first byte of a line leaves the line, or, where
   nothing matches, counts below zero.

Further texts that the models, or the code they were made from, do not bear
out; none has a run of its own.

Editor and caches:

* `editor.rs:102`, the patch is "*derived state*": without the guard
  `BelowCap`, an entry beyond `UNDO_HISTORY_CAP` leaves the stack while its
  bytes stay in the patch, and the next rebuild takes them away.
* `editor.rs:124`, `non_lp_entries` is the "Number of entries in `undo_stack`
  that aren't length-preserving": `NonLpCount` is false of `SessionSpec`, since
  `set_undo_stack` leaves the counter at 0. The bytes come out right all the
  same (`edit_history`, `SessionViewIsPresent`).
* `desktop.rs:890-892`, "a fresh read population must not return stale bytes":
  `StaleOnlyAfterOverlap` without `overlapped` is false; a background read from
  before the drop fills the cache after it.
* `cache.rs:191`, the attribution is there "to debit the right bucket on
  eviction": with four files of one byte and `LRU_SLACK = 1`, `AccountsBalance`
  is false; the LRU evicts by entries without telling the books.

Input:

* `vim.rs`, `StartFindChar` arms the filter for "the next typed character": the
  filter is fed the text of the same keystroke, so `f` looks for the letter f,
  and `vi` and `va` never wait for their object. A keystroke without text does
  wait.
* `lib.rs`, a low-nibble press past the end "shouldn't reach here": the right
  arrow at the end leaves the pointer low, and the next digit is dropped.
* `editor.rs:35-40`, in Insert "every keystroke splices a new byte": an arrow
  to the low half makes the next digit overwrite one.
* A caret on a newline counts the next line as its own (`find_line_end`).
* A selection extended onto the slot past the end, or a drag whose anchor
  deleted bytes left there, makes `d` and `y` do nothing. `p` in a read-only
  editor moves the caret. While a character is awaited, keys with a modifier
  are swallowed.
* After a reload of a shorter file the caret is past the end and typing is
  refused; jumps from a template field, a string, a match or a hunk of an older
  content put it there too (`CaretStaysInside` is about the other ways).
* The egui front end batches the keys of a frame with the length and the mode
  from before the first: `d d G` in one frame leaves the caret past the end,
  `v i` enters Insert.

Sessions, watching, launching:

* `workspace.rs:3030`, the digest "checks the on-disk file is unchanged": with
  `Digested = FALSE`, a file above `DIGEST_MAX_BYTES`, `RestoredOnItsBase` is
  false.
* `watch.rs:456-459`, a real edit "doesn't go unnoticed": a change between
  reading the bytes and `mark_synced`'s snapshot is in the snapshot and not in
  the tab. `ChangeReachesTab` does not count a change in that window
  (`Syncing`).
* `socket.rs:118-121`: a bare launch never probes (`main.rs:69`), so it takes
  over the socket of a live instance, as does the later of two launches that
  race. A message above `MAX_MESSAGE_BYTES` is written, rejected and lost while
  its sender exits.
* `write_file` writes over a change by another program without asking; Save As
  onto the path of an open tab leaves two tabs with one path; a restored
  sidecar is deleted at once, so a crash before the next quit loses its edits;
  a file opened while a restore prompt is up has its sidecar neither offered
  nor queued; while a reload prompt is up the event of another file is dropped.
* A base that cannot be read counts as empty in the rebuild (`editor.rs:531`);
  an undo after a VFS save that failed half way would show bytes the mount no
  longer has.

Search and panels:

* `search.rs`, find_prev gives "the largest match offset < from": a match that
  overlaps `from` is skipped.
* `diff.rs:234-236`: the fingerprint does not move for an edit that joins the
  last undo unit without changing the length, nor for an undo and another edit;
  the diff then stays as it was.
* `checksums.rs:102-103`, a pending run is kept "so a reload-triggered recompute
  is never swallowed": `run` looks at the algorithms first (216-218), so with all
  of them unticked during a run the reload's request, or the queued run, is
  dropped. `EveryRequestServed` lets go of such requests and of no others: those
  made with nothing ticked are not counted, those whose turn comes with nothing
  ticked are in `dropped`.
* The aligned rows: bytes of an equal hunk that share a row with the change before
  them are shown above the gaps of that change, so they may be off by more than
  rounding; `DriftIsRounding` speaks of the rows that begin in the hunk.
* `StringEntry.end` is one past the run only if the run does not end in a
  truncated character; `truncated` is set when exactly `MAX_RESULTS` are found.
* `goto.rs` describes "+100, 200" from the caret on; the code anchors on the end.
* Replace overwrites whatever is selected if it has the pattern's length; the
  match list outlives edits; Replace All confirmed after a reload writes at the
  old offsets, and with overlapping matches does nothing.
* A template's colour overrides are lost after a failed run; a full-file rerun
  keeps its old range; Enter during a global scan is dropped; checksums and
  strings keep their result after a reload that shortens the file.

Consent and snapshots:

* `grants.rs:7-8` and `24-26` say a swapped binary prompts again; the key of a
  record has no hash in it. `forget` (186-188) does not forget while another
  version has a record; a permission revoked for one version comes back for the
  next through an older one's record.
* Two front ends write whole maps, so one undoes the other's decision; a failed
  read of the grants followed by a save loses all; a delete in gpui removes the
  `.wasm` only; a switch on a build that does not ask for a permission drops
  that version's earlier approval of it; open mounts and retries keep the
  handler they began with.
* `file.rs:120-121`, snapshots are restored so that they survive: gpui's dialog
  shows none after a restart until the first capture. Save As keeps the store
  of the old path. Without a data directory all tabs share one set of files. An
  index that cannot be read for a moment counts as none; a torn one loses the
  list.

## 5. Proofs

### The editor (`EditHistoryProofs`)

Assumptions: `EditConstants` (`EditState`: sources and payloads are byte
sequences, the cap is positive, the bounds are naturals) and
`MaxRemoveAssumption`. TLC evaluates both in the edit runs.

| Theorem | Statement |
|---|---|
| `SessionInv` | `SessionSpec => []IInv` |
| `SessionTypes` | `SessionSpec => []TypeOK` |
| `SessionViewIsPresent` | `SessionSpec => []ViewIsPresent` |
| `SessionUndoWalksPast`, `SessionRedoWalksFuture` | the undo and redo stacks hold the abstract past and future |
| `SessionOldBytes` | `SessionSpec => []OldBytesAreTruthful` |
| `EditorImplementsBuffer` | `SessionSpec => EditorIsUndoBuffer`: the refinement, with contents read off the patch and the stacks |
| `HistoryIsSession` | `HistorySpec => SessionSpec`: the above holds without restores too |
| `HistoryNonLpCount` | `HistorySpec => []NonLpCount`, which a restore breaks |

Why an inductive invariant is needed: `ViewIsPresent` says nothing of the
stacks, but the next undo replays them. `IInv` adds

* `UndoChain`: entry k applies to `past[k]` (its old bytes are the ones there)
  and yields `past[k+1]`, the last one the present. It implies
  `UndoWalksPast` and `OldBytesAreTruthful`, and is stronger than both, since
  it links neighbouring contents and can be extended or cut at the end;
* `RedoChain`: the same towards the future;
* `PatchShows`: the patch is well formed over the base (an overlay inside the
  base, or one splice that ends inside it) and shows the present;
* `AllNonTrivial`: no entry removes nothing and inserts nothing, without which
  two coalescing cases could not be told apart;
* the types, and `saved = base_source`.

`NonLpCount` is not in `IInv` because a restore breaks it. The fast path is
nevertheless right after a restore: every patch the editor builds has its one
length-changing splice behind all overwrites, so in front of it base and view
coordinates agree, and `Patch::write` refuses a write that reaches it, upon
which the editor rebuilds. The counter is proved separately for `HistorySpec`.

For the refinement, `InvAgree` shows that in a state of `IInv` the contents
replayed from the stacks are the ones the abstract buffer was told; each step
then maps to the buffer's step of the same name or to a stutter.

The first half of the module has what the operators do: `Splice` and `Slice` by position, when
two splices compose into one, each coalescing case as "the merged entry applies
where the first applied and yields what the second yielded", the patch write in
place, the replay of a chained stack, and the diff of two contents as a patch
that shows the second.

Two limits. `BelowCap`: beyond the cap the invariant is false (section 4), so
the specification records no edit on a full stack. A batch has two matches;
what more of them do is an induction over the batch.

### Input (`EditorInputProofs`)

Assumptions: those of the editor, `InputConstants` (a byte has two digits of
base `NibbleBase`, counts and offsets are naturals), `VimConstants` (the two
brackets of a pair differ) and `TextsAssumption` (a content is a sequence of
bytes). The first four theorems are about `InputSpec`: keys in both input
modes, clicks, drags, and what the host does (jump, paste, undo, replace, save,
reload) in any order. The last two are about `TextSpec`: any content of any
length.

| Theorem | Statement |
|---|---|
| `InputIsConsistent` | `InputSpec => []InputInv` |
| `CaretAlwaysInside` | `InputSpec => CaretStaysInside`, an action property |
| `DigitsAlwaysMeet` | `InputSpec => DigitsMeet`, an action property |
| `DeletedAlwaysKept` | `InputSpec => DeletedIsKept`, an action property |
| `WordsAlwaysExact` | `TextSpec => []WordsOfText` |
| `BracketsAlwaysExact` | `TextSpec => []BracketsOfText` |

`InputInv` is `IInv` of the editor (an edit by a key is an `EditState` action
with its `UndoBuffer` step, so every theorem on the editor holds under keys
too), the types of what one key leaves to the next (`KeysTyped`), and
`NibbleFollows`: when the nibble pointer is low, the byte it is low on is the
one the caret was last seen at.

* The caret: `Lands` says of each step but a reload that a caret inside ends
  inside. Every motion, find and text object lands at most at the last byte, or
  at the end for an append (`Reach`), for every count; the edits clamp to the
  length after them. The loops over counts are functions on `0 .. n`.
* Digits: a digit that keeps the high half of the byte it changes was typed
  with the pointer low and the caret not moved since, and `NibbleFollows` says
  where that was.
* Deletes: what a vim command takes out is one slice (`CutIs`), the register
  takes that slice before the cut, and putting it back at the offset of the cut
  gives the old bytes (`PutBack`), for every count, in rows and in text.
* Words: what is skipped in front of a word lies in one class of bytes, so no
  edge is in it, and where the skip stops is one.
* Brackets: the depth of an offset is the opens less the closes in front of it
  (`DepthNests`). Each walk, from every offset and at every count it can be at,
  finds the nearest bracket that many levels up (`CloseAfterIs`, `OpenBeforeIs`).
  A pair that matches has the same depth on either side (`MatchedIs`), and
  between an open and a shallower place behind it the depth comes back
  (`ComesBack`), so no matching pair lies between the one found and the caret.

### Plugin consent (`StoresProofs`)

Assumption: `ManifestAssumption` (every manifest has a version and asks for
permissions there are). `PowersApproved` and `DecisionsKept` state the two
properties of the run `stores` for any front ends, manifests, versions and
permissions. Both speak of handlers, and a handler is made from a map that
other steps wrote. `ConsentInv` therefore adds: every record in the database
and in memory holds approved permissions only (`RecordsApproved`) and agrees
with every settled decision (`SettledIsRecorded`); a handler is what its front
end's map gives (`HandlersFollow`); operations under way hold approved powers
(`OpsApproved`); a front end that is down has nothing (`DownIsEmpty`).

### Snapshots (`StoresProofs`)

Assumption: `SnapshotConstants`. `SnapshotsKept` states `SnapshotsReturn` for
any tabs, sources, contents and ids. The next restore believes the index and the
next capture overwrites the file of its id, so `SnapInv` adds: what a list or a
readable index names is backed by its files, with ids below the counter that
goes with it; the counter of a live store is not behind the one in its index;
a sound directory has at most one live store.

### The shared cache (`ByteCacheLemmas`, `StoresProofs`)

Assumptions: `CacheConstants` and `SharedConstants` (a chunk has a size, budgets
and lengths are naturals, there is a file).

| Theorem | Statement |
|---|---|
| `StaleOnlyAfterOverlapAlways` | `SharedSpec => []StaleOnlyAfterOverlap` |
| `AccountsBalanceBelowCapacity`, `WithinBudgetBelowCapacity` | `SharedSpec /\ []BelowCapacity => []AccountsBalance`, and `[]WithinBudget` |
| `HeldWithinBudget` | `SharedSpec => [](BytesHeld(cache.chunks) <= cache.limit)` |

A slot comes from a read that began earlier, so `SharedInv` says of the readers
what `StaleOnlyAfterOverlap` says of the slots (`ReadersFresh`: a read under way
has the present version in hand and no drop has met it, or the source counts as
overlapped), besides the shape of the LRU list.

`BelowCapacity` says that the `LruCache` is not at its own bound on entries,
which the code sets to the budget in chunks plus 16. It is a hypothesis
because the books are false without it: at that bound `put` drops an entry and
tells nobody (section 4; four one-byte files, a limit of 4 bytes, chunks of 2
and a slack of 1 reach it). It is what happens whenever the files are not many
and tiny. The bytes really held stay within the budget all the same: the books
are then too high and never too low (`Covered`), so eviction errs on the safe
side. That needs no hypothesis.

`ByteCacheLemmas` has the sums, the LRU list and one lemma per critical section.
Its loops (eviction, `drop_source`) are functions on `0 .. n`; `Upward` proves
things of them from the least counterexample.

### The VFS stream (`VfsStreamProofs`)

Assumptions: `CacheConstants` and `StreamConstants`.

| Theorem | Statement |
|---|---|
| `NoEditLostAlways` | `StreamSpec => []NoEditLost` |
| `OldBytesOnlyInHandAlways` | `StreamSpec => []OldBytesOnlyInHand` |
| `StreamBooksAlways` | `StreamSpec => []StreamBooks` |
| `NoFlickerEver` | `StreamSpec => NoFlicker`, an action property |

There are two halves. `EditInv` is about the save: what it has written is on the
device (`WritesAreOnDevice`), and a save that is at its n-th range has written
the ones before it (`SaveHasWritten`), so that one that fails may leave its
writes behind and still keep the patch. `CacheInv` is about the driver: a chunk
in the cache, and a chunk in the driver's hand, is as new as the last write
unless the driver had it in hand when the save invalidated it (`CachedAreNew`,
`InHandAreNew`). The books need no hypothesis here: in a cache of one source
only the last chunk is short, so the budget is reached before the bound on
entries.

### Session and launches (`AppLifeProofs`)

Assumptions: `SessionConstants` (finitely many files) and `ProcsAssumption`.

| Theorem | Statement |
|---|---|
| `SessionIsConsistent` | `SessionSpec => []SessionInv` |
| `WorkIsHeldAlways` | `SessionSpec => []WorkIsHeld` |
| `RestoredOnItsBaseAlways` | `ASSUME Digested PROVE SessionSpec => []RestoredOnItsBase` |
| `NothingIsMislaid` | `InstanceSpec => []NothingMislaid` |

`SessionInv`: a tab whose restore prompt is up or queued is open and has no work
of its own yet (`WaitingIsFresh`), and the prompt shows the sidecar that is on
disk (`PromptOK`); the sidecar of an open tab is one whose prompt waits, or was
dismissed or left unanswered (`SidecarIsAsked`), so that nothing else is
overwritten by a quit; a tab being closed is not one that waits
(`ClosingIsApart`); a process that is down has no tabs. `Digested` is needed
because the code checks no digest above `DIGEST_MAX_BYTES` (section 4).

`InstanceInv`: a request that was asked for is with exactly one live process,
was opened once, or went with a process that died or a window that closed
(`Accounted`). That needs to
know where a file list can be: a connection waits at one listener, once
(`WaitsOnce`), of a live process (`ListenersLive`); a client that still sends
waits at its listener, if that one lives (`SenderWaits`), and one that has sent
everything has exited (`WholeIsSent`); what was received came from a client
whose stream is gone (`ReceivedIsApart`); nothing moves before it was asked for
(`AskedFirst`).

### The watcher (`FileWatcherProofs`)

Assumption: `WatcherConstants`. `PollSetAlwaysAgrees` states
`WatcherSpec => []PollSetAgrees`: once the worker has obeyed what is in its
channel, it polls what the UI thread believes it polls. The two never look at
each other, so the proof is about command lists: obeying one list after another
is obeying their concatenation, and the list a change of the settings sends has
the right effect in whatever order the map is walked.

### Panels (`PanelsProofs`)

Assumptions: `PanelsConstants`, `SearchConstants`, `RowConstants` (rows have a
width), `ChunkAssumption` (chunks are
not empty), `PatternsAssumption` (patterns are byte sequences, not empty) and
`ScanConstants` (ranges are sequences of the classes of bytes, chunks are not
empty, a string has at least one character: `Scanner::new` sees to that).
All theorems are about `PanelsSpec`, in which edits, undo, saves and reloads of
the tab come between any two steps of a panel.

| Theorem | Statement |
|---|---|
| `MatchesAlwaysOfQuery` | `PanelsSpec => []MatchesAreOfQuery` (global search) |
| `InstancesAlwaysKept` | `PanelsSpec => []InstancesKept` (template runs) |
| `FindAlwaysExact` | `PanelsSpec => []FindIsExact` (find bar) |
| `ListAlwaysOfQuery` | `PanelsSpec => []ListIsOfQuery` |
| `ResizeAlwaysAgreed` | `PanelsSpec => ResizeIsAgreed`, an action property |
| `ReplaceAllAlwaysExact` | `PanelsSpec => ReplaceAllIsExact`, an action property |
| `DriftIsAlwaysRounding` | `PanelsSpec => []DriftIsRounding` (compare view) |
| `StringsAlwaysExact` | `PanelsSpec => []StringsAreExact` (strings panel) |

* Global search: a scan with the present serial was started for the present
  query (`SearchInv`); others are thrown away.
* Templates: `TabKept` says that each template wanted is in one place of one of
  the two lists, finished or running, and no other is. The rerun loop moves
  entries from one list to the other while it walks over the first; that it
  moves each once is proved from the least counterexample.
* Find: `Between` is the search without chunks. `ScanForwardIs` and
  `ScanBackwardIs` show that the loops over overlapping chunks find what it
  finds: a nearest match that a chunk ends in is inside the next one, by the
  overlap. `NextFinds`, `PrevFinds` and `FindAllIs` add the wrap, the scope and
  the list of all matches, which is the only ascending list of their set
  (`OnlyList`).
* The bar: `FindInv` says that the list is that of the query over the bytes it
  was made from (`BarOK`), that a dialog that is up has all matches in the bytes
  it was asked for (`DialogUp`), and that the prompt is skipped only for a pair
  of patterns the user agreed to (`AckOK`). `FindIsExact` needs only the types;
  the other three need `FindInv`, since a dialog is answered steps after it was
  asked, with edits and reloads in between. `BatchIs` shows that splices made
  back to front on offsets of the old bytes do not disturb each other.
* Compare rows: `RowsInv` says that hunks chain, each beginning where the one
  before ends on either side. The loop over the sorted gaps that builds a row
  map is proved to show row r of the file below r and the gaps in front of it
  (`RowMapShows`), and for a row that begins in a hunk those are the gaps of all
  hunks before it (`GapsAbove`). Hunks may be of any length and begin anywhere in
  a row. A change with its gaps is equally high on both sides (`SameHeight`), but
  rounding it up to whole rows adds up to `columns - 1` bytes of nothing on each
  side; `Level` says that the two sides are level but for one such remainder per
  uneven change, and goes from hunk to hunk by counting (`LevelOnce`). A drift of
  more rows than that would be more bytes than the remainders (`AheadBy`).
* Strings: `StringInv` says where the scanner stands between two chunks
  (`ScannerAt`): at an offset p that no character straddles, with the bytes
  from p on carried over as an incomplete character; the run it counts is a
  chain of characters that ends at p, and the entries are the long runs that
  end before p, in order. What the scanner sees at an offset of its window is
  what stands there in the range, unless the window ends in it (`WindowIs`);
  a step over one unit keeps `ScannerAt`, and so does the loop over a window.
  Two runs do not overlap (`RunsApart`), so entries in order are in order of
  both ends, and the first `MAX_RESULTS` of them are the foremost runs
  (`CutIsExact`).

### Only model-checked

The liveness properties (`ViewportLoads`, `EverySidecarIsOffered`,
`ForwardedIsOpened`, `ChangeReachesTab`, `TemplatesCatchUp`, `EveryRequestServed`,
`DiffCatchesUp`): fairness is out of the prover's reach. And the
properties that a run shows violated. Every other invariant and action property
of a passing run is a theorem. What loops and recursive functions compute is
proved without induction over data, from the least counterexample of a counter.
`NonLpCount` is proved and not part of a run.

## 6. Not modelled, and why

Most of the repository's lines are in four groups that are left out: the two
template languages (interpreters, parsers and compilers of large sequential
languages, whose state space no small instance samples), drawing and layout of
two front ends, tests, and the egui front end's copies of what the gpui one
does. The WASM engine, archive parsing and SQLite are third-party. The
inspector, go to and the calculator are pure and well tested. Untitled buffers
and VFS tabs are outside `FileSession`; the sample-hash polling of VFS entries
is outside `FileWatcher` (the gpui front end never registers one). Plugin tokens
and the plugins' own store are outside `PluginConsent`.

Writes: a sidecar is written in place (`patch_persist.rs:120-126`), so a store
that fails, and a kill in the middle of a quit, may leave a sidecar as it was or
one that does not load; both are outcomes of `Quit`, and `WorkIsHeld` does not
ask for the work of those files. A snapshot's write in place is modelled too. The
saved file itself goes through a temporary file and a rename (`write_atomic`), so
it is written whole or not at all. The quit hook belongs to the workspace and
lives as long as its window (`workspace.rs:4781-4787`); a quit after the window
has closed, when it no longer runs, is not modelled.

## 7. Plan

Modelled so far, in this order: edit state and its abstract buffer, cache,
streaming, session, watcher; then single instance, panels and their algorithms,
plugin consent, snapshots, input and vim motions. Proved: editor, refinement,
consent, snapshots; then the caches, the stream, the session, the launches, the
watcher, global search, template runs, the find bar, the compare rows, the
input, its words and its brackets, the strings.

Next, as modules: `EditState` over a base that can fail or change, composed with
`VfsStream` (undo after a half-failed save); untitled buffers and Save As in
`FileSession`; the plugins' state store and its quota; entropy and digest
windows against reference definitions.

Next, as proofs: those of the modules above.
