----------------------------- MODULE VfsStream -----------------------------
(***************************************************************************)
(* A plugin-VFS entry open in a tab of the gpui front end: StreamingSource *)
(* (hxy-core/src/cache.rs), the driver loop that fetches for it            *)
(* (panels/file.rs attach_vfs_stream) and the write-back of edits          *)
(* (save_vfs_entry).                                                       *)
(*                                                                         *)
(* Three actors: the UI thread paints, edits and saves; the driver's       *)
(* background task reads the mount chunk by chunk, outside the cache lock; *)
(* the mount's bytes can change by themselves.  The cache belongs to this  *)
(* source alone.                                                           *)
(*                                                                         *)
(* Bytes: device[c] counts the changes of chunk c on the mount, and a      *)
(* cached chunk holds the count it was read at.  Edits are in place (the   *)
(* writer refuses others) and one op per chunk: what the user last typed   *)
(* into chunk c is its edit number.                                        *)
(***************************************************************************)
EXTENDS ByteCache

CONSTANTS
    SourceLen,   \* StreamingSource::len
    Viewports,   \* ranges <<first, last>> of chunks a window can show
    MaxDemand,   \* bound: ranges waiting for the driver
    MaxEdits,    \* bound: edits of one chunk
    MaxChanges   \* bound: changes of one chunk on the mount

ASSUME StreamConstants ==
    /\ SourceLen \in Nat \ {0}
    /\ Viewports \subseteq ChunksOf(SourceLen) \X ChunksOf(SourceLen)
    /\ \A range \in Viewports : range[1] <= range[2]
    /\ MaxDemand \in Nat \ {0}
    /\ MaxEdits \in Nat
    /\ MaxChanges \in Nat

VARIABLES
    cache,       \* CacheInner
    demand,      \* missing ranges seen by read
    visible,     \* the range on screen
    stale_frame, \* the pane was notified and has not painted since
    refresh,     \* vfs_refresh.enabled
    driver,      \* the driver loop
    device,      \* changes of each chunk on the mount
    edit,        \* edits the user made to each chunk
    patch,       \* the overlay: dirty chunk -> edit number
    written,     \* last edit of each chunk that write_range accepted
    written_at,  \* the count of device that write produced
    save,        \* save_vfs_entry under way
    overlapped   \* chunks invalidated while the driver held bytes of them

cacheSide == <<cache, demand, visible, stale_frame, refresh, driver>>
editSide == <<edit, patch, written, written_at, save, overlapped>>
streamVars == <<cacheSide, device, editSide>>

Chunks == ChunksOf(SourceLen)
Source == "entry"
KeyFor(c) == [source |-> Source, chunk |-> c]
Cached(c) == Holds(cache, KeyFor(c))
NewSlot(c, bytes) == [key |-> KeyFor(c), bytes |-> bytes,
                      len |-> ChunkLen(SourceLen, c), attribution |-> "plugin"]
Within(range) == range[1] .. range[2]

Sleeping == [pc |-> "sleep"]
NoSave == [pc |-> "none"]
UiFree == save.pc = "none"

StreamInit ==
    /\ cache \in {EmptyCache(limit) : limit \in Limits}
    /\ demand = << >>
    /\ visible \in Viewports
    /\ stale_frame = TRUE
    /\ refresh \in BOOLEAN
    /\ driver = Sleeping
    /\ device = [c \in Chunks |-> 0]
    /\ edit = [c \in Chunks |-> 0]
    /\ patch = [c \in {} |-> 0]
    /\ written = [c \in Chunks |-> 0]
    /\ written_at = [c \in Chunks |-> 0]
    /\ save = NoSave
    /\ overlapped = {}

-----------------------------------------------------------------------------
(* UI thread. *)

(* One more missing chunk: it joins the last run if it is next to it. *)
Coalesced(runs, c) ==
    IF runs # << >> /\ runs[Len(runs)][2] + 1 = c
    THEN [runs EXCEPT ![Len(runs)] = <<@[1], c>>]
    ELSE Append(runs, <<c, c>>)

(* peek goes through the chunks of the range, first to last: it touches    *)
(* those it finds and reports the runs of the others.                      *)
peek(g, range) ==
    LET n == range[2] - range[1] + 1
        after[k \in 0 .. n] ==
            IF k = 0 THEN [cache |-> g, missing |-> << >>]
            ELSE LET c == range[1] + k - 1
                     before == after[k - 1]
                 IN  IF Holds(before.cache, KeyFor(c))
                     THEN [before EXCEPT !.cache = Touch(@, KeyFor(c))]
                     ELSE [before EXCEPT !.missing = Coalesced(@, c)]
    IN  after[n]

(* A frame: StreamingSource::read of the visible range serves what is      *)
(* cached, shows zeros for the rest and records it as demand.              *)
Paint ==
    /\ UiFree
    /\ stale_frame
    /\ Len(demand) < MaxDemand
    /\ LET seen == peek(cache, visible)
       IN  cache' = seen.cache /\ demand' = demand \o seen.missing
    /\ stale_frame' = FALSE
    /\ UNCHANGED <<visible, refresh, driver, device, editSide>>

Scroll ==
    /\ UiFree
    /\ visible' \in Viewports \ {visible}
    /\ stale_frame' = TRUE
    /\ UNCHANGED <<cache, demand, refresh, driver, device, editSide>>

(* The user overwrites bytes of chunk c. *)
Type(c) ==
    /\ UiFree
    /\ edit[c] < MaxEdits
    /\ edit' = [edit EXCEPT ![c] = @ + 1]
    /\ patch' = [d \in DOMAIN patch \cup {c} |-> edit'[d]]
    /\ stale_frame' = TRUE
    /\ UNCHANGED <<cache, demand, visible, refresh, driver, device, written, written_at,
                   save, overlapped>>

(* save_vfs_entry runs on the UI thread; the mount and the driver's        *)
(* background task do not wait for it.  It goes through the ops in order of  *)
(* offset, first to write and then to invalidate; left are those to do.    *)
SaveBegin ==
    /\ UiFree
    /\ DOMAIN patch # {}
    /\ save' = [pc |-> "write", left |-> DOMAIN patch]
    /\ UNCHANGED <<cacheSide, device, edit, patch, written, written_at, overlapped>>

(* Bug: a save that failed half way drops the patch. *)
SaveWriteDropsPatch ==
    /\ save.pc = "write"
    /\ save' = NoSave
    /\ patch' = [d \in {} |-> 0]
    /\ UNCHANGED <<cacheSide, device, edit, written, written_at, overlapped>>

(* The first write that fails ends the save with an error: what was        *)
(* written stays written, the patch stays as it is.                        *)
SaveWrite ==
    LET c == Min(save.left)
    IN  /\ save.pc = "write"
        /\ \/ /\ device[c] < MaxChanges
              /\ device' = [device EXCEPT ![c] = @ + 1]
              /\ written' = [written EXCEPT ![c] = patch[c]]
              /\ written_at' = [written_at EXCEPT ![c] = device'[c]]
              /\ save' = IF save.left = {c}
                         THEN [pc |-> "invalidate", left |-> DOMAIN patch]
                         ELSE [save EXCEPT !.left = @ \ {c}]
           \/ save' = NoSave /\ UNCHANGED <<device, written, written_at>>
        /\ UNCHANGED <<cacheSide, edit, patch, overlapped>>

(* The driver has bytes of chunk c in hand that are not yet in the cache. *)
InHand(c) == driver.pc \in {"fill", "restore"} /\ driver.chunk = c

(* Bug: the written ranges stay cached. *)
SaveInvalidateForgotten ==
    /\ save.pc = "invalidate"
    /\ save' = NoSave
    /\ patch' = [d \in {} |-> 0]
    /\ stale_frame' = TRUE
    /\ UNCHANGED <<cache, demand, visible, refresh, driver, device, edit, written, written_at,
                   overlapped>>

(* Invalidate the written ranges one after the other; then swap_source     *)
(* drops the patch and the pane repaints.                                  *)
SaveInvalidate ==
    LET c == Min(save.left)
        finished == save.left = {c}
    IN  /\ save.pc = "invalidate"
        /\ cache' = invalidate_range(cache, Source, {c})
        /\ overlapped' = IF InHand(c) THEN overlapped \cup {c} ELSE overlapped
        /\ save' = IF finished THEN NoSave ELSE [save EXCEPT !.left = @ \ {c}]
        /\ patch' = IF finished THEN [d \in {} |-> 0] ELSE patch
        /\ stale_frame' = (stale_frame \/ finished)
        /\ UNCHANGED <<demand, visible, refresh, driver, device, edit, written, written_at>>

-----------------------------------------------------------------------------
(* The driver loop. *)

(* The driver moves on: next chunk of the range, next range, then refetch   *)
(* of the visible range if it is due, then sleep.  Both batches end in a    *)
(* notify of the pane.                                                     *)
Batch(queue, vis) ==
    IF queue # << >>
    THEN [pc |-> "lookup", queue |-> queue, vis |-> vis, chunk |-> queue[1][1], bytes |-> 0]
    ELSE IF vis # << >>
    THEN [pc |-> "reread", queue |-> << >>, vis |-> vis, chunk |-> vis[1], bytes |-> 0]
    ELSE Sleeping

AfterChunk(d) ==
    IF d.chunk < d.queue[1][2]
    THEN [d EXCEPT !.chunk = @ + 1, !.pc = "lookup", !.bytes = 0]
    ELSE Batch(Tail(d.queue), d.vis)

(* A failed read gives up on the rest of its range only. *)
AfterError(d) == Batch(Tail(d.queue), d.vis)

AfterReread(d) ==
    IF d.chunk < d.vis[2] THEN [d EXCEPT !.chunk = @ + 1, !.pc = "reread", !.bytes = 0]
    ELSE Sleeping

(* Bug: nobody repaints after a batch. *)
GoesSilently(d) == driver' = d /\ UNCHANGED stale_frame

(* The pane is notified when a batch is over. *)
Goes(d) ==
    /\ driver' = d
    /\ stale_frame' = (stale_frame \/ d.pc = "sleep" \/ (d.pc = "reread" /\ d.chunk = d.vis[1]))

(* One tick of the poll: collect the demand and, if refresh is due, the    *)
(* visible range.                                                          *)
Tick ==
    /\ UiFree
    /\ driver.pc = "sleep"
    /\ \E due \in IF refresh THEN BOOLEAN ELSE {FALSE} :
          /\ demand # << >> \/ due
          /\ driver' = Batch(demand, IF due THEN visible ELSE << >>)
    /\ demand' = << >>
    /\ UNCHANGED <<cache, visible, stale_frame, refresh, device, editSide>>

(* prefetch -> read_with -> fetch_chunk, first section. *)
LookUp ==
    /\ driver.pc = "lookup"
    /\ cache' = Touch(cache, KeyFor(driver.chunk))
    /\ IF Cached(driver.chunk) THEN Goes(AfterChunk(driver))
       ELSE driver' = [driver EXCEPT !.pc = "read"] /\ UNCHANGED stale_frame
    /\ UNCHANGED <<demand, visible, refresh, device, editSide>>

(* The slow read of the mount, outside the lock. *)
ReadChunk ==
    /\ driver.pc = "read"
    /\ driver' = [driver EXCEPT !.pc = "fill", !.bytes = device[driver.chunk]]
    /\ UNCHANGED <<cache, demand, visible, stale_frame, refresh, device, editSide>>

ReadFails ==
    /\ \/ driver.pc = "read" /\ Goes(AfterError(driver))
       \/ driver.pc = "reread" /\ Goes(Sleeping)
    /\ UNCHANGED <<cache, demand, visible, refresh, device, editSide>>

(* fetch_chunk, second section. *)
Fill ==
    /\ driver.pc = "fill"
    /\ cache' = fill_chunk(cache, NewSlot(driver.chunk, driver.bytes))
    /\ Goes(AfterChunk(driver))
    /\ UNCHANGED <<demand, visible, refresh, device, editSide>>

(* Bug: a refetch drops the slot before it has the new bytes. *)
RereadInvalidates ==
    /\ driver.pc = "reread"
    /\ cache' = invalidate_range(cache, Source, {driver.chunk})
    /\ driver' = [driver EXCEPT !.pc = "restore", !.bytes = device[driver.chunk]]
    /\ UNCHANGED <<demand, visible, stale_frame, refresh, device, editSide>>

(* refetch_with: read, then overwrite the slot in place. *)
Reread ==
    /\ driver.pc = "reread"
    /\ driver' = [driver EXCEPT !.pc = "restore", !.bytes = device[driver.chunk]]
    /\ UNCHANGED <<cache, demand, visible, stale_frame, refresh, device, editSide>>

Restore ==
    /\ driver.pc = "restore"
    /\ cache' = store_chunk(cache, NewSlot(driver.chunk, driver.bytes))
    /\ Goes(AfterReread(driver))
    /\ UNCHANGED <<demand, visible, refresh, device, editSide>>

-----------------------------------------------------------------------------
(* The mount's bytes change by themselves (a console's memory). *)
DeviceChanges(c) ==
    /\ device[c] < MaxChanges
    /\ device' = [device EXCEPT ![c] = @ + 1]
    /\ UNCHANGED <<cacheSide, editSide>>

DriverStep == Tick \/ LookUp \/ ReadChunk \/ ReadFails \/ Fill \/ Reread \/ Restore
SaveStep == SaveBegin \/ SaveWrite \/ SaveInvalidate

StreamNext ==
    \/ Paint \/ Scroll \/ DriverStep \/ SaveStep
    \/ \E c \in Chunks : Type(c) \/ DeviceChanges(c)

(* The UI thread takes its events in turn, so no run of other events keeps  *)
(* it from a frame or from the driver's tick for ever, and it finishes a    *)
(* save; the executor runs the driver's background task; a read of the     *)
(* mount that is tried again and again succeeds at last.                   *)
Fairness ==
    /\ SF_streamVars(Paint)
    /\ SF_streamVars(Tick)
    /\ WF_streamVars(SaveWrite \/ SaveInvalidate)
    /\ WF_streamVars(DriverStep)
    /\ SF_streamVars(ReadChunk)

StreamSpec == StreamInit /\ [][StreamNext]_streamVars /\ Fairness

-----------------------------------------------------------------------------
(* Properties. *)

(* Whatever a save got done before it failed, and whatever is typed between *)
(* two saves, the last edit of a chunk is in the patch or on the mount.    *)
NoEditLost ==
    \A c \in Chunks : edit[c] = IF c \in DOMAIN patch THEN patch[c] ELSE written[c]

(* Books and budget under in-place replacement and invalidation. *)
StreamBooks == BooksBalance(cache) /\ cache.used_bytes <= cache.limit

(* Once a save has dropped the patch, what the cache shows of a written    *)
(* chunk is at least as new as the write, unless the driver had that chunk *)
(* in hand when it was invalidated.                                        *)
OldBytesOnlyInHand ==
    \A i \in DOMAIN cache.chunks :
       LET slot == cache.chunks[i]
           c == slot.key.chunk
       IN  \/ slot.bytes >= written_at[c]
           \/ c \in DOMAIN patch
           \/ c \in overlapped

(* file.rs:453 says of a save: "invalidate the written ranges so a read    *)
(* re-fetches them".                                                       *)
SavedBytesShown ==
    \A i \in DOMAIN cache.chunks :
       LET slot == cache.chunks[i]
       IN  slot.bytes >= written_at[slot.key.chunk] \/ slot.key.chunk \in DOMAIN patch

(* A live refresh never turns a chunk that is shown back into zeros: only   *)
(* the invalidation after a save uncovers one, or a cache at its budget.   *)
NoFlicker ==
    [][\A c \in Within(visible) :
          Cached(c) /\ ~Cached(c)'
          => \/ save.pc = "invalidate"
             \/ cache.used_bytes + CHUNK_SIZE_BYTES > cache.limit]_streamVars

(* Every placeholder on screen is filled or scrolled away. *)
ViewportLoads ==
    \A c \in Chunks : c \in Within(visible) ~> (Cached(c) \/ c \notin Within(visible))

=============================================================================
