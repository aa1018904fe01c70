---------------------------- MODULE SharedCache ----------------------------
(***************************************************************************)
(* The one ByteCache all file tabs share (crates/hxy): the hex view on the *)
(* UI thread and the background scans (strings, checksums, entropy, VFS    *)
(* mounts) read through CachedSource handles, while the UI thread saves,   *)
(* reloads and closes files and changes the budget.                        *)
(*                                                                         *)
(* A handle is a SourceId and the file it was opened on.  A save replaces  *)
(* the file by rename, so a handle opened before it keeps reading the old  *)
(* bytes: `version` pins them.  fetch_chunk reads the file outside the     *)
(* lock, so its two critical sections are separate steps.                  *)
(***************************************************************************)
EXTENDS ByteCache, FiniteSets

CONSTANTS
    SourceIds,     \* open files
    Readers,       \* threads that read through the cache; each has handles of
                   \* its own, so a reader also stands for its Attribution
    UI,            \* the UI thread, one of them
    Length         \* Length[v] is the length of version v of a file, v = 1 ..

ASSUME SharedConstants ==
    /\ UI \in Readers
    /\ Length \in Seq(Nat \ {0}) /\ Length # << >>

FileVersions == DOMAIN Length
Closed == 0

VARIABLES
    cache,       \* CacheInner
    current,     \* the version the tab of each source shows, or Closed
    reader,      \* what each thread is doing
    overlapped   \* sources dropped while a background read was under way

sharedVars == <<cache, current, reader, overlapped>>

Idle == [pc |-> "idle"]

(* `clean`: every chunk handed out so far came from the handle's own file. *)
Read(source, version, attribution, first, last) ==
    [pc |-> "lookup", source |-> source, version |-> version,
     attribution |-> attribution, chunk |-> first, last |-> last, clean |-> TRUE]

Busy(w) == reader[w].pc # "idle"
KeyOf(r) == [source |-> r.source, chunk |-> r.chunk]
NewSlot(r) == [key |-> KeyOf(r), bytes |-> r.version,
               len |-> ChunkLen(Length[r.version], r.chunk), attribution |-> r.attribution]

(* The thread takes the bytes of the slot and goes on to the next chunk.   *)
(* After the last one it waits in "done" until its caller has the bytes.   *)
Served(r, bytes) ==
    [r EXCEPT !.clean = @ /\ bytes = r.version,
              !.chunk = IF @ = r.last THEN @ ELSE @ + 1,
              !.pc = IF r.chunk = r.last THEN "done" ELSE "lookup"]

SharedInit ==
    /\ cache \in {EmptyCache(limit) : limit \in Limits}
    /\ current = [s \in SourceIds |-> 1]
    /\ reader = [w \in Readers |-> Idle]
    /\ overlapped = {}

(* read_with: the range is inside the source and not empty. *)
read_with(w) ==
    /\ ~Busy(w)
    /\ \E s \in SourceIds :
          /\ current[s] # Closed
          /\ \E first, last \in ChunksOf(Length[current[s]]) :
                /\ first <= last
                /\ reader' = [reader EXCEPT ![w] = Read(s, current[s], w, first, last)]
    /\ UNCHANGED <<cache, current, overlapped>>

(* fetch_chunk, first section. *)
LookUp(w) ==
    /\ reader[w].pc = "lookup"
    /\ LET key == KeyOf(reader[w]) IN
       IF Holds(cache, key)
       THEN /\ cache' = Touch(cache, key)
            /\ reader' = [reader EXCEPT ![w] = Served(@, SlotOf(cache, key).bytes)]
       ELSE /\ reader' = [reader EXCEPT ![w].pc = "read"]
            /\ UNCHANGED cache
    /\ UNCHANGED <<current, overlapped>>

(* The read of the file, outside the lock: it can fail. *)
ReadInner(w) ==
    /\ reader[w].pc = "read"
    /\ \/ reader' = [reader EXCEPT ![w].pc = "fill"]
       \/ reader' = [reader EXCEPT ![w] = Idle]
    /\ UNCHANGED <<cache, current, overlapped>>

(* fetch_chunk, second section. *)
Fill(w) ==
    /\ reader[w].pc = "fill"
    /\ cache' = fill_chunk(cache, NewSlot(reader[w]))
    /\ reader' = [reader EXCEPT ![w] = Served(@, SlotOf(cache', KeyOf(@)).bytes)]
    /\ UNCHANGED <<current, overlapped>>

Deliver(w) ==
    /\ reader[w].pc = "done"
    /\ reader' = [reader EXCEPT ![w] = Idle]
    /\ UNCHANGED <<cache, current, overlapped>>

(* drop_source on behalf of a tab, by the UI thread between its own reads. *)
Dropping(s) ==
    /\ ~Busy(UI)
    /\ current[s] # Closed
    /\ cache' = drop_source(cache, s)
    /\ overlapped' = IF \E w \in Readers : Busy(w) /\ reader[w].source = s
                     THEN overlapped \cup {s} ELSE overlapped
    /\ UNCHANGED reader

(* Save, or reload after an outside change (save.rs, apply_reload_decision): *)
(* a new handle under the same SourceId.                                   *)
Reload(s) ==
    /\ Dropping(s)
    /\ current[s] + 1 \in FileVersions
    /\ current' = [current EXCEPT ![s] = @ + 1]

(* OpenFile::release_cache. *)
Close(s) ==
    /\ Dropping(s)
    /\ current' = [current EXCEPT ![s] = Closed]

SetLimit ==
    /\ ~Busy(UI)
    /\ \E limit \in Limits \ {cache.limit} : cache' = set_limit(cache, limit)
    /\ UNCHANGED <<current, reader, overlapped>>

SharedNext ==
    \/ \E w \in Readers :
          read_with(w) \/ LookUp(w) \/ ReadInner(w) \/ Fill(w) \/ Deliver(w)
    \/ \E s \in SourceIds : Reload(s) \/ Close(s)
    \/ SetLimit

SharedSpec == SharedInit /\ [][SharedNext]_sharedVars

-----------------------------------------------------------------------------
(* Properties. *)

(* used_bytes and the per-view tally equal what the map holds, whatever    *)
(* races fill the same chunk (fetch_chunk, drop_source, set_limit).        *)
AccountsBalance == BooksBalance(cache)

(* The eviction loops make room before each insert, also for two readers    *)
(* that missed together and under a budget that shrinks between (set_limit, *)
(* fetch_chunk).                                                           *)
WithinBudget == cache.used_bytes <= cache.limit

(* Dropping a source leaves nothing stale behind, and nothing stale comes  *)
(* back, as long as no background read of that source was under way.       *)
StaleOnlyAfterOverlap ==
    /\ \A i \in DOMAIN cache.chunks :
          LET slot == cache.chunks[i]
          IN  slot.bytes = current[slot.key.source] \/ slot.key.source \in overlapped
    /\ \A w \in Readers : Busy(w) => reader[w].clean \/ reader[w].source \in overlapped

=============================================================================
