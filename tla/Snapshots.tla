----------------------------- MODULE Snapshots -----------------------------
(***************************************************************************)
(* Snapshots of open files (hxy-panels/src/files/snapshot.rs) as the tabs  *)
(* of both front ends use them.  A tab's store keeps a list and a counter  *)
(* in memory, the bytes of snapshot n in <n>.bin, and the list and the     *)
(* counter again in index.json.  Every write can fail or stop half way     *)
(* without an error the user sees, so files, index and memory drift apart; *)
(* a process that dies between two writes leaves what a failed second      *)
(* write leaves, and a tab that closes loses its store.                    *)
(*                                                                         *)
(* Bytes are members of Contents.  Ghosts: `of` in an entry is what was    *)
(* captured, `crowded` the directories that two live stores have shared,   *)
(* `misread` those with a good index that a restore could not read.        *)
(***************************************************************************)
EXTENDS Naturals

CONSTANTS
    Tabs,
    Sources,    \* what a tab can show
    Files,      \* the sources that are files on disk
    Root,       \* the file each source is in; itself, unless it is an archive entry
    Contents,
    Small,      \* the contents of at most IN_MEMORY_CACHE_MAX bytes
    TempDir,    \* where captures go when there is no data directory
    Nothing,    \* no source, no store, no file or no index
    Torn,       \* what a write that stopped half way leaves
    MaxId       \* bound on the ids a store hands out

Ids == 1 .. MaxId
Dirs == Sources \cup {TempDir}

ASSUME SnapshotConstants ==
    /\ Files \subseteq Sources
    /\ Root \in [Sources -> Sources]
    /\ Small \subseteq Contents
    /\ TempDir \notin Sources
    /\ Nothing \notin Dirs \cup Contents \cup {Torn}
    /\ Torn \notin Contents
    /\ MaxId \in Nat

Entries == [id : Ids, of : Contents]
Listed == [id : Ids, of : Contents, cached : BOOLEAN]
Index == [readable : BOOLEAN, next_id : Nat, entries : SUBSET Entries]
Stores == [dir : Dirs \cup {Nothing}, next_id : Nat, list : SUBSET Listed]

VARIABLES
    is_egui,    \* which front end this is
    based,     \* is there a data directory?
    source,    \* what each tab shows
    store,     \* its SnapshotStore
    bin,       \* bin[d][n] is the file <n>.bin in directory d
    index,     \* the index.json of each directory
    crowded,
    misread

snapVars == <<is_egui, based, source, store, bin, index, crowded, misread>>

NoStore == [dir |-> Nothing, next_id |-> 1, list |-> {}]
NoIndex == [readable |-> FALSE, next_id |-> 1, entries |-> {}]

SnapInit ==
    /\ is_egui \in BOOLEAN
    /\ based \in BOOLEAN
    /\ source = [t \in Tabs |-> Nothing]
    /\ store = [t \in Tabs |-> NoStore]
    /\ bin = [d \in Dirs |-> [n \in Ids |-> Nothing]]
    /\ index = [d \in Dirs |-> NoIndex]
    /\ crowded = {}
    /\ misread = {}

----------------------------------------------------------------------------
(* The store *)

Live(t) == store[t].dir # Nothing

\* egui keys a store by the root path of the source, gpui by the path of the file.
sidecar_dir(s) ==
    IF ~based THEN TempDir ELSE IF is_egui THEN Root[s] ELSE s

HasStore(s) == is_egui \/ s \in Files

\* A store as new makes it.
Fresh(d) == [dir |-> d, next_id |-> 1, list |-> {}]

\* Bug: the counter follows from the entries that are left.
FromIndex_recounts(d) ==
    LET kept == {e \in index[d].entries : bin[d][e.id] # Nothing}
        last == CHOOSE n \in 0 .. MaxId : /\ n = 0 \/ \E e \in kept : e.id = n
                                         /\ \A e \in kept : e.id <= n
    IN  [dir |-> d, next_id |-> last + 1,
         list |-> {[id |-> e.id, of |-> e.of, cached |-> FALSE] : e \in kept}]

\* Entries without their file are dropped; the counter is the index's.
FromIndex(d) ==
    [dir |-> d, next_id |-> index[d].next_id,
     list |-> {[id |-> e.id, of |-> e.of, cached |-> FALSE] :
                 e \in {e \in index[d].entries : bin[d][e.id] # Nothing}}]

\* No index, or none that can be read or parsed, is a fresh store.
restore(d) ==
    {Fresh(d)} \cup (IF index[d].readable THEN {FromIndex(d)} ELSE {})

\* Ghosts of tab t coming to have store st.
Witness(t, st) ==
    /\ crowded' = crowded \cup
                    {d \in {st.dir} : \E u \in Tabs \ {t} : store[u].dir = d}
    /\ misread' = misread \cup
                    {d \in {st.dir} : ~Live(t) /\ index[d].readable /\ st # FromIndex(d)}

\* The index is left as it was, cut short, or written.
persist_index(st) ==
    \E written \in
        IF st.dir = TempDir THEN {index[st.dir]}
        ELSE {index[st.dir], NoIndex,
              [readable |-> TRUE, next_id |-> st.next_id,
               entries |-> {[id |-> e.id, of |-> e.of] : e \in st.list}]} :
        index' = [index EXCEPT ![st.dir] = written]

\* The id is used up even when the bytes cannot be written.
capture(t, st, c) ==
    LET d == st.dir
        n == st.next_id
        next == [st EXCEPT !.next_id = @ + 1]
        with == [next EXCEPT !.list =
                    @ \cup {[id |-> n, of |-> c, cached |-> c \in Small]}]
    IN  /\ n \in Ids
        /\ \/ /\ bin' = [bin EXCEPT ![d] = [@ EXCEPT ![n] = c]]
              /\ store' = [store EXCEPT ![t] = with]
              /\ persist_index(with)
           \/ /\ \E left \in {bin[d][n], Torn} :
                    bin' = [bin EXCEPT ![d] = [@ EXCEPT ![n] = left]]
              /\ store' = [store EXCEPT ![t] = next]
              /\ UNCHANGED index

\* The cached bytes, or whatever the file holds now.
load_bytes(t, e) == IF e.cached THEN e.of ELSE bin[store[t].dir][e.id]

----------------------------------------------------------------------------
(* The tabs *)

\* A source has one tab.  egui restores the store with it.
OpenTab(t, s) ==
    /\ source[t] = Nothing
    /\ \A u \in Tabs : source[u] # s
    /\ source' = [source EXCEPT ![t] = s]
    /\ \E st \in IF is_egui THEN restore(sidecar_dir(s)) ELSE {NoStore} :
        /\ store' = [store EXCEPT ![t] = st]
        /\ IF is_egui THEN Witness(t, st) ELSE UNCHANGED <<crowded, misread>>
    /\ UNCHANGED <<is_egui, based, bin, index>>

\* gpui's snapshot_store_mut restores the store at the first capture.
TakeSnapshot(t, c) ==
    /\ source[t] # Nothing /\ HasStore(source[t])
    /\ \E st \in IF Live(t) THEN {store[t]} ELSE restore(sidecar_dir(source[t])) :
        /\ capture(t, st, c)
        /\ Witness(t, st)
    /\ UNCHANGED <<is_egui, based, source>>

\* The file is removed, unless that fails, and the index written.
DeleteSnapshot(t, e) ==
    LET st == [store[t] EXCEPT !.list = @ \ {e}]
        d == st.dir
    IN  /\ e \in store[t].list
        /\ store' = [store EXCEPT ![t] = st]
        /\ \E left \in {bin[d][e.id], Nothing} :
            bin' = [bin EXCEPT ![d] = [@ EXCEPT ![e.id] = left]]
        /\ persist_index(st)
        /\ UNCHANGED <<is_egui, based, source, crowded, misread>>

\* Only the index changes: names are left out.
RenameSnapshot(t) ==
    /\ is_egui /\ store[t].list # {}
    /\ persist_index(store[t])
    /\ UNCHANGED <<is_egui, based, source, store, bin, crowded, misread>>

\* The tab shows the file it was saved to; its store stays as it is.
SaveAs(t, f) ==
    /\ source[t] # Nothing
    /\ source' = [source EXCEPT ![t] = f]
    /\ UNCHANGED <<is_egui, based, store, bin, index, crowded, misread>>

\* The tab closes, or the process ends.
CloseTab(t) ==
    /\ source[t] # Nothing
    /\ source' = [source EXCEPT ![t] = Nothing]
    /\ store' = [store EXCEPT ![t] = NoStore]
    /\ UNCHANGED <<is_egui, based, bin, index, crowded, misread>>

\* Someone else deletes a file of a snapshot.
Vanish(d, n) ==
    /\ bin[d][n] # Nothing
    /\ bin' = [bin EXCEPT ![d] = [@ EXCEPT ![n] = Nothing]]
    /\ UNCHANGED <<is_egui, based, source, store, index, crowded, misread>>

SnapNext ==
    \/ \E t \in Tabs :
        \/ \E s \in Sources : OpenTab(t, s)
        \/ \E c \in Contents : TakeSnapshot(t, c)
        \/ \E e \in store[t].list : DeleteSnapshot(t, e)
        \/ RenameSnapshot(t)
        \/ \E f \in Files : SaveAs(t, f)
        \/ CloseTab(t)
    \/ \E d \in Dirs, n \in Ids : Vanish(d, n)

SnapSpec == SnapInit /\ [][SnapNext]_snapVars

----------------------------------------------------------------------------
(* Properties *)

\* A snapshot in a tab's list gives back the bytes that were captured (or none, when
\* its file is gone), whatever was deleted, lost, half written or restored before; no
\* id that an index still lists is handed out again.  This needs a directory that no
\* two live stores have shared and whose index was never passed over by a failed read
\* (snapshot.rs 111-150, 155-187, 200-210).
SnapshotsReturn ==
    \A t \in Tabs : \A e \in store[t].list :
        store[t].dir \notin crowded \cup misread => load_bytes(t, e) \in {e.of, Nothing}

\* What hxy/src/files/mod.rs 508-512 says: "different entries inside the same parent
\* get distinct dirs", so that with only entries open the captures of one never
\* replace those of another.
EntriesKeepTheirOwn ==
    (\A t \in Tabs : source[t] \notin Files) =>
        \A t \in Tabs : \A e \in store[t].list :
            store[t].dir \notin misread \cup {TempDir} => load_bytes(t, e) \in {e.of, Nothing}
==========================================================================
