-------------------------- MODULE VfsStreamProofs --------------------------
(***************************************************************************)
(* A streamed VFS entry: no edit is lost, the books of its cache balance,  *)
(* and old bytes outlive a save only in the driver's hand, for sources of  *)
(* any length, any windows and any number of edits and changes.            *)
(***************************************************************************)
EXTENDS VfsStream, ByteCacheLemmas

-----------------------------------------------------------------------------
(* The inductive invariant. *)

Slots == {slot \in [key : [source : {Source}, chunk : Chunks], bytes : Nat,
                    len : 1 .. CHUNK_SIZE_BYTES, attribution : {"plugin"}] :
             slot.len = ChunkLen(SourceLen, slot.key.chunk)}

Ranges == {range \in Chunks \X Chunks : range[1] <= range[2]}

(* The driver sleeps, or is at a chunk of the first range of its queue, or, *)
(* with the queue done, at one of the range to refetch.                    *)
Awake == [pc : {"lookup", "read", "fill", "reread", "restore"}, queue : Seq(Ranges),
          vis : Ranges \cup {<< >>}, chunk : Chunks, bytes : Nat]

DriverOK(d) ==
    \/ d = Sleeping
    \/ /\ d \in Awake
       /\ d.pc \in {"lookup", "read", "fill"} =>
             d.queue # << >> /\ d.queue[1][1] <= d.chunk /\ d.chunk <= d.queue[1][2]
       /\ d.pc \in {"reread", "restore"} =>
             d.vis # << >> /\ d.vis[1] <= d.chunk /\ d.chunk <= d.vis[2]

CacheSideOK ==
    /\ IsCache(cache, Slots)
    /\ cache.limit \in Limits
    /\ demand \in Seq(Ranges)
    /\ visible \in Ranges
    /\ DriverOK(driver)

EditSideOK ==
    /\ device \in [Chunks -> Nat] /\ edit \in [Chunks -> Nat]
    /\ written \in [Chunks -> Nat] /\ written_at \in [Chunks -> Nat]
    /\ DOMAIN patch \subseteq Chunks
    /\ overlapped \subseteq Chunks
    /\ \/ save = NoSave
       \/ /\ save \in [pc : {"write", "invalidate"}, left : SUBSET DOMAIN patch]
          /\ save.left # {}

(* A write is never newer than the mount. *)
WritesAreOnDevice == \A c \in Chunks : written_at[c] <= device[c]

(* A save has written what it has gone past, and invalidates only after it  *)
(* has written everything.                                                 *)
SaveHasWritten ==
    \A c \in DOMAIN patch :
       \/ save.pc = "write" /\ c \notin save.left
       \/ save.pc = "invalidate"
       => written[c] = patch[c]

(* The chunks whose patch is dropped, or about to be: already invalidated. *)
Settled(c) == c \notin DOMAIN patch \/ (save.pc = "invalidate" /\ c \notin save.left)

CachedAreNew ==
    \A i \in 1 .. Len(cache.chunks), c \in Chunks :
       cache.chunks[i].key.chunk = c /\ Settled(c)
       => cache.chunks[i].bytes >= written_at[c] \/ c \in overlapped

InHandAreNew ==
    \A c \in Chunks :
       Settled(c) /\ InHand(c) => driver.bytes >= written_at[c] \/ c \in overlapped

EditInv == EditSideOK /\ NoEditLost /\ WritesAreOnDevice /\ SaveHasWritten

CacheInv == CacheSideOK /\ CachedAreNew /\ InHandAreNew

-----------------------------------------------------------------------------
(* The edits and their write-back. *)

LEMMA ChunksAreNat == Chunks \subseteq Nat
  BY StreamConstants DEF Chunks, ChunksOf

(* The first op of those left is one of them. *)
LEMMA FirstLeft ==
    ASSUME NEW S \in SUBSET Nat, S # {}
    PROVE  Min(S) \in S
  BY LeastOf DEF Min

LEMMA EditInitially == StreamInit => EditInv
  BY DEF StreamInit, EditInv, EditSideOK, NoEditLost, WritesAreOnDevice, SaveHasWritten, NoSave

(* Whoever touches neither the edits nor the mount. *)
LEMMA EditUntouched ==
    ASSUME EditInv, UNCHANGED <<device, editSide>>
    PROVE  EditInv'
  BY DEF EditInv, EditSideOK, NoEditLost, WritesAreOnDevice, SaveHasWritten, NoSave, editSide

(* Between saves. *)
LEMMA FreeMeansNoSave ==
    ASSUME EditSideOK, UiFree
    PROVE  save = NoSave
  BY DEF EditSideOK, UiFree, NoSave

LEMMA TypeKeeps ==
    ASSUME EditInv, NEW c \in Chunks, Type(c)
    PROVE  EditInv'
  <1>1. save = NoSave
    BY FreeMeansNoSave DEF EditInv, Type
  <1>2. /\ UNCHANGED <<device, written, written_at, save, overlapped>>
        /\ edit' = [edit EXCEPT ![c] = @ + 1]
        /\ patch' = [d \in DOMAIN patch \cup {c} |-> edit'[d]]
    BY DEF Type
  <1>3. EditSideOK'
    BY <1>1, <1>2 DEF EditInv, EditSideOK
  <1>4. NoEditLost'
    <2> SUFFICES ASSUME NEW d \in Chunks
                 PROVE  edit'[d] = IF d \in DOMAIN patch' THEN patch'[d] ELSE written'[d]
      BY DEF NoEditLost
    <2>1. CASE d \in DOMAIN patch \cup {c}
      BY <1>2, <2>1
    <2>2. CASE d \notin DOMAIN patch \cup {c}
      BY <1>2, <2>2 DEF EditInv, EditSideOK, NoEditLost
    <2> QED BY <2>1, <2>2
  <1>5. WritesAreOnDevice' /\ SaveHasWritten'
    BY <1>1, <1>2 DEF EditInv, WritesAreOnDevice, SaveHasWritten, NoSave
  <1> QED BY <1>3, <1>4, <1>5 DEF EditInv

LEMMA DeviceKeeps ==
    ASSUME EditInv, NEW c \in Chunks, DeviceChanges(c)
    PROVE  EditInv'
  <1>1. UNCHANGED editSide /\ device' = [device EXCEPT ![c] = @ + 1]
    BY DEF DeviceChanges
  <1>2. device' \in [Chunks -> Nat] /\ \A d \in Chunks : device'[d] >= device[d]
    BY <1>1 DEF EditInv, EditSideOK
  <1>3. EditSideOK' /\ NoEditLost' /\ SaveHasWritten'
    BY <1>1, <1>2 DEF EditInv, EditSideOK, NoEditLost, SaveHasWritten, NoSave, editSide
  <1>4. WritesAreOnDevice'
    BY <1>1, <1>2 DEF EditInv, EditSideOK, WritesAreOnDevice, editSide
  <1> QED BY <1>3, <1>4 DEF EditInv

LEMMA SaveBeginKeeps ==
    ASSUME EditInv, SaveBegin
    PROVE  EditInv'
  <1>1. /\ UNCHANGED <<device, edit, patch, written, written_at, overlapped>>
        /\ save' = [pc |-> "write", left |-> DOMAIN patch] /\ DOMAIN patch # {}
    BY DEF SaveBegin
  <1>2. EditSideOK'
    BY <1>1 DEF EditInv, EditSideOK
  <1> QED BY <1>1, <1>2 DEF EditInv, NoEditLost, WritesAreOnDevice, SaveHasWritten

(* The save under way. *)
LEMMA SavingLeft ==
    ASSUME EditSideOK, save.pc # "none"
    PROVE  /\ save \in [pc : {"write", "invalidate"}, left : SUBSET DOMAIN patch]
           /\ Min(save.left) \in save.left /\ save.left \subseteq DOMAIN patch
           /\ Min(save.left) \in Chunks
  <1>1. /\ save \in [pc : {"write", "invalidate"}, left : SUBSET DOMAIN patch]
        /\ save.left # {} /\ save.left \subseteq DOMAIN patch /\ DOMAIN patch \subseteq Chunks
    BY DEF EditSideOK, NoSave
  <1>2. PICK left : left = save.left
    OBVIOUS
  <1>3. left \in SUBSET Nat /\ left # {}
    BY <1>1, <1>2, ChunksAreNat
  <1>4. Min(left) \in left
    BY <1>3, FirstLeft
  <1> QED BY <1>1, <1>2, <1>4

LEMMA SaveWriteKeeps ==
    ASSUME EditInv, SaveWrite
    PROVE  EditInv'
  <1>1. PICK c : c = Min(save.left)
    OBVIOUS
  <1>2. save.pc = "write" /\ UNCHANGED <<edit, patch, overlapped>>
    BY DEF SaveWrite
  <1>3. /\ save \in [pc : {"write", "invalidate"}, left : SUBSET DOMAIN patch]
        /\ c \in save.left /\ c \in DOMAIN patch /\ c \in Chunks
    BY <1>1, <1>2, SavingLeft DEF EditInv
  <1>4. CASE save' = NoSave /\ UNCHANGED <<device, written, written_at>>
    BY <1>2, <1>4 DEF EditInv, EditSideOK, NoEditLost, WritesAreOnDevice, SaveHasWritten, NoSave
  <1>5. CASE /\ device' = [device EXCEPT ![c] = @ + 1]
             /\ written' = [written EXCEPT ![c] = patch[c]]
             /\ written_at' = [written_at EXCEPT ![c] = device'[c]]
             /\ save' = IF save.left = {c}
                        THEN [pc |-> "invalidate", left |-> DOMAIN patch]
                        ELSE [save EXCEPT !.left = @ \ {c}]
    <2>0. patch[c] = edit[c] /\ edit[c] \in Nat /\ device[c] + 1 \in Nat
      BY <1>3 DEF EditInv, EditSideOK, NoEditLost
    <2>1. /\ device' \in [Chunks -> Nat] /\ written' \in [Chunks -> Nat] /\ device'[c] = device[c] + 1
          /\ \A d \in Chunks : d # c => device'[d] = device[d] /\ written'[d] = written[d]
          /\ written'[c] = patch[c]
      BY <1>3, <1>5, <2>0 DEF EditInv, EditSideOK
    <2>2. /\ written_at' \in [Chunks -> Nat] /\ written_at'[c] = device'[c]
          /\ \A d \in Chunks : d # c => written_at'[d] = written_at[d]
      BY <1>3, <1>5, <2>0, <2>1 DEF EditInv, EditSideOK
    <2>3. WritesAreOnDevice'
      BY <2>1, <2>2 DEF EditInv, EditSideOK, WritesAreOnDevice
    <2>4. NoEditLost'
      BY <1>2, <1>3, <2>1 DEF EditInv, NoEditLost
    <2>5. CASE save.left = {c}
      <3>1. save' = [pc |-> "invalidate", left |-> DOMAIN patch]
        BY <1>5, <2>5
      <3>2. \A d \in DOMAIN patch : written'[d] = patch[d]
        BY <1>2, <1>3, <2>1, <2>5 DEF EditInv, EditSideOK, SaveHasWritten
      <3>3. EditSideOK'
        BY <1>2, <1>3, <2>1, <2>2, <3>1 DEF EditInv, EditSideOK
      <3> QED BY <1>2, <2>3, <2>4, <3>1, <3>2, <3>3 DEF EditInv, SaveHasWritten
    <2>6. CASE save.left # {c}
      <3>1. save' = [pc |-> "write", left |-> save.left \ {c}]
        BY <1>2, <1>3, <1>5, <2>6
      <3>2. \A d \in DOMAIN patch : d \notin save.left \ {c} => written'[d] = patch[d]
        BY <1>2, <1>3, <2>1 DEF EditInv, EditSideOK, SaveHasWritten
      <3>3. EditSideOK'
        BY <1>2, <1>3, <2>1, <2>2, <2>6, <3>1 DEF EditInv, EditSideOK
      <3> QED BY <1>2, <2>3, <2>4, <3>1, <3>2, <3>3 DEF EditInv, SaveHasWritten
    <2> QED BY <2>5, <2>6
  <1> QED BY <1>1, <1>4, <1>5 DEF SaveWrite

LEMMA SaveInvalidateKeeps ==
    ASSUME EditInv, SaveInvalidate
    PROVE  EditInv'
  <1>1. PICK c : c = Min(save.left)
    OBVIOUS
  <1>2. save.pc = "invalidate" /\ UNCHANGED <<device, edit, written, written_at>>
    BY DEF SaveInvalidate
  <1>3. /\ save \in [pc : {"write", "invalidate"}, left : SUBSET DOMAIN patch]
        /\ c \in save.left /\ c \in DOMAIN patch /\ c \in Chunks
    BY <1>1, <1>2, SavingLeft DEF EditInv
  <1>4. overlapped' \subseteq Chunks
    BY <1>1, <1>3 DEF SaveInvalidate, EditInv, EditSideOK
  <1>5. \A d \in DOMAIN patch : written[d] = patch[d]
    BY <1>2 DEF EditInv, SaveHasWritten
  <1>6. CASE save.left = {c}
    <2>1. save' = NoSave /\ DOMAIN patch' = {}
      BY <1>1, <1>6 DEF SaveInvalidate
    <2>2. NoEditLost'
      BY <1>2, <1>5, <2>1 DEF EditInv, NoEditLost
    <2> QED BY <1>2, <1>4, <2>1, <2>2
            DEF EditInv, EditSideOK, WritesAreOnDevice, SaveHasWritten
  <1>7. CASE save.left # {c}
    <2>1. UNCHANGED patch /\ save' = [pc |-> "invalidate", left |-> save.left \ {c}]
      BY <1>1, <1>2, <1>3, <1>7 DEF SaveInvalidate
    <2>2. EditSideOK'
      BY <1>2, <1>3, <1>4, <1>7, <2>1 DEF EditInv, EditSideOK
    <2> QED BY <1>2, <1>5, <2>1, <2>2 DEF EditInv, NoEditLost, WritesAreOnDevice, SaveHasWritten
  <1> QED BY <1>6, <1>7

LEMMA EditStep ==
    ASSUME EditInv, [StreamNext]_streamVars
    PROVE  EditInv'
  <1>1. CASE Paint \/ Scroll \/ DriverStep \/ UNCHANGED streamVars
    <2>1. UNCHANGED <<device, editSide>>
      BY <1>1 DEF Paint, Scroll, DriverStep, Tick, LookUp, ReadChunk, ReadFails, Fill, Reread,
                  Restore, streamVars
    <2> QED BY <2>1, EditUntouched
  <1>2. CASE SaveStep
    BY <1>2, SaveBeginKeeps, SaveWriteKeeps, SaveInvalidateKeeps DEF SaveStep
  <1>3. ASSUME NEW c \in Chunks, Type(c) \/ DeviceChanges(c) PROVE EditInv'
    BY <1>3, TypeKeeps, DeviceKeeps
  <1> QED BY <1>1, <1>2, <1>3 DEF StreamNext

LEMMA EditAlways == StreamSpec => []EditInv
  <1>1. EditInv /\ [StreamNext]_streamVars => EditInv'
    BY EditStep
  <1> QED BY <1>1, EditInitially, PTL DEF StreamSpec

(* No edit is lost: whatever a save got done before it failed, and whatever *)
(* is typed between saves, the last edit of a chunk is in the patch or on   *)
(* the mount (save_vfs_entry, swap_source).                                *)
THEOREM NoEditLostAlways == StreamSpec => []NoEditLost
  <1>1. EditInv => NoEditLost
    BY DEF EditInv
  <1> QED BY <1>1, EditAlways, PTL

-----------------------------------------------------------------------------
(* Chunks, slots and ranges. *)

LEMMA SlotsSized == Sized(Slots)
  BY CacheConstants DEF Sized, Slots

(* Every chunk up to one of the source is one of it. *)
LEMMA ChunkBelow ==
    ASSUME NEW d \in Chunks, NEW c \in Nat, c <= d
    PROVE  c \in Chunks
  <1> DEFINE K == CHUNK_SIZE_BYTES
  <1>1. K \in Nat /\ K # 0 /\ d \in Nat /\ SourceLen \in Nat
    BY CacheConstants, StreamConstants DEF Chunks, ChunksOf
  <1>2. d * K < SourceLen /\ d <= SourceLen
    BY <1>1 DEF Chunks, ChunksOf
  <1> HIDE DEF K
  <1>3. PICK e \in Nat : d = c + e
    <2>1. d - c \in Nat /\ d = c + (d - c)
      BY <1>1
    <2> QED BY <2>1
  <1>4. c * K \in Nat /\ e * K \in Nat /\ d * K = c * K + e * K
    BY <1>1, <1>3
  <1>5. c * K < SourceLen /\ c \in 0 .. SourceLen
    BY <1>1, <1>2, <1>4
  <1> QED BY <1>5 DEF Chunks, ChunksOf, K

(* What the driver stores fits any cache of the program. *)
LEMMA NewSlotIs ==
    ASSUME NEW c \in Chunks, NEW bytes \in Nat, NEW limit \in Limits
    PROVE  NewSlot(c, bytes) \in Slots /\ NewSlot(c, bytes).len <= limit
  <1>1. c \in Nat /\ SourceLen \in Nat /\ c \in ChunksOf(SourceLen) /\ c <= c
    BY ChunksAreNat, StreamConstants DEF Chunks
  <1>2. ChunkLen(SourceLen, c) \in 1 .. CHUNK_SIZE_BYTES
    BY <1>1, ChunkLenIs
  <1>3. NewSlot(c, bytes) \in Slots
    BY <1>2 DEF NewSlot, KeyFor, Slots
  <1>4. limit \in Nat /\ CHUNK_SIZE_BYTES \in Nat /\ CHUNK_SIZE_BYTES <= limit
    BY CacheConstants
  <1> QED BY <1>2, <1>3, <1>4 DEF NewSlot

LEMMA RangeIs ==
    ASSUME NEW range \in Ranges
    PROVE  /\ range[1] \in Chunks /\ range[2] \in Chunks /\ range[1] \in Nat /\ range[2] \in Nat
           /\ range[1] <= range[2] /\ range = <<range[1], range[2]>>
           /\ \A c \in Nat : range[1] <= c /\ c <= range[2] => c \in Chunks
  <1>1. /\ range[1] \in Chunks /\ range[2] \in Chunks /\ range[1] <= range[2]
        /\ range = <<range[1], range[2]>>
    BY DEF Ranges
  <1> QED BY <1>1, ChunksAreNat, ChunkBelow

LEMMA ViewportsAreRanges == Viewports \subseteq Ranges
  BY StreamConstants DEF Ranges, Chunks

(* The runs of missing chunks are ranges. *)
LEMMA CoalescedIs ==
    ASSUME NEW runs \in Seq(Ranges), NEW c \in Chunks
    PROVE  Coalesced(runs, c) \in Seq(Ranges)
  <1>1. c \in Nat
    BY ChunksAreNat
  <1>2. CASE runs # << >> /\ runs[Len(runs)][2] + 1 = c
    <2>1. PICK k \in 1 .. Len(runs) : k = Len(runs)
      BY <1>2
    <2>2. PICK run \in Ranges : run = runs[k]
      OBVIOUS
    <2>3. run[1] \in Chunks /\ run[1] \in Nat /\ run[2] \in Nat /\ run[1] <= run[2]
      BY RangeIs
    <2>4. run[1] <= c
      BY <1>1, <1>2, <2>1, <2>2, <2>3
    <2>5. <<run[1], c>> \in Ranges
      BY <2>3, <2>4 DEF Ranges
    <2>6. Coalesced(runs, c) = [runs EXCEPT ![k] = <<run[1], c>>]
      BY <1>2, <2>1, <2>2 DEF Coalesced
    <2> QED BY <2>5, <2>6
  <1>3. CASE ~(runs # << >> /\ runs[Len(runs)][2] + 1 = c)
    <2>1. <<c, c>> \in Ranges
      BY <1>1 DEF Ranges
    <2>2. Coalesced(runs, c) = Append(runs, <<c, c>>)
      BY <1>3 DEF Coalesced
    <2> QED BY <2>1, <2>2
  <1> QED BY <1>2, <1>3

-----------------------------------------------------------------------------
(* peek *)

(* One chunk of a peek: the k-th of the range. *)
Peeked(h, first, k) ==
    IF Holds(h.cache, KeyFor(first + k - 1))
    THEN [h EXCEPT !.cache = Touch(@, KeyFor(first + k - 1))]
    ELSE [h EXCEPT !.missing = Coalesced(@, first + k - 1)]

(* A peek looks at the chunks of its range one by one. *)
LEMMA PeekRuns ==
    ASSUME NEW g, NEW range \in Ranges, NEW n \in Nat, n = range[2] - range[1] + 1
    PROVE  \E p : /\ p[0] = [cache |-> g, missing |-> << >>]
                  /\ \A k \in 1 .. n : p[k] = Peeked(p[k - 1], range[1], k)
                  /\ peek(g, range) = p[n]
  <1> DEFINE start == [cache |-> g, missing |-> << >>]
             Eqn(f, m) == f = [k \in 0 .. m |-> IF k = 0 THEN start ELSE Peeked(f[k - 1], range[1], k)]
             I == {m \in 0 .. n : \E f : Eqn(f, m)}
             p == CHOOSE f : Eqn(f, n)
  <1>0. n \in Nat
    OBVIOUS
  <1>1. peek(g, range) = p[n]
    BY DEF peek, Peeked
  <1> HIDE DEF start
  <1>2. 0 \in I
    <2> DEFINE f == [k \in 0 .. 0 |-> start]
    <2>1. Eqn(f, 0)
      OBVIOUS
    <2> HIDE DEF f, Eqn
    <2> QED BY <2>1, <1>0
  <1>3. ASSUME NEW m \in 1 .. n, m - 1 \in I PROVE m \in I
    <2>1. PICK f : Eqn(f, m - 1)
      BY <1>3
    <2> DEFINE t == [k \in 0 .. m |-> IF k < m THEN f[k] ELSE Peeked(f[m - 1], range[1], m)]
    <2>2. \A k \in 0 .. m - 1 : f[k] = IF k = 0 THEN start ELSE Peeked(f[k - 1], range[1], k)
      BY <2>1, Zenon
    <2>3. ASSUME NEW k \in 0 .. m PROVE t[k] = IF k = 0 THEN start ELSE Peeked(t[k - 1], range[1], k)
      <3>1. CASE k = 0
        BY <3>1, <2>2, <1>0
      <3>2. CASE k # 0
        <4>1. k - 1 \in 0 .. m /\ k - 1 < m
          BY <3>2, <1>0
        <4>2. t[k - 1] = f[k - 1]
          BY <4>1
        <4>3. CASE k = m
          <5>1. t[k] = Peeked(f[m - 1], range[1], m)
            BY <4>3, <1>0
          <5> QED BY <3>2, <4>2, <4>3, <5>1
        <4>4. CASE k < m
          <5>1. k \in 0 .. m - 1 /\ t[k] = f[k]
            BY <4>4, <1>0
          <5>2. f[k] = Peeked(f[k - 1], range[1], k)
            BY <5>1, <2>2, <3>2
          <5> HIDE DEF t
          <5> QED BY <3>2, <4>2, <5>1, <5>2
        <4> QED BY <4>3, <4>4, <1>0
      <3> QED BY <3>1, <3>2
    <2>4. t = [k \in 0 .. m |-> t[k]]
      OBVIOUS
    <2> HIDE DEF t
    <2>5. Eqn(t, m)
      BY <2>3, <2>4
    <2>6. m \in 0 .. n
      BY <1>0
    <2> HIDE DEF Eqn
    <2> QED BY <2>5, <2>6
  <1> HIDE DEF I
  <1>4. n \in I
    <2>1. \A k \in 0 .. n : k \in I
      BY <1>0, <1>2, <1>3, Upward
    <2> QED BY <2>1, <1>0
  <1>5. Eqn(p, n)
    <2> HIDE DEF Eqn
    <2>1. \E f : Eqn(f, n)
      BY <1>4 DEF I
    <2> QED BY <2>1 DEF p
  <1> HIDE DEF p
  <1>6. \A k \in 0 .. n : p[k] = IF k = 0 THEN start ELSE Peeked(p[k - 1], range[1], k)
    BY <1>5, Zenon
  <1>7. p[0] = start
    BY <1>6, <1>0
  <1>8. ASSUME NEW k \in 1 .. n PROVE p[k] = Peeked(p[k - 1], range[1], k)
    <2>1. k \in 0 .. n /\ k # 0
      BY <1>0
    <2> QED BY <1>6, <2>1
  <1> QED BY <1>1, <1>7, <1>8 DEF start

(* What a peek leaves of the cache, and what it reports. *)
PeekOK(h, g) ==
    /\ h = [cache |-> h.cache, missing |-> h.missing]
    /\ IsCache(h.cache, Slots)
    /\ h.cache.limit = g.limit /\ h.cache.used_bytes = g.used_bytes
    /\ From(h.cache.chunks, g.chunks)
    /\ \A key : Holds(g, key) => Holds(h.cache, key)
    /\ BooksBalance(g) => BooksBalance(h.cache)
    /\ h.missing \in Seq(Ranges)

LEMMA PeekedKeeps ==
    ASSUME NEW g, NEW h, PeekOK(h, g), NEW first \in Nat, NEW k \in Nat, first + k - 1 \in Chunks
    PROVE  PeekOK(Peeked(h, first, k), g)
  <1>1. PICK c \in Chunks : c = first + k - 1
    OBVIOUS
  <1>2. PICK q : q = Peeked(h, first, k)
    OBVIOUS
  <1>3. CASE Holds(h.cache, KeyFor(c))
    <2>1. PICK touched : touched = Touch(h.cache, KeyFor(c))
      OBVIOUS
    <2>2. q = [cache |-> touched, missing |-> h.missing]
      BY <1>1, <1>2, <1>3, <2>1 DEF Peeked, PeekOK
    <2>3. /\ IsCache(touched, Slots) /\ touched.limit = h.cache.limit
          /\ touched.used_bytes = h.cache.used_bytes /\ From(touched.chunks, h.cache.chunks)
          /\ BooksBalance(h.cache) => BooksBalance(touched)
      BY <2>1, TouchIs, SlotsSized DEF PeekOK
    <2>4. \A key : Holds(h.cache, key) => Holds(touched, key)
      BY <2>1, TouchHolds DEF PeekOK
    <2>5. From(touched.chunks, g.chunks)
      BY <2>3 DEF From, PeekOK
    <2>6. q.cache = touched /\ q.missing = h.missing
      BY <2>2
    <2>7. PeekOK(q, g)
      BY <2>2, <2>3, <2>4, <2>5, <2>6 DEF PeekOK
    <2> QED BY <1>2, <2>7
  <1>4. CASE ~Holds(h.cache, KeyFor(c))
    <2>1. q = [cache |-> h.cache, missing |-> Coalesced(h.missing, c)]
      BY <1>1, <1>2, <1>4 DEF Peeked, PeekOK
    <2>2. Coalesced(h.missing, c) \in Seq(Ranges)
      BY CoalescedIs DEF PeekOK
    <2>3. q.cache = h.cache /\ q.missing = Coalesced(h.missing, c)
      BY <2>1
    <2>4. PeekOK(q, g)
      BY <2>1, <2>2, <2>3 DEF PeekOK
    <2> QED BY <1>2, <2>4
  <1> QED BY <1>3, <1>4

LEMMA PeekIs ==
    ASSUME NEW g, IsCache(g, Slots), NEW range \in Ranges
    PROVE  PeekOK(peek(g, range), g)
  <1>1. /\ range[1] \in Nat /\ range[2] \in Nat /\ range[1] <= range[2]
        /\ \A c \in Nat : range[1] <= c /\ c <= range[2] => c \in Chunks
    BY RangeIs
  <1>2. PICK n \in Nat : n = range[2] - range[1] + 1
    <2>1. range[2] - range[1] + 1 \in Nat
      BY <1>1
    <2> QED BY <2>1
  <1>3. PICK p : /\ p[0] = [cache |-> g, missing |-> << >>]
                 /\ \A k \in 1 .. n : p[k] = Peeked(p[k - 1], range[1], k)
                 /\ peek(g, range) = p[n]
    BY <1>2, PeekRuns
  <1> DEFINE I == {k \in 0 .. n : PeekOK(p[k], g)}
  <1>4. 0 \in I
    <2>1. PeekOK([cache |-> g, missing |-> << >>], g)
      BY DEF PeekOK, From
    <2> QED BY <1>3, <2>1
  <1>5. ASSUME NEW k \in 1 .. n, k - 1 \in I PROVE k \in I
    <2>1. range[1] + k - 1 \in Chunks /\ k \in Nat /\ k \in 0 .. n
      BY <1>1, <1>2
    <2>2. PICK h : h = p[k - 1]
      OBVIOUS
    <2>3. PeekOK(h, g)
      BY <1>5, <2>2
    <2>4. PeekOK(Peeked(h, range[1], k), g)
      BY <1>1, <2>1, <2>3, PeekedKeeps
    <2> QED BY <1>3, <2>1, <2>2, <2>4
  <1> HIDE DEF I
  <1>6. \A k \in 0 .. n : k \in I
    BY <1>2, <1>4, <1>5, Upward
  <1>7. n \in I
    BY <1>6
  <1> QED BY <1>3, <1>7 DEF I

-----------------------------------------------------------------------------
(* Where the driver goes. *)

(* In order, and with no bytes in hand. *)
EmptyHanded(d) == DriverOK(d) /\ d.pc \notin {"fill", "restore"}

LEMMA SleepingOK == EmptyHanded(Sleeping)
  BY DEF EmptyHanded, DriverOK, Sleeping

LEMMA BatchOK ==
    ASSUME NEW queue \in Seq(Ranges), NEW vis \in Ranges \cup {<< >>}
    PROVE  EmptyHanded(Batch(queue, vis))
  <1>1. CASE queue # << >>
    <2>1. PICK range \in Ranges : range = queue[1]
      BY <1>1
    <2>2. PICK d : d = [pc |-> "lookup", queue |-> queue, vis |-> vis, chunk |-> range[1], bytes |-> 0]
      OBVIOUS
    <2>3. Batch(queue, vis) = d
      BY <1>1, <2>1, <2>2 DEF Batch
    <2>4. d \in Awake /\ d.pc = "lookup" /\ d.queue = queue /\ d.chunk = range[1]
      BY <2>2, RangeIs DEF Awake
    <2>5. range[1] <= range[1] /\ range[1] <= range[2]
      BY RangeIs
    <2>6. EmptyHanded(d)
      BY <1>1, <2>1, <2>4, <2>5 DEF EmptyHanded, DriverOK
    <2> QED BY <2>3, <2>6
  <1>2. CASE queue = << >> /\ vis # << >>
    <2>1. PICK d : d = [pc |-> "reread", queue |-> << >>, vis |-> vis, chunk |-> vis[1], bytes |-> 0]
      OBVIOUS
    <2>2. Batch(queue, vis) = d /\ vis \in Ranges
      BY <1>2, <2>1 DEF Batch
    <2>3. d \in Awake /\ d.pc = "reread" /\ d.vis = vis /\ d.chunk = vis[1]
      BY <2>1, <2>2, RangeIs DEF Awake
    <2>4. vis[1] <= vis[1] /\ vis[1] <= vis[2]
      BY <2>2, RangeIs
    <2>5. EmptyHanded(d)
      BY <1>2, <2>3, <2>4 DEF EmptyHanded, DriverOK
    <2> QED BY <2>2, <2>5
  <1>3. CASE queue = << >> /\ vis = << >>
    BY <1>3, SleepingOK DEF Batch
  <1> QED BY <1>1, <1>2, <1>3

(* The driver in a prefetch. *)
LEMMA Prefetching ==
    ASSUME NEW d, DriverOK(d), d.pc \in {"lookup", "read", "fill"}
    PROVE  /\ d \in Awake /\ d.queue # << >> /\ d.queue[1] \in Ranges
           /\ d.queue[1][1] <= d.chunk /\ d.chunk <= d.queue[1][2]
           /\ Tail(d.queue) \in Seq(Ranges)
  <1>1. d \in Awake /\ d.queue # << >> /\ d.queue[1][1] <= d.chunk /\ d.chunk <= d.queue[1][2]
    BY DEF DriverOK, Sleeping
  <1>2. d.queue \in Seq(Ranges)
    BY <1>1 DEF Awake
  <1> QED BY <1>1, <1>2

LEMMA AfterErrorOK ==
    ASSUME NEW d, DriverOK(d), d.pc \in {"lookup", "read", "fill"}
    PROVE  EmptyHanded(AfterError(d))
  <1>1. d \in Awake /\ Tail(d.queue) \in Seq(Ranges)
    BY Prefetching
  <1>2. d.vis \in Ranges \cup {<< >>}
    BY <1>1 DEF Awake
  <1> QED BY <1>1, <1>2, BatchOK DEF AfterError

LEMMA AfterChunkOK ==
    ASSUME NEW d, DriverOK(d), d.pc \in {"lookup", "read", "fill"}
    PROVE  EmptyHanded(AfterChunk(d))
  <1>1. /\ d \in Awake /\ d.queue # << >> /\ d.queue[1] \in Ranges
        /\ d.queue[1][1] <= d.chunk /\ d.chunk <= d.queue[1][2]
    BY Prefetching
  <1>2. PICK range \in Ranges : range = d.queue[1]
    BY <1>1
  <1>3. d.chunk \in Nat /\ d.chunk \in Chunks
    BY <1>1, ChunksAreNat DEF Awake
  <1>4. /\ range[1] \in Nat /\ range[2] \in Nat
        /\ \A c \in Nat : range[1] <= c /\ c <= range[2] => c \in Chunks
    BY RangeIs
  <1>5. CASE d.chunk < range[2]
    <2>1. PICK next \in Nat : next = d.chunk + 1
      BY <1>3
    <2>2. next \in Chunks /\ range[1] <= next /\ next <= range[2]
      BY <1>1, <1>2, <1>3, <1>4, <1>5, <2>1
    <2>3. PICK e : e = [d EXCEPT !.chunk = next, !.pc = "lookup", !.bytes = 0]
      OBVIOUS
    <2>4. AfterChunk(d) = e
      BY <1>2, <1>5, <2>1, <2>3 DEF AfterChunk
    <2>5. e \in Awake /\ e.pc = "lookup" /\ e.queue = d.queue /\ e.chunk = next
      BY <1>1, <2>2, <2>3 DEF Awake
    <2>6. EmptyHanded(e)
      BY <1>1, <1>2, <2>2, <2>5 DEF EmptyHanded, DriverOK
    <2> QED BY <2>4, <2>6
  <1>6. CASE ~(d.chunk < range[2])
    <2>1. AfterChunk(d) = AfterError(d)
      BY <1>2, <1>6 DEF AfterChunk, AfterError
    <2> QED BY <2>1, AfterErrorOK
  <1> QED BY <1>5, <1>6

(* The driver in a refetch. *)
LEMMA Refetching ==
    ASSUME NEW d, DriverOK(d), d.pc \in {"reread", "restore"}
    PROVE  d \in Awake /\ d.vis \in Ranges /\ d.vis[1] <= d.chunk /\ d.chunk <= d.vis[2]
  BY DEF DriverOK, Sleeping, Awake

LEMMA AfterRereadOK ==
    ASSUME NEW d, DriverOK(d), d.pc \in {"reread", "restore"}
    PROVE  EmptyHanded(AfterReread(d))
  <1>1. d \in Awake /\ d.vis \in Ranges /\ d.vis[1] <= d.chunk /\ d.chunk <= d.vis[2]
    BY Refetching
  <1>2. PICK range \in Ranges : range = d.vis
    BY <1>1
  <1>3. d.chunk \in Nat /\ d.chunk \in Chunks
    BY <1>1, ChunksAreNat DEF Awake
  <1>4. /\ range[1] \in Nat /\ range[2] \in Nat /\ range # << >>
        /\ \A c \in Nat : range[1] <= c /\ c <= range[2] => c \in Chunks
    BY RangeIs
  <1>5. CASE d.chunk < range[2]
    <2>1. PICK next \in Nat : next = d.chunk + 1
      BY <1>3
    <2>2. next \in Chunks /\ range[1] <= next /\ next <= range[2]
      BY <1>1, <1>2, <1>3, <1>4, <1>5, <2>1
    <2>3. PICK e : e = [d EXCEPT !.chunk = next, !.pc = "reread", !.bytes = 0]
      OBVIOUS
    <2>4. AfterReread(d) = e
      BY <1>2, <1>5, <2>1, <2>3 DEF AfterReread
    <2>5. e \in Awake /\ e.pc = "reread" /\ e.vis = d.vis /\ e.chunk = next
      BY <1>1, <2>2, <2>3 DEF Awake
    <2>6. EmptyHanded(e)
      BY <1>2, <1>4, <2>2, <2>5 DEF EmptyHanded, DriverOK
    <2> QED BY <2>4, <2>6
  <1>6. CASE ~(d.chunk < range[2])
    BY <1>2, <1>6, SleepingOK DEF AfterReread
  <1> QED BY <1>5, <1>6

-----------------------------------------------------------------------------
(* Each step keeps the cache in order and its bytes new. *)

LEMMA NewFrom ==
    ASSUME CachedAreNew, UNCHANGED editSide, From(cache'.chunks, cache.chunks)
    PROVE  CachedAreNew'
  BY DEF CachedAreNew, From, editSide, Settled

LEMMA HandEmpty ==
    ASSUME EmptyHanded(driver')
    PROVE  InHandAreNew'
  BY DEF InHandAreNew, InHand, EmptyHanded

(* Fewer chunks are settled than before. *)
LEMMA SettledLess ==
    ASSUME CacheInv, UNCHANGED <<cache, driver>>, overlapped \subseteq overlapped',
           \A c \in Chunks : Settled(c)' => Settled(c) /\ written_at'[c] = written_at[c]
    PROVE  CachedAreNew' /\ InHandAreNew'
  <1>1. CachedAreNew'
    BY DEF CacheInv, CachedAreNew
  <1>2. InHandAreNew'
    BY DEF CacheInv, InHandAreNew, InHand
  <1> QED BY <1>1, <1>2

LEMMA CacheInitially == StreamInit => CacheInv
  <1> SUFFICES ASSUME StreamInit PROVE CacheInv
    OBVIOUS
  <1>1. PICK limit \in Limits : cache = EmptyCache(limit)
    BY DEF StreamInit
  <1>2. cache.limit = limit /\ cache.chunks = << >> /\ limit \in Nat
    BY <1>1, CacheConstants DEF EmptyCache
  <1>3. IsCache(cache, Slots)
    <2>1. Distinct(<< >>) /\ << >> \in Seq(Slots)
      BY DEF Distinct
    <2> QED BY <1>1, <1>2, <2>1 DEF IsCache, EmptyCache
  <1>4. CacheSideOK
    <2>1. visible \in Ranges /\ DriverOK(driver) /\ demand \in Seq(Ranges)
      BY ViewportsAreRanges, SleepingOK DEF StreamInit, EmptyHanded
    <2> QED BY <1>2, <1>3, <2>1 DEF CacheSideOK
  <1>5. CachedAreNew
    BY <1>2 DEF CachedAreNew
  <1>6. InHandAreNew
    BY DEF StreamInit, InHandAreNew, InHand, Sleeping
  <1> QED BY <1>4, <1>5, <1>6 DEF CacheInv

LEMMA PaintKeeps ==
    ASSUME CacheInv, Paint
    PROVE  CacheInv'
  <1>1. PICK seen : seen = peek(cache, visible)
    OBVIOUS
  <1>2. /\ cache' = seen.cache /\ demand' = demand \o seen.missing
        /\ UNCHANGED <<visible, driver, device, editSide>>
    BY <1>1 DEF Paint
  <1>3. PeekOK(seen, cache)
    BY <1>1, PeekIs DEF CacheInv, CacheSideOK
  <1>4. /\ IsCache(cache', Slots) /\ cache'.limit = cache.limit
        /\ From(cache'.chunks, cache.chunks) /\ demand' \in Seq(Ranges)
    BY <1>2, <1>3 DEF PeekOK, CacheInv, CacheSideOK
  <1>5. CacheSideOK'
    BY <1>2, <1>4 DEF CacheInv, CacheSideOK
  <1>6. CachedAreNew'
    BY <1>2, <1>4, NewFrom DEF CacheInv
  <1>7. InHandAreNew'
    BY <1>2 DEF CacheInv, InHandAreNew, InHand, Settled, editSide
  <1> QED BY <1>5, <1>6, <1>7 DEF CacheInv

(* The cache and the bytes in hand stay as they are. *)
LEMMA CacheUntouched ==
    ASSUME CacheInv, UNCHANGED <<cache, driver, editSide>>,
           demand' \in Seq(Ranges), visible' \in Ranges
    PROVE  CacheInv'
  BY DEF CacheInv, CacheSideOK, CachedAreNew, InHandAreNew, InHand, Settled, editSide

(* The driver goes on with empty hands. *)
LEMMA DriverGoes ==
    ASSUME CacheInv, UNCHANGED <<visible, editSide>>, EmptyHanded(driver'),
           demand' \in Seq(Ranges), IsCache(cache', Slots), cache'.limit = cache.limit,
           CachedAreNew'
    PROVE  CacheInv'
  <1>1. InHandAreNew'
    BY HandEmpty
  <1> QED BY <1>1 DEF CacheInv, CacheSideOK, EmptyHanded

LEMMA ScrollKeeps ==
    ASSUME CacheInv, Scroll
    PROVE  CacheInv'
  BY CacheUntouched, ViewportsAreRanges DEF Scroll, CacheInv, CacheSideOK

LEMMA TickKeeps ==
    ASSUME CacheInv, Tick
    PROVE  CacheInv'
  <1>1. PICK vis \in {visible, << >>} : driver' = Batch(demand, vis)
    BY DEF Tick
  <1>2. UNCHANGED <<cache, visible, editSide>> /\ demand' = << >>
    BY DEF Tick
  <1>3. EmptyHanded(driver')
    BY <1>1, BatchOK DEF CacheInv, CacheSideOK
  <1>4. CachedAreNew' /\ demand' \in Seq(Ranges)
    BY <1>2 DEF CacheInv, CachedAreNew, Settled, editSide
  <1> QED BY <1>2, <1>3, <1>4, DriverGoes DEF CacheInv, CacheSideOK

LEMMA LookUpKeeps ==
    ASSUME CacheInv, LookUp
    PROVE  CacheInv'
  <1>1. /\ cache' = Touch(cache, KeyFor(driver.chunk)) /\ driver.pc = "lookup"
        /\ UNCHANGED <<demand, visible, editSide>>
    BY DEF LookUp
  <1>2. IsCache(cache', Slots) /\ cache'.limit = cache.limit /\ From(cache'.chunks, cache.chunks)
    BY <1>1, TouchIs, SlotsSized DEF CacheInv, CacheSideOK
  <1>3. CachedAreNew'
    BY <1>1, <1>2, NewFrom DEF CacheInv
  <1>4. EmptyHanded(driver')
    <2>1. DriverOK(driver)
      BY DEF CacheInv, CacheSideOK
    <2>2. CASE driver' = AfterChunk(driver)
      BY <1>1, <2>1, <2>2, AfterChunkOK
    <2>3. CASE driver' = [driver EXCEPT !.pc = "read"]
      <3>1. /\ driver \in Awake /\ driver.queue # << >> /\ driver.queue[1][1] <= driver.chunk
            /\ driver.chunk <= driver.queue[1][2]
        BY <1>1, <2>1, Prefetching
      <3>2. /\ driver' \in Awake /\ driver'.pc = "read" /\ driver'.queue = driver.queue
            /\ driver'.chunk = driver.chunk
        BY <2>3, <3>1 DEF Awake
      <3> QED BY <3>1, <3>2 DEF EmptyHanded, DriverOK
    <2> QED BY <2>2, <2>3 DEF LookUp, Goes
  <1> QED BY <1>1, <1>2, <1>3, <1>4, DriverGoes DEF CacheInv, CacheSideOK

(* The driver takes bytes of the mount, which are as new as any write. *)
LEMMA TakingKeeps ==
    ASSUME CacheInv, EditInv, driver \in Awake, UNCHANGED <<cache, demand, visible, editSide>>,
           NEW pc, \/ pc = "fill" /\ driver.pc = "read"
                   \/ pc = "restore" /\ driver.pc = "reread",
           driver' = [driver EXCEPT !.pc = pc, !.bytes = device[driver.chunk]]
    PROVE  CacheInv'
  <1>1. driver.chunk \in Chunks
    BY DEF Awake
  <1>2. device[driver.chunk] \in Nat /\ written_at[driver.chunk] \in Nat
        /\ device[driver.chunk] >= written_at[driver.chunk]
    BY <1>1 DEF EditInv, EditSideOK, WritesAreOnDevice
  <1>3. /\ driver' \in Awake /\ driver'.pc = pc /\ driver'.queue = driver.queue
        /\ driver'.vis = driver.vis /\ driver'.chunk = driver.chunk
        /\ driver'.bytes = device[driver.chunk]
    BY <1>2 DEF Awake
  <1>4. DriverOK(driver')
    <2>1. DriverOK(driver)
      BY DEF CacheInv, CacheSideOK
    <2>2. CASE pc = "fill"
      <3>1. /\ driver.queue # << >> /\ driver.queue[1][1] <= driver.chunk
            /\ driver.chunk <= driver.queue[1][2]
        BY <2>1, <2>2, Prefetching
      <3> QED BY <1>3, <2>2, <3>1 DEF DriverOK
    <2>3. CASE pc = "restore"
      <3>1. driver.vis \in Ranges /\ driver.vis[1] <= driver.chunk /\ driver.chunk <= driver.vis[2]
        BY <2>1, <2>3, Refetching
      <3>2. driver.vis # << >>
        BY <3>1, RangeIs
      <3> QED BY <1>3, <2>3, <3>1, <3>2 DEF DriverOK
    <2> QED BY <2>2, <2>3
  <1>5. CacheSideOK'
    BY <1>4 DEF CacheInv, CacheSideOK
  <1>6. CachedAreNew'
    BY DEF CacheInv, CachedAreNew, Settled, editSide
  <1>7. InHandAreNew'
    BY <1>2, <1>3 DEF InHandAreNew, InHand, editSide
  <1> QED BY <1>5, <1>6, <1>7 DEF CacheInv

LEMMA ReadChunkKeeps ==
    ASSUME CacheInv, EditInv, ReadChunk
    PROVE  CacheInv'
  <1>1. driver \in Awake
    BY Prefetching DEF ReadChunk, CacheInv, CacheSideOK
  <1> QED BY <1>1, TakingKeeps DEF ReadChunk

LEMMA RereadKeeps ==
    ASSUME CacheInv, EditInv, Reread
    PROVE  CacheInv'
  <1>1. driver \in Awake
    BY Refetching DEF Reread, CacheInv, CacheSideOK
  <1> QED BY <1>1, TakingKeeps DEF Reread

LEMMA ReadFailsKeeps ==
    ASSUME CacheInv, ReadFails
    PROVE  CacheInv'
  <1>1. UNCHANGED <<cache, demand, visible, editSide>>
    BY DEF ReadFails
  <1>2. EmptyHanded(driver')
    BY AfterErrorOK, SleepingOK DEF ReadFails, Goes, CacheInv, CacheSideOK
  <1>3. CachedAreNew'
    BY <1>1 DEF CacheInv, CachedAreNew, Settled, editSide
  <1> QED BY <1>1, <1>2, <1>3, DriverGoes DEF CacheInv, CacheSideOK

(* The bytes in hand enter the cache. *)
LEMMA NewSlotEnters ==
    ASSUME CacheInv, driver \in Awake, driver.pc \in {"fill", "restore"}, UNCHANGED editSide,
           NEW new, new = NewSlot(driver.chunk, driver.bytes),
           FromOr(cache'.chunks, cache.chunks, new)
    PROVE  CachedAreNew'
  <1>1. new.key.chunk = driver.chunk /\ new.bytes = driver.bytes /\ driver.chunk \in Chunks
    BY DEF NewSlot, KeyFor, Awake
  <1>2. InHand(driver.chunk)
    BY DEF InHand
  <1> SUFFICES ASSUME NEW i \in 1 .. Len(cache'.chunks), NEW c \in Chunks,
                      cache'.chunks[i].key.chunk = c, Settled(c)'
               PROVE  cache'.chunks[i].bytes >= written_at[c] \/ c \in overlapped
    BY DEF CachedAreNew, editSide
  <1>3. Settled(c)
    BY DEF Settled, editSide
  <1>4. CASE cache'.chunks[i] = new
    BY <1>1, <1>2, <1>3, <1>4 DEF CacheInv, InHandAreNew
  <1>5. CASE \E j \in 1 .. Len(cache.chunks) : cache'.chunks[i] = cache.chunks[j]
    BY <1>3, <1>5 DEF CacheInv, CachedAreNew
  <1> QED BY <1>4, <1>5 DEF FromOr

LEMMA FillKeeps ==
    ASSUME CacheInv, Fill
    PROVE  CacheInv'
  <1>1. DriverOK(driver) /\ IsCache(cache, Slots) /\ cache.limit \in Limits
    BY DEF CacheInv, CacheSideOK
  <1>2. driver.pc = "fill" /\ driver' = AfterChunk(driver) /\ UNCHANGED <<demand, visible, editSide>>
    BY DEF Fill, Goes
  <1>3. driver \in Awake /\ driver.chunk \in Chunks /\ driver.bytes \in Nat
    BY <1>1, <1>2, Prefetching DEF Awake
  <1>4. PICK new : new = NewSlot(driver.chunk, driver.bytes)
    OBVIOUS
  <1>5. new \in Slots /\ new.len <= cache.limit
    BY <1>1, <1>3, <1>4, NewSlotIs
  <1>6. cache' = fill_chunk(cache, new)
    BY <1>4 DEF Fill
  <1>7. IsCache(cache', Slots) /\ cache'.limit = cache.limit /\ FromOr(cache'.chunks, cache.chunks, new)
    BY <1>1, <1>5, <1>6, FillIs, SlotsSized
  <1>8. CachedAreNew'
    BY <1>2, <1>3, <1>4, <1>7, NewSlotEnters
  <1>9. EmptyHanded(driver')
    BY <1>1, <1>2, AfterChunkOK
  <1> QED BY <1>2, <1>7, <1>8, <1>9, DriverGoes DEF CacheInv, CacheSideOK

LEMMA RestoreKeeps ==
    ASSUME CacheInv, Restore
    PROVE  CacheInv'
  <1>1. DriverOK(driver) /\ IsCache(cache, Slots) /\ cache.limit \in Limits
    BY DEF CacheInv, CacheSideOK
  <1>2. /\ driver.pc = "restore" /\ driver' = AfterReread(driver)
        /\ UNCHANGED <<demand, visible, editSide>>
    BY DEF Restore, Goes
  <1>3. driver \in Awake /\ driver.chunk \in Chunks /\ driver.bytes \in Nat
    BY <1>1, <1>2, Refetching DEF Awake
  <1>4. PICK new : new = NewSlot(driver.chunk, driver.bytes)
    OBVIOUS
  <1>5. new \in Slots /\ new.len <= cache.limit
    BY <1>1, <1>3, <1>4, NewSlotIs
  <1>6. cache' = store_chunk(cache, new)
    BY <1>4 DEF Restore
  <1>7. IsCache(cache', Slots) /\ cache'.limit = cache.limit /\ FromOr(cache'.chunks, cache.chunks, new)
    BY <1>1, <1>5, <1>6, StoreIs, SlotsSized
  <1>8. CachedAreNew'
    BY <1>2, <1>3, <1>4, <1>7, NewSlotEnters
  <1>9. EmptyHanded(driver')
    BY <1>1, <1>2, AfterRereadOK
  <1> QED BY <1>2, <1>7, <1>8, <1>9, DriverGoes DEF CacheInv, CacheSideOK

(* Steps of the edits. *)
LEMMA EditingKeeps ==
    ASSUME CacheInv, EditInv, NEW c \in Chunks, Type(c) \/ DeviceChanges(c)
    PROVE  CacheInv'
  <1>1. UNCHANGED <<cache, driver, demand, visible, written_at, save, overlapped>>
    BY DEF Type, DeviceChanges, cacheSide, editSide
  <1>2. DOMAIN patch \subseteq DOMAIN patch'
    BY DEF Type, DeviceChanges, editSide
  <1>3. CachedAreNew' /\ InHandAreNew'
    BY <1>1, <1>2, SettledLess DEF Settled
  <1> QED BY <1>1, <1>3 DEF CacheInv, CacheSideOK

LEMMA SavingKeeps ==
    ASSUME CacheInv, EditInv, SaveBegin \/ SaveWrite
    PROVE  CacheInv'
  <1>1. UNCHANGED <<cache, driver, demand, visible, patch, overlapped>>
    BY DEF SaveBegin, SaveWrite, cacheSide
  <1>2. ASSUME NEW c \in Chunks, Settled(c)'
        PROVE  Settled(c) /\ written_at'[c] = written_at[c]
    <2>1. CASE SaveBegin
      BY <1>2, <2>1 DEF SaveBegin, Settled
    <2>2. CASE SaveWrite
      <3>1. PICK d : d = Min(save.left)
        OBVIOUS
      <3>2. save.pc = "write"
        BY <2>2 DEF SaveWrite
      <3>3. d \in DOMAIN patch /\ d \in Chunks
        BY <3>1, <3>2, SavingLeft DEF EditInv
      <3>4. save' = NoSave \/ save'.pc = "write" \/ (save'.pc = "invalidate" /\ save'.left = DOMAIN patch)
        <4>1. save \in [pc : {"write", "invalidate"}, left : SUBSET DOMAIN patch]
          BY <3>2, SavingLeft DEF EditInv
        <4> QED BY <2>2, <3>2, <4>1 DEF SaveWrite
      <3>5. c \notin DOMAIN patch
        BY <1>1, <1>2, <3>4 DEF Settled, NoSave
      <3>6. written_at' = written_at \/ written_at' = [written_at EXCEPT ![d] = device'[d]]
        BY <2>2, <3>1 DEF SaveWrite
      <3>7. written_at'[c] = written_at[c]
        BY <3>3, <3>5, <3>6 DEF EditInv, EditSideOK
      <3> QED BY <3>5, <3>7 DEF Settled
    <2> QED BY <2>1, <2>2
  <1>3. CachedAreNew' /\ InHandAreNew'
    BY <1>1, <1>2, SettledLess
  <1> QED BY <1>1, <1>3 DEF CacheInv, CacheSideOK

(* A written chunk leaves the cache; if the driver has it in hand that is   *)
(* known.                                                                  *)
LEMMA InvalidatingKeeps ==
    ASSUME CacheInv, EditInv, SaveInvalidate
    PROVE  CacheInv'
  <1>1. PICK c : c = Min(save.left)
    OBVIOUS
  <1>2. save.pc = "invalidate" /\ UNCHANGED <<demand, visible, driver, written_at>>
    BY DEF SaveInvalidate
  <1>3. c \in save.left /\ c \in Chunks
        /\ save \in [pc : {"write", "invalidate"}, left : SUBSET DOMAIN patch]
    BY <1>1, <1>2, SavingLeft DEF EditInv
  <1>4. overlapped \subseteq overlapped' /\ (InHand(c) => c \in overlapped')
    BY <1>1 DEF SaveInvalidate
  <1>5. PICK keys : keys = {[source |-> Source, chunk |-> d] : d \in {c}}
    OBVIOUS
  <1>6. cache' = PopAll(cache, keys)
    BY <1>1, <1>5 DEF SaveInvalidate, invalidate_range
  <1>7. /\ IsCache(cache', Slots) /\ cache'.limit = cache.limit
        /\ From(cache'.chunks, cache.chunks)
        /\ \A i \in 1 .. Len(cache'.chunks) : cache'.chunks[i].key \notin keys
    BY <1>6, PopAllIs, SlotsSized DEF CacheInv, CacheSideOK
  <1>8. \A i \in 1 .. Len(cache'.chunks) : cache'.chunks[i].key.chunk # c
    <2> SUFFICES ASSUME NEW i \in 1 .. Len(cache'.chunks), cache'.chunks[i].key.chunk = c PROVE FALSE
      OBVIOUS
    <2>1. cache'.chunks[i] \in Slots
      BY <1>7 DEF IsCache
    <2>2. cache'.chunks[i].key = [source |-> Source, chunk |-> c]
      BY <2>1 DEF Slots
    <2> QED BY <1>5, <1>7, <2>2
  <1>9. \A d \in Chunks : Settled(d)' /\ d # c => Settled(d)
    <2> SUFFICES ASSUME NEW d \in Chunks, Settled(d)', d # c, d \in DOMAIN patch PROVE d \notin save.left
      BY <1>2 DEF Settled
    <2>1. CASE save.left = {c}
      BY <2>1
    <2>2. CASE save.left # {c}
      <3>1. patch' = patch /\ save' = [save EXCEPT !.left = @ \ {c}]
        BY <1>1, <2>2 DEF SaveInvalidate
      <3>2. save'.left = save.left \ {c}
        BY <1>3, <3>1
      <3> QED BY <3>1, <3>2 DEF Settled
    <2> QED BY <2>1, <2>2
  <1>10. CachedAreNew'
    <2> SUFFICES ASSUME NEW i \in 1 .. Len(cache'.chunks), NEW d \in Chunks,
                        cache'.chunks[i].key.chunk = d, Settled(d)'
                 PROVE  cache'.chunks[i].bytes >= written_at[d] \/ d \in overlapped'
      BY <1>2 DEF CachedAreNew
    <2>1. Settled(d)
      BY <1>8, <1>9
    <2>2. PICK j \in 1 .. Len(cache.chunks) : cache'.chunks[i] = cache.chunks[j]
      BY <1>7 DEF From
    <2> QED BY <1>4, <2>1, <2>2 DEF CacheInv, CachedAreNew
  <1>11. InHandAreNew'
    <2> SUFFICES ASSUME NEW d \in Chunks, Settled(d)', InHand(d)
                 PROVE  driver.bytes >= written_at[d] \/ d \in overlapped'
      BY <1>2 DEF InHandAreNew, InHand
    <2> QED BY <1>4, <1>9 DEF CacheInv, InHandAreNew
  <1> QED BY <1>2, <1>7, <1>10, <1>11 DEF CacheInv, CacheSideOK

LEMMA CacheStep ==
    ASSUME CacheInv, EditInv, [StreamNext]_streamVars
    PROVE  CacheInv'
  <1>1. CASE UNCHANGED streamVars
    BY <1>1, CacheUntouched DEF streamVars, cacheSide, CacheInv, CacheSideOK
  <1>2. CASE Paint \/ Scroll
    BY <1>2, PaintKeeps, ScrollKeeps
  <1>3. CASE DriverStep
    BY <1>3, TickKeeps, LookUpKeeps, ReadChunkKeeps, ReadFailsKeeps, FillKeeps, RereadKeeps,
       RestoreKeeps DEF DriverStep
  <1>4. CASE SaveStep
    BY <1>4, SavingKeeps, InvalidatingKeeps DEF SaveStep
  <1>5. ASSUME NEW c \in Chunks, Type(c) \/ DeviceChanges(c) PROVE CacheInv'
    BY <1>5, EditingKeeps
  <1> QED BY <1>1, <1>2, <1>3, <1>4, <1>5 DEF StreamNext

LEMMA CacheAlways == StreamSpec => []CacheInv
  <1>1. CacheInv /\ EditInv /\ [StreamNext]_streamVars => CacheInv'
    BY CacheStep
  <1> QED BY <1>1, CacheInitially, EditAlways, PTL DEF StreamSpec

(* Once a save has dropped the patch, the cache shows a written chunk as it *)
(* was written or newer, unless the driver had it in hand when it was       *)
(* invalidated (save_vfs_entry, invalidate_range, fetch_chunk).             *)
THEOREM OldBytesOnlyInHandAlways == StreamSpec => []OldBytesOnlyInHand
  <1>1. CacheInv => OldBytesOnlyInHand
    <2> SUFFICES ASSUME CacheInv, NEW i \in DOMAIN cache.chunks, NEW slot, slot = cache.chunks[i]
                 PROVE  \/ slot.bytes >= written_at[slot.key.chunk]
                        \/ slot.key.chunk \in DOMAIN patch
                        \/ slot.key.chunk \in overlapped
      BY DEF OldBytesOnlyInHand
    <2>1. i \in 1 .. Len(cache.chunks) /\ slot \in Slots
      BY DEF CacheInv, CacheSideOK, IsCache
    <2>2. slot.key.chunk \in Chunks
      BY <2>1 DEF Slots
    <2> QED BY <2>1, <2>2 DEF CacheInv, CachedAreNew, Settled
  <1> QED BY <1>1, CacheAlways, PTL

-----------------------------------------------------------------------------
(* The books.  The cache of one source has at most one short chunk, so the  *)
(* budget is reached before the LruCache's bound on entries.               *)

LEMMA LastChunkOnly ==
    ASSUME NEW c \in Chunks, NEW d \in Chunks, c < d
    PROVE  ChunkLen(SourceLen, c) = CHUNK_SIZE_BYTES
  <1> DEFINE K == CHUNK_SIZE_BYTES
  <1>1. K \in Nat /\ K # 0 /\ c \in Nat /\ d \in Nat /\ SourceLen \in Nat
    BY CacheConstants, StreamConstants, ChunksAreNat
  <1>2. d * K < SourceLen
    BY DEF Chunks, ChunksOf
  <1> HIDE DEF K
  <1>3. PICK e \in Nat : d = (c + 1) + e
    <2>1. d - (c + 1) \in Nat /\ d = (c + 1) + (d - (c + 1))
      BY <1>1
    <2> QED BY <2>1
  <1>4. d * K = (c + 1) * K + e * K /\ e * K \in Nat /\ (c + 1) * K \in Nat
    BY <1>1, <1>3
  <1>5. (c + 1) * K <= SourceLen
    BY <1>1, <1>2, <1>4
  <1> QED BY <1>5 DEF ChunkLen, K

LEMMA SlotsOneTail == OneTail(Slots)
  <1> SUFFICES ASSUME NEW a \in Slots, NEW b \in Slots,
                      a.len < CHUNK_SIZE_BYTES, b.len < CHUNK_SIZE_BYTES
               PROVE  a.key = b.key
    BY DEF OneTail
  <1>1. /\ a.key.chunk \in Chunks /\ a.key = [source |-> Source, chunk |-> a.key.chunk]
        /\ a.len = ChunkLen(SourceLen, a.key.chunk)
    BY DEF Slots
  <1>2. /\ b.key.chunk \in Chunks /\ b.key = [source |-> Source, chunk |-> b.key.chunk]
        /\ b.len = ChunkLen(SourceLen, b.key.chunk)
    BY DEF Slots
  <1>3. CHUNK_SIZE_BYTES \in Nat /\ a.key.chunk \in Nat /\ b.key.chunk \in Nat
    BY <1>1, <1>2, CacheConstants, ChunksAreNat
  <1>4. ~(a.key.chunk < b.key.chunk) /\ ~(b.key.chunk < a.key.chunk)
    BY <1>1, <1>2, <1>3, LastChunkOnly
  <1>5. a.key.chunk = b.key.chunk
    BY <1>3, <1>4
  <1> QED BY <1>1, <1>2, <1>5

(* What a step does to the cache. *)
LEMMA CacheSteps ==
    ASSUME [StreamNext]_streamVars
    PROVE  \/ UNCHANGED cache
           \/ Paint \/ LookUp \/ Fill \/ Restore \/ SaveInvalidate
  BY DEF StreamNext, DriverStep, SaveStep, Scroll, Tick, ReadChunk, ReadFails, Reread, SaveBegin,
         SaveWrite, Type, DeviceChanges, streamVars, cacheSide

(* The slot a fill or a restore brings. *)
LEMMA BringsASlot ==
    ASSUME CacheInv, Fill \/ Restore
    PROVE  \E new \in Slots : /\ new.len <= cache.limit
                              /\ new.key = KeyFor(driver.chunk)
                              /\ Fill => cache' = fill_chunk(cache, new)
                              /\ Restore => cache' = store_chunk(cache, new)
  <1>1. DriverOK(driver) /\ cache.limit \in Limits /\ driver.pc \in {"fill", "restore"}
    BY DEF CacheInv, CacheSideOK, Fill, Restore
  <1>2. driver.chunk \in Chunks /\ driver.bytes \in Nat
    BY <1>1, Prefetching, Refetching DEF Awake
  <1>3. PICK new : new = NewSlot(driver.chunk, driver.bytes)
    OBVIOUS
  <1>4. new \in Slots /\ new.len <= cache.limit /\ new.key = KeyFor(driver.chunk)
    BY <1>1, <1>2, <1>3, NewSlotIs DEF NewSlot
  <1> QED BY <1>3, <1>4 DEF Fill, Restore

LEMMA BooksInitially == StreamInit => StreamBooks
  <1> SUFFICES ASSUME StreamInit PROVE StreamBooks
    OBVIOUS
  <1>1. PICK limit \in Limits : cache = EmptyCache(limit)
    BY DEF StreamInit
  <1>2. IsCache(cache, Slots)
    BY CacheInitially DEF CacheInv, CacheSideOK
  <1>3. /\ cache.chunks = << >> /\ cache.used_bytes = 0 /\ cache.limit \in Nat
        /\ DOMAIN cache.bytes_by_attribution = {} /\ cache.chunks \in Seq(Slots)
        /\ Len(cache.chunks) = 0
    BY <1>1, <1>2, CacheConstants DEF EmptyCache
  <1>4. BytesHeld(cache.chunks) = 0
    BY <1>3, HeldNone
  <1>5. \A b : BytesFor(cache.chunks, b) = 0
    <2> SUFFICES ASSUME NEW b PROVE BytesFor(cache.chunks, b) = 0
      OBVIOUS
    <2>1. ~ \E i \in 1 .. Len(cache.chunks) : Bucket(cache.chunks[i]) = b
      BY <1>3
    <2> QED BY <1>3, <2>1, ForPositive, SlotsSized
  <1>6. BooksBalance(cache)
    BY <1>2, <1>3, <1>4, <1>5, BooksAre, SlotsSized
  <1> QED BY <1>3, <1>6 DEF StreamBooks

LEMMA BooksStep ==
    ASSUME CacheInv, StreamBooks, [StreamNext]_streamVars
    PROVE  StreamBooks'
  <1>1. IsCache(cache, Slots) /\ cache.limit \in Nat
    BY DEF CacheInv, CacheSideOK, IsCache
  <1>2. BooksBalance(cache) /\ cache.used_bytes <= cache.limit
    BY DEF StreamBooks
  <1>3. SUFFICES BooksBalance(cache') /\ cache'.used_bytes <= cache'.limit
    BY DEF StreamBooks
  <1>4. CASE UNCHANGED cache
    BY <1>2, <1>4
  <1>5. CASE Paint
    <2>1. PICK seen : seen = peek(cache, visible)
      OBVIOUS
    <2>2. PeekOK(seen, cache) /\ cache' = seen.cache
      BY <1>5, <2>1, PeekIs DEF CacheInv, CacheSideOK, Paint
    <2> QED BY <1>2, <2>2 DEF PeekOK
  <1>6. CASE LookUp
    BY <1>1, <1>2, <1>6, TouchIs, SlotsSized DEF LookUp
  <1>7. CASE Fill
    <2>1. PICK new \in Slots : new.len <= cache.limit /\ cache' = fill_chunk(cache, new)
      BY <1>7, BringsASlot
    <2> QED BY <1>1, <1>2, <2>1, FillBooks, SlotsSized, SlotsOneTail
  <1>8. CASE Restore
    <2>1. PICK new \in Slots : new.len <= cache.limit /\ cache' = store_chunk(cache, new)
      BY <1>8, BringsASlot
    <2> QED BY <1>1, <1>2, <2>1, StoreBooks, SlotsSized, SlotsOneTail
  <1>9. CASE SaveInvalidate
    <2>1. PICK keys : cache' = PopAll(cache, keys)
      BY <1>9 DEF SaveInvalidate, invalidate_range
    <2>2. BooksBalance(cache') /\ cache'.limit = cache.limit /\ IsCache(cache', Slots)
      BY <1>1, <1>2, <2>1, PopAllIs, SlotsSized
    <2>3. cache'.used_bytes <= cache.used_bytes
      BY <1>1, <2>1, PopAllLess, SlotsSized
    <2>4. cache.used_bytes \in Nat /\ cache'.used_bytes \in Nat
      BY <1>1, <2>2 DEF IsCache
    <2> QED BY <1>1, <1>2, <2>2, <2>3, <2>4
  <1> QED BY <1>4, <1>5, <1>6, <1>7, <1>8, <1>9, CacheSteps

(* used_bytes and the tally are what the map holds, and within the budget,  *)
(* whatever is painted, prefetched, refetched in place and invalidated      *)
(* (peek, fetch_chunk, refetch_with, invalidate_range).                     *)
THEOREM StreamBooksAlways == StreamSpec => []StreamBooks
  <1>1. CacheInv /\ StreamBooks /\ [StreamNext]_streamVars => StreamBooks'
    BY BooksStep
  <1> QED BY <1>1, BooksInitially, CacheAlways, PTL DEF StreamSpec

-----------------------------------------------------------------------------
(* No flicker. *)

(* A slot of the stream is no longer than a chunk. *)
LEMMA SlotFits ==
    ASSUME NEW new \in Slots
    PROVE  new.len \in Nat /\ new.len <= CHUNK_SIZE_BYTES
  BY CacheConstants DEF Slots

LEMMA ShownStaysShown ==
    ASSUME CacheInv, StreamBooks, [StreamNext]_streamVars, NEW c, Cached(c),
           save.pc # "invalidate", cache.used_bytes + CHUNK_SIZE_BYTES <= cache.limit
    PROVE  Cached(c)'
  <1>1. IsCache(cache, Slots) /\ cache.limit \in Nat /\ cache.used_bytes \in Nat
    BY DEF CacheInv, CacheSideOK, IsCache
  <1>2. BooksBalance(cache)
    BY DEF StreamBooks
  <1>3. PICK key : key = KeyFor(c)
    OBVIOUS
  <1>4. Holds(cache, key)
    BY <1>3 DEF Cached
  <1>5. SUFFICES Holds(cache', key)
    BY <1>3 DEF Cached, KeyFor, Source
  <1>6. CASE UNCHANGED cache
    BY <1>4, <1>6
  <1>7. CASE Paint
    <2>1. PICK seen : seen = peek(cache, visible)
      OBVIOUS
    <2>2. PeekOK(seen, cache) /\ cache' = seen.cache
      BY <1>7, <2>1, PeekIs DEF CacheInv, CacheSideOK, Paint
    <2> QED BY <1>4, <2>2 DEF PeekOK
  <1>8. CASE LookUp
    BY <1>1, <1>4, <1>8, TouchHolds DEF LookUp
  <1>9. CASE Fill
    <2>1. PICK new \in Slots : cache' = fill_chunk(cache, new)
      BY <1>9, BringsASlot
    <2>2. cache.used_bytes + new.len <= cache.limit
      BY <1>1, SlotFits, CacheConstants
    <2> QED BY <1>1, <1>2, <1>4, <2>1, <2>2, FillKeepsAll, SlotsSized, SlotsOneTail
  <1>10. CASE Restore
    <2>1. PICK new \in Slots : cache' = store_chunk(cache, new)
      BY <1>10, BringsASlot
    <2>2. cache.used_bytes + new.len <= cache.limit
      BY <1>1, SlotFits, CacheConstants
    <2> QED BY <1>1, <1>2, <1>4, <2>1, <2>2, StoreKeepsAll, SlotsSized, SlotsOneTail
  <1>11. CASE SaveInvalidate
    BY <1>11 DEF SaveInvalidate
  <1> QED BY <1>6, <1>7, <1>8, <1>9, <1>10, <1>11, CacheSteps

(* A chunk on screen goes back to zeros only when a save invalidates it or  *)
(* the cache has no room for one more chunk: refetch_with overwrites a slot *)
(* in place, and the LruCache's own bound is never met.                     *)
THEOREM NoFlickerEver == StreamSpec => NoFlicker
  <1> DEFINE Step == \A c \in Within(visible) :
                        Cached(c) /\ ~Cached(c)'
                        => \/ save.pc = "invalidate"
                           \/ cache.used_bytes + CHUNK_SIZE_BYTES > cache.limit
  <1>1. CacheInv /\ StreamBooks /\ [StreamNext]_streamVars => [Step]_streamVars
    <2> SUFFICES ASSUME CacheInv, StreamBooks, [StreamNext]_streamVars,
                        NEW c \in Within(visible), Cached(c), ~Cached(c)',
                        save.pc # "invalidate"
                 PROVE  cache.used_bytes + CHUNK_SIZE_BYTES > cache.limit
      OBVIOUS
    <2>1. cache.limit \in Nat /\ cache.used_bytes \in Nat
      BY DEF CacheInv, CacheSideOK, IsCache
    <2>2. ~(cache.used_bytes + CHUNK_SIZE_BYTES <= cache.limit)
      BY ShownStaysShown
    <2> QED BY <2>1, <2>2, CacheConstants
  <1> QED BY <1>1, CacheAlways, StreamBooksAlways, PTL DEF StreamSpec, NoFlicker

=============================================================================
