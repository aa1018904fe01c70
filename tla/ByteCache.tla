----------------------------- MODULE ByteCache -----------------------------
(***************************************************************************)
(* hxy-core/src/cache.rs: the LRU byte cache.  Its locked part, CacheInner, *)
(* is a record g, and every critical section is an operator on g; the      *)
(* modules that use the cache say which thread runs which section when.    *)
(*   limit       CacheLimit, in bytes                                      *)
(*   used_bytes  what the cache believes it holds                          *)
(*   chunks      the LruCache: slots, least recently used first            *)
(*   bytes_by_attribution                                                  *)
(* A slot's bytes are abstracted to the version of the source they were    *)
(* read from, and their number.  The hit and miss counters are left out.   *)
(***************************************************************************)
EXTENDS Naturals, SequencesExt

CONSTANTS
    CHUNK_SIZE_BYTES,  \* 65536 in the code
    LRU_SLACK,         \* 16 in the code (lru_capacity_for)
    Limits             \* the budgets the setting can take

ASSUME CacheConstants ==
    /\ CHUNK_SIZE_BYTES \in Nat \ {0}
    /\ LRU_SLACK \in Nat \ {0}
    /\ Limits \subseteq Nat
    /\ \A l \in Limits : l >= CHUNK_SIZE_BYTES    \* CacheLimit::MIN_MIB

(* ByteCache::new *)
EmptyCache(limit) ==
    [limit |-> limit, used_bytes |-> 0, chunks |-> << >>,
     bytes_by_attribution |-> [a \in {} |-> 0]]

(* lru_capacity_for: the entry bound the LruCache is built with. *)
lru_capacity_for(limit) == limit \div CHUNK_SIZE_BYTES + LRU_SLACK

(* Bytes in chunk c of a source of length len. *)
ChunkLen(len, c) ==
    IF (c + 1) * CHUNK_SIZE_BYTES <= len THEN CHUNK_SIZE_BYTES
    ELSE len - c * CHUNK_SIZE_BYTES

(* The chunks of a source of length len. *)
ChunksOf(len) == {c \in 0 .. len : c * CHUNK_SIZE_BYTES < len}

saturating_sub(a, b) == IF a >= b THEN a - b ELSE 0

At(chunks, key) == CHOOSE i \in DOMAIN chunks : chunks[i].key = key
Holds(g, key) == \E i \in DOMAIN g.chunks : g.chunks[i].key = key
SlotOf(g, key) == g.chunks[At(g.chunks, key)]

OtherThan(chunks, key) ==
    IF \E i \in DOMAIN chunks : chunks[i].key = key THEN RemoveAt(chunks, At(chunks, key))
    ELSE chunks

-----------------------------------------------------------------------------
(* Accounting. *)

decrement_attribution(map, bucket, amount) ==
    IF bucket \notin DOMAIN map THEN map
    ELSE LET v == saturating_sub(map[bucket], amount)
         IN  IF v = 0 THEN Restrict(map, DOMAIN map \ {bucket})
             ELSE [map EXCEPT ![bucket] = v]

Bucket(slot) == <<slot.attribution, slot.key.source>>

Total(numbers) ==
    LET total[i \in 0 .. Len(numbers)] == IF i = 0 THEN 0 ELSE total[i - 1] + numbers[i]
    IN  total[Len(numbers)]

BytesHeld(slots) == Total([i \in 1 .. Len(slots) |-> slots[i].len])

(* The bytes of the slots of one bucket. *)
BytesFor(slots, bucket) ==
    Total([i \in 1 .. Len(slots) |-> IF Bucket(slots[i]) = bucket THEN slots[i].len ELSE 0])

(* A slot left the map. *)
Debit(g, slot) ==
    [g EXCEPT !.used_bytes = saturating_sub(@, slot.len),
              !.bytes_by_attribution = decrement_attribution(@, Bucket(slot), slot.len)]

(* A slot entered it. *)
Credit(g, slot) ==
    [g EXCEPT !.used_bytes = @ + slot.len,
              !.bytes_by_attribution =
                  [b \in DOMAIN @ \cup {Bucket(slot)} |->
                      (IF b \in DOMAIN @ THEN @[b] ELSE 0)
                         + (IF b = Bucket(slot) THEN slot.len ELSE 0)]]

-----------------------------------------------------------------------------
(* The LruCache crate, as the code uses it. *)

(* get: a hit becomes the most recently used slot. *)
Touch(g, key) ==
    IF Holds(g, key)
    THEN [g EXCEPT !.chunks = Append(OtherThan(@, key), SlotOf(g, key))]
    ELSE g

(* put: at capacity the LruCache drops its oldest entry by itself, and     *)
(* nobody accounts for it.                                                 *)
Put(g, slot) ==
    [g EXCEPT !.chunks =
        LET others == OtherThan(@, slot.key)
        IN  Append(IF Len(others) >= lru_capacity_for(g.limit) THEN Tail(others) ELSE others,
                   slot)]

(* resize: drops the oldest entries beyond the new capacity, unaccounted. *)
Resize(g, capacity) ==
    LET n == Len(g.chunks)
    IN  [g EXCEPT !.chunks = IF n <= capacity THEN @ ELSE SubSeq(@, n - capacity + 1, n)]

-----------------------------------------------------------------------------
(* Critical sections. *)

(* A slot leaves the map and the books. *)
Removed(g, slot) == [Debit(g, slot) EXCEPT !.chunks = OtherThan(@, slot.key)]

(* pop *)
Popped(g, key) == IF Holds(g, key) THEN Removed(g, SlotOf(g, key)) ELSE g

(* Going through the slots in LRU order and popping those in keys: what the *)
(* cache is after the first k.                                             *)
PopEach(g, keys) ==
    LET after[k \in 0 .. Len(g.chunks)] ==
            IF k = 0 THEN g
            ELSE IF g.chunks[k].key \in keys THEN Removed(after[k - 1], g.chunks[k])
            ELSE after[k - 1]
    IN  after

PopAll(g, keys) == PopEach(g, keys)[Len(g.chunks)]

KeysOf(chunks) == {chunks[i].key : i \in 1 .. Len(chunks)}

(* Bug: the loop makes no room for the incoming bytes. *)
EvictForLate(g, n) ==
    LET after == PopEach(g, KeysOf(g.chunks))
        Enough(k) == after[k].used_bytes <= g.limit
        most == Len(g.chunks)
    IN  after[CHOOSE k \in 0 .. most :
                 (k = most \/ Enough(k)) /\ \A j \in 0 .. k - 1 : ~Enough(j)]

(* The eviction loop: pop_lru until n more bytes fit, or nothing is left. *)
EvictFor(g, n) ==
    LET after == PopEach(g, KeysOf(g.chunks))
        Enough(k) == after[k].used_bytes + n <= g.limit
        most == Len(g.chunks)
    IN  after[CHOOSE k \in 0 .. most :
                 (k = most \/ Enough(k)) /\ \A j \in 0 .. k - 1 : ~Enough(j)]

Insert(g, slot) == Credit(Put(EvictFor(g, slot.len), slot), slot)

(* Bug: the slot that is overwritten stays on the books. *)
store_chunk_no_debit(g, slot) == Insert([g EXCEPT !.chunks = OtherThan(@, slot.key)], slot)

store_chunk(g, slot) == Insert(Popped(g, slot.key), slot)

(* Bug: the slot is put again without looking. *)
fill_chunk_unchecked(g, slot) == Insert(g, slot)

(* The second section of fetch_chunk: another thread may have filled the   *)
(* slot while this one was reading; then its bytes are used and nothing is  *)
(* stored.                                                                 *)
fill_chunk(g, slot) ==
    IF Holds(g, slot.key) THEN Touch(g, slot.key) ELSE Insert(g, slot)

set_limit(g, limit) ==
    Resize(EvictFor([g EXCEPT !.limit = limit], 0), lru_capacity_for(limit))

(* Bug: only the first chunk is dropped. *)
drop_source_first_only(g, source) == PopAll(g, {[source |-> source, chunk |-> 0]})

drop_source(g, source) ==
    PopAll(g, {key \in KeysOf(g.chunks) : key.source = source})

invalidate_range(g, source, chunks) ==
    PopAll(g, {[source |-> source, chunk |-> c] : c \in chunks})

-----------------------------------------------------------------------------
(* What the numbers should be. *)

(* used_bytes and the per-view tally are what the map really holds. *)
BooksBalance(g) ==
    LET map == g.bytes_by_attribution
    IN  /\ g.used_bytes = BytesHeld(g.chunks)
        /\ DOMAIN map = {Bucket(g.chunks[i]) : i \in DOMAIN g.chunks}
        /\ \A b \in DOMAIN map :
              map[b] = BytesFor(g.chunks, b)

=============================================================================
