----------------------------- MODULE ByteSearch -----------------------------
(***************************************************************************)
(* Byte search (hxy-panels/src/search.rs): forward, backward and all        *)
(* matches inside bounds, reading the source a chunk at a time with the     *)
(* next chunk's first bytes as overlap.  An Option is a set with at most    *)
(* one element; bounds are [lo, hi), hi excluded.                          *)
(***************************************************************************)
EXTENDS Bytes, Integers

CONSTANT CHUNK   \* 64 KiB in the code

ASSUME ChunkAssumption == CHUNK \in Nat \ {0}

Lowest(offsets) == {i \in offsets : \A j \in offsets : i <= j}
Highest(offsets) == {i \in offsets : \A j \in offsets : i >= j}

(* Where the pattern starts in a buffer. *)
Starts(buf, pattern) ==
    {i \in 0 .. Len(buf) - Len(pattern) : Slice(buf, i, Len(pattern)) = pattern}

find_in_slice(haystack, needle) == Lowest(Starts(haystack, needle))
find_last_in_slice(haystack, needle) == Highest(Starts(haystack, needle))

clip_bounds(bounds, total) ==
    LET hi == Lesser(bounds.hi, total)
    IN  [lo |-> Lesser(Lesser(bounds.lo, total), hi), hi |-> hi]

Clamp(x, lo, hi) == Lesser(Greater(x, lo), hi)

-----------------------------------------------------------------------------
scan_forward(source, pattern, start, end) ==
    LET scan[pos \in start .. end] ==
            LET chunk_end == Lesser(pos + CHUNK, end)
                read_end  == Lesser(Lesser(chunk_end + Len(pattern) - 1, end), Len(source))
                hit       == find_in_slice(Slice(source, pos, read_end - pos), pattern)
            IN  IF hit # {} THEN {pos + i : i \in hit}
                ELSE IF chunk_end >= end THEN {}
                ELSE scan[chunk_end]
    IN  IF start + Len(pattern) > end THEN {} ELSE scan[start]

(* Bug: a chunk is read without the overlap. *)
scan_backward_no_overlap(source, pattern, start, end) ==
    LET scan[pos \in start .. end] ==
            LET chunk_start == Greater(pos - CHUNK, start)
                hit == find_last_in_slice(Slice(source, chunk_start, pos - chunk_start), pattern)
            IN  IF hit # {} THEN {chunk_start + i : i \in hit}
                ELSE IF chunk_start = start THEN {}
                ELSE scan[chunk_start]
    IN  IF start + Len(pattern) > end THEN {} ELSE scan[end]

scan_backward(source, pattern, start, end) ==
    LET scan[pos \in start .. end] ==
            LET chunk_start == Greater(pos - CHUNK, start)
                read_end    == Lesser(Lesser(pos + Len(pattern) - 1, end), Len(source))
                hit == find_last_in_slice(Slice(source, chunk_start, read_end - chunk_start), pattern)
            IN  IF hit # {} THEN {chunk_start + i : i \in hit}
                ELSE IF chunk_start = start THEN {}
                ELSE scan[chunk_start]
    IN  IF start + Len(pattern) > end THEN {} ELSE scan[end]

-----------------------------------------------------------------------------
MatchHit(offsets, wrapped) == {[offset |-> o, wrapped |-> wrapped] : o \in offsets}

find_next(source, pattern, from, wrap, bounds) ==
    LET b      == clip_bounds(bounds, Len(source))
        f      == Clamp(from, b.lo, b.hi)
        ahead  == scan_forward(source, pattern, f, b.hi)
        around == IF wrap /\ f > b.lo
                  THEN scan_forward(source, pattern, b.lo, Lesser(f + Len(pattern) - 1, b.hi))
                  ELSE {}
    IN  IF b.hi - b.lo < Len(pattern) THEN {}
        ELSE IF ahead # {} THEN MatchHit(ahead, FALSE) ELSE MatchHit(around, TRUE)

find_prev(source, pattern, from, wrap, bounds) ==
    LET b      == clip_bounds(bounds, Len(source))
        f      == Clamp(from, b.lo, b.hi)
        behind == scan_backward(source, pattern, b.lo, f)
        around == IF wrap
                  THEN scan_backward(source, pattern,
                                     Greater(f - (Len(pattern) - 1), b.lo), b.hi)
                  ELSE {}
    IN  IF b.hi - b.lo < Len(pattern) THEN {}
        ELSE IF behind # {} THEN MatchHit(behind, FALSE) ELSE MatchHit(around, TRUE)

find_all(source, pattern, bounds) ==
    LET b == clip_bounds(bounds, Len(source))
        found[from \in 0 .. b.hi + 1] ==
            LET hit == scan_forward(source, pattern, from, b.hi)
            IN  IF hit = {} THEN << >>
                ELSE LET off == CHOOSE o \in hit : TRUE IN <<off>> \o found[off + 1]
    IN  IF b.hi - b.lo < Len(pattern) THEN << >> ELSE found[b.lo]

-----------------------------------------------------------------------------
(* The reference: where the pattern lies inside the bounds, with no chunks. *)
Inside(source, pattern, bounds) ==
    {o \in Starts(source, pattern) : bounds.lo <= o /\ o + Len(pattern) <= bounds.hi}

(* Next: the first match at or after `from`, else the first one of all.     *)
NextIsNearest(source, pattern, from, bounds) ==
    LET all   == Inside(source, pattern, bounds)
        ahead == {o \in all : o >= from}
    IN  find_next(source, pattern, from, TRUE, bounds)
          = IF ahead # {} THEN MatchHit(Lowest(ahead), FALSE) ELSE MatchHit(Lowest(all), TRUE)

(* Previous: the last match that ends by `from`, else the last one of all.  *)
PrevIsNearest(source, pattern, from, bounds) ==
    LET all    == Inside(source, pattern, bounds)
        behind == {o \in all : o + Len(pattern) <= from}
    IN  find_prev(source, pattern, from, TRUE, bounds)
          = IF behind # {} THEN MatchHit(Highest(behind), FALSE)
            ELSE MatchHit(Highest(all), TRUE)

(* All: every match, overlapping ones too, in ascending order. *)
AllAreFound(source, pattern, bounds) ==
    LET list == find_all(source, pattern, bounds)
    IN  /\ \A k \in 2 .. Len(list) : list[k - 1] < list[k]
        /\ {list[k] : k \in 1 .. Len(list)} = Inside(source, pattern, bounds)

=============================================================================
