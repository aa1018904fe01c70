----------------------------- MODULE StringScan -----------------------------
(***************************************************************************)
(* String extraction (hxy-panels/src/strings.rs): the range is read a chunk *)
(* at a time and the scanner carries a run of characters and the bytes of   *)
(* an incomplete character from one chunk to the next.                     *)
(*                                                                         *)
(* Bytes are classes: "p" prints, "n" is a control (or, as half a UTF-16    *)
(* unit, zero), "d" and "t" lead a character of two and three bytes, "c"    *)
(* continues one.  The text of a run is left out, its offsets are not.     *)
(***************************************************************************)
EXTENDS Bytes, FiniteSets

CONSTANTS
    Samples,       \* for each encoding, the ranges read
    ChunkSizes,    \* values tried for CHUNK_BYTES, 1 MiB in the code
    MinLengths,    \* values tried for min_length, at least 1 (Scanner::new)
    MAX_RESULTS    \* 100_000 in the code

(* The classes of bytes. *)
Classes == {"p", "n", "c", "d", "t"}

ASSUME ScanConstants ==
    /\ DOMAIN Samples \subseteq {"ascii", "utf8", "utf16"}
    /\ \A encoding \in DOMAIN Samples : Samples[encoding] \subseteq Seq(Classes)
    /\ ChunkSizes \subseteq Nat \ {0} /\ MinLengths \subseteq Nat \ {0}
    /\ MAX_RESULTS \in Nat

VARIABLES
    config,    \* encoding, min_length, the bytes of the range, the chunk size
    scanner,   \* run_chars, run_start, pending (pending_offset is where it ends, less
               \* its length), the entries out so far
    at,        \* bytes read so far
    truncated

scanVars == <<config, scanner, at, truncated>>

Idle == [run_chars |-> 0, run_start |-> 0, pending |-> << >>, out |-> << >>]

Config(encoding, bytes, chunk, min_length) ==
    [encoding |-> encoding, bytes |-> bytes, chunk |-> chunk, min_length |-> min_length]

(* Until extract is called there is nothing to read. *)
ScanInit(called) ==
    /\ IF called
       THEN \E encoding \in DOMAIN Samples : \E bytes \in Samples[encoding] :
            \E chunk \in ChunkSizes, min_length \in MinLengths :
               config = Config(encoding, bytes, chunk, min_length)
       ELSE config = Config("ascii", << >>, 1, 1)
    /\ scanner = Idle
    /\ at = 0
    /\ truncated = FALSE

-----------------------------------------------------------------------------
(* What starts at offset i of a buffer, as std::str::from_utf8, or two      *)
(* bytes of UTF-16, or one of ASCII, see it: a character that prints, one    *)
(* that does not, an invalid sequence, or the start of something longer.    *)

Width(encoding, byte) ==
    IF encoding = "utf16" THEN 2
    ELSE IF encoding = "ascii" THEN 1
    ELSE CASE byte = "d" -> 2 [] byte = "t" -> 3 [] OTHER -> 1

(* How many of the bytes from i on belong together, at most `width`. *)
Joined(encoding, buf, i, width) ==
    LET Good(n) == /\ i + n <= Len(buf)
                   /\ encoding = "utf8" => \A k \in 2 .. n : buf[i + k] = "c"
    IN  CHOOSE n \in 1 .. width : Good(n) /\ (n = width \/ ~Good(n + 1))

Unit(encoding, buf, i) ==
    LET width  == Width(encoding, buf[i + 1])
        joined == Joined(encoding, buf, i, width)
        prints == CASE encoding = "utf16" -> buf[i + 1] # "n" \/ buf[i + 2] # "n"
                    [] encoding = "utf8"  -> buf[i + 1] \notin {"n", "c"}
                    [] OTHER              -> buf[i + 1] = "p"
    IN  [n |-> joined,
         kind |-> IF joined < width
                  THEN IF i + joined = Len(buf) THEN "partial" ELSE "breaks"
                  ELSE IF prints THEN "prints" ELSE "breaks"]

-----------------------------------------------------------------------------
push_char(s, off) ==
    [s EXCEPT !.run_start = IF s.run_chars = 0 THEN off ELSE @, !.run_chars = @ + 1]

flush(s, off, min_length) ==
    [s EXCEPT !.run_chars = 0,
              !.out = IF s.run_chars >= min_length
                      THEN Append(@, [offset |-> s.run_start, end |-> off]) ELSE @]

(* Bug: the bytes carried over are looked at from the start of the chunk. *)
feed_misplaced(s, chunk, offset) ==
    LET buf  == s.pending \o chunk
        base == offset
        after[k \in 0 .. Len(buf)] ==
            IF k = 0 THEN [s |-> [s EXCEPT !.pending = << >>], i |-> 0]
            ELSE LET b == after[k - 1] IN
                 IF b.i = Len(buf) THEN b
                 ELSE LET u == Unit(config.encoding, buf, b.i)
                      IN  CASE u.kind = "prints" ->
                                 [s |-> push_char(b.s, base + b.i), i |-> b.i + u.n]
                            [] u.kind = "breaks" ->
                                 [s |-> flush(b.s, base + b.i, config.min_length), i |-> b.i + u.n]
                            [] u.kind = "partial" ->
                                 [s |-> [b.s EXCEPT !.pending = Slice(buf, b.i, Len(buf) - b.i)],
                                  i |-> Len(buf)]
    IN  after[Len(buf)].s

(* feed_ascii, feed_utf8, feed_utf16: the bytes carried over, then the chunk. *)
feed(s, chunk, offset) ==
    LET buf  == s.pending \o chunk
        base == offset - Len(s.pending)
        after[k \in 0 .. Len(buf)] ==
            IF k = 0 THEN [s |-> [s EXCEPT !.pending = << >>], i |-> 0]
            ELSE LET b == after[k - 1] IN
                 IF b.i = Len(buf) THEN b
                 ELSE LET u == Unit(config.encoding, buf, b.i)
                      IN  CASE u.kind = "prints" ->
                                 [s |-> push_char(b.s, base + b.i), i |-> b.i + u.n]
                            [] u.kind = "breaks" ->
                                 [s |-> flush(b.s, base + b.i, config.min_length), i |-> b.i + u.n]
                            [] u.kind = "partial" ->
                                 [s |-> [b.s EXCEPT !.pending = Slice(buf, b.i, Len(buf) - b.i)],
                                  i |-> Len(buf)]
    IN  after[Len(buf)].s

FirstResults(out) == Slice(out, 0, Lesser(Len(out), MAX_RESULTS))

Scanned == at = Len(config.bytes) \/ truncated

(* One turn of the loop of extract; the last one is followed by the flush. *)
ExtractStep ==
    /\ ~Scanned
    /\ LET stop == Lesser(at + config.chunk, Len(config.bytes))
           fed  == feed(scanner, Slice(config.bytes, at, stop - at), at)
           full == Len(fed.out) >= MAX_RESULTS
           last == IF stop = Len(config.bytes) /\ ~full
                   THEN flush(fed, stop, config.min_length) ELSE fed
       IN  /\ scanner' = [last EXCEPT !.out = FirstResults(@)]
           /\ truncated' = (full \/ Len(last.out) > MAX_RESULTS)
           /\ at' = stop
    /\ UNCHANGED config

-----------------------------------------------------------------------------
(* The reference, without chunks.  A character starts where a byte leads    *)
(* enough bytes that continue it.                                          *)

CharAt(i) ==
    LET u == Unit(config.encoding, config.bytes, i)
    IN  /\ i < Len(config.bytes)
        /\ config.encoding = "utf16" => i % 2 = 0
        /\ u.kind = "prints"
After(i) == i + Width(config.encoding, config.bytes[i + 1])

(* Printing characters from `first` up to `end`, and none that touches them. *)
Run(first, end) ==
    LET chars == {i \in first .. end - 1 : CharAt(i)}
    IN  /\ CharAt(first)
        /\ \A i \in chars : After(i) \in chars \cup {end}
        /\ end \in {After(i) : i \in chars}
        /\ ~\E i \in 0 .. first - 1 : CharAt(i) /\ After(i) = first
        /\ end = Len(config.bytes) \/ ~CharAt(end)

Runs ==
    {r \in (0 .. Len(config.bytes)) \X (0 .. Len(config.bytes)) :
        r[1] < r[2] /\ Run(r[1], r[2])}
Long(r) == Cardinality({i \in r[1] .. r[2] - 1 : CharAt(i)}) >= config.min_length

(* A run at the end of the range is closed at the range's end, after an     *)
(* incomplete character if there is one.                                   *)
Closed(r) ==
    LET rest == r[2] < Len(config.bytes)
                  /\ Unit(config.encoding, config.bytes, r[2]).kind = "partial"
    IN  [offset |-> r[1], end |-> IF rest THEN Len(config.bytes) ELSE r[2]]

(* However the chunks fall, across a character or across a run, the strings *)
(* found are the maximal runs of at least min_length printing characters of *)
(* the range, at their offsets and in order, the first MAX_RESULTS of them, *)
(* and none is left out unless the result says so (extract, Scanner::feed). *)
StringsAreExact ==
    Scanned =>
       LET wanted_runs == {Closed(r) : r \in {q \in Runs : Long(q)}}
           found == {scanner.out[k] : k \in 1 .. Len(scanner.out)}
       IN  /\ found \subseteq wanted_runs
           /\ \A k \in 2 .. Len(scanner.out) : scanner.out[k - 1].end <= scanner.out[k].offset
           /\ \A r \in wanted_runs \ found :
                 truncated /\ \A f \in found : f.end <= r.offset
           /\ truncated => Len(scanner.out) = MAX_RESULTS

=============================================================================
