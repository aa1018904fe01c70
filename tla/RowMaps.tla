------------------------------ MODULE RowMaps ------------------------------
(***************************************************************************)
(* The aligned rows of the compare view (hxy-panels/src/diff.rs             *)
(* build_row_maps): each side keeps its own rows of `columns` bytes, and    *)
(* gap rows stand where only the other side has bytes.                     *)
(***************************************************************************)
EXTENDS Naturals, Sequences, FiniteSets

CONSTANTS
    columns,      \* bytes in a row
    MaxHunks,     \* bound: hunks of a diff
    MaxHunkLen    \* bound: bytes of a hunk on one side

ASSUME RowConstants == columns \in Nat \ {0} /\ MaxHunks \in Nat /\ MaxHunkLen \in Nat

VARIABLE hunks    \* the diff: kind, a_offset, a_len, b_offset, b_len of each hunk

RowsInit == hunks = << >>

SideEnd(side, k) ==
    IF k = 0 THEN 0
    ELSE IF side = "a" THEN hunks[k].a_offset + hunks[k].a_len
    ELSE hunks[k].b_offset + hunks[k].b_len
SideLen(side) == SideEnd(side, Len(hunks))

(* The diff grows by a hunk: diff_op_to_hunk of one more operation. *)
AddHunk ==
    /\ Len(hunks) < MaxHunks
    /\ \E a_len, b_len \in 0 .. MaxHunkLen : \E kind \in {"Equal", "Changed", "Added", "Removed"} :
          /\ kind = "Equal" => a_len = b_len /\ a_len > 0
          /\ kind = "Added" => a_len = 0 /\ b_len > 0
          /\ kind = "Removed" => a_len > 0 /\ b_len = 0
          /\ kind = "Changed" => a_len > 0 /\ b_len > 0
          /\ hunks' = Append(hunks, [kind |-> kind, a_len |-> a_len, b_len |-> b_len,
                                     a_offset |-> SideLen("a"), b_offset |-> SideLen("b")])

-----------------------------------------------------------------------------
DivCeil(n) == (n + columns - 1) \div columns

Surplus(n, m) == IF n > m THEN n - m ELSE 0

(* Bug: only whole rows of the other side are faced by gaps. *)
gap_rounds_down(side, h) ==
    LET here  == IF side = "a" THEN h.a_len ELSE h.b_len
        there == IF side = "a" THEN h.b_len ELSE h.a_len
        off   == IF side = "a" THEN h.a_offset ELSE h.b_offset
    IN  [at |-> DivCeil(off + here),
         count |-> IF h.kind = "Equal" THEN 0
                   ELSE Surplus(there \div columns, here \div columns)]

(* Where a hunk puts gaps on a side, and how many: for Added and Removed    *)
(* the side with no bytes, for Changed the side with fewer rows, behind its *)
(* bytes.                                                                  *)
gap(side, h) ==
    LET here  == IF side = "a" THEN h.a_len ELSE h.b_len
        there == IF side = "a" THEN h.b_len ELSE h.a_len
        off   == IF side = "a" THEN h.a_offset ELSE h.b_offset
    IN  [at |-> DivCeil(off + here),
         count |-> IF h.kind = "Equal" THEN 0 ELSE Surplus(DivCeil(there), DivCeil(here))]

(* The entry of the side's gap plan for one natural row. *)
Gaps(side, row) ==
    LET sum[k \in 0 .. Len(hunks)] ==
            IF k = 0 THEN 0
            ELSE sum[k - 1] + LET g == gap(side, hunks[k]) IN IF g.at = row THEN g.count ELSE 0
    IN  sum[Len(hunks)]

NaturalRows(side) == DivCeil(SideLen(side))

(* A RowSlot: a gap, or a natural row by its number. *)
Gap == << >>
Real(row) == <<row>>

(* natural_rows and interleave_with_gaps: the rows in order. *)
Interleaved(side) ==
    LET upto[i \in 0 .. NaturalRows(side) + 1] ==
            IF i = 0 THEN << >>
            ELSE upto[i - 1] \o [k \in 1 .. Gaps(side, i - 1) |-> Gap]
                   \o IF i <= NaturalRows(side) THEN <<Real(i - 1)>> ELSE << >>
    IN  upto[NaturalRows(side) + 1]

(* build_row_maps: both sides padded to the same number of rows. *)
RowMap(side) ==
    LET own   == Interleaved(side)
        other == Interleaved(IF side = "a" THEN "b" ELSE "a")
    IN  own \o [k \in 1 .. Surplus(Len(other), Len(own)) |-> Gap]

-----------------------------------------------------------------------------
(* The visual row that shows a byte of a side. *)
ShownIn(side, offset) ==
    LET rows == RowMap(side)
    IN  {v \in 1 .. Len(rows) : rows[v] = Real(offset \div columns)}

(* How many hunks before the k-th are no whole number of rows on a side.    *)
Rounds(side, k) ==
    Cardinality({j \in 1 .. k - 1 :
        /\ hunks[j].kind # "Equal"
        /\ (IF side = "a" THEN hunks[j].a_len ELSE hunks[j].b_len) % columns # 0})

(* The row of a byte begins inside a hunk that begins at the offset `off`.  *)
RowBeginsIn(off, i) == ((off + i) \div columns) * columns >= off

(* Equal bytes face each other up to rounding: each is shown in one visual  *)
(* row, and the row of one side is ahead of the other's by no more than one *)
(* for each change before them that is no whole number of rows on the other *)
(* side.  Where all changes are whole rows, equal bytes are in the same row, *)
(* whatever was added, removed or changed above them (build_row_maps).  The *)
(* bytes that share the row in which their hunk begins with a change are    *)
(* shown with that change, above its gaps.                                 *)
DriftIsRounding ==
    \A k \in 1 .. Len(hunks) :
       hunks[k].kind = "Equal" =>
          \A i \in 0 .. hunks[k].a_len - 1 :
             LET va == ShownIn("a", hunks[k].a_offset + i)
                 vb == ShownIn("b", hunks[k].b_offset + i)
             IN  RowBeginsIn(hunks[k].a_offset, i) /\ RowBeginsIn(hunks[k].b_offset, i) =>
                    \E v \in va, w \in vb :
                       /\ va = {v} /\ vb = {w}
                       /\ v <= w + Rounds("b", k)
                       /\ w <= v + Rounds("a", k)

=============================================================================
