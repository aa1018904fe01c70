------------------------------- MODULE Suture -------------------------------
(***************************************************************************)
(* External: the part of the `suture` crate that hxy relies on.  A         *)
(* suture::Patch is a sorted list of non-overlapping splices over a base   *)
(* source, in base coordinates.  Every patch hxy's editor produces has the *)
(* same shape: overwrites (splices that keep the length) in front of at    *)
(* most one splice that does not, a trailing delete or a tail insert.  It  *)
(* is represented by                                                       *)
(*    over  the overwritten base offsets and the byte each now shows,      *)
(*    at, del, ins   the one splice that changes the length: `del` base    *)
(*          bytes at offset `at` are replaced by `ins` (at = 0, del = 0    *)
(*          and ins = << >> when there is none).                           *)
(* Adjacent overwrites coalesce into one op in suture, so the list of ops  *)
(* is the list of maximal runs of DOMAIN over, then the length-changing    *)
(* splice: nothing is lost.                                                *)
(***************************************************************************)
EXTENDS Bytes

(* Patch::new(), and Patch::with_metadata() when the metadata is carried over. *)
EmptyPatch == [over |-> [o \in {} |-> 0], at |-> 0, del |-> 0, ins |-> << >>]

(* No op changes the length. *)
IsLengthPreserving(p) == p.del = 0 /\ p.ins = << >>

(* Patch::is_empty. *)
IsEmptyPatch(p) == IsLengthPreserving(p) /\ DOMAIN p.over = {}

(* Patch::output_len. *)
OutputLen(p, base) == Len(base) - p.del + Len(p.ins)

(* The bytes a reader of base patched by p sees. *)
View(base, p) ==
    [i \in 1 .. OutputLen(p, base) |->
        IF i - 1 \in DOMAIN p.over THEN p.over[i - 1]
        ELSE IF i <= p.at THEN base[i]
        ELSE IF i <= p.at + Len(p.ins) THEN p.ins[i - p.at]
        ELSE base[i - Len(p.ins) + p.del]]

(* Patch::write takes an overwrite unless it would overlap the splice that *)
(* changes the length.                                                     *)
AcceptsWrite(p, base, off, bytes) ==
    off + Len(bytes) <= IF IsLengthPreserving(p) THEN Len(base) ELSE p.at

(* Patch::write: overwrite in place, coalescing with its neighbours. *)
Write(p, off, bytes) ==
    LET hit == off .. (off + Len(bytes) - 1)
    IN  [p EXCEPT !.over =
            [o \in (DOMAIN p.over) \cup hit |->
                IF o \in hit THEN bytes[o - off + 1] ELSE p.over[o]]]

=============================================================================
