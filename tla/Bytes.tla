------------------------------- MODULE Bytes -------------------------------
(***************************************************************************)
(* Byte buffers as sequences.  Offsets are the 0-based offsets of the      *)
(* code; TLA+ sequences count from 1, so the byte at offset o is buf[o+1].  *)
(* Everything is defined position by position rather than by recursion, so  *)
(* that the same definitions can be evaluated by TLC and reasoned about by  *)
(* the proof system.                                                       *)
(***************************************************************************)
EXTENDS Naturals, Sequences

(* The smaller and the larger of two offsets. *)
Lesser(a, b) == IF a <= b THEN a ELSE b
Greater(a, b) == IF a >= b THEN a ELSE b

(* The n bytes of buf from offset off on. *)
Slice(buf, off, n) == [i \in 1 .. n |-> buf[off + i]]

(* Vec::splice: buf with the rem bytes at offset off replaced by ins. *)
Splice(buf, off, rem, ins) ==
    [i \in 1 .. (Len(buf) - rem + Len(ins)) |->
        IF i <= off THEN buf[i]
        ELSE IF i <= off + Len(ins) THEN ins[i - off]
        ELSE buf[i - Len(ins) + rem]]

=============================================================================
